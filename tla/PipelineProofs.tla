--------------------------- MODULE PipelineProofs ---------------------------
(***************************************************************************)
(* Proofs about Pipeline.tla, for any requests, keys, plans, budget scopes *)
(* and bounds.  The pipeline is shown to drive the limiter only as         *)
(* Limiter.tla lets its callers, so what LimiterProofs.tla proves of the   *)
(* limiter alone holds in the composition.                                 *)
(***************************************************************************)
EXTENDS Pipeline, SequenceTheorems, TLAPS

\* The limiter with its theorems, over the pipeline's variables.
LP == INSTANCE LimiterProofs

\* Nothing is left for a release to give back.
Gone(r) == r \in fired \/ ~inc[r]

\* What an exit may still have to call: before the row, after it, or on the
\* way back to the retry loop.
Before == { <<"record">>, <<"settle", "record">>, <<"release", "record">>, <<"record", "release">>,
            <<"record", "settle">>, <<"settle", "record", "release">>,
            <<"settle", "record", "settle">>, <<"release", "settle", "record">>,
            <<"release", "record", "settle">>, <<"record", "settle", "release">> }
After  == { <<"release">>, <<"settle">>, <<"settle", "release">> }
Retry  == { <<"settle">>, <<"release", "settle">> }

\* Those of them that do not include the release.
Unreleasing == { <<"record">>, <<"settle">>, <<"settle", "record">>, <<"record", "settle">>,
                 <<"settle", "record", "settle">> }

Early   == {"preflight", "acquire", "guard", "cache", "plan"}
Running == {"calling", "streaming"}
Again   == {"waiting", "rereserve", "replan"}

\* Each exit's remaining calls agree with the rows recorded.
Rows(r) ==
  /\ at[r] \notin {"exit", "done"} => rows[r] = 0
  /\ at[r] = "done" => rows[r] = 1
  /\ at[r] = "exit" =>
       \/ then[r] = "done" /\ rows[r] = 0 /\ todo[r] \in Before
       \/ then[r] = "done" /\ rows[r] = 1 /\ todo[r] \in After
       \/ then[r] = "decide" /\ rows[r] = 0 /\ todo[r] \in Retry

\* A request holds its slot through its first plan, and has none where no
\* release is to come.
Slot(r) ==
  /\ inc[r] => pc[r] = "open"
  /\ at[r] \in {"new", "preflight", "acquire"} => ~inc[r]
  /\ at[r] \in Early \cup {"new"} => retries[r] = 0
  /\ at[r] \in Early => r \notin fired
  /\ at[r] \in Running /\ retries[r] = 0 => r \notin fired
  /\ at[r] \in Again => retries[r] > 0
  /\ at[r] \in Again \cup {"decide", "done"} => Gone(r)
  /\ at[r] = "exit" /\ todo[r] \in Unreleasing => Gone(r)
  /\ at[r] = "calling" => left[r] > 0

Shape ==
  /\ kind \in [Reqs -> {"chat", "stream"}]
  /\ at \in [Reqs -> Places]
  /\ todo \in [Reqs -> Seq(Calls)]
  /\ then \in [Reqs -> {"done", "decide"}]
  /\ left \in [Reqs -> 0..MaxAttempts]
  /\ rateLimited \in [Reqs -> BOOLEAN]
  /\ retries \in [Reqs -> 0..MaxRetries]
  /\ rows \in [Reqs -> Nat]
  /\ reservations \in [Scopes -> Nat]

Inv == LP!TypeOK /\ LP!Fresh /\ Shape /\ \A r \in Reqs : Rows(r) /\ Slot(r)

-----------------------------------------------------------------------------
(* The pipeline as a caller of the limiter                                   *)

LEMMA LimiterHere ==
  /\ LP!IsFiniteSet(Reqs) /\ NoKey \notin Keys /\ KeyOf \in [Reqs -> Keys \cup {NoKey}]
  /\ LimitChoices \subseteq [rpm : Nat, tpm : Nat, concurrency : Nat]
  /\ Estimates \subseteq Int /\ MaxWindow \in Nat
<1>1. LP!IsFiniteSet(Reqs) <=> IsFiniteSet(Reqs)
  BY DEF LP!IsFiniteSet, IsFiniteSet
<1>. QED
  BY <1>1, PipelineAssumption

LEMMA InitDrives == Init => LP!Init
BY DEF Init, L!Init, LP!Init, L!Windows, LP!Windows, L!NoReq, LP!NoReq, L!NoLimit, LP!NoLimit

LEMMA AdmissionDrives ==
  ASSUME NEW r \in Reqs,
         \/ L!Resolve(r) \/ L!Cancelled(r) \/ L!Bypass(r) \/ L!ReadClock(r)
         \/ L!DenyConcurrency(r) \/ L!DenyRpm(r) \/ L!DenyTpm(r) \/ L!Release(r)
  PROVE  LP!Step(r)
<1>1. CASE L!Resolve(r) \/ L!Cancelled(r) \/ L!Bypass(r) \/ L!ReadClock(r) \/ L!Release(r)
  BY <1>1 DEF L!Resolve, L!Cancelled, L!Bypass, L!ReadClock, L!Release, L!Free, L!Limited,
       L!Return, L!NoReq, L!NoLimit, L!counters, LP!Resolve, LP!Cancelled, LP!Bypass,
       LP!ReadClock, LP!Release, LP!Free, LP!Limited, LP!Return, LP!NoReq, LP!NoLimit,
       LP!counters, LP!Step
<1>2. CASE L!DenyConcurrency(r) \/ L!DenyRpm(r) \/ L!DenyTpm(r)
  BY <1>2 DEF L!DenyConcurrency, L!DenyRpm, L!DenyTpm, L!Deny, L!Return, L!NoReq, L!NoLimit,
       L!SlotFree, L!RpmFree, L!TpmFree, L!Cap, L!Charge, L!CountRequest,
       LP!DenyConcurrency, LP!DenyRpm, LP!DenyTpm, LP!Deny, LP!Return, LP!NoReq, LP!NoLimit,
       LP!SlotFree, LP!RpmFree, LP!TpmFree, LP!Cap, LP!Charge, LP!CountRequest, LP!Step
<1>. QED
  BY <1>1, <1>2

LEMMA GrantDrives == ASSUME NEW r \in Reqs, L!Grant(r) PROVE LP!Step(r)
BY DEF L!Grant, L!Return, L!NoReq, L!NoLimit, L!SlotFree, L!RpmFree, L!TpmFree, L!Cap, L!Charge,
     L!CountRequest, L!CountTokens, L!NoteGrant, LP!Grant, LP!Return, LP!NoReq, LP!NoLimit,
     LP!SlotFree, LP!RpmFree, LP!TpmFree, LP!Cap, LP!Charge, LP!CountRequest, LP!CountTokens,
     LP!NoteGrant, LP!Step

LEMMA AroundDrives == Around => LP!Next
BY DEF Around, L!Cleanup, L!NextWindow, L!SetEnabled, L!EditPlan, L!Surviving, L!Windows,
     L!counters, LP!Next, LP!Cleanup, LP!NextWindow, LP!SetEnabled, LP!EditPlan, LP!Surviving,
     LP!Windows, LP!counters

LEMMA ServeDrives ==
  ASSUME NEW r \in Reqs, Serve(r) PROVE LP!Step(r) \/ UNCHANGED LP!vars
<1>1. CASE Open(r)
  BY <1>1, AdmissionDrives DEF Open
<1>2. CASE AcquireLimit(r)
  BY <1>2, AdmissionDrives, GrantDrives DEF AcquireLimit
<1>3. CASE Account(r)
  BY <1>3, AdmissionDrives DEF Account, Record, Settle, Release, limiter, LP!vars
<1>4. CASE ~(Open(r) \/ AcquireLimit(r) \/ Account(r))
  BY <1>4 DEF Serve, Preflight, Guard, CacheLookup, Plan, ChatAnswered, StreamOpened, StreamEnded,
       AttemptFailed, AttemptAborted, Decide, Wait, Rereserve, Replan, limiter, LP!vars
<1>. QED
  BY <1>1, <1>2, <1>3, <1>4

LEMMA NextDrives == [Next]_vars => [LP!Next]_(LP!vars)
<1>1. UNCHANGED vars => UNCHANGED LP!vars
  BY DEF vars, limiter, LP!vars
<1>. QED
  BY <1>1, ServeDrives, AroundDrives DEF Next, LP!Next

(* Every step of the pipeline is a step the limiter allows its callers, or   *)
(* leaves it alone (Pipeline.acquireLimit, the release closures it hands to  *)
(* every exit).                                                              *)
THEOREM DrivesLimiter == Spec => LP!Spec
BY InitDrives, NextDrives, PTL DEF Spec, LP!Spec

-----------------------------------------------------------------------------
(* Steps of one request                                                      *)

\* A step of r leaves the other requests as they are.
Alone(r) ==
  \A s \in Reqs \ {r} :
    /\ at'[s] = at[s] /\ todo'[s] = todo[s] /\ then'[s] = then[s] /\ rows'[s] = rows[s]
    /\ left'[s] = left[s] /\ retries'[s] = retries[s]
    /\ pc'[s] = pc[s] /\ inc'[s] = inc[s] /\ (s \in fired' <=> s \in fired)

LEMMA OthersKept ==
  ASSUME Inv, NEW r \in Reqs, Alone(r), NEW s \in Reqs, s # r
  PROVE  Rows(s)' /\ Slot(s)'
BY DEF Inv, Alone, Rows, Slot, Gone

\* The calls of every exit are sequences of calls.
LEMMA ExitTypes ==
  /\ Before \cup After \cup Retry \subseteq Seq(Calls)
  /\ Unreleasing \subseteq Before \cup After \cup Retry
BY DEF Before, After, Retry, Calls, Unreleasing

\* The bookkeeping of the retry loop changes for r only, within its types.
Routed(r) ==
  \/ route' = route
  \/ \E n \in 0..MaxAttempts, b \in BOOLEAN, m \in 0..MaxRetries :
       /\ left' = left \/ left' = [left EXCEPT ![r] = n]
       /\ rateLimited' = rateLimited \/ rateLimited' = [rateLimited EXCEPT ![r] = b]
       /\ retries' = retries \/ retries' = [retries EXCEPT ![r] = m]

RouteTypes ==
  /\ left' \in [Reqs -> 0..MaxAttempts] /\ rateLimited' \in [Reqs -> BOOLEAN]
  /\ retries' \in [Reqs -> 0..MaxRetries]

LEMMA RouteKept ==
  ASSUME Inv, NEW r \in Reqs, Routed(r)
  PROVE  RouteTypes /\ \A s \in Reqs \ {r} : left'[s] = left[s] /\ retries'[s] = retries[s]
BY DEF Inv, Shape, Routed, RouteTypes, route

\* A request that goes on, or exits, without a call of the limiter.
LEMMA GoKept ==
  ASSUME Inv, NEW r \in Reqs, NEW to \in Places, Go(r, to), UNCHANGED <<limiter, rows>>, Routed(r)
  PROVE  /\ Alone(r) /\ RouteTypes
         /\ at' \in [Reqs -> Places] /\ todo' = todo /\ then' = then /\ at'[r] = to
BY RouteKept DEF Inv, Shape, Go, Alone, limiter

LEMMA ExitKept ==
  ASSUME Inv, NEW r \in Reqs, NEW calls \in Seq(Calls), NEW to \in {"done", "decide"},
         Exit(r, calls, to), UNCHANGED <<limiter, rows>>, Routed(r)
  PROVE  /\ Alone(r) /\ RouteTypes
         /\ at' \in [Reqs -> Places] /\ todo' \in [Reqs -> Seq(Calls)]
         /\ then' \in [Reqs -> {"done", "decide"}]
         /\ at'[r] = "exit" /\ todo'[r] = calls /\ then'[r] = to
<1>1. "exit" \in Places
  BY DEF Places
<1>2. at \in [Reqs -> Places] /\ todo \in [Reqs -> Seq(Calls)] /\ then \in [Reqs -> {"done", "decide"}]
  BY DEF Inv, Shape
<1>3. /\ at' \in [Reqs -> Places] /\ at'[r] = "exit" /\ \A s \in Reqs \ {r} : at'[s] = at[s]
  BY <1>1, <1>2 DEF Exit
<1>4. /\ todo' \in [Reqs -> Seq(Calls)] /\ todo'[r] = calls
      /\ \A s \in Reqs \ {r} : todo'[s] = todo[s]
  BY <1>2 DEF Exit
<1>5. /\ then' \in [Reqs -> {"done", "decide"}] /\ then'[r] = to
      /\ \A s \in Reqs \ {r} : then'[s] = then[s]
  BY <1>2 DEF Exit
<1>. QED
  BY <1>3, <1>4, <1>5, RouteKept DEF Alone, limiter

Stepped(r) == Shape' /\ Alone(r) /\ Rows(r)' /\ Slot(r)'

\* The exits there are: to the end with one row, or to the retry loop with none.
Leads(to, calls) == (to = "done" /\ calls \in Before) \/ (to = "decide" /\ calls \in Retry)

\* An exit that makes its row, and gives back what is still held.
LEMMA Exiting ==
  ASSUME Inv, NEW r \in Reqs, NEW calls, NEW to, Exit(r, calls, to), UNCHANGED <<limiter, rows, kind>>,
         Routed(r), reservations' \in [Scopes -> Nat],
         at[r] \notin {"exit", "done"},
         Leads(to, calls),
         calls \in Unreleasing => Gone(r)
  PROVE  Stepped(r)
<1>1. calls \in Seq(Calls) /\ to \in {"done", "decide"}
  BY ExitTypes DEF Leads
<1>2. /\ Alone(r) /\ RouteTypes
      /\ at' \in [Reqs -> Places] /\ todo' \in [Reqs -> Seq(Calls)]
      /\ then' \in [Reqs -> {"done", "decide"}]
      /\ at'[r] = "exit" /\ todo'[r] = calls /\ then'[r] = to
  BY <1>1, ExitKept
<1>3. Shape'
  BY <1>2 DEF Inv, Shape, RouteTypes
<1>4. Rows(r)'
  BY <1>2 DEF Inv, Rows, Leads
<1>5. Slot(r)'
  BY <1>2 DEF Inv, Slot, Gone, limiter, Early, Running, Again
<1>. QED
  BY <1>2, <1>3, <1>4, <1>5 DEF Stepped

\* A step to a place where its slot is as it should be there.
LEMMA Going ==
  ASSUME Inv, NEW r \in Reqs, NEW to \in Places \ {"exit", "done"}, Go(r, to),
         UNCHANGED <<limiter, rows, kind>>, Routed(r), reservations' \in [Scopes -> Nat],
         at[r] \notin {"exit", "done"}, Slot(r)'
  PROVE  Stepped(r)
<1>1. /\ Alone(r) /\ RouteTypes
      /\ at' \in [Reqs -> Places] /\ todo' = todo /\ then' = then /\ at'[r] = to
  BY GoKept
<1>2. Shape'
  BY <1>1 DEF Inv, Shape, RouteTypes
<1>3. Rows(r)'
  BY <1>1 DEF Inv, Rows
<1>. QED
  BY <1>1, <1>2, <1>3 DEF Stepped

LEMMA ReservedType ==
  ASSUME Inv, NEW r \in Reqs, Reserved(r) PROVE reservations' \in [Scopes -> Nat]
BY DEF Inv, Shape, Reserved

LEMMA StillReserved == ASSUME Inv, UNCHANGED reservations PROVE reservations' \in [Scopes -> Nat]
BY DEF Inv, Shape

\* The limits are resolved: a request without a slot.
LEMMA OpenKeeps == ASSUME Inv, NEW r \in Reqs, Open(r) PROVE Stepped(r)
<1>1. /\ at[r] = "new" /\ Go(r, "preflight") /\ UNCHANGED <<kind, route, rows, reservations>>
      /\ pc' = [pc EXCEPT ![r] = "resolved"] /\ inc' = [inc EXCEPT ![r] = FALSE]
      /\ fired' = fired \ {r}
  BY DEF Open, L!Resolve
<1>2. pc \in [Reqs -> {"idle", "resolved", "timed", "open", "denied"}] /\ inc \in [Reqs -> BOOLEAN]
  BY DEF Inv, LP!TypeOK
<1>3. Alone(r)
  BY <1>1, <1>2 DEF Go, Alone, route, Inv, Shape
<1>4. Shape' /\ at'[r] = "preflight"
  BY <1>1 DEF Inv, Shape, Go, Places, route
<1>5. Rows(r)'
  BY <1>1, <1>4 DEF Inv, Rows
<1>6. Slot(r)'
  BY <1>1, <1>2, <1>4 DEF Inv, Slot, Early, Running, Again, route
<1>. QED
  BY <1>3, <1>4, <1>5, <1>6 DEF Stepped

LEMMA PreflightKeeps == ASSUME Inv, NEW r \in Reqs, Preflight(r) PROVE Stepped(r)
<1>1. at[r] = "preflight" /\ UNCHANGED <<limiter, kind, route, rows>> /\ Routed(r)
  BY DEF Preflight, Routed
<1>2. Slot(r) /\ "acquire" \in Places \ {"exit", "done"}
  BY DEF Inv, Places
<1>3. CASE Go(r, "acquire") /\ Reserved(r)
  <2>1. at'[r] = "acquire"
    BY <1>1, <1>2, <1>3, GoKept
  <2>2. Slot(r)'
    BY <1>1, <1>2, <2>1 DEF Slot, Early, Running, Again, limiter, route
  <2>. QED
    BY <1>1, <1>2, <1>3, <2>2, ReservedType, Going
<1>4. CASE Exit(r, <<"record">>, "done") /\ UNCHANGED reservations
  <2>1. Gone(r)
    BY <1>1, <1>2 DEF Slot, Gone
  <2>2. Leads("done", <<"record">>)
    BY DEF Before, Leads
  <2>3. reservations' \in [Scopes -> Nat]
    BY <1>4, StillReserved
  <2>. QED
    BY <1>1, <1>4, <2>1, <2>2, <2>3, Exiting
<1>. QED
  BY <1>3, <1>4 DEF Preflight

\* Only an admission may take a slot; a denied request has none.
LEMMA AcquireLimitKeeps == ASSUME Inv, NEW r \in Reqs, AcquireLimit(r) PROVE Stepped(r)
<1>1. at[r] = "acquire" /\ UNCHANGED <<kind, route, rows, reservations>> /\ Slot(r)
  BY DEF AcquireLimit, Inv
<1>2. pc \in [Reqs -> {"idle", "resolved", "timed", "open", "denied"}] /\ inc \in [Reqs -> BOOLEAN]
  BY DEF Inv, LP!TypeOK
<1>3. /\ fired' = fired /\ ~inc[r] /\ r \notin fired /\ retries[r] = 0
      /\ \E to \in {"timed", "open", "denied"} : pc' = [pc EXCEPT ![r] = to]
      /\ inc' = inc \/ (pc'[r] = "open" /\ \E b \in BOOLEAN : inc' = [inc EXCEPT ![r] = b])
  <2>1. ~inc[r] /\ r \notin fired /\ retries[r] = 0
    BY <1>1 DEF Slot, Early
  <2>2. CASE L!Grant(r)
    <3>1. pc' = [pc EXCEPT ![r] = "open"] /\ fired' = fired
          /\ inc' = [inc EXCEPT ![r] = L!Cap(r) > 0]
      BY <2>2 DEF L!Grant, L!Return
    <3>2. (L!Cap(r) > 0) \in BOOLEAN
      OBVIOUS
    <3>3. \E b \in BOOLEAN : inc' = [inc EXCEPT ![r] = b]
      BY <3>1, <3>2
    <3>. QED
      BY <1>2, <2>1, <3>1, <3>3
  <2>3. CASE \/ L!Cancelled(r) \/ L!Bypass(r) \/ L!ReadClock(r)
             \/ L!DenyConcurrency(r) \/ L!DenyRpm(r) \/ L!DenyTpm(r)
    BY <1>2, <2>1, <2>3 DEF L!Cancelled, L!Bypass, L!ReadClock, L!DenyConcurrency, L!DenyRpm,
         L!DenyTpm, L!Deny, L!Return
  <2>. QED
    BY <2>2, <2>3 DEF AcquireLimit
<1>4. CASE pc'[r] = "timed" /\ UNCHANGED place
  <2>1. inc' = inc
    BY <1>3, <1>4
  <2>2. Alone(r) /\ Shape' /\ Rows(r)'
    BY <1>1, <1>2, <1>3, <1>4, <2>1 DEF Inv, Alone, Shape, Rows, place, route
  <2>3. Slot(r)'
    BY <1>1, <1>3, <1>4, <2>1 DEF Slot, place, route, Early, Running, Again
  <2>. QED
    BY <2>2, <2>3 DEF Stepped
<1>5. CASE pc'[r] = "open" /\ Go(r, "guard")
  <2>1. \A s \in Reqs \ {r} : inc'[s] = inc[s]
    BY <1>2, <1>3
  <2>2. at'[r] = "guard" /\ Shape'
    BY <1>1, <1>5 DEF Go, Inv, Shape, Places, route
  <2>3. Alone(r)
    BY <1>1, <1>2, <1>3, <1>5, <2>1 DEF Inv, Shape, Go, Alone, route
  <2>4. Rows(r)' /\ Slot(r)'
    BY <1>1, <1>3, <1>5, <2>2 DEF Inv, Rows, Slot, route, Early, Running, Again
  <2>. QED
    BY <2>2, <2>3, <2>4 DEF Stepped
<1>6. CASE pc'[r] = "denied" /\ Exit(r, <<"settle", "record">>, "done")
  <2>1. inc' = inc
    BY <1>3, <1>6
  <2>2. <<"settle", "record">> \in Before /\ <<"settle", "record">> \in Seq(Calls) /\ "exit" \in Places
    BY DEF Before, Calls, Places
  <2>3. /\ at' = [at EXCEPT ![r] = "exit"] /\ todo' = [todo EXCEPT ![r] = <<"settle", "record">>]
        /\ then' = [then EXCEPT ![r] = "done"]
    BY <1>6 DEF Exit
  <2>4. Shape' /\ at'[r] = "exit" /\ todo'[r] = <<"settle", "record">> /\ then'[r] = "done"
    BY <1>1, <2>2, <2>3 DEF Inv, Shape, route
  <2>5. Alone(r)
    BY <1>1, <1>2, <1>3, <2>1, <2>3 DEF Inv, Shape, Alone, route
  <2>6. Rows(r)'
    BY <1>1, <2>2, <2>4 DEF Inv, Rows
  <2>7. Slot(r)'
    BY <1>1, <1>3, <2>1, <2>4 DEF Slot, Gone, Early, Running, Again
  <2>. QED
    BY <2>4, <2>5, <2>6, <2>7 DEF Stepped
<1>. QED
  BY <1>4, <1>5, <1>6 DEF AcquireLimit

\* The exits with a release may be taken with the slot.
LEMMA Releasing ==
  /\ \A calls \in { <<"settle", "record", "release">>, <<"release", "record">>, <<"record", "release">>,
                    <<"release", "settle", "record">>, <<"record", "settle", "release">>,
                    <<"release", "record", "settle">> } :
       Leads("done", calls) /\ calls \notin Unreleasing
  /\ Leads("decide", <<"release", "settle">>) /\ <<"release", "settle">> \notin Unreleasing
<1>1. <<"settle", "record", "release">> \notin Unreleasing
  BY DEF Unreleasing
<1>2. <<"release", "record">> \notin Unreleasing
  BY DEF Unreleasing
<1>3. <<"record", "release">> \notin Unreleasing
  BY DEF Unreleasing
<1>4. <<"release", "settle", "record">> \notin Unreleasing
  BY DEF Unreleasing
<1>5. <<"record", "settle", "release">> \notin Unreleasing
  BY DEF Unreleasing
<1>6. <<"release", "record", "settle">> \notin Unreleasing
  BY DEF Unreleasing
<1>7. <<"release", "settle">> \notin Unreleasing
  BY DEF Unreleasing
<1>. QED
  BY <1>1, <1>2, <1>3, <1>4, <1>5, <1>6, <1>7 DEF Leads, Before, Retry

\* Inbound guardrails and the semantic cache.
LEMMA GuardKeeps == ASSUME Inv, NEW r \in Reqs, Guard(r) \/ CacheLookup(r) PROVE Stepped(r)
<1>1. /\ at[r] \in {"guard", "cache"} /\ UNCHANGED <<limiter, kind, route, rows, reservations>>
      /\ Routed(r) /\ Slot(r)
  BY DEF Guard, CacheLookup, Routed, Inv
<1>2. reservations' \in [Scopes -> Nat]
  BY <1>1, StillReserved
<1>3. ASSUME NEW to \in {"cache", "plan"}, Go(r, to) PROVE Stepped(r)
  <2>1. to \in Places \ {"exit", "done"}
    BY DEF Places
  <2>2. at'[r] = to
    BY <1>1, <1>3, <2>1, GoKept
  <2>3. Slot(r)'
    BY <1>1, <1>3, <2>2 DEF Slot, Early, Running, Again, limiter, route
  <2>. QED
    BY <1>1, <1>2, <1>3, <2>1, <2>3, Going
<1>4. ASSUME NEW calls \in {<<"settle", "record", "release">>, <<"release", "record">>},
             Exit(r, calls, "done")
      PROVE  Stepped(r)
  <2>1. Leads("done", calls) /\ calls \notin Unreleasing
    BY Releasing
  <2>. QED
    BY <1>1, <1>2, <1>4, <2>1, Exiting
<1>. QED
  BY <1>3, <1>4 DEF Guard, CacheLookup

\* A plan starts its attempts.
LEMMA PlannedKeeps ==
  ASSUME Inv, NEW r \in Reqs, at[r] \in {"plan", "replan"}, Planned(r),
         UNCHANGED <<limiter, kind, rows, reservations>>
  PROVE  Stepped(r)
<1>1. PICK n \in 1..MaxAttempts : left' = [left EXCEPT ![r] = n]
  BY DEF Planned
<1>2. n \in 0..MaxAttempts /\ n > 0 /\ FALSE \in BOOLEAN /\ 0 \in 0..MaxRetries
  BY PipelineAssumption
<1>3. Routed(r)
  BY <1>1, <1>2 DEF Routed, Planned
<1>4. "calling" \in Places \ {"exit", "done"}
  BY DEF Places
<1>5. at'[r] = "calling"
  BY <1>3, <1>4, GoKept DEF Planned
<1>6. left'[r] = n /\ retries' = retries /\ retries[r] \in Nat
  BY <1>1 DEF Inv, Shape, Planned
<1>7. Slot(r)'
  BY <1>2, <1>5, <1>6 DEF Inv, Slot, Early, Running, Again, limiter, Planned
<1>8. reservations' \in [Scopes -> Nat]
  BY StillReserved
<1>. QED
  BY <1>3, <1>4, <1>7, <1>8, Going DEF Planned

LEMMA PlanKeeps == ASSUME Inv, NEW r \in Reqs, Plan(r) PROVE Stepped(r)
<1>1. at[r] = "plan" /\ UNCHANGED <<limiter, kind, rows, reservations>>
  BY DEF Plan
<1>2. CASE Planned(r)
  BY <1>1, <1>2, PlannedKeeps
<1>3. ASSUME NEW calls \in {<<"record", "release">>, <<"release", "settle", "record">>},
             Exit(r, calls, "done"), UNCHANGED route
      PROVE  Stepped(r)
  <2>1. Leads("done", calls) /\ calls \notin Unreleasing
    BY Releasing
  <2>2. Routed(r) /\ reservations' \in [Scopes -> Nat]
    BY <1>1, <1>3, StillReserved DEF Routed
  <2>. QED
    BY <1>1, <1>3, <2>1, <2>2, Exiting
<1>. QED
  BY <1>2, <1>3 DEF Plan

LEMMA AnswerKeeps ==
  ASSUME Inv, NEW r \in Reqs, ChatAnswered(r) \/ StreamEnded(r) PROVE Stepped(r)
<1>1. /\ at[r] \in {"calling", "streaming"} /\ Exit(r, <<"record", "settle", "release">>, "done")
      /\ UNCHANGED <<limiter, kind, route, rows, reservations>> /\ Routed(r)
  BY DEF ChatAnswered, StreamEnded, Routed
<1>2. Leads("done", <<"record", "settle", "release">>)
      /\ <<"record", "settle", "release">> \notin Unreleasing
  BY Releasing
<1>3. reservations' \in [Scopes -> Nat]
  BY <1>1, StillReserved
<1>. QED
  BY <1>1, <1>2, <1>3, Exiting

LEMMA StreamOpenedKeeps == ASSUME Inv, NEW r \in Reqs, StreamOpened(r) PROVE Stepped(r)
<1>1. /\ at[r] = "calling" /\ Go(r, "streaming") /\ Routed(r)
      /\ UNCHANGED <<limiter, kind, route, rows, reservations>>
  BY DEF StreamOpened, Routed
<1>2. "streaming" \in Places \ {"exit", "done"}
  BY DEF Places
<1>3. at'[r] = "streaming"
  BY <1>1, <1>2, GoKept
<1>4. Slot(r)'
  BY <1>1, <1>3 DEF Inv, Slot, Early, Running, Again, limiter, route
<1>5. reservations' \in [Scopes -> Nat]
  BY <1>1, StillReserved
<1>. QED
  BY <1>1, <1>2, <1>4, <1>5, Going

\* The last attempt of a plan leads out of it.
LEMMA ExhaustedKeeps ==
  ASSUME Inv, NEW r \in Reqs, at[r] = "calling", Exhausted(r), Routed(r),
         UNCHANGED <<limiter, kind, rows, reservations>>
  PROVE  Stepped(r)
<1>1. reservations' \in [Scopes -> Nat]
  BY StillReserved
<1>2. CASE Exit(r, <<"record", "settle", "release">>, "done")
  <2>1. Leads("done", <<"record", "settle", "release">>)
        /\ <<"record", "settle", "release">> \notin Unreleasing
    BY Releasing
  <2>. QED
    BY <1>1, <1>2, <2>1, Exiting
<1>3. CASE Exit(r, <<"release", "settle">>, "decide")
  <2>1. Leads("decide", <<"release", "settle">>) /\ <<"release", "settle">> \notin Unreleasing
    BY Releasing
  <2>. QED
    BY <1>1, <1>3, <2>1, Exiting
<1>. QED
  BY <1>2, <1>3 DEF Exhausted

LEMMA AttemptKeeps ==
  ASSUME Inv, NEW r \in Reqs, AttemptFailed(r) \/ AttemptAborted(r) PROVE Stepped(r)
<1>1. left[r] \in 0..MaxAttempts /\ retries[r] \in 0..MaxRetries /\ left[r] > 0
      /\ at[r] = "calling"
  BY DEF AttemptFailed, AttemptAborted, Inv, Shape, Slot
<1>2. left[r] - 1 \in 0..MaxAttempts /\ 0 \in 0..MaxAttempts
  BY <1>1, PipelineAssumption
<1>3. CASE AttemptAborted(r)
  <2>1. /\ left' = [left EXCEPT ![r] = 0] /\ rateLimited' = [rateLimited EXCEPT ![r] = FALSE]
        /\ retries' = retries
    BY <1>3 DEF AttemptAborted
  <2>2. Routed(r)
    BY <1>1, <1>2, <2>1 DEF Routed
  <2>. QED
    BY <1>1, <1>3, <2>2, ExhaustedKeeps DEF AttemptAborted
<1>4. CASE AttemptFailed(r)
  <2>1. PICK b \in BOOLEAN : rateLimited' = [rateLimited EXCEPT ![r] = b]
    BY <1>4 DEF AttemptFailed
  <2>2. left' = [left EXCEPT ![r] = left[r] - 1] /\ retries' = retries
    BY <1>4 DEF AttemptFailed
  <2>3. Routed(r)
    BY <1>1, <1>2, <2>1, <2>2 DEF Routed
  <2>4. CASE left[r] > 1
    <3>1. Go(r, "calling") /\ UNCHANGED <<limiter, kind, retries, rows, reservations>>
      BY <1>4, <2>4 DEF AttemptFailed
    <3>2. "calling" \in Places \ {"exit", "done"}
      BY DEF Places
    <3>3. at'[r] = "calling"
      BY <2>3, <3>1, <3>2, GoKept
    <3>4. left'[r] > 0
      BY <1>1, <2>2, <2>4 DEF Inv, Shape
    <3>5. Slot(r)'
      BY <1>1, <3>1, <3>3, <3>4 DEF Inv, Slot, Early, Running, Again, limiter
    <3>6. reservations' \in [Scopes -> Nat]
      BY <3>1, StillReserved
    <3>. QED
      BY <1>1, <2>3, <3>1, <3>2, <3>5, <3>6, Going
  <2>5. CASE ~(left[r] > 1)
    BY <1>1, <1>4, <2>3, <2>5, ExhaustedKeeps DEF AttemptFailed
  <2>. QED
    BY <2>4, <2>5
<1>. QED
  BY <1>3, <1>4

-----------------------------------------------------------------------------
(* The retry loop and the accounting calls                                   *)

LEMMA DecideKeeps == ASSUME Inv, NEW r \in Reqs, Decide(r) \/ Wait(r) PROVE Stepped(r)
<1>1. /\ at[r] \in {"decide", "waiting"} /\ UNCHANGED <<limiter, kind, left, rateLimited, rows, reservations>>
      /\ Slot(r) /\ retries[r] \in 0..MaxRetries /\ Gone(r)
  BY DEF Decide, Wait, Inv, Shape, Slot, route, Again
<1>2. reservations' \in [Scopes -> Nat]
  BY <1>1, StillReserved
<1>3. CASE Exit(r, <<"release", "record", "settle">>, "done") /\ UNCHANGED retries
  <2>1. Leads("done", <<"release", "record", "settle">>) /\ Routed(r)
    BY <1>1, <1>3, Releasing DEF Routed, route
  <2>. QED
    BY <1>1, <1>2, <1>3, <2>1, Exiting
<1>4. CASE at[r] = "decide" /\ Go(r, "waiting") /\ retries[r] < MaxRetries
           /\ retries' = [retries EXCEPT ![r] = @ + 1]
  <2>1. /\ retries[r] + 1 \in 0..MaxRetries /\ retries'[r] = retries[r] + 1
        /\ retries' = [retries EXCEPT ![r] = retries[r] + 1]
    BY <1>1, <1>4, PipelineAssumption DEF Inv, Shape
  <2>2. left[r] \in 0..MaxAttempts /\ FALSE \in BOOLEAN
    BY DEF Inv, Shape
  <2>3. Routed(r)
    BY <1>1, <2>1, <2>2 DEF Routed
  <2>4. "waiting" \in Places \ {"exit", "done"}
    BY DEF Places
  <2>5. at'[r] = "waiting"
    BY <1>1, <1>4, <2>3, <2>4, GoKept
  <2>6. Slot(r)'
    BY <1>1, <2>1, <2>5 DEF Slot, Gone, Early, Running, Again, limiter
  <2>. QED
    BY <1>1, <1>2, <1>4, <2>3, <2>4, <2>6, Going
<1>5. CASE at[r] = "waiting" /\ Go(r, "rereserve") /\ UNCHANGED retries
  <2>1. Routed(r)
    BY <1>1, <1>5 DEF Routed, route
  <2>2. "rereserve" \in Places \ {"exit", "done"}
    BY DEF Places
  <2>3. at'[r] = "rereserve"
    BY <1>1, <1>5, <2>1, <2>2, GoKept
  <2>4. Slot(r)'
    BY <1>1, <1>5, <2>3 DEF Slot, Gone, Early, Running, Again, limiter
  <2>. QED
    BY <1>1, <1>2, <1>5, <2>1, <2>2, <2>4, Going
<1>. QED
  BY <1>3, <1>4, <1>5 DEF Decide, Wait, route

LEMMA RereserveKeeps == ASSUME Inv, NEW r \in Reqs, Rereserve(r) PROVE Stepped(r)
<1>1. /\ at[r] = "rereserve" /\ UNCHANGED <<limiter, kind, route, rows>> /\ Routed(r)
      /\ Slot(r) /\ Gone(r)
  BY DEF Rereserve, Routed, Inv, Slot, Again
<1>2. CASE Go(r, "replan") /\ Reserved(r)
  <2>1. "replan" \in Places \ {"exit", "done"}
    BY DEF Places
  <2>2. at'[r] = "replan"
    BY <1>1, <1>2, <2>1, GoKept
  <2>3. Slot(r)'
    BY <1>1, <2>2 DEF Slot, Gone, Early, Running, Again, limiter, route
  <2>4. reservations' \in [Scopes -> Nat]
    BY <1>2, ReservedType
  <2>. QED
    BY <1>1, <1>2, <2>1, <2>3, <2>4, Going
<1>3. CASE Exit(r, <<"record">>, "done") /\ UNCHANGED reservations
  <2>1. Leads("done", <<"record">>)
    BY DEF Leads, Before
  <2>2. reservations' \in [Scopes -> Nat]
    BY <1>3, StillReserved
  <2>. QED
    BY <1>1, <1>3, <2>1, <2>2, Exiting
<1>. QED
  BY <1>2, <1>3 DEF Rereserve

LEMMA ReplanKeeps == ASSUME Inv, NEW r \in Reqs, Replan(r) PROVE Stepped(r)
<1>1. at[r] = "replan" /\ UNCHANGED <<limiter, kind, rows, reservations>> /\ Gone(r)
  BY DEF Replan, Inv, Slot, Again
<1>2. CASE Planned(r)
  BY <1>1, <1>2, PlannedKeeps
<1>3. CASE Exit(r, <<"settle", "record", "settle">>, "done") /\ UNCHANGED route
  <2>1. Leads("done", <<"settle", "record", "settle">>) /\ Routed(r)
    BY <1>3 DEF Leads, Before, Routed
  <2>2. reservations' \in [Scopes -> Nat]
    BY <1>1, StillReserved
  <2>. QED
    BY <1>1, <1>3, <2>1, <2>2, Exiting
<1>. QED
  BY <1>2, <1>3 DEF Replan

\* What is left of an exit after one of its calls.
Rest(t) ==
  /\ t \in Seq(Calls) /\ t # <<>> /\ Tail(t) \in Seq(Calls)
  /\ t \in Before => IF Head(t) = "record" THEN Len(t) = 1 \/ Tail(t) \in After
                     ELSE Len(t) # 1 /\ Tail(t) \in Before
  /\ t \in After => Head(t) # "record" /\ (Len(t) = 1 \/ Tail(t) \in After)
  /\ t \in Retry => Head(t) # "record" /\ (Len(t) = 1 \/ Tail(t) \in Retry)
  /\ Head(t) # "release" /\ (Len(t) = 1 \/ Tail(t) \in Unreleasing) => t \in Unreleasing

LEMMA CallsLeft == \A t \in Before \cup After \cup Retry : Rest(t)
<1>1. Rest(<<"record">>)
  <2>1. Head(<<"record">>) = "record" /\ Len(<<"record">>) = 1 /\ Tail(<<"record">>) = <<>>
    OBVIOUS
  <2>. QED
    BY <2>1 DEF Rest, Before, After, Retry, Unreleasing, Calls
<1>2. Rest(<<"settle">>)
  <2>1. Head(<<"settle">>) = "settle" /\ Len(<<"settle">>) = 1 /\ Tail(<<"settle">>) = <<>>
    OBVIOUS
  <2>. QED
    BY <2>1 DEF Rest, Before, After, Retry, Unreleasing, Calls
<1>3. Rest(<<"release">>)
  <2>1. Head(<<"release">>) = "release" /\ Len(<<"release">>) = 1 /\ Tail(<<"release">>) = <<>>
    OBVIOUS
  <2>. QED
    BY <2>1 DEF Rest, Before, After, Retry, Unreleasing, Calls
<1>4. Rest(<<"settle", "record">>)
  <2>1. Head(<<"settle", "record">>) = "settle" /\ Len(<<"settle", "record">>) = 2 /\ Tail(<<"settle", "record">>) = <<"record">>
    OBVIOUS
  <2>. QED
    BY <2>1 DEF Rest, Before, After, Retry, Unreleasing, Calls
<1>5. Rest(<<"release", "record">>)
  <2>1. Head(<<"release", "record">>) = "release" /\ Len(<<"release", "record">>) = 2 /\ Tail(<<"release", "record">>) = <<"record">>
    OBVIOUS
  <2>. QED
    BY <2>1 DEF Rest, Before, After, Retry, Unreleasing, Calls
<1>6. Rest(<<"record", "release">>)
  <2>1. Head(<<"record", "release">>) = "record" /\ Len(<<"record", "release">>) = 2 /\ Tail(<<"record", "release">>) = <<"release">>
    OBVIOUS
  <2>. QED
    BY <2>1 DEF Rest, Before, After, Retry, Unreleasing, Calls
<1>7. Rest(<<"record", "settle">>)
  <2>1. Head(<<"record", "settle">>) = "record" /\ Len(<<"record", "settle">>) = 2 /\ Tail(<<"record", "settle">>) = <<"settle">>
    OBVIOUS
  <2>. QED
    BY <2>1 DEF Rest, Before, After, Retry, Unreleasing, Calls
<1>8. Rest(<<"settle", "release">>)
  <2>1. Head(<<"settle", "release">>) = "settle" /\ Len(<<"settle", "release">>) = 2 /\ Tail(<<"settle", "release">>) = <<"release">>
    OBVIOUS
  <2>. QED
    BY <2>1 DEF Rest, Before, After, Retry, Unreleasing, Calls
<1>9. Rest(<<"release", "settle">>)
  <2>1. Head(<<"release", "settle">>) = "release" /\ Len(<<"release", "settle">>) = 2 /\ Tail(<<"release", "settle">>) = <<"settle">>
    OBVIOUS
  <2>. QED
    BY <2>1 DEF Rest, Before, After, Retry, Unreleasing, Calls
<1>10. Rest(<<"settle", "record", "release">>)
  <2>1. Head(<<"settle", "record", "release">>) = "settle" /\ Len(<<"settle", "record", "release">>) = 3 /\ Tail(<<"settle", "record", "release">>) = <<"record", "release">>
    OBVIOUS
  <2>. QED
    BY <2>1 DEF Rest, Before, After, Retry, Unreleasing, Calls
<1>11. Rest(<<"settle", "record", "settle">>)
  <2>1. Head(<<"settle", "record", "settle">>) = "settle" /\ Len(<<"settle", "record", "settle">>) = 3 /\ Tail(<<"settle", "record", "settle">>) = <<"record", "settle">>
    OBVIOUS
  <2>. QED
    BY <2>1 DEF Rest, Before, After, Retry, Unreleasing, Calls
<1>12. Rest(<<"release", "settle", "record">>)
  <2>1. Head(<<"release", "settle", "record">>) = "release" /\ Len(<<"release", "settle", "record">>) = 3 /\ Tail(<<"release", "settle", "record">>) = <<"settle", "record">>
    OBVIOUS
  <2>. QED
    BY <2>1 DEF Rest, Before, After, Retry, Unreleasing, Calls
<1>13. Rest(<<"release", "record", "settle">>)
  <2>1. Head(<<"release", "record", "settle">>) = "release" /\ Len(<<"release", "record", "settle">>) = 3 /\ Tail(<<"release", "record", "settle">>) = <<"record", "settle">>
    OBVIOUS
  <2>. QED
    BY <2>1 DEF Rest, Before, After, Retry, Unreleasing, Calls
<1>14. Rest(<<"record", "settle", "release">>)
  <2>1. Head(<<"record", "settle", "release">>) = "record" /\ Len(<<"record", "settle", "release">>) = 3 /\ Tail(<<"record", "settle", "release">>) = <<"settle", "release">>
    OBVIOUS
  <2>. QED
    BY <2>1 DEF Rest, Before, After, Retry, Unreleasing, Calls
<1>. QED
  BY <1>1, <1>2, <1>3, <1>4, <1>5, <1>6, <1>7, <1>8, <1>9, <1>10, <1>11, <1>12, <1>13, <1>14 DEF Before, After, Retry

\* An accounting call: the row, the reservations of the scopes, or the slot.
LEMMA AccountKeeps == ASSUME Inv, NEW r \in Reqs, Account(r) PROVE Stepped(r)
<1>. DEFINE last == Len(todo[r]) = 1
<1>1. /\ at[r] = "exit" /\ UNCHANGED <<kind, route>>
      /\ todo' = [todo EXCEPT ![r] = Tail(@)]
      /\ at' = [at EXCEPT ![r] = IF last THEN then[r] ELSE "exit"]
      /\ then' = [then EXCEPT ![r] = IF last THEN "done" ELSE @]
  BY DEF Account
<1>2. Rows(r) /\ Slot(r) /\ Shape
  BY DEF Inv
<1>3. todo[r] \in Before \cup After \cup Retry /\ Rest(todo[r])
  BY <1>1, <1>2, CallsLeft DEF Rows
<1>4. /\ at \in [Reqs -> Places] /\ todo \in [Reqs -> Seq(Calls)]
      /\ then \in [Reqs -> {"done", "decide"}] /\ {"exit", "done", "decide"} \subseteq Places
  BY <1>2 DEF Shape, Places
<1>. HIDE DEF last
<1>5. /\ at' \in [Reqs -> Places] /\ at'[r] = (IF last THEN then[r] ELSE "exit")
      /\ todo' \in [Reqs -> Seq(Calls)] /\ todo'[r] = Tail(todo[r])
      /\ then' \in [Reqs -> {"done", "decide"}] /\ then'[r] = (IF last THEN "done" ELSE then[r])
      /\ \A s \in Reqs \ {r} : at'[s] = at[s] /\ todo'[s] = todo[s] /\ then'[s] = then[s]
  <2>1. Tail(todo[r]) \in Seq(Calls) /\ (IF last THEN then[r] ELSE "exit") \in Places
        /\ (IF last THEN "done" ELSE then[r]) \in {"done", "decide"}
    BY <1>3, <1>4 DEF Rest
  <2>. QED
    BY <1>1, <1>4, <2>1
<1>6. CASE Head(todo[r]) = "record" /\ Record(r)
  <2>1. rows' = [rows EXCEPT ![r] = rows[r] + 1] /\ UNCHANGED <<limiter, reservations>>
    BY <1>6 DEF Record
  <2>2. /\ rows' \in [Reqs -> Nat] /\ rows'[r] = rows[r] + 1
        /\ \A s \in Reqs \ {r} : rows'[s] = rows[s]
    BY <1>2, <2>1 DEF Shape
  <2>3. Shape' /\ Alone(r)
    BY <1>1, <1>2, <1>5, <2>1, <2>2 DEF Shape, Alone, route, limiter
  <2>4. /\ then[r] = "done" /\ rows[r] = 0 /\ (last \/ Tail(todo[r]) \in After)
    BY <1>1, <1>2, <1>3, <1>6 DEF Rows, Rest, last
  <2>5. Rows(r)'
    BY <1>5, <2>2, <2>4 DEF Rows
  <2>6. last \/ Tail(todo[r]) \in Unreleasing => Gone(r)
    BY <1>1, <1>2, <1>3, <1>6 DEF Slot, Rest, last
  <2>7. Slot(r)'
    BY <1>1, <1>2, <1>4, <1>5, <2>1, <2>4, <2>6 DEF Slot, Gone, limiter, route, Early, Running, Again
  <2>. QED
    BY <2>3, <2>5, <2>7 DEF Stepped
<1>7. ASSUME Head(todo[r]) # "record", UNCHANGED rows
      PROVE  Rows(r)' /\ (last => then[r] \in {"done", "decide"})
  <2>1. \/ then[r] = "done" /\ rows[r] = 0 /\ ~last /\ Tail(todo[r]) \in Before
        \/ then[r] = "done" /\ rows[r] = 1 /\ (last \/ Tail(todo[r]) \in After)
        \/ then[r] = "decide" /\ rows[r] = 0 /\ (last \/ Tail(todo[r]) \in Retry)
    BY <1>1, <1>2, <1>3, <1>7 DEF Rows, Rest, last
  <2>. QED
    BY <1>5, <1>7, <2>1 DEF Rows
<1>8. CASE Head(todo[r]) = "settle" /\ Settle(r)
  <2>1. UNCHANGED <<limiter, rows>> /\ reservations' \in [Scopes -> Nat]
    BY <1>2, <1>8 DEF Settle, Shape
  <2>2. Shape' /\ Alone(r)
    BY <1>1, <1>2, <1>5, <2>1 DEF Shape, Alone, route, limiter
  <2>3. last \/ Tail(todo[r]) \in Unreleasing => Gone(r)
    BY <1>1, <1>2, <1>3, <1>8 DEF Slot, Rest, last
  <2>4. Slot(r)'
    BY <1>1, <1>2, <1>4, <1>5, <2>1, <2>3 DEF Slot, Gone, limiter, route, Early, Running, Again
  <2>. QED
    BY <1>7, <1>8, <2>1, <2>2, <2>4 DEF Stepped
<1>9. CASE Head(todo[r]) = "release" /\ Release(r)
  <2>1. /\ UNCHANGED <<rows, reservations, pc, inc>> /\ fired' = fired \cup {r}
    BY <1>9 DEF Release, L!Release
  <2>2. Shape' /\ Alone(r)
    BY <1>1, <1>2, <1>5, <2>1 DEF Shape, Alone, route
  <2>3. Slot(r)'
    BY <1>1, <1>2, <1>4, <1>5, <2>1 DEF Slot, Gone, route, Early, Running, Again
  <2>. QED
    BY <1>7, <1>9, <2>1, <2>2, <2>3 DEF Stepped
<1>. QED
  BY <1>6, <1>8, <1>9 DEF Account

-----------------------------------------------------------------------------
(* The invariant and what follows                                            *)

LEMMA InitInv == Init => Inv
<1>. SUFFICES ASSUME Init PROVE Inv
  OBVIOUS
<1>1. LP!TypeOK /\ LP!Fresh
  BY InitDrives, LP!InitTyped, LimiterHere
<1>2. Shape
  BY PipelineAssumption DEF Init, Shape, Places
<1>3. \A r \in Reqs : Rows(r) /\ Slot(r)
  BY DEF Init, L!Init, Rows, Slot, Early, Running, Again
<1>. QED
  BY <1>1, <1>2, <1>3 DEF Inv

LEMMA ServeKeeps == ASSUME Inv, NEW r \in Reqs, Serve(r) PROVE Stepped(r)
BY OpenKeeps, PreflightKeeps, AcquireLimitKeeps, GuardKeeps, PlanKeeps, AnswerKeeps,
   StreamOpenedKeeps, AttemptKeeps, DecideKeeps, RereserveKeeps, ReplanKeeps, AccountKeeps DEF Serve

LEMMA NextInv == Inv /\ [Next]_vars => Inv'
<1>. SUFFICES ASSUME Inv, [Next]_vars PROVE Inv'
  OBVIOUS
<1>1. LP!TypeOK' /\ LP!Fresh'
  BY NextDrives, LP!NextTyped, LimiterHere DEF Inv
<1>2. ASSUME NEW r \in Reqs, Serve(r) PROVE Inv'
  <2>1. Stepped(r)
    BY <1>2, ServeKeeps
  <2>2. \A s \in Reqs : Rows(s)' /\ Slot(s)'
    BY <2>1, OthersKept DEF Stepped
  <2>. QED
    BY <1>1, <2>1, <2>2 DEF Inv, Stepped
<1>3. CASE Around \/ UNCHANGED vars
  <2>1. UNCHANGED <<kind, place, route, rows, reservations, pc, inc, fired>>
    BY <1>3 DEF Around, L!Cleanup, L!NextWindow, L!SetEnabled, L!EditPlan, vars, limiter
  <2>2. Shape' /\ \A r \in Reqs : Rows(r)' /\ Slot(r)'
    BY <2>1 DEF Inv, Shape, Rows, Slot, Gone, place, route
  <2>. QED
    BY <1>1, <2>2 DEF Inv
<1>. QED
  BY <1>2, <1>3 DEF Next

LEMMA Always == Spec => []Inv
BY InitInv, NextInv, PTL DEF Spec

(* The state of the composition stays typed, the limiter's part of it       *)
(* included.                                                                *)
THEOREM Typing == Spec => []TypeOK
<1>1. Inv => TypeOK
  BY DEF Inv, Shape, TypeOK, LP!TypeOK, L!TypeOK, LP!Windows, L!Windows, LP!Limits, L!Limits
<1>. QED
  BY <1>1, Always, PTL

(* Whichever exits of Chat, Stream and streamExec a request takes, its      *)
(* retries included, it leaves one usage row.                               *)
THEOREM OneRowEach == Spec => []OneRow
<1>1. Inv => OneRow
  BY DEF Inv, Rows, OneRow
<1>. QED
  BY <1>1, Always, PTL

(* A request keeps the slot it was admitted with until its first plan is    *)
(* over (streamExec, the completion functions).                             *)
THEOREM SlotsKept == Spec => []SlotWhileUpstream
<1>1. Inv => SlotWhileUpstream
  BY DEF Inv, Slot, SlotWhileUpstream, Running
<1>. QED
  BY <1>1, Always, PTL

LEMMA SameCardinality == ASSUME NEW S PROVE LP!Cardinality(S) = Cardinality(S)
BY Zenon DEF LP!Cardinality, Cardinality

(* No exit forgets the release closure: with what LimiterProofs shows of    *)
(* the counter, a key's slots are those of requests still on their way.     *)
THEOREM SlotsReturned == Spec => []SlotReturned
<1>1. Inv /\ LP!SlotAccounting => SlotReturned
  <2>. SUFFICES ASSUME Inv, LP!SlotAccounting, NEW k \in Keys
                PROVE  concurrency[k] = Cardinality(
                         {r \in Reqs : KeyOf[r] = k /\ inc[r] /\ r \notin fired /\ at[r] # "done"})
    BY DEF SlotReturned
  <2>1. LP!Holders(k) =
          {r \in Reqs : KeyOf[r] = k /\ inc[r] /\ r \notin fired /\ at[r] # "done"}
    BY DEF Inv, Slot, Gone, LP!Holders
  <2>. QED
    BY <2>1, SameCardinality DEF LP!SlotAccounting
<1>2. LP!Spec => []LP!SlotAccounting
  BY LP!SlotsAccounted, LimiterHere, PTL
<1>. QED
  BY <1>1, <1>2, Always, DrivesLimiter, PTL
=============================================================================

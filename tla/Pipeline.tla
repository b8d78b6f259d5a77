----------------------------- MODULE Pipeline -----------------------------
(***************************************************************************)
(* The life of a chat or streaming request through                         *)
(* backend/internal/pipeline/pipeline.go (Chat, Stream, streamExec,        *)
(* pumpStream), composed with the limiter of Limiter.tla.                  *)
(*                                                                         *)
(* Each exit of the two functions makes its own sequence of accounting     *)
(* calls: meter.Record ("record"), budget Confirm or Release ("settle")    *)
(* and the limiter's release closure ("release").  The calls of one exit   *)
(* are separate steps, so other requests run between them.  What Check     *)
(* decides is Budget.tla's subject: here it may pass or block.             *)
(***************************************************************************)
EXTENDS Integers, Sequences, FiniteSets

CONSTANTS
  Reqs, Keys, NoKey, KeyOf, LimitChoices, Estimates, MaxWindow,   \* see Limiter.tla
  Scopes,         \* budget scopes that carry a hard budget
  ScopesOf,       \* ScopesOf[r]: those of request r
  MaxAttempts,    \* bound on the attempts of one plan
  MaxRetries      \* maxRateLimitRetries

ASSUME PipelineAssumption ==
  /\ IsFiniteSet(Reqs) /\ NoKey \notin Keys /\ KeyOf \in [Reqs -> Keys \cup {NoKey}]
  /\ LimitChoices \subseteq [rpm : Nat, tpm : Nat, concurrency : Nat]
  /\ Estimates \subseteq Int /\ MaxWindow \in Nat
  /\ ScopesOf \in [Reqs -> SUBSET Scopes]
  /\ MaxAttempts \in Nat \ {0} /\ MaxRetries \in Nat

VARIABLES enabled, window, plan, rpm, tpm, concurrency, pc, req, inc, fired, granted

L == INSTANCE Limiter

VARIABLES
  kind,           \* kind[r]: "chat" or "stream"
  at,             \* at[r]: where the request is
  todo,           \* todo[r]: accounting calls the current exit has still to make
  then,           \* then[r]: where it goes after them
  left,           \* attempts left in the plan being executed
  rateLimited,    \* the last attempt ended in a retryable rate limit
  retries,        \* rlRetries
  rows,           \* usage rows recorded for the request
  reservations    \* Engine.reservations of Budget.tla

limiter == <<enabled, window, plan, rpm, tpm, concurrency, pc, req, inc, fired, granted>>
place   == <<at, todo, then>>
route   == <<left, rateLimited, retries>>
vars    == <<limiter, kind, place, route, rows, reservations>>

Places == {"new", "preflight", "acquire", "guard", "cache", "plan", "calling", "streaming",
           "decide", "waiting", "rereserve", "replan", "exit", "done"}
Calls  == {"record", "settle", "release"}

TypeOK ==
  /\ L!TypeOK
  /\ kind \in [Reqs -> {"chat", "stream"}]
  /\ at \in [Reqs -> Places]
  /\ todo \in [Reqs -> Seq(Calls)]
  /\ then \in [Reqs -> {"done", "decide"}]
  /\ left \in [Reqs -> 0..MaxAttempts]
  /\ rateLimited \in [Reqs -> BOOLEAN]
  /\ retries \in [Reqs -> 0..MaxRetries]
  /\ rows \in [Reqs -> Nat]
  /\ reservations \in [Scopes -> Nat]

Init ==
  /\ L!Init
  /\ kind \in [Reqs -> {"chat", "stream"}]
  /\ at = [r \in Reqs |-> "new"]
  /\ todo = [r \in Reqs |-> <<>>]
  /\ then = [r \in Reqs |-> "done"]
  /\ left = [r \in Reqs |-> 0]
  /\ rateLimited = [r \in Reqs |-> FALSE]
  /\ retries = [r \in Reqs |-> 0]
  /\ rows = [r \in Reqs |-> 0]
  /\ reservations = [s \in Scopes |-> 0]

Go(r, to) == at' = [at EXCEPT ![r] = to] /\ UNCHANGED <<todo, then>>

\* An exit: r makes these calls, one by one, and goes on to `to'.
Exit(r, calls, to) ==
  /\ at' = [at EXCEPT ![r] = "exit"]
  /\ todo' = [todo EXCEPT ![r] = calls]
  /\ then' = [then EXCEPT ![r] = to]

Chat(r) == kind[r] = "chat"

\* Reserve has passed: every hard budget of the request's scopes holds one more.
Reserved(r) == reservations' = [s \in Scopes |->
                                 IF s \in ScopesOf[r] THEN reservations[s] + 1 ELSE reservations[s]]
---------------------------------------------------------------------------
(* Accounting calls *)

Record(r) == rows' = [rows EXCEPT ![r] = @ + 1] /\ UNCHANGED <<limiter, reservations>>

Settle(r) ==
  /\ reservations' = [s \in Scopes |-> IF s \in ScopesOf[r] THEN 0 ELSE reservations[s]]
  /\ UNCHANGED <<limiter, rows>>

Release(r) == L!Release(r) /\ UNCHANGED <<rows, reservations>>

Account(r) ==
  /\ at[r] = "exit"
  /\ \/ Head(todo[r]) = "record" /\ Record(r)
     \/ Head(todo[r]) = "settle" /\ Settle(r)
     \/ Head(todo[r]) = "release" /\ Release(r)
  /\ todo' = [todo EXCEPT ![r] = Tail(@)]
  /\ at' = [at EXCEPT ![r] = IF Len(todo[r]) = 1 THEN then[r] ELSE "exit"]
  /\ then' = [then EXCEPT ![r] = IF Len(todo[r]) = 1 THEN "done" ELSE @]
  /\ UNCHANGED <<kind, route>>
---------------------------------------------------------------------------
(* Up to the plan *)

\* The gateway resolves the limits of the key's plan.
Open(r) ==
  /\ at[r] = "new"
  /\ L!Resolve(r)
  /\ Go(r, "preflight")
  /\ UNCHANGED <<kind, route, rows, reservations>>

Preflight(r) ==
  /\ at[r] = "preflight"
  /\ \/ Go(r, "acquire") /\ Reserved(r)
     \/ Exit(r, <<"record">>, "done") /\ UNCHANGED reservations
  /\ UNCHANGED <<limiter, kind, route, rows>>

\* One step of Acquire; a denied request has no release closure to call.
AcquireLimit(r) ==
  /\ at[r] = "acquire"
  /\ \/ L!Cancelled(r) \/ L!Bypass(r) \/ L!ReadClock(r)
     \/ L!Grant(r) \/ L!DenyConcurrency(r) \/ L!DenyRpm(r) \/ L!DenyTpm(r)
  /\ \/ pc'[r] = "timed" /\ UNCHANGED place
     \/ pc'[r] = "open" /\ Go(r, "guard")
     \/ pc'[r] = "denied" /\ Exit(r, <<"settle", "record">>, "done")
  /\ UNCHANGED <<kind, route, rows, reservations>>

\* Inbound guardrails; a blocked stream does not settle its reservation.
Guard(r) ==
  /\ at[r] = "guard"
  /\ \/ Go(r, IF Chat(r) THEN "cache" ELSE "plan")
     \/ Exit(r, IF Chat(r) THEN <<"settle", "record", "release">>
                           ELSE <<"release", "record">>, "done")
  /\ UNCHANGED <<limiter, kind, route, rows, reservations>>

CacheLookup(r) ==
  /\ at[r] = "cache"
  /\ Go(r, "plan") \/ Exit(r, <<"settle", "record", "release">>, "done")
  /\ UNCHANGED <<limiter, kind, route, rows, reservations>>

Planned(r) ==
  /\ \E n \in 1..MaxAttempts : left' = [left EXCEPT ![r] = n]
  /\ Go(r, "calling")
  /\ UNCHANGED <<rateLimited, retries>>

\* Faulty variant: the stream's planning failure keeps the slot.
PlanKeepingSlot(r) ==
  /\ at[r] = "plan"
  /\ \/ Planned(r)
     \/ /\ Exit(r, IF Chat(r) THEN <<"record", "release">> ELSE <<"settle", "record">>, "done")
        /\ UNCHANGED route
  /\ UNCHANGED <<limiter, kind, rows, reservations>>

\* No account is usable; a chat does not settle its reservation.
Plan(r) ==
  /\ at[r] = "plan"
  /\ \/ Planned(r)
     \/ /\ Exit(r, IF Chat(r) THEN <<"record", "release">>
                              ELSE <<"release", "settle", "record">>, "done")
        /\ UNCHANGED route
  /\ UNCHANGED <<limiter, kind, rows, reservations>>
---------------------------------------------------------------------------
(* Attempts *)

\* Upstream answers a chat; outbound guardrails change the status, not the calls.
ChatAnswered(r) ==
  /\ at[r] = "calling" /\ Chat(r)
  /\ Exit(r, <<"record", "settle", "release">>, "done")
  /\ UNCHANGED <<limiter, kind, route, rows, reservations>>

StreamOpened(r) ==
  /\ at[r] = "calling" /\ ~Chat(r)
  /\ Go(r, "streaming")
  /\ UNCHANGED <<limiter, kind, route, rows, reservations>>

\* The stream ends: completely, by an error, a stall, a block or the client's
\* departure, in the pump or in the direct path's completion function.
StreamEnded(r) ==
  /\ at[r] = "streaming"
  /\ Exit(r, <<"record", "settle", "release">>, "done")
  /\ UNCHANGED <<limiter, kind, route, rows, reservations>>

\* No attempt is left, or the last error forbids another.
Exhausted(r) ==
  IF Chat(r) THEN Exit(r, <<"record", "settle", "release">>, "done")
             ELSE Exit(r, <<"release", "settle">>, "decide")

\* Faulty variant: a stream that falls back gives its slot up first.
AttemptFailedReleasing(r) ==
  /\ at[r] = "calling"
  /\ left' = [left EXCEPT ![r] = @ - 1]
  /\ \E rl \in BOOLEAN : rateLimited' = [rateLimited EXCEPT ![r] = rl]
  /\ IF left[r] > 1 THEN Go(r, "calling") /\ L!Release(r) ELSE Exhausted(r) /\ UNCHANGED limiter
  /\ UNCHANGED <<kind, retries, rows, reservations>>

\* A fallbackable failure: the next attempt, if there is one.
AttemptFailed(r) ==
  /\ at[r] = "calling"
  /\ left' = [left EXCEPT ![r] = @ - 1]
  /\ \E rl \in BOOLEAN : rateLimited' = [rateLimited EXCEPT ![r] = rl]
  /\ IF left[r] > 1 THEN Go(r, "calling") ELSE Exhausted(r)
  /\ UNCHANGED <<limiter, kind, retries, rows, reservations>>

AttemptAborted(r) ==
  /\ at[r] = "calling"
  /\ left' = [left EXCEPT ![r] = 0]
  /\ rateLimited' = [rateLimited EXCEPT ![r] = FALSE]
  /\ Exhausted(r)
  /\ UNCHANGED <<limiter, kind, retries, rows, reservations>>
---------------------------------------------------------------------------
(* The rate-limit retry loop of Stream *)

\* Faulty variant: the retries are not counted.
DecideUncounted(r) ==
  /\ at[r] = "decide"
  /\ \/ rateLimited[r] /\ Go(r, "waiting")
     \/ ~rateLimited[r] /\ Exit(r, <<"release", "record", "settle">>, "done")
  /\ UNCHANGED <<limiter, kind, route, rows, reservations>>

\* shouldRetryStreamRateLimit
Decide(r) ==
  /\ at[r] = "decide"
  /\ IF rateLimited[r] /\ retries[r] < MaxRetries
       THEN /\ Go(r, "waiting")
            /\ retries' = [retries EXCEPT ![r] = @ + 1]
       ELSE /\ Exit(r, <<"release", "record", "settle">>, "done")
            /\ UNCHANGED retries
  /\ UNCHANGED <<limiter, kind, left, rateLimited, rows, reservations>>

\* The pause is over, or the client goes away during it.
Wait(r) ==
  /\ at[r] = "waiting"
  /\ Go(r, "rereserve") \/ Exit(r, <<"release", "record", "settle">>, "done")
  /\ UNCHANGED <<limiter, kind, route, rows, reservations>>

\* The budget is reserved again; the limiter is not asked again.
Rereserve(r) ==
  /\ at[r] = "rereserve"
  /\ \/ Go(r, "replan") /\ Reserved(r)
     \/ Exit(r, <<"record">>, "done") /\ UNCHANGED reservations
  /\ UNCHANGED <<limiter, kind, route, rows>>

\* Faulty variant: the failed re-plan is recorded locally as well.
ReplanRecordingTwice(r) ==
  /\ at[r] = "replan"
  /\ \/ Planned(r)
     \/ Exit(r, <<"settle", "record", "record", "settle">>, "done") /\ UNCHANGED route
  /\ UNCHANGED <<limiter, kind, rows, reservations>>

Replan(r) ==
  /\ at[r] = "replan"
  /\ \/ Planned(r)
     \/ Exit(r, <<"settle", "record", "settle">>, "done") /\ UNCHANGED route
  /\ UNCHANGED <<limiter, kind, rows, reservations>>
---------------------------------------------------------------------------
Serve(r) ==
  \/ Open(r) \/ Preflight(r) \/ AcquireLimit(r) \/ Guard(r) \/ CacheLookup(r) \/ Plan(r)
  \/ ChatAnswered(r) \/ StreamOpened(r) \/ StreamEnded(r)
  \/ AttemptFailed(r) \/ AttemptAborted(r)
  \/ Decide(r) \/ Wait(r) \/ Rereserve(r) \/ Replan(r) \/ Account(r)

\* What happens around the requests inside the limiter.
Around ==
  /\ \/ \E t \in 0..MaxWindow : L!Cleanup(t)
     \/ L!NextWindow \/ L!SetEnabled
     \/ \E k \in Keys : L!EditPlan(k)
  /\ UNCHANGED <<kind, place, route, rows, reservations>>

Next == Around \/ \E r \in Reqs : Serve(r)

\* Goroutines are scheduled; upstream calls and streams end, at the latest by
\* the request timeout or the stall timer; waiting is a timer.
Spec == Init /\ [][Next]_vars /\ \A r \in Reqs : WF_vars(Serve(r))
---------------------------------------------------------------------------
(* Properties *)

(* Every request, whichever of the exits it takes, leaves exactly one usage  *)
(* row ("the single persistence path for every terminal request status").    *)
OneRow == \A r \in Reqs : rows[r] <= 1 /\ (at[r] = "done" => rows[r] = 1)

(* A request that has returned holds no slot of its key: no exit of Chat,    *)
(* Stream or the pump forgets the release closure.                           *)
SlotReturned ==
  \A k \in Keys : concurrency[k] =
    Cardinality({r \in Reqs : KeyOf[r] = k /\ inc[r] /\ r \notin fired /\ at[r] # "done"})

(* While a request's first plan is being executed, falling back or streaming *)
(* included, it keeps the slot it was admitted with.                         *)
SlotWhileUpstream ==
  \A r \in Reqs : (at[r] \in {"calling", "streaming"} /\ retries[r] = 0) => r \notin fired

(* Every request ends: fallback and the rate-limit retry loop are bounded.   *)
EveryRequestEnds == \A r \in Reqs : <>(at[r] = "done")

(* "After the request completes, call Confirm() with the actual cost, or     *)
(* Release() if the request failed before metering" (budget.go): once all    *)
(* requests have returned, nothing is reserved.                              *)
ReservationsSettled ==
  (\A r \in Reqs : at[r] = "done") => \A s \in Scopes : reservations[s] = 0
============================================================================

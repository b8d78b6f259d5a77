------------------------------ MODULE Limiter ------------------------------
(***************************************************************************)
(* The in-memory rate limiter, backend/internal/limits/limits.go: Memory.  *)
(*                                                                         *)
(* Acquire reads the switch and the clock BEFORE it takes the mutex, then  *)
(* decides under it, so a request can reach the critical section with a    *)
(* clock reading from a window that is already over.  Time is counted in   *)
(* windows (m.window): `window' is the index of the current one, and the   *)
(* bucket of window w expires when window w + 1 starts.                    *)
(*                                                                         *)
(* A request identifier names a goroutine that may serve one request after *)
(* another.  The limits it carries were read from its key's plan earlier   *)
(* (Resolver.Resolve), so they can be out of date when they are enforced.  *)
(***************************************************************************)
EXTENDS Integers, FiniteSets

CONSTANTS
  Reqs,            \* requests in the process
  Keys,            \* API keys
  NoKey,           \* the empty APIKeyID of an unauthenticated request
  KeyOf,           \* KeyOf[r]: the key request r came with
  LimitChoices,    \* the limits an administrator may give a plan
  Estimates,       \* token estimates a request may carry
  MaxWindow        \* bound: the clock stops in this window

ASSUME LimiterAssumption ==
  /\ IsFiniteSet(Reqs)
  /\ NoKey \notin Keys
  /\ KeyOf \in [Reqs -> Keys \cup {NoKey}]
  /\ LimitChoices \subseteq [rpm : Nat, tpm : Nat, concurrency : Nat]
  /\ Estimates \subseteq Int
  /\ MaxWindow \in Nat

VARIABLES
  enabled,       \* Memory.enabled
  window,        \* the window the clock is in
  plan,          \* plan[k]: the limits the store holds for key k
  rpm,           \* rpm[k][w]: count of the request bucket of window w, 0 when absent
  tpm,           \* tpm[k][w]: count of the token bucket of window w, 0 when absent
  concurrency,   \* Memory.concurrency, 0 when absent
  pc,            \* pc[r]: where the request is in Acquire and after it
  req,           \* req[r]: limits, token estimate and clock reading, until it is decided
  inc,           \* inc[r]: concurrencyInc, captured by the release closure
  fired,         \* requests whose release closure's sync.Once has run
  granted        \* history: admissions and tokens charged to the window the clock was in

vars == <<enabled, window, plan, rpm, tpm, concurrency, pc, req, inc, fired, granted>>

Windows == 0..MaxWindow
Limits  == [rpm : Nat, tpm : Nat, concurrency : Nat]
NoLimit == [rpm |-> 0, tpm |-> 0, concurrency |-> 0]
NoReq   == [limits |-> NoLimit, tokens |-> 0, now |-> 0]

TypeOK ==
  /\ enabled \in BOOLEAN
  /\ window \in Windows
  /\ plan \in [Keys -> LimitChoices]
  /\ rpm \in [Keys -> [Windows -> Nat]]
  /\ tpm \in [Keys -> [Windows -> Nat]]
  /\ concurrency \in [Keys -> Nat]
  /\ pc \in [Reqs -> {"idle", "resolved", "timed", "open", "denied"}]
  /\ req \in [Reqs -> [limits : Limits, tokens : Int, now : Windows]]
  /\ inc \in [Reqs -> BOOLEAN]
  /\ fired \in SUBSET Reqs
  /\ granted \in [Keys -> [Windows -> [requests : Nat, tokens : Nat]]]

Init ==
  /\ enabled \in BOOLEAN
  /\ window = 0
  /\ plan \in [Keys -> LimitChoices]
  /\ rpm = [k \in Keys |-> [w \in Windows |-> 0]]
  /\ tpm = [k \in Keys |-> [w \in Windows |-> 0]]
  /\ concurrency = [k \in Keys |-> 0]
  /\ pc = [r \in Reqs |-> "idle"]
  /\ req = [r \in Reqs |-> NoReq]
  /\ inc = [r \in Reqs |-> FALSE]
  /\ fired = {}
  /\ granted = [k \in Keys |-> [w \in Windows |-> [requests |-> 0, tokens |-> 0]]]

counters == <<rpm, tpm, concurrency, granted>>

\* Acquire returns: its local variables are gone.
Return(r, to) ==
  /\ pc' = [pc EXCEPT ![r] = to]
  /\ req' = [req EXCEPT ![r] = NoReq]
---------------------------------------------------------------------------
(* Before the mutex *)

\* Goroutine r is free for a new request: it has none, the last one was
\* denied, or the last one's release has run.
Free(r) == pc[r] \in {"idle", "denied"} \/ (pc[r] = "open" /\ r \in fired)

\* The limits of the key's plan are read, and the prompt is estimated.
Resolve(r) ==
  /\ Free(r)
  /\ \E t \in Estimates :
       req' = [req EXCEPT ![r] = [limits |-> IF KeyOf[r] = NoKey THEN NoLimit ELSE plan[KeyOf[r]],
                                  tokens |-> t, now |-> 0]]
  /\ pc' = [pc EXCEPT ![r] = "resolved"]
  /\ inc' = [inc EXCEPT ![r] = FALSE]
  /\ fired' = fired \ {r}
  /\ UNCHANGED <<enabled, window, plan, counters>>

\* The request's context is already cancelled: Acquire returns its error.
Cancelled(r) ==
  /\ pc[r] = "resolved"
  /\ Return(r, "denied")
  /\ UNCHANGED <<enabled, window, plan, counters, inc, fired>>

Limited(r) == enabled /\ KeyOf[r] # NoKey

\* Limiter off or no key: admitted with a release that does nothing.
Bypass(r) ==
  /\ pc[r] = "resolved"
  /\ ~Limited(r)
  /\ Return(r, "open")
  /\ UNCHANGED <<enabled, window, plan, counters, inc, fired>>

\* A negative estimate is clamped, the clock is read, the mutex is not yet held.
ReadClock(r) ==
  /\ pc[r] = "resolved"
  /\ Limited(r)
  /\ req' = [req EXCEPT ![r] = [limits |-> @.limits, now |-> window,
                                tokens |-> IF @.tokens < 0 THEN 0 ELSE @.tokens]]
  /\ pc' = [pc EXCEPT ![r] = "timed"]
  /\ UNCHANGED <<enabled, window, plan, counters, inc, fired>>
---------------------------------------------------------------------------
(* Under the mutex *)

Cap(r)    == req[r].limits.concurrency
Charge(r) == IF req[r].tokens <= 0 THEN 1 ELSE req[r].tokens

\* The three checks, each against the request's own limits; 0 is no limit.
SlotFree(r) == Cap(r) > 0 => concurrency[KeyOf[r]] < Cap(r)
RpmFree(r)  == req[r].limits.rpm > 0 => rpm[KeyOf[r]][req[r].now] + 1 <= req[r].limits.rpm
TpmFree(r)  == req[r].limits.tpm > 0 =>
                 tpm[KeyOf[r]][req[r].now] + Charge(r) <= req[r].limits.tpm

\* Counts the request in its window's request bucket.
CountRequest(r) ==
  rpm' = IF req[r].limits.rpm > 0
           THEN [rpm EXCEPT ![KeyOf[r]][req[r].now] = @ + 1] ELSE rpm

CountTokens(r) ==
  tpm' = IF req[r].limits.tpm > 0
           THEN [tpm EXCEPT ![KeyOf[r]][req[r].now] = @ + Charge(r)] ELSE tpm

\* What the window the clock is really in was charged; a straggler that read
\* the clock in an earlier window is not charged to it.
NoteGrant(r) ==
  granted' = IF req[r].now # window THEN granted
             ELSE [granted EXCEPT ![KeyOf[r]][window] =
                    [requests |-> IF req[r].limits.rpm > 0 THEN @.requests + 1 ELSE @.requests,
                     tokens   |-> IF req[r].limits.tpm > 0 THEN @.tokens + Charge(r) ELSE @.tokens]]

\* All three checks pass: the slot is taken and both buckets are charged.
Grant(r) ==
  /\ pc[r] = "timed"
  /\ SlotFree(r) /\ RpmFree(r) /\ TpmFree(r)
  /\ concurrency' = IF Cap(r) > 0 THEN [concurrency EXCEPT ![KeyOf[r]] = @ + 1] ELSE concurrency
  /\ inc' = [inc EXCEPT ![r] = Cap(r) > 0]
  /\ CountRequest(r) /\ CountTokens(r) /\ NoteGrant(r)
  /\ Return(r, "open")
  /\ UNCHANGED <<enabled, window, plan, fired>>

Deny(r) ==
  /\ Return(r, "denied")
  /\ UNCHANGED <<enabled, window, plan, concurrency, tpm, inc, fired, granted>>

DenyConcurrency(r) ==
  /\ pc[r] = "timed" /\ ~SlotFree(r)
  /\ Deny(r) /\ UNCHANGED rpm

\* The slot taken a moment before is given back, so the counter is unchanged.
DenyRpm(r) ==
  /\ pc[r] = "timed" /\ SlotFree(r) /\ ~RpmFree(r)
  /\ Deny(r) /\ UNCHANGED rpm

\* Faulty variant: the token check forgets to give the slot back.
DenyTpmKeepingSlot(r) ==
  /\ pc[r] = "timed" /\ SlotFree(r) /\ RpmFree(r) /\ ~TpmFree(r)
  /\ concurrency' = IF Cap(r) > 0 THEN [concurrency EXCEPT ![KeyOf[r]] = @ + 1] ELSE concurrency
  /\ CountRequest(r)
  /\ Return(r, "denied")
  /\ UNCHANGED <<enabled, window, plan, tpm, inc, fired, granted>>

\* The slot is given back, the request bucket stays charged.
DenyTpm(r) ==
  /\ pc[r] = "timed" /\ SlotFree(r) /\ RpmFree(r) /\ ~TpmFree(r)
  /\ Deny(r) /\ CountRequest(r)

\* Faulty variants: no sync.Once, and no floor either.
ReleaseEveryTime(r) ==
  /\ pc[r] = "open"
  /\ fired' = fired \cup {r}
  /\ concurrency' = IF inc[r]
                      THEN [concurrency EXCEPT ![KeyOf[r]] = IF @ <= 1 THEN 0 ELSE @ - 1]
                      ELSE concurrency
  /\ UNCHANGED <<enabled, window, plan, rpm, tpm, pc, req, inc, granted>>
ReleaseBelowZero(r) ==
  /\ pc[r] = "open"
  /\ fired' = fired \cup {r}
  /\ concurrency' = IF inc[r] THEN [concurrency EXCEPT ![KeyOf[r]] = @ - 1] ELSE concurrency
  /\ UNCHANGED <<enabled, window, plan, rpm, tpm, pc, req, inc, granted>>

\* The release closure, which callers may call any number of times.
Release(r) ==
  /\ pc[r] = "open"
  /\ fired' = fired \cup {r}
  /\ concurrency' = IF inc[r] /\ r \notin fired
                      THEN [concurrency EXCEPT ![KeyOf[r]] = IF @ <= 1 THEN 0 ELSE @ - 1]
                      ELSE concurrency
  /\ UNCHANGED <<enabled, window, plan, rpm, tpm, pc, req, inc, granted>>

\* Faulty variant: the window that is still running counts as expired.
SurvivingAfter(bucket, t) == [w \in Windows |-> IF w <= t THEN 0 ELSE bucket[w]]

\* The buckets that have not expired in window t.
Surviving(bucket, t) == [w \in Windows |-> IF w < t THEN 0 ELSE bucket[w]]

\* The cleanup loop drops expired buckets; it too read the clock, in window t,
\* before it took the mutex.
Cleanup(t) ==
  /\ t <= window
  /\ rpm' = [k \in Keys |-> Surviving(rpm[k], t)]
  /\ tpm' = [k \in Keys |-> Surviving(tpm[k], t)]
  /\ UNCHANGED <<enabled, window, plan, concurrency, pc, req, inc, fired, granted>>
---------------------------------------------------------------------------
(* Around the limiter *)

NextWindow ==
  /\ window < MaxWindow
  /\ window' = window + 1
  /\ UNCHANGED <<enabled, plan, counters, pc, req, inc, fired>>

\* The dashboard's rate-limit switch.
SetEnabled ==
  /\ enabled' = ~enabled
  /\ UNCHANGED <<window, plan, counters, pc, req, inc, fired>>

EditPlan(k) ==
  /\ \E l \in LimitChoices : plan' = [plan EXCEPT ![k] = l]
  /\ UNCHANGED <<enabled, window, counters, pc, req, inc, fired>>

\* One step of request r inside the limiter.
Step(r) ==
  \/ Resolve(r) \/ Cancelled(r) \/ Bypass(r) \/ ReadClock(r)
  \/ Grant(r) \/ DenyConcurrency(r) \/ DenyRpm(r) \/ DenyTpm(r)
  \/ Release(r)

Next ==
  \/ \E r \in Reqs : Step(r)
  \/ \E t \in Windows : Cleanup(t)
  \/ NextWindow
  \/ SetEnabled
  \/ \E k \in Keys : EditPlan(k)

Spec == Init /\ [][Next]_vars
---------------------------------------------------------------------------
(* Properties *)

Holders(k) == {r \in Reqs : KeyOf[r] = k /\ pc[r] = "open" /\ inc[r] /\ r \notin fired}

(* The counter of a key is exactly the number of requests that were admitted *)
(* under a concurrency limit and whose release has not run: no denial path,  *)
(* repeated release or switch of the limiter leaks or steals a slot.         *)
SlotAccounting == \A k \in Keys : concurrency[k] = Cardinality(Holders(k))

(* The requests and tokens admitted in a window by callers whose clock       *)
(* reading is current never exceed the limits the last of them carried,      *)
(* although cleanup runs concurrently and plans are edited: the bucket of    *)
(* the current window is never dropped.                                      *)
WindowCap ==
  [][\A r \in Reqs :
       LET g == granted[KeyOf[r]][window]'
           l == req[r].limits
       IN (pc[r] = "timed" /\ pc'[r] = "open" /\ req[r].now = window) =>
             /\ l.rpm > 0 => g.requests <= l.rpm
             /\ l.tpm > 0 => g.tokens <= l.tpm]_vars

\* The limiter implements the pool of slots of SlotPool.tla.
Pool == INSTANCE SlotPool WITH
          holders <- [k \in Keys |-> Holders(k)],
          asked   <- [r \in Reqs |-> req[r].limits.concurrency],
          Caps    <- {0} \cup {l.concurrency : l \in LimitChoices}

(* Every step that changes who holds a slot is an admission below the limit  *)
(* the request carries or the departure of one holder (Memory.Acquire and    *)
(* its release closure against "requests in flight per key").                *)
ImplementsPool == Pool!Spec
============================================================================

------------------------------ MODULE Dispatch ------------------------------
(***************************************************************************)
(* Planning and outcomes of attempts, backend/internal/dispatch/dispatch.go *)
(* (PlanWith, NoteFailure, NoteSuccess), over the rows of the store that    *)
(* concurrent requests, the cooldown sweeper and the health checker share.  *)
(*                                                                          *)
(* Every statement on the store is a step of its own, because none of them  *)
(* runs in a transaction.  One provider and one model are covered.  Left    *)
(* out: accounts with auth kind "none", which NoteFailure ignores, accounts *)
(* that need reconnection or whose credentials do not open, the rotation of *)
(* the chain itself, and session affinity.  A unit of the clock is a second,*)
(* the resolution of the stored times.                                      *)
(***************************************************************************)
EXTENDS Integers, Sequences, FiniteSets, SequencesExt, FiniteSetsExt

CONSTANTS
  Reqs,            \* requests in the process
  Accounts,        \* the provider's accounts
  Probed,          \* those that have health rows
  Priority,        \* their order in ListByProviders
  StickyLimit,     \* requests per account before the rotation advances
  BackoffBase, BackoffMax, BackoffMaxLevel,
  TransientCooldown, \* upstream errors, and when the backoff level cannot be read
  LongCooldown,    \* quota and authentication failures
  RetryAfters,     \* reset delays an upstream may name, 0 for none
  MaxTime,         \* bound on the clock
  MaxPlans         \* bound on the plans made

ASSUME DispatchAssumption ==
  /\ Priority \in Seq(Accounts) /\ ToSet(Priority) = Accounts /\ IsInjective(Priority)
  /\ Priority # <<>> /\ Probed \subseteq Accounts
  /\ StickyLimit \in Nat \ {0} /\ BackoffMaxLevel \in Nat \ {0}
  /\ {BackoffBase, BackoffMax, TransientCooldown, LongCooldown} \subseteq Nat \ {0}
  /\ RetryAfters \subseteq Nat /\ MaxTime \in Nat /\ MaxPlans \in Nat

VARIABLES
  now,        \* the clock
  until,      \* accounts.cooldown_until, 0 for NULL
  level,      \* accounts.backoff_level
  model,      \* model_cooldowns.cooldown_until of the model, 0 for no row
  unhealthy,  \* accounts whose health row says unhealthy
  rotation,   \* the target_rotation row: last index and hit count
  pc,         \* pc[r]: where request r is
  loc,        \* loc[r]: what its planning has read
  plan,       \* plan[r]: attempts left, the current one first
  fail,       \* fail[r]: the failure being noted
  plans,      \* plans made so far
  seen,       \* history: seen[r], accounts in one state since planning began
  torn        \* history: accounts a failure was left half noted on

store   == <<until, level, model, unhealthy, rotation>>
request == <<pc, loc, plan, fail, plans>>
vars    == <<now, store, request, seen, torn>>

NoTimes == [a \in Accounts |-> 0]
NoLoc  == [until |-> NoTimes, order |-> <<>>, hits |-> 0, cool |-> {}, sick |-> {}, blind |-> FALSE]
NoFail == [retryAfter |-> 0, cooldown |-> 0, level |-> 0]
NoSeen == [cooling |-> {}, usable |-> {}, sick |-> {}, well |-> {}]
Exponential == 0     \* stands for a cooldown that exponentialCooldown computes

Planning == {"listed", "rotate", "models", "health", "resolve"}
Noting   == {"failed", "raise", "cool", "coolModel", "next"}
Places   == {"idle", "calling", "success", "clear", "heal", "serving"} \cup Planning \cup Noting

TypeOK ==
  /\ now \in 0..MaxTime
  /\ until \in [Accounts -> Nat] /\ model \in [Accounts -> Nat]
  /\ level \in [Accounts -> 0..BackoffMaxLevel]
  /\ unhealthy \subseteq Probed
  /\ rotation \in [last : 0..Len(Priority) - 1, hits : 0..StickyLimit - 1]
  /\ pc \in [Reqs -> Places]
  /\ loc \in [Reqs -> [until : [Accounts -> Nat], order : Seq(Accounts), hits : Nat,
                       cool : SUBSET Accounts, sick : SUBSET Accounts, blind : BOOLEAN]]
  /\ plan \in [Reqs -> Seq(Accounts)]
  /\ fail \in [Reqs -> [retryAfter : Nat, cooldown : Nat, level : 0..BackoffMaxLevel]]
  /\ plans \in 0..MaxPlans
  /\ seen \in [Reqs -> [cooling : SUBSET Accounts, usable : SUBSET Accounts,
                        sick : SUBSET Accounts, well : SUBSET Accounts]]
  /\ torn \subseteq Accounts

FirstRotation == [last |-> 0, hits |-> 0]

Init ==
  /\ now = 0
  /\ until = [a \in Accounts |-> 0] /\ model = [a \in Accounts |-> 0]
  /\ level = [a \in Accounts |-> 0]
  /\ unhealthy \in SUBSET Probed
  /\ rotation = FirstRotation
  /\ pc = [r \in Reqs |-> "idle"]
  /\ loc = [r \in Reqs |-> NoLoc]
  /\ plan = [r \in Reqs |-> <<>>]
  /\ fail = [r \in Reqs |-> NoFail] /\ plans = 0
  /\ seen = [r \in Reqs |-> NoSeen]
  /\ torn = {}

Go(r, to) == pc' = [pc EXCEPT ![r] = to]
---------------------------------------------------------------------------
(* PlanWith *)

ListAccounts(r) ==
  /\ pc[r] = "idle"
  /\ plans < MaxPlans /\ plans' = plans + 1
  /\ loc' = [loc EXCEPT ![r].until = until, ![r].order = Priority]
  /\ Go(r, "listed")
  /\ UNCHANGED <<now, store, plan, fail, torn>>

\* Faulty variant: an account whose cooldown ends now is still skipped.
OnCooldownUntil(r) == {a \in Accounts : loc[r].until[a] >= now /\ loc[r].until[a] > 0}

OnCooldown(r) == {a \in Accounts : loc[r].until[a] > now}

\* The clock that the listed times are compared with is read; with the
\* fallback strategy the order stands.
KeepOrder(r) ==
  /\ pc[r] = "listed"
  /\ loc' = [loc EXCEPT ![r].until = NoTimes, ![r].cool = OnCooldown(r)]
  /\ Go(r, "models")
  /\ UNCHANGED <<now, store, plan, fail, plans, torn>>

\* With round robin the rotation row is read (none is read as the first) ...
ReadRotation(r) ==
  /\ pc[r] = "listed"
  /\ Len(Priority) > 1
  /\ \E row \in {rotation, FirstRotation} :
       LET n == Len(Priority)
           rotated == [i \in 1..n |-> Priority[((row.last + i - 1) % n) + 1]]
       IN loc' = [loc EXCEPT ![r] = [NoLoc EXCEPT !.cool = OnCooldown(r), !.hits = row.hits,
                                                  !.order = rotated]]
  /\ Go(r, "rotate")
  /\ UNCHANGED <<now, store, plan, fail, plans, torn>>

IndexOf(a) == CHOOSE i \in DOMAIN Priority : Priority[i] = a

\* Faulty variant: the account is used once more than its limit.
StickyPassed(hits) == hits + 1 > StickyLimit

StickyReached(hits) == hits + 1 >= StickyLimit

\* ... and written back, advanced once the sticky limit is reached.
WriteRotation(r) ==
  /\ pc[r] = "rotate"
  /\ LET cursor == IndexOf(Head(loc[r].order)) - 1
     IN rotation' = IF StickyReached(loc[r].hits)
                      THEN [last |-> (cursor + 1) % Len(Priority), hits |-> 0]
                      ELSE [last |-> cursor, hits |-> loc[r].hits + 1]
  /\ Go(r, "models")
  /\ UNCHANGED <<now, until, level, model, unhealthy, loc, plan, fail, plans, torn>>

\* A read that fails is taken for an empty answer.
ActiveCooldowns(r) ==
  /\ pc[r] = "models"
  /\ \/ loc' = [loc EXCEPT ![r].cool = @ \cup {a \in Accounts : model[a] > now}]
     \/ loc' = [loc EXCEPT ![r].blind = TRUE]
  /\ Go(r, "health")
  /\ UNCHANGED <<now, store, plan, fail, plans, torn>>

UnhealthyAccounts(r) ==
  /\ pc[r] = "health"
  /\ \/ loc' = [loc EXCEPT ![r].sick = unhealthy]
     \/ loc' = [loc EXCEPT ![r].blind = TRUE]
  /\ Go(r, "resolve")
  /\ UNCHANGED <<now, store, plan, fail, plans, torn>>

\* The elements of s outside T, in their order, which the loops append one by
\* one: the k-th of them is the one with k places kept up to its own.
Rank(kept, i) == Cardinality({j \in kept : j <= i})

Without(s, T) ==
  LET kept == {i \in DOMAIN s : s[i] \notin T}
  IN [k \in 1..Cardinality(kept) |-> s[CHOOSE i \in kept : Rank(kept, i) = k]]

\* The accounts that are on no cooldown, in the order of the rotation.
Candidates(r) == Without(loc[r].order, loc[r].cool)

\* Faulty variant: the healthy ones are not preferred.
AttemptsAnyHealth(r) == Candidates(r)

\* Unhealthy accounts are used only when there is no other.
Attempts(r) ==
  LET healthy == Without(Candidates(r), loc[r].sick)
  IN IF healthy = <<>> THEN Candidates(r) ELSE healthy

Resolve(r) ==
  /\ pc[r] = "resolve"
  /\ plan' = [plan EXCEPT ![r] = Attempts(r)]
  /\ loc' = [loc EXCEPT ![r] = NoLoc]
  /\ Go(r, IF Attempts(r) = <<>> THEN "idle" ELSE "calling")
  /\ UNCHANGED <<now, store, fail, plans, torn>>
---------------------------------------------------------------------------
(* The attempt's outcome *)

Current(r) == Head(plan[r])

Succeed(r) ==
  /\ pc[r] = "calling"
  /\ Go(r, "success")
  /\ UNCHANGED <<now, store, loc, plan, fail, plans, torn>>

\* ResetBackoffLevel clears the account's cooldown as well.
ResetBackoffLevel(r) ==
  /\ pc[r] = "success"
  /\ level' = [level EXCEPT ![Current(r)] = 0]
  /\ until' = [until EXCEPT ![Current(r)] = 0]
  /\ torn' = torn \ {Current(r)}
  /\ Go(r, "clear")
  /\ UNCHANGED <<now, model, unhealthy, rotation, loc, plan, fail, plans>>

ClearModelCooldown(r) ==
  /\ pc[r] = "clear"
  /\ model' = [model EXCEPT ![Current(r)] = 0]
  /\ Go(r, "heal")
  /\ UNCHANGED <<now, until, level, unhealthy, rotation, loc, plan, fail, plans, torn>>

MarkHealthy(r) ==
  /\ pc[r] = "heal"
  /\ unhealthy' = unhealthy \ {Current(r)}
  /\ Go(r, "serving")
  /\ UNCHANGED <<now, until, level, model, rotation, loc, plan, fail, plans, torn>>

\* The attempt fails, or a stream does whose success was noted when it opened
\* and which has no other attempt left.  Only some kinds touch the account.
Fail(r) ==
  /\ pc[r] \in {"calling", "serving"}
  /\ plan' = [plan EXCEPT ![r] = IF pc[r] = "serving" THEN <<Head(@)>> ELSE @]
  /\ \E ra \in RetryAfters, base \in {TransientCooldown, LongCooldown, Exponential} :
       fail' = [fail EXCEPT ![r].cooldown = base, ![r].retryAfter = ra]
  /\ Go(r, IF fail'[r].cooldown = Exponential THEN "failed" ELSE "cool")
  /\ UNCHANGED <<now, store, loc, plans, torn>>

FailUnnoted(r) ==
  /\ pc[r] \in {"calling", "serving"}
  /\ plan' = [plan EXCEPT ![r] = IF pc[r] = "serving" THEN <<Head(@)>> ELSE @]
  /\ Go(r, "next")
  /\ UNCHANGED <<now, store, loc, fail, plans, torn>>

Smaller(m, n) == IF m <= n THEN m ELSE n
Larger(m, n)  == IF m >= n THEN m ELSE n

Pow2[n \in Nat] == IF n = 0 THEN 1 ELSE 2 * Pow2[n - 1]

\* exponentialCooldown reads the level ...
ReadLevel(r) ==
  /\ pc[r] = "failed"
  /\ LET up == Smaller(level[Current(r)] + 1, BackoffMaxLevel)
     IN fail' = [fail EXCEPT ![r].level = up,
                             ![r].cooldown = Smaller(BackoffBase * Pow2[up - 1], BackoffMax)]
  /\ Go(r, "raise")
  /\ UNCHANGED <<now, store, loc, plan, plans, torn>>

\* ... and writes it back, one higher.
SetBackoffLevel(r) ==
  /\ pc[r] = "raise"
  /\ level' = [level EXCEPT ![Current(r)] = fail[r].level]
  /\ fail' = [fail EXCEPT ![r].level = 0]
  /\ Go(r, "cool")
  /\ UNCHANGED <<now, until, model, unhealthy, rotation, loc, plan, plans, torn>>

Cooldown(r) == Larger(fail[r].cooldown, fail[r].retryAfter)

\* The upstream's reset time is a lower bound of this failure's cooldown.
SetCooldown(r) ==
  /\ pc[r] = "cool"
  /\ until' = [until EXCEPT ![Current(r)] = now + Cooldown(r)]
  /\ Go(r, "coolModel")
  /\ UNCHANGED <<now, level, model, unhealthy, rotation, loc, plan, fail, plans, torn>>

\* The error may name the model, which is then cooled down too.
SetModelCooldown(r) ==
  /\ pc[r] = "coolModel"
  /\ \/ model' = [model EXCEPT ![Current(r)] = now + Cooldown(r)]
     \/ UNCHANGED model
  /\ fail' = [fail EXCEPT ![r] = NoFail]
  /\ Go(r, "next")
  /\ UNCHANGED <<now, until, level, unhealthy, rotation, loc, plan, plans, torn>>

\* A fallbackable error leads to the next attempt.
Fallback(r) ==
  /\ pc[r] = "next" /\ Len(plan[r]) > 1
  /\ plan' = [plan EXCEPT ![r] = Tail(@)]
  /\ Go(r, "calling")
  /\ UNCHANGED <<now, store, loc, fail, plans, torn>>

AfterWrite == [rotate |-> "models", success |-> "clear", clear |-> "heal", heal |-> "serving",
               raise |-> "cool", cool |-> "coolModel"]

\* The error of a failed write is dropped and the request goes on.
WriteFails(r) ==
  /\ pc[r] \in DOMAIN AfterWrite
  /\ Go(r, AfterWrite[pc[r]])
  /\ torn' = IF pc[r] = "cool" THEN torn \cup {Current(r)} ELSE torn
  /\ UNCHANGED <<now, store, loc, plan, fail, plans>>

\* The request is over, or its client leaves: the statements it had still to
\* make run under a cancelled context and change nothing.
End(r) ==
  /\ pc[r] \notin {"idle", "resolve"}
  /\ pc' = [pc EXCEPT ![r] = "idle"]
  /\ loc' = [loc EXCEPT ![r] = NoLoc]
  /\ plan' = [plan EXCEPT ![r] = <<>>]
  /\ fail' = [fail EXCEPT ![r] = NoFail]
  /\ torn' = IF pc[r] = "cool" THEN torn \cup {Current(r)} ELSE torn
  /\ UNCHANGED <<now, store, plans>>
---------------------------------------------------------------------------
(* Around the requests *)

Zeroed(f, cleared) == [a \in Accounts |-> IF a \in cleared THEN 0 ELSE f[a]]

\* Faulty variant: only the time is cleared.
KeepLevels(cleared) == level' = level

ForgetLevels(cleared) == level' = Zeroed(level, cleared)

\* The sweeper: what has expired is cleared, and its backoff with it.
ClearExpiredCooldowns ==
  LET expired == {a \in Accounts : until[a] > 0 /\ until[a] < now}
  IN /\ expired # {}
     /\ until' = Zeroed(until, expired) /\ ForgetLevels(expired)
     /\ torn' = torn \ expired
     /\ UNCHANGED <<now, model, unhealthy, rotation, request>>

\* The user reconnects the provider.
ClearProviderCooldowns ==
  LET cooled == {a \in Accounts : until[a] > 0}
  IN /\ cooled # {}
     /\ until' = Zeroed(until, cooled) /\ ForgetLevels(cooled)
     /\ torn' = torn \ cooled
     /\ UNCHANGED <<now, model, unhealthy, rotation, request>>

\* The health checker writes a probe's verdict.
RecordProbe(a) ==
  /\ unhealthy' \in {unhealthy \cup {a}, unhealthy \ {a}} \ {unhealthy}
  /\ UNCHANGED <<now, until, level, model, rotation, request, torn>>

Tick ==
  /\ now < MaxTime
  /\ now' = now + 1
  /\ UNCHANGED <<store, request, torn>>
---------------------------------------------------------------------------
(* What has been the case at every moment since r's planning began *)

Cooling(a) == until[a] > now \/ model[a] > now

Since(r, kept, P(_)) == {a \in Accounts : P(a) /\ (pc[r] = "idle" \/ a \in kept)}

Watch ==
  seen' = [r \in Reqs |->
    IF pc'[r] \notin Planning THEN NoSeen
    ELSE [cooling |-> Since(r, seen[r].cooling, LAMBDA a :
                        Cooling(a)' /\ until'[a] = until[a] /\ model'[a] = model[a]),
          usable  |-> Since(r, seen[r].usable, LAMBDA a : ~Cooling(a)'),
          sick    |-> Since(r, seen[r].sick, LAMBDA a : a \in unhealthy'),
          well    |-> Since(r, seen[r].well, LAMBDA a : a \notin unhealthy')]]

Serve(r) ==
  \/ ListAccounts(r) \/ KeepOrder(r) \/ ReadRotation(r) \/ WriteRotation(r)
  \/ ActiveCooldowns(r) \/ UnhealthyAccounts(r) \/ Resolve(r)
  \/ Succeed(r) \/ ResetBackoffLevel(r) \/ ClearModelCooldown(r) \/ MarkHealthy(r)
  \/ Fail(r) \/ FailUnnoted(r) \/ ReadLevel(r) \/ SetBackoffLevel(r) \/ SetCooldown(r)
  \/ SetModelCooldown(r) \/ Fallback(r) \/ WriteFails(r) \/ End(r)

Next ==
  /\ \/ \E r \in Reqs : Serve(r)
     \/ ClearExpiredCooldowns \/ ClearProviderCooldowns
     \/ \E a \in Probed : RecordProbe(a)
     \/ Tick
  /\ Watch

Spec == Init /\ [][Next]_vars
---------------------------------------------------------------------------
(* Properties *)

\* This step resolves the attempts of r, which saw what it asked for.
Resolves(r) == pc[r] = "resolve" /\ pc'[r] # "resolve"

(* Planning interleaves with failures, successes, probes and the sweeper, yet *)
(* it never attempts an account that was on the same cooldown from beginning  *)
(* to end, nor an unhealthy one while a usable healthy one was there: "Fall   *)
(* back to unhealthy accounts when no healthy candidate exists".              *)
PlanAvoids ==
  [][\A r \in Reqs : (Resolves(r) /\ ~loc[r].blind) =>
       /\ ToSet(plan'[r]) \cap seen[r].cooling = {}
       /\ seen[r].usable \cap seen[r].well # {} => ToSet(plan'[r]) \cap seen[r].sick = {}]_vars

(* An account that was usable and healthy all through planning is attempted,  *)
(* once, and planning fails only if no account was usable all through.        *)
PlanComplete ==
  [][\A r \in Reqs : Resolves(r) =>
       /\ seen[r].usable \cap seen[r].well \subseteq ToSet(plan'[r])
       /\ IsInjective(plan'[r])
       /\ seen[r].usable # {} => plan'[r] # <<>>]_vars

(* A backoff level never stays behind: it belongs to a cooldown, which the    *)
(* sweeper will clear together with it, or to a failure that is about to set  *)
(* one, unless a client left between the two writes or the second one failed. *)
LevelCovered ==
  \A a \in Accounts : level[a] > 0 =>
    \/ until[a] > 0 \/ a \in torn
    \/ \E r \in Reqs : pc[r] = "cool" /\ Current(r) = a
=============================================================================

------------------------------ MODULE Budget ------------------------------
(***************************************************************************)
(* The budget engine, backend/internal/budget/budget.go: Engine.           *)
(*                                                                         *)
(* Reserve is Check followed by a critical section that records a          *)
(* reservation; Check itself is a sequence of cache lookups, one spend     *)
(* query and one read of the reservations per budget, each a step of its   *)
(* own.  A dashboard handler writes a budget and then flushes the cache.   *)
(* Usage rows reach the table Check reads at once or, as in the default    *)
(* configuration, some time later, through the buffered writer that        *)
(* UsageWriter.tla models.  One budget period is covered (PeriodStart is   *)
(* data here), cost and token limits; alerts never block and are left out. *)
(***************************************************************************)
EXTENDS Integers, Sequences, FiniteSets, FiniteSetsExt

CONSTANTS
  Reqs,         \* requests in the process
  Scopes,       \* API keys, projects and tenants that can carry budgets
  ScopesOf,     \* ScopesOf[r]: the scopes of r, key first and tenant last
  DefChoices,   \* the lists of budgets an administrator may give a scope
  Estimate,     \* estimatedMicros; every caller passes 0
  Cost,         \* what one served request is billed
  TTL,          \* budgetCacheTTL
  MaxTime,      \* bound on the clock
  MaxUsed       \* bounds on the metered spend of a scope, without and with a buffered writer

Budgets == [limit : Nat, tokens : Nat, hard : BOOLEAN]
Amounts == [micros : Nat, tokens : Nat]

ASSUME BudgetAssumption ==
  /\ IsFiniteSet(Reqs)
  /\ ScopesOf \in [Reqs -> Seq(Scopes)]
  /\ \A r \in Reqs : \A i, j \in DOMAIN ScopesOf[r] :
       ScopesOf[r][i] = ScopesOf[r][j] => i = j
  /\ DefChoices \subseteq Seq(Budgets)
  /\ Estimate \in Int /\ Cost \in Amounts
  /\ TTL \in Nat \ {0} /\ MaxTime \in Nat /\ MaxUsed \in [BOOLEAN -> Nat]

VARIABLES
  async,          \* Meter.async is configured
  now,            \* the clock
  defs,           \* defs[s]: the budgets the store holds for scope s
  used,           \* used[s]: the spend the usage table holds for scope s
  unwritten,      \* unwritten[r]: rows of r metered but not yet in the table
  reservations,   \* Engine.reservations, 0 when absent
  cache,          \* Engine.budgetCache; an absent entry is one that expired at 0
  pc,             \* pc[r]: where request r is in Reserve and after it
  chk,            \* chk[r]: the local variables of r's Check
  changed,        \* history: when the budgets of a scope were last edited
  sure            \* history: sure[r], scopes that must keep r out (see Shut)

vars == <<async, now, defs, used, unwritten, reservations, cache, pc, chk, changed, sure>>

Entry   == [scope : Scopes, budget : Budgets]
Absent  == [budgets |-> <<>>, expires |-> 0]
Nothing == [s \in Scopes |-> [micros |-> 0, tokens |-> 0]]
NoCheck == [i |-> 0, at |-> 0, got |-> <<>>, entries |-> <<>>, snap |-> Nothing, e |-> 0]

TypeOK ==
  /\ async \in BOOLEAN
  /\ now \in 0..MaxTime
  /\ defs \in [Scopes -> DefChoices]
  /\ used \in [Scopes -> Amounts]
  /\ unwritten \in [Reqs -> Nat]
  /\ reservations \in [Scopes -> Nat]
  /\ cache \in [Scopes -> [budgets : Seq(Budgets), expires : Nat]]
  /\ pc \in [Reqs -> {"idle", "lookup", "fetch", "fill", "spend", "eval",
                      "allowed", "running", "metered"}]
  /\ chk \in [Reqs -> [i : Nat, at : 0..MaxTime, got : Seq(Budgets), entries : Seq(Entry),
                       snap : [Scopes -> Amounts], e : Nat]]
  /\ changed \in [Scopes -> Int]
  /\ sure \in [Reqs -> SUBSET Scopes]

Init ==
  /\ async \in BOOLEAN
  /\ now = 0
  /\ defs \in [Scopes -> DefChoices]
  /\ used = Nothing
  /\ unwritten = [r \in Reqs |-> 0]
  /\ reservations = [s \in Scopes |-> 0]
  /\ cache = [s \in Scopes |-> Absent]
  /\ pc = [r \in Reqs |-> "idle"]
  /\ chk = [r \in Reqs |-> NoCheck]
  /\ changed = [s \in Scopes |-> -TTL]
  /\ sure = [r \in Reqs |-> {}]

store == <<async, now, defs, used, unwritten, changed>>

Billed(r) == {ScopesOf[r][i] : i \in DOMAIN ScopesOf[r]}

\* Spend has reached one of the budget's limits; 0 is no limit.
Reached(b, micros, tokens) ==
  \/ b.limit > 0 /\ micros >= b.limit
  \/ b.tokens > 0 /\ tokens >= b.tokens

\* A hard budget of s is used up, and has been what it is for a cache lifetime.
LongExhausted(s) ==
  /\ changed[s] + TTL <= now
  /\ \E i \in DOMAIN defs[s] :
       defs[s][i].hard /\ Reached(defs[s][i], used[s].micros, used[s].tokens)

\* Check is over for r, one way or the other.
Leave(r, to) ==
  /\ pc' = [pc EXCEPT ![r] = to]
  /\ chk' = [chk EXCEPT ![r] = NoCheck]
  /\ sure' = [sure EXCEPT ![r] = {}]
---------------------------------------------------------------------------
(* Collecting the budgets: cachedListByScope for each scope in turn *)

Start(r) ==
  /\ pc[r] = "idle"
  /\ pc' = [pc EXCEPT ![r] = IF ScopesOf[r] = <<>> THEN "allowed" ELSE "lookup"]
  /\ chk' = [chk EXCEPT ![r] = [NoCheck EXCEPT !.i = 1, !.at = now]]
  /\ sure' = [sure EXCEPT ![r] = {s \in Billed(r) : LongExhausted(s)}]
  /\ UNCHANGED <<store, reservations, cache>>

Scope(r) == ScopesOf[r][chk[r].i]

\* The budgets of r's current scope join its entries; the clock is read for
\* the next scope.  With no budget at all Check returns without a spend query.
Collect(r, budgets) ==
  LET entries == chk[r].entries \o
                   [i \in DOMAIN budgets |-> [scope |-> Scope(r), budget |-> budgets[i]]]
      last    == chk[r].i = Len(ScopesOf[r])
  IN /\ chk' = [chk EXCEPT ![r].i = IF last THEN 0 ELSE @ + 1,
                            ![r].at = IF last THEN 0 ELSE now,
                            ![r].got = <<>>, ![r].entries = entries]
     /\ pc' = [pc EXCEPT ![r] = IF ~last THEN "lookup"
                                ELSE IF entries = <<>> THEN "allowed" ELSE "spend"]

LookupHit(r) ==
  /\ pc[r] = "lookup"
  /\ chk[r].at < cache[Scope(r)].expires
  /\ Collect(r, cache[Scope(r)].budgets)
  /\ UNCHANGED <<store, reservations, cache, sure>>

LookupMiss(r) ==
  /\ pc[r] = "lookup"
  /\ chk[r].at >= cache[Scope(r)].expires
  /\ pc' = [pc EXCEPT ![r] = "fetch"]
  /\ UNCHANGED <<store, reservations, cache, chk, sure>>

Fetch(r) ==
  /\ pc[r] = "fetch"
  /\ chk' = [chk EXCEPT ![r].got = defs[Scope(r)]]
  /\ pc' = [pc EXCEPT ![r] = "fill"]
  /\ UNCHANGED <<store, reservations, cache, sure>>

\* Faulty variant: the lifetime starts when the entry is stored.
FillFromNow(r) ==
  /\ pc[r] = "fill"
  /\ cache' = [cache EXCEPT ![Scope(r)] = [budgets |-> chk[r].got, expires |-> now + TTL]]
  /\ Collect(r, chk[r].got)
  /\ UNCHANGED <<store, reservations, sure>>

\* The lifetime starts at the clock reading from before the fetch.
Fill(r) ==
  /\ pc[r] = "fill"
  /\ cache' = [cache EXCEPT ![Scope(r)] = [budgets |-> chk[r].got, expires |-> chk[r].at + TTL]]
  /\ Collect(r, chk[r].got)
  /\ UNCHANGED <<store, reservations, sure>>
---------------------------------------------------------------------------
(* Spend, evaluation and reservation *)

\* One query for all scopes that have a budget.
ReadSpend(r) ==
  /\ pc[r] = "spend"
  /\ chk' = [chk EXCEPT ![r].e = 1,
                        ![r].snap = [s \in Scopes |->
                           IF \E i \in DOMAIN chk[r].entries : chk[r].entries[i].scope = s
                             THEN used[s] ELSE Nothing[s]]]
  /\ pc' = [pc EXCEPT ![r] = "eval"]
  /\ UNCHANGED <<store, reservations, cache, sure>>

\* Either database read fails: Check returns the error.
ReadFails(r) ==
  /\ pc[r] \in {"fetch", "spend"}
  /\ Leave(r, "idle")
  /\ UNCHANGED <<store, reservations, cache>>

\* Faulty variant: spend equal to the limit still passes.
BlocksAbove(r) ==
  LET entry == chk[r].entries[chk[r].e]
  IN /\ entry.budget.hard
     /\ entry.budget.limit > 0
     /\ chk[r].snap[entry.scope].micros + reservations[entry.scope] > entry.budget.limit

\* The entry being evaluated blocks r: its spend plus what is reserved at this
\* moment has reached a hard limit.
Blocks(r) ==
  LET entry == chk[r].entries[chk[r].e]
  IN /\ entry.budget.hard
     /\ Reached(entry.budget,
                chk[r].snap[entry.scope].micros + reservations[entry.scope],
                chk[r].snap[entry.scope].tokens)

Block(r) ==
  /\ pc[r] = "eval" /\ Blocks(r)
  /\ Leave(r, "idle")
  /\ UNCHANGED <<store, reservations, cache>>

Pass(r) ==
  /\ pc[r] = "eval" /\ ~Blocks(r)
  /\ chk' = [chk EXCEPT ![r].e = @ + 1]
  /\ pc' = [pc EXCEPT ![r] = IF chk[r].e = Len(chk[r].entries) THEN "allowed" ELSE @]
  /\ UNCHANGED <<store, reservations, cache, sure>>

\* What one hard budget reserves.
Hold == IF Estimate <= 0 THEN 1 ELSE Estimate

HardEntries(entries, s) ==
  {i \in DOMAIN entries : entries[i].scope = s /\ entries[i].budget.hard}

Reserve(r) ==
  /\ pc[r] = "allowed"
  /\ reservations' = [s \in Scopes |->
       reservations[s] + Hold * Cardinality(HardEntries(chk[r].entries, s))]
  /\ Leave(r, "running")
  /\ UNCHANGED <<store, cache>>

\* The caller is CheckOrError (media.go) and not Reserve: it holds nothing.
ReturnNil(r) ==
  /\ pc[r] = "allowed"
  /\ Leave(r, "idle")
  /\ UNCHANGED <<store, reservations, cache>>
---------------------------------------------------------------------------
(* After Reserve: the request is served and metered, or fails *)

\* n rows of r join the table.
Stored(r, n) ==
  used' = [s \in Scopes |->
    IF s \in Billed(r) THEN [micros |-> used[s].micros + n * Cost.micros,
                             tokens |-> used[s].tokens + n * Cost.tokens]
                       ELSE used[s]]

\* What scope s has been metered, in the table or on its way there.
Metered(s) ==
  used[s].micros + Cost.micros * MapThenSumSet(LAMBDA r : unwritten[r], {r \in Reqs : s \in Billed(r)})

\* meter.Record: the row is stored, or queued when the writer is buffered.
Meter(r) ==
  /\ pc[r] = "running"
  /\ \A s \in Billed(r) : Metered(s) + Cost.micros <= MaxUsed[async]
  /\ IF async THEN /\ unwritten' = [unwritten EXCEPT ![r] = @ + 1]
                   /\ UNCHANGED used
              ELSE Stored(r, 1) /\ UNCHANGED unwritten
  /\ pc' = [pc EXCEPT ![r] = "metered"]
  /\ UNCHANGED <<async, now, defs, reservations, cache, chk, changed, sure>>

\* The writer stores a row it had queued.
Flush(r) ==
  /\ unwritten[r] > 0
  /\ Stored(r, 1)
  /\ unwritten' = [unwritten EXCEPT ![r] = @ - 1]
  /\ UNCHANGED <<async, now, defs, reservations, cache, pc, chk, changed, sure>>

\* Faulty variant: only the narrowest scope is released.
ReleaseFirst(r) ==
  /\ pc[r] \in {"running", "metered"}
  /\ reservations' = [s \in Scopes |-> IF s = ScopesOf[r][1] THEN 0 ELSE reservations[s]]
  /\ Leave(r, "idle")
  /\ UNCHANGED <<store, cache>>

\* Faulty variant: one reservation is taken off instead of the entry.
ReleaseOne(r) ==
  /\ pc[r] \in {"running", "metered"}
  /\ reservations' = [s \in Scopes |->
       IF s \in Billed(r) THEN reservations[s] - Hold ELSE reservations[s]]
  /\ Leave(r, "idle")
  /\ UNCHANGED <<store, cache>>

\* Confirm after metering, Release without it: both delete the reservations of
\* the request's scopes, those of other requests included.
ReleaseAll(r) ==
  /\ pc[r] \in {"running", "metered"}
  /\ reservations' = [s \in Scopes |-> IF s \in Billed(r) THEN 0 ELSE reservations[s]]
  /\ Leave(r, "idle")
  /\ UNCHANGED <<store, cache>>
---------------------------------------------------------------------------
(* The dashboard and the clock *)

\* A budget is created, changed or deleted.
EditBudgets(s) ==
  /\ \E d \in DefChoices \ {defs[s]} : defs' = [defs EXCEPT ![s] = d]
  /\ changed' = [changed EXCEPT ![s] = now]
  /\ sure' = [r \in Reqs |-> sure[r] \ {s}]
  /\ UNCHANGED <<async, now, used, unwritten, reservations, cache, pc, chk>>

\* The whole cache is flushed: by the handler that edited, or by an import.
InvalidateBudgetCache ==
  /\ cache' = [s \in Scopes |-> Absent]
  /\ UNCHANGED <<store, reservations, pc, chk, sure>>

Tick ==
  /\ now < MaxTime
  /\ now' = now + 1
  /\ UNCHANGED <<async, defs, used, unwritten, reservations, cache, pc, chk, changed, sure>>

Next ==
  \/ \E r \in Reqs :
       \/ Start(r) \/ LookupHit(r) \/ LookupMiss(r) \/ Fetch(r) \/ Fill(r)
       \/ ReadSpend(r) \/ ReadFails(r) \/ Block(r) \/ Pass(r)
       \/ Reserve(r) \/ ReturnNil(r) \/ Meter(r) \/ Flush(r) \/ ReleaseAll(r)
  \/ \E s \in Scopes : EditBudgets(s)
  \/ InvalidateBudgetCache
  \/ Tick

Spec == Init /\ [][Next]_vars
---------------------------------------------------------------------------
(* Properties *)

(* A request never gets past Check when, as it began, a hard budget of one of *)
(* its scopes was used up and had stood unedited for a cache lifetime: no     *)
(* stale cache entry, late fill or concurrent release can hide it.            *)
Shut == \A r \in Reqs : pc[r] = "allowed" => sure[r] = {}

(* Checks and reservations race, yet when rows are stored at once the spend   *)
(* overshoots a hard limit that was never edited by at most one request per   *)
(* reserving goroutine.                                                       *)
OvershootBounded ==
  \A s \in Scopes : (changed[s] = -TTL /\ ~async) =>
    \A i \in DOMAIN defs[s] :
      LET b == defs[s][i]
      IN (b.hard /\ b.limit > 0) =>
           used[s].micros < b.limit + Cardinality(Reqs) * Cost.micros

\* Requests that have reserved on scope s and not yet released.
Outstanding(s) == {r \in Reqs : pc[r] \in {"running", "metered"} /\ s \in Billed(r)}

(* A reservation never outlives the requests it was made for: it cannot keep  *)
(* blocking a scope that nothing is running on.                               *)
NoPhantomReservation == \A s \in Scopes : reservations[s] > 0 => Outstanding(s) # {}

(* Reserve's comments (budget.go, "Reserve atomically checks the budget and   *)
(* records", "no concurrent request can slip through between the check and    *)
(* the reservation"): what is reserved never takes a scope past its limit.    *)
ReservesWithinLimit ==
  [][\A r \in Reqs : (pc[r] = "allowed" /\ pc'[r] = "running") =>
       \A i \in DOMAIN chk[r].entries :
         LET x == chk[r].entries[i]
         IN (x.budget.hard /\ x.budget.limit > 0) =>
              chk[r].snap[x.scope].micros + reservations[x.scope] < x.budget.limit]_vars
============================================================================

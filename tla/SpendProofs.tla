---------------------------- MODULE SpendProofs ----------------------------
(***************************************************************************)
(* Proofs about the two halves of spend: Budget.tla, which decides on what *)
(* the usage table holds, and UsageWriter.tla, by which rows get there.    *)
(* They hold for any requests, scopes, budgets and costs, and for any      *)
(* rows, queue and batch sizes.                                            *)
(***************************************************************************)
EXTENDS Budget, UsageRows, FiniteSetTheorems, SequenceTheorems, TLAPS

\* The sizes of the writer, which W instantiates over the state of UsageRows.
CONSTANTS QueueSize, BatchSize

W == INSTANCE UsageWriter
---------------------------------------------------------------------------
(* The invariants of the budget engine *)

Collecting == {"lookup", "fetch", "fill"}

CheckState == [i : Nat, at : 0..MaxTime, got : Seq(Budgets), entries : Seq(Entry),
               snap : [Scopes -> Amounts], e : Nat]

\* A request that is collecting has a current scope, one that evaluates a
\* current entry.
Placed ==
  \A r \in Reqs :
    /\ pc[r] \in Collecting => chk[r].i \in DOMAIN ScopesOf[r]
    /\ pc[r] = "spend" => chk[r].entries # <<>>
    /\ pc[r] = "eval" => chk[r].e \in DOMAIN chk[r].entries

\* Entries are of the request's own scopes.
Own == \A r \in Reqs : \A p \in DOMAIN chk[r].entries : chk[r].entries[p].scope \in Billed(r)

\* Nothing is remembered of a time that has not come.
Clock ==
  /\ \A s \in Scopes : -TTL <= changed[s] /\ changed[s] <= now /\ cache[s].expires <= now + TTL
  /\ \A r \in Reqs : chk[r].at <= now

\* What was fetched after the last edit is what the store holds.
Coherent ==
  /\ \A s \in Scopes : cache[s].expires - TTL > changed[s] => cache[s].budgets = defs[s]
  /\ \A r \in Reqs : (pc[r] = "fill" /\ chk[r].at > changed[Scope(r)])
                        => chk[r].got = defs[Scope(r)]

\* No edit of s can have misled r.
Vouched(r, s) == s \in sure[r] \/ changed[s] = -TTL

\* r is past scope s.
Past(r, s) == \E j \in DOMAIN ScopesOf[r] :
  /\ ScopesOf[r][j] = s
  /\ pc[r] \in {"spend", "eval", "allowed"} \/ (pc[r] \in Collecting /\ j < chk[r].i)

\* The budgets of s are among the entries of r.
Present(r, s) == \A k \in DOMAIN defs[s] : \E p \in DOMAIN chk[r].entries :
  chk[r].entries[p] = [scope |-> s, budget |-> defs[s][k]]

Complete == \A r \in Reqs : \A s \in Scopes : Past(r, s) /\ Vouched(r, s) => Present(r, s)

\* The spend that r read has exhausted a hard budget of s that is still to be
\* evaluated.
Awaits(r, s) == \E p \in DOMAIN chk[r].entries :
  /\ chk[r].e <= p
  /\ chk[r].entries[p].scope = s /\ chk[r].entries[p].budget.hard
  /\ Reached(chk[r].entries[p].budget, chk[r].snap[s].micros, chk[r].snap[s].tokens)

Exhausted(s) == \E k \in DOMAIN defs[s] :
  defs[s][k].hard /\ Reached(defs[s][k], used[s].micros, used[s].tokens)

\* A scope that must keep r out will.
Barred ==
  \A r \in Reqs : \A s \in sure[r] :
    /\ s \in Billed(r) /\ Exhausted(s)
    /\ pc[r] \in Collecting \cup {"spend", "eval"}
    /\ pc[r] \in Collecting => changed[s] + TTL <= chk[r].at
    /\ pc[r] = "eval" => Awaits(r, s)

\* The hard limits that r has passed were not reached by the spend it read.
Evaluated ==
  \A r \in Reqs : \A p \in DOMAIN chk[r].entries :
    LET x == chk[r].entries[p]
    IN (/\ pc[r] = "allowed" \/ (pc[r] = "eval" /\ p < chk[r].e)
        /\ x.budget.hard /\ x.budget.limit > 0)
         => chk[r].snap[x.scope].micros < x.budget.limit

\* Without the buffered writer no row waits.
Unbuffered == ~async => \A r \in Reqs : unwritten[r] = 0

\* Requests that may still be metered on a spend of s below limit l.
Armed(s, l) == {r \in Reqs : s \in Billed(r) /\
  (pc[r] = "running" \/ (pc[r] \in {"eval", "allowed"} /\ chk[r].snap[s].micros < l))}

\* Each of them may take the spend one cost further.
Margin ==
  \A s \in Scopes : (changed[s] = -TTL /\ ~async) =>
    \A k \in DOMAIN defs[s] :
      (defs[s][k].hard /\ defs[s][k].limit > 0) =>
        used[s].micros + Cardinality(Armed(s, defs[s][k].limit)) * Cost.micros
          < defs[s][k].limit + Cardinality(Reqs) * Cost.micros
---------------------------------------------------------------------------
(* Facts about the operators *)

LEMMA Constants ==
  /\ 0 \in 0..MaxTime /\ TTL \in Nat /\ TTL > 0 /\ -TTL \in Int
  /\ Cost.micros \in Nat /\ Cost.tokens \in Nat
  /\ Hold \in Nat /\ Hold > 0
  /\ \A r \in Reqs : ScopesOf[r] \in Seq(Scopes) /\ Billed(r) \subseteq Scopes
<1>1. \A r \in Reqs : ScopesOf[r] \in Seq(Scopes)
  BY BudgetAssumption
<1>2. \A r \in Reqs : Billed(r) \subseteq Scopes
  BY <1>1 DEF Billed
<1>. QED
  BY <1>1, <1>2, BudgetAssumption DEF Amounts, Hold

LEMMA Empties == Nothing \in [Scopes -> Amounts] /\ NoCheck \in CheckState
<1>1. Nothing \in [Scopes -> Amounts]
  BY DEF Nothing, Amounts
<1>2. <<>> \in Seq(Budgets) /\ <<>> \in Seq(Entry)
  OBVIOUS
<1>. QED
  BY <1>1, <1>2, Constants DEF NoCheck, CheckState

\* u holds what s and t hold, and nothing else, s in front.
Joins(u, s, t) ==
  /\ \A p \in DOMAIN s : p \in DOMAIN u /\ u[p] = s[p]
  /\ \A k \in DOMAIN t : \E p \in DOMAIN u : u[p] = t[k]
  /\ \A p \in DOMAIN u : \/ p \in DOMAIN s /\ u[p] = s[p]
                         \/ \E k \in DOMAIN t : u[p] = t[k]

LEMMA Joined ==
  ASSUME NEW S, NEW s \in Seq(S), NEW t \in Seq(S), NEW u, u = s \o t
  PROVE  u \in Seq(S) /\ Joins(u, s, t)
<1>1. /\ u \in Seq(S) /\ Len(u) = Len(s) + Len(t) /\ Len(s) \in Nat /\ Len(t) \in Nat
      /\ DOMAIN u = 1..Len(u) /\ DOMAIN s = 1..Len(s) /\ DOMAIN t = 1..Len(t)
      /\ \A p \in 1..Len(u) : u[p] = IF p <= Len(s) THEN s[p] ELSE t[p - Len(s)]
  BY ConcatProperties
<1>2. \A p \in DOMAIN s : p \in DOMAIN u /\ u[p] = s[p]
  BY <1>1
<1>3. ASSUME NEW k \in DOMAIN t PROVE \E p \in DOMAIN u : u[p] = t[k]
  <2>1. Len(s) + k \in DOMAIN u /\ u[Len(s) + k] = t[k]
    BY <1>1
  <2>. QED
    BY <2>1
<1>4. ASSUME NEW p \in DOMAIN u
      PROVE  \/ p \in DOMAIN s /\ u[p] = s[p]
             \/ \E k \in DOMAIN t : u[p] = t[k]
  <2>1. CASE ~(p <= Len(s))
    <3>1. p - Len(s) \in DOMAIN t /\ u[p] = t[p - Len(s)]
      BY <1>1, <2>1
    <3>. QED
      BY <3>1
  <2>. QED
    BY <1>1, <2>1
<1>. QED
  BY <1>1, <1>2, <1>3, <1>4 DEF Joins

\* What joining the budgets of one scope to the entries does.
LEMMA CollectSteps ==
  ASSUME TypeOK, Placed, NEW r \in Reqs, pc[r] \in Collecting,
         NEW budgets \in Seq(Budgets), Collect(r, budgets)
  PROVE  /\ Scope(r) \in Scopes /\ Scope(r) \in Billed(r)
         /\ \E c \in CheckState, to \in {"lookup", "spend", "allowed"} :
              /\ chk' = [chk EXCEPT ![r] = c] /\ pc' = [pc EXCEPT ![r] = to]
              /\ c.snap = chk[r].snap /\ c.e = chk[r].e
              /\ to = "lookup" => /\ c.i = chk[r].i + 1 /\ c.i \in DOMAIN ScopesOf[r]
                                  /\ c.at = now
              /\ to # "lookup" => c.i = 0 /\ c.at = 0 /\ chk[r].i = Len(ScopesOf[r])
              /\ to = "allowed" <=> (to # "lookup" /\ c.entries = <<>>)
              /\ \A p \in DOMAIN chk[r].entries :
                   p \in DOMAIN c.entries /\ c.entries[p] = chk[r].entries[p]
              /\ \A k \in DOMAIN budgets : \E p \in DOMAIN c.entries :
                   c.entries[p] = [scope |-> Scope(r), budget |-> budgets[k]]
              /\ \A p \in DOMAIN c.entries :
                   \/ p \in DOMAIN chk[r].entries /\ c.entries[p] = chk[r].entries[p]
                   \/ c.entries[p].scope = Scope(r)
<1>. DEFINE new     == [k \in DOMAIN budgets |-> [scope |-> Scope(r), budget |-> budgets[k]]]
            entries == chk[r].entries \o new
            last    == chk[r].i = Len(ScopesOf[r])
            to      == IF ~last THEN "lookup" ELSE IF entries = <<>> THEN "allowed" ELSE "spend"
            i       == IF last THEN 0 ELSE chk[r].i + 1
            at      == IF last THEN 0 ELSE now
            c       == [i |-> i, at |-> at, got |-> <<>>, entries |-> entries,
                        snap |-> chk[r].snap, e |-> chk[r].e]
<1>1. /\ chk[r] \in CheckState /\ chk[r].i \in DOMAIN ScopesOf[r] /\ ScopesOf[r] \in Seq(Scopes)
      /\ chk[r].entries \in Seq(Entry) /\ now \in 0..MaxTime
  BY Constants DEF TypeOK, CheckState, Placed
<1>2. /\ Scope(r) \in Scopes /\ Scope(r) \in Billed(r)
      /\ chk[r].i \in 1..Len(ScopesOf[r]) /\ Len(ScopesOf[r]) \in Nat
  BY <1>1 DEF Scope, Billed
<1>3. /\ new \in Seq(Entry) /\ DOMAIN new = DOMAIN budgets
      /\ \A k \in DOMAIN budgets : new[k] = [scope |-> Scope(r), budget |-> budgets[k]]
  <2>1. /\ DOMAIN budgets = 1..Len(budgets) /\ Len(budgets) \in Nat
        /\ \A k \in DOMAIN budgets : [scope |-> Scope(r), budget |-> budgets[k]] \in Entry
    BY <1>2 DEF Entry
  <2>2. new \in [1..Len(budgets) -> Entry]
    BY <2>1
  <2>. QED
    BY <2>1, <2>2, SeqDef
<1>8. chk' = [chk EXCEPT ![r] = c] /\ pc' = [pc EXCEPT ![r] = to]
  <2>1. /\ chk' = [chk EXCEPT ![r].i = i, ![r].at = at, ![r].got = <<>>, ![r].entries = entries]
        /\ pc' = [pc EXCEPT ![r] = to]
    BY DEF Collect
  <2>. DEFINE o == chk[r]
              d == [o EXCEPT !.i = i]
              f == [d EXCEPT !.at = at]
              g == [f EXCEPT !.got = <<>>]
  <2>. HIDE DEF i, at, entries
  <2>2. chk' = [chk EXCEPT ![r] = [g EXCEPT !.entries = entries]] /\ o \in CheckState
    BY <1>1, <2>1 DEF TypeOK
  <2>. HIDE DEF o
  <2>3. d = [i |-> i, at |-> o.at, got |-> o.got, entries |-> o.entries, snap |-> o.snap, e |-> o.e]
    BY <2>2 DEF CheckState
  <2>. HIDE DEF d
  <2>4. f = [i |-> i, at |-> at, got |-> o.got, entries |-> o.entries, snap |-> o.snap, e |-> o.e]
    BY <2>3
  <2>. HIDE DEF f
  <2>5. g = [i |-> i, at |-> at, got |-> <<>>, entries |-> o.entries, snap |-> o.snap, e |-> o.e]
    BY <2>4
  <2>. HIDE DEF g
  <2>6. [g EXCEPT !.entries = entries]
          = [i |-> i, at |-> at, got |-> <<>>, entries |-> entries, snap |-> o.snap, e |-> o.e]
    BY <2>5
  <2>. QED
    BY <2>1, <2>2, <2>6 DEF o
<1>. HIDE DEF new
<1>4. entries = chk[r].entries \o new
  OBVIOUS
<1>. HIDE DEF entries
<1>5. /\ entries \in Seq(Entry)
      /\ \A p \in DOMAIN chk[r].entries : p \in DOMAIN entries /\ entries[p] = chk[r].entries[p]
      /\ \A k \in DOMAIN new : \E p \in DOMAIN entries : entries[p] = new[k]
      /\ \A p \in DOMAIN entries : \/ p \in DOMAIN chk[r].entries /\ entries[p] = chk[r].entries[p]
                                   \/ \E k \in DOMAIN new : entries[p] = new[k]
  <2>. DEFINE old == chk[r].entries
  <2>1. old \in Seq(Entry) /\ new \in Seq(Entry) /\ entries = old \o new
    BY <1>1, <1>3, <1>4
  <2>. HIDE DEF old
  <2>2. entries \in Seq(Entry) /\ Joins(entries, old, new)
    BY <2>1, Joined
  <2>. QED
    BY <2>2 DEF old, Joins
<1>9. i \in Nat /\ at \in 0..MaxTime
  BY <1>1, <1>2, Constants
<1>10. c \in CheckState
  <2>. HIDE DEF i, at
  <2>1. chk[r].snap \in [Scopes -> Amounts] /\ chk[r].e \in Nat /\ <<>> \in Seq(Budgets)
    BY <1>1 DEF CheckState
  <2>. QED
    BY <1>5, <1>9, <2>1 DEF CheckState
<1>11. ~last => chk[r].i + 1 \in DOMAIN ScopesOf[r]
  BY <1>1, <1>2
<1>12. /\ c.snap = chk[r].snap /\ c.e = chk[r].e /\ c.entries = entries
       /\ c.i = i /\ c.at = at
  OBVIOUS
<1>. HIDE DEF c
<1>13. \A k \in DOMAIN budgets : \E p \in DOMAIN c.entries :
          c.entries[p] = [scope |-> Scope(r), budget |-> budgets[k]]
  BY <1>3, <1>5, <1>12
<1>14. \A p \in DOMAIN c.entries : \/ p \in DOMAIN chk[r].entries /\ c.entries[p] = chk[r].entries[p]
                                   \/ c.entries[p].scope = Scope(r)
  BY <1>3, <1>5, <1>12
<1>. QED
  BY <1>13, <1>14, <1>2, <1>5, <1>8, <1>10, <1>11, <1>12

\* The steps that change one field of a check.
LEMMA FetchSteps ==
  ASSUME TypeOK, Placed, NEW r \in Reqs, Fetch(r)
  PROVE  /\ Scope(r) \in Scopes /\ Scope(r) \in Billed(r)
         /\ \E c \in CheckState :
              /\ chk' = [chk EXCEPT ![r] = c] /\ pc' = [pc EXCEPT ![r] = "fill"]
              /\ c.i = chk[r].i /\ c.at = chk[r].at /\ c.entries = chk[r].entries
              /\ c.snap = chk[r].snap /\ c.e = chk[r].e /\ c.got = defs[Scope(r)]
<1>1. /\ chk[r] \in CheckState /\ chk[r].i \in DOMAIN ScopesOf[r] /\ ScopesOf[r] \in Seq(Scopes)
      /\ pc[r] = "fetch" /\ pc' = [pc EXCEPT ![r] = "fill"]
  BY Constants DEF TypeOK, CheckState, Placed, Fetch, Collecting
<1>2. Scope(r) \in Scopes /\ Scope(r) \in Billed(r)
  BY <1>1 DEF Scope, Billed
<1>3. defs[Scope(r)] \in Seq(Budgets)
  BY <1>2, BudgetAssumption DEF TypeOK
<1>. DEFINE c == [chk[r] EXCEPT !.got = defs[Scope(r)]]
<1>4. chk' = [chk EXCEPT ![r] = c]
  BY DEF Fetch, TypeOK
<1>5. /\ c \in CheckState
      /\ c.i = chk[r].i /\ c.at = chk[r].at /\ c.entries = chk[r].entries
      /\ c.snap = chk[r].snap /\ c.e = chk[r].e /\ c.got = defs[Scope(r)]
  BY <1>1, <1>3 DEF CheckState
<1>. QED
  BY <1>1, <1>2, <1>4, <1>5

LEMMA ReadSpendSteps ==
  ASSUME TypeOK, Placed, NEW r \in Reqs, ReadSpend(r)
  PROVE  \E c \in CheckState :
           /\ chk' = [chk EXCEPT ![r] = c] /\ pc' = [pc EXCEPT ![r] = "eval"]
           /\ c.entries = chk[r].entries /\ c.e = 1
           /\ \A s \in Scopes : c.snap[s] =
                IF \E p \in DOMAIN chk[r].entries : chk[r].entries[p].scope = s
                  THEN used[s] ELSE Nothing[s]
<1>. DEFINE snap == [s \in Scopes |->
                       IF \E i \in DOMAIN chk[r].entries : chk[r].entries[i].scope = s
                         THEN used[s] ELSE Nothing[s]]
            o    == chk[r]
            d    == [o EXCEPT !.e = 1]
<1>1. chk[r] \in CheckState
  BY DEF TypeOK, CheckState
<1>2. /\ snap \in [Scopes -> Amounts]
      /\ \A s \in Scopes : snap[s] =
           IF \E p \in DOMAIN chk[r].entries : chk[r].entries[p].scope = s
             THEN used[s] ELSE Nothing[s]
  BY Empties DEF TypeOK
<1>3. /\ chk' = [chk EXCEPT ![r].e = 1, ![r].snap = snap]
      /\ pc' = [pc EXCEPT ![r] = "eval"]
  BY DEF ReadSpend
<1>. HIDE DEF snap
<1>4. chk' = [chk EXCEPT ![r] = [d EXCEPT !.snap = snap]]
  BY <1>3 DEF TypeOK
<1>. HIDE DEF o
<1>5. d = [i |-> o.i, at |-> o.at, got |-> o.got, entries |-> o.entries, snap |-> o.snap, e |-> 1]
  BY <1>1 DEF CheckState, o
<1>. HIDE DEF d
<1>6. [d EXCEPT !.snap = snap]
        = [i |-> o.i, at |-> o.at, got |-> o.got, entries |-> o.entries, snap |-> snap, e |-> 1]
  BY <1>5
<1>7. [d EXCEPT !.snap = snap] \in CheckState
  BY <1>1, <1>2, <1>6 DEF CheckState, o
<1>. QED
  BY <1>2, <1>3, <1>4, <1>6, <1>7 DEF o

LEMMA PassSteps ==
  ASSUME TypeOK, Placed, NEW r \in Reqs, Pass(r)
  PROVE  /\ chk[r].e \in DOMAIN chk[r].entries /\ chk[r].entries \in Seq(Entry)
         /\ \E c \in CheckState :
              /\ chk' = [chk EXCEPT ![r] = c]
              /\ \/ chk[r].e = Len(chk[r].entries) /\ pc' = [pc EXCEPT ![r] = "allowed"]
                 \/ c.e \in DOMAIN c.entries /\ pc' = [pc EXCEPT ![r] = "eval"]
              /\ c.entries = chk[r].entries /\ c.snap = chk[r].snap /\ c.e = chk[r].e + 1
<1>1. /\ chk[r] \in CheckState /\ chk[r].e \in DOMAIN chk[r].entries
      /\ chk[r].entries \in Seq(Entry) /\ pc[r] = "eval"
  BY DEF TypeOK, CheckState, Placed, Pass
<1>2. /\ DOMAIN chk[r].entries = 1..Len(chk[r].entries) /\ Len(chk[r].entries) \in Nat
      /\ chk[r].e \in 1..Len(chk[r].entries)
  BY <1>1
<1>. DEFINE c == [chk[r] EXCEPT !.e = @ + 1]
<1>3. chk' = [chk EXCEPT ![r] = c]
  BY DEF Pass, TypeOK
<1>4. /\ c \in CheckState
      /\ c.entries = chk[r].entries /\ c.snap = chk[r].snap /\ c.e = chk[r].e + 1
  BY <1>1, <1>2 DEF CheckState
<1>. HIDE DEF c
<1>5. CASE chk[r].e = Len(chk[r].entries)
  <2>1. pc' = [pc EXCEPT ![r] = "allowed"]
    BY <1>5 DEF Pass
  <2>. QED
    BY <1>1, <1>3, <1>4, <1>5, <2>1
<1>6. CASE chk[r].e # Len(chk[r].entries)
  <2>1. pc' = [pc EXCEPT ![r] = "eval"]
    BY <1>1, <1>6 DEF Pass, TypeOK
  <2>2. c.e \in DOMAIN c.entries
    BY <1>2, <1>4, <1>6
  <2>. QED
    BY <1>1, <1>3, <1>4, <2>1, <2>2
<1>. QED
  BY <1>5, <1>6

LEMMA StartSteps ==
  ASSUME TypeOK, NEW r \in Reqs, Start(r)
  PROVE  \E c \in CheckState, to \in {"lookup", "allowed"} :
           /\ chk' = [chk EXCEPT ![r] = c] /\ pc' = [pc EXCEPT ![r] = to]
           /\ c.i = 1 /\ c.at = now /\ c.entries = <<>> /\ c.e = 0
           /\ to = "lookup" => 1 \in DOMAIN ScopesOf[r]
           /\ to = "allowed" => Billed(r) = {}
<1>. DEFINE d == [NoCheck EXCEPT !.i = 1]
            c == [NoCheck EXCEPT !.i = 1, !.at = now]
            to == IF ScopesOf[r] = <<>> THEN "allowed" ELSE "lookup"
<1>1. NoCheck \in CheckState /\ now \in 0..MaxTime /\ ScopesOf[r] \in Seq(Scopes)
  BY Empties, Constants DEF TypeOK
<1>2. c = [i |-> 1, at |-> now, got |-> <<>>, entries |-> <<>>, snap |-> Nothing, e |-> 0]
  <2>1. d = [i |-> 1, at |-> 0, got |-> <<>>, entries |-> <<>>, snap |-> Nothing, e |-> 0]
    BY DEF NoCheck
  <2>2. c = [d EXCEPT !.at = now]
    BY DEF NoCheck
  <2>. HIDE DEF c, d
  <2>. QED
    BY <2>1, <2>2
<1>3. chk' = [chk EXCEPT ![r] = c] /\ pc' = [pc EXCEPT ![r] = to]
  BY DEF Start
<1>. HIDE DEF c
<1>4. c \in CheckState
  <2>1. <<>> \in Seq(Budgets) /\ <<>> \in Seq(Entry) /\ Nothing \in [Scopes -> Amounts]
    BY Empties
  <2>. QED
    BY <1>1, <1>2, <2>1 DEF CheckState
<1>5. to = "lookup" => 1 \in DOMAIN ScopesOf[r]
  BY <1>1
<1>6. to = "allowed" => Billed(r) = {}
  BY <1>1 DEF Billed
<1>. QED
  BY <1>2, <1>3, <1>4, <1>5, <1>6

\* Rows that are stored leave the other scopes alone.
LEMMA StoredSteps ==
  ASSUME TypeOK, NEW r \in Reqs, Stored(r, 1)
  PROVE  /\ used' \in [Scopes -> Amounts]
         /\ \A s \in Scopes \ Billed(r) : used'[s] = used[s]
         /\ \A s \in Billed(r) : /\ used'[s].micros = used[s].micros + Cost.micros
                                 /\ used'[s].tokens = used[s].tokens + Cost.tokens
<1>1. \A s \in Scopes : used[s].micros \in Nat /\ used[s].tokens \in Nat
  BY DEF TypeOK, Amounts
<1>2. 1 * Cost.micros = Cost.micros /\ 1 * Cost.tokens = Cost.tokens
  BY Constants
<1>3. \A s \in Scopes : used'[s] =
        IF s \in Billed(r) THEN [micros |-> used[s].micros + Cost.micros,
                                 tokens |-> used[s].tokens + Cost.tokens]
                           ELSE used[s]
  BY <1>2 DEF Stored
<1>4. Billed(r) \subseteq Scopes
  BY Constants
<1>5. used' \in [Scopes -> Amounts]
  <2>1. \A s \in Scopes : used'[s] \in Amounts
    <3>. SUFFICES ASSUME NEW s \in Scopes PROVE used'[s] \in Amounts
      OBVIOUS
    <3>1. CASE s \in Billed(r)
      <4>1. used[s].micros + Cost.micros \in Nat /\ used[s].tokens + Cost.tokens \in Nat
        BY <1>1, Constants
      <4>2. used'[s] = [micros |-> used[s].micros + Cost.micros,
                        tokens |-> used[s].tokens + Cost.tokens]
        BY <1>3, <3>1
      <4>. QED
        BY <4>1, <4>2 DEF Amounts
    <3>2. CASE s \notin Billed(r)
      BY <1>3, <3>2 DEF TypeOK
    <3>. QED
      BY <3>1, <3>2
  <2>2. used' = [s \in Scopes |-> used'[s]]
    BY DEF Stored
  <2>. QED
    BY <2>1, <2>2
<1>. QED
  BY <1>3, <1>4, <1>5

LEMMA HoldIsNat ==
  ASSUME TypeOK, NEW r \in Reqs, NEW s \in Scopes
  PROVE  /\ IsFiniteSet(HardEntries(chk[r].entries, s))
         /\ Hold * Cardinality(HardEntries(chk[r].entries, s)) \in Nat
<1>1. chk[r].entries \in Seq(Entry) /\ Len(chk[r].entries) \in Nat
      /\ DOMAIN chk[r].entries = 1..Len(chk[r].entries)
  BY DEF TypeOK
<1>2. IsFiniteSet(1..Len(chk[r].entries))
  BY <1>1, FS_Interval
<1>3. HardEntries(chk[r].entries, s) \subseteq 1..Len(chk[r].entries)
  BY <1>1 DEF HardEntries
<1>4. IsFiniteSet(HardEntries(chk[r].entries, s)) /\ Cardinality(HardEntries(chk[r].entries, s)) \in Nat
  BY <1>2, <1>3, FS_Subset, FS_CardinalityType
<1>. QED
  BY <1>4, Constants
---------------------------------------------------------------------------
(* The state stays typed *)

Typed == TypeOK /\ Placed

\* A step that puts a typed check in place of r's.
LEMMA CheckTyped ==
  ASSUME Typed, NEW r \in Reqs, NEW c \in CheckState,
         NEW to \in {"idle", "lookup", "fetch", "fill", "spend", "eval", "allowed", "running", "metered"},
         chk' = [chk EXCEPT ![r] = c], pc' = [pc EXCEPT ![r] = to],
         to \in Collecting => c.i \in DOMAIN ScopesOf[r],
         to = "spend" => c.entries # <<>>,
         to = "eval" => c.e \in DOMAIN c.entries
  PROVE  /\ chk' \in [Reqs -> CheckState]
         /\ pc' \in [Reqs -> {"idle", "lookup", "fetch", "fill", "spend", "eval",
                              "allowed", "running", "metered"}]
         /\ Placed'
<1>1. chk \in [Reqs -> CheckState]
  BY DEF Typed, TypeOK, CheckState
<1>2. /\ chk' \in [Reqs -> CheckState]
      /\ pc' \in [Reqs -> {"idle", "lookup", "fetch", "fill", "spend", "eval",
                           "allowed", "running", "metered"}]
  BY <1>1 DEF Typed, TypeOK
<1>3. Placed'
  <2>. SUFFICES ASSUME NEW q \in Reqs
                PROVE  /\ pc'[q] \in Collecting => chk'[q].i \in DOMAIN ScopesOf[q]
                       /\ pc'[q] = "spend" => chk'[q].entries # <<>>
                       /\ pc'[q] = "eval" => chk'[q].e \in DOMAIN chk'[q].entries
    BY DEF Placed
  <2>1. CASE q = r
    BY <1>1, <2>1 DEF Typed, TypeOK
  <2>2. CASE q # r
    BY <1>1, <2>2 DEF Typed, TypeOK, Placed
  <2>. QED
    BY <2>1, <2>2
<1>. QED
  BY <1>2, <1>3

LEMMA InitTyped == Init => Typed
<1>. SUFFICES ASSUME Init PROVE Typed
  OBVIOUS
<1>1. <<>> \in Seq(Budgets) /\ 0 \in Nat
  OBVIOUS
<1>2. cache \in [Scopes -> [budgets : Seq(Budgets), expires : Nat]]
  BY <1>1 DEF Init, Absent
<1>3. chk \in [Reqs -> CheckState]
  BY Empties DEF Init
<1>4. \A r \in Reqs : pc[r] = "idle"
  BY DEF Init
<1>5. TypeOK
  BY <1>2, <1>3, Empties, Constants DEF Init, TypeOK, CheckState
<1>. QED
  BY <1>4, <1>5 DEF Typed, Placed, Collecting

\* The steps of Check, of Reserve and of its callers.
LEMMA CheckKeepsTypes ==
  ASSUME Typed, NEW r \in Reqs,
         \/ Start(r) \/ LookupHit(r) \/ LookupMiss(r) \/ Fetch(r) \/ Fill(r)
         \/ ReadSpend(r) \/ Pass(r)
  PROVE  Typed'
<1>. USE DEF Typed
<1>1. CASE Start(r)
  <2>1. PICK c \in CheckState, to \in {"lookup", "allowed"} :
           /\ chk' = [chk EXCEPT ![r] = c] /\ pc' = [pc EXCEPT ![r] = to]
           /\ c.i = 1 /\ (to = "lookup" => 1 \in DOMAIN ScopesOf[r])
    BY <1>1, StartSteps
  <2>2. /\ chk' \in [Reqs -> CheckState]
        /\ pc' \in [Reqs -> {"idle", "lookup", "fetch", "fill", "spend", "eval",
                             "allowed", "running", "metered"}]
        /\ Placed'
    BY <2>1, CheckTyped DEF Collecting
  <2>3. sure' \in [Reqs -> SUBSET Scopes] /\ UNCHANGED <<store, reservations, cache>>
    BY <1>1, Constants DEF Start, TypeOK
  <2>. QED
    BY <2>2, <2>3 DEF TypeOK, CheckState, store
<1>2. ASSUME NEW budgets \in Seq(Budgets), pc[r] \in Collecting, Collect(r, budgets),
             UNCHANGED <<store, reservations, sure>>
      PROVE  /\ Placed'
             /\ cache' \in [Scopes -> [budgets : Seq(Budgets), expires : Nat]] => TypeOK'
  <2>1. PICK c \in CheckState, to \in {"lookup", "spend", "allowed"} :
          /\ chk' = [chk EXCEPT ![r] = c] /\ pc' = [pc EXCEPT ![r] = to]
          /\ to = "lookup" => c.i \in DOMAIN ScopesOf[r]
          /\ to = "allowed" <=> (to # "lookup" /\ c.entries = <<>>)
    BY <1>2, CollectSteps
  <2>2. /\ chk' \in [Reqs -> CheckState]
        /\ pc' \in [Reqs -> {"idle", "lookup", "fetch", "fill", "spend", "eval",
                             "allowed", "running", "metered"}]
        /\ Placed'
    BY <2>1, CheckTyped DEF Collecting
  <2>. QED
    BY <1>2, <2>2 DEF TypeOK, CheckState, store
<1>3. CASE LookupHit(r)
  <2>1. /\ pc[r] \in Collecting /\ chk[r].i \in DOMAIN ScopesOf[r] /\ ScopesOf[r] \in Seq(Scopes)
    BY <1>3, Constants DEF LookupHit, Collecting, Placed
  <2>2. Scope(r) \in Scopes
    BY <2>1 DEF Scope
  <2>3. cache[Scope(r)].budgets \in Seq(Budgets)
    BY <2>2 DEF TypeOK
  <2>4. Collect(r, cache[Scope(r)].budgets) /\ UNCHANGED <<store, reservations, cache, sure>>
    BY <1>3 DEF LookupHit
  <2>. QED
    BY <1>2, <2>1, <2>3, <2>4 DEF TypeOK
<1>4. CASE LookupMiss(r)
  <2>1. /\ pc[r] = "lookup" /\ pc' = [pc EXCEPT ![r] = "fetch"]
        /\ UNCHANGED <<store, reservations, cache, chk, sure>>
    BY <1>4 DEF LookupMiss
  <2>2. TypeOK'
    BY <2>1 DEF TypeOK, store
  <2>3. Placed'
    BY <2>1 DEF Placed, TypeOK, Collecting
  <2>. QED
    BY <2>2, <2>3
<1>5. CASE Fetch(r)
  <2>1. PICK c \in CheckState :
           /\ chk' = [chk EXCEPT ![r] = c] /\ pc' = [pc EXCEPT ![r] = "fill"]
           /\ c.i = chk[r].i
    BY <1>5, FetchSteps
  <2>2. c.i \in DOMAIN ScopesOf[r]
    BY <1>5, <2>1 DEF Fetch, Placed, Collecting
  <2>3. /\ chk' \in [Reqs -> CheckState]
        /\ pc' \in [Reqs -> {"idle", "lookup", "fetch", "fill", "spend", "eval",
                             "allowed", "running", "metered"}]
        /\ Placed'
    BY <2>1, <2>2, CheckTyped
  <2>. QED
    BY <1>5, <2>3 DEF TypeOK, CheckState, store, Fetch
<1>6. CASE Fill(r)
  <2>1. /\ pc[r] \in Collecting /\ chk[r].i \in DOMAIN ScopesOf[r] /\ ScopesOf[r] \in Seq(Scopes)
    BY <1>6, Constants DEF Fill, Collecting, Placed
  <2>2. Scope(r) \in Scopes
    BY <2>1 DEF Scope
  <2>3. /\ chk[r].got \in Seq(Budgets) /\ chk[r].at + TTL \in Nat
    BY Constants DEF TypeOK
  <2>4. cache' \in [Scopes -> [budgets : Seq(Budgets), expires : Nat]]
    <3>1. [budgets |-> chk[r].got, expires |-> chk[r].at + TTL] \in [budgets : Seq(Budgets), expires : Nat]
      BY <2>3
    <3>2. cache' = [cache EXCEPT ![Scope(r)] = [budgets |-> chk[r].got, expires |-> chk[r].at + TTL]]
      BY <1>6 DEF Fill
    <3>. HIDE DEF Typed
    <3>3. cache \in [Scopes -> [budgets : Seq(Budgets), expires : Nat]]
      BY DEF Typed, TypeOK
    <3>. QED
      BY <2>2, <3>1, <3>2, <3>3
  <2>5. Collect(r, chk[r].got) /\ UNCHANGED <<store, reservations, sure>>
    BY <1>6 DEF Fill
  <2>. QED
    BY <1>2, <2>1, <2>3, <2>4, <2>5
<1>7. CASE ReadSpend(r)
  <2>1. PICK c \in CheckState :
           /\ chk' = [chk EXCEPT ![r] = c] /\ pc' = [pc EXCEPT ![r] = "eval"]
           /\ c.entries = chk[r].entries /\ c.e = 1
    BY <1>7, ReadSpendSteps
  <2>2. /\ c.entries \in Seq(Entry) /\ c.entries # <<>>
    BY <1>7, <2>1 DEF ReadSpend, Placed, CheckState
  <2>3. c.e \in DOMAIN c.entries
    BY <2>1, <2>2
  <2>4. /\ chk' \in [Reqs -> CheckState]
        /\ pc' \in [Reqs -> {"idle", "lookup", "fetch", "fill", "spend", "eval",
                             "allowed", "running", "metered"}]
        /\ Placed'
    BY <2>1, <2>3, CheckTyped DEF Collecting
  <2>. QED
    BY <1>7, <2>4 DEF TypeOK, CheckState, store, ReadSpend
<1>8. CASE Pass(r)
  <2>1. PICK c \in CheckState :
           /\ chk' = [chk EXCEPT ![r] = c]
           /\ \/ pc' = [pc EXCEPT ![r] = "allowed"]
              \/ c.e \in DOMAIN c.entries /\ pc' = [pc EXCEPT ![r] = "eval"]
    BY <1>8, PassSteps
  <2>2. /\ chk' \in [Reqs -> CheckState]
        /\ pc' \in [Reqs -> {"idle", "lookup", "fetch", "fill", "spend", "eval",
                             "allowed", "running", "metered"}]
        /\ Placed'
    BY <2>1, CheckTyped DEF Collecting
  <2>. QED
    BY <1>8, <2>2 DEF TypeOK, CheckState, store, Pass
<1>. QED
  BY <1>1, <1>3, <1>4, <1>5, <1>6, <1>7, <1>8

LEMMA LeaveKeepsTypes ==
  ASSUME Typed, NEW r \in Reqs, NEW to \in {"idle", "running"}, Leave(r, to),
         UNCHANGED <<store, cache>>, reservations' \in [Scopes -> Nat]
  PROVE  Typed'
<1>1. /\ chk' = [chk EXCEPT ![r] = NoCheck] /\ pc' = [pc EXCEPT ![r] = to]
      /\ sure' = [sure EXCEPT ![r] = {}] /\ NoCheck \in CheckState
  BY Empties DEF Leave
<1>2. /\ chk' \in [Reqs -> CheckState]
      /\ pc' \in [Reqs -> {"idle", "lookup", "fetch", "fill", "spend", "eval",
                           "allowed", "running", "metered"}]
      /\ Placed'
  BY <1>1, CheckTyped DEF Collecting
<1>. QED
  BY <1>1, <1>2 DEF Typed, TypeOK, CheckState, store

LEMMA ServeKeepsTypes ==
  ASSUME Typed, NEW r \in Reqs,
         \/ ReadFails(r) \/ Block(r) \/ Reserve(r) \/ ReturnNil(r)
         \/ Meter(r) \/ Flush(r) \/ ReleaseAll(r)
  PROVE  Typed'
<1>. USE DEF Typed
<1>1. CASE ReadFails(r) \/ Block(r) \/ ReturnNil(r)
  <2>1. Leave(r, "idle") /\ UNCHANGED <<store, reservations, cache>>
    BY <1>1 DEF ReadFails, Block, ReturnNil
  <2>. QED
    BY <2>1, LeaveKeepsTypes DEF TypeOK
<1>2. CASE Reserve(r)
  <2>1. Leave(r, "running") /\ UNCHANGED <<store, cache>>
    BY <1>2 DEF Reserve
  <2>2. reservations' \in [Scopes -> Nat]
    <3>1. reservations' = [s \in Scopes |->
             reservations[s] + Hold * Cardinality(HardEntries(chk[r].entries, s))]
      BY <1>2 DEF Reserve
    <3>2. \A s \in Scopes : reservations[s] + Hold * Cardinality(HardEntries(chk[r].entries, s)) \in Nat
      BY HoldIsNat DEF TypeOK
    <3>. QED
      BY <3>1, <3>2
  <2>. QED
    BY <2>1, <2>2, LeaveKeepsTypes
<1>3. CASE ReleaseAll(r)
  <2>1. Leave(r, "idle") /\ UNCHANGED <<store, cache>>
    BY <1>3 DEF ReleaseAll
  <2>2. reservations' \in [Scopes -> Nat]
    BY <1>3 DEF ReleaseAll, TypeOK
  <2>. QED
    BY <2>1, <2>2, LeaveKeepsTypes
<1>4. CASE Meter(r) \/ Flush(r)
  <2>1. /\ UNCHANGED <<async, now, defs, reservations, cache, chk, changed, sure>>
        /\ pc' = pc \/ pc' = [pc EXCEPT ![r] = "metered"]
    BY <1>4 DEF Meter, Flush
  <2>2. Placed'
    BY <2>1 DEF Placed, TypeOK, Collecting
  <2>3. used' \in [Scopes -> Amounts]
    BY <1>4, StoredSteps DEF Meter, Flush, TypeOK
  <2>4. unwritten' \in [Reqs -> Nat]
    <3>1. \/ UNCHANGED unwritten
          \/ unwritten' = [unwritten EXCEPT ![r] = @ + 1]
          \/ unwritten[r] > 0 /\ unwritten' = [unwritten EXCEPT ![r] = @ - 1]
      BY <1>4 DEF Meter, Flush
    <3>2. unwritten \in [Reqs -> Nat]
      BY DEF TypeOK
    <3>. HIDE DEF Typed
    <3>3. CASE unwritten[r] > 0 /\ unwritten' = [unwritten EXCEPT ![r] = @ - 1]
      <4>1. unwritten[r] - 1 \in Nat
        BY <3>2, <3>3
      <4>. QED
        BY <3>2, <3>3, <4>1
    <3>. QED
      BY <3>1, <3>2, <3>3
  <2>5. pc' \in [Reqs -> {"idle", "lookup", "fetch", "fill", "spend", "eval",
                           "allowed", "running", "metered"}]
    BY <2>1 DEF TypeOK
  <2>. QED
    BY <2>1, <2>2, <2>3, <2>4, <2>5 DEF TypeOK
<1>. QED
  BY <1>1, <1>2, <1>3, <1>4

LEMMA RestKeepsTypes ==
  ASSUME Typed, (\E s \in Scopes : EditBudgets(s)) \/ InvalidateBudgetCache \/ Tick \/ UNCHANGED vars
  PROVE  Typed'
<1>. USE DEF Typed
<1>1. ASSUME NEW s \in Scopes, EditBudgets(s) PROVE Typed'
  <2>1. /\ UNCHANGED <<async, now, used, unwritten, reservations, cache, pc, chk>>
        /\ defs' \in [Scopes -> DefChoices] /\ changed' \in [Scopes -> Int]
        /\ sure' \in [Reqs -> SUBSET Scopes]
    BY <1>1 DEF EditBudgets, TypeOK
  <2>. QED
    BY <2>1 DEF TypeOK, Placed
<1>2. CASE InvalidateBudgetCache
  <2>1. Absent \in [budgets : Seq(Budgets), expires : Nat]
    BY DEF Absent
  <2>2. /\ UNCHANGED <<store, reservations, pc, chk, sure>>
        /\ cache' \in [Scopes -> [budgets : Seq(Budgets), expires : Nat]]
    BY <1>2, <2>1 DEF InvalidateBudgetCache
  <2>. QED
    BY <2>2 DEF TypeOK, Placed, store
<1>3. CASE Tick
  <2>1. /\ UNCHANGED <<async, defs, used, unwritten, reservations, cache, pc, chk, changed, sure>>
        /\ now' \in 0..MaxTime
    BY <1>3, BudgetAssumption DEF Tick, TypeOK
  <2>. QED
    BY <2>1 DEF TypeOK, Placed
<1>4. CASE UNCHANGED vars
  BY <1>4 DEF vars, TypeOK, Placed
<1>. QED
  BY <1>1, <1>2, <1>3, <1>4

LEMMA TypedIsInductive == Typed /\ [Next]_vars => Typed'
  BY CheckKeepsTypes, ServeKeepsTypes, RestKeepsTypes DEF Next

\* The state of the engine stays typed, for any requests, scopes, budgets and
\* costs: in particular no reservation goes below zero.
THEOREM Typing == Spec => []TypeOK
<1>1. Typed => TypeOK
  BY DEF Typed
<1>. QED
  BY <1>1, InitTyped, TypedIsInductive, PTL DEF Spec
---------------------------------------------------------------------------
(* What a step leaves alone *)

\* The disjunct of Next that is a step of r.
Step(r) ==
  \/ Start(r) \/ LookupHit(r) \/ LookupMiss(r) \/ Fetch(r) \/ Fill(r)
  \/ ReadSpend(r) \/ ReadFails(r) \/ Block(r) \/ Pass(r)
  \/ Reserve(r) \/ ReturnNil(r) \/ Meter(r) \/ Flush(r) \/ ReleaseAll(r)

LEMMA Steps ==
  ASSUME [Next]_vars
  PROVE  \/ \E r \in Reqs : Step(r)
         \/ \E s \in Scopes : EditBudgets(s)
         \/ InvalidateBudgetCache
         \/ Tick
         \/ UNCHANGED vars
  BY DEF Next, Step

LEMMA Others ==
  ASSUME Typed, NEW r \in Reqs, Step(r)
  PROVE  /\ UNCHANGED <<async, now, defs, changed>>
         /\ \A q \in Reqs \ {r} : pc'[q] = pc[q] /\ chk'[q] = chk[q] /\ sure'[q] = sure[q]
<1>. USE DEF store
<1>1. pc \in [Reqs -> {"idle", "lookup", "fetch", "fill", "spend", "eval",
                       "allowed", "running", "metered"}]
      /\ chk \in [Reqs -> CheckState] /\ sure \in [Reqs -> SUBSET Scopes]
  BY DEF Typed, TypeOK, CheckState
<1>2. CASE Start(r)
  <2>1. PICK c \in CheckState, to \in {"lookup", "allowed"} :
           chk' = [chk EXCEPT ![r] = c] /\ pc' = [pc EXCEPT ![r] = to]
    BY <1>2, StartSteps DEF Typed
  <2>2. UNCHANGED <<async, now, defs, changed>>
        /\ sure' = [sure EXCEPT ![r] = {s \in Billed(r) : LongExhausted(s)}]
    BY <1>2 DEF Start
  <2>. QED
    BY <1>1, <2>1, <2>2
<1>3. CASE LookupHit(r) \/ Fill(r)
  <2>1. PICK budgets : Collect(r, budgets)
    BY <1>3 DEF LookupHit, Fill
  <2>2. /\ \E to : pc' = [pc EXCEPT ![r] = to]
        /\ \A q \in Reqs \ {r} : chk'[q] = chk[q]
    BY <1>1, <2>1 DEF Collect
  <2>. QED
    BY <1>1, <1>3, <2>2 DEF LookupHit, Fill
<1>4. CASE LookupMiss(r) \/ Fetch(r) \/ ReadSpend(r) \/ Pass(r)
  BY <1>1, <1>4 DEF LookupMiss, Fetch, ReadSpend, Pass
<1>5. CASE ReadFails(r) \/ Block(r) \/ Reserve(r) \/ ReturnNil(r) \/ ReleaseAll(r)
  <2>1. PICK to : Leave(r, to)
    BY <1>5 DEF ReadFails, Block, Reserve, ReturnNil, ReleaseAll
  <2>. QED
    BY <1>1, <1>5, <2>1 DEF Leave, ReadFails, Block, Reserve, ReturnNil, ReleaseAll
<1>6. CASE Meter(r) \/ Flush(r)
  BY <1>1, <1>6 DEF Meter, Flush
<1>. QED
  BY <1>2, <1>3, <1>4, <1>5, <1>6 DEF Step

LEMMA Left ==
  ASSUME Typed, NEW r \in Reqs, NEW to, Leave(r, to)
  PROVE  /\ pc'[r] = to /\ sure'[r] = {} /\ chk'[r] = NoCheck /\ chk'[r].entries = <<>>
  BY DEF Typed, TypeOK, Leave, NoCheck

LEMMA Collects ==
  ASSUME Typed, NEW r \in Reqs, LookupHit(r) \/ Fill(r)
  PROVE  /\ pc[r] \in Collecting /\ Scope(r) \in Scopes
         /\ cache[Scope(r)].budgets \in Seq(Budgets) /\ chk[r].got \in Seq(Budgets)
         /\ \E budgets \in Seq(Budgets) : Collect(r, budgets)
<1>1. pc[r] \in Collecting /\ Scope(r) \in Scopes
  BY Constants DEF LookupHit, Fill, Collecting, Typed, Placed, Scope
<1>2. cache[Scope(r)].budgets \in Seq(Budgets) /\ chk[r].got \in Seq(Budgets)
  BY <1>1 DEF Typed, TypeOK
<1>. QED
  BY <1>1, <1>2 DEF LookupHit, Fill

\* Steps that touch the entries of no request.
LEMMA Idle ==
  ASSUME Typed,
         (\E s \in Scopes : EditBudgets(s)) \/ InvalidateBudgetCache \/ Tick \/ UNCHANGED vars
  PROVE  UNCHANGED <<pc, chk, used, unwritten, reservations, async>>
  BY DEF EditBudgets, InvalidateBudgetCache, Tick, vars, store
---------------------------------------------------------------------------
(* Reservations belong to requests in flight *)

LEMMA OwnIsInductive == Typed /\ Own /\ [Next]_vars => Own'
<1>. SUFFICES ASSUME Typed, Own, [Next]_vars PROVE Own'
  OBVIOUS
<1>1. ASSUME NEW r \in Reqs, Step(r),
             \A p \in DOMAIN chk'[r].entries :
               \/ p \in DOMAIN chk[r].entries /\ chk'[r].entries[p] = chk[r].entries[p]
               \/ chk'[r].entries[p].scope \in Billed(r)
      PROVE  Own'
  BY <1>1, Others DEF Own
<1>2. ASSUME NEW r \in Reqs, Step(r)
      PROVE  \A p \in DOMAIN chk'[r].entries :
               \/ p \in DOMAIN chk[r].entries /\ chk'[r].entries[p] = chk[r].entries[p]
               \/ chk'[r].entries[p].scope \in Billed(r)
  <2>0. chk \in [Reqs -> CheckState]
    BY DEF Typed, TypeOK, CheckState
  <2>1. CASE LookupHit(r) \/ Fill(r)
    <3>1. pc[r] \in Collecting /\ \E budgets \in Seq(Budgets) : Collect(r, budgets)
      BY <2>1, Collects
    <3>2. PICK c \in CheckState :
            /\ chk' = [chk EXCEPT ![r] = c]
            /\ \A p \in DOMAIN c.entries :
                 \/ p \in DOMAIN chk[r].entries /\ c.entries[p] = chk[r].entries[p]
                 \/ c.entries[p].scope \in Billed(r)
      BY <3>1, CollectSteps DEF Typed
    <3>. QED
      BY <2>0, <3>2
  <2>2. CASE Start(r)
    <3>1. PICK c \in CheckState : chk' = [chk EXCEPT ![r] = c] /\ c.entries = <<>>
      BY <2>2, StartSteps DEF Typed
    <3>. QED
      BY <2>0, <3>1
  <2>3. CASE Fetch(r) \/ ReadSpend(r) \/ Pass(r)
    <3>1. \E c \in CheckState : chk' = [chk EXCEPT ![r] = c] /\ c.entries = chk[r].entries
      BY <2>3, FetchSteps, ReadSpendSteps, PassSteps DEF Typed
    <3>. QED
      BY <2>0, <3>1
  <2>4. CASE ReadFails(r) \/ Block(r) \/ Reserve(r) \/ ReturnNil(r) \/ ReleaseAll(r)
    <3>1. chk'[r].entries = <<>>
      BY <2>4, Left DEF ReadFails, Block, Reserve, ReturnNil, ReleaseAll
    <3>. QED
      BY <3>1
  <2>5. CASE LookupMiss(r) \/ Meter(r) \/ Flush(r)
    BY <2>5 DEF LookupMiss, Meter, Flush
  <2>. QED
    BY <1>2, <2>1, <2>2, <2>3, <2>4, <2>5 DEF Step
<1>3. ASSUME UNCHANGED chk PROVE Own'
  BY <1>3 DEF Own
<1>. QED
  BY <1>1, <1>2, <1>3, Steps, Idle

LEMMA PhantomIsInductive == Typed /\ Own /\ NoPhantomReservation /\ [Next]_vars => NoPhantomReservation'
<1>. SUFFICES ASSUME Typed, Own, NoPhantomReservation, [Next]_vars,
                     NEW s \in Scopes, reservations'[s] > 0
              PROVE  Outstanding(s)' # {}
  BY DEF NoPhantomReservation
<1>0. pc \in [Reqs -> {"idle", "lookup", "fetch", "fill", "spend", "eval",
                       "allowed", "running", "metered"}]
      /\ reservations[s] \in Nat
  BY DEF Typed, TypeOK
<1>1. CASE UNCHANGED <<pc, reservations>>
  BY <1>1 DEF NoPhantomReservation, Outstanding
<1>2. ASSUME NEW r \in Reqs, Step(r) PROVE Outstanding(s)' # {}
  <2>1. \A q \in Reqs \ {r} : q \in Outstanding(s) => q \in Outstanding(s)'
    BY <1>2, Others DEF Outstanding
  <2>2. CASE Reserve(r)
    <3>1. pc'[r] = "running" /\ pc[r] = "allowed"
      BY <2>2, Left DEF Reserve
    <3>2. CASE reservations[s] > 0
      <4>1. PICK q \in Outstanding(s) : TRUE
        BY <3>2 DEF NoPhantomReservation
      <4>. QED
        BY <2>1, <3>1, <4>1 DEF Outstanding
    <3>3. CASE ~(reservations[s] > 0)
      <4>1. reservations'[s] = Hold * Cardinality(HardEntries(chk[r].entries, s)) + reservations[s]
        <5>1. reservations'[s] = reservations[s] + Hold * Cardinality(HardEntries(chk[r].entries, s))
          BY <2>2 DEF Reserve
        <5>. QED
          BY <1>0, <5>1, HoldIsNat DEF Typed
      <4>2. HardEntries(chk[r].entries, s) # {}
        <5>. SUFFICES ASSUME HardEntries(chk[r].entries, s) = {} PROVE FALSE
          OBVIOUS
        <5>1. Cardinality(HardEntries(chk[r].entries, s)) = 0
          BY FS_EmptySet
        <5>. QED
          BY <1>0, <3>3, <4>1, <5>1, Constants
      <4>3. s \in Billed(r)
        BY <4>2 DEF HardEntries, Own
      <4>. QED
        BY <3>1, <4>3 DEF Outstanding
    <3>. QED
      BY <3>2, <3>3
  <2>3. CASE ReleaseAll(r)
    <3>1. s \notin Billed(r) /\ reservations[s] > 0
      BY <2>3, <1>0 DEF ReleaseAll
    <3>2. PICK q \in Outstanding(s) : q # r
      BY <3>1 DEF NoPhantomReservation, Outstanding
    <3>. QED
      BY <2>1, <3>2 DEF Outstanding
  <2>4. CASE ~(Reserve(r) \/ ReleaseAll(r))
    <3>1. UNCHANGED reservations
      BY <1>2, <2>4 DEF Step, Start, LookupHit, LookupMiss, Fetch, Fill, ReadSpend, ReadFails,
                        Block, Pass, ReturnNil, Meter, Flush
    <3>2. pc[r] \in {"running", "metered"} => pc'[r] \in {"running", "metered"}
      BY <1>0, <1>2, <2>4 DEF Step, Start, LookupHit, LookupMiss, Fetch, Fill, ReadSpend, ReadFails,
                              Block, Pass, ReturnNil, Meter, Flush
    <3>3. PICK q \in Outstanding(s) : TRUE
      BY <3>1 DEF NoPhantomReservation
    <3>. QED
      BY <2>1, <3>2, <3>3 DEF Outstanding
  <2>. QED
    BY <2>2, <2>3, <2>4
<1>. QED
  BY <1>1, <1>2, Steps, Idle

\* Over any number of requests and scopes, no reservation stays behind when
\* the requests that made it are gone.
THEOREM NoPhantom == Spec => []NoPhantomReservation
<1>1. Init => Own /\ NoPhantomReservation
  BY DEF Init, Own, NoPhantomReservation, NoCheck
<1>. QED
  BY <1>1, InitTyped, TypedIsInductive, OwnIsInductive, PhantomIsInductive, PTL DEF Spec
---------------------------------------------------------------------------
(* Cached and fetched lists are as fresh as their clock readings say *)

LEMMA ClockIsInductive == Typed /\ Clock /\ [Next]_vars => Clock'
<1>. SUFFICES ASSUME Typed, Clock, [Next]_vars PROVE Clock'
  OBVIOUS
<1>0. /\ chk \in [Reqs -> CheckState] /\ now \in Nat /\ TTL \in Nat
      /\ changed \in [Scopes -> Int] /\ \A s \in Scopes : cache[s].expires \in Nat
      /\ \A r \in Reqs : chk[r].at \in Nat
      /\ cache \in [Scopes -> [budgets : Seq(Budgets), expires : Nat]]
  BY Constants, BudgetAssumption DEF Typed, TypeOK, CheckState
<1>1. ASSUME NEW r \in Reqs, Step(r) PROVE Clock'
  <2>1. chk'[r].at <= now
    <3>1. CASE LookupHit(r) \/ Fill(r)
      <4>1. PICK c \in CheckState, to \in {"lookup", "spend", "allowed"} :
              /\ chk' = [chk EXCEPT ![r] = c]
              /\ to = "lookup" => c.at = now
              /\ to # "lookup" => c.at = 0
        BY <3>1, Collects, CollectSteps DEF Typed
      <4>. QED
        BY <1>0, <4>1
    <3>2. CASE Start(r)
      BY <1>0, <3>2, StartSteps DEF Typed
    <3>3. CASE Fetch(r)
      BY <1>0, <3>3, FetchSteps DEF Typed, Clock
    <3>4. CASE ReadFails(r) \/ Block(r) \/ Reserve(r) \/ ReturnNil(r) \/ ReleaseAll(r)
      <4>1. chk'[r] = NoCheck
        BY <3>4, Left DEF ReadFails, Block, Reserve, ReturnNil, ReleaseAll
      <4>. QED
        BY <1>0, <4>1 DEF NoCheck
    <3>5. CASE LookupMiss(r) \/ Meter(r) \/ Flush(r)
      BY <3>5 DEF LookupMiss, Meter, Flush, Clock
    <3>6. CASE ReadSpend(r) \/ Pass(r)
      <4>1. chk'[r].at = chk[r].at
        BY <1>0, <3>6 DEF ReadSpend, Pass, CheckState
      <4>. QED
        BY <4>1 DEF Clock
    <3>. QED
      BY <1>1, <3>1, <3>2, <3>3, <3>4, <3>5, <3>6 DEF Step
  <2>2. \A s \in Scopes : cache'[s].expires <= now + TTL
    <3>1. CASE Fill(r)
      <4>1. \A s \in Scopes : cache'[s].expires \in {cache[s].expires, chk[r].at + TTL}
        BY <1>0, <3>1 DEF Fill
      <4>2. chk[r].at <= now /\ chk[r].at + TTL <= now + TTL
        BY <1>0 DEF Clock
      <4>3. \A s \in Scopes : cache[s].expires <= now + TTL
        BY DEF Clock
      <4>. QED
        BY <4>1, <4>2, <4>3
    <3>2. CASE ~Fill(r)
      <4>1. UNCHANGED cache
        BY <1>1, <3>2 DEF Step, Start, LookupHit, LookupMiss, Fetch, ReadSpend, ReadFails, Block, Pass,
                          Reserve, ReturnNil, Meter, Flush, ReleaseAll
      <4>. QED
        BY <4>1 DEF Clock
    <3>. QED
      BY <3>1, <3>2
  <2>. QED
    BY <1>1, <2>1, <2>2, Others DEF Clock
<1>2. ASSUME NEW s \in Scopes, EditBudgets(s) PROVE Clock'
  <2>1. /\ UNCHANGED <<now, cache, chk>> /\ \A t \in Scopes : changed'[t] \in {changed[t], now}
    BY <1>0, <1>2 DEF EditBudgets
  <2>2. -TTL <= now /\ now <= now
    BY <1>0
  <2>3. \A t \in Scopes : -TTL <= changed'[t] /\ changed'[t] <= now
    BY <2>1, <2>2 DEF Clock
  <2>. QED
    BY <2>1, <2>3 DEF Clock
<1>3. CASE InvalidateBudgetCache
  <2>1. UNCHANGED <<now, changed, chk>> /\ \A s \in Scopes : cache'[s].expires = 0
    BY <1>3 DEF InvalidateBudgetCache, store, Absent
  <2>. QED
    BY <1>0, <2>1 DEF Clock
<1>4. CASE Tick
  <2>1. UNCHANGED <<changed, cache, chk>> /\ now' = now + 1
    BY <1>4 DEF Tick
  <2>. QED
    BY <1>0, <2>1 DEF Clock
<1>5. CASE UNCHANGED vars
  BY <1>5 DEF vars, Clock
<1>. QED
  BY <1>1, <1>2, <1>3, <1>4, <1>5, Steps

LEMMA CoherentIsInductive == Typed /\ Clock /\ Coherent /\ [Next]_vars => Coherent'
<1>. SUFFICES ASSUME Typed, Clock, Coherent, [Next]_vars PROVE Coherent'
  OBVIOUS
<1>0. /\ chk \in [Reqs -> CheckState] /\ now \in Nat /\ TTL \in Nat
      /\ changed \in [Scopes -> Int] /\ \A s \in Scopes : cache[s].expires \in Nat
      /\ \A r \in Reqs : chk[r].at \in Nat
      /\ cache \in [Scopes -> [budgets : Seq(Budgets), expires : Nat]]
      /\ pc \in [Reqs -> {"idle", "lookup", "fetch", "fill", "spend", "eval",
                          "allowed", "running", "metered"}]
  BY Constants, BudgetAssumption DEF Typed, TypeOK, CheckState
<1>1. ASSUME NEW r \in Reqs, Step(r) PROVE Coherent'
  <2>1. (pc'[r] = "fill" /\ chk'[r].at > changed[Scope(r)']) => chk'[r].got = defs[Scope(r)']
    <3>1. CASE Fetch(r)
      <4>1. PICK c \in CheckState :
              chk' = [chk EXCEPT ![r] = c] /\ c.i = chk[r].i /\ c.got = defs[Scope(r)]
        BY <3>1, FetchSteps DEF Typed
      <4>. QED
        BY <1>0, <4>1 DEF Scope
    <3>2. CASE Flush(r)
      BY <3>2 DEF Flush, Coherent, Scope
    <3>3. CASE ~(Fetch(r) \/ Flush(r))
      <4>1. CASE LookupHit(r) \/ Fill(r)
        BY <1>0, <4>1 DEF LookupHit, Fill, Collect
      <4>2. CASE ~(LookupHit(r) \/ Fill(r))
        BY <1>0, <1>1, <3>3, <4>2, Left DEF Step, Start, LookupMiss, ReadSpend, ReadFails, Block, Pass,
                                       Reserve, ReturnNil, Meter, ReleaseAll
      <4>. QED
        BY <4>1, <4>2
    <3>. QED
      BY <3>1, <3>2, <3>3
  <2>2. \A s \in Scopes : cache'[s].expires - TTL > changed[s] => cache'[s].budgets = defs[s]
    <3>1. CASE Fill(r)
      <4>1. /\ pc[r] = "fill" /\ Scope(r) \in Scopes
            /\ \A s \in Scopes : s # Scope(r) => cache'[s] = cache[s]
            /\ cache'[Scope(r)] = [budgets |-> chk[r].got, expires |-> chk[r].at + TTL]
        BY <1>0, <3>1, Collects DEF Fill
      <4>2. cache'[Scope(r)].budgets = chk[r].got /\ cache'[Scope(r)].expires - TTL = chk[r].at
        BY <1>0, <4>1
      <4>3. chk[r].at > changed[Scope(r)] => chk[r].got = defs[Scope(r)]
        BY <4>1 DEF Coherent
      <4>. QED
        BY <4>1, <4>2, <4>3 DEF Coherent
    <3>2. CASE ~Fill(r)
      <4>1. UNCHANGED cache
        BY <1>1, <3>2 DEF Step, Start, LookupHit, LookupMiss, Fetch, ReadSpend, ReadFails, Block, Pass,
                          Reserve, ReturnNil, Meter, Flush, ReleaseAll
      <4>. QED
        BY <4>1 DEF Coherent
    <3>. QED
      BY <3>1, <3>2
  <2>3. UNCHANGED <<defs, changed>> /\ \A q \in Reqs \ {r} : pc'[q] = pc[q] /\ chk'[q] = chk[q]
    BY <1>1, Others
  <2>. QED
    BY <2>1, <2>2, <2>3 DEF Coherent, Scope
<1>2. ASSUME NEW s \in Scopes, EditBudgets(s) PROVE Coherent'
  <2>1. /\ UNCHANGED <<now, cache, chk, pc>>
        /\ \A t \in Scopes : t # s => changed'[t] = changed[t] /\ defs'[t] = defs[t]
        /\ changed'[s] = now
    BY <1>0, <1>2 DEF EditBudgets, Typed, TypeOK
  <2>2. \A r \in Reqs : pc[r] = "fill" => Scope(r) \in Scopes
    BY Constants DEF Typed, Placed, Collecting, Scope
  <2>3. ~(cache[s].expires - TTL > now) /\ \A r \in Reqs : ~(chk[r].at > now)
    BY <1>0 DEF Clock
  <2>. QED
    BY <2>1, <2>2, <2>3 DEF Coherent, Scope
<1>3. CASE InvalidateBudgetCache
  <2>1. UNCHANGED <<defs, changed, pc, chk>> /\ \A s \in Scopes : cache'[s].expires = 0
    BY <1>3 DEF InvalidateBudgetCache, store, Absent
  <2>2. \A s \in Scopes : ~(0 - TTL > changed[s])
    BY <1>0 DEF Clock
  <2>. QED
    BY <2>1, <2>2 DEF Coherent, Scope
<1>4. CASE Tick \/ UNCHANGED vars
  BY <1>4 DEF Tick, vars, Coherent, Scope
<1>. QED
  BY <1>1, <1>2, <1>3, <1>4, Steps
---------------------------------------------------------------------------
(* A scope that must keep a request out does *)

\* The list that joins the entries is the store's, unless an edit may have
\* misled the request.
LEMMA Fresh ==
  ASSUME Typed, Clock, Coherent, Barred, NEW r \in Reqs, LookupHit(r) \/ Fill(r),
         Vouched(r, Scope(r))
  PROVE  Collect(r, defs[Scope(r)])
<1>. DEFINE s == Scope(r)
<1>1. /\ s \in Scopes /\ pc[r] \in Collecting /\ TTL \in Nat /\ TTL > 0
      /\ changed[s] \in Int /\ chk[r].at \in Nat /\ cache[s].expires \in Nat
  BY Collects, Constants, BudgetAssumption DEF Typed, TypeOK
<1>2. \/ changed[s] + TTL <= chk[r].at
      \/ changed[s] = -TTL
  BY <1>1 DEF Barred, Vouched
<1>3. CASE LookupHit(r)
  <2>1. chk[r].at < cache[s].expires /\ Collect(r, cache[s].budgets)
    BY <1>3 DEF LookupHit
  <2>. HIDE DEF s
  <2>2. cache[s].expires - TTL > changed[s]
    BY <1>1, <1>2, <2>1
  <2>3. cache[s].budgets = defs[s]
    BY <1>1, <2>2 DEF Coherent
  <2>. QED
    BY <2>1, <2>3 DEF s
<1>4. CASE Fill(r)
  <2>1. pc[r] = "fill" /\ Collect(r, chk[r].got)
    BY <1>4 DEF Fill
  <2>. HIDE DEF s
  <2>2. chk[r].at > changed[s]
    BY <1>1, <1>2
  <2>3. chk[r].got = defs[s]
    BY <2>1, <2>2 DEF Coherent, s
  <2>. QED
    BY <2>1, <2>3 DEF s
<1>. QED
  BY <1>3, <1>4

LEMMA CompleteStep ==
  ASSUME Typed, Clock, Coherent, Barred, Complete, NEW r \in Reqs, Step(r),
         NEW s \in Scopes, Past(r, s)', Vouched(r, s)'
  PROVE  Present(r, s)'
<1>0. /\ chk \in [Reqs -> CheckState] /\ ScopesOf[r] \in Seq(Scopes)
      /\ pc \in [Reqs -> {"idle", "lookup", "fetch", "fill", "spend", "eval",
                          "allowed", "running", "metered"}]
      /\ UNCHANGED <<defs, changed>>
  BY Constants, Others DEF Typed, TypeOK, CheckState
<1>1. PICK j \in DOMAIN ScopesOf[r] :
        /\ ScopesOf[r][j] = s
        /\ pc'[r] \in {"spend", "eval", "allowed"} \/ (pc'[r] \in Collecting /\ j < chk'[r].i)
  BY DEF Past
<1>2. ASSUME Past(r, s), UNCHANGED sure, chk'[r].entries = chk[r].entries
      PROVE  Present(r, s)'
  <2>1. Present(r, s)
    BY <1>0, <1>2 DEF Complete, Vouched
  <2>. QED
    BY <1>0, <1>2, <2>1 DEF Present
<1>3. CASE LookupHit(r) \/ Fill(r)
  <2>0. UNCHANGED sure
    BY <1>3 DEF LookupHit, Fill
  <2>1. PICK budgets \in Seq(Budgets) : Collect(r, budgets) /\ (s = Scope(r) => budgets = defs[s])
    <3>1. CASE s = Scope(r)
      <4>1. Vouched(r, s)
        BY <1>0, <2>0 DEF Vouched
      <4>2. Collect(r, defs[s]) /\ defs[s] \in Seq(Budgets)
        BY <1>3, <3>1, <4>1, Fresh, BudgetAssumption DEF Typed, TypeOK
      <4>. QED
        BY <4>2
    <3>. QED
      BY <1>3, <3>1, Collects
  <2>2. pc[r] \in Collecting /\ chk[r].i \in DOMAIN ScopesOf[r]
    BY <1>3, Collects DEF Typed, Placed
  <2>3. PICK c \in CheckState, to \in {"lookup", "spend", "allowed"} :
          /\ chk' = [chk EXCEPT ![r] = c] /\ pc' = [pc EXCEPT ![r] = to]
          /\ to = "lookup" => c.i = chk[r].i + 1
          /\ to # "lookup" => chk[r].i = Len(ScopesOf[r])
          /\ \A p \in DOMAIN chk[r].entries :
               p \in DOMAIN c.entries /\ c.entries[p] = chk[r].entries[p]
          /\ \A k \in DOMAIN budgets : \E p \in DOMAIN c.entries :
               c.entries[p] = [scope |-> Scope(r), budget |-> budgets[k]]
    BY <2>1, <2>2, CollectSteps DEF Typed
  <2>4. chk'[r] = c /\ pc'[r] = to
    BY <1>0, <2>3
  <2>5. CASE s = Scope(r)
    BY <1>0, <2>1, <2>3, <2>4, <2>5 DEF Present
  <2>6. CASE s # Scope(r)
    <3>1. j # chk[r].i
      BY <1>1, <2>6 DEF Scope
    <3>2. j < chk[r].i
      BY <1>0, <1>1, <2>2, <2>3, <2>4, <3>1 DEF Collecting
    <3>3. Present(r, s)
      BY <1>0, <1>1, <2>0, <2>2, <3>2 DEF Complete, Past, Vouched
    <3>. QED
      BY <1>0, <2>3, <2>4, <3>3 DEF Present
  <2>. QED
    BY <2>5, <2>6
<1>4. CASE Start(r)
  <2>1. PICK c \in CheckState, to \in {"lookup", "allowed"} :
           /\ chk' = [chk EXCEPT ![r] = c] /\ pc' = [pc EXCEPT ![r] = to]
           /\ c.i = 1 /\ (to = "allowed" => Billed(r) = {})
    BY <1>4, StartSteps DEF Typed
  <2>2. to = "lookup" /\ chk'[r].i = 1 /\ pc'[r] = "lookup"
    BY <1>0, <1>1, <2>1 DEF Billed
  <2>. QED
    BY <1>0, <1>1, <2>2
<1>5. CASE LookupMiss(r) \/ Fetch(r)
  <2>1. /\ UNCHANGED sure /\ chk'[r].entries = chk[r].entries /\ chk'[r].i = chk[r].i
        /\ pc[r] \in Collecting /\ pc'[r] \in Collecting
    <3>1. CASE LookupMiss(r)
      BY <1>0, <3>1 DEF LookupMiss, Collecting
    <3>2. CASE Fetch(r)
      <4>1. UNCHANGED sure /\ pc[r] = "fetch"
        BY <3>2 DEF Fetch
      <4>2. PICK c \in CheckState :
              /\ chk' = [chk EXCEPT ![r] = c] /\ pc' = [pc EXCEPT ![r] = "fill"]
              /\ c.i = chk[r].i /\ c.entries = chk[r].entries
        BY <3>2, FetchSteps DEF Typed
      <4>. QED
        BY <1>0, <4>1, <4>2 DEF Collecting
    <3>. QED
      BY <1>5, <3>1, <3>2
  <2>2. Past(r, s)
    BY <1>1, <2>1 DEF Past, Collecting
  <2>. QED
    BY <1>2, <2>1, <2>2
<1>6. CASE ReadSpend(r) \/ Pass(r)
  <2>1. UNCHANGED sure /\ pc[r] \in {"spend", "eval"}
    BY <1>6 DEF ReadSpend, Pass
  <2>2. PICK c \in CheckState : chk' = [chk EXCEPT ![r] = c] /\ c.entries = chk[r].entries
    BY <1>6, ReadSpendSteps, PassSteps DEF Typed
  <2>3. Past(r, s) /\ chk'[r].entries = chk[r].entries
    BY <1>0, <1>1, <2>1, <2>2 DEF Past
  <2>. QED
    BY <1>2, <2>1, <2>3
<1>7. CASE ReadFails(r) \/ Block(r) \/ Reserve(r) \/ ReturnNil(r) \/ ReleaseAll(r)
  <2>1. pc'[r] \in {"idle", "running"}
    BY <1>7, Left DEF ReadFails, Block, Reserve, ReturnNil, ReleaseAll
  <2>. QED
    BY <1>1, <2>1 DEF Collecting
<1>8. CASE Meter(r)
  <2>1. pc'[r] = "metered"
    BY <1>0, <1>8 DEF Meter
  <2>. QED
    BY <1>1, <2>1 DEF Collecting
<1>9. CASE Flush(r)
  <2>1. UNCHANGED <<pc, chk, sure>>
    BY <1>9 DEF Flush
  <2>2. Past(r, s)
    BY <2>1 DEF Past
  <2>. QED
    BY <1>2, <2>1, <2>2
<1>. QED
  BY <1>3, <1>4, <1>5, <1>6, <1>7, <1>8, <1>9 DEF Step

LEMMA CompleteIsInductive ==
  Typed /\ Clock /\ Coherent /\ Barred /\ Complete /\ [Next]_vars => Complete'
<1>. SUFFICES ASSUME Typed, Clock, Coherent, Barred, Complete, [Next]_vars,
                     NEW q \in Reqs, NEW s \in Scopes, Past(q, s)', Vouched(q, s)'
              PROVE  Present(q, s)'
  BY DEF Complete
<1>1. ASSUME NEW r \in Reqs, Step(r) PROVE Present(q, s)'
  <2>1. CASE q = r
    BY <1>1, <2>1, CompleteStep
  <2>2. CASE q # r
    <3>1. pc'[q] = pc[q] /\ chk'[q] = chk[q] /\ sure'[q] = sure[q] /\ UNCHANGED <<defs, changed>>
      BY <1>1, <2>2, Others
    <3>2. Past(q, s) /\ Vouched(q, s)
      BY <3>1 DEF Past, Vouched
    <3>. QED
      BY <3>1, <3>2 DEF Complete, Present
  <2>. QED
    BY <2>1, <2>2
<1>2. ASSUME NEW t \in Scopes, EditBudgets(t) PROVE Present(q, s)'
  <2>1. /\ UNCHANGED <<pc, chk>>
        /\ \A u \in Scopes : u # t => changed'[u] = changed[u] /\ defs'[u] = defs[u]
        /\ changed'[t] = now /\ sure'[q] = sure[q] \ {t}
    BY <1>2 DEF EditBudgets, Typed, TypeOK
  <2>2. now # -TTL
    BY Constants DEF Typed, TypeOK
  <2>3. s # t /\ Vouched(q, s) /\ Past(q, s)
    BY <2>1, <2>2 DEF Vouched, Past
  <2>. QED
    BY <2>1, <2>3 DEF Complete, Present
<1>3. CASE InvalidateBudgetCache \/ Tick \/ UNCHANGED vars
  <2>1. UNCHANGED <<pc, chk, defs, changed, sure>>
    BY <1>3 DEF InvalidateBudgetCache, Tick, vars, store
  <2>2. Past(q, s) /\ Vouched(q, s)
    BY <2>1 DEF Past, Vouched
  <2>. QED
    BY <2>1, <2>2 DEF Complete, Present
<1>. QED
  BY <1>1, <1>2, <1>3, Steps

LEMMA ReachedMore ==
  ASSUME NEW b \in Budgets, NEW m \in Nat, NEW t \in Nat, NEW m2 \in Nat, NEW t2 \in Nat,
         m <= m2, t <= t2, Reached(b, m, t)
  PROVE  Reached(b, m2, t2)
  BY DEF Reached, Budgets

\* No step but an edit makes an exhausted scope less so.
LEMMA StaysExhausted ==
  ASSUME Typed, NEW r \in Reqs, Step(r), NEW s \in Scopes, Exhausted(s)
  PROVE  Exhausted(s)'
<1>1. PICK k \in DOMAIN defs[s] :
        defs[s][k].hard /\ Reached(defs[s][k], used[s].micros, used[s].tokens)
  BY DEF Exhausted
<1>2. UNCHANGED defs /\ defs[s][k] \in Budgets /\ used[s].micros \in Nat /\ used[s].tokens \in Nat
  <2>1. defs[s] \in Seq(Budgets)
    BY BudgetAssumption DEF Typed, TypeOK
  <2>2. used[s] \in Amounts
    BY DEF Typed, TypeOK
  <2>3. UNCHANGED defs
    BY Others
  <2>. QED
    BY <2>1, <2>2, <2>3 DEF Amounts
<1>3. /\ used'[s].micros \in Nat /\ used'[s].tokens \in Nat
      /\ used[s].micros <= used'[s].micros /\ used[s].tokens <= used'[s].tokens
  <2>1. CASE Stored(r, 1)
    BY <1>2, <2>1, StoredSteps, Constants DEF Typed
  <2>2. CASE ~Stored(r, 1)
    <3>1. UNCHANGED used
      BY <2>2 DEF Step, Start, LookupHit, LookupMiss, Fetch, Fill, ReadSpend, ReadFails, Block, Pass,
                  Reserve, ReturnNil, Meter, Flush, ReleaseAll, store
    <3>. QED
      BY <1>2, <3>1
  <2>. QED
    BY <2>1, <2>2
<1>4. Reached(defs[s][k], used'[s].micros, used'[s].tokens)
  BY <1>1, <1>2, <1>3, ReachedMore
<1>. QED
  BY <1>1, <1>2, <1>4 DEF Exhausted

\* What keeps r out of s, but for the exhaustion itself.
Kept(r, s) ==
  /\ s \in Billed(r)
  /\ pc[r] \in Collecting \cup {"spend", "eval"}
  /\ pc[r] \in Collecting => changed[s] + TTL <= chk[r].at
  /\ pc[r] = "eval" => Awaits(r, s)

LEMMA KeptStep ==
  ASSUME Typed, Clock, Coherent, Barred, Complete, Complete', NEW r \in Reqs, Step(r),
         NEW s \in sure'[r]
  PROVE  Kept(r, s)'
<1>0. /\ chk \in [Reqs -> CheckState] /\ ScopesOf[r] \in Seq(Scopes)
      /\ pc \in [Reqs -> {"idle", "lookup", "fetch", "fill", "spend", "eval",
                          "allowed", "running", "metered"}]
      /\ UNCHANGED <<defs, changed>> /\ Billed(r) \subseteq Scopes
      /\ sure \in [Reqs -> SUBSET Scopes]
  BY Constants, Others DEF Typed, TypeOK, CheckState
<1>1. ASSUME UNCHANGED sure
      PROVE  /\ s \in sure[r] /\ s \in Scopes /\ Kept(r, s) /\ Exhausted(s)
             /\ Vouched(r, s) /\ Vouched(r, s)'
  BY <1>0, <1>1 DEF Barred, Kept, Vouched
<1>2. CASE Start(r)
  <2>1. PICK c \in CheckState, to \in {"lookup", "allowed"} :
           /\ chk' = [chk EXCEPT ![r] = c] /\ pc' = [pc EXCEPT ![r] = to]
           /\ c.at = now /\ (to = "allowed" => Billed(r) = {})
    BY <1>2, StartSteps DEF Typed
  <2>2. s \in Billed(r) /\ LongExhausted(s)
    BY <1>0, <1>2 DEF Start
  <2>3. to = "lookup" /\ chk'[r].at = now /\ pc'[r] = "lookup"
    BY <1>0, <2>1, <2>2
  <2>4. pc'[r] \in Collecting /\ pc'[r] # "eval"
    BY <2>3 DEF Collecting
  <2>5. changed'[s] + TTL <= chk'[r].at
    BY <1>0, <2>2, <2>3 DEF LongExhausted
  <2>. QED
    BY <2>2, <2>4, <2>5 DEF Kept
<1>3. CASE LookupHit(r) \/ Fill(r)
  <2>0. UNCHANGED sure
    BY <1>3 DEF LookupHit, Fill
  <2>1. PICK budgets \in Seq(Budgets) : Collect(r, budgets)
    BY <1>3, Collects
  <2>2. pc[r] \in Collecting /\ chk[r].i \in DOMAIN ScopesOf[r]
    BY <1>3, Collects DEF Typed, Placed
  <2>3. PICK c \in CheckState, to \in {"lookup", "spend", "allowed"} :
          /\ chk' = [chk EXCEPT ![r] = c] /\ pc' = [pc EXCEPT ![r] = to]
          /\ to = "lookup" => c.at = now
          /\ to = "allowed" <=> (to # "lookup" /\ c.entries = <<>>)
    BY <2>1, <2>2, CollectSteps DEF Typed
  <2>4. chk'[r] = c /\ pc'[r] = to
    BY <1>0, <2>3
  <2>5. CASE to = "lookup"
    <3>1. changed[s] + TTL <= chk[r].at /\ s \in Billed(r) /\ s \in Scopes
      BY <1>1, <2>0, <2>2 DEF Kept
    <3>2. chk[r].at <= now /\ changed[s] \in Int /\ TTL \in Int /\ chk[r].at \in Int /\ now \in Int
      BY <3>1, Constants DEF Clock, Typed, TypeOK
    <3>3. changed[s] + TTL <= now
      BY <3>1, <3>2
    <3>4. pc'[r] \in Collecting /\ pc'[r] # "eval"
      BY <2>4, <2>5 DEF Collecting
    <3>5. changed'[s] + TTL <= chk'[r].at
      BY <1>0, <2>3, <2>4, <2>5, <3>3
    <3>. QED
      BY <3>1, <3>4, <3>5 DEF Kept
  <2>6. CASE to = "spend"
    BY <1>1, <2>0, <2>4, <2>6 DEF Kept, Collecting
  <2>7. to # "allowed"
    <3>. SUFFICES ASSUME to = "allowed" PROVE FALSE
      OBVIOUS
    <3>1. Past(r, s)'
      BY <1>1, <2>0, <2>4 DEF Kept, Past, Billed
    <3>2. Present(r, s)'
      BY <1>1, <2>0, <3>1 DEF Complete
    <3>3. PICK k \in DOMAIN defs[s] : TRUE
      BY <1>1, <2>0 DEF Exhausted
    <3>4. DOMAIN chk'[r].entries # {}
      BY <1>0, <3>2, <3>3 DEF Present
    <3>. QED
      BY <2>3, <2>4, <3>4
  <2>. QED
    BY <2>5, <2>6, <2>7
<1>4. CASE LookupMiss(r) \/ Fetch(r)
  <2>1. /\ UNCHANGED sure /\ chk'[r].at = chk[r].at
        /\ pc[r] \in Collecting /\ pc'[r] \in Collecting \ {"eval"}
    <3>1. CASE LookupMiss(r)
      BY <1>0, <3>1 DEF LookupMiss, Collecting
    <3>2. CASE Fetch(r)
      <4>1. UNCHANGED sure /\ pc[r] = "fetch"
        BY <3>2 DEF Fetch
      <4>2. PICK c \in CheckState :
              /\ chk' = [chk EXCEPT ![r] = c] /\ pc' = [pc EXCEPT ![r] = "fill"]
              /\ c.at = chk[r].at
        BY <3>2, FetchSteps DEF Typed
      <4>. QED
        BY <1>0, <4>1, <4>2 DEF Collecting
    <3>. QED
      BY <1>4, <3>1, <3>2
  <2>. QED
    BY <1>0, <1>1, <2>1 DEF Kept
<1>5. CASE ReadSpend(r)
  <2>1. UNCHANGED sure /\ pc[r] = "spend"
    BY <1>5 DEF ReadSpend
  <2>2. PICK c \in CheckState :
           /\ chk' = [chk EXCEPT ![r] = c] /\ pc' = [pc EXCEPT ![r] = "eval"]
           /\ c.entries = chk[r].entries /\ c.e = 1
           /\ \A u \in Scopes : c.snap[u] =
                IF \E p \in DOMAIN chk[r].entries : chk[r].entries[p].scope = u
                  THEN used[u] ELSE Nothing[u]
    BY <1>5, ReadSpendSteps DEF Typed
  <2>3. PICK k \in DOMAIN defs[s] :
          defs[s][k].hard /\ Reached(defs[s][k], used[s].micros, used[s].tokens)
    BY <1>1, <2>1 DEF Exhausted
  <2>4. Past(r, s) /\ s \in Billed(r)
    BY <1>1, <2>1 DEF Kept, Past, Billed
  <2>5. PICK p \in DOMAIN chk[r].entries :
          chk[r].entries[p] = [scope |-> s, budget |-> defs[s][k]]
    BY <1>1, <2>1, <2>4 DEF Complete, Present
  <2>6. chk'[r] = c /\ pc'[r] = "eval" /\ c.snap[s] = used[s] /\ s \in Scopes
    BY <1>0, <1>1, <2>1, <2>2, <2>5
  <2>7. 1 <= p
    BY <1>0, <2>5 DEF CheckState
  <2>8. Awaits(r, s)'
    BY <2>2, <2>3, <2>5, <2>6, <2>7 DEF Awaits
  <2>. QED
    BY <2>4, <2>6, <2>8 DEF Kept, Collecting
<1>6. CASE Pass(r)
  <2>0. UNCHANGED sure /\ pc[r] = "eval" /\ ~Blocks(r)
    BY <1>6 DEF Pass
  <2>1. PICK p \in DOMAIN chk[r].entries :
          /\ chk[r].e <= p
          /\ chk[r].entries[p].scope = s /\ chk[r].entries[p].budget.hard
          /\ Reached(chk[r].entries[p].budget, chk[r].snap[s].micros, chk[r].snap[s].tokens)
    BY <1>1, <2>0 DEF Kept, Awaits
  <2>2. PICK c \in CheckState :
          /\ chk' = [chk EXCEPT ![r] = c]
          /\ \/ chk[r].e = Len(chk[r].entries) /\ pc' = [pc EXCEPT ![r] = "allowed"]
             \/ c.e \in DOMAIN c.entries /\ pc' = [pc EXCEPT ![r] = "eval"]
          /\ c.entries = chk[r].entries /\ c.snap = chk[r].snap /\ c.e = chk[r].e + 1
    BY <1>6, PassSteps DEF Typed
  <2>3. /\ chk[r].e \in Nat /\ p \in Nat /\ p <= Len(chk[r].entries) /\ s \in Scopes
        /\ chk[r].entries[p].budget \in Budgets
        /\ chk[r].snap[s].micros \in Nat /\ chk[r].snap[s].tokens \in Nat /\ reservations[s] \in Nat
    <3>1. chk[r].entries \in Seq(Entry) /\ chk[r].snap \in [Scopes -> Amounts] /\ s \in Scopes
      BY <1>0, <1>1, <2>0 DEF CheckState
    <3>2. chk[r].entries[p] \in Entry /\ p \in 1..Len(chk[r].entries)
      BY <3>1
    <3>3. chk[r].entries[p].budget \in Budgets
      BY <3>2 DEF Entry
    <3>4. chk[r].snap[s] \in Amounts
      BY <3>1
    <3>5. chk[r].e \in Nat
      BY <1>0 DEF CheckState
    <3>6. reservations[s] \in Nat
      BY <3>1 DEF Typed, TypeOK
    <3>. QED
      BY <3>1, <3>2, <3>3, <3>4, <3>5, <3>6 DEF Amounts
  <2>4. p # chk[r].e
    <3>. SUFFICES ASSUME p = chk[r].e PROVE FALSE
      OBVIOUS
    <3>1. Reached(chk[r].entries[p].budget, chk[r].snap[s].micros + reservations[s],
                  chk[r].snap[s].tokens)
      BY <2>1, <2>3, ReachedMore
    <3>. QED
      BY <2>0, <2>1, <3>1 DEF Blocks
  <2>5. c.e <= p /\ pc'[r] = "eval" /\ chk'[r] = c
    BY <1>0, <2>1, <2>2, <2>3, <2>4
  <2>6. Awaits(r, s)'
    BY <2>1, <2>2, <2>5 DEF Awaits
  <2>. QED
    BY <1>1, <2>0, <2>5, <2>6 DEF Kept, Collecting
<1>7. CASE ReadFails(r) \/ Block(r) \/ Reserve(r) \/ ReturnNil(r) \/ ReleaseAll(r)
  <2>1. sure'[r] = {}
    BY <1>7, Left DEF ReadFails, Block, Reserve, ReturnNil, ReleaseAll
  <2>. QED
    BY <2>1
<1>8. CASE Meter(r)
  <2>1. UNCHANGED sure /\ pc[r] = "running"
    BY <1>8 DEF Meter
  <2>. QED
    BY <1>1, <2>1 DEF Kept, Collecting
<1>9. CASE Flush(r)
  <2>1. UNCHANGED <<pc, chk, sure>>
    BY <1>9 DEF Flush
  <2>. QED
    BY <1>0, <1>1, <2>1 DEF Kept, Awaits
<1>. QED
  BY <1>2, <1>3, <1>4, <1>5, <1>6, <1>7, <1>8, <1>9 DEF Step

LEMMA BarredIsInductive ==
  Typed /\ Clock /\ Coherent /\ Barred /\ Complete /\ Complete' /\ [Next]_vars => Barred'
<1>. SUFFICES ASSUME Typed, Clock, Coherent, Barred, Complete, Complete', [Next]_vars,
                     NEW q \in Reqs, NEW s \in sure'[q]
              PROVE  Kept(q, s)' /\ Exhausted(s)'
  BY DEF Barred, Kept
<1>1. ASSUME NEW r \in Reqs, Step(r) PROVE Kept(q, s)' /\ Exhausted(s)'
  <2>1. UNCHANGED changed /\ (q # r => pc'[q] = pc[q] /\ chk'[q] = chk[q] /\ sure'[q] = sure[q])
    BY <1>1, Others
  <2>2. Kept(q, s)'
    <3>1. CASE q = r
      BY <1>1, <3>1, KeptStep
    <3>2. CASE q # r
      <4>1. s \in sure[q] /\ Kept(q, s)
        BY <2>1, <3>2 DEF Barred, Kept
      <4>. QED
        BY <2>1, <3>2, <4>1 DEF Kept, Awaits
    <3>. QED
      BY <3>1, <3>2
  <2>3. s \in Scopes /\ Exhausted(s)
    <3>1. CASE s \in sure[q]
      BY <3>1 DEF Barred, Typed, TypeOK
    <3>2. CASE s \notin sure[q]
      <4>1. q = r
        BY <2>1, <3>2
      <4>2. Start(r)
        BY <1>1, <3>2, <4>1, Left DEF Step, LookupHit, LookupMiss, Fetch, Fill, ReadSpend, ReadFails,
             Block, Pass, Reserve, ReturnNil, Meter, Flush, ReleaseAll
      <4>3. s \in Billed(r) /\ LongExhausted(s)
        BY <4>1, <4>2 DEF Start, Typed, TypeOK
      <4>. QED
        BY <4>3, Constants DEF LongExhausted, Exhausted
    <3>. QED
      BY <3>1, <3>2
  <2>. QED
    BY <1>1, <2>2, <2>3, StaysExhausted
<1>2. ASSUME UNCHANGED <<pc, chk, used>>, s \in sure[q], defs'[s] = defs[s], changed'[s] = changed[s]
      PROVE  Kept(q, s)' /\ Exhausted(s)'
  BY <1>2 DEF Barred, Kept, Awaits, Exhausted
<1>3. ASSUME NEW t \in Scopes, EditBudgets(t)
      PROVE  /\ UNCHANGED <<pc, chk, used>>
             /\ s \in sure[q] /\ defs'[s] = defs[s] /\ changed'[s] = changed[s]
  BY <1>3 DEF EditBudgets, Typed, TypeOK
<1>4. ASSUME InvalidateBudgetCache \/ Tick \/ UNCHANGED vars
      PROVE  UNCHANGED <<pc, chk, used, defs, changed, sure>>
  BY <1>4 DEF InvalidateBudgetCache, Tick, vars, store
<1>. QED
  BY <1>1, <1>2, <1>3, <1>4, Steps

LEMMA InitGuarded == Init => Clock /\ Coherent /\ Barred /\ Complete
<1>. SUFFICES ASSUME Init PROVE Clock /\ Coherent /\ Barred /\ Complete
  OBVIOUS
<1>1. /\ \A r \in Reqs : pc[r] = "idle" /\ chk[r].at = 0 /\ sure[r] = {}
      /\ now = 0 /\ \A s \in Scopes : changed[s] = -TTL /\ cache[s].expires = 0
  BY DEF Init, NoCheck, Absent
<1>2. -TTL <= -TTL /\ -TTL <= 0 /\ 0 <= 0 + TTL /\ 0 <= 0 /\ ~(0 - TTL > -TTL)
  BY Constants, BudgetAssumption
<1>3. Clock
  BY <1>1, <1>2 DEF Clock
<1>4. Coherent
  BY <1>1, <1>2 DEF Coherent
<1>. QED
  BY <1>1, <1>3, <1>4 DEF Barred, Complete, Past, Collecting

\* A request that found a hard budget of a scope of its own used up and long
\* unedited is kept out, for any numbers of requests, scopes and budgets.
THEOREM ShutOut == Spec => []Shut
<1>1. Barred => Shut
  BY DEF Barred, Shut, Collecting
<1>. QED
  BY <1>1, InitTyped, InitGuarded, TypedIsInductive, ClockIsInductive, CoherentIsInductive,
     CompleteIsInductive, BarredIsInductive, PTL DEF Spec
---------------------------------------------------------------------------
(* The overshoot of a hard limit *)

LEMMA EvaluatedStep ==
  ASSUME Typed, Evaluated, NEW r \in Reqs, Step(r), NEW p \in DOMAIN chk'[r].entries,
         pc'[r] = "allowed" \/ (pc'[r] = "eval" /\ p < chk'[r].e),
         chk'[r].entries[p].budget.hard, chk'[r].entries[p].budget.limit > 0
  PROVE  chk'[r].snap[chk'[r].entries[p].scope].micros < chk'[r].entries[p].budget.limit
<1>0. /\ chk \in [Reqs -> CheckState]
      /\ pc \in [Reqs -> {"idle", "lookup", "fetch", "fill", "spend", "eval",
                          "allowed", "running", "metered"}]
  BY DEF Typed, TypeOK, CheckState
<1>1. CASE Pass(r)
  <2>1. PICK c \in CheckState :
          /\ chk' = [chk EXCEPT ![r] = c]
          /\ \/ chk[r].e = Len(chk[r].entries)
             \/ pc' = [pc EXCEPT ![r] = "eval"]
          /\ c.entries = chk[r].entries /\ c.snap = chk[r].snap /\ c.e = chk[r].e + 1
    BY <1>1, PassSteps DEF Typed
  <2>2. pc[r] = "eval" /\ ~Blocks(r) /\ chk'[r] = c /\ p \in DOMAIN chk[r].entries
    BY <1>0, <1>1, <2>1 DEF Pass
  <2>. DEFINE x == chk[r].entries[p]
  <2>3. /\ x \in Entry /\ p \in 1..Len(chk[r].entries) /\ chk[r].e \in Nat
        /\ Len(chk[r].entries) \in Nat
    BY <1>0, <2>2 DEF CheckState
  <2>4. p <= chk[r].e
    <3>1. CASE chk[r].e = Len(chk[r].entries)
      BY <2>3, <3>1
    <3>2. CASE pc'[r] = "eval"
      BY <2>1, <2>2, <2>3, <3>2
    <3>. QED
      BY <1>0, <2>1, <3>1, <3>2
  <2>5. x.budget.hard /\ x.budget.limit > 0
    BY <2>1, <2>2
  <2>6. CASE p < chk[r].e
    BY <2>1, <2>2, <2>5, <2>6 DEF Evaluated
  <2>7. CASE p = chk[r].e
    <3>1. ~(chk[r].snap[x.scope].micros + reservations[x.scope] >= x.budget.limit)
      BY <2>2, <2>5, <2>7 DEF Blocks, Reached
    <3>2. x.scope \in Scopes /\ x.budget.limit \in Nat
      BY <2>3 DEF Entry, Budgets
    <3>3. reservations[x.scope] \in Nat /\ chk[r].snap[x.scope] \in Amounts
      BY <1>0, <3>2 DEF Typed, TypeOK, CheckState
    <3>4. chk[r].snap[x.scope].micros \in Nat
      BY <3>3 DEF Amounts
    <3>. HIDE DEF x
    <3>5. chk[r].snap[x.scope].micros < x.budget.limit
      BY <3>1, <3>2, <3>3, <3>4
    <3>. QED
      BY <2>1, <2>2, <3>5 DEF x
  <2>. QED
    BY <2>3, <2>4, <2>6, <2>7
<1>2. CASE ReadSpend(r)
  <2>1. PICK c \in CheckState :
          /\ chk' = [chk EXCEPT ![r] = c] /\ pc' = [pc EXCEPT ![r] = "eval"]
          /\ c.entries = chk[r].entries /\ c.e = 1
    BY <1>2, ReadSpendSteps DEF Typed
  <2>2. chk'[r] = c /\ pc'[r] = "eval" /\ c.entries \in Seq(Entry)
    BY <1>0, <2>1 DEF CheckState
  <2>3. p \in Nat /\ 1 <= p /\ p < 1
    BY <2>1, <2>2
  <2>. QED
    BY <2>3
<1>3. CASE LookupHit(r) \/ Fill(r)
  <2>1. PICK c \in CheckState, to \in {"lookup", "spend", "allowed"} :
          /\ chk' = [chk EXCEPT ![r] = c] /\ pc' = [pc EXCEPT ![r] = to]
          /\ to = "allowed" <=> (to # "lookup" /\ c.entries = <<>>)
    BY <1>3, Collects, CollectSteps DEF Typed
  <2>2. chk'[r] = c /\ pc'[r] = to
    BY <1>0, <2>1
  <2>3. chk'[r].entries = <<>>
    BY <2>1, <2>2
  <2>. QED
    BY <2>3
<1>4. CASE Start(r)
  <2>1. PICK c \in CheckState : chk' = [chk EXCEPT ![r] = c] /\ c.entries = <<>>
    BY <1>4, StartSteps DEF Typed
  <2>. QED
    BY <1>0, <2>1
<1>5. CASE ReadFails(r) \/ Block(r) \/ Reserve(r) \/ ReturnNil(r) \/ ReleaseAll(r)
  <2>1. chk'[r].entries = <<>>
    BY <1>5, Left DEF ReadFails, Block, Reserve, ReturnNil, ReleaseAll
  <2>. QED
    BY <2>1
<1>6. CASE LookupMiss(r) \/ Fetch(r) \/ Meter(r)
  BY <1>0, <1>6 DEF LookupMiss, Fetch, Meter
<1>7. CASE Flush(r)
  BY <1>7 DEF Flush, Evaluated
<1>. QED
  BY <1>1, <1>2, <1>3, <1>4, <1>5, <1>6, <1>7 DEF Step

LEMMA EvaluatedIsInductive == Typed /\ Evaluated /\ [Next]_vars => Evaluated'
<1>. SUFFICES ASSUME Typed, Evaluated, [Next]_vars, NEW q \in Reqs, NEW p \in DOMAIN chk'[q].entries,
                     pc'[q] = "allowed" \/ (pc'[q] = "eval" /\ p < chk'[q].e),
                     chk'[q].entries[p].budget.hard, chk'[q].entries[p].budget.limit > 0
              PROVE  chk'[q].snap[chk'[q].entries[p].scope].micros < chk'[q].entries[p].budget.limit
  BY DEF Evaluated
<1>1. ASSUME NEW r \in Reqs, Step(r)
      PROVE  chk'[q].snap[chk'[q].entries[p].scope].micros < chk'[q].entries[p].budget.limit
  <2>1. CASE q = r
    BY <1>1, <2>1, EvaluatedStep
  <2>2. CASE q # r
    <3>1. pc'[q] = pc[q] /\ chk'[q] = chk[q]
      BY <1>1, <2>2, Others
    <3>. QED
      BY <3>1 DEF Evaluated
  <2>. QED
    BY <2>1, <2>2
<1>2. ASSUME UNCHANGED <<pc, chk>>
      PROVE  chk'[q].snap[chk'[q].entries[p].scope].micros < chk'[q].entries[p].budget.limit
  BY <1>2 DEF Evaluated
<1>. QED
  BY <1>1, <1>2, Steps, Idle

LEMMA UnbufferedIsInductive == Typed /\ Unbuffered /\ [Next]_vars => Unbuffered'
<1>. SUFFICES ASSUME Typed, Unbuffered, [Next]_vars, ~async' PROVE \A q \in Reqs : unwritten'[q] = 0
  BY DEF Unbuffered
<1>1. ASSUME NEW r \in Reqs, Step(r) PROVE \A q \in Reqs : unwritten'[q] = 0
  <2>1. ~async /\ unwritten[r] = 0 /\ \A q \in Reqs : unwritten[q] = 0
    BY <1>1, Others DEF Unbuffered
  <2>2. UNCHANGED unwritten
    BY <1>1, <2>1 DEF Step, Start, LookupHit, LookupMiss, Fetch, Fill, ReadSpend, ReadFails, Block, Pass,
                      Reserve, ReturnNil, Meter, Flush, ReleaseAll, store
  <2>. QED
    BY <2>1, <2>2
<1>. QED
  BY <1>1, Steps, Idle DEF Unbuffered

LEMMA ArmedAreFinite ==
  ASSUME NEW s, NEW l
  PROVE  /\ IsFiniteSet(Armed(s, l)) /\ Cardinality(Armed(s, l)) \in Nat
         /\ Cardinality(Reqs) \in Nat /\ Cardinality(Armed(s, l)) <= Cardinality(Reqs)
         /\ IsFiniteSet(Armed(s, l)') /\ Cardinality(Armed(s, l)') \in Nat
         /\ Cardinality(Armed(s, l)') <= Cardinality(Reqs)
<1>1. Armed(s, l) \subseteq Reqs /\ Armed(s, l)' \subseteq Reqs /\ IsFiniteSet(Reqs)
  BY BudgetAssumption DEF Armed
<1>. QED
  BY <1>1, FS_Subset, FS_CardinalityType

\* A bound survives a number that does not grow.
LEMMA Weighed ==
  ASSUME NEW a \in Nat, NEW b \in Nat, NEW c \in Nat, a <= b
  PROVE  /\ a * c \in Nat /\ b * c \in Nat /\ a * c <= b * c
         /\ (a + 1) * c = a * c + c
<1>1. PICK d \in Nat : b = a + d
  <2>1. b - a \in Nat /\ b = a + (b - a)
    OBVIOUS
  <2>. QED
    BY <2>1
<1>2. (a + d) * c = a * c + d * c /\ d * c \in Nat /\ a * c \in Nat
  OBVIOUS
<1>. QED
  BY <1>1, <1>2

\* A request joins those that may be metered only on a spend it read below the
\* limit, and then the bound holds with all of them.
LEMMA ArmedStep ==
  ASSUME Typed, Own, Complete, Complete', Evaluated, NEW r \in Reqs, Step(r),
         ~Meter(r), ~Flush(r), NEW s \in Scopes, changed[s] = -TTL,
         NEW k \in DOMAIN defs[s], NEW l, l = defs[s][k].limit, defs[s][k].hard, l > 0
  PROVE  used[s].micros < l \/ Armed(s, l)' \subseteq Armed(s, l)
<1>0. /\ chk \in [Reqs -> CheckState]
      /\ pc \in [Reqs -> {"idle", "lookup", "fetch", "fill", "spend", "eval",
                          "allowed", "running", "metered"}]
      /\ UNCHANGED <<defs, changed>>
      /\ Vouched(r, s) /\ Vouched(r, s)'
  BY Others DEF Typed, TypeOK, CheckState, Vouched
<1>1. ASSUME r \in Armed(s, l)' => r \in Armed(s, l)
      PROVE  Armed(s, l)' \subseteq Armed(s, l)
  BY <1>0, <1>1, Others DEF Armed
<1>2. ASSUME NEW q \in Reqs, q = r, s \in Billed(q), pc[q] \in {"spend", "eval", "allowed"}
      PROVE  \E p \in DOMAIN chk[q].entries :
               chk[q].entries[p] = [scope |-> s, budget |-> defs[s][k]]
  <2>1. Past(q, s)
    BY <1>2 DEF Past, Billed
  <2>. QED
    BY <1>0, <1>2, <2>1 DEF Complete, Present
<1>3. CASE ReadSpend(r)
  <2>1. PICK c \in CheckState :
          /\ chk' = [chk EXCEPT ![r] = c] /\ pc' = [pc EXCEPT ![r] = "eval"]
          /\ \A u \in Scopes : c.snap[u] =
               IF \E p \in DOMAIN chk[r].entries : chk[r].entries[p].scope = u
                 THEN used[u] ELSE Nothing[u]
    BY <1>3, ReadSpendSteps DEF Typed
  <2>2. pc[r] = "spend" /\ chk'[r] = c /\ pc'[r] = "eval"
    BY <1>0, <1>3, <2>1 DEF ReadSpend
  <2>3. CASE used[s].micros < l
    BY <2>3
  <2>4. CASE ~(used[s].micros < l)
    <3>1. s \in Billed(r) => c.snap[s] = used[s]
      BY <1>2, <2>1, <2>2
    <3>2. r \notin Armed(s, l)'
      BY <1>0, <2>2, <2>4, <3>1 DEF Armed
    <3>. QED
      BY <1>1, <3>2
  <2>. QED
    BY <2>3, <2>4
<1>4. CASE Pass(r)
  <2>1. PICK c \in CheckState : chk' = [chk EXCEPT ![r] = c] /\ c.snap = chk[r].snap
    BY <1>4, PassSteps DEF Typed
  <2>2. pc[r] = "eval" /\ pc'[r] # "running" /\ chk'[r].snap = chk[r].snap
    BY <1>0, <1>4, <2>1 DEF Pass
  <2>3. r \in Armed(s, l)' => r \in Armed(s, l)
    BY <1>0, <2>2 DEF Armed
  <2>. QED
    BY <1>1, <2>3
<1>5. CASE Reserve(r)
  <2>1. pc[r] = "allowed"
    BY <1>5 DEF Reserve
  <2>2. s \in Billed(r) => chk[r].snap[s].micros < l
    <3>. SUFFICES ASSUME s \in Billed(r) PROVE chk[r].snap[s].micros < l
      OBVIOUS
    <3>1. PICK p \in DOMAIN chk[r].entries :
            chk[r].entries[p] = [scope |-> s, budget |-> defs[s][k]]
      BY <1>2, <2>1
    <3>. QED
      BY <2>1, <3>1 DEF Evaluated
  <2>3. r \in Armed(s, l)' => r \in Armed(s, l)
    BY <2>1, <2>2 DEF Armed
  <2>. QED
    BY <1>1, <2>3
<1>6. CASE LookupHit(r) \/ Fill(r)
  <2>1. PICK c \in CheckState, to \in {"lookup", "spend", "allowed"} :
          /\ chk' = [chk EXCEPT ![r] = c] /\ pc' = [pc EXCEPT ![r] = to]
          /\ to = "allowed" <=> (to # "lookup" /\ c.entries = <<>>)
    BY <1>6, Collects, CollectSteps DEF Typed
  <2>2. chk'[r] = c /\ pc'[r] = to
    BY <1>0, <2>1
  <2>3. (s \in Billed(r) /\ to = "allowed") => FALSE
    <3>. SUFFICES ASSUME s \in Billed(r), to = "allowed" PROVE FALSE
      OBVIOUS
    <3>1. Past(r, s)'
      BY <2>2 DEF Past, Billed
    <3>2. Present(r, s)'
      BY <1>0, <3>1 DEF Complete
    <3>3. DOMAIN chk'[r].entries # {}
      BY <1>0, <3>2 DEF Present
    <3>. QED
      BY <2>1, <2>2, <3>3
  <2>4. r \notin Armed(s, l)'
    BY <2>2, <2>3 DEF Armed
  <2>. QED
    BY <1>1, <2>4
<1>7. CASE Start(r)
  <2>1. PICK to \in {"lookup", "allowed"} :
          pc' = [pc EXCEPT ![r] = to] /\ (to = "allowed" => Billed(r) = {})
    BY <1>7, StartSteps DEF Typed
  <2>2. r \notin Armed(s, l)'
    BY <1>0, <2>1 DEF Armed
  <2>. QED
    BY <1>1, <2>2
<1>8. CASE LookupMiss(r) \/ Fetch(r)
  <2>1. pc'[r] \in {"fetch", "fill"}
    BY <1>0, <1>8 DEF LookupMiss, Fetch
  <2>. QED
    BY <1>1, <2>1 DEF Armed
<1>9. CASE ReadFails(r) \/ Block(r) \/ ReturnNil(r) \/ ReleaseAll(r)
  <2>1. pc'[r] = "idle"
    BY <1>9, Left DEF ReadFails, Block, ReturnNil, ReleaseAll
  <2>. QED
    BY <1>1, <2>1 DEF Armed
<1>. QED
  BY <1>3, <1>4, <1>5, <1>6, <1>7, <1>8, <1>9 DEF Step

\* A request that is metered takes the spend one cost further and is no longer
\* among those that may.
LEMMA MeterStep ==
  ASSUME Typed, NEW r \in Reqs, Meter(r), ~async, NEW s \in Scopes, NEW l
  PROVE  \/ /\ s \in Billed(r) /\ used'[s].micros = used[s].micros + Cost.micros
            /\ Cardinality(Armed(s, l)) = Cardinality(Armed(s, l)') + 1
         \/ used'[s] = used[s] /\ Armed(s, l)' = Armed(s, l)
<1>1. /\ pc[r] = "running" /\ pc'[r] = "metered" /\ Stored(r, 1) /\ UNCHANGED chk
      /\ \A q \in Reqs \ {r} : pc'[q] = pc[q]
  BY DEF Meter, Typed, TypeOK
<1>2. CASE s \in Billed(r)
  <2>1. r \in Armed(s, l) /\ Armed(s, l)' = Armed(s, l) \ {r}
    BY <1>1, <1>2 DEF Armed
  <2>2. Cardinality(Armed(s, l)') = Cardinality(Armed(s, l)) - 1
    <3>1. IsFiniteSet(Armed(s, l))
      BY ArmedAreFinite
    <3>2. Cardinality(Armed(s, l) \ {r}) = Cardinality(Armed(s, l)) - 1
      BY <2>1, <3>1, FS_RemoveElement
    <3>. QED
      BY <2>1, <3>2
  <2>3. used'[s].micros = used[s].micros + Cost.micros
    BY <1>1, <1>2, StoredSteps DEF Typed
  <2>4. Cardinality(Armed(s, l)) = Cardinality(Armed(s, l)') + 1
    BY <2>2, ArmedAreFinite
  <2>. QED
    BY <1>2, <2>3, <2>4
<1>3. CASE s \notin Billed(r)
  BY <1>1, <1>3, StoredSteps DEF Armed, Typed
<1>. QED
  BY <1>2, <1>3

LEMMA MarginIsInductive ==
  /\ Typed /\ Own /\ Complete /\ Complete' /\ Evaluated /\ Unbuffered /\ Margin
  /\ [Next]_vars
  => Margin'
<1>. SUFFICES ASSUME Typed, Own, Complete, Complete', Evaluated, Unbuffered, Margin, [Next]_vars,
                     NEW s \in Scopes, changed'[s] = -TTL, ~async',
                     NEW k \in DOMAIN defs'[s], defs'[s][k].hard, defs'[s][k].limit > 0
              PROVE  used'[s].micros + Cardinality(Armed(s, defs[s][k].limit)') * Cost.micros
                       < defs'[s][k].limit + Cardinality(Reqs) * Cost.micros
  BY DEF Margin
<1>. PICK l : l = defs'[s][k].limit
  OBVIOUS
<1>. DEFINE a == Cardinality(Armed(s, l))
            b == Cardinality(Armed(s, l)')
            n == Cardinality(Reqs)
            c == Cost.micros
            u == used[s].micros
            v == used'[s].micros
<1>0. a \in Nat /\ b \in Nat /\ n \in Nat /\ a <= n /\ b <= n /\ c \in Nat /\ u \in Nat
  BY ArmedAreFinite, Constants DEF Typed, TypeOK, Amounts
<1>1. ASSUME defs'[s] = defs[s], changed'[s] = changed[s], async' = async
      PROVE  l = defs[s][k].limit /\ l \in Nat /\ u + a * c < l + n * c
  <2>1. defs[s] \in Seq(Budgets)
    BY BudgetAssumption DEF Typed, TypeOK
  <2>2. defs[s][k] \in Budgets
    BY <1>1, <2>1
  <2>3. l = defs[s][k].limit /\ l \in Nat
    BY <1>1, <2>2 DEF Budgets
  <2>. QED
    BY <1>1, <2>3 DEF Margin
<1>. HIDE DEF a, b, n, c, u, v
<1>2. ASSUME v + b * c < l + n * c
      PROVE  used'[s].micros + Cardinality(Armed(s, defs[s][k].limit)') * Cost.micros
               < defs'[s][k].limit + Cardinality(Reqs) * Cost.micros
  <2>1. Armed(s, defs[s][k].limit)' = Armed(s, l)'
    BY DEF Armed
  <2>. QED
    BY <1>2, <2>1 DEF b, n, c, v
<1>3. ASSUME NEW r \in Reqs, Step(r)
      PROVE  v + b * c < l + n * c
  <2>1. UNCHANGED <<async, now, defs, changed>>
    BY <1>3, Others
  <2>2. l = defs[s][k].limit /\ l \in Nat /\ u + a * c < l + n * c
    BY <1>1, <2>1
  <2>3. CASE Meter(r)
    <3>1. CASE used'[s].micros = used[s].micros + Cost.micros /\ a = b + 1
      <4>1. v = u + c
        BY <3>1 DEF u, v, c
      <4>2. a * c = b * c + c /\ b * c \in Nat /\ n * c \in Nat
        BY <1>0, <3>1, Weighed
      <4>. QED
        BY <1>0, <2>1, <2>2, <4>1, <4>2
    <3>2. CASE used'[s] = used[s] /\ Armed(s, l)' = Armed(s, l)
      BY <2>1, <2>2, <3>2 DEF u, v, a, b
    <3>. QED
      BY <2>1, <2>3, <3>1, <3>2, MeterStep DEF a, b
  <2>4. CASE ~Meter(r)
    <3>1. ~Flush(r)
      BY <2>1 DEF Flush, Unbuffered
    <3>2. v = u
      BY <1>3, <2>4, <3>1 DEF Step, Start, LookupHit, LookupMiss, Fetch, Fill, ReadSpend, ReadFails,
           Block, Pass, Reserve, ReturnNil, ReleaseAll, store, u, v
    <3>3. CASE u < l
      <4>1. b * c <= n * c /\ b * c \in Nat /\ n * c \in Nat
        BY <1>0, Weighed
      <4>. QED
        BY <1>0, <2>1, <2>2, <3>2, <3>3, <4>1
    <3>4. CASE ~(u < l)
      <4>1. Armed(s, l)' \subseteq Armed(s, l)
        BY <1>3, <2>1, <2>2, <2>4, <3>1, <3>4, ArmedStep DEF u
      <4>2. b <= a
        BY <4>1, ArmedAreFinite, FS_Subset DEF a, b
      <4>3. b * c <= a * c /\ b * c \in Nat /\ a * c \in Nat /\ n * c \in Nat
        BY <1>0, <4>2, Weighed
      <4>. QED
        BY <1>0, <2>1, <2>2, <3>2, <4>3
    <3>. QED
      BY <3>3, <3>4
  <2>. QED
    BY <2>3, <2>4
<1>4. ASSUME UNCHANGED <<pc, chk, used, async>>, defs'[s] = defs[s], changed'[s] = changed[s]
      PROVE  v + b * c < l + n * c
  <2>1. Armed(s, l)' = Armed(s, l)
    BY <1>4 DEF Armed
  <2>. QED
    BY <1>1, <1>4, <2>1 DEF a, b, u, v
<1>5. ASSUME NEW t \in Scopes, EditBudgets(t)
      PROVE  UNCHANGED <<pc, chk, used, async>> /\ defs'[s] = defs[s] /\ changed'[s] = changed[s]
  <2>1. now # -TTL
    BY Constants DEF Typed, TypeOK
  <2>. QED
    BY <1>5, <2>1 DEF EditBudgets, Typed, TypeOK
<1>6. ASSUME InvalidateBudgetCache \/ Tick \/ UNCHANGED vars
      PROVE  UNCHANGED <<pc, chk, used, async, defs, changed>>
  BY <1>6 DEF InvalidateBudgetCache, Tick, vars, store
<1>. QED
  BY <1>2, <1>3, <1>4, <1>5, <1>6, Steps

LEMMA InitMargin == Init => Own /\ Evaluated /\ Unbuffered /\ Margin
<1>. SUFFICES ASSUME Init PROVE Own /\ Evaluated /\ Unbuffered /\ Margin
  OBVIOUS
<1>1. Own /\ Evaluated /\ Unbuffered
  BY DEF Init, Own, Evaluated, Unbuffered, NoCheck
<1>2. Margin
  <2>. SUFFICES ASSUME NEW s \in Scopes, NEW k \in DOMAIN defs[s], defs[s][k].limit > 0
                PROVE  used[s].micros + Cardinality(Armed(s, defs[s][k].limit)) * Cost.micros
                         < defs[s][k].limit + Cardinality(Reqs) * Cost.micros
    BY DEF Margin
  <2>1. Armed(s, defs[s][k].limit) = {} /\ used[s].micros = 0
    BY DEF Init, Armed, Nothing
  <2>2. Cardinality(Armed(s, defs[s][k].limit)) = 0
    BY <2>1, FS_EmptySet
  <2>3. defs[s][k].limit \in Nat
    <3>1. defs[s] \in Seq(Budgets)
      BY BudgetAssumption DEF Init
    <3>2. defs[s][k] \in Budgets
      BY <3>1
    <3>. QED
      BY <3>2 DEF Budgets
  <2>. DEFINE n == Cardinality(Reqs)
              c == Cost.micros
  <2>4. n \in Nat /\ c \in Nat
    BY ArmedAreFinite, Constants
  <2>. HIDE DEF n, c
  <2>5. n * c \in Nat /\ 0 * c = 0
    BY <2>4
  <2>6. 0 + 0 * c < defs[s][k].limit + n * c
    BY <2>3, <2>5
  <2>. QED
    BY <2>1, <2>2, <2>6 DEF n, c
<1>. QED
  BY <1>1, <1>2

LEMMA MarginBounds == Typed /\ Margin => OvershootBounded
<1>. SUFFICES ASSUME Typed, Margin, NEW s \in Scopes, changed[s] = -TTL, ~async,
                     NEW k \in DOMAIN defs[s], defs[s][k].hard, defs[s][k].limit > 0
              PROVE  used[s].micros < defs[s][k].limit + Cardinality(Reqs) * Cost.micros
  BY DEF OvershootBounded
<1>. DEFINE a == Cardinality(Armed(s, defs[s][k].limit))
            n == Cardinality(Reqs)
            l == defs[s][k].limit
            u == used[s].micros
            c == Cost.micros
<1>1. a \in Nat /\ n \in Nat /\ c \in Nat /\ u \in Nat /\ a <= n
  BY ArmedAreFinite, Constants DEF Typed, TypeOK, Amounts
<1>2. u + a * c < l + n * c
  BY DEF Margin
<1>3. l \in Nat
  <2>1. defs[s] \in Seq(Budgets)
    BY BudgetAssumption DEF Typed, TypeOK
  <2>2. defs[s][k] \in Budgets
    BY <2>1
  <2>. QED
    BY <2>2 DEF Budgets
<1>. HIDE DEF a, n, l, u, c
<1>4. a * c \in Nat /\ n * c \in Nat
  BY <1>1, Weighed
<1>5. u < l + n * c
  BY <1>1, <1>2, <1>3, <1>4
<1>. QED
  BY <1>5 DEF n, l, u, c

\* Checks and reservations race, yet a hard limit that was never edited is
\* overshot by at most one cost per request in the process when rows are stored
\* at once, whatever the limits, the cost and the number of requests.
THEOREM Overshoot == Spec => []OvershootBounded
<1>. QED
  BY InitTyped, InitGuarded, InitMargin, TypedIsInductive, OwnIsInductive, ClockIsInductive,
     CoherentIsInductive, CompleteIsInductive, BarredIsInductive, EvaluatedIsInductive,
     UnbufferedIsInductive, MarginIsInductive, MarginBounds, PTL DEF Spec
---------------------------------------------------------------------------
(* The buffered writer *)

\* What the writer's assumption says of its sizes.
Sized == QueueSize \in Nat \ {0} /\ BatchSize \in Nat \ {0}

Once(s) == \A i, j \in DOMAIN s : s[i] = s[j] => i = j

\* The channel and the batch repeat no row.
NoRepeats == Once(queue) /\ Once(batch)

\* The handlers that the server waits for have finished before the writer is
\* closed.
Awaited == (phase = "closing" \/ closed) => \A h \in Recs \ Detached : rec[h] \notin Recording

\* What one row counts for.
Places(h) == Count(h \in InSeq(queue)) + Count(h \in InSeq(batch)) + rows[h] + Count(h \in lost)
Due(h)    == Count(rec[h] \in {"accepted", "written"})

WriterInv == W!TypeOK /\ NoRepeats /\ Conservation
---------------------------------------------------------------------------
(* Sequences without repetition *)

LEMMA AppendOnce ==
  ASSUME NEW S, NEW s \in Seq(S), NEW x \in S, Once(s), x \notin InSeq(s)
  PROVE  /\ Append(s, x) \in Seq(S) /\ Once(Append(s, x))
         /\ InSeq(Append(s, x)) = InSeq(s) \cup {x}
<1>1. /\ Append(s, x) \in Seq(S) /\ Len(Append(s, x)) = Len(s) + 1
      /\ DOMAIN Append(s, x) = 1..Len(s) + 1 /\ DOMAIN s = 1..Len(s)
      /\ \A i \in 1..Len(s) : Append(s, x)[i] = s[i]
      /\ Append(s, x)[Len(s) + 1] = x
  OBVIOUS
<1>2. \A i \in 1..Len(s) : s[i] # x
  BY <1>1 DEF InSeq
<1>3. Once(Append(s, x))
  BY <1>1, <1>2 DEF Once
<1>4. InSeq(Append(s, x)) = InSeq(s) \cup {x}
  BY <1>1 DEF InSeq
<1>. QED
  BY <1>1, <1>3, <1>4

LEMMA TailOnce ==
  ASSUME NEW S, NEW s \in Seq(S), s # <<>>, Once(s)
  PROVE  /\ Tail(s) \in Seq(S) /\ Once(Tail(s)) /\ Len(Tail(s)) = Len(s) - 1
         /\ Head(s) \in S /\ Head(s) \in InSeq(s)
         /\ InSeq(Tail(s)) = InSeq(s) \ {Head(s)}
<1>1. /\ Tail(s) \in Seq(S) /\ Len(Tail(s)) = Len(s) - 1 /\ Len(s) \in Nat \ {0}
      /\ DOMAIN Tail(s) = 1..Len(s) - 1 /\ DOMAIN s = 1..Len(s)
      /\ \A i \in 1..Len(s) - 1 : Tail(s)[i] = s[i + 1]
      /\ Head(s) = s[1] /\ s[1] \in S
  OBVIOUS
<1>2. Once(Tail(s))
  BY <1>1 DEF Once
<1>3. Head(s) \in InSeq(s)
  BY <1>1 DEF InSeq
<1>4. InSeq(Tail(s)) \subseteq InSeq(s) \ {Head(s)}
  BY <1>1 DEF InSeq, Once
<1>5. ASSUME NEW h \in InSeq(s) \ {Head(s)}
      PROVE  h \in InSeq(Tail(s))
  <2>1. PICK i \in 1..Len(s) : h = s[i]
    BY <1>1 DEF InSeq
  <2>2. i - 1 \in 1..Len(s) - 1 /\ Tail(s)[i - 1] = h
    BY <1>1, <1>5, <2>1
  <2>. QED
    BY <1>1, <2>2 DEF InSeq
<1>. QED
  BY <1>1, <1>2, <1>3, <1>4, <1>5

LEMMA EmptyOnce == Once(<<>>) /\ InSeq(<<>>) = {}
  BY DEF Once, InSeq
---------------------------------------------------------------------------
(* Conservation *)

LEMMA InitWriter == Sized /\ W!Init => WriterInv
<1>. SUFFICES ASSUME Sized, W!Init PROVE WriterInv
  OBVIOUS
<1>1. W!TypeOK
  <2>1. <<>> \in Seq(Recs) /\ Len(<<>>) = 0 /\ 0 <= QueueSize /\ 0 < BatchSize
    BY DEF Sized
  <2>2. rec \in [Recs -> {"serving"}] /\ rows \in [Recs -> Nat]
    BY DEF W!Init
  <2>. QED
    BY <2>1, <2>2 DEF W!Init, W!TypeOK
<1>2. NoRepeats /\ Conservation
  BY EmptyOnce DEF W!Init, NoRepeats, Conservation, Count
<1>. QED
  BY <1>1, <1>2 DEF WriterInv

\* A write moves every row of a batch without repetition into the table, once,
\* or into the log.
LEMMA WriteMoves ==
  ASSUME W!TypeOK, NEW b \in Seq(Recs), W!Write(b)
  PROVE  /\ rows' \in [Recs -> Nat] /\ lost' \subseteq Recs
         /\ \A h \in Recs \ InSeq(b) : rows'[h] = rows[h] /\ (h \in lost' <=> h \in lost)
         /\ \A h \in InSeq(b) : h \notin lost =>
              rows'[h] + Count(h \in lost') = rows[h] + 1
<1>1. InSeq(b) \subseteq Recs
  BY DEF InSeq
<1>2. PICK ok \in SUBSET InSeq(b) :
        /\ rows' = [h \in Recs |-> IF h \in ok THEN rows[h] + 1 ELSE rows[h]]
        /\ lost' = lost \cup (InSeq(b) \ ok)
  BY DEF W!Write, W!InSeq, InSeq
<1>. QED
  BY <1>1, <1>2 DEF W!TypeOK, Count

LEMMA TakeConserves ==
  ASSUME Sized, WriterInv, W!Take
  PROVE  WriterInv'
<1>. DEFINE x == Head(queue)
<1>1. /\ queue \in Seq(Recs) /\ queue # <<>> /\ queue' = Tail(queue)
      /\ UNCHANGED <<policy, rec, closed, writer, cancelled, phase, cutShort>>
  BY DEF W!Take, WriterInv, W!TypeOK, W!app
<1>2. /\ Tail(queue) \in Seq(Recs) /\ Once(Tail(queue)) /\ Len(queue') <= QueueSize
      /\ x \in Recs /\ x \in InSeq(queue) /\ InSeq(queue') = InSeq(queue) \ {x}
  BY <1>1, TailOnce DEF Sized, WriterInv, NoRepeats, W!TypeOK
<1>3. x \notin InSeq(batch) /\ rows[x] = 0 /\ x \notin lost
  <2>1. Places(x) = Due(x) /\ Count(x \in InSeq(queue)) = 1 /\ Due(x) \in {0, 1} /\ rows[x] \in Nat
    BY <1>2 DEF WriterInv, Conservation, W!TypeOK, Count, Places, Due
  <2>. QED
    BY <2>1 DEF Places, Count
<1>4. /\ Append(batch, x) \in Seq(Recs) /\ Once(Append(batch, x))
      /\ InSeq(Append(batch, x)) = InSeq(batch) \cup {x}
      /\ Len(Append(batch, x)) = Len(batch) + 1
  BY <1>2, <1>3, AppendOnce DEF WriterInv, NoRepeats, W!TypeOK
<1>. HIDE DEF x
<1>5. CASE Len(batch) + 1 >= BatchSize
  <2>1. W!Write(Append(batch, x)) /\ batch' = <<>>
    BY <1>5 DEF W!Take, x
  <2>2. /\ rows' \in [Recs -> Nat] /\ lost' \subseteq Recs
        /\ \A h \in Recs \ InSeq(Append(batch, x)) : rows'[h] = rows[h] /\ (h \in lost' <=> h \in lost)
        /\ \A h \in InSeq(Append(batch, x)) : h \notin lost =>
             rows'[h] + Count(h \in lost') = rows[h] + 1
    BY <1>4, <2>1, WriteMoves DEF WriterInv
  <2>3. W!TypeOK'
    BY <1>1, <1>2, <2>1, <2>2 DEF Sized, WriterInv, W!TypeOK
  <2>4. NoRepeats'
    BY <1>1, <1>2, <2>1, EmptyOnce DEF NoRepeats
  <2>5. Conservation'
    <3>. SUFFICES ASSUME NEW h \in Recs PROVE Places(h)' = Due(h)'
      BY DEF Conservation, Places, Due
    <3>1. Places(h) = Due(h) /\ Due(h)' = Due(h) /\ rows[h] \in Nat /\ rows'[h] \in Nat
      BY <1>1, <2>2 DEF WriterInv, Conservation, Places, Due, W!TypeOK
    <3>2. InSeq(batch') = {}
      BY <2>1, EmptyOnce
    <3>3. CASE h \in InSeq(Append(batch, x))
      BY <1>2, <1>3, <1>4, <2>2, <3>1, <3>2, <3>3 DEF Places, Due, Count
    <3>4. CASE h \notin InSeq(Append(batch, x))
      BY <1>2, <1>4, <2>2, <3>1, <3>2, <3>4 DEF Places, Count
    <3>. QED
      BY <3>3, <3>4
  <2>. QED
    BY <2>3, <2>4, <2>5 DEF WriterInv
<1>6. CASE ~(Len(batch) + 1 >= BatchSize)
  <2>1. batch' = Append(batch, x) /\ UNCHANGED <<rows, lost>>
    BY <1>6 DEF W!Take, x, W!db
  <2>2. W!TypeOK'
    BY <1>1, <1>2, <1>4, <1>6, <2>1 DEF Sized, WriterInv, W!TypeOK
  <2>3. NoRepeats'
    BY <1>1, <1>2, <1>4, <2>1 DEF NoRepeats
  <2>4. Conservation'
    <3>. SUFFICES ASSUME NEW h \in Recs PROVE Places(h)' = Due(h)'
      BY DEF Conservation, Places, Due
    <3>1. Places(h) = Due(h) /\ Due(h)' = Due(h) /\ rows[h] \in Nat
      BY <1>1 DEF WriterInv, Conservation, Places, Due, W!TypeOK
    <3>2. CASE h = x
      BY <1>2, <1>3, <1>4, <2>1, <3>1, <3>2 DEF Places, Count
    <3>3. CASE h # x
      BY <1>2, <1>4, <2>1, <3>1, <3>3 DEF Places, Count
    <3>. QED
      BY <3>2, <3>3
  <2>. QED
    BY <2>2, <2>3, <2>4 DEF WriterInv
<1>. QED
  BY <1>5, <1>6

\* The tick and the return of the loop write the batch and empty it.
LEMMA FlushConserves ==
  ASSUME Sized, WriterInv, W!TickFlush \/ W!Return
  PROVE  WriterInv'
<1>1. /\ W!Write(batch) /\ batch' = <<>> /\ UNCHANGED <<rec, queue>>
      /\ UNCHANGED <<policy, closed, cancelled, phase, cutShort>>
      /\ writer' \in {writer, "done"}
  BY DEF W!TickFlush, W!Return, W!app
<1>2. batch \in Seq(Recs) /\ Once(batch)
  BY DEF WriterInv, W!TypeOK, NoRepeats
<1>3. /\ rows' \in [Recs -> Nat] /\ lost' \subseteq Recs
      /\ \A h \in Recs \ InSeq(batch) : rows'[h] = rows[h] /\ (h \in lost' <=> h \in lost)
      /\ \A h \in InSeq(batch) : h \notin lost =>
           rows'[h] + Count(h \in lost') = rows[h] + 1
  BY <1>1, <1>2, WriteMoves DEF WriterInv
<1>4. W!TypeOK'
  <2>1. <<>> \in Seq(Recs) /\ Len(<<>>) = 0 /\ 0 < BatchSize
    BY DEF Sized
  <2>. QED
    BY <1>1, <1>3, <2>1 DEF WriterInv, W!TypeOK
<1>5. NoRepeats'
  BY <1>1, EmptyOnce DEF WriterInv, NoRepeats
<1>6. Conservation'
  <2>. SUFFICES ASSUME NEW h \in Recs PROVE Places(h)' = Due(h)'
    BY DEF Conservation, Places, Due
  <2>1. /\ Places(h) = Due(h) /\ Due(h)' = Due(h) /\ Due(h) \in {0, 1}
        /\ rows[h] \in Nat /\ rows'[h] \in Nat
    BY <1>1, <1>3 DEF WriterInv, Conservation, Places, Due, W!TypeOK, Count
  <2>2. InSeq(batch') = {} /\ InSeq(queue') = InSeq(queue)
    BY <1>1, EmptyOnce
  <2>3. CASE h \in InSeq(batch)
    <3>1. h \notin InSeq(queue) /\ h \notin lost /\ rows[h] = 0 /\ Due(h) = 1
      BY <2>1, <2>3 DEF Places, Count
    <3>. QED
      BY <1>3, <2>1, <2>2, <2>3, <3>1 DEF Places, Count
  <2>4. CASE h \notin InSeq(batch)
    BY <1>3, <2>1, <2>2, <2>4 DEF Places, Count
  <2>. QED
    BY <2>3, <2>4
<1>. QED
  BY <1>4, <1>5, <1>6 DEF WriterInv

\* Record: a row enters the channel or the table only from a call that has not
\* yet answered, so it was nowhere before.
LEMMA RecordConserves ==
  ASSUME Sized, WriterInv, NEW h \in Recs,
         W!CheckClosed(h) \/ W!Enqueue(h) \/ W!QueueFull(h) \/ W!SendOnClosed(h) \/ W!DirectWrite(h)
  PROVE  WriterInv'
<1>1. CASE W!CheckClosed(h) \/ W!QueueFull(h) \/ W!SendOnClosed(h)
  <2>1. /\ UNCHANGED <<queue, batch, writer, rows, lost, policy, closed, cancelled, cutShort>>
        /\ rec' \in [Recs -> {"serving", "checked", "direct", "accepted", "written", "dropped", "failed"}]
        /\ \A g \in Recs : rec'[g] \in {"accepted", "written"} <=> rec[g] \in {"accepted", "written"}
        /\ phase' \in {phase, "crashed"}
    BY <1>1 DEF W!CheckClosed, W!QueueFull, W!SendOnClosed, W!app, W!loop, W!db, WriterInv, W!TypeOK
  <2>2. W!TypeOK' /\ NoRepeats'
    BY <2>1 DEF WriterInv, W!TypeOK, NoRepeats
  <2>3. Conservation'
    BY <2>1 DEF WriterInv, Conservation, Count
  <2>. QED
    BY <2>2, <2>3 DEF WriterInv
<1>2. CASE W!Enqueue(h)
  <2>1. /\ UNCHANGED <<batch, writer, rows, lost, policy, closed, cancelled, phase, cutShort>>
        /\ queue' = Append(queue, h) /\ Len(queue) < QueueSize
        /\ rec[h] = "checked" /\ rec' = [rec EXCEPT ![h] = "accepted"]
    BY <1>2 DEF W!Enqueue, W!app, W!db
  <2>2. Due(h) = 0 /\ Places(h) = 0
    BY <2>1 DEF Due, Count, WriterInv, Conservation, Places
  <2>3. h \notin InSeq(queue) /\ h \notin InSeq(batch) /\ rows[h] = 0 /\ h \notin lost
    BY <2>2 DEF Places, Count, WriterInv, W!TypeOK
  <2>4. /\ Append(queue, h) \in Seq(Recs) /\ Once(Append(queue, h))
        /\ InSeq(Append(queue, h)) = InSeq(queue) \cup {h}
        /\ Len(Append(queue, h)) <= QueueSize
    BY <2>1, <2>3, AppendOnce DEF Sized, WriterInv, W!TypeOK, NoRepeats
  <2>5. W!TypeOK' /\ NoRepeats'
    BY <2>1, <2>4 DEF WriterInv, W!TypeOK, NoRepeats
  <2>6. Conservation'
    <3>. SUFFICES ASSUME NEW g \in Recs PROVE Places(g)' = Due(g)'
      BY DEF Conservation, Places, Due
    <3>1. Places(g) = Due(g) /\ rows[g] \in Nat
      BY DEF WriterInv, Conservation, Places, Due, W!TypeOK
    <3>2. CASE g = h
      BY <2>1, <2>3, <2>4, <3>2 DEF WriterInv, W!TypeOK, Places, Due, Count
    <3>3. CASE g # h
      BY <2>1, <2>4, <3>1, <3>3 DEF WriterInv, W!TypeOK, Places, Due, Count
    <3>. QED
      BY <3>2, <3>3
  <2>. QED
    BY <2>5, <2>6 DEF WriterInv
<1>3. CASE W!DirectWrite(h)
  <2>1. /\ UNCHANGED <<queue, batch, writer, lost, policy, closed, cancelled, phase, cutShort>>
        /\ rec[h] = "direct"
        /\ \/ rows' = [rows EXCEPT ![h] = @ + 1] /\ rec' = [rec EXCEPT ![h] = "written"]
           \/ rows' = rows /\ rec' = [rec EXCEPT ![h] = "failed"]
    BY <1>3 DEF W!DirectWrite, W!app, W!loop
  <2>2. W!TypeOK' /\ NoRepeats'
    <3>1. rows' \in [Recs -> Nat]
      BY <2>1 DEF WriterInv, W!TypeOK
    <3>2. rec' \in [Recs -> {"serving", "checked", "direct", "accepted", "written", "dropped", "failed"}]
      BY <2>1 DEF WriterInv, W!TypeOK
    <3>. QED
      BY <2>1, <3>1, <3>2 DEF WriterInv, W!TypeOK, NoRepeats
  <2>3. Conservation'
    <3>. SUFFICES ASSUME NEW g \in Recs PROVE Places(g)' = Due(g)'
      BY DEF Conservation, Places, Due
    <3>1. Places(g) = Due(g) /\ rows[g] \in Nat
      BY DEF WriterInv, Conservation, Places, Due, W!TypeOK
    <3>2. CASE g = h
      BY <2>1, <3>1, <3>2 DEF WriterInv, W!TypeOK, Places, Due, Count
    <3>3. CASE g # h
      BY <2>1, <3>1, <3>3 DEF WriterInv, W!TypeOK, Places, Due, Count
    <3>. QED
      BY <3>2, <3>3
  <2>. QED
    BY <2>2, <2>3 DEF WriterInv
<1>. QED
  BY <1>1, <1>2, <1>3

\* The cancellation and App.Run touch no row.
LEMMA RunConserves ==
  ASSUME Sized, WriterInv,
         \/ W!SeeCancel \/ W!Signal \/ W!ServeFails \/ W!BeginShutdown \/ W!ServerDown \/ W!ShutdownTimesOut
         \/ W!CloseWriter \/ W!CloseReturns \/ W!CloseTimesOut \/ W!Exit \/ UNCHANGED W!vars
  PROVE  WriterInv'
<1>1. /\ UNCHANGED <<rec, queue, batch, rows, lost, policy>>
      /\ writer' \in {writer, "draining"} /\ closed' \in BOOLEAN /\ cancelled' \in BOOLEAN
      /\ cutShort' \in BOOLEAN
      /\ phase' \in {"serving", "shutdown", "closing", "waiting", "dbclosed", "crashed", "exited"}
  BY DEF WriterInv, W!TypeOK, W!SeeCancel, W!Signal, W!ServeFails, W!BeginShutdown, W!ServerDown, W!ShutdownTimesOut,
         W!CloseWriter, W!CloseReturns, W!CloseTimesOut, W!Exit, W!vars, W!app, W!loop, W!db
<1>. QED
  BY <1>1 DEF WriterInv, W!TypeOK, NoRepeats, Conservation

LEMMA WriterIsInductive == Sized /\ WriterInv /\ [W!Next]_(W!vars) => WriterInv'
  BY TakeConserves, FlushConserves, RecordConserves, RunConserves DEF W!Next

\* The state of the writer and of App.Run stays typed; in particular the channel
\* holds no more than its capacity and a batch is written when it is full.
THEOREM WriterTyping == Sized => (W!Spec => []W!TypeOK)
<1>. SUFFICES ASSUME Sized PROVE W!Spec => []W!TypeOK
  OBVIOUS
<1>1. WriterInv => W!TypeOK
  BY DEF WriterInv
<1>2. W!Init => WriterInv
  BY InitWriter
<1>3. WriterInv /\ [W!Next]_(W!vars) => WriterInv'
  BY WriterIsInductive
<1>. QED
  BY <1>1, <1>2, <1>3, PTL DEF W!Spec

\* A row the writer accepted is in exactly one place, for any number of rows,
\* any capacity and any batch size.
THEOREM Conserved == Sized => (W!Spec => []Conservation)
<1>. SUFFICES ASSUME Sized PROVE W!Spec => []Conservation
  OBVIOUS
<1>1. WriterInv => Conservation
  BY DEF WriterInv
<1>2. W!Init => WriterInv
  BY InitWriter
<1>3. WriterInv /\ [W!Next]_(W!vars) => WriterInv'
  BY WriterIsInductive
<1>. QED
  BY <1>1, <1>2, <1>3, PTL DEF W!Spec
---------------------------------------------------------------------------
(* The order of the shutdown *)

\* What the server waits for has been recorded when the channel is closed.
THEOREM NoAwaitedPanic == Sized => (W!Spec => []AwaitedNeverPanics)
<1>1. W!Init => Awaited
  BY DEF W!Init, Awaited
<1>2. W!TypeOK /\ Awaited /\ [W!Next]_(W!vars) => Awaited'
  <2>. SUFFICES ASSUME W!TypeOK, Awaited, [W!Next]_(W!vars) PROVE Awaited'
    OBVIOUS
  <2>1. \A h \in Recs : rec[h] \notin Recording => rec'[h] \notin Recording
    <3>1. CASE UNCHANGED rec
      BY <3>1
    <3>2. ASSUME NEW h \in Recs, W!CheckClosed(h) \/ W!Enqueue(h) \/ W!QueueFull(h) \/ W!DirectWrite(h)
          PROVE  \A g \in Recs : rec[g] \notin Recording => rec'[g] \notin Recording
      <4>1. rec[h] \in Recording /\ \E to : rec' = [rec EXCEPT ![h] = to]
        BY <3>2 DEF W!CheckClosed, W!Enqueue, W!QueueFull, W!DirectWrite, Recording
      <4>. QED
        BY <4>1 DEF W!TypeOK
    <3>3. ASSUME NEW h \in Recs, W!SendOnClosed(h) PROVE UNCHANGED rec
      BY <3>3 DEF W!SendOnClosed
    <3>4. \/ UNCHANGED rec
          \/ \E h \in Recs : W!CheckClosed(h) \/ W!Enqueue(h) \/ W!QueueFull(h) \/ W!DirectWrite(h)
      BY <3>3 DEF W!Next, W!vars, W!Take, W!TickFlush, W!SeeCancel, W!Return, W!Signal, W!ServeFails, W!BeginShutdown,
                  W!ServerDown, W!ShutdownTimesOut, W!CloseWriter, W!CloseReturns, W!CloseTimesOut, W!Exit
    <3>. QED
      BY <3>1, <3>2, <3>4
  <2>2. CASE W!ServerDown
    BY <2>1, <2>2 DEF W!ServerDown, Awaited, W!Recording, Recording
  <2>3. CASE ~W!ServerDown
    <3>1. (phase' = "closing" \/ closed') => (phase = "closing" \/ closed)
      BY <2>3 DEF W!Next, W!vars, W!app, W!CheckClosed, W!Enqueue, W!QueueFull, W!SendOnClosed, W!DirectWrite, W!Take,
                  W!TickFlush, W!SeeCancel, W!Return, W!Signal, W!ServeFails, W!BeginShutdown,
                  W!ShutdownTimesOut, W!CloseWriter, W!CloseReturns, W!CloseTimesOut, W!Exit
    <3>. QED
      BY <2>1, <3>1 DEF Awaited
  <2>. QED
    BY <2>2, <2>3
<1>3. Awaited => AwaitedNeverPanics
  BY DEF Awaited, AwaitedNeverPanics
<1>. SUFFICES ASSUME Sized PROVE W!Spec => []AwaitedNeverPanics
  OBVIOUS
<1>4. W!Spec => []W!TypeOK
  BY WriterTyping
<1>. QED
  BY <1>1, <1>2, <1>3, <1>4, PTL DEF W!Spec
=============================================================================

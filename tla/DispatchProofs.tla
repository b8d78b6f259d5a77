--------------------------- MODULE DispatchProofs ---------------------------
(***************************************************************************)
(* Proofs about Dispatch.tla, for any requests, accounts and durations:     *)
(* the types, what planning knows when it resolves its attempts, and the    *)
(* backoff levels.                                                          *)
(***************************************************************************)
EXTENDS Dispatch, FiniteSetTheorems, TLAPS

---------------------------------------------------------------------------
(* Recursion over the natural numbers *)

\* Every nonempty set of numbers has a least element.
LEMMA Least ==
  ASSUME NEW N, N \subseteq Nat, N # {}
  PROVE  \E m \in N : \A n \in N : m <= n
<1>. DEFINE R == OpToRel(<, Nat)
<1>1. IsWellFoundedOn(R, Nat)
  BY NatLessThanWellFounded
<1>2. \A x, y \in Nat : <<y, x>> \in R <=> y < x
  BY DEF OpToRel
<1>. HIDE DEF R
<1>3. PICK x \in N : \A y \in N : ~ (<<y, x>> \in R)
  BY <1>1, WFMin
<1>4. ASSUME NEW y \in N PROVE x <= y
  <2>1. x \in Nat /\ y \in Nat
    BY <1>4
  <2>2. ~ (y < x)
    BY <1>2, <1>3, <2>1
  <2>. QED
    BY <2>1, <2>2
<1>. QED
  BY <1>4

\* Induction, for a set of numbers instead of a predicate.
LEMMA Inductively ==
  ASSUME NEW P, 0 \in P, \A n \in Nat : n \in P => n + 1 \in P
  PROVE  Nat \subseteq P
<1>. SUFFICES ASSUME Nat \ P # {} PROVE FALSE
  OBVIOUS
<1>1. PICK m \in Nat \ P : \A n \in Nat \ P : m <= n
  BY Least
<1>2. m # 0 /\ m - 1 \in Nat
  BY <1>1
<1>3. m - 1 \in P
  BY <1>1, <1>2
<1>. QED
  BY <1>1, <1>2, <1>3

\* A start and a step define a sequence of values.
LEMMA Iterated ==
  ASSUME NEW S, NEW s \in S, NEW F \in [S -> S]
  PROVE  \E g \in [Nat -> S] : g[0] = s /\ \A n \in Nat : g[n + 1] = F[g[n]]
<1>. DEFINE Begins(n, g) == g[0] = s /\ \A k \in 1..n : g[k] = F[g[k - 1]]
            Runs(n) == {g \in [0..n -> S] : Begins(n, g)}
<1>1. \A n \in Nat : Runs(n) # {}
  <2>. DEFINE P == {n \in Nat : Runs(n) # {}}
  <2>1. 0 \in P
    <3>. DEFINE g == [k \in 0..0 |-> s]
    <3>1. g \in [0..0 -> S] /\ g[0] = s /\ 1..0 = {}
      OBVIOUS
    <3>2. g \in Runs(0)
      BY <3>1
    <3>. QED
      BY <3>2
  <2>2. ASSUME NEW n \in Nat, n \in P PROVE n + 1 \in P
    <3>1. PICK g \in [0..n -> S] : Begins(n, g)
      BY <2>2
    <3>. DEFINE h == [k \in 0..n + 1 |-> IF k = n + 1 THEN F[g[n]] ELSE g[k]]
    <3>2. \A k \in 0..n : k \in 0..n + 1 /\ k # n + 1 /\ h[k] = g[k]
      OBVIOUS
    <3>3. n + 1 \in 0..n + 1 /\ h[n + 1] = F[g[n]] /\ F[g[n]] \in S
      OBVIOUS
    <3>4. h \in [0..n + 1 -> S]
      <4>1. \A k \in 0..n + 1 : k = n + 1 \/ k \in 0..n
        OBVIOUS
      <4>. QED
        BY <3>3, <4>1
    <3>. HIDE DEF h
    <3>5. h[0] = s
      BY <3>1, <3>2
    <3>6. ASSUME NEW k \in 1..n + 1 PROVE h[k] = F[h[k - 1]]
      <4>1. CASE k = n + 1
        BY <3>2, <3>3, <4>1
      <4>2. CASE k \in 1..n
        <5>1. k \in 0..n /\ k - 1 \in 0..n
          BY <4>2
        <5>. QED
          BY <3>1, <3>2, <4>2, <5>1
      <4>. QED
        BY <4>1, <4>2
    <3>7. h \in Runs(n + 1)
      BY <3>4, <3>5, <3>6
    <3>. QED
      BY <3>7
  <2>. HIDE DEF P
  <2>3. Nat \subseteq P
    BY <2>1, <2>2, Inductively
  <2>. QED
    BY <2>3 DEF P
\* Two runs agree as far as both go.
<1>2. ASSUME NEW m \in Nat, NEW n \in Nat, m <= n, NEW g \in Runs(m), NEW h \in Runs(n)
      PROVE  \A k \in 0..m : g[k] = h[k]
  <2>. DEFINE P == {k \in Nat : k <= m => g[k] = h[k]}
  <2>1. 0 \in P
    OBVIOUS
  <2>2. ASSUME NEW k \in Nat, k \in P PROVE k + 1 \in P
    <3>. SUFFICES ASSUME k + 1 <= m PROVE g[k + 1] = h[k + 1]
      OBVIOUS
    <3>1. k + 1 \in 1..m /\ k + 1 \in 1..n /\ (k + 1) - 1 = k
      BY <1>2
    <3>2. g[k + 1] = F[g[k]] /\ h[k + 1] = F[h[k]]
      BY <3>1
    <3>3. g[k] = h[k]
      BY <2>2
    <3>. QED
      BY <3>2, <3>3
  <2>. HIDE DEF P
  <2>3. Nat \subseteq P
    BY <2>1, <2>2, Inductively
  <2>. QED
    BY <2>3 DEF P
<1>. DEFINE run(n) == CHOOSE g \in Runs(n) : TRUE
            all == [n \in Nat |-> run(n)[n]]
<1>3. \A n \in Nat : run(n) \in Runs(n)
  BY <1>1
<1>4. \A n \in Nat : run(n) \in [0..n -> S] /\ Begins(n, run(n))
  BY <1>3
<1>. HIDE DEF run, Runs
<1>5. all \in [Nat -> S]
  BY <1>4
<1>6. all[0] = s
  BY <1>4
<1>7. ASSUME NEW n \in Nat PROVE all[n + 1] = F[all[n]]
  <2>1. n + 1 \in 1..n + 1 /\ (n + 1) - 1 = n /\ n \in 0..n
    OBVIOUS
  <2>2. run(n + 1)[n + 1] = F[run(n + 1)[n]]
    BY <1>4, <2>1
  <2>3. run(n)[n] = run(n + 1)[n]
    BY <1>2, <1>3, <2>1
  <2>. QED
    BY <2>2, <2>3
<1>. QED
  BY <1>5, <1>6, <1>7

\* The powers of two that the backoff multiplies its base with.
LEMMA PowersAreTyped == Pow2 \in [Nat -> Nat \ {0}]
<1>. DEFINE S == Nat \ {0}
            one == 1
            F == [x \in S |-> 2 * x]
<1>1. F \in [S -> S] /\ one \in S
  OBVIOUS
<1>. HIDE DEF F, S, one
<1>2. PICK g \in [Nat -> S] : g[0] = one /\ \A n \in Nat : g[n + 1] = F[g[n]]
  BY <1>1, Iterated
<1>3. \A n \in Nat : g[n] = IF n = 0 THEN 1 ELSE 2 * g[n - 1]
  <2>. SUFFICES ASSUME NEW n \in Nat, n # 0 PROVE g[n] = 2 * g[n - 1]
    BY <1>2 DEF one
  <2>1. n - 1 \in Nat /\ (n - 1) + 1 = n
    OBVIOUS
  <2>2. g[n] = F[g[n - 1]]
    BY <1>2, <2>1
  <2>. QED
    BY <1>2, <2>1, <2>2 DEF F, S
<1>4. g = [n \in Nat |-> IF n = 0 THEN 1 ELSE 2 * g[n - 1]]
  BY <1>3
<1>5. Pow2 = [n \in Nat |-> IF n = 0 THEN 1 ELSE 2 * Pow2[n - 1]]
  BY <1>4 DEF Pow2
<1>6. \A n \in Nat : Pow2[n] = IF n = 0 THEN 1 ELSE 2 * Pow2[n - 1]
  BY <1>5
<1>. DEFINE P == {n \in Nat : Pow2[n] \in S}
<1>7. 0 \in P
  BY <1>6 DEF S
<1>8. ASSUME NEW n \in Nat, n \in P PROVE n + 1 \in P
  <2>1. n + 1 \in Nat /\ n + 1 # 0 /\ (n + 1) - 1 = n
    OBVIOUS
  <2>2. Pow2[n + 1] = 2 * Pow2[n] /\ Pow2[n] \in S
    BY <1>6, <1>8, <2>1
  <2>. QED
    BY <2>1, <2>2 DEF S
<1>. HIDE DEF P
<1>9. Nat \subseteq P
  BY <1>7, <1>8, Inductively
<1>. QED
  BY <1>5, <1>9 DEF P, S

---------------------------------------------------------------------------
(* Sequences *)

\* The places that are kept are ranked from the first to the last.
LEMMA RanksAreUnique ==
  ASSUME NEW n \in Nat, NEW kept \in SUBSET (1..n)
  PROVE  /\ Cardinality(kept) \in Nat
         /\ \A i \in kept : Rank(kept, i) \in 1..Cardinality(kept)
         /\ \A i, j \in kept : Rank(kept, i) = Rank(kept, j) => i = j
         /\ \A k \in 1..Cardinality(kept) : \E i \in kept : Rank(kept, i) = k
<1>. DEFINE Upto(i) == {j \in kept : j <= i}
<1>1. IsFiniteSet(kept) /\ Cardinality(kept) \in Nat
  <2>1. IsFiniteSet(1..n)
    BY FS_Interval
  <2>. QED
    BY <2>1, FS_Subset, FS_CardinalityType
<1>2. ASSUME NEW i \in kept
      PROVE  IsFiniteSet(Upto(i)) /\ Rank(kept, i) \in 1..Cardinality(kept)
  <2>1. Upto(i) \in SUBSET kept
    OBVIOUS
  <2>2. /\ IsFiniteSet(Upto(i)) /\ Cardinality(Upto(i)) \in Nat
        /\ Cardinality(Upto(i)) <= Cardinality(kept)
    BY <1>1, <2>1, FS_Subset, FS_CardinalityType
  <2>3. i \in Upto(i)
    OBVIOUS
  <2>4. Cardinality(Upto(i)) # 0
    BY <2>2, <2>3, FS_EmptySet
  <2>. QED
    BY <1>1, <2>2, <2>4 DEF Rank
<1>3. ASSUME NEW i \in kept, NEW j \in kept, i < j
      PROVE  Rank(kept, i) < Rank(kept, j)
  <2>1. Upto(i) \in SUBSET Upto(j)
    <3>1. \A m \in kept : m <= i => m <= j
      BY <1>3
    <3>. QED
      BY <3>1
  <2>2. j \in Upto(j) /\ j \notin Upto(i)
    BY <1>3
  <2>3. /\ IsFiniteSet(Upto(i)) /\ IsFiniteSet(Upto(j))
        /\ Cardinality(Upto(i)) \in Nat /\ Cardinality(Upto(j)) \in Nat
    BY <1>2, FS_CardinalityType
  <2>. HIDE DEF Upto
  <2>4. /\ Cardinality(Upto(i)) <= Cardinality(Upto(j))
        /\ Cardinality(Upto(i)) # Cardinality(Upto(j))
    BY <2>1, <2>2, <2>3, FS_Subset
  <2>5. Cardinality(Upto(i)) < Cardinality(Upto(j))
    BY <2>3, <2>4
  <2>. QED
    BY <2>5 DEF Rank, Upto
<1>4. \A i, j \in kept : Rank(kept, i) = Rank(kept, j) => i = j
  <2>. SUFFICES ASSUME NEW i \in kept, NEW j \in kept, Rank(kept, i) = Rank(kept, j)
                PROVE  i = j
    OBVIOUS
  <2>. DEFINE m == Rank(kept, i)
  <2>1. m \in 1..Cardinality(kept)
    BY <1>2
  <2>2. (i < j => m < m) /\ (j < i => m < m)
    BY <1>3
  <2>. HIDE DEF m
  <2>3. ~ (i < j) /\ ~ (j < i)
    BY <1>1, <2>1, <2>2
  <2>. QED
    BY <2>3
<1>5. \A k \in 1..Cardinality(kept) : \E i \in kept : Rank(kept, i) = k
  <2>. DEFINE N == 1..Cardinality(kept)
              f == [i \in kept |-> Rank(kept, i)]
  <2>1. f \in Injection(kept, N)
    BY <1>2, <1>4 DEF Injection, IsInjective
  <2>2. IsFiniteSet(N) /\ Cardinality(N) = Cardinality(kept)
    BY <1>1, FS_Interval
  <2>. HIDE DEF f, N
  <2>3. f \in Surjection(kept, N)
    BY <2>1, <2>2, FS_Injection
  <2>. QED
    BY <2>3 DEF Surjection, f, N
<1>. QED
  BY <1>1, <1>2, <1>4, <1>5

\* What is left of a sequence: its elements outside T, each as often as before.
LEMMA WithoutKeeps ==
  ASSUME NEW S, NEW s \in Seq(S), NEW T
  PROVE  /\ Without(s, T) \in Seq(S) /\ ToSet(Without(s, T)) = ToSet(s) \ T
         /\ IsInjective(s) => IsInjective(Without(s, T))
         /\ Without(s, T) = <<>> <=> ToSet(s) \ T = {}
<1>. DEFINE kept == {i \in DOMAIN s : s[i] \notin T}
            n == Cardinality(kept)
            at(k) == CHOOSE i \in kept : Rank(kept, i) = k
            t == Without(s, T)
<1>1. Len(s) \in Nat /\ DOMAIN s = 1..Len(s) /\ kept \in SUBSET (1..Len(s))
  OBVIOUS
<1>2. /\ n \in Nat
      /\ \A i \in kept : Rank(kept, i) \in 1..n
      /\ \A i, j \in kept : Rank(kept, i) = Rank(kept, j) => i = j
      /\ \A k \in 1..n : \E i \in kept : Rank(kept, i) = k
  <2>. HIDE DEF kept
  <2>. QED
    BY <1>1, RanksAreUnique
<1>3. t = [k \in 1..n |-> s[at(k)]]
  BY DEF Without
<1>4. \A i \in kept : i \in DOMAIN s /\ s[i] \in S \ T
  BY <1>1
<1>5. \A i \in DOMAIN s : s[i] \notin T => i \in kept
  OBVIOUS
<1>. HIDE DEF n, t, kept
<1>6. \A k \in 1..n : at(k) \in kept /\ Rank(kept, at(k)) = k
  BY <1>2
<1>7. \A i \in kept : at(Rank(kept, i)) = i
  BY <1>2, <1>6
<1>. HIDE DEF at
<1>8. t \in Seq(S)
  BY <1>2, <1>3, <1>4, <1>6
<1>9. DOMAIN t = 1..n /\ \A k \in 1..n : t[k] = s[at(k)]
  BY <1>3
<1>10. ToSet(t) = ToSet(s) \ T
  <2>1. ToSet(t) \subseteq ToSet(s) \ T
    BY <1>4, <1>6, <1>9 DEF ToSet
  <2>2. ASSUME NEW i \in DOMAIN s, s[i] \notin T PROVE s[i] \in ToSet(t)
    <3>1. i \in kept /\ Rank(kept, i) \in 1..n /\ at(Rank(kept, i)) = i
      BY <1>2, <1>5, <1>7, <2>2
    <3>. QED
      BY <1>9, <3>1 DEF ToSet
  <2>. QED
    BY <2>1, <2>2 DEF ToSet
<1>11. IsInjective(s) => IsInjective(t)
  <2>1. ASSUME IsInjective(s), NEW k \in 1..n, NEW l \in 1..n, t[k] = t[l] PROVE k = l
    <3>1. at(k) = at(l)
      BY <1>4, <1>6, <1>9, <2>1 DEF IsInjective
    <3>. QED
      BY <1>6, <3>1
  <2>. QED
    BY <1>9, <2>1 DEF IsInjective
<1>12. t = <<>> <=> ToSet(s) \ T = {}
  <2>1. ToSet(<<>>) = {}
    BY DEF ToSet
  <2>2. ASSUME t # <<>> PROVE ToSet(t) # {}
    <3>1. 1 \in DOMAIN t
      BY <1>8, <2>2
    <3>. QED
      BY <3>1 DEF ToSet
  <2>. QED
    BY <1>10, <2>1, <2>2
<1>. QED
  BY <1>8, <1>10, <1>11, <1>12 DEF t
---------------------------------------------------------------------------
(* Types *)

Plan     == [until : [Accounts -> Nat], order : Seq(Accounts), hits : Nat,
             cool : SUBSET Accounts, sick : SUBSET Accounts, blind : BOOLEAN]
Noted    == [retryAfter : Nat, cooldown : Nat, level : 0..BackoffMaxLevel]
Sight    == [cooling : SUBSET Accounts, usable : SUBSET Accounts,
             sick : SUBSET Accounts, well : SUBSET Accounts]
Busy     == {"calling", "success", "clear", "heal", "serving"} \cup Noting

Permutation(s) == s \in Seq(Accounts) /\ ToSet(s) = Accounts /\ IsInjective(s)

StoreTyped ==
  /\ now \in 0..MaxTime
  /\ until \in [Accounts -> Nat] /\ model \in [Accounts -> Nat]
  /\ level \in [Accounts -> 0..BackoffMaxLevel]
  /\ unhealthy \subseteq Probed
  /\ rotation \in [last : 0..Len(Priority) - 1, hits : 0..StickyLimit - 1]
  /\ torn \subseteq Accounts

\* A request that calls an account has one, and one that plans has an order.
RequestTyped ==
  /\ pc \in [Reqs -> Places] /\ loc \in [Reqs -> Plan] /\ plan \in [Reqs -> Seq(Accounts)]
  /\ fail \in [Reqs -> Noted] /\ plans \in 0..MaxPlans
  /\ \A r \in Reqs : pc[r] \in Busy => plan[r] # <<>>
  /\ \A r \in Reqs : pc[r] \in Planning => Permutation(loc[r].order)
  /\ \A r \in Reqs : pc[r] \notin Planning => loc[r] = NoLoc

Typed == StoreTyped /\ RequestTyped

LEMMA Sizes ==
  /\ Len(Priority) \in Nat \ {0} /\ DOMAIN Priority = 1..Len(Priority)
  /\ Accounts # {} /\ Permutation(Priority)
  /\ NoTimes \in [Accounts -> Nat] /\ NoLoc \in Plan /\ NoFail \in Noted
<1>1. Permutation(Priority) /\ Priority \in Seq(Accounts) /\ Priority # <<>>
  BY DispatchAssumption DEF Permutation
<1>2. Len(Priority) \in Nat \ {0} /\ DOMAIN Priority = 1..Len(Priority)
  BY <1>1
<1>3. Accounts # {}
  BY <1>1, <1>2
<1>4. NoTimes \in [Accounts -> Nat]
  BY DEF NoTimes
<1>5. NoFail \in Noted
  BY DispatchAssumption DEF NoFail, Noted
<1>6. <<>> \in Seq(Accounts)
  OBVIOUS
<1>7. NoLoc \in Plan
  BY <1>4, <1>6 DEF NoLoc, Plan
<1>. QED
  BY <1>1, <1>2, <1>3, <1>4, <1>5, <1>7

\* The rotation starts over at the end, so it goes through every account once.
LEMMA Rotated ==
  ASSUME NEW last \in 0..Len(Priority) - 1
  PROVE  Permutation([i \in 1..Len(Priority) |-> Priority[((last + i - 1) % Len(Priority)) + 1]])
<1>. DEFINE n == Len(Priority)
            at(i) == ((last + i - 1) % n) + 1
            t == [i \in 1..n |-> Priority[at(i)]]
<1>1. n \in Nat \ {0} /\ DOMAIN Priority = 1..n /\ last \in 0..n-1
  BY Sizes
<1>2. Priority \in Seq(Accounts) /\ ToSet(Priority) = Accounts /\ IsInjective(Priority)
  BY DispatchAssumption
<1>. HIDE DEF n
<1>3. ASSUME NEW i \in 1..n
      PROVE  at(i) = IF last + i <= n THEN last + i ELSE last + i - n
  <2>. DEFINE x == last + i - 1
  <2>1. x \in 0..(2 * n - 2)
    BY <1>1
  <2>2. CASE last + i <= n
    <3>1. x \in 0..(n - 1)
      BY <1>1, <2>2
    <3>2. x % n = x
      BY <1>1, <3>1
    <3>. QED
      BY <1>1, <2>2, <3>2
  <2>3. CASE ~ (last + i <= n)
    <3>1. x - n \in 0..(n - 1) /\ x = 1 * n + (x - n)
      BY <1>1, <2>3
    <3>2. x % n = x - n
      BY <1>1, <3>1
    <3>. QED
      BY <1>1, <2>3, <3>2
  <2>. QED
    BY <2>2, <2>3
<1>. HIDE DEF at
<1>4. \A i \in 1..n : at(i) \in 1..n
  BY <1>1, <1>3
<1>5. \A i, j \in 1..n : at(i) = at(j) => i = j
  BY <1>1, <1>3
<1>6. \A k \in 1..n : \E i \in 1..n : at(i) = k
  <2>. SUFFICES ASSUME NEW k \in 1..n PROVE \E i \in 1..n : at(i) = k
    OBVIOUS
  <2>. DEFINE i == IF k > last THEN k - last ELSE k - last + n
  <2>1. i \in 1..n /\ at(i) = k
    BY <1>1, <1>3
  <2>. QED
    BY <2>1
<1>7. t \in Seq(Accounts) /\ DOMAIN t = 1..n
  BY <1>1, <1>2, <1>4
<1>8. ToSet(t) = Accounts
  <2>1. ToSet(t) \subseteq Accounts
    BY <1>1, <1>2, <1>4 DEF ToSet
  <2>2. ASSUME NEW a \in Accounts PROVE a \in ToSet(t)
    <3>1. PICK k \in 1..n : Priority[k] = a
      BY <1>1, <1>2 DEF ToSet
    <3>2. PICK i \in 1..n : at(i) = k
      BY <1>6
    <3>. QED
      BY <3>1, <3>2, <1>7 DEF ToSet
  <2>. QED
    BY <2>1, <2>2
<1>9. IsInjective(t)
  BY <1>1, <1>2, <1>4, <1>5, <1>7 DEF IsInjective
<1>10. Permutation(t)
  BY <1>7, <1>8, <1>9 DEF Permutation
<1>. QED
  BY <1>10 DEF t, at, n

LEMMA FirstOfAll ==
  ASSUME NEW s, Permutation(s)
  PROVE  /\ s # <<>> /\ Head(s) \in Accounts
         /\ IndexOf(Head(s)) \in 1..Len(Priority)
<1>1. s \in Seq(Accounts) /\ ToSet(s) = Accounts
  BY DEF Permutation
<1>2. s # <<>>
  <2>1. ToSet(<<>>) = {}
    BY DEF ToSet
  <2>. QED
    BY <1>1, <2>1, Sizes
<1>3. Head(s) \in Accounts
  BY <1>1, <1>2
<1>4. \E i \in DOMAIN Priority : Priority[i] = Head(s)
  BY <1>3, DispatchAssumption DEF ToSet
<1>5. IndexOf(Head(s)) \in DOMAIN Priority
  BY <1>4 DEF IndexOf
<1>. QED
  BY <1>2, <1>3, <1>5, Sizes

\* The attempts are the accounts without those on a cooldown, and without the
\* unhealthy ones unless nothing else is left.
LEMMA AttemptsAre ==
  ASSUME NEW r, loc[r] \in Plan, Permutation(loc[r].order)
  PROVE  /\ Attempts(r) \in Seq(Accounts) /\ IsInjective(Attempts(r))
         /\ ToSet(Attempts(r)) = IF (Accounts \ loc[r].cool) \ loc[r].sick = {}
                                   THEN Accounts \ loc[r].cool
                                   ELSE (Accounts \ loc[r].cool) \ loc[r].sick
         /\ Attempts(r) = <<>> <=> Accounts \ loc[r].cool = {}
<1>. DEFINE all == loc[r].order
            c == Candidates(r)
            h == Without(c, loc[r].sick)
<1>1. all \in Seq(Accounts) /\ ToSet(all) = Accounts /\ IsInjective(all)
  BY DEF Permutation
<1>2. c = Without(all, loc[r].cool)
  BY DEF Candidates
<1>. HIDE DEF all, c
<1>3. /\ c \in Seq(Accounts) /\ ToSet(c) = Accounts \ loc[r].cool /\ IsInjective(c)
      /\ c = <<>> <=> Accounts \ loc[r].cool = {}
  BY <1>1, <1>2, WithoutKeeps
<1>4. /\ h \in Seq(Accounts) /\ ToSet(h) = (Accounts \ loc[r].cool) \ loc[r].sick
      /\ IsInjective(h)
      /\ h = <<>> <=> (Accounts \ loc[r].cool) \ loc[r].sick = {}
  BY <1>3, WithoutKeeps
<1>5. Attempts(r) = IF h = <<>> THEN c ELSE h
  BY DEF Attempts, c
<1>. HIDE DEF h
<1>6. CASE h = <<>>
  <2>1. Attempts(r) = c /\ (Accounts \ loc[r].cool) \ loc[r].sick = {}
    BY <1>4, <1>5, <1>6
  <2>. QED
    BY <1>3, <2>1
<1>7. CASE h # <<>>
  <2>1. Attempts(r) = h /\ (Accounts \ loc[r].cool) \ loc[r].sick # {}
    BY <1>4, <1>5, <1>7
  <2>2. Accounts \ loc[r].cool # {}
    BY <2>1
  <2>. QED
    BY <1>4, <1>7, <2>1, <2>2
<1>. QED
  BY <1>6, <1>7
---------------------------------------------------------------------------
(* The types, step by step *)

LEMMA InitTyped == Init => Typed
<1>. SUFFICES ASSUME Init PROVE Typed
  OBVIOUS
<1>1. StoreTyped
  BY Sizes, DispatchAssumption DEF Init, StoreTyped, FirstRotation
<1>2. RequestTyped
  <2>1. <<>> \in Seq(Accounts)
    OBVIOUS
  <2>. QED
    BY <2>1, Sizes, DispatchAssumption DEF Init, RequestTyped, Places, Busy, Planning, Noting
<1>. QED
  BY <1>1, <1>2 DEF Typed

\* A request that does not plan goes where it may, with an account if it calls
\* one, and without a plan being made.
LEMMA GoesOn ==
  ASSUME Typed, NEW r \in Reqs, pc[r] \notin Planning,
         NEW to \in Places \ Planning, pc' = [pc EXCEPT ![r] = to],
         UNCHANGED <<loc, plans>>, plan' \in [Reqs -> Seq(Accounts)],
         \A q \in Reqs \ {r} : plan'[q] = plan[q],
         to \in Busy => plan'[r] # <<>>, fail' \in [Reqs -> Noted]
  PROVE  RequestTyped'
BY DEF Typed, RequestTyped

\* A request plans on.
LEMMA PlansOn ==
  ASSUME Typed, NEW r \in Reqs, NEW to \in Planning, pc' = [pc EXCEPT ![r] = to],
         NEW l \in Plan, loc' = [loc EXCEPT ![r] = l], Permutation(l.order),
         UNCHANGED <<plan, fail>>, plans' \in 0..MaxPlans
  PROVE  RequestTyped'
<1>1. to \in Places /\ to \notin Busy
  BY DEF Places, Planning, Busy, Noting
<1>2. /\ pc' \in [Reqs -> Places] /\ loc' \in [Reqs -> Plan]
      /\ loc'[r] = l /\ pc'[r] = to
      /\ \A q \in Reqs \ {r} : loc'[q] = loc[q] /\ pc'[q] = pc[q]
  BY <1>1 DEF Typed, RequestTyped
<1>. QED
  BY <1>1, <1>2 DEF Typed, RequestTyped

LEMMA CurrentIs ==
  ASSUME Typed, NEW r \in Reqs, pc[r] \in Busy
  PROVE  Current(r) \in Accounts
<1>1. plan[r] \in Seq(Accounts) /\ plan[r] # <<>>
  BY DEF Typed, RequestTyped
<1>. QED
  BY <1>1 DEF Current

LEMMA PlacesApart ==
  /\ Busy \cap Planning = {} /\ Busy \subseteq Places /\ Planning \subseteq Places
  /\ "idle" \in Places /\ "idle" \notin Busy /\ "idle" \notin Planning
BY DEF Busy, Planning, Noting, Places

\* What each planning step leaves in loc[r].
LEMMA ListAccountsReads ==
  ASSUME Typed, NEW r \in Reqs, ListAccounts(r)
  PROVE  \E l \in Plan :
           /\ loc' = [loc EXCEPT ![r] = l] /\ l.order = Priority /\ l.until = until
           /\ l.cool = {} /\ l.sick = {}
<1>1. loc[r] = NoLoc /\ loc \in [Reqs -> Plan]
  BY PlacesApart DEF ListAccounts, Typed, RequestTyped
<1>2. until \in [Accounts -> Nat] /\ Priority \in Seq(Accounts)
  BY DispatchAssumption DEF Typed, StoreTyped
<1>. DEFINE l1 == [NoLoc EXCEPT !.until = until]
            l2 == [l1 EXCEPT !.order = Priority]
<1>3. loc' = [loc EXCEPT ![r] = l2]
  BY <1>1 DEF ListAccounts
<1>4. NoLoc.cool = {} /\ NoLoc.sick = {}
  BY DEF NoLoc
<1>5. l1 \in Plan /\ l1.until = until /\ l1.cool = {} /\ l1.sick = {}
  BY <1>2, <1>4, Sizes DEF Plan
<1>. HIDE DEF l1
<1>6. l2 \in Plan /\ l2.until = until /\ l2.order = Priority /\ l2.cool = {} /\ l2.sick = {}
  BY <1>2, <1>5 DEF Plan
<1>. HIDE DEF l2
<1>. QED
  BY <1>3, <1>6

LEMMA KeepOrderReads ==
  ASSUME Typed, NEW r \in Reqs, KeepOrder(r)
  PROVE  \E l \in Plan :
           /\ loc' = [loc EXCEPT ![r] = l] /\ l.order = loc[r].order
           /\ l.cool = OnCooldown(r) /\ l.sick = loc[r].sick
<1>1. loc[r] \in Plan /\ loc \in [Reqs -> Plan]
  BY DEF Typed, RequestTyped
<1>2. OnCooldown(r) \subseteq Accounts
  BY DEF OnCooldown
<1>. DEFINE l1 == [loc[r] EXCEPT !.until = NoTimes]
            l2 == [l1 EXCEPT !.cool = OnCooldown(r)]
<1>3. loc' = [loc EXCEPT ![r] = l2]
  BY <1>1 DEF KeepOrder
<1>4. l1 \in Plan /\ l1.order = loc[r].order /\ l1.sick = loc[r].sick
  BY <1>1, Sizes DEF Plan
<1>. HIDE DEF l1
<1>5. l2 \in Plan /\ l2.order = loc[r].order /\ l2.sick = loc[r].sick /\ l2.cool = OnCooldown(r)
  BY <1>2, <1>4 DEF Plan
<1>. HIDE DEF l2
<1>. QED
  BY <1>3, <1>5

LEMMA ReadRotationReads ==
  ASSUME Typed, NEW r \in Reqs, ReadRotation(r)
  PROVE  \E l \in Plan :
           /\ loc' = [loc EXCEPT ![r] = l] /\ Permutation(l.order)
           /\ l.cool = OnCooldown(r) /\ l.sick = {}
<1>1. PICK row \in {rotation, FirstRotation} :
        LET n == Len(Priority)
            rotated == [i \in 1..n |-> Priority[((row.last + i - 1) % n) + 1]]
        IN loc' = [loc EXCEPT ![r] = [NoLoc EXCEPT !.cool = OnCooldown(r), !.hits = row.hits,
                                                   !.order = rotated]]
  BY DEF ReadRotation
<1>. DEFINE rotated == [i \in 1..Len(Priority) |-> Priority[((row.last + i - 1) % Len(Priority)) + 1]]
<1>2. row.last \in 0..Len(Priority) - 1 /\ row.hits \in Nat
  <2>1. rotation.last \in 0..Len(Priority) - 1 /\ rotation.hits \in Nat
    BY DispatchAssumption DEF Typed, StoreTyped
  <2>2. FirstRotation.last = 0 /\ FirstRotation.hits = 0 /\ 0 \in 0..Len(Priority) - 1
    BY Sizes DEF FirstRotation
  <2>. QED
    BY <2>1, <2>2
<1>3. Permutation(rotated) /\ rotated \in Seq(Accounts)
  <2>1. Permutation(rotated)
    BY <1>2, Rotated
  <2>. HIDE DEF rotated
  <2>. QED
    BY <2>1 DEF Permutation
<1>4. OnCooldown(r) \subseteq Accounts /\ NoLoc.sick = {}
  BY DEF OnCooldown, NoLoc
<1>. DEFINE l1 == [NoLoc EXCEPT !.cool = OnCooldown(r)]
            l2 == [l1 EXCEPT !.hits = row.hits]
            l3 == [l2 EXCEPT !.order = rotated]
<1>5. loc' = [loc EXCEPT ![r] = l3]
  BY <1>1
<1>. HIDE DEF rotated
<1>6. l1 \in Plan /\ l1.cool = OnCooldown(r) /\ l1.sick = {}
  BY <1>4, Sizes DEF Plan
<1>. HIDE DEF l1
<1>7. l2 \in Plan /\ l2.cool = OnCooldown(r) /\ l2.sick = {}
  BY <1>2, <1>6 DEF Plan
<1>. HIDE DEF l2
<1>8. l3 \in Plan /\ l3.cool = OnCooldown(r) /\ l3.sick = {} /\ l3.order = rotated
  BY <1>3, <1>7 DEF Plan
<1>. HIDE DEF l3
<1>. QED
  BY <1>3, <1>5, <1>8

\* A lookup adds what it found, or leaves the plan blind.
LEMMA LookupsRead ==
  ASSUME Typed, NEW r \in Reqs
  PROVE  /\ ActiveCooldowns(r) =>
              \E l \in Plan :
                /\ loc' = [loc EXCEPT ![r] = l] /\ l.order = loc[r].order /\ l.sick = loc[r].sick
                /\ \/ l.cool = loc[r].cool \cup {a \in Accounts : model[a] > now}
                   \/ l.cool = loc[r].cool /\ l.blind
         /\ UnhealthyAccounts(r) =>
              \E l \in Plan :
                /\ loc' = [loc EXCEPT ![r] = l] /\ l.order = loc[r].order /\ l.cool = loc[r].cool
                /\ \/ l.sick = unhealthy /\ l.blind = loc[r].blind
                   \/ l.sick = loc[r].sick /\ l.blind
<1>1. loc[r] \in Plan /\ loc \in [Reqs -> Plan] /\ unhealthy \subseteq Accounts
  BY DispatchAssumption DEF Typed, RequestTyped, StoreTyped
<1>2. ASSUME ActiveCooldowns(r)
      PROVE  \E l \in Plan :
                /\ loc' = [loc EXCEPT ![r] = l] /\ l.order = loc[r].order /\ l.sick = loc[r].sick
                /\ \/ l.cool = loc[r].cool \cup {a \in Accounts : model[a] > now}
                   \/ l.cool = loc[r].cool /\ l.blind
  <2>. DEFINE found == {a \in Accounts : model[a] > now}
              l1 == [loc[r] EXCEPT !.cool = loc[r].cool \cup found]
              l2 == [loc[r] EXCEPT !.blind = TRUE]
  <2>1. found \subseteq Accounts
    OBVIOUS
  <2>2. loc' = [loc EXCEPT ![r] = l1] \/ loc' = [loc EXCEPT ![r] = l2]
    BY <1>1, <1>2 DEF ActiveCooldowns
  <2>. HIDE DEF found
  <2>3. /\ l1 \in Plan /\ l1.order = loc[r].order /\ l1.sick = loc[r].sick
        /\ l1.cool = loc[r].cool \cup found
    BY <1>1, <2>1 DEF Plan
  <2>4. /\ l2 \in Plan /\ l2.order = loc[r].order /\ l2.sick = loc[r].sick
        /\ l2.cool = loc[r].cool /\ l2.blind
    BY <1>1 DEF Plan
  <2>. HIDE DEF l1, l2
  <2>5. l1.cool = loc[r].cool \cup {a \in Accounts : model[a] > now}
    BY <2>3 DEF found
  <2>. QED
    BY <2>2, <2>3, <2>4, <2>5
<1>3. ASSUME UnhealthyAccounts(r)
      PROVE  \E l \in Plan :
                /\ loc' = [loc EXCEPT ![r] = l] /\ l.order = loc[r].order /\ l.cool = loc[r].cool
                /\ \/ l.sick = unhealthy /\ l.blind = loc[r].blind
                   \/ l.sick = loc[r].sick /\ l.blind
  <2>. DEFINE l1 == [loc[r] EXCEPT !.sick = unhealthy]
              l2 == [loc[r] EXCEPT !.blind = TRUE]
  <2>1. loc' = [loc EXCEPT ![r] = l1] \/ loc' = [loc EXCEPT ![r] = l2]
    BY <1>1, <1>3 DEF UnhealthyAccounts
  <2>2. l1 \in Plan /\ l1.order = loc[r].order /\ l1.cool = loc[r].cool /\ l1.sick = unhealthy
        /\ l1.blind = loc[r].blind
    BY <1>1 DEF Plan
  <2>3. /\ l2 \in Plan /\ l2.order = loc[r].order /\ l2.sick = loc[r].sick
        /\ l2.cool = loc[r].cool /\ l2.blind
    BY <1>1 DEF Plan
  <2>. HIDE DEF l1, l2
  <2>. QED
    BY <2>1, <2>2, <2>3
<1>. QED
  BY <1>2, <1>3

LEMMA PlanningTyped ==
  ASSUME Typed, NEW r \in Reqs,
         \/ ListAccounts(r) \/ KeepOrder(r) \/ ReadRotation(r) \/ WriteRotation(r)
         \/ ActiveCooldowns(r) \/ UnhealthyAccounts(r)
  PROVE  Typed'
<1>1. loc[r] \in Plan /\ loc \in [Reqs -> Plan]
  BY DEF Typed, RequestTyped
<1>2. /\ UNCHANGED <<now, until, level, model, unhealthy, plan, fail, torn>>
      /\ plans' \in 0..MaxPlans
      /\ pc[r] \in Planning => Permutation(loc[r].order) /\ plans' = plans
  BY DispatchAssumption DEF ListAccounts, KeepOrder, ReadRotation, WriteRotation, ActiveCooldowns,
     UnhealthyAccounts, store, Typed, RequestTyped, Planning
<1>3. \E to \in Planning : pc' = [pc EXCEPT ![r] = to]
  BY DEF ListAccounts, KeepOrder, ReadRotation, WriteRotation, ActiveCooldowns, UnhealthyAccounts,
     Go, Planning
<1>4. \E l \in Plan : loc' = [loc EXCEPT ![r] = l] /\ Permutation(l.order)
  <2>1. CASE ListAccounts(r)
    BY <2>1, ListAccountsReads, Sizes
  <2>2. CASE KeepOrder(r)
    <3>1. pc[r] \in Planning
      BY <2>2 DEF KeepOrder, Planning
    <3>. QED
      BY <1>2, <2>2, <3>1, KeepOrderReads
  <2>3. CASE ReadRotation(r)
    BY <2>3, ReadRotationReads
  <2>4. CASE WriteRotation(r)
    <3>1. pc[r] \in Planning /\ loc' = loc
      BY <2>4 DEF WriteRotation, Planning
    <3>2. loc' = [loc EXCEPT ![r] = loc[r]]
      BY <1>1, <3>1
    <3>. QED
      BY <1>1, <1>2, <3>1, <3>2
  <2>5. CASE ActiveCooldowns(r) \/ UnhealthyAccounts(r)
    <3>1. pc[r] \in Planning
      BY <2>5 DEF ActiveCooldowns, UnhealthyAccounts, Planning
    <3>2. \E l \in Plan : loc' = [loc EXCEPT ![r] = l] /\ l.order = loc[r].order
      BY <2>5, LookupsRead
    <3>. QED
      BY <1>2, <3>1, <3>2
  <2>. QED
    BY <2>1, <2>2, <2>3, <2>4, <2>5
<1>5. RequestTyped'
  BY <1>2, <1>3, <1>4, PlansOn
<1>6. rotation' \in [last : 0..Len(Priority) - 1, hits : 0..StickyLimit - 1]
  <2>1. CASE ~ WriteRotation(r)
    <3>1. rotation' = rotation
      BY <2>1 DEF ListAccounts, KeepOrder, ReadRotation, ActiveCooldowns, UnhealthyAccounts, store
    <3>. QED
      BY <3>1 DEF Typed, StoreTyped
  <2>2. CASE WriteRotation(r)
    <3>. DEFINE cursor == IndexOf(Head(loc[r].order)) - 1
                n == Len(Priority)
                hits == loc[r].hits
    <3>1. Permutation(loc[r].order) /\ hits \in Nat
      BY <1>1, <2>2 DEF WriteRotation, Typed, RequestTyped, Planning, Plan
    <3>2. n \in Nat \ {0} /\ StickyLimit \in Nat \ {0}
      BY Sizes, DispatchAssumption
    <3>3. cursor \in 0..n - 1
      <4>1. IndexOf(Head(loc[r].order)) \in 1..n
        BY <3>1, FirstOfAll
      <4>. QED
        BY <3>2, <4>1
    <3>4. rotation' = IF hits + 1 >= StickyLimit
                        THEN [last |-> (cursor + 1) % n, hits |-> 0]
                        ELSE [last |-> cursor, hits |-> hits + 1]
      BY <2>2 DEF WriteRotation, StickyReached
    <3>. HIDE DEF cursor, n, hits
    <3>5. (cursor + 1) % n \in 0..n - 1
      BY <3>2, <3>3
    <3>6. rotation' \in [last : 0..n - 1, hits : 0..StickyLimit - 1]
      BY <3>1, <3>2, <3>3, <3>4, <3>5
    <3>. QED
      BY <3>6 DEF n
  <2>. QED
    BY <2>1, <2>2
<1>7. StoreTyped'
  BY <1>2, <1>6 DEF Typed, StoreTyped
<1>. QED
  BY <1>5, <1>7 DEF Typed

LEMMA ResolveTyped ==
  ASSUME Typed, NEW r \in Reqs, Resolve(r)
  PROVE  Typed'
<1>1. Permutation(loc[r].order) /\ loc[r] \in Plan
  BY DEF Resolve, Typed, RequestTyped, Planning
<1>2. Attempts(r) \in Seq(Accounts)
  BY <1>1, AttemptsAre
<1>3. /\ plan' = [plan EXCEPT ![r] = Attempts(r)] /\ loc' = [loc EXCEPT ![r] = NoLoc]
      /\ pc' = [pc EXCEPT ![r] = IF Attempts(r) = <<>> THEN "idle" ELSE "calling"]
      /\ UNCHANGED <<now, until, level, model, unhealthy, rotation, fail, plans, torn>>
  BY DEF Resolve, Go, store
<1>4. StoreTyped'
  BY <1>3 DEF Typed, StoreTyped
<1>5. RequestTyped'
  <2>1. "calling" \in Places /\ "calling" \notin Planning
    BY DEF Places, Planning
  <2>. QED
    BY <1>2, <1>3, <2>1, Sizes, PlacesApart DEF Typed, RequestTyped
<1>. QED
  BY <1>4, <1>5 DEF Typed

LEMMA OutcomeTyped ==
  ASSUME Typed, NEW r \in Reqs,
         \/ Succeed(r) \/ ResetBackoffLevel(r) \/ ClearModelCooldown(r) \/ MarkHealthy(r)
  PROVE  Typed'
<1>1. pc[r] \in Busy /\ pc[r] \notin Planning
  BY DEF Succeed, ResetBackoffLevel, ClearModelCooldown, MarkHealthy, Busy, Planning
<1>2. Current(r) \in Accounts
  BY <1>1, CurrentIs
<1>3. PICK to \in {"success", "clear", "heal", "serving"} : pc' = [pc EXCEPT ![r] = to]
  BY DEF Succeed, ResetBackoffLevel, ClearModelCooldown, MarkHealthy, Go
<1>4. UNCHANGED <<now, rotation, loc, plan, fail, plans>>
  BY DEF Succeed, ResetBackoffLevel, ClearModelCooldown, MarkHealthy, store
<1>5. to \in Places \ Planning
  BY DEF Places, Planning
<1>6. RequestTyped'
  <2>1. plan' \in [Reqs -> Seq(Accounts)] /\ fail' \in [Reqs -> Noted] /\ plan'[r] # <<>>
    BY <1>1, <1>4 DEF Typed, RequestTyped
  <2>. QED
    BY <1>1, <1>3, <1>4, <1>5, <2>1, GoesOn
<1>7. StoreTyped'
  <2>0. 0 \in Nat /\ 0 \in 0..BackoffMaxLevel
    BY DispatchAssumption
  <2>1. /\ until' \in [Accounts -> Nat] /\ model' \in [Accounts -> Nat]
        /\ level' \in [Accounts -> 0..BackoffMaxLevel]
    <3>1. /\ \/ UNCHANGED <<until, level>>
             \/ /\ level' = [level EXCEPT ![Current(r)] = 0]
                /\ until' = [until EXCEPT ![Current(r)] = 0]
          /\ model' = model \/ model' = [model EXCEPT ![Current(r)] = 0]
      BY DEF Succeed, ResetBackoffLevel, ClearModelCooldown, MarkHealthy, store
    <3>2. /\ until \in [Accounts -> Nat] /\ model \in [Accounts -> Nat]
          /\ level \in [Accounts -> 0..BackoffMaxLevel]
      BY DEF Typed, StoreTyped
    <3>. QED
      BY <2>0, <3>1, <3>2
  <2>2. unhealthy' \subseteq Probed /\ torn' \subseteq Accounts
    BY DEF Succeed, ResetBackoffLevel, ClearModelCooldown, MarkHealthy, store, Typed, StoreTyped
  <2>. QED
    BY <1>4, <2>1, <2>2 DEF Typed, StoreTyped
<1>. QED
  BY <1>6, <1>7 DEF Typed

\* A failed stream keeps the account it ran on, a failed attempt all of them.
LEMMA KeptPlan ==
  ASSUME Typed, NEW r \in Reqs, pc[r] \in {"calling", "serving"},
         plan' = [plan EXCEPT ![r] = IF pc[r] = "serving" THEN <<Head(@)>> ELSE @]
  PROVE  /\ plan' \in [Reqs -> Seq(Accounts)] /\ plan'[r] # <<>>
         /\ \A q \in Reqs \ {r} : plan'[q] = plan[q]
<1>1. /\ plan \in [Reqs -> Seq(Accounts)] /\ plan[r] # <<>> /\ Current(r) \in Accounts
  BY CurrentIs DEF Typed, RequestTyped, Busy
<1>2. <<Head(plan[r])>> \in Seq(Accounts) /\ <<Head(plan[r])>> # <<>>
  BY <1>1 DEF Current
<1>. QED
  BY <1>1, <1>2

LEMMA FailTyped ==
  ASSUME Typed, NEW r \in Reqs, Fail(r) \/ FailUnnoted(r)
  PROVE  Typed'
<1>1. /\ pc[r] \in {"calling", "serving"} /\ UNCHANGED <<loc, plans>>
      /\ plan' = [plan EXCEPT ![r] = IF pc[r] = "serving" THEN <<Head(@)>> ELSE @]
      /\ UNCHANGED <<now, until, level, model, unhealthy, rotation, torn>>
  BY DEF Fail, FailUnnoted, store
<1>2. /\ plan' \in [Reqs -> Seq(Accounts)] /\ plan'[r] # <<>>
      /\ \A q \in Reqs \ {r} : plan'[q] = plan[q]
  BY <1>1, KeptPlan
<1>3. \E to \in {"failed", "cool", "next"} : pc' = [pc EXCEPT ![r] = to]
  BY DEF Fail, FailUnnoted, Go
<1>4. fail' \in [Reqs -> Noted]
  <2>1. fail \in [Reqs -> Noted]
    BY DEF Typed, RequestTyped
  <2>2. CASE Fail(r)
    <3>1. PICK ra \in RetryAfters, base \in {TransientCooldown, LongCooldown, Exponential} :
            fail' = [fail EXCEPT ![r].cooldown = base, ![r].retryAfter = ra]
      BY <2>2 DEF Fail
    <3>2. ra \in Nat /\ base \in Nat
      BY DispatchAssumption DEF Exponential
    <3>. DEFINE f1 == [fail[r] EXCEPT !.cooldown = base]
                f2 == [f1 EXCEPT !.retryAfter = ra]
    <3>3. fail' = [fail EXCEPT ![r] = f2]
      BY <2>1, <3>1
    <3>4. f1 \in Noted
      BY <2>1, <3>2 DEF Noted
    <3>. HIDE DEF f1
    <3>5. f2 \in Noted
      BY <3>2, <3>4 DEF Noted
    <3>. HIDE DEF f2
    <3>. QED
      BY <2>1, <3>3, <3>5
  <2>3. CASE FailUnnoted(r)
    BY <2>1, <2>3 DEF FailUnnoted
  <2>. QED
    BY <2>2, <2>3
<1>5. {"failed", "cool", "next"} \subseteq Places \ Planning /\ pc[r] \notin Planning
  BY <1>1 DEF Places, Planning, Noting
<1>6. RequestTyped'
  BY <1>1, <1>2, <1>3, <1>4, <1>5, GoesOn
<1>7. StoreTyped'
  BY <1>1 DEF Typed, StoreTyped
<1>. QED
  BY <1>6, <1>7 DEF Typed

LEMMA LevelTyped ==
  ASSUME Typed, NEW r \in Reqs, ReadLevel(r) \/ SetBackoffLevel(r)
  PROVE  Typed'
<1>1. /\ pc[r] \in {"failed", "raise"} /\ UNCHANGED <<loc, plan, plans>>
      /\ UNCHANGED <<now, until, model, unhealthy, rotation, torn>>
  BY DEF ReadLevel, SetBackoffLevel, store
<1>2. pc[r] \in Busy /\ pc[r] \notin Planning
  BY <1>1 DEF Busy, Noting, Planning
<1>3. Current(r) \in Accounts
  BY <1>2, CurrentIs
<1>4. fail \in [Reqs -> Noted] /\ level \in [Accounts -> 0..BackoffMaxLevel]
  BY DEF Typed, StoreTyped, RequestTyped
<1>5. fail' \in [Reqs -> Noted] /\ level' \in [Accounts -> 0..BackoffMaxLevel]
  <2>1. CASE ReadLevel(r)
    <3>. DEFINE up == Smaller(level[Current(r)] + 1, BackoffMaxLevel)
                cooldown == Smaller(BackoffBase * Pow2[up - 1], BackoffMax)
                f1 == [fail[r] EXCEPT !.level = up]
                f2 == [f1 EXCEPT !.cooldown = cooldown]
    <3>1. fail' = [fail EXCEPT ![r] = f2] /\ level' = level
      BY <1>4, <2>1 DEF ReadLevel, store
    <3>2. up \in 0..BackoffMaxLevel /\ up - 1 \in 0..BackoffMaxLevel
      BY <1>3, <1>4, DispatchAssumption DEF Smaller
    <3>3. cooldown \in Nat
      <4>1. Pow2[up - 1] \in Nat
        BY <3>2, PowersAreTyped
      <4>2. \A p \in Nat : BackoffBase * p \in Nat
        BY DispatchAssumption
      <4>. QED
        BY <4>1, <4>2, DispatchAssumption DEF Smaller
    <3>. HIDE DEF up, cooldown
    <3>4. f1 \in Noted
      BY <1>4, <3>2 DEF Noted
    <3>. HIDE DEF f1
    <3>5. f2 \in Noted
      BY <3>3, <3>4 DEF Noted
    <3>. HIDE DEF f2
    <3>. QED
      BY <1>4, <3>1, <3>5
  <2>2. CASE SetBackoffLevel(r)
    <3>. DEFINE f1 == [fail[r] EXCEPT !.level = 0]
    <3>1. fail' = [fail EXCEPT ![r] = f1] /\ level' = [level EXCEPT ![Current(r)] = fail[r].level]
      BY <1>4, <2>2 DEF SetBackoffLevel
    <3>2. f1 \in Noted /\ fail[r].level \in 0..BackoffMaxLevel
      <4>1. 0 \in 0..BackoffMaxLevel
        BY DispatchAssumption
      <4>2. fail[r] \in Noted
        BY <1>4
      <4>. QED
        BY <4>1, <4>2 DEF Noted
    <3>. HIDE DEF f1
    <3>. QED
      BY <1>3, <1>4, <3>1, <3>2
  <2>. QED
    BY <2>1, <2>2
<1>6. PICK to \in {"raise", "cool"} : pc' = [pc EXCEPT ![r] = to]
  BY DEF ReadLevel, SetBackoffLevel, Go
<1>7. to \in Places \ Planning
  BY DEF Places, Planning, Noting
<1>8. RequestTyped'
  <2>1. plan' \in [Reqs -> Seq(Accounts)] /\ plan'[r] # <<>>
    BY <1>1, <1>2 DEF Typed, RequestTyped
  <2>. QED
    BY <1>1, <1>2, <1>5, <1>6, <1>7, <2>1, GoesOn
<1>9. StoreTyped'
  BY <1>1, <1>5 DEF Typed, StoreTyped
<1>. QED
  BY <1>8, <1>9 DEF Typed

LEMMA CooldownTyped ==
  ASSUME Typed, NEW r \in Reqs, SetCooldown(r) \/ SetModelCooldown(r)
  PROVE  Typed'
<1>1. /\ pc[r] \in {"cool", "coolModel"} /\ UNCHANGED <<loc, plan, plans>>
      /\ UNCHANGED <<now, level, unhealthy, rotation, torn>>
  BY DEF SetCooldown, SetModelCooldown
<1>2. pc[r] \in Busy /\ pc[r] \notin Planning
  BY <1>1 DEF Busy, Noting, Planning
<1>3. Current(r) \in Accounts
  BY <1>2, CurrentIs
<1>4. now + Cooldown(r) \in Nat
  <2>1. fail[r] \in Noted /\ now \in Nat
    BY DispatchAssumption DEF Typed, StoreTyped, RequestTyped
  <2>2. Cooldown(r) \in Nat
    BY <2>1 DEF Cooldown, Larger, Noted
  <2>. QED
    BY <2>1, <2>2
<1>5. /\ until' \in [Accounts -> Nat] /\ model' \in [Accounts -> Nat]
      /\ fail' \in [Reqs -> Noted]
  BY <1>3, <1>4, Sizes DEF SetCooldown, SetModelCooldown, Typed, StoreTyped, RequestTyped
<1>6. PICK to \in {"coolModel", "next"} : pc' = [pc EXCEPT ![r] = to]
  BY DEF SetCooldown, SetModelCooldown, Go
<1>7. to \in Places \ Planning
  BY DEF Places, Planning, Noting
<1>8. RequestTyped'
  <2>1. plan' \in [Reqs -> Seq(Accounts)] /\ plan'[r] # <<>>
    BY <1>1, <1>2 DEF Typed, RequestTyped
  <2>. QED
    BY <1>1, <1>2, <1>5, <1>6, <1>7, <2>1, GoesOn
<1>9. StoreTyped'
  BY <1>1, <1>5 DEF Typed, StoreTyped
<1>. QED
  BY <1>8, <1>9 DEF Typed

LEMMA FallbackTyped ==
  ASSUME Typed, NEW r \in Reqs, Fallback(r)
  PROVE  Typed'
<1>1. /\ pc[r] = "next" /\ pc' = [pc EXCEPT ![r] = "calling"]
      /\ plan' = [plan EXCEPT ![r] = Tail(plan[r])] /\ Len(plan[r]) > 1
      /\ UNCHANGED <<now, until, level, model, unhealthy, rotation, loc, fail, plans, torn>>
  BY DEF Fallback, Go, store
<1>2. plan \in [Reqs -> Seq(Accounts)] /\ fail \in [Reqs -> Noted]
  BY DEF Typed, RequestTyped
<1>3. Tail(plan[r]) \in Seq(Accounts) /\ Tail(plan[r]) # <<>>
  <2>. DEFINE p == plan[r]
              n == Len(p)
  <2>1. p \in Seq(Accounts) /\ n \in Nat /\ n > 1
    BY <1>1, <1>2
  <2>. HIDE DEF p
  <2>2. p # <<>>
    BY <2>1
  <2>3. Tail(p) \in Seq(Accounts) /\ Len(Tail(p)) = n - 1
    BY <2>1, <2>2
  <2>. HIDE DEF n
  <2>4. n - 1 # 0 /\ Len(<<>>) = 0
    BY <2>1
  <2>. QED
    BY <2>3, <2>4 DEF p
<1>4. "calling" \in Places \ Planning /\ pc[r] \notin Planning
  BY <1>1 DEF Places, Planning
<1>5. RequestTyped'
  BY <1>1, <1>2, <1>3, <1>4, GoesOn
<1>6. StoreTyped'
  BY <1>1 DEF Typed, StoreTyped
<1>. QED
  BY <1>5, <1>6 DEF Typed

LEMMA WriteFailsTyped ==
  ASSUME Typed, NEW r \in Reqs, WriteFails(r)
  PROVE  Typed'
<1>1. /\ UNCHANGED <<now, until, level, model, unhealthy, rotation, loc, plan, fail, plans>>
      /\ pc[r] \in DOMAIN AfterWrite /\ pc' = [pc EXCEPT ![r] = AfterWrite[pc[r]]]
      /\ torn' = IF pc[r] = "cool" THEN torn \cup {Current(r)} ELSE torn
  BY DEF WriteFails, Go, store
<1>2. \/ pc[r] = "rotate" /\ AfterWrite[pc[r]] = "models"
      \/ /\ pc[r] \in Busy \ Planning /\ AfterWrite[pc[r]] \in Busy \ Planning
  BY <1>1 DEF AfterWrite, Busy, Noting, Planning
<1>3. pc[r] = "cool" => Current(r) \in Accounts
  BY CurrentIs DEF Busy, Noting
<1>4. StoreTyped'
  BY <1>1, <1>3 DEF Typed, StoreTyped
<1>5. RequestTyped'
  <2>1. CASE pc[r] = "rotate" /\ AfterWrite[pc[r]] = "models"
    <3>1. /\ loc[r] \in Plan /\ loc' = [loc EXCEPT ![r] = loc[r]] /\ Permutation(loc[r].order)
          /\ plans' \in 0..MaxPlans
      BY <1>1, <2>1 DEF Typed, RequestTyped, Planning
    <3>2. "models" \in Planning
      BY DEF Planning
    <3>. QED
      BY <1>1, <2>1, <3>1, <3>2, PlansOn
  <2>2. CASE pc[r] \in Busy \ Planning /\ AfterWrite[pc[r]] \in Busy \ Planning
    <3>. DEFINE to == AfterWrite[pc[r]]
    <3>1. to \in Places \ Planning
      BY <2>2, PlacesApart
    <3>2. plan' \in [Reqs -> Seq(Accounts)] /\ fail' \in [Reqs -> Noted] /\ plan'[r] # <<>>
      BY <1>1, <2>2 DEF Typed, RequestTyped
    <3>3. pc' = [pc EXCEPT ![r] = to]
      BY <1>1
    <3>. HIDE DEF to
    <3>. QED
      BY <1>1, <2>2, <3>1, <3>2, <3>3, GoesOn
  <2>. QED
    BY <1>2, <2>1, <2>2
<1>. QED
  BY <1>4, <1>5 DEF Typed

LEMMA EndTyped ==
  ASSUME Typed, NEW r \in Reqs, End(r)
  PROVE  Typed'
<1>1. /\ UNCHANGED <<now, until, level, model, unhealthy, rotation, plans>>
      /\ pc' = [pc EXCEPT ![r] = "idle"] /\ loc' = [loc EXCEPT ![r] = NoLoc]
      /\ plan' = [plan EXCEPT ![r] = <<>>] /\ fail' = [fail EXCEPT ![r] = NoFail]
      /\ torn' = IF pc[r] = "cool" THEN torn \cup {Current(r)} ELSE torn
  BY DEF End, store
<1>2. pc[r] = "cool" => Current(r) \in Accounts
  BY CurrentIs DEF Busy, Noting
<1>3. StoreTyped'
  BY <1>1, <1>2 DEF Typed, StoreTyped
<1>4. RequestTyped'
  <2>1. <<>> \in Seq(Accounts)
    OBVIOUS
  <2>. QED
    BY <1>1, <2>1, Sizes, PlacesApart DEF Typed, RequestTyped
<1>. QED
  BY <1>3, <1>4 DEF Typed

LEMMA AroundTyped ==
  ASSUME Typed, \/ ClearExpiredCooldowns \/ ClearProviderCooldowns
                \/ \E a \in Probed : RecordProbe(a)
                \/ Tick
                \/ UNCHANGED vars
  PROVE  Typed'
<1>1. UNCHANGED <<pc, loc, plan, fail, plans>>
  BY DEF ClearExpiredCooldowns, ClearProviderCooldowns, RecordProbe, Tick, vars, request
<1>2. RequestTyped'
  BY <1>1 DEF Typed, RequestTyped, Permutation
<1>3. CASE ClearExpiredCooldowns \/ ClearProviderCooldowns
  <2>1. PICK cleared \in SUBSET Accounts :
          /\ until' = Zeroed(until, cleared) /\ level' = Zeroed(level, cleared)
          /\ torn' = torn \ cleared
    BY <1>3 DEF ClearExpiredCooldowns, ClearProviderCooldowns, ForgetLevels
  <2>2. UNCHANGED <<now, model, unhealthy, rotation>>
    BY <1>3 DEF ClearExpiredCooldowns, ClearProviderCooldowns
  <2>3. 0 \in 0..BackoffMaxLevel
    BY DispatchAssumption
  <2>4. until' \in [Accounts -> Nat]
    BY <2>1 DEF Typed, StoreTyped, Zeroed
  <2>5. level' \in [Accounts -> 0..BackoffMaxLevel]
    BY <2>1, <2>3 DEF Typed, StoreTyped, Zeroed
  <2>6. torn' \subseteq Accounts
    BY <2>1 DEF Typed, StoreTyped
  <2>. QED
    BY <1>2, <2>2, <2>4, <2>5, <2>6 DEF Typed, StoreTyped
<1>4. CASE \E a \in Probed : RecordProbe(a)
  BY <1>2, <1>4 DEF RecordProbe, Typed, StoreTyped
<1>5. CASE Tick
  BY <1>2, <1>5, DispatchAssumption DEF Tick, Typed, StoreTyped, store
<1>6. CASE UNCHANGED vars
  BY <1>2, <1>6 DEF Typed, StoreTyped, vars, store
<1>. QED
  BY <1>3, <1>4, <1>5, <1>6

LEMMA NextTyped == Typed /\ [Next]_vars => Typed'
<1>. SUFFICES ASSUME Typed, [Next]_vars PROVE Typed'
  OBVIOUS
<1>1. ASSUME NEW r \in Reqs, Serve(r) PROVE Typed'
  BY <1>1, PlanningTyped, ResolveTyped, OutcomeTyped, FailTyped, LevelTyped, CooldownTyped,
     FallbackTyped, WriteFailsTyped, EndTyped DEF Serve
<1>2. CASE \/ ClearExpiredCooldowns \/ ClearProviderCooldowns
           \/ \E a \in Probed : RecordProbe(a)
           \/ Tick \/ UNCHANGED vars
  BY <1>2, AroundTyped
<1>. QED
  BY <1>1, <1>2 DEF Next

\* What Watch makes of the history.
LEMMA Watched ==
  ASSUME Watch, NEW r \in Reqs
  PROVE  /\ pc'[r] \notin Planning => seen'[r] = NoSeen
         /\ pc'[r] \in Planning =>
              /\ seen'[r] \in Sight
              /\ \A a \in seen'[r].cooling :
                   /\ until'[a] > now' \/ model'[a] > now'
                   /\ until'[a] = until[a] /\ model'[a] = model[a]
                   /\ pc[r] = "idle" \/ a \in seen[r].cooling
              /\ \A a \in seen'[r].usable :
                   /\ ~ (until'[a] > now') /\ ~ (model'[a] > now')
                   /\ pc[r] = "idle" \/ a \in seen[r].usable
              /\ \A a \in seen'[r].sick :
                   a \in unhealthy' /\ (pc[r] = "idle" \/ a \in seen[r].sick)
              /\ \A a \in seen'[r].well :
                   a \notin unhealthy' /\ (pc[r] = "idle" \/ a \in seen[r].well)
<1>1. CASE pc'[r] \notin Planning
  BY <1>1 DEF Watch
<1>2. CASE pc'[r] \in Planning
  <2>. DEFINE c == {a \in Accounts : (Cooling(a)' /\ until'[a] = until[a] /\ model'[a] = model[a])
                                       /\ (pc[r] = "idle" \/ a \in seen[r].cooling)}
              u == {a \in Accounts : ~Cooling(a)' /\ (pc[r] = "idle" \/ a \in seen[r].usable)}
              s == {a \in Accounts : a \in unhealthy' /\ (pc[r] = "idle" \/ a \in seen[r].sick)}
              w == {a \in Accounts : a \notin unhealthy' /\ (pc[r] = "idle" \/ a \in seen[r].well)}
  <2>1. seen'[r] = [cooling |-> c, usable |-> u, sick |-> s, well |-> w]
    BY <1>2 DEF Watch, Since
  <2>2. c \subseteq Accounts /\ u \subseteq Accounts /\ s \subseteq Accounts /\ w \subseteq Accounts
    OBVIOUS
  <2>3. \A a \in c : /\ until'[a] > now' \/ model'[a] > now'
                     /\ until'[a] = until[a] /\ model'[a] = model[a]
                     /\ pc[r] = "idle" \/ a \in seen[r].cooling
    BY DEF Cooling
  <2>4. \A a \in u : /\ ~ (until'[a] > now') /\ ~ (model'[a] > now')
                     /\ pc[r] = "idle" \/ a \in seen[r].usable
    BY DEF Cooling
  <2>5. \A a \in s : a \in unhealthy' /\ (pc[r] = "idle" \/ a \in seen[r].sick)
    OBVIOUS
  <2>6. \A a \in w : a \notin unhealthy' /\ (pc[r] = "idle" \/ a \in seen[r].well)
    OBVIOUS
  <2>. HIDE DEF c, u, s, w
  <2>7. /\ seen'[r] \in Sight /\ seen'[r].cooling = c /\ seen'[r].usable = u
        /\ seen'[r].sick = s /\ seen'[r].well = w
    BY <2>1, <2>2 DEF Sight
  <2>. QED
    BY <1>2, <2>3, <2>4, <2>5, <2>6, <2>7
<1>. QED
  BY <1>1, <1>2

LEMMA WatchTypes == Watch => seen' \in [Reqs -> Sight]
<1>. SUFFICES ASSUME Watch PROVE seen' \in [Reqs -> Sight]
  OBVIOUS
<1>1. NoSeen \in Sight
  BY DEF NoSeen, Sight
<1>2. DOMAIN seen' = Reqs /\ seen' = [r \in Reqs |-> seen'[r]]
  BY DEF Watch
<1>3. \A r \in Reqs : seen'[r] \in Sight
  BY <1>1, Watched
<1>. QED
  BY <1>2, <1>3

Sound == Typed /\ seen \in [Reqs -> Sight]

LEMMA SoundIsTyped == Sound => TypeOK
BY DEF Sound, Typed, StoreTyped, RequestTyped, TypeOK, Plan, Noted, Sight

\* Every variable keeps its type (Dispatcher.PlanWith, NoteFailure and
\* NoteSuccess): the cursor stays within the accounts and the hits below the
\* sticky limit although the row is read and written in two statements, a level
\* never passes its maximum, and a call or a note always has an account.
THEOREM Typing == Spec => []TypeOK
<1>1. Init => Sound
  <2>. SUFFICES ASSUME Init PROVE Sound
    OBVIOUS
  <2>1. NoSeen \in Sight
    BY DEF NoSeen, Sight
  <2>. QED
    BY <2>1, InitTyped DEF Sound, Init
<1>2. Sound /\ [Next]_vars => Sound'
  <2>1. CASE Next
    BY <2>1, NextTyped, WatchTypes DEF Sound, Next
  <2>2. CASE UNCHANGED vars
    BY <2>2, NextTyped DEF Sound, vars
  <2>. QED
    BY <2>1, <2>2
<1>. QED
  BY <1>1, <1>2, SoundIsTyped, PTL DEF Spec
---------------------------------------------------------------------------
(* What a planning request knows *)

\* Nothing is skipped yet; the listed times of an account that kept its
\* cooldown are current, and those of one that stayed usable are over.
Listed(r) ==
  pc[r] = "listed" =>
    /\ loc[r].cool = {} /\ loc[r].sick = {}
    /\ \A a \in seen[r].cooling : loc[r].until[a] = until[a]
    /\ \A a \in seen[r].usable : ~ (loc[r].until[a] > now)

\* No account that stayed usable is skipped.
Spared(r) ==
  pc[r] \in {"rotate", "models", "health", "resolve"} => loc[r].cool \cap seen[r].usable = {}

\* Of the accounts that kept their cooldown those on one of their own are
\* skipped first, the others once the models' cooldowns have been read.
Skipped(r) ==
  /\ pc[r] \in {"rotate", "models"} =>
       \A a \in seen[r].cooling : a \in loc[r].cool \/ ~ (until[a] > now)
  /\ pc[r] \in {"health", "resolve"} /\ ~loc[r].blind => seen[r].cooling \subseteq loc[r].cool

\* Of the unhealthy those that stayed so are known, and of the healthy none.
Sorted(r) ==
  /\ pc[r] \in Planning \ {"resolve"} => loc[r].sick = {}
  /\ pc[r] = "resolve" => loc[r].sick \cap seen[r].well = {}
  /\ pc[r] = "resolve" /\ ~loc[r].blind => seen[r].sick \subseteq loc[r].sick

Knows(r) == Listed(r) /\ Spared(r) /\ Skipped(r) /\ Sorted(r)

Planned == Sound /\ \A r \in Reqs : Knows(r)

LEMMA Clock ==
  ASSUME Typed, [Next]_vars
  PROVE  /\ now \in Nat /\ now' \in Nat /\ now <= now'
         /\ until \in [Accounts -> Nat] /\ until' \in [Accounts -> Nat]
         /\ model \in [Accounts -> Nat] /\ model' \in [Accounts -> Nat]
<1>1. now \in Nat /\ now' \in Nat
  BY NextTyped, DispatchAssumption DEF Typed, StoreTyped
<1>2. now' = now \/ now' = now + 1
  BY DEF Next, Serve, ListAccounts, KeepOrder, ReadRotation, WriteRotation, ActiveCooldowns,
     UnhealthyAccounts, Resolve, Succeed, ResetBackoffLevel, ClearModelCooldown, MarkHealthy, Fail,
     FailUnnoted, ReadLevel, SetBackoffLevel, SetCooldown, SetModelCooldown, Fallback, WriteFails,
     End, ClearExpiredCooldowns, ClearProviderCooldowns, RecordProbe, Tick, vars
<1>. QED
  BY <1>1, <1>2, NextTyped DEF Typed, StoreTyped

\* Whatever the others do meanwhile, a request that waits still knows it.
LEMMA OthersKeepKnows ==
  ASSUME Sound, [Next]_vars, Watch, NEW r \in Reqs, Knows(r),
         pc'[r] = pc[r], loc'[r] = loc[r]
  PROVE  Knows(r)'
<1>1. CASE pc[r] \notin Planning
  BY <1>1 DEF Knows, Listed, Spared, Skipped, Sorted, Planning
<1>2. CASE pc[r] \in Planning
  <2>1. /\ seen'[r] \in Sight /\ seen[r] \in Sight /\ pc[r] # "idle" /\ pc'[r] \in Planning
    BY <1>2, Watched DEF Sound, Planning
  <2>2. /\ seen'[r].cooling \subseteq seen[r].cooling /\ seen'[r].usable \subseteq seen[r].usable
        /\ seen'[r].sick \subseteq seen[r].sick /\ seen'[r].well \subseteq seen[r].well
        /\ \A a \in seen'[r].cooling : until'[a] = until[a] /\ a \in Accounts
        /\ \A a \in seen'[r].usable : a \in Accounts
    <3>1. seen'[r].cooling \subseteq Accounts /\ seen'[r].usable \subseteq Accounts
      BY <2>1 DEF Sight
    <3>. QED
      BY <2>1, <3>1, Watched
  <2>3. /\ now \in Nat /\ now' \in Nat /\ now <= now' /\ until \in [Accounts -> Nat]
        /\ loc[r] \in Plan
    BY Clock DEF Sound, Typed, RequestTyped
  <2>4. Listed(r)'
    <3>. SUFFICES ASSUME pc[r] = "listed" PROVE Listed(r)'
      BY DEF Listed
    <3>1. /\ loc[r].cool = {} /\ loc[r].sick = {}
          /\ \A a \in seen[r].cooling : loc[r].until[a] = until[a]
          /\ \A a \in seen[r].usable : ~ (loc[r].until[a] > now)
      BY DEF Knows, Listed
    <3>2. \A a \in seen'[r].cooling : loc'[r].until[a] = until'[a]
      BY <2>2, <3>1
    <3>3. \A a \in Accounts : loc[r].until[a] \in Nat
      BY <2>3 DEF Plan
    <3>4. \A a \in seen'[r].usable : ~ (loc'[r].until[a] > now')
      BY <2>2, <2>3, <3>1, <3>3
    <3>. QED
      BY <3>1, <3>2, <3>4 DEF Listed
  <2>5. Spared(r)'
    BY <2>2 DEF Knows, Spared
  <2>6. Skipped(r)'
    <3>1. ASSUME pc[r] \in {"rotate", "models"}, NEW a \in seen'[r].cooling
          PROVE  a \in loc'[r].cool \/ ~ (until'[a] > now')
      <4>1. a \in loc[r].cool \/ ~ (until[a] > now)
        BY <2>2, <3>1 DEF Knows, Skipped
      <4>2. until'[a] = until[a] /\ until[a] \in Nat
        BY <2>2, <2>3, <3>1
      <4>. QED
        BY <2>3, <4>1, <4>2
    <3>2. pc[r] \in {"health", "resolve"} /\ ~loc[r].blind => seen'[r].cooling \subseteq loc[r].cool
      BY <2>2 DEF Knows, Skipped
    <3>. QED
      BY <3>1, <3>2 DEF Skipped
  <2>7. Sorted(r)'
    BY <2>2 DEF Knows, Sorted
  <2>. QED
    BY <2>4, <2>5, <2>6, <2>7 DEF Knows
<1>. QED
  BY <1>1, <1>2

LEMMA ElsewhereKnows ==
  ASSUME NEW r \in Reqs, pc'[r] \notin Planning
  PROVE  Knows(r)'
BY DEF Knows, Listed, Spared, Skipped, Sorted, Planning

\* A statement of r changes nothing that another request has read.
LEMMA StatementsAreTheirOwn ==
  ASSUME Typed, NEW r \in Reqs, Serve(r), NEW q \in Reqs \ {r}
  PROVE  pc'[q] = pc[q] /\ loc'[q] = loc[q]
<1>1. pc \in [Reqs -> Places] /\ loc \in [Reqs -> Plan]
  BY DEF Typed, RequestTyped
<1>2. pc'[q] = pc[q]
  BY <1>1 DEF Serve, ListAccounts, KeepOrder, ReadRotation, WriteRotation, ActiveCooldowns,
     UnhealthyAccounts, Resolve, Succeed, ResetBackoffLevel, ClearModelCooldown, MarkHealthy, Fail,
     FailUnnoted, ReadLevel, SetBackoffLevel, SetCooldown, SetModelCooldown, Fallback, WriteFails,
     End, Go
<1>3. loc'[q] = loc[q]
  <2>1. CASE ListAccounts(r)
    BY <1>1, <2>1, ListAccountsReads
  <2>2. CASE KeepOrder(r)
    BY <1>1, <2>2, KeepOrderReads
  <2>3. CASE ReadRotation(r)
    BY <1>1, <2>3, ReadRotationReads
  <2>4. CASE ActiveCooldowns(r) \/ UnhealthyAccounts(r)
    BY <1>1, <2>4 DEF ActiveCooldowns, UnhealthyAccounts
  <2>5. CASE ~ (\/ ListAccounts(r) \/ KeepOrder(r) \/ ReadRotation(r)
                \/ ActiveCooldowns(r) \/ UnhealthyAccounts(r))
    BY <1>1, <2>5 DEF Serve, WriteRotation,
     Resolve, Succeed, ResetBackoffLevel, ClearModelCooldown, MarkHealthy, Fail,
     FailUnnoted, ReadLevel, SetBackoffLevel, SetCooldown, SetModelCooldown, Fallback, WriteFails,
     End
  <2>. QED
    BY <2>1, <2>2, <2>3, <2>4, <2>5
<1>. QED
  BY <1>2, <1>3

LEMMA ListAccountsKnows ==
  ASSUME Sound, Watch, NEW r \in Reqs, ListAccounts(r)
  PROVE  Knows(r)'
<1>1. pc'[r] = "listed" /\ UNCHANGED <<now, until, model>>
  BY DEF ListAccounts, Go, store, Sound, Typed, RequestTyped
<1>2. PICK l \in Plan : /\ loc' = [loc EXCEPT ![r] = l] /\ l.until = until
                        /\ l.cool = {} /\ l.sick = {}
  BY ListAccountsReads DEF Sound
<1>3. loc'[r] = l
  BY <1>2 DEF Sound, Typed, RequestTyped
<1>4. \A a \in seen'[r].usable : ~ (until'[a] > now')
  BY <1>1, Watched DEF Planning
<1>5. Listed(r)' /\ Spared(r)' /\ Skipped(r)' /\ Sorted(r)'
  BY <1>1, <1>2, <1>3, <1>4 DEF Listed, Spared, Skipped, Sorted
<1>. QED
  BY <1>5 DEF Knows

\* The listed times are compared with the clock.
LEMMA OrderedKnows ==
  ASSUME Sound, Watch, NEW r \in Reqs, Knows(r), KeepOrder(r) \/ ReadRotation(r)
  PROVE  Knows(r)'
<1>1. /\ pc[r] = "listed" /\ pc'[r] \in {"rotate", "models"} /\ UNCHANGED <<now, until, model>>
  BY DEF KeepOrder, ReadRotation, Go, store, Sound, Typed, RequestTyped
<1>2. \E l \in Plan : loc' = [loc EXCEPT ![r] = l] /\ l.cool = OnCooldown(r) /\ l.sick = {}
  <2>1. loc[r].sick = {}
    BY <1>1 DEF Knows, Listed
  <2>2. CASE KeepOrder(r)
    BY <2>1, <2>2, KeepOrderReads DEF Sound
  <2>3. CASE ReadRotation(r)
    BY <2>3, ReadRotationReads DEF Sound
  <2>. QED
    BY <2>2, <2>3
<1>3. loc'[r].cool = OnCooldown(r) /\ loc'[r].sick = {}
  BY <1>2 DEF Sound, Typed, RequestTyped
<1>4. /\ \A a \in seen'[r].cooling : a \in seen[r].cooling /\ a \in Accounts
      /\ \A a \in seen'[r].usable : a \in seen[r].usable
  <2>1. pc[r] # "idle" /\ pc'[r] \in Planning
    BY <1>1 DEF Planning
  <2>2. \A a \in seen'[r].cooling : a \in Accounts
    BY <2>1, Watched DEF Sight
  <2>. QED
    BY <2>1, <2>2, Watched
<1>5. /\ \A a \in seen[r].cooling : loc[r].until[a] = until[a]
      /\ \A a \in seen[r].usable : ~ (loc[r].until[a] > now)
  BY <1>1 DEF Knows, Listed
<1>6. \A a \in seen'[r].cooling : a \in loc'[r].cool \/ ~ (until'[a] > now')
  BY <1>1, <1>3, <1>4, <1>5 DEF OnCooldown
<1>7. loc'[r].cool \cap seen'[r].usable = {}
  BY <1>3, <1>4, <1>5 DEF OnCooldown
<1>8. Listed(r)' /\ Spared(r)' /\ Skipped(r)' /\ Sorted(r)'
  BY <1>1, <1>3, <1>6, <1>7 DEF Listed, Spared, Skipped, Sorted
<1>. QED
  BY <1>8 DEF Knows

\* The rotation is written, or is not, and the plan goes on.
LEMMA RotationKnows ==
  ASSUME Sound, Watch, NEW r \in Reqs, Knows(r),
         pc[r] = "rotate", pc'[r] = "models", loc'[r] = loc[r], UNCHANGED <<now, until, model>>
  PROVE  Knows(r)'
<1>1. /\ \A a \in seen'[r].cooling : a \in seen[r].cooling
      /\ \A a \in seen'[r].usable : a \in seen[r].usable
  BY Watched DEF Planning
<1>2. Listed(r)' /\ Spared(r)' /\ Skipped(r)' /\ Sorted(r)'
  BY <1>1 DEF Knows, Listed, Spared, Skipped, Sorted, Planning
<1>. QED
  BY <1>2 DEF Knows

\* An account that kept its cooldown is on one of its own or of the model.
LEMMA ActiveCooldownsKnows ==
  ASSUME Sound, Watch, NEW r \in Reqs, Knows(r), ActiveCooldowns(r)
  PROVE  Knows(r)'
<1>1. pc[r] = "models" /\ pc'[r] = "health" /\ UNCHANGED <<now, until, model>>
  BY DEF ActiveCooldowns, Go, store, Sound, Typed, RequestTyped
<1>. DEFINE found == {a \in Accounts : model[a] > now}
<1>2. PICK l \in Plan :
        /\ loc' = [loc EXCEPT ![r] = l] /\ l.order = loc[r].order /\ l.sick = loc[r].sick
        /\ \/ l.cool = loc[r].cool \cup {a \in Accounts : model[a] > now}
           \/ l.cool = loc[r].cool /\ l.blind
  BY LookupsRead DEF Sound
<1>3. loc'[r] = l
  BY <1>2 DEF Sound, Typed, RequestTyped
<1>4. /\ \A a \in seen'[r].cooling : /\ a \in seen[r].cooling /\ a \in Accounts
                                     /\ until[a] > now \/ model[a] > now
      /\ \A a \in seen'[r].usable : a \in seen[r].usable /\ ~ (model[a] > now)
  <2>1. pc[r] # "idle" /\ pc'[r] \in Planning
    BY <1>1 DEF Planning
  <2>2. \A a \in seen'[r].cooling : a \in Accounts
    BY <2>1, Watched DEF Sight
  <2>. QED
    BY <1>1, <2>1, <2>2, Watched
<1>5. l.cool \cap seen'[r].usable = {}
  BY <1>1, <1>2, <1>4 DEF Knows, Spared
<1>6. ~l.blind => seen'[r].cooling \subseteq l.cool
  <2>. SUFFICES ASSUME ~l.blind, NEW a \in seen'[r].cooling PROVE a \in l.cool
    OBVIOUS
  <2>1. l.cool = loc[r].cool \cup found
    BY <1>2
  <2>2. a \in loc[r].cool \/ ~ (until[a] > now)
    BY <1>1, <1>4 DEF Knows, Skipped
  <2>. QED
    BY <1>4, <2>1, <2>2
<1>7. l.sick = {}
  BY <1>1, <1>2 DEF Knows, Sorted, Planning
<1>. HIDE DEF found
<1>8. Listed(r)' /\ Spared(r)' /\ Skipped(r)' /\ Sorted(r)'
  BY <1>1, <1>3, <1>5, <1>6, <1>7 DEF Listed, Spared, Skipped, Sorted
<1>. QED
  BY <1>8 DEF Knows

LEMMA UnhealthyAccountsKnows ==
  ASSUME Sound, Watch, NEW r \in Reqs, Knows(r), UnhealthyAccounts(r)
  PROVE  Knows(r)'
<1>1. pc[r] = "health" /\ pc'[r] = "resolve" /\ UNCHANGED <<now, until, model, unhealthy>>
  BY DEF UnhealthyAccounts, Go, store, Sound, Typed, RequestTyped
<1>2. PICK l \in Plan : /\ loc' = [loc EXCEPT ![r] = l] /\ l.cool = loc[r].cool
                        /\ \/ l.sick = unhealthy /\ l.blind = loc[r].blind
                           \/ l.sick = loc[r].sick /\ l.blind
  BY LookupsRead DEF Sound
<1>3. loc'[r] = l
  BY <1>2 DEF Sound, Typed, RequestTyped
<1>4. /\ \A a \in seen'[r].cooling : a \in seen[r].cooling
      /\ \A a \in seen'[r].usable : a \in seen[r].usable
      /\ \A a \in seen'[r].sick : a \in unhealthy
      /\ \A a \in seen'[r].well : a \notin unhealthy
  BY <1>1, Watched DEF Planning
<1>5. loc[r].sick = {}
  BY <1>1 DEF Knows, Sorted, Planning
<1>6. l.sick \cap seen'[r].well = {} /\ (~l.blind => seen'[r].sick \subseteq l.sick)
  BY <1>2, <1>4, <1>5
<1>7. l.cool \cap seen'[r].usable = {}
  BY <1>1, <1>2, <1>4 DEF Knows, Spared
<1>8. ~l.blind => seen'[r].cooling \subseteq l.cool
  BY <1>1, <1>2, <1>4 DEF Knows, Skipped
<1>9. Listed(r)' /\ Spared(r)' /\ Skipped(r)' /\ Sorted(r)'
  BY <1>1, <1>3, <1>6, <1>7, <1>8 DEF Listed, Spared, Skipped, Sorted
<1>. QED
  BY <1>9 DEF Knows

LEMMA ServeKnows ==
  ASSUME Sound, Watch, NEW r \in Reqs, Serve(r), Knows(r)
  PROVE  Knows(r)'
<1>0. pc \in [Reqs -> Places] /\ loc \in [Reqs -> Plan]
  BY DEF Sound, Typed, RequestTyped
<1>1. CASE ListAccounts(r)
  BY <1>1, ListAccountsKnows
<1>2. CASE KeepOrder(r) \/ ReadRotation(r)
  BY <1>2, OrderedKnows
<1>3. CASE WriteRotation(r)
  BY <1>0, <1>3, RotationKnows DEF WriteRotation, Go
<1>4. CASE ActiveCooldowns(r)
  BY <1>4, ActiveCooldownsKnows
<1>5. CASE UnhealthyAccounts(r)
  BY <1>5, UnhealthyAccountsKnows
<1>6. CASE WriteFails(r)
  <2>1. /\ UNCHANGED <<now, until, model, loc>> /\ pc[r] \in DOMAIN AfterWrite
        /\ pc' = [pc EXCEPT ![r] = AfterWrite[pc[r]]]
    BY <1>6 DEF WriteFails, Go, store
  <2>2. \/ pc[r] = "rotate" /\ AfterWrite[pc[r]] = "models"
        \/ AfterWrite[pc[r]] \notin Planning
    BY <2>1 DEF AfterWrite, Planning
  <2>. QED
    BY <1>0, <2>1, <2>2, RotationKnows, ElsewhereKnows
<1>7. CASE \/ Resolve(r) \/ Succeed(r) \/ ResetBackoffLevel(r) \/ ClearModelCooldown(r)
           \/ MarkHealthy(r) \/ Fail(r) \/ FailUnnoted(r) \/ ReadLevel(r) \/ SetBackoffLevel(r)
           \/ SetCooldown(r) \/ SetModelCooldown(r) \/ Fallback(r) \/ End(r)
  <2>1. pc'[r] \notin Planning
    BY <1>0, <1>7 DEF Resolve, Succeed, ResetBackoffLevel, ClearModelCooldown, MarkHealthy, Fail,
       FailUnnoted, ReadLevel, SetBackoffLevel, SetCooldown, SetModelCooldown, Fallback, End, Go,
       Planning
  <2>. QED
    BY <2>1, ElsewhereKnows
<1>. QED
  BY <1>1, <1>2, <1>3, <1>4, <1>5, <1>6, <1>7 DEF Serve

LEMMA InitPlanned == Init => Planned
<1>. SUFFICES ASSUME Init PROVE Planned
  OBVIOUS
<1>1. NoSeen \in Sight
  BY DEF NoSeen, Sight
<1>2. Sound
  BY <1>1, InitTyped DEF Sound, Init
<1>3. \A r \in Reqs : Knows(r)
  BY DEF Init, Knows, Listed, Spared, Skipped, Sorted, Planning
<1>. QED
  BY <1>2, <1>3 DEF Planned

LEMMA NextPlanned == Planned /\ [Next]_vars => Planned'
<1>. SUFFICES ASSUME Planned, [Next]_vars PROVE Planned'
  OBVIOUS
<1>1. CASE UNCHANGED vars
  <2>1. UNCHANGED <<now, until, level, model, unhealthy, rotation,
                    pc, loc, plan, fail, plans, seen, torn>>
    BY <1>1 DEF vars, store, request
  <2>2. Sound'
    BY <1>1, NextTyped DEF Planned, Sound, vars
  <2>. QED
    BY <2>1, <2>2 DEF Planned, Knows, Listed, Spared, Skipped, Sorted
<1>2. CASE Next
  <2>1. Watch
    BY <1>2 DEF Next
  <2>2. Sound'
    BY <2>1, NextTyped, WatchTypes DEF Planned, Sound
  <2>3. ASSUME NEW r \in Reqs PROVE Knows(r)'
    <3>1. CASE pc'[r] = pc[r] /\ loc'[r] = loc[r]
      BY <2>1, <3>1, OthersKeepKnows DEF Planned
    <3>2. CASE ~ (pc'[r] = pc[r] /\ loc'[r] = loc[r])
      <4>1. \A q \in Reqs : Serve(q) => q = r
        BY <3>2, StatementsAreTheirOwn DEF Planned, Sound
      <4>2. \/ ClearExpiredCooldowns \/ ClearProviderCooldowns
            \/ \E a \in Probed : RecordProbe(a)
            \/ Tick
            => pc'[r] = pc[r] /\ loc'[r] = loc[r]
        BY DEF ClearExpiredCooldowns, ClearProviderCooldowns, RecordProbe, Tick, request
      <4>3. Serve(r)
        BY <1>2, <3>2, <4>1, <4>2 DEF Next
      <4>. QED
        BY <2>1, <4>3, ServeKnows DEF Planned
    <3>. QED
      BY <3>1, <3>2
  <2>. QED
    BY <2>2, <2>3 DEF Planned
<1>. QED
  BY <1>1, <1>2

LEMMA Resolved ==
  ASSUME Planned, [Next]_vars, NEW r \in Reqs, Resolves(r)
  PROVE  plan'[r] = Attempts(r)
<1>1. pc \in [Reqs -> Places] /\ plan \in [Reqs -> Seq(Accounts)]
  BY DEF Planned, Sound, Typed, RequestTyped
<1>2. pc'[r] # pc[r] /\ pc[r] = "resolve"
  BY DEF Resolves
<1>3. \A q \in Reqs : Serve(q) => q = r
  BY <1>2, StatementsAreTheirOwn DEF Planned, Sound
<1>4. \/ ClearExpiredCooldowns \/ ClearProviderCooldowns
      \/ \E a \in Probed : RecordProbe(a)
      \/ Tick \/ UNCHANGED vars
      => pc' = pc
  BY DEF ClearExpiredCooldowns, ClearProviderCooldowns, RecordProbe, Tick, request, vars
<1>5. Serve(r)
  BY <1>2, <1>3, <1>4 DEF Next
<1>6. Resolve(r)
  BY <1>2, <1>5 DEF Serve, ListAccounts, KeepOrder, ReadRotation, WriteRotation, ActiveCooldowns,
     UnhealthyAccounts, Succeed, ResetBackoffLevel, ClearModelCooldown, MarkHealthy, Fail,
     FailUnnoted, ReadLevel, SetBackoffLevel, SetCooldown, SetModelCooldown, Fallback, WriteFails,
     End, AfterWrite
<1>. QED
  BY <1>1, <1>6 DEF Resolve

\* What has been attempted, in terms of what was known.
LEMMA AttemptsKnown ==
  ASSUME Planned, NEW r \in Reqs, pc[r] = "resolve"
  PROVE  /\ ~loc[r].blind =>
              /\ ToSet(Attempts(r)) \cap seen[r].cooling = {}
              /\ seen[r].usable \cap seen[r].well # {} => ToSet(Attempts(r)) \cap seen[r].sick = {}
         /\ seen[r].usable \cap seen[r].well \subseteq ToSet(Attempts(r))
         /\ IsInjective(Attempts(r))
         /\ seen[r].usable # {} => Attempts(r) # <<>>
<1>. DEFINE l == loc[r]
            s == seen[r]
            t == ToSet(Attempts(r))
<1>1. /\ IsInjective(Attempts(r))
      /\ t = IF (Accounts \ l.cool) \ l.sick = {} THEN Accounts \ l.cool
                                                  ELSE (Accounts \ l.cool) \ l.sick
      /\ Attempts(r) = <<>> <=> Accounts \ l.cool = {}
  BY AttemptsAre DEF Planned, Sound, Typed, RequestTyped, Planning
<1>2. s.usable \subseteq Accounts
  BY DEF Planned, Sound, Sight
<1>3. /\ l.cool \cap s.usable = {} /\ l.sick \cap s.well = {}
      /\ ~l.blind => s.cooling \subseteq l.cool /\ s.sick \subseteq l.sick
  BY DEF Planned, Knows, Spared, Skipped, Sorted
<1>. HIDE DEF l, s, t
<1>4. \A a \in s.usable \cap s.well : a \in (Accounts \ l.cool) \ l.sick
  BY <1>2, <1>3
<1>5. t \subseteq Accounts \ l.cool
  BY <1>1
<1>6. s.usable \cap s.well # {} => t = (Accounts \ l.cool) \ l.sick
  BY <1>1, <1>4
<1>7. ~l.blind => t \cap s.cooling = {} /\ (s.usable \cap s.well # {} => t \cap s.sick = {})
  BY <1>3, <1>5, <1>6
<1>8. s.usable \cap s.well \subseteq t
  BY <1>4, <1>6
<1>9. s.usable # {} => Attempts(r) # <<>>
  BY <1>1, <1>2, <1>3
<1>. QED
  BY <1>1, <1>7, <1>8, <1>9 DEF l, s, t

\* Planning interleaves with any number of failures, successes, probes, sweeps
\* and other plans, and none of them makes it attempt an account that was on the
\* same cooldown all the time, nor an unhealthy one instead of a usable healthy
\* one (the reads and loops of Dispatcher.PlanWith).
THEOREM Avoids == Spec => PlanAvoids
<1>1. Planned /\ [Next]_vars =>
        \A r \in Reqs : (Resolves(r) /\ ~loc[r].blind) =>
          /\ ToSet(plan'[r]) \cap seen[r].cooling = {}
          /\ seen[r].usable \cap seen[r].well # {} => ToSet(plan'[r]) \cap seen[r].sick = {}
  <2>. SUFFICES ASSUME Planned, [Next]_vars, NEW r \in Reqs, Resolves(r), ~loc[r].blind
                PROVE  /\ ToSet(plan'[r]) \cap seen[r].cooling = {}
                       /\ seen[r].usable \cap seen[r].well # {}
                            => ToSet(plan'[r]) \cap seen[r].sick = {}
    OBVIOUS
  <2>1. plan'[r] = Attempts(r) /\ pc[r] = "resolve"
    BY Resolved DEF Resolves
  <2>. QED
    BY <2>1, AttemptsKnown
<1>. QED
  BY <1>1, InitPlanned, NextPlanned, PTL DEF Spec, PlanAvoids

\* An account that was usable and healthy all the time is attempted, no account
\* twice, and a plan is empty only if no account was usable all the time
\* (Dispatcher.PlanWith, whose rotation is read and written by every request).
THEOREM Completes == Spec => PlanComplete
<1>1. Planned /\ [Next]_vars =>
        \A r \in Reqs : Resolves(r) =>
          /\ seen[r].usable \cap seen[r].well \subseteq ToSet(plan'[r])
          /\ IsInjective(plan'[r])
          /\ seen[r].usable # {} => plan'[r] # <<>>
  <2>. SUFFICES ASSUME Planned, [Next]_vars, NEW r \in Reqs, Resolves(r)
                PROVE  /\ seen[r].usable \cap seen[r].well \subseteq ToSet(plan'[r])
                       /\ IsInjective(plan'[r])
                       /\ seen[r].usable # {} => plan'[r] # <<>>
    OBVIOUS
  <2>1. plan'[r] = Attempts(r) /\ pc[r] = "resolve"
    BY Resolved DEF Resolves
  <2>. QED
    BY <2>1, AttemptsKnown
<1>. QED
  BY <1>1, InitPlanned, NextPlanned, PTL DEF Spec, PlanComplete
---------------------------------------------------------------------------
(* Backoff levels *)

Failure == [retryAfter : Nat, cooldown : Nat, level : Nat]

\* The part of the types that the argument needs.
Shape ==
  /\ now \in Nat
  /\ until \in [Accounts -> Nat] /\ level \in [Accounts -> Nat]
  /\ pc \in [Reqs -> Places]
  /\ DOMAIN plan = Reqs /\ DOMAIN fail = Reqs

\* A failure is remembered only while it is noted, and has a positive
\* cooldown once the level has been read.
Priced ==
  \A r \in Reqs :
    /\ pc[r] \notin {"failed", "raise", "cool", "coolModel"} => fail[r] = NoFail
    /\ (pc[r] \in {"failed", "raise", "cool", "coolModel"} /\ Current(r) \in Accounts)
         => fail[r] \in Failure /\ (pc[r] # "failed" => fail[r].cooldown > 0)

Inv == Shape /\ Priced /\ LevelCovered

LEMMA InitInv == Init => Inv
<1>. SUFFICES ASSUME Init PROVE Inv
  OBVIOUS
<1>1. Shape
  BY DEF Init, Shape, Places
<1>2. Priced
  BY DEF Init, Priced
<1>3. LevelCovered
  BY DEF Init, LevelCovered
<1>. QED
  BY <1>1, <1>2, <1>3 DEF Inv

LEMMA NoFailType == NoFail \in Failure
  BY DEF NoFail, Failure

\* A step of r that changes neither levels nor cooldowns, nor notes a failure,
\* preserves the invariant.
LEMMA Elsewhere ==
  ASSUME Inv, NEW r \in Reqs, NEW to \in Places \ {"failed", "raise", "cool", "coolModel"},
         pc[r] # "cool", pc' = [pc EXCEPT ![r] = to],
         UNCHANGED <<now, until, level, torn>>,
         DOMAIN plan' = Reqs, \A s \in Reqs \ {r} : plan'[s] = plan[s],
         DOMAIN fail' = Reqs, \A s \in Reqs \ {r} : fail'[s] = fail[s],
         fail'[r] = NoFail
  PROVE  Inv'
<1>1. Shape'
  BY DEF Inv, Shape
<1>2. Priced'
  BY DEF Inv, Shape, Priced, Current
<1>3. LevelCovered'
  BY DEF Inv, Shape, LevelCovered, Current
<1>. QED
  BY <1>1, <1>2, <1>3 DEF Inv

LEMMA ListingAndReadingKeep ==
  ASSUME Inv, NEW r \in Reqs,
         \/ ListAccounts(r) \/ KeepOrder(r) \/ ReadRotation(r) \/ WriteRotation(r)
         \/ ActiveCooldowns(r) \/ UnhealthyAccounts(r)
  PROVE  Inv'
<1>1. PICK to \in {"listed", "rotate", "models", "health", "resolve"} : pc' = [pc EXCEPT ![r] = to]
  BY DEF ListAccounts, KeepOrder, ReadRotation, WriteRotation, ActiveCooldowns, UnhealthyAccounts, Go
<1>2. /\ UNCHANGED <<now, until, level, torn, plan, fail>>
      /\ pc[r] \in {"idle", "listed", "rotate", "models", "health"}
  BY DEF ListAccounts, KeepOrder, ReadRotation, WriteRotation, ActiveCooldowns, UnhealthyAccounts,
         store
<1>3. to \in Places \ {"failed", "raise", "cool", "coolModel"}
  BY DEF Places, Planning
<1>4. fail[r] = NoFail
  BY <1>2 DEF Inv, Priced
<1>. QED
  BY <1>1, <1>2, <1>3, <1>4, Elsewhere DEF Inv, Shape

LEMMA ResolvingAndMovingOnKeep ==
  ASSUME Inv, NEW r \in Reqs,
         \/ Resolve(r) \/ Succeed(r) \/ ClearModelCooldown(r) \/ MarkHealthy(r)
         \/ FailUnnoted(r) \/ SetModelCooldown(r) \/ Fallback(r)
  PROVE  Inv'
<1>1. PICK to \in {"idle", "calling", "success", "heal", "serving", "next"} :
        pc' = [pc EXCEPT ![r] = to]
  BY DEF Resolve, Succeed, ClearModelCooldown, MarkHealthy, FailUnnoted, SetModelCooldown,
         Fallback, Go
<1>2. to \in Places \ {"failed", "raise", "cool", "coolModel"}
  BY DEF Places, Noting
<1>3. UNCHANGED <<now, until, level, torn>> /\ pc[r] # "cool"
  BY DEF Resolve, Succeed, ClearModelCooldown, MarkHealthy, FailUnnoted, SetModelCooldown,
         Fallback, store
<1>4. DOMAIN plan' = Reqs /\ \A s \in Reqs \ {r} : plan'[s] = plan[s]
  BY DEF Resolve, Succeed, ClearModelCooldown, MarkHealthy, FailUnnoted, SetModelCooldown,
         Fallback, Inv, Shape
<1>5. /\ DOMAIN fail' = Reqs /\ \A s \in Reqs \ {r} : fail'[s] = fail[s]
      /\ fail'[r] = NoFail
  BY DEF Resolve, Succeed, ClearModelCooldown, MarkHealthy, FailUnnoted, SetModelCooldown,
         Fallback, Inv, Shape, Priced
<1>. QED
  BY <1>1, <1>2, <1>3, <1>4, <1>5, Elsewhere

\* A failure starts to be noted, its cooldown chosen or still to be computed.
LEMMA FailKeeps ==
  ASSUME Inv, NEW r \in Reqs, Fail(r)
  PROVE  Inv'
<1>1. PICK ra \in RetryAfters, base \in {TransientCooldown, LongCooldown, Exponential} :
        fail' = [fail EXCEPT ![r].cooldown = base, ![r].retryAfter = ra]
  BY DEF Fail
<1>2. ra \in Nat /\ base \in Nat
  BY DispatchAssumption DEF Exponential
<1>3. fail[r] = NoFail /\ pc[r] # "cool"
  BY DEF Fail, Inv, Priced
<1>4. /\ DOMAIN fail' = Reqs /\ \A s \in Reqs \ {r} : fail'[s] = fail[s]
      /\ fail'[r] \in Failure /\ fail'[r].cooldown = base
  <2>1. DOMAIN fail' = Reqs /\ \A s \in Reqs \ {r} : fail'[s] = fail[s]
    BY <1>1 DEF Inv, Shape
  <2>2. fail'[r] = [[NoFail EXCEPT !.cooldown = base] EXCEPT !.retryAfter = ra]
    BY <1>1, <1>3 DEF Inv, Shape
  <2>3. fail'[r] = [retryAfter |-> ra, cooldown |-> base, level |-> 0]
    BY <2>2 DEF NoFail
  <2>. QED
    BY <1>2, <2>1, <2>3 DEF Failure
<1>5. pc' = [pc EXCEPT ![r] = IF base = 0 THEN "failed" ELSE "cool"]
  BY <1>4 DEF Fail, Go, Exponential
<1>6. /\ UNCHANGED <<now, until, level, torn>> /\ DOMAIN plan' = Reqs
      /\ \A s \in Reqs \ {r} : plan'[s] = plan[s]
  BY DEF Fail, store, Inv, Shape
<1>7. Shape'
  BY <1>4, <1>5, <1>6 DEF Inv, Shape, Places, Noting
<1>8. Priced'
  BY <1>2, <1>4, <1>5, <1>6 DEF Inv, Shape, Priced, Current
<1>9. LevelCovered'
  BY <1>3, <1>5, <1>6 DEF Inv, Shape, LevelCovered, Current
<1>. QED
  BY <1>7, <1>8, <1>9 DEF Inv

\* The level that is read, one higher and capped, gives a positive cooldown.
LEMMA ReadLevelKeeps ==
  ASSUME Inv, NEW r \in Reqs, ReadLevel(r)
  PROVE  Inv'
<1>. DEFINE up == Smaller(level[Current(r)] + 1, BackoffMaxLevel)
            cooldown == Smaller(BackoffBase * Pow2[up - 1], BackoffMax)
<1>1. fail' = [fail EXCEPT ![r].level = up, ![r].cooldown = cooldown]
  BY DEF ReadLevel
<1>2. ASSUME Current(r) \in Accounts
      PROVE  up \in Nat /\ cooldown \in Nat /\ cooldown > 0
  <2>1. up \in Nat /\ up - 1 \in 0..BackoffMaxLevel
    BY <1>2, DispatchAssumption DEF Inv, Shape, Smaller
  <2>2. Pow2[up - 1] \in Nat \ {0}
    BY <2>1, PowersAreTyped
  <2>3. \A p \in Nat \ {0} : BackoffBase * p \in Nat /\ BackoffBase * p > 0
    BY DispatchAssumption
  <2>4. BackoffBase * Pow2[up - 1] \in Nat /\ BackoffBase * Pow2[up - 1] > 0
    BY <2>2, <2>3
  <2>. QED
    BY <2>1, <2>4, DispatchAssumption DEF Smaller
<1>. HIDE DEF up, cooldown
<1>3. /\ UNCHANGED <<now, until, level, plan, torn>>
      /\ pc[r] = "failed" /\ pc' = [pc EXCEPT ![r] = "raise"]
  BY DEF ReadLevel, Go, store
<1>4. DOMAIN fail' = Reqs /\ \A s \in Reqs \ {r} : fail'[s] = fail[s]
  BY <1>1 DEF Inv, Shape
<1>5. Current(r) \in Accounts => fail'[r] \in Failure /\ fail'[r].cooldown > 0
  BY <1>1, <1>2, <1>3 DEF Inv, Shape, Priced, Failure
<1>6. Shape'
  BY <1>3, <1>4 DEF Inv, Shape, Places, Noting
<1>7. Priced'
  BY <1>3, <1>4, <1>5 DEF Inv, Shape, Priced, Current
<1>8. LevelCovered'
  BY <1>3 DEF Inv, Shape, LevelCovered, Current
<1>. QED
  BY <1>6, <1>7, <1>8 DEF Inv

\* The level that is written belongs to a request about to set the cooldown.
LEMMA SetBackoffLevelKeeps ==
  ASSUME Inv, NEW r \in Reqs, SetBackoffLevel(r)
  PROVE  Inv'
<1>1. /\ UNCHANGED <<now, until, plan, torn>>
      /\ pc[r] = "raise" /\ pc' = [pc EXCEPT ![r] = "cool"]
      /\ level' = [level EXCEPT ![Current(r)] = fail[r].level]
      /\ fail' = [fail EXCEPT ![r].level = 0]
  BY DEF SetBackoffLevel, Go
<1>2. DOMAIN fail' = Reqs /\ \A s \in Reqs \ {r} : fail'[s] = fail[s]
  BY <1>1 DEF Inv, Shape
<1>3. ASSUME Current(r) \in Accounts
      PROVE  fail[r].level \in Nat /\ fail'[r] \in Failure /\ fail'[r].cooldown > 0
  <2>1. fail[r] \in Failure /\ fail[r].cooldown > 0
    BY <1>1, <1>3 DEF Inv, Priced
  <2>2. fail'[r] = [fail[r] EXCEPT !.level = 0]
    BY <1>1 DEF Inv, Shape
  <2>. QED
    BY <2>1, <2>2 DEF Failure
<1>4. level' \in [Accounts -> Nat]
  BY <1>1, <1>3 DEF Inv, Shape
<1>5. Shape'
  BY <1>1, <1>2, <1>4 DEF Inv, Shape, Places, Noting
<1>6. Priced'
  BY <1>1, <1>2, <1>3 DEF Inv, Shape, Priced, Current
<1>7. LevelCovered'
  BY <1>1 DEF Inv, Shape, LevelCovered, Current
<1>. QED
  BY <1>5, <1>6, <1>7 DEF Inv

\* The cooldown is positive, so the account's level is covered by it.
LEMMA SetCooldownKeeps ==
  ASSUME Inv, NEW r \in Reqs, SetCooldown(r)
  PROVE  Inv'
<1>1. /\ UNCHANGED <<now, level, plan, fail, torn>>
      /\ pc[r] = "cool" /\ pc' = [pc EXCEPT ![r] = "coolModel"]
      /\ until' = [until EXCEPT ![Current(r)] = now + Cooldown(r)]
  BY DEF SetCooldown, Go
<1>2. ASSUME Current(r) \in Accounts
      PROVE  now + Cooldown(r) \in Nat /\ now + Cooldown(r) > 0
  <2>1. fail[r] \in Failure /\ fail[r].cooldown > 0
    BY <1>1, <1>2 DEF Inv, Priced
  <2>2. Cooldown(r) \in Nat /\ Cooldown(r) > 0
    BY <2>1 DEF Cooldown, Larger, Failure
  <2>. QED
    BY <2>2 DEF Inv, Shape
<1>3. until' \in [Accounts -> Nat]
  BY <1>1, <1>2 DEF Inv, Shape
<1>4. Shape'
  BY <1>1, <1>3 DEF Inv, Shape, Places, Noting
<1>5. Priced'
  BY <1>1 DEF Inv, Shape, Priced, Current
<1>6. LevelCovered'
  <2>1. \A a \in Accounts : until[a] > 0 => until'[a] > 0
    BY <1>1, <1>2 DEF Inv, Shape
  <2>2. Current(r) \in Accounts => until'[Current(r)] > 0
    BY <1>1, <1>2 DEF Inv, Shape
  <2>. QED
    BY <1>1, <2>1, <2>2 DEF Inv, Shape, LevelCovered, Current
<1>. QED
  BY <1>4, <1>5, <1>6 DEF Inv

\* A success clears level and cooldown of its account together.
LEMMA ResetBackoffLevelKeeps ==
  ASSUME Inv, NEW r \in Reqs, ResetBackoffLevel(r)
  PROVE  Inv'
<1>1. /\ UNCHANGED <<now, plan, fail>>
      /\ pc[r] = "success" /\ pc' = [pc EXCEPT ![r] = "clear"]
      /\ level' = [level EXCEPT ![Current(r)] = 0]
      /\ until' = [until EXCEPT ![Current(r)] = 0]
      /\ torn' = torn \ {Current(r)}
  BY DEF ResetBackoffLevel, Go
<1>2. Shape'
  BY <1>1 DEF Inv, Shape, Places
<1>3. Priced'
  BY <1>1 DEF Inv, Shape, Priced, Current
<1>4. LevelCovered'
  BY <1>1 DEF Inv, Shape, LevelCovered, Current
<1>. QED
  BY <1>2, <1>3, <1>4 DEF Inv

\* A lost write of a cooldown leaves the account torn.
LEMMA WriteFailsKeeps ==
  ASSUME Inv, NEW r \in Reqs, WriteFails(r)
  PROVE  Inv'
<1>1. /\ UNCHANGED <<now, until, level, plan, fail>>
      /\ pc[r] \in DOMAIN AfterWrite /\ pc' = [pc EXCEPT ![r] = AfterWrite[pc[r]]]
      /\ torn' = IF pc[r] = "cool" THEN torn \cup {Current(r)} ELSE torn
  BY DEF WriteFails, Go, store
<1>2. \/ pc[r] = "rotate" /\ AfterWrite[pc[r]] = "models"
      \/ pc[r] = "success" /\ AfterWrite[pc[r]] = "clear"
      \/ pc[r] = "clear" /\ AfterWrite[pc[r]] = "heal"
      \/ pc[r] = "heal" /\ AfterWrite[pc[r]] = "serving"
      \/ pc[r] = "raise" /\ AfterWrite[pc[r]] = "cool"
      \/ pc[r] = "cool" /\ AfterWrite[pc[r]] = "coolModel"
  BY <1>1 DEF AfterWrite
<1>3. Shape'
  BY <1>1, <1>2 DEF Inv, Shape, Places, Planning, Noting
<1>4. Priced'
  BY <1>1, <1>2 DEF Inv, Shape, Priced, Current
<1>5. LevelCovered'
  BY <1>1, <1>2 DEF Inv, Shape, LevelCovered, Current
<1>. QED
  BY <1>3, <1>4, <1>5 DEF Inv

\* So does a client that leaves before it.
LEMMA EndKeeps ==
  ASSUME Inv, NEW r \in Reqs, End(r)
  PROVE  Inv'
<1>1. /\ UNCHANGED <<now, until, level>>
      /\ pc' = [pc EXCEPT ![r] = "idle"]
      /\ plan' = [plan EXCEPT ![r] = <<>>]
      /\ fail' = [fail EXCEPT ![r] = NoFail]
      /\ torn' = IF pc[r] = "cool" THEN torn \cup {Current(r)} ELSE torn
  BY DEF End, store
<1>2. Shape'
  BY <1>1 DEF Inv, Shape, Places
<1>3. Priced'
  BY <1>1 DEF Inv, Shape, Priced, Current
<1>4. LevelCovered'
  BY <1>1 DEF Inv, Shape, LevelCovered, Current
<1>. QED
  BY <1>2, <1>3, <1>4 DEF Inv

\* The sweeper and the reconnecting user clear levels with the cooldowns.
LEMMA ClearingKeeps ==
  ASSUME Inv, ClearExpiredCooldowns \/ ClearProviderCooldowns
  PROVE  Inv'
<1>1. PICK cleared \in SUBSET Accounts :
        /\ until' = Zeroed(until, cleared) /\ level' = Zeroed(level, cleared)
        /\ torn' = torn \ cleared
  BY DEF ClearExpiredCooldowns, ClearProviderCooldowns, ForgetLevels
<1>2. UNCHANGED <<now, pc, plan, fail>>
  BY DEF ClearExpiredCooldowns, ClearProviderCooldowns, request
<1>3. Shape'
  BY <1>1, <1>2 DEF Inv, Shape, Zeroed
<1>4. Priced'
  BY <1>2 DEF Inv, Priced, Current
<1>5. LevelCovered'
  BY <1>1, <1>2 DEF Inv, Shape, LevelCovered, Current, Zeroed
<1>. QED
  BY <1>3, <1>4, <1>5 DEF Inv

\* No level is left behind without the cooldown that the sweeper will clear it
\* with, for any interleaving of any number of requests (NoteFailure,
\* NoteSuccess and ClearExpiredCooldowns).
THEOREM LevelsCovered == Spec => []LevelCovered
<1>1. Init => Inv
  BY InitInv
<1>2. Inv /\ [Next]_vars => Inv'
  <2>. SUFFICES ASSUME Inv, [Next]_vars PROVE Inv'
    OBVIOUS
  <2>1. ASSUME NEW r \in Reqs, Serve(r) PROVE Inv'
    BY <2>1, ListingAndReadingKeep, ResolvingAndMovingOnKeep, FailKeeps, ReadLevelKeeps,
       SetBackoffLevelKeeps, SetCooldownKeeps, ResetBackoffLevelKeeps, WriteFailsKeeps,
       EndKeeps DEF Serve
  <2>2. CASE ClearExpiredCooldowns \/ ClearProviderCooldowns
    BY <2>2, ClearingKeeps
  <2>3. ASSUME NEW a \in Probed, RecordProbe(a) PROVE Inv'
    <3>1. UNCHANGED <<now, until, level, pc, plan, fail, torn>>
      BY <2>3 DEF RecordProbe, request
    <3>. QED
      BY <3>1 DEF Inv, Shape, Priced, LevelCovered, Current
  <2>4. CASE Tick
    <3>1. UNCHANGED <<until, level, pc, plan, fail, torn>> /\ now' = now + 1
      BY <2>4 DEF Tick, store, request
    <3>. QED
      BY <3>1 DEF Inv, Shape, Priced, LevelCovered, Current
  <2>5. CASE UNCHANGED vars
    <3>1. UNCHANGED <<now, until, level, pc, plan, fail, torn>>
      BY <2>5 DEF vars, store, request
    <3>. QED
      BY <3>1 DEF Inv, Shape, Priced, LevelCovered, Current
  <2>. QED
    BY <2>1, <2>2, <2>3, <2>4, <2>5 DEF Next
<1>3. Inv => LevelCovered
  BY DEF Inv
<1>. QED
  BY <1>1, <1>2, <1>3, PTL DEF Spec
=============================================================================

-------------------------- MODULE StreamRenderProofs --------------------------
(***************************************************************************)
(* Proofs about StreamRender.tla, with the filter of ThinkTags.tla and the  *)
(* renderers of StreamCodecs.tla, for any deltas, any number of chunks and  *)
(* of tool calls, and any choice of the dialects.                           *)
(*                                                                          *)
(* In turn: what the recursive functions of the model compute (folds,       *)
(* concatenations, the scan of a delta, the reference Visible), reached by  *)
(* the least number at which a claim would fail; what each renderer adds to *)
(* the client's text and calls; what each step does to the sanitizer and to *)
(* the client (Steps); the invariants TypeInv, TextInv, CallInv and FoldInv *)
(* with the theorems that follow from them; and, for the order of the       *)
(* events, the logs in which each event comes where it may (Log), what each *)
(* renderer does to such a log (Shape), and the invariant WellInv.          *)
(***************************************************************************)
EXTENDS StreamRender, FiniteSetTheorems, SequenceTheorems, TLAPS

---------------------------------------------------------------------------
(* Recursion over the natural numbers *)

\* Every nonempty set of numbers has a least element.
LEMMA Least ==
  ASSUME NEW N, N \subseteq Nat, N # {}
  PROVE  \E m \in N : \A n \in N : m <= n
<1>. DEFINE R == OpToRel(<, Nat)
<1>1. IsWellFoundedOn(R, Nat)
  BY NatLessThanWellFounded, Zenon
<1>2. \A x, y \in Nat : <<y, x>> \in R <=> y < x
  BY DEF OpToRel
<1>. HIDE DEF R
<1>3. PICK x \in N : \A y \in N : ~ (<<y, x>> \in R)
  BY <1>1, WFMin, Zenon
<1>4. ASSUME NEW y \in N PROVE x <= y
  <2>1. x \in Nat /\ y \in Nat
    BY <1>4
  <2>2. ~ (y < x)
    BY <1>2, <1>3, <2>1, Zenon
  <2>. QED
    BY <2>1, <2>2
<1>. QED
  BY <1>4

\* Induction, for a set of numbers instead of a predicate.
LEMMA Inductively ==
  ASSUME NEW P, 0 \in P, \A n \in Nat : n \in P => n + 1 \in P
  PROVE  Nat \subseteq P
<1>. SUFFICES ASSUME Nat \ P # {} PROVE FALSE
  OBVIOUS
<1>1. PICK m \in Nat \ P : \A n \in Nat \ P : m <= n
  BY Least, Zenon
<1>2. m # 0 /\ m - 1 \in Nat
  BY <1>1
<1>3. m - 1 \in P
  BY <1>1, <1>2
<1>. QED
  BY <1>1, <1>2, <1>3

\* A start and a step define a sequence of values.
LEMMA Iterated ==
  ASSUME NEW S, NEW s \in S, NEW F \in [S -> S]
  PROVE  \E g \in [Nat -> S] : g[0] = s /\ \A n \in Nat : g[n + 1] = F[g[n]]
<1>. DEFINE Begins(n, g) == g[0] = s /\ \A k \in 1..n : g[k] = F[g[k - 1]]
            Runs(n) == {g \in [0..n -> S] : Begins(n, g)}
<1>1. \A n \in Nat : Runs(n) # {}
  <2>. DEFINE P == {n \in Nat : Runs(n) # {}}
  <2>1. 0 \in P
    <3>. DEFINE g == [k \in 0..0 |-> s]
    <3>1. g \in [0..0 -> S] /\ g[0] = s /\ 1..0 = {}
      OBVIOUS
    <3>2. g \in Runs(0)
      BY <3>1
    <3>. QED
      BY <3>2
  <2>2. ASSUME NEW n \in Nat, n \in P PROVE n + 1 \in P
    <3>1. PICK g \in [0..n -> S] : Begins(n, g)
      BY <2>2
    <3>. DEFINE h == [k \in 0..n + 1 |-> IF k = n + 1 THEN F[g[n]] ELSE g[k]]
    <3>2. \A k \in 0..n : k \in 0..n + 1 /\ k # n + 1 /\ h[k] = g[k]
      OBVIOUS
    <3>3. n + 1 \in 0..n + 1 /\ h[n + 1] = F[g[n]] /\ F[g[n]] \in S
      OBVIOUS
    <3>4. h \in [0..n + 1 -> S]
      <4>1. \A k \in 0..n + 1 : k = n + 1 \/ k \in 0..n
        OBVIOUS
      <4>. QED
        BY <3>3, <4>1
    <3>. HIDE DEF h
    <3>5. h[0] = s
      BY <3>1, <3>2
    <3>6. ASSUME NEW k \in 1..n + 1 PROVE h[k] = F[h[k - 1]]
      <4>1. CASE k = n + 1
        BY <3>2, <3>3, <4>1
      <4>2. CASE k \in 1..n
        <5>1. k \in 0..n /\ k - 1 \in 0..n
          BY <4>2
        <5>. QED
          BY <3>1, <3>2, <4>2, <5>1
      <4>. QED
        BY <4>1, <4>2
    <3>7. h \in Runs(n + 1)
      BY <3>4, <3>5, <3>6
    <3>. QED
      BY <3>7
  <2>. HIDE DEF P
  <2>3. Nat \subseteq P
    BY <2>1, <2>2, Inductively
  <2>. QED
    BY <2>3 DEF P
\* Two runs agree as far as both go.
<1>2. ASSUME NEW m \in Nat, NEW n \in Nat, m <= n, NEW g \in Runs(m), NEW h \in Runs(n)
      PROVE  \A k \in 0..m : g[k] = h[k]
  <2>. DEFINE P == {k \in Nat : k <= m => g[k] = h[k]}
  <2>1. 0 \in P
    OBVIOUS
  <2>2. ASSUME NEW k \in Nat, k \in P PROVE k + 1 \in P
    <3>. SUFFICES ASSUME k + 1 <= m PROVE g[k + 1] = h[k + 1]
      OBVIOUS
    <3>1. k + 1 \in 1..m /\ k + 1 \in 1..n /\ (k + 1) - 1 = k
      BY <1>2
    <3>2. g[k + 1] = F[g[k]] /\ h[k + 1] = F[h[k]]
      BY <3>1
    <3>3. g[k] = h[k]
      BY <2>2
    <3>. QED
      BY <3>2, <3>3
  <2>. HIDE DEF P
  <2>3. Nat \subseteq P
    BY <2>1, <2>2, Inductively, Zenon
  <2>. QED
    BY <2>3 DEF P
<1>. DEFINE run(n) == CHOOSE g \in Runs(n) : TRUE
            all == [n \in Nat |-> run(n)[n]]
<1>3. \A n \in Nat : run(n) \in Runs(n)
  BY <1>1, Zenon
<1>4. \A n \in Nat : run(n) \in [0..n -> S] /\ Begins(n, run(n))
  BY <1>3, Zenon
<1>. HIDE DEF run, Runs
<1>5. all \in [Nat -> S]
  BY <1>4
<1>6. all[0] = s
  BY <1>4
<1>7. ASSUME NEW n \in Nat PROVE all[n + 1] = F[all[n]]
  <2>1. n + 1 \in 1..n + 1 /\ (n + 1) - 1 = n /\ n \in 0..n
    OBVIOUS
  <2>2. run(n + 1)[n + 1] = F[run(n + 1)[n]]
    BY <1>4, <2>1
  <2>3. run(n)[n] = run(n + 1)[n]
    BY <1>2, <1>3, <2>1
  <2>. QED
    BY <2>2, <2>3
<1>. QED
  BY <1>5, <1>6, <1>7, Zenon

\* F makes more of a function from S to T, and looks only at what is smaller.
Extends(S, T, M, F) ==
  /\ T # {} /\ M \in [S -> Nat] /\ F \in [[S -> T] -> [S -> T]]
  /\ \A g, h \in [S -> T] : \A s \in S :
       (\A x \in S : M[x] < M[s] => g[x] = h[x]) => F[g][s] = F[h][s]

\* Such a recursion defines a function.
LEMMA Recursion ==
  ASSUME NEW S, NEW T, NEW M, NEW F, Extends(S, T, M, F)
  PROVE  \E f \in [S -> T] : f = F[f]
<1>. DEFINE Fs == [S -> T]
            base == [s \in S |-> CHOOSE t \in T : TRUE]
<1>1. base \in Fs /\ F \in [Fs -> Fs]
  BY DEF Extends
<1>2. \A g, h \in Fs : \A s \in S :
        (\A x \in S : M[x] < M[s] => g[x] = h[x]) => F[g][s] = F[h][s]
  BY DEF Extends
<1>0. M \in [S -> Nat]
  BY DEF Extends
<1>. HIDE DEF base, Fs
<1>3. PICK g \in [Nat -> Fs] : g[0] = base /\ \A n \in Nat : g[n + 1] = F[g[n]]
  BY <1>1, Iterated
<1>. DEFINE Q == {n \in Nat : \A s \in S : M[s] < n => g[n][s] = g[n + 1][s]}
<1>4. 0 \in Q
  BY <1>0
<1>5. ASSUME NEW n \in Nat, n \in Q PROVE n + 1 \in Q
  <2>. SUFFICES ASSUME NEW s \in S, M[s] < n + 1
                PROVE  g[n + 1][s] = g[n + 1 + 1][s]
    OBVIOUS
  <2>1. \A x \in S : M[x] \in Nat
    BY <1>0
  <2>2. \A x \in S : M[x] < M[s] => M[x] < n
    BY <2>1
  <2>3. \A x \in S : M[x] < M[s] => g[n][x] = g[n + 1][x]
    BY <1>5, <2>2
  <2>4. n + 1 \in Nat /\ g[n] \in Fs /\ g[n + 1] \in Fs
    BY <1>3
  <2>5. F[g[n]][s] = F[g[n + 1]][s]
    BY <1>2, <2>3, <2>4
  <2>6. g[n + 1] = F[g[n]] /\ g[n + 1 + 1] = F[g[n + 1]]
    BY <1>3, <2>4
  <2>. QED
    BY <2>5, <2>6
<1>. HIDE DEF Q
<1>6. \A n \in Nat : \A s \in S : M[s] < n => g[n][s] = g[n + 1][s]
  <2>1. Nat \subseteq Q
    BY <1>4, <1>5, Inductively
  <2>. QED
    BY <2>1 DEF Q
<1>7. \A s \in S : \A n \in Nat : n > M[s] => g[n][s] = g[M[s] + 1][s]
  <2>. SUFFICES ASSUME NEW s \in S
                PROVE  \A n \in Nat : n > M[s] => g[n][s] = g[M[s] + 1][s]
    OBVIOUS
  <2>. DEFINE m == M[s]
              P == {k \in Nat : g[m + 1 + k][s] = g[m + 1][s]}
  <2>0. m \in Nat
    BY <1>0
  <2>. HIDE DEF m
  <2>1. 0 \in P
    BY <2>0
  <2>2. ASSUME NEW k \in Nat, k \in P PROVE k + 1 \in P
    <3>1. m + 1 + k \in Nat /\ (m + 1 + k) + 1 = m + 1 + (k + 1) /\ m < m + 1 + k
      BY <2>0
    <3>2. g[m + 1 + k][s] = g[(m + 1 + k) + 1][s]
      BY <1>6, <3>1 DEF m
    <3>. QED
      BY <2>2, <3>1, <3>2
  <2>. HIDE DEF P
  <2>3. Nat \subseteq P
    BY <2>1, <2>2, Inductively
  <2>4. ASSUME NEW n \in Nat, n > m PROVE g[n][s] = g[m + 1][s]
    <3>1. n - (m + 1) \in Nat /\ m + 1 + (n - (m + 1)) = n
      BY <2>0, <2>4
    <3>. QED
      BY <2>3, <3>1 DEF P
  <2>. QED
    BY <2>4 DEF m
<1>. DEFINE f == [s \in S |-> g[M[s] + 1][s]]
<1>8. f \in Fs
  <2>1. ASSUME NEW s \in S PROVE g[M[s] + 1][s] \in T
    <3>1. M[s] + 1 \in Nat
      BY <1>0
    <3>. QED
      BY <1>3, <3>1 DEF Fs
  <2>. QED
    BY <2>1 DEF Fs
<1>9. ASSUME NEW s \in S PROVE f[s] = F[f][s]
  <2>1. \A x \in S : M[x] \in Nat
    BY <1>0
  <2>2. \A x \in S : M[x] < M[s] => f[x] = g[M[s]][x]
    BY <1>7, <2>1
  <2>3. g[M[s]] \in Fs
    BY <1>3, <2>1
  <2>. HIDE DEF f
  <2>4. F[f][s] = F[g[M[s]]][s]
    BY <1>2, <1>8, <2>2, <2>3
  <2>5. g[M[s] + 1] = F[g[M[s]]]
    BY <1>3, <2>1
  <2>. QED
    BY <2>4, <2>5 DEF f
<1>10. F[f] \in Fs
  BY <1>1, <1>8
<1>11. f = F[f]
  <2>. HIDE DEF f
  <2>. QED
    BY <1>8, <1>9, <1>10 DEF Fs
<1>. QED
  BY <1>8, <1>11 DEF Fs

---------------------------------------------------------------------------
(* Sequences of sequences *)

\* FlattenSeq runs through the sequences once.
LEMMA Flattened ==
  ASSUME NEW D, NEW ss \in Seq(Seq(D))
  PROVE  \E f \in [0..Len(ss) -> Seq(D)] :
           /\ f[0] = <<>>
           /\ \A i \in 1..Len(ss) : f[i] = f[i - 1] \o ss[i]
           /\ FlattenSeq(ss) = f[Len(ss)]
<1>. DEFINE n == Len(ss)
            S == 1..n
            T == Seq(D)
<1>1. n \in Nat /\ ss \in [S -> T] /\ <<>> \in T
  OBVIOUS
<1>2. \A s, t \in T : s \o t \in T /\ <<>> \o s = s
  OBVIOUS
<1>3. CASE n = 0
  <2>. DEFINE f == [i \in 0..n |-> <<>>]
  <2>1. ss = <<>> /\ FlattenSeq(ss) = <<>>
    BY <1>3 DEF FlattenSeq
  <2>2. f \in [0..n -> T] /\ f[0] = <<>> /\ f[n] = <<>> /\ S = {}
    BY <1>1, <1>3
  <2>. HIDE DEF f
  <2>. QED
    BY <2>1, <2>2
<1>4. CASE n # 0
  <2>. DEFINE M == [i \in S |-> i]
              F == [g \in [S -> T] |-> [i \in S |-> IF i = 1 THEN ss[i] ELSE g[i - 1] \o ss[i]]]
  <2>1. M \in [S -> Nat] /\ \A i \in S : M[i] = i
    OBVIOUS
  <2>2. \A i \in S : i # 1 => i - 1 \in S
    OBVIOUS
  <2>. HIDE DEF S, T
  <2>3. F \in [[S -> T] -> [S -> T]]
    BY <1>1, <1>2, <2>2
  <2>4. \A g \in [S -> T] : \A i \in S : F[g][i] = IF i = 1 THEN ss[i] ELSE g[i - 1] \o ss[i]
    OBVIOUS
  <2>5. \A i \in S : i # 1 => M[i - 1] < M[i]
    BY <2>1, <2>2 DEF S
  <2>6. \A g, h \in [S -> T] : \A i \in S :
           (\A x \in S : M[x] < M[i] => g[x] = h[x]) => F[g][i] = F[h][i]
    <3>. HIDE DEF M, F
    <3>. QED
      BY <2>2, <2>4, <2>5
  <2>7. \E g \in [S -> T] : g = F[g]
    <3>1. Extends(S, T, M, F)
      <4>. HIDE DEF M, F
      <4>. QED
        BY <1>1, <2>1, <2>3, <2>6, Zenon DEF Extends
    <3>. HIDE DEF M, F, T
    <3>. QED
      BY <3>1, Recursion
  <2>8. PICK g : g = [i \in S |-> IF i = 1 THEN ss[i] ELSE g[i - 1] \o ss[i]]
    BY <2>7, Zenon
  <2>. DEFINE h == CHOOSE h : h = [i \in S |-> IF i = 1 THEN ss[i] ELSE h[i - 1] \o ss[i]]
  <2>9. h = [i \in S |-> IF i = 1 THEN ss[i] ELSE h[i - 1] \o ss[i]]
    BY <2>8, Zenon
  <2>10. FlattenSeq(ss) = h[n]
    BY <1>4 DEF FlattenSeq, S
  <2>. HIDE DEF h
  <2>. DEFINE P == {k \in Nat : k + 1 \in S => h[k + 1] \in T}
  <2>11. 0 \in P
    BY <1>1, <2>9
  <2>12. ASSUME NEW k \in Nat, k \in P PROVE k + 1 \in P
    <3>. SUFFICES ASSUME k + 1 + 1 \in S PROVE h[k + 1 + 1] \in T
      OBVIOUS
    <3>1. k + 1 \in S /\ k + 1 + 1 # 1 /\ (k + 1 + 1) - 1 = k + 1
      BY DEF S
    <3>2. h[k + 1 + 1] = h[k + 1] \o ss[k + 1 + 1]
      BY <2>9, <3>1, Zenon
    <3>. QED
      BY <1>1, <1>2, <2>12, <3>1, <3>2
  <2>. HIDE DEF P
  <2>13. Nat \subseteq P
    BY <2>11, <2>12, Inductively, Zenon
  <2>14. ASSUME NEW i \in S PROVE h[i] \in T
    <3>1. i - 1 \in Nat /\ (i - 1) + 1 = i
      BY DEF S
    <3>. QED
      BY <2>13, <3>1 DEF P
  <2>. DEFINE f == [i \in 0..n |-> IF i = 0 THEN <<>> ELSE h[i]]
  <2>15. \A i \in 0..n : i = 0 \/ i \in S
    BY <1>1 DEF S
  <2>16. f \in [0..n -> T] /\ f[0] = <<>>
    BY <1>1, <2>14, <2>15
  <2>17. ASSUME NEW i \in S PROVE f[i] = f[i - 1] \o ss[i]
    <3>1. i \in 0..n /\ i - 1 \in 0..n /\ i # 0 /\ (i # 1 => i - 1 # 0)
      BY <1>1 DEF S
    <3>2. f[i] = h[i]
      BY <3>1
    <3>3. CASE i = 1
      BY <1>1, <1>2, <2>9, <3>1, <3>2, <3>3
    <3>4. CASE i # 1
      BY <2>9, <3>1, <3>2, <3>4, Zenon
    <3>. QED
      BY <3>3, <3>4, Zenon
  <2>18. f[n] = h[n]
    BY <1>1, <1>4
  <2>. HIDE DEF f
  <2>. QED
    BY <2>10, <2>16, <2>17, <2>18, Zenon DEF S, T
<1>. QED
  BY <1>3, <1>4, Zenon

LEMMA FlattenType ==
  ASSUME NEW D, NEW ss \in Seq(Seq(D))
  PROVE  FlattenSeq(ss) \in Seq(D) /\ (ss = <<>> => FlattenSeq(ss) = <<>>)
<1>1. PICK f \in [0..Len(ss) -> Seq(D)] :
        /\ f[0] = <<>>
        /\ \A i \in 1..Len(ss) : f[i] = f[i - 1] \o ss[i]
        /\ FlattenSeq(ss) = f[Len(ss)]
  BY Flattened, Zenon
<1>2. Len(ss) \in 0..Len(ss)
  OBVIOUS
<1>. QED
  BY <1>1, <1>2

LEMMA FlattenConcat ==
  ASSUME NEW D, NEW ss \in Seq(Seq(D)), NEW tt \in Seq(Seq(D))
  PROVE  FlattenSeq(ss \o tt) = FlattenSeq(ss) \o FlattenSeq(tt)
<1>. DEFINE m == Len(ss)
            n == Len(tt)
            T == Seq(D)
<1>1. /\ m \in Nat /\ n \in Nat /\ ss \o tt \in Seq(T) /\ Len(ss \o tt) = m + n
      /\ \A i \in 1..m : (ss \o tt)[i] = ss[i]
      /\ \A i \in 1..n : (ss \o tt)[m + i] = tt[i]
      /\ \A i \in 1..n : tt[i] \in T
  OBVIOUS
<1>2. PICK f \in [0..m -> T] :
        f[0] = <<>> /\ (\A i \in 1..m : f[i] = f[i - 1] \o ss[i]) /\ FlattenSeq(ss) = f[m]
  BY Flattened, Zenon
<1>3. PICK h \in [0..n -> T] :
        h[0] = <<>> /\ (\A i \in 1..n : h[i] = h[i - 1] \o tt[i]) /\ FlattenSeq(tt) = h[n]
  BY Flattened, Zenon
<1>4. PICK g \in [0..m + n -> T] :
        /\ g[0] = <<>> /\ (\A i \in 1..m + n : g[i] = g[i - 1] \o (ss \o tt)[i])
        /\ FlattenSeq(ss \o tt) = g[m + n]
  <2>. DEFINE both == ss \o tt
  <2>1. both \in Seq(Seq(D)) /\ Len(both) = m + n
    BY <1>1
  <2>. HIDE DEF both, m, n
  <2>2. PICK g \in [0..Len(both) -> Seq(D)] :
          /\ g[0] = <<>> /\ (\A i \in 1..Len(both) : g[i] = g[i - 1] \o both[i])
          /\ FlattenSeq(both) = g[Len(both)]
    BY <2>1, Flattened, Zenon
  <2>. QED
    BY <2>1, <2>2, Zenon DEF both
<1>. HIDE DEF m, n, T
<1>. DEFINE P == {i \in Nat : i <= m => g[i] = f[i]}
<1>5. 0 \in P
  BY <1>2, <1>4
<1>6. ASSUME NEW i \in Nat, i \in P PROVE i + 1 \in P
  <2>. SUFFICES ASSUME i + 1 <= m PROVE g[i + 1] = f[i + 1]
    OBVIOUS
  <2>1. i + 1 \in 1..m /\ i + 1 \in 1..m + n /\ (i + 1) - 1 = i /\ i <= m
    BY <1>1
  <2>2. g[i + 1] = g[i] \o (ss \o tt)[i + 1] /\ f[i + 1] = f[i] \o ss[i + 1]
    BY <1>2, <1>4, <2>1, Zenon
  <2>. QED
    BY <1>1, <1>6, <2>1, <2>2, Zenon
<1>7. g[m] = f[m]
  <2>. HIDE DEF P
  <2>1. Nat \subseteq P
    BY <1>5, <1>6, Inductively, Zenon
  <2>. QED
    BY <1>1, <2>1 DEF P
<1>. DEFINE Q == {i \in Nat : i <= n => g[m + i] = f[m] \o h[i]}
<1>8. 0 \in Q
  <2>1. f[m] \in T /\ m + 0 = m
    BY <1>1, <1>2
  <2>2. f[m] \o <<>> = f[m]
    BY <2>1 DEF T
  <2>. QED
    BY <1>3, <1>7, <2>1, <2>2, Zenon
<1>9. ASSUME NEW i \in Nat, i \in Q PROVE i + 1 \in Q
  <2>. SUFFICES ASSUME i + 1 <= n PROVE g[m + (i + 1)] = f[m] \o h[i + 1]
    BY <1>1 DEF Q
  <2>1. /\ i + 1 \in 1..n /\ m + (i + 1) \in 1..m + n /\ (i + 1) - 1 = i /\ i <= n
        /\ (m + (i + 1)) - 1 = m + i /\ i \in 0..n /\ m \in 0..m
    BY <1>1
  <2>2. g[m + (i + 1)] = g[m + i] \o (ss \o tt)[m + (i + 1)] /\ h[i + 1] = h[i] \o tt[i + 1]
    BY <1>3, <1>4, <2>1, Zenon
  <2>3. g[m + (i + 1)] = (f[m] \o h[i]) \o tt[i + 1]
    BY <1>1, <1>9, <2>1, <2>2, Zenon
  <2>4. f[m] \in Seq(D) /\ h[i] \in Seq(D) /\ tt[i + 1] \in Seq(D)
    BY <1>1, <1>2, <1>3, <2>1, Zenon DEF T
  <2>5. (f[m] \o h[i]) \o tt[i + 1] = f[m] \o (h[i] \o tt[i + 1])
    <3>1. \A r, s, t \in Seq(D) : (r \o s) \o t = r \o (s \o t)
      BY ConcatAssociative
    <3>. QED
      BY <2>4, <3>1, Zenon
  <2>. QED
    BY <2>2, <2>3, <2>5
<1>10. g[m + n] = f[m] \o h[n]
  <2>. HIDE DEF Q
  <2>1. Nat \subseteq Q
    BY <1>8, <1>9, Inductively, Zenon
  <2>2. n \in Q /\ n <= n
    BY <1>1, <2>1
  <2>. QED
    BY <2>2 DEF Q
<1>. QED
  BY <1>2, <1>3, <1>4, <1>10

LEMMA FlattenOne ==
  ASSUME NEW D, NEW s \in Seq(D)
  PROVE  FlattenSeq(<<s>>) = s
<1>1. <<s>> \in Seq(Seq(D)) /\ Len(<<s>>) = 1 /\ <<s>>[1] = s
  OBVIOUS
<1>2. PICK f \in [0..1 -> Seq(D)] :
        f[0] = <<>> /\ (\A i \in 1..1 : f[i] = f[i - 1] \o <<s>>[i]) /\ FlattenSeq(<<s>>) = f[1]
  <2>1. PICK f \in [0..Len(<<s>>) -> Seq(D)] :
          /\ f[0] = <<>>
          /\ \A i \in 1..Len(<<s>>) : f[i] = f[i - 1] \o <<s>>[i]
          /\ FlattenSeq(<<s>>) = f[Len(<<s>>)]
    BY <1>1, Flattened, Zenon
  <2>. QED
    BY <1>1, <2>1, Zenon
<1>3. 1 \in 1..1 /\ 1 - 1 = 0
  OBVIOUS
<1>4. f[1] = <<>> \o s
  BY <1>1, <1>2, <1>3, Zenon
<1>. QED
  BY <1>2, <1>4

LEMMA FlattenNothing ==
  ASSUME NEW D, NEW ss \in Seq(Seq(D)), \A i \in DOMAIN ss : ss[i] = <<>>
  PROVE  FlattenSeq(ss) = <<>>
<1>. DEFINE n == Len(ss)
<1>1. n \in Nat /\ DOMAIN ss = 1..n
  OBVIOUS
<1>2. PICK f \in [0..n -> Seq(D)] :
        f[0] = <<>> /\ (\A i \in 1..n : f[i] = f[i - 1] \o ss[i]) /\ FlattenSeq(ss) = f[n]
  BY Flattened, Zenon
<1>. HIDE DEF n
<1>. DEFINE P == {i \in Nat : i <= n => f[i] = <<>>}
<1>3. 0 \in P
  BY <1>2
<1>4. ASSUME NEW i \in Nat, i \in P PROVE i + 1 \in P
  <2>. SUFFICES ASSUME i + 1 <= n PROVE f[i + 1] = <<>>
    OBVIOUS
  <2>1. i + 1 \in 1..n /\ (i + 1) - 1 = i /\ i <= n
    BY <1>1
  <2>2. f[i + 1] = f[i] \o ss[i + 1] /\ f[i] = <<>> /\ ss[i + 1] = <<>>
    BY <1>1, <1>2, <1>4, <2>1, Zenon
  <2>. QED
    BY <2>2
<1>. HIDE DEF P
<1>5. Nat \subseteq P
  BY <1>3, <1>4, Inductively, Zenon
<1>. QED
  BY <1>1, <1>2, <1>5 DEF P

\* What G makes of each member of a sequence, in one.
Flat(G, s) == FlattenSeq([i \in DOMAIN s |-> G[s[i]]])

LEMMA FlatType ==
  ASSUME NEW E, NEW D, NEW G \in [E -> Seq(D)], NEW s \in Seq(E)
  PROVE  [i \in DOMAIN s |-> G[s[i]]] \in Seq(Seq(D)) /\ Flat(G, s) \in Seq(D)
<1>. DEFINE n == Len(s)
            T == Seq(D)
            gs == [i \in DOMAIN s |-> G[s[i]]]
<1>1. n \in Nat /\ DOMAIN s = 1..n /\ \A i \in 1..n : s[i] \in E
  OBVIOUS
<1>. HIDE DEF n, T
<1>2. \A e \in E : G[e] \in T
  BY DEF T
<1>3. gs \in Seq(T)
  BY <1>1, <1>2
<1>. HIDE DEF gs
<1>4. FlattenSeq(gs) \in Seq(D)
  BY <1>3, FlattenType DEF T
<1>. QED
  BY <1>3, <1>4 DEF gs, T, Flat

FlatAdds(G, a, b) == Flat(G, a \o b) = Flat(G, a) \o Flat(G, b)

LEMMA FlatConcat ==
  ASSUME NEW E, NEW D, NEW G \in [E -> Seq(D)], NEW a \in Seq(E), NEW b \in Seq(E)
  PROVE  FlatAdds(G, a, b)
<1>. SUFFICES Flat(G, a \o b) = Flat(G, a) \o Flat(G, b)
  BY DEF FlatAdds
<1>. DEFINE T == Seq(D)
            P(s) == [i \in DOMAIN s |-> G[s[i]]]
            ab == a \o b
            m == Len(a)
            n == Len(b)
            pa == P(a)
            pb == P(b)
            pp == P(ab)
            both == pa \o pb
<1>1. /\ m \in Nat /\ n \in Nat /\ DOMAIN a = 1..m /\ DOMAIN b = 1..n /\ DOMAIN ab = 1..m + n
      /\ \A i \in 1..m : ab[i] = a[i]
      /\ \A i \in 1..n : ab[m + i] = b[i]
      /\ ab \in Seq(E)
  OBVIOUS
<1>2. pa \in Seq(T) /\ pb \in Seq(T) /\ pp \in Seq(T)
  <2>. HIDE DEF ab
  <2>. QED
    BY <1>1, FlatType
<1>. HIDE DEF m, n, ab
<1>3. /\ \A i \in 1..m : pa[i] = G[a[i]]
      /\ \A i \in 1..n : pb[i] = G[b[i]]
      /\ \A i \in 1..m + n : pp[i] = G[ab[i]]
      /\ DOMAIN pa = 1..m /\ DOMAIN pb = 1..n /\ DOMAIN pp = 1..m + n
  BY <1>1
<1>. HIDE DEF pa, pb, pp, T
<1>4. Len(pa) = m /\ Len(pb) = n /\ Len(pp) = m + n
  BY <1>1, <1>2, <1>3
<1>5. /\ both \in Seq(T) /\ Len(both) = m + n
      /\ \A i \in 1..m : both[i] = pa[i]
      /\ \A i \in 1..n : both[m + i] = pb[i]
  <2>1. \A s, t \in Seq(T) :
          /\ s \o t \in Seq(T) /\ Len(s \o t) = Len(s) + Len(t)
          /\ \A i \in 1..Len(s) : (s \o t)[i] = s[i]
          /\ \A i \in 1..Len(t) : (s \o t)[Len(s) + i] = t[i]
    OBVIOUS
  <2>. QED
    BY <1>2, <1>4, <2>1, Zenon
<1>. HIDE DEF both
<1>6. ASSUME NEW i \in 1..m + n PROVE pp[i] = both[i]
  <2>1. CASE i \in 1..m
    BY <1>1, <1>3, <1>5, <2>1
  <2>2. CASE i > m
    <3>. DEFINE k == i - m
    <3>1. k \in 1..n /\ i = m + k
      BY <1>1, <2>2
    <3>. HIDE DEF k
    <3>2. pp[i] = G[b[k]]
      BY <1>1, <1>3, <3>1
    <3>3. both[i] = pb[k] /\ pb[k] = G[b[k]]
      BY <1>3, <1>5, <3>1
    <3>. QED
      BY <3>2, <3>3
  <2>. QED
    BY <1>1, <2>1, <2>2
<1>7. pp = both
  BY <1>2, <1>4, <1>5, <1>6, SeqEqual
<1>8. FlattenSeq(pa \o pb) = FlattenSeq(pa) \o FlattenSeq(pb)
  BY <1>2, FlattenConcat, Zenon DEF T
<1>. QED
  BY <1>7, <1>8, Zenon DEF Flat, pp, both, pa, pb, ab

LEMMA FlatOne ==
  ASSUME NEW E, NEW D, NEW G \in [E -> Seq(D)], NEW e \in E
  PROVE  Flat(G, <<e>>) = G[e]
<1>1. [i \in DOMAIN <<e>> |-> G[<<e>>[i]]] = <<G[e]>>
  OBVIOUS
<1>2. FlattenSeq(<<G[e]>>) = G[e]
  <2>1. G[e] \in Seq(D)
    OBVIOUS
  <2>. QED
    BY <2>1, FlattenOne
<1>. QED
  BY <1>1, <1>2 DEF Flat

LEMMA FlatNothing ==
  ASSUME NEW E, NEW D, NEW G \in [E -> Seq(D)], NEW s \in Seq(E),
         \A i \in DOMAIN s : G[s[i]] = <<>>
  PROVE  Flat(G, s) = <<>>
<1>. DEFINE gs == [i \in DOMAIN s |-> G[s[i]]]
<1>1. gs \in Seq(Seq(D))
  BY FlatType
<1>2. \A i \in DOMAIN gs : gs[i] = <<>>
  OBVIOUS
<1>. HIDE DEF gs
<1>3. FlattenSeq(gs) = <<>>
  BY <1>1, <1>2, FlattenNothing
<1>. QED
  BY <1>3 DEF gs, Flat

---------------------------------------------------------------------------
(* Tags in a text *)

Tags == {ThinkStart, ThinkEnd}
Texts == Seq(Symbols)

\* No tag begins among the first n symbols.
Clear(text, tag, n) == \A i \in 1..n : i \notin TagsIn(text, tag)

LEMMA TagSymbols ==
  /\ Tags \subseteq Texts /\ <<>> \in Texts /\ <<"lt">> \in Texts
  /\ \A tag \in Tags : Len(tag) = 2 /\ tag[1] = "lt" /\ tag = <<tag[1], tag[2]>>
BY DEF Tags, Texts, ThinkStart, ThinkEnd, Symbols

LEMMA Assoc == \A r, s, t \in Texts : (r \o s) \o t = r \o (s \o t)
BY ConcatAssociative DEF Texts

LEMMA Concat ==
  \A s, t \in Texts :
    /\ s \o t \in Texts /\ Len(s \o t) = Len(s) + Len(t)
    /\ \A i \in 1..Len(s) : (s \o t)[i] = s[i]
    /\ \A i \in 1..Len(t) : (s \o t)[Len(s) + i] = t[i]
BY DEF Texts

LEMMA FirstOf ==
  ASSUME NEW N, N \subseteq Nat, N # {}
  PROVE  First(N) \in N /\ \A n \in N : First(N) <= n
BY Least, Zenon DEF First

LEMMA TagsAre ==
  ASSUME NEW text \in Texts, NEW tag \in Tags, NEW i \in Nat \ {0}
  PROVE  i \in TagsIn(text, tag) <=> (i + 1 <= Len(text) /\ text[i] = tag[1] /\ text[i + 1] = tag[2])
<1>1. Len(text) \in Nat
  BY DEF Texts
<1>2. i \in 1..Len(text) - 1 <=> i + 1 <= Len(text)
  BY <1>1
<1>3. <<text[i], text[i + 1]>> = tag <=> (text[i] = tag[1] /\ text[i + 1] = tag[2])
  BY TagSymbols
<1>. QED
  BY <1>2, <1>3 DEF TagsIn

LEMMA TagNumbers ==
  ASSUME NEW text \in Texts, NEW tag \in Tags
  PROVE  TagsIn(text, tag) \subseteq Nat \ {0} /\ TagsIn(text, tag) \subseteq Nat
BY DEF TagsIn

LEMMA Tagged ==
  ASSUME NEW tag \in Tags, NEW a \in Texts
  PROVE  /\ tag \o a \in Texts /\ Len(tag \o a) = 2 + Len(a) /\ Len(a) \in Nat
         /\ (tag \o a)[1] = tag[1] /\ (tag \o a)[2] = tag[2]
         /\ \A k \in 1..Len(a) : (tag \o a)[2 + k] = a[k]
<1>1. tag \in Texts /\ Len(tag) = 2 /\ 1 \in 1..2 /\ 2 \in 1..2
  BY TagSymbols
<1>2. Len(a) \in Nat
  BY DEF Texts
<1>3. tag \o a \in Texts /\ Len(tag \o a) = Len(tag) + Len(a)
  BY <1>1, Concat, Zenon
<1>4. \A k \in 1..Len(tag) : (tag \o a)[k] = tag[k]
  BY <1>1, Concat, Zenon
<1>5. \A k \in 1..Len(a) : (tag \o a)[Len(tag) + k] = a[k]
  BY <1>1, Concat, Zenon
<1>. QED
  BY <1>1, <1>2, <1>3, <1>4, <1>5

\* A text around the first of its tags.
LEMMA Parts ==
  ASSUME NEW text \in Texts, NEW tag \in Tags, TagsIn(text, tag) # {}
  PROVE  /\ Before(text, tag) \in Texts /\ After(text, tag) \in Texts
         /\ text = Before(text, tag) \o (tag \o After(text, tag))
         /\ Clear(text, tag, Len(Before(text, tag)))
         /\ Len(After(text, tag)) < Len(text)
<1>. DEFINE f == First(TagsIn(text, tag))
            n == Len(text)
            b == Before(text, tag)
            a == After(text, tag)
<1>1. f \in TagsIn(text, tag) /\ \A i \in TagsIn(text, tag) : f <= i
  BY TagNumbers, FirstOf
<1>2. f \in Nat \ {0} /\ f + 1 <= n /\ n \in Nat
  BY <1>1, TagNumbers, TagsAre DEF Texts
<1>3. text[f] = tag[1] /\ text[f + 1] = tag[2]
  BY <1>1, <1>2, TagsAre
<1>4. b = SubSeq(text, 1, f - 1) /\ a = SubSeq(text, f + 2, n)
  BY DEF Before, After
<1>. HIDE DEF f, b, a
<1>5. \A i \in 1..n : text[i] \in Symbols
  BY DEF Texts
<1>6. b \in Texts /\ Len(b) = f - 1 /\ \A i \in 1..f - 1 : b[i] = text[i]
  BY <1>2, <1>4, <1>5 DEF Texts
<1>7. a \in Texts /\ Len(a) = n - (f + 1) /\ \A i \in 1..n - (f + 1) : a[i] = text[f + 1 + i]
  BY <1>2, <1>4, <1>5 DEF Texts
<1>8. Clear(text, tag, f - 1)
  BY <1>1, <1>2, TagNumbers DEF Clear
<1>9. text = b \o (tag \o a)
  <2>. DEFINE ta == tag \o a
              whole == b \o ta
  <2>0. ta \in Texts /\ Len(ta) = 2 + Len(a) /\ ta[1] = tag[1] /\ ta[2] = tag[2]
        /\ \A k \in 1..Len(a) : ta[2 + k] = a[k]
    BY <1>7, Tagged, Zenon
  <2>. HIDE DEF ta, n
  <2>1. Len(ta) = n - (f - 1)
    BY <1>2, <1>7, <2>0
  <2>2. whole \in Texts /\ Len(whole) = n
    <3>1. whole \in Texts /\ Len(whole) = Len(b) + Len(ta)
      BY <1>6, <2>0, Concat, Zenon
    <3>. QED
      BY <1>2, <1>6, <2>1, <3>1
  <2>9. \A k \in 1..n - (f - 1) : whole[f - 1 + k] = ta[k]
    BY <1>6, <2>0, <2>1, Concat
  <2>3. ASSUME NEW i \in 1..n PROVE whole[i] = text[i]
    <3>1. CASE i \in 1..f - 1
      BY <1>6, <2>0, <3>1, Concat
    <3>2. CASE i = f
      <4>1. 1 \in 1..n - (f - 1) /\ f - 1 + 1 = f
        BY <1>2
      <4>. QED
        BY <1>3, <2>0, <2>9, <3>2, <4>1, Zenon
    <3>3. CASE i = f + 1
      <4>1. 2 \in 1..n - (f - 1) /\ f - 1 + 2 = f + 1
        BY <1>2
      <4>. QED
        BY <1>3, <2>0, <2>9, <3>3, <4>1, Zenon
    <3>4. CASE i \in f + 2..n
      <4>. DEFINE k == i - (f + 1)
      <4>1. k \in 1..n - (f + 1) /\ 2 + k \in 1..n - (f - 1) /\ i = f - 1 + (2 + k) /\ i = f + 1 + k
        BY <1>2, <3>4
      <4>. HIDE DEF k
      <4>2. ta[2 + k] = a[k]
        BY <1>7, <2>0, <4>1
      <4>3. whole[f - 1 + (2 + k)] = ta[2 + k]
        BY <2>9, <4>1, Zenon
      <4>. QED
        BY <1>7, <4>1, <4>2, <4>3
    <3>5. i \in 1..f - 1 \/ i = f \/ i = f + 1 \/ i \in f + 2..n
      BY <1>2
    <3>. QED
      BY <3>1, <3>2, <3>3, <3>4, <3>5, Zenon
  <2>. HIDE DEF whole
  <2>4. text = whole
    BY <2>2, <2>3, SeqEqual DEF Texts, n
  <2>. QED
    BY <2>4 DEF whole, ta
<1>10. Len(a) < n
  BY <1>2, <1>7
<1>. QED
  BY <1>6, <1>7, <1>8, <1>9, <1>10, Zenon DEF b, a

\* A text that is put together around a tag comes apart there.
LEMMA Split ==
  ASSUME NEW b \in Texts, NEW a \in Texts, NEW tag \in Tags, NEW text,
         text = b \o (tag \o a), Clear(text, tag, Len(b))
  PROVE  TagsIn(text, tag) # {} /\ Before(text, tag) = b /\ After(text, tag) = a
<1>. DEFINE m == Len(b)
            f == First(TagsIn(text, tag))
<1>1. m \in Nat /\ Len(a) \in Nat /\ tag \o a \in Texts /\ Len(tag \o a) = 2 + Len(a)
  BY Tagged DEF Texts
<1>2. text \in Texts /\ Len(text) = m + (2 + Len(a))
  <2>. DEFINE ta == tag \o a
  <2>1. ta \in Texts /\ Len(ta) = 2 + Len(a) /\ text = b \o ta
    BY <1>1
  <2>. HIDE DEF ta
  <2>2. b \o ta \in Texts /\ Len(b \o ta) = m + Len(ta)
    BY <2>1, Concat, Zenon
  <2>. QED
    BY <2>1, <2>2
<1>3. (tag \o a)[1] = tag[1] /\ (tag \o a)[2] = tag[2] /\ \A k \in 1..Len(a) : (tag \o a)[2 + k] = a[k]
  BY Tagged, Zenon
<1>4. \A k \in 1..2 + Len(a) : text[m + k] = (tag \o a)[k]
  <2>. DEFINE ta == tag \o a
  <2>1. ta \in Texts /\ Len(ta) = 2 + Len(a) /\ text = b \o ta
    BY <1>1
  <2>. HIDE DEF ta
  <2>2. \A k \in 1..2 + Len(a) : text[m + k] = ta[k]
    BY <2>1, Concat
  <2>. QED
    BY <2>2, Zenon DEF ta
<1>5. text[m + 1] = tag[1] /\ text[m + 2] = tag[2]
  BY <1>1, <1>3, <1>4
<1>6. m + 1 \in TagsIn(text, tag)
  <2>1. m + 1 \in Nat \ {0} /\ (m + 1) + 1 = m + 2 /\ m + 2 <= Len(text)
    BY <1>1, <1>2
  <2>. QED
    BY <1>2, <1>5, <2>1, TagsAre, Zenon
<1>7. f \in TagsIn(text, tag) /\ f <= m + 1
  BY <1>2, <1>6, TagNumbers, FirstOf
<1>8. f = m + 1
  <2>1. f \in Nat \ {0}
    BY <1>2, <1>7, TagNumbers
  <2>2. f \notin 1..m
    BY <1>7 DEF Clear
  <2>. HIDE DEF f, m
  <2>. QED
    BY <1>1, <1>7, <2>1, <2>2
<1>9. Before(text, tag) = SubSeq(text, 1, m) /\ After(text, tag) = SubSeq(text, m + 3, m + (2 + Len(a)))
  <2>1. (m + 1) - 1 = m /\ (m + 1) + 2 = m + 3
    BY <1>1
  <2>. QED
    BY <1>2, <1>8, <2>1 DEF Before, After
<1>10. SubSeq(text, 1, m) = b
  <2>. DEFINE s == SubSeq(text, 1, m)
  <2>1. \A i \in 1..m : text[i] = b[i] /\ text[i] \in Symbols
    BY <1>1, Concat DEF Texts
  <2>2. s \in Texts /\ Len(s) = m /\ \A i \in 1..m : s[i] = b[i]
    BY <1>1, <2>1 DEF Texts
  <2>. HIDE DEF s
  <2>3. s = b
    BY <2>2, SeqEqual DEF Texts
  <2>. QED
    BY <2>3 DEF s
<1>11. SubSeq(text, m + 3, m + (2 + Len(a))) = a
  <2>. DEFINE n == Len(a)
              s == SubSeq(text, m + 3, m + (2 + n))
  <2>1. \A k \in 1..n : text[m + 2 + k] = a[k] /\ a[k] \in Symbols
    <3>1. \A k \in 1..n : 2 + k \in 1..2 + n /\ m + (2 + k) = m + 2 + k
      BY <1>1
    <3>2. \A k \in 1..n : a[k] \in Symbols
      BY DEF Texts
    <3>3. \A k \in 1..n : text[m + (2 + k)] = (tag \o a)[2 + k]
      BY <1>4, <3>1, Zenon
    <3>. HIDE DEF m, n
    <3>. QED
      BY <1>3, <3>1, <3>2, <3>3, Zenon DEF n
  <2>. HIDE DEF m, n
  <2>2. \A i \in m + 3..m + (2 + n) : i - (m + 2) \in 1..n /\ m + 2 + (i - (m + 2)) = i
    BY <1>1 DEF n
  <2>3. \A i \in m + 3..m + (2 + n) : text[i] \in Symbols
    BY <2>1, <2>2, Zenon
  <2>4. s \in Texts /\ Len(s) = n /\ \A k \in 1..n : s[k] = text[m + 2 + k]
    <3>. DEFINE lo == m + 3
                hi == Len(text)
    <3>1. /\ lo \in Nat \ {0} /\ hi \in Nat /\ n \in Nat /\ hi - (lo - 1) = n
          /\ \A k \in 1..n : lo - 1 + k = m + 2 + k
      BY <1>1, <1>2 DEF n, m
    <3>2. \A i \in 1..hi : text[i] \in Symbols
      BY <1>2 DEF Texts
    <3>3. s = SubSeq(text, lo, hi)
      BY <1>2 DEF n, m
    <3>. HIDE DEF s, lo
    <3>4. s \in Texts /\ Len(s) = hi - (lo - 1) /\ \A i \in 1..hi - (lo - 1) : s[i] = text[lo - 1 + i]
      BY <3>1, <3>2, <3>3 DEF Texts
    <3>. QED
      BY <3>1, <3>4, Zenon
  <2>. HIDE DEF s
  <2>5. \A k \in 1..n : s[k] = a[k]
    BY <2>1, <2>4, Zenon
  <2>6. s = a
    BY <2>4, <2>5, SeqEqual DEF Texts, n
  <2>. QED
    BY <2>6, Zenon DEF s, n, m
<1>. QED
  BY <1>6, <1>9, <1>10, <1>11, Zenon

---------------------------------------------------------------------------
(* What is visible of a text *)

\* What is visible of a text that begins inside a thought, or outside.
Seen(thinking, text) ==
  IF ~thinking THEN Visible[text]
  ELSE IF TagsIn(text, ThinkEnd) = {} THEN <<>> ELSE Visible[After(text, ThinkEnd)]

\* Visible is what its definition says, for every text.
LEMMA VisibleIs ==
  /\ Visible \in [Texts -> Texts]
  /\ \A text \in Texts :
       Visible[text] = IF TagsIn(text, ThinkStart) = {} THEN text
                       ELSE Before(text, ThinkStart) \o Seen(TRUE, After(text, ThinkStart))
<1>. DEFINE S == Texts
            M == [text \in S |-> Len(text)]
            rest(text) == After(text, ThinkStart)
            more(g, text) == IF TagsIn(rest(text), ThinkEnd) = {} THEN <<>>
                             ELSE g[After(rest(text), ThinkEnd)]
            body(g, text) == IF TagsIn(text, ThinkStart) = {} THEN text
                             ELSE Before(text, ThinkStart) \o more(g, text)
            F == [g \in [S -> S] |-> [text \in S |-> body(g, text)]]
<1>1. M \in [S -> Nat] /\ \A text \in S : M[text] = Len(text)
  BY DEF Texts
<1>2. ASSUME NEW text \in S, TagsIn(text, ThinkStart) # {}
      PROVE  /\ Before(text, ThinkStart) \in S /\ rest(text) \in S
             /\ TagsIn(rest(text), ThinkEnd) # {} =>
                  /\ After(rest(text), ThinkEnd) \in S
                  /\ M[After(rest(text), ThinkEnd)] < M[text]
  <2>1. /\ Before(text, ThinkStart) \in S /\ rest(text) \in S /\ Len(rest(text)) < Len(text)
    BY <1>2, Parts DEF Tags
  <2>. HIDE DEF rest, M
  <2>2. TagsIn(rest(text), ThinkEnd) # {} =>
          After(rest(text), ThinkEnd) \in S /\ Len(After(rest(text), ThinkEnd)) < Len(rest(text))
    BY <2>1, Parts DEF Tags
  <2>. QED
    BY <1>1, <2>1, <2>2
<1>3. \A g \in [S -> S] : \A text \in S : body(g, text) \in S
  <2>. SUFFICES ASSUME NEW g \in [S -> S], NEW text \in S PROVE body(g, text) \in S
    OBVIOUS
  <2>1. CASE TagsIn(text, ThinkStart) = {}
    BY <2>1
  <2>2. CASE TagsIn(text, ThinkStart) # {}
    <3>1. more(g, text) \in S
      <4>. HIDE DEF rest
      <4>. QED
        BY <1>2, <2>2, TagSymbols, Zenon
    <3>2. Before(text, ThinkStart) \in S
      BY <1>2, <2>2, Zenon
    <3>. HIDE DEF more
    <3>. QED
      BY <2>2, <3>1, <3>2, Concat
  <2>. QED
    BY <2>1, <2>2
<1>. HIDE DEF M
<1>4. F \in [[S -> S] -> [S -> S]]
  <2>. HIDE DEF body
  <2>. QED
    BY <1>3
<1>5. \A g \in [S -> S] : \A text \in S : F[g][text] = body(g, text)
  <2>. HIDE DEF body
  <2>. QED
    OBVIOUS
<1>6. ASSUME NEW g \in [S -> S], NEW h \in [S -> S], NEW text \in S,
             \A x \in S : M[x] < M[text] => g[x] = h[x]
      PROVE  F[g][text] = F[h][text]
  <2>1. CASE TagsIn(text, ThinkStart) = {}
    BY <1>5, <2>1
  <2>2. CASE TagsIn(text, ThinkStart) # {}
    <3>1. more(g, text) = more(h, text)
      <4>. HIDE DEF rest
      <4>. QED
        BY <1>2, <1>6, <2>2
    <3>2. body(g, text) = body(h, text)
      <4>. HIDE DEF more
      <4>. QED
        BY <3>1
    <3>. HIDE DEF body, F
    <3>. QED
      BY <1>5, <3>2
  <2>. QED
    BY <2>1, <2>2
<1>7. \E g \in [S -> S] : g = F[g]
  <2>1. S # {}
    BY TagSymbols
  <2>2. Extends(S, S, M, F)
    <3>. HIDE DEF F, S
    <3>. QED
      BY <1>1, <1>4, <1>6, <2>1, Zenon DEF Extends
  <2>. HIDE DEF F, S
  <2>. QED
    BY <2>2, Recursion
<1>8. PICK g \in [S -> S] : g = [text \in S |-> body(g, text)]
  <2>. HIDE DEF body
  <2>. QED
    BY <1>7
<1>9. Visible = [text \in S |-> body(Visible, text)]
  BY <1>8, Zenon DEF Visible, Texts
<1>10. \A text \in S : Visible[text] = body(Visible, text)
  <2>. HIDE DEF body
  <2>. QED
    BY <1>9
<1>. DEFINE P == {n \in Nat : \A text \in S : M[text] < n => Visible[text] \in S}
<1>11. 0 \in P
  BY <1>1
<1>12. ASSUME NEW n \in Nat, n \in P PROVE n + 1 \in P
  <2>. SUFFICES ASSUME NEW text \in S, M[text] < n + 1 PROVE Visible[text] \in S
    OBVIOUS
  <2>1. CASE TagsIn(text, ThinkStart) = {}
    BY <1>10, <2>1
  <2>2. CASE TagsIn(text, ThinkStart) # {}
    <3>1. more(Visible, text) \in S
      <4>. HIDE DEF rest
      <4>1. CASE TagsIn(rest(text), ThinkEnd) = {}
        BY <4>1, TagSymbols
      <4>2. CASE TagsIn(rest(text), ThinkEnd) # {}
        <5>. DEFINE x == After(rest(text), ThinkEnd)
        <5>1. x \in S /\ M[x] < M[text]
          BY <1>2, <2>2, <4>2
        <5>. HIDE DEF x
        <5>2. M[x] < n
          BY <1>1, <5>1
        <5>3. Visible[x] \in S
          BY <1>12, <5>1, <5>2
        <5>. QED
          BY <4>2, <5>3 DEF x
      <4>. QED
        BY <4>1, <4>2
    <3>2. Before(text, ThinkStart) \in S
      BY <1>2, <2>2
    <3>3. Visible[text] = Before(text, ThinkStart) \o more(Visible, text)
      BY <1>10, <2>2, Zenon
    <3>. HIDE DEF more
    <3>. QED
      BY <3>1, <3>2, <3>3, Concat
  <2>. QED
    BY <2>1, <2>2
<1>13. ASSUME NEW text \in S PROVE Visible[text] \in S
  <2>. HIDE DEF P
  <2>1. Nat \subseteq P
    BY <1>11, <1>12, Inductively
  <2>2. M[text] \in Nat /\ M[text] + 1 \in P /\ M[text] < M[text] + 1
    BY <1>1, <2>1
  <2>. QED
    BY <2>2 DEF P
<1>14. Visible \in [S -> S]
  <2>. HIDE DEF body
  <2>. QED
    BY <1>9, <1>13
<1>. QED
  BY <1>10, <1>14 DEF Seen

LEMMA SeenType ==
  ASSUME NEW thinking \in BOOLEAN, NEW text \in Texts
  PROVE  Seen(thinking, text) \in Texts
<1>1. TagsIn(text, ThinkEnd) # {} => After(text, ThinkEnd) \in Texts
  BY Parts DEF Tags
<1>. QED
  BY <1>1, VisibleIs, TagSymbols DEF Seen

\* The tag that ends the mode.
Wanted(thinking) == IF thinking THEN ThinkEnd ELSE ThinkStart
Outside(thinking, text) == IF thinking THEN <<>> ELSE text

\* What is seen of a text with the tag that ends its mode, and of one without.
LEMMA SeenIs ==
  ASSUME NEW thinking \in BOOLEAN, NEW text \in Texts
  PROVE  Seen(thinking, text) =
           IF TagsIn(text, Wanted(thinking)) = {} THEN Outside(thinking, text)
           ELSE Outside(thinking, Before(text, Wanted(thinking)))
                \o Seen(~thinking, After(text, Wanted(thinking)))
<1>1. CASE thinking
  <2>1. TagsIn(text, ThinkEnd) # {} => Visible[After(text, ThinkEnd)] \in Texts
    BY Parts, VisibleIs DEF Tags
  <2>2. TagsIn(text, ThinkEnd) # {} => <<>> \o Visible[After(text, ThinkEnd)] = Visible[After(text, ThinkEnd)]
    BY <2>1 DEF Texts
  <2>. QED
    BY <1>1, <2>2 DEF Seen, Wanted, Outside
<1>2. CASE ~thinking
  BY <1>2, VisibleIs DEF Seen, Wanted, Outside
<1>. QED
  BY <1>1, <1>2

\* A beginning in which no tag begins is seen as it is, or not at all.
LEMMA Skip ==
  ASSUME NEW thinking \in BOOLEAN, NEW p \in Texts, NEW y \in Texts,
         Clear(p \o y, Wanted(thinking), Len(p))
  PROVE  Seen(thinking, p \o y) = Outside(thinking, p) \o Seen(thinking, y)
<1>. DEFINE tag == Wanted(thinking)
            text == p \o y
            m == Len(p)
<1>1. tag \in Tags /\ m \in Nat /\ Len(y) \in Nat
  BY DEF Wanted, Tags, Texts
<1>2. text \in Texts /\ Len(text) = m + Len(y)
  BY Concat
<1>3. \A k \in Nat \ {0} : k <= Len(y) => text[m + k] = y[k]
  BY <1>1, Concat
<1>. HIDE DEF tag, text, m
<1>4. ASSUME NEW i \in Nat \ {0}, i > m, i \in TagsIn(text, tag)
      PROVE  i - m \in TagsIn(y, tag)
  <2>. DEFINE k == i - m
  <2>1. k \in Nat \ {0} /\ i = m + k /\ i + 1 = m + (k + 1)
    BY <1>1, <1>4
  <2>. HIDE DEF k
  <2>2. i + 1 <= Len(text) /\ text[i] = tag[1] /\ text[i + 1] = tag[2]
    BY <1>1, <1>2, <1>4, TagsAre
  <2>3. k + 1 <= Len(y) /\ k <= Len(y) /\ k + 1 \in Nat \ {0}
    BY <1>1, <1>2, <2>1, <2>2
  <2>4. y[k] = tag[1] /\ y[k + 1] = tag[2]
    BY <1>3, <2>1, <2>2, <2>3
  <2>5. k \in TagsIn(y, tag)
    BY <1>1, <2>1, <2>3, <2>4, TagsAre
  <2>. QED
    BY <2>5 DEF k
<1>5. \A s, t \in Texts : Outside(thinking, s) \in Texts /\ Outside(thinking, s \o t) = Outside(thinking, s) \o Outside(thinking, t)
  <2>1. <<>> \in Texts /\ <<>> \o <<>> = <<>>
    BY DEF Texts
  <2>. QED
    BY <2>1 DEF Outside
<1>6. CASE TagsIn(y, tag) = {}
  <2>1. ASSUME NEW i \in TagsIn(text, tag) PROVE FALSE
    <3>1. i \in Nat \ {0}
      BY <1>1, <1>2, <2>1, TagNumbers
    <3>2. CASE i \in 1..m
      BY <2>1, <3>2 DEF Clear, tag, text, m
    <3>3. CASE i > m
      BY <1>4, <1>6, <2>1, <3>1, <3>3
    <3>. QED
      BY <1>1, <3>1, <3>2, <3>3
  <2>2. Seen(thinking, text) = Outside(thinking, text)
    BY <1>2, <2>1, SeenIs DEF tag
  <2>3. Seen(thinking, y) = Outside(thinking, y)
    BY <1>6, SeenIs DEF tag
  <2>. QED
    BY <1>5, <2>2, <2>3, Zenon DEF text
<1>7. CASE TagsIn(y, tag) # {}
  <2>. DEFINE b == Before(y, tag)
              a == After(y, tag)
              pb == p \o b
              ta == tag \o a
  <2>1. b \in Texts /\ a \in Texts /\ y = b \o ta /\ Clear(y, tag, Len(b)) /\ Len(b) \in Nat
    BY <1>1, <1>7, Parts DEF Texts
  <2>. HIDE DEF b, a
  <2>2. ta \in Texts
    BY <1>1, <2>1, Tagged
  <2>3. pb \in Texts /\ Len(pb) = m + Len(b)
    BY <2>1, Concat DEF m
  <2>4. text = pb \o ta
    BY <2>1, <2>2, Assoc, Zenon DEF text
  <2>5. Clear(text, tag, Len(pb))
    <3>1. SUFFICES ASSUME NEW i \in 1..Len(pb), i \in TagsIn(text, tag) PROVE FALSE
      BY DEF Clear
    <3>2. i \in Nat \ {0} /\ i <= m + Len(b)
      BY <1>1, <2>1, <2>3
    <3>3. CASE i \in 1..m
      BY <3>1, <3>3 DEF Clear, tag, text, m
    <3>4. CASE i > m
      <4>1. i - m \in TagsIn(y, tag)
        BY <1>4, <3>1, <3>2, <3>4
      <4>2. i - m \in 1..Len(b)
        BY <1>1, <2>1, <3>2, <3>4
      <4>. QED
        BY <2>1, <4>1, <4>2 DEF Clear
    <3>. QED
      BY <1>1, <3>2, <3>3, <3>4
  <2>. HIDE DEF pb
  <2>6. TagsIn(text, tag) # {} /\ Before(text, tag) = pb /\ After(text, tag) = a
    <3>1. pb \in Texts /\ a \in Texts /\ tag \in Tags /\ text = pb \o (tag \o a)
      BY <1>1, <2>1, <2>3, <2>4
    <3>. QED
      BY ONLY <3>1, <2>5, Split, Zenon
  <2>7. Seen(thinking, text) = Outside(thinking, pb) \o Seen(~thinking, a)
    BY <1>2, <2>6, SeenIs, Zenon DEF tag
  <2>8. Seen(thinking, y) = Outside(thinking, b) \o Seen(~thinking, a)
    BY <1>7, SeenIs DEF tag, b, a
  <2>9. Seen(~thinking, a) \in Texts
    BY <2>1, SeenType, Zenon
  <2>10. Outside(thinking, pb) = Outside(thinking, p) \o Outside(thinking, b)
    BY <1>5, <2>1, Zenon DEF pb
  <2>. DEFINE op == Outside(thinking, p)
              ob == Outside(thinking, b)
              sa == Seen(~thinking, a)
  <2>11. op \in Texts /\ ob \in Texts /\ sa \in Texts
    BY <1>5, <2>1, <2>9
  <2>. HIDE DEF op, ob, sa
  <2>12. (op \o ob) \o sa = op \o (ob \o sa)
    BY <2>11, Assoc, Zenon
  <2>. QED
    BY <2>7, <2>8, <2>10, <2>12 DEF op, ob, sa, text
<1>. QED
  BY <1>6, <1>7

\* More text after a tag leaves it where it is.
LEMMA SeenPast ==
  ASSUME NEW thinking \in BOOLEAN, NEW buf \in Texts, NEW x \in Texts,
         TagsIn(buf, Wanted(thinking)) # {}
  PROVE  Seen(thinking, buf \o x) = Outside(thinking, Before(buf, Wanted(thinking)))
                                    \o Seen(~thinking, After(buf, Wanted(thinking)) \o x)
<1>. DEFINE tag == Wanted(thinking)
            b == Before(buf, tag)
            a == After(buf, tag)
            ax == a \o x
            ta == tag \o a
            text == buf \o x
<1>1. tag \in Tags
  BY DEF Wanted, Tags
<1>2. b \in Texts /\ a \in Texts /\ buf = b \o ta /\ Clear(buf, tag, Len(b))
  BY <1>1, Parts, Zenon
<1>3. ax \in Texts /\ tag \in Texts /\ Len(b) \in Nat /\ Len(buf) \in Nat
  BY <1>1, <1>2, Concat, TagSymbols DEF Texts
<1>4. ta \in Texts /\ Len(ta) = 2 + Len(a) /\ Len(a) \in Nat
  BY <1>1, <1>2, Tagged
<1>. HIDE DEF tag, b, a
<1>5. Len(buf) = Len(b) + Len(ta)
  <2>. HIDE DEF ta
  <2>. QED
    BY <1>2, <1>4, Concat, Zenon
<1>6. text = b \o (tag \o ax)
  <2>0. tag \in Texts /\ a \in Texts
    BY <1>2, <1>3
  <2>1. (tag \o a) \o x = tag \o (a \o x)
    BY <2>0, Assoc, Zenon
  <2>. HIDE DEF ta
  <2>2. text = b \o (ta \o x)
    BY <1>2, <1>4, Assoc, Zenon
  <2>. QED
    BY <2>1, <2>2, Zenon DEF ta
<1>7. text \in Texts /\ \A i \in 1..Len(buf) : text[i] = buf[i]
  BY Concat
<1>. HIDE DEF ta, text, ax
<1>8. Clear(text, tag, Len(b))
  <2>1. SUFFICES ASSUME NEW i \in 1..Len(b), i \in TagsIn(text, tag) PROVE FALSE
    BY DEF Clear
  <2>2. i \in Nat \ {0} /\ i + 1 <= Len(buf) /\ i \in 1..Len(buf) /\ i + 1 \in 1..Len(buf)
    BY <1>3, <1>4, <1>5
  <2>3. text[i] = tag[1] /\ text[i + 1] = tag[2]
    BY <1>1, <1>7, <2>1, <2>2, TagsAre
  <2>4. buf[i] = tag[1] /\ buf[i + 1] = tag[2]
    BY <1>7, <2>2, <2>3
  <2>5. i \in TagsIn(buf, tag)
    BY <1>1, <2>2, <2>4, TagsAre
  <2>. QED
    BY <1>2, <2>5 DEF Clear
<1>9. TagsIn(text, tag) # {} /\ Before(text, tag) = b /\ After(text, tag) = ax
  BY <1>1, <1>2, <1>3, <1>6, <1>8, Split, Zenon
<1>10. Seen(thinking, text) = Outside(thinking, b) \o Seen(~thinking, ax)
  BY <1>7, <1>9, SeenIs, Zenon DEF tag
<1>. QED
  BY <1>10 DEF text, b, a, tag, ax

---------------------------------------------------------------------------
(* The think-tag filter *)

Held1 == {<<>>, <<"lt">>}

LEMMA PassTagIs ==
  ASSUME NEW ts \in ScanState, TagsIn(ts.buf, Wanted(ts.thinking)) # {}
  PROVE  /\ PassTag(ts) \in ScanState
         /\ PassTag(ts).thinking = ~ts.thinking
         /\ PassTag(ts).buf = After(ts.buf, Wanted(ts.thinking))
         /\ PassTag(ts).text = ts.text \o Outside(ts.thinking, Before(ts.buf, Wanted(ts.thinking)))
         /\ Outside(ts.thinking, Before(ts.buf, Wanted(ts.thinking))) \in Texts
         /\ Len(PassTag(ts).buf) < Len(ts.buf)
<1>. DEFINE tag == Wanted(ts.thinking)
            b == Before(ts.buf, tag)
            a == After(ts.buf, tag)
            o == Outside(ts.thinking, b)
            text == ts.text \o o
<1>1. ts.thinking \in BOOLEAN /\ ts.buf \in Texts /\ ts.text \in Texts
  BY DEF ScanState, Texts
<1>2. tag \in Tags
  BY DEF Wanted, Tags
<1>3. b \in Texts /\ a \in Texts /\ Len(a) < Len(ts.buf)
  BY <1>1, <1>2, Parts
<1>4. o \in Texts
  BY <1>3, TagSymbols DEF Outside
<1>5. text \in Texts
  <2>. HIDE DEF o
  <2>. QED
    BY <1>1, <1>4, Concat
<1>6. PassTag(ts) = [thinking |-> ~ts.thinking, buf |-> a, text |-> text]
  BY DEF PassTag, Sought, Show, Wanted, Outside
<1>. HIDE DEF a, text
<1>7. PassTag(ts) \in ScanState /\ PassTag(ts).thinking = ~ts.thinking /\ PassTag(ts).buf = a
      /\ PassTag(ts).text = text
  BY <1>1, <1>3, <1>5, <1>6 DEF ScanState, Texts
<1>. QED
  BY <1>3, <1>4, <1>7 DEF a, text

\* What is held back is the beginning of a tag, or nothing.
LEMMA HoldIs ==
  ASSUME NEW ts \in ScanState
  PROVE  \E p \in Texts, h \in Held1 :
           /\ Hold(ts) \in ScanState
           /\ Hold(ts).thinking = ts.thinking /\ Hold(ts).buf = h
           /\ Hold(ts).text = ts.text \o Outside(ts.thinking, p)
           /\ ts.buf = p \o h
           /\ p # <<>> /\ h = <<>> => p[Len(p)] # "lt"
<1>. DEFINE buf == ts.buf
            n == Len(buf)
            safe == n - Held(buf)
            p == SubSeq(buf, 1, safe)
            h == SubSeq(buf, safe + 1, n)
            o == Outside(ts.thinking, p)
            text == ts.text \o o
<1>1. ts.thinking \in BOOLEAN /\ buf \in Texts /\ ts.text \in Texts
  BY DEF ScanState, Texts
<1>2. Hold(ts) = [thinking |-> ts.thinking, buf |-> h, text |-> text]
  BY DEF Hold, Show, Outside
<1>. HIDE DEF buf
<1>3. n \in Nat /\ \A i \in 1..n : buf[i] \in Symbols
  BY <1>1 DEF Texts
<1>4. /\ p \in Texts /\ h \in Held1 /\ buf = p \o h
      /\ p # <<>> /\ h = <<>> => p[Len(p)] # "lt"
  <2>1. CASE buf # <<>> /\ buf[n] = "lt"
    <3>1. safe = n - 1 /\ n > 0
      BY <1>1, <1>3, <2>1 DEF Held, Last, Texts
    <3>. DEFINE k == n - 1
    <3>. HIDE DEF n, safe
    <3>2. k \in Nat /\ n = k + 1 /\ p = SubSeq(buf, 1, k) /\ h = SubSeq(buf, k + 1, k + 1)
      <4>1. k \in Nat /\ n = k + 1 /\ safe = k
        BY <1>3, <3>1
      <4>. QED
        BY <4>1
    <3>. HIDE DEF k, p, h
    <3>3. p \in Texts /\ Len(p) = k /\ \A i \in 1..k : p[i] = buf[i]
      BY <1>3, <3>2 DEF Texts
    <3>4. h = <<"lt">>
      <4>1. h \in Seq(Symbols) /\ Len(h) = 1 /\ h[1] = buf[k + 1]
        BY <1>3, <3>2
      <4>2. buf[k + 1] = "lt"
        BY <2>1, <3>2
      <4>. QED
        BY <4>1, <4>2
    <3>5. p \o h \in Texts /\ Len(p \o h) = n /\ \A i \in 1..n : (p \o h)[i] = buf[i]
      <4>1. h \in Texts /\ Len(h) = 1 /\ h[1] = "lt"
        BY <3>4, TagSymbols
      <4>2. \A i \in 1..n : i \in 1..k \/ i = k + 1
        BY <3>2
      <4>3. p \o h \in Texts /\ Len(p \o h) = k + 1 /\ (\A i \in 1..k : (p \o h)[i] = p[i])
            /\ (p \o h)[k + 1] = h[1]
        <5>1. 1 \in 1..Len(h)
          BY <4>1
        <5>2. (p \o h)[Len(p) + 1] = h[1]
          BY <3>3, <4>1, <5>1, Concat
        <5>3. p \o h \in Texts /\ Len(p \o h) = Len(p) + Len(h) /\ \A i \in 1..Len(p) : (p \o h)[i] = p[i]
          BY <3>3, <4>1, Concat, Zenon
        <5>. QED
          BY <3>3, <4>1, <5>2, <5>3
      <4>. QED
        BY <2>1, <3>2, <3>3, <4>1, <4>2, <4>3
    <3>6. buf = p \o h
      <4>. DEFINE both == p \o h
      <4>1. both \in Texts /\ Len(both) = n /\ \A i \in 1..n : both[i] = buf[i]
        BY <3>5
      <4>. HIDE DEF both
      <4>2. buf = both
        BY <1>1, <4>1, SeqEqual DEF Texts, n
      <4>. QED
        BY <4>2 DEF both
    <3>. QED
      BY <3>3, <3>4, <3>6 DEF Held1
  <2>2. CASE ~(buf # <<>> /\ buf[n] = "lt")
    <3>1. safe = n
      BY <1>1, <1>3, <2>2 DEF Held, Last, Texts
    <3>2. p = buf /\ h = <<>>
      BY <1>1, <1>3, <3>1 DEF Texts
    <3>3. buf \o <<>> = buf
      BY <1>1 DEF Texts
    <3>. HIDE DEF p, h
    <3>. QED
      BY <1>1, <2>2, <3>2, <3>3 DEF Held1
  <2>. QED
    BY <2>1, <2>2, Zenon
<1>5. o \in Texts
  <2>. HIDE DEF p
  <2>. QED
    BY <1>4, TagSymbols DEF Outside
<1>6. text \in Texts
  <2>. HIDE DEF o
  <2>. QED
    BY <1>1, <1>5, Concat
<1>. HIDE DEF text, h
<1>7. h \in Texts
  BY <1>4, TagSymbols, Zenon DEF Held1
<1>8. Hold(ts) \in ScanState /\ Hold(ts).thinking = ts.thinking /\ Hold(ts).buf = h /\ Hold(ts).text = text
  BY <1>1, <1>2, <1>6, <1>7 DEF ScanState, Texts
<1>. HIDE DEF p
<1>. QED
  BY <1>4, <1>8, Zenon DEF text, buf

\* Scan is what its definition says, for every state of the filter.
LEMMA ScanIs ==
  /\ Scan \in [ScanState -> ScanState]
  /\ \A ts \in ScanState :
       Scan[ts] = IF TagsIn(ts.buf, Wanted(ts.thinking)) = {} THEN Hold(ts) ELSE Scan[PassTag(ts)]
<1>. DEFINE S == ScanState
            M == [ts \in S |-> Len(ts.buf)]
            body(g, ts) == IF TagsIn(ts.buf, Sought(ts)) = {} THEN Hold(ts) ELSE g[PassTag(ts)]
            F == [g \in [S -> S] |-> [ts \in S |-> body(g, ts)]]
<1>1. M \in [S -> Nat] /\ \A ts \in S : M[ts] = Len(ts.buf)
  BY DEF ScanState
<1>2. \A ts \in S : Hold(ts) \in S
  BY HoldIs, Zenon
<1>3. \A ts \in S : TagsIn(ts.buf, Sought(ts)) # {} => PassTag(ts) \in S /\ M[PassTag(ts)] < M[ts]
  <2>1. \A ts \in S : TagsIn(ts.buf, Sought(ts)) # {} =>
           PassTag(ts) \in S /\ Len(PassTag(ts).buf) < Len(ts.buf)
    BY PassTagIs, Zenon DEF Sought, Wanted
  <2>. QED
    BY <1>1, <2>1, Zenon
<1>. HIDE DEF M, S
<1>4. \A g \in [S -> S] : \A ts \in S : body(g, ts) \in S
  BY <1>2, <1>3
<1>5. F \in [[S -> S] -> [S -> S]] /\ \A g \in [S -> S] : \A ts \in S : F[g][ts] = body(g, ts)
  <2>. HIDE DEF body
  <2>. QED
    BY <1>4
<1>6. ASSUME NEW g \in [S -> S], NEW h \in [S -> S], NEW ts \in S,
             \A x \in S : M[x] < M[ts] => g[x] = h[x]
      PROVE  F[g][ts] = F[h][ts]
  <2>1. body(g, ts) = body(h, ts)
    BY <1>3, <1>6
  <2>. HIDE DEF body, F
  <2>. QED
    BY <1>5, <2>1
<1>7. \E g \in [S -> S] : g = F[g]
  <2>1. NoThought.thinking \in BOOLEAN /\ Feeding(NoThought) \in S
    BY DEF NoThought, Feeding, ScanState, S
  <2>2. Extends(S, S, M, F)
    <3>. HIDE DEF F
    <3>. QED
      BY <1>1, <1>5, <1>6, <2>1, Zenon DEF Extends
  <2>. HIDE DEF F
  <2>. QED
    BY <2>2, Recursion
<1>8. PICK g \in [S -> S] : g = [ts \in S |-> body(g, ts)]
  <2>. HIDE DEF body
  <2>. QED
    BY <1>7
<1>9. Scan = [ts \in S |-> body(Scan, ts)]
  BY <1>8, Zenon DEF Scan, S
<1>10. \A ts \in S : Scan[ts] = body(Scan, ts)
  <2>. HIDE DEF body
  <2>. QED
    BY <1>9
<1>. DEFINE P == {n \in Nat : \A ts \in S : M[ts] < n => Scan[ts] \in S}
<1>11. 0 \in P
  BY <1>1
<1>12. ASSUME NEW n \in Nat, n \in P PROVE n + 1 \in P
  <2>. SUFFICES ASSUME NEW ts \in S, M[ts] < n + 1 PROVE Scan[ts] \in S
    OBVIOUS
  <2>1. CASE TagsIn(ts.buf, Sought(ts)) = {}
    BY <1>2, <1>10, <2>1
  <2>2. CASE TagsIn(ts.buf, Sought(ts)) # {}
    <3>1. PassTag(ts) \in S /\ M[PassTag(ts)] < n
      <4>1. PassTag(ts) \in S /\ M[PassTag(ts)] < M[ts]
        BY <1>3, <2>2, Zenon
      <4>2. M[PassTag(ts)] \in Nat /\ M[ts] \in Nat
        BY <1>1, <4>1
      <4>. QED
        BY <4>1, <4>2
    <3>2. Scan[PassTag(ts)] \in S
      BY <1>12, <3>1
    <3>. QED
      BY <1>10, <2>2, <3>2
  <2>. QED
    BY <2>1, <2>2
<1>13. \A ts \in S : Scan[ts] \in S
  <2>. HIDE DEF P
  <2>1. Nat \subseteq P
    BY <1>11, <1>12, Inductively
  <2>2. \A ts \in S : M[ts] + 1 \in P /\ M[ts] < M[ts] + 1
    BY <1>1, <2>1
  <2>. QED
    BY <2>2 DEF P
<1>14. Scan \in [S -> S]
  <2>. HIDE DEF body
  <2>. QED
    BY <1>9, <1>13
<1>. QED
  BY <1>10, <1>14, Zenon DEF S, Sought, Wanted

\* Scanning changes nothing of what is seen in the end, whatever comes next, and
\* holds back no more than the beginning of a tag.
LEMMA ScanShows ==
  ASSUME NEW ts \in ScanState
  PROVE  /\ Scan[ts] \in ScanState /\ Scan[ts].buf \in Held1
         /\ \A x \in Texts : Scan[ts].text \o Seen(Scan[ts].thinking, Scan[ts].buf \o x)
                             = ts.text \o Seen(ts.thinking, ts.buf \o x)
<1>. DEFINE Shows(u) == /\ Scan[u].buf \in Held1
                        /\ \A x \in Texts : Scan[u].text \o Seen(Scan[u].thinking, Scan[u].buf \o x)
                                            = u.text \o Seen(u.thinking, u.buf \o x)
<1>1. \A u \in ScanState : /\ u.thinking \in BOOLEAN /\ u.buf \in Texts /\ u.text \in Texts
                           /\ Len(u.buf) \in Nat
  BY DEF ScanState, Texts
<1>2. ASSUME NEW u \in ScanState, TagsIn(u.buf, Wanted(u.thinking)) = {}
      PROVE  Shows(u)
  <2>1. PICK p \in Texts, h \in Held1 :
           /\ Hold(u) \in ScanState
           /\ Hold(u).thinking = u.thinking /\ Hold(u).buf = h
           /\ Hold(u).text = u.text \o Outside(u.thinking, p)
           /\ u.buf = p \o h
           /\ p # <<>> /\ h = <<>> => p[Len(p)] # "lt"
    BY HoldIs, Zenon
  <2>2. Scan[u] = Hold(u)
    BY <1>2, ScanIs
  <2>3. h \in Texts /\ Len(p) \in Nat /\ Len(h) \in Nat
    <3>1. h \in Texts
      BY TagSymbols DEF Held1
    <3>. QED
      BY <3>1 DEF Texts
  <2>4. Len(u.buf) = Len(p) + Len(h) /\ \A i \in 1..Len(p) : u.buf[i] = p[i]
    BY <2>1, <2>3, Concat
  <2>5. ASSUME NEW x \in Texts
        PROVE  Scan[u].text \o Seen(Scan[u].thinking, Scan[u].buf \o x)
               = u.text \o Seen(u.thinking, u.buf \o x)
    <3>. DEFINE y == h \o x
                tag == Wanted(u.thinking)
                text == p \o y
    <3>1. y \in Texts /\ Len(y) \in Nat
      BY <2>3, Concat DEF Texts
    <3>2. u.buf \o x = text
      <4>1. (p \o h) \o x = p \o (h \o x)
        BY <2>3, Assoc, Zenon
      <4>. QED
        BY <2>1, <4>1, Zenon
    <3>3. tag \in Tags /\ Len(u.buf) \in Nat
      BY <1>1 DEF Wanted, Tags
    <3>. HIDE DEF y
    <3>4. text \in Texts /\ \A i \in 1..Len(u.buf) : text[i] = u.buf[i]
      <4>. HIDE DEF text
      <4>. QED
        BY <1>1, <3>2, Concat, Zenon
    <3>. HIDE DEF text, tag
    <3>5. Clear(text, tag, Len(p))
      <4>1. SUFFICES ASSUME NEW i \in 1..Len(p), i \in TagsIn(text, tag) PROVE FALSE
        BY DEF Clear
      <4>2. i \in Nat \ {0} /\ text[i] = tag[1] /\ text[i + 1] = tag[2]
        BY <3>3, <3>4, <4>1, TagsAre
      <4>3. i \in 1..Len(u.buf)
        BY <2>3, <2>4
      <4>4. CASE i + 1 <= Len(u.buf)
        <5>1. i + 1 \in 1..Len(u.buf)
          BY <3>3, <4>2, <4>4
        <5>2. u.buf[i] = tag[1] /\ u.buf[i + 1] = tag[2]
          BY <3>4, <4>2, <4>3, <5>1
        <5>3. i \in TagsIn(u.buf, tag)
          BY <1>1, <3>3, <4>2, <4>4, <5>2, TagsAre, Zenon
        <5>. QED
          BY <1>2, <5>3 DEF tag
      <4>5. CASE i + 1 > Len(u.buf)
        <5>1. i = Len(p) /\ Len(h) = 0 /\ Len(p) # 0
          BY <2>3, <2>4, <3>3, <4>1, <4>2, <4>5
        <5>2. h = <<>> /\ p # <<>>
          BY <2>3, <5>1 DEF Texts
        <5>3. p[i] = "lt"
          BY <2>4, <3>3, <3>4, <4>1, <4>2, <4>3, TagSymbols
        <5>. QED
          BY <2>1, <5>1, <5>2, <5>3
      <4>. QED
        BY <3>3, <4>2, <4>4, <4>5
    <3>6. Seen(u.thinking, text) = Outside(u.thinking, p) \o Seen(u.thinking, y)
      BY <1>1, <3>1, <3>5, Skip DEF text, tag
    <3>. DEFINE o == Outside(u.thinking, p)
                s == Seen(u.thinking, y)
                ut == u.text
    <3>7. o \in Texts /\ s \in Texts /\ ut \in Texts
      BY <1>1, <3>1, SeenType, TagSymbols DEF Outside
    <3>. HIDE DEF o, s, ut
    <3>8. (ut \o o) \o s = ut \o (o \o s)
      BY <3>7, Assoc, Zenon
    <3>. QED
      BY <2>1, <2>2, <3>2, <3>6, <3>8, Zenon DEF o, s, ut, y
  <2>. QED
    BY <2>1, <2>2, <2>5, Zenon
<1>3. ASSUME NEW u \in ScanState, TagsIn(u.buf, Wanted(u.thinking)) # {}, Shows(PassTag(u))
      PROVE  Shows(u)
  <2>. DEFINE tag == Wanted(u.thinking)
              v == PassTag(u)
              o == Outside(u.thinking, Before(u.buf, tag))
              a == After(u.buf, tag)
              ut == u.text
  <2>1. v \in ScanState /\ v.thinking = ~u.thinking /\ v.buf = a /\ v.text = ut \o o
        /\ o \in Texts /\ a \in Texts /\ ut \in Texts
    <3>1. v \in ScanState /\ v.thinking = ~u.thinking /\ v.buf = a /\ v.text = ut \o o
          /\ o \in Texts
      BY <1>3, PassTagIs, Zenon
    <3>2. v.buf \in Texts
      <4>. HIDE DEF v
      <4>. QED
        BY <1>1, <3>1
    <3>. QED
      BY <1>1, <3>1, <3>2
  <2>2. Scan[u] = Scan[v]
    BY <1>3, ScanIs, Zenon
  <2>. HIDE DEF v
  <2>3. ASSUME NEW x \in Texts
        PROVE  Scan[u].text \o Seen(Scan[u].thinking, Scan[u].buf \o x)
               = u.text \o Seen(u.thinking, u.buf \o x)
    <3>1. Seen(u.thinking, u.buf \o x) = o \o Seen(~u.thinking, a \o x)
      BY <1>1, <1>3, SeenPast, Zenon
    <3>2. Scan[v].text \o Seen(Scan[v].thinking, Scan[v].buf \o x) = v.text \o Seen(v.thinking, v.buf \o x)
      BY <1>3, Zenon DEF v
    <3>. DEFINE s == Seen(~u.thinking, a \o x)
    <3>3. s \in Texts
      <4>. DEFINE ax == a \o x
      <4>. HIDE DEF a
      <4>1. ax \in Texts
        BY <2>1, Concat
      <4>0. (~u.thinking) \in BOOLEAN
        OBVIOUS
      <4>. HIDE DEF ax
      <4>2. Seen(~u.thinking, ax) \in Texts
        BY <4>0, <4>1, SeenType, Zenon
      <4>. QED
        BY <4>2 DEF ax
    <3>4. v.text \o Seen(v.thinking, v.buf \o x) = (ut \o o) \o s
      BY <2>1
    <3>. HIDE DEF s, o, ut
    <3>5. (ut \o o) \o s = ut \o (o \o s)
      BY <2>1, <3>3, Assoc, Zenon
    <3>. QED
      BY <2>2, <3>1, <3>2, <3>4, <3>5, Zenon DEF s, ut
  <2>4. Scan[u].buf \in Held1
    BY <1>3, <2>2 DEF v
  <2>. QED
    BY <2>3, <2>4, Zenon
<1>. HIDE DEF Shows
<1>. DEFINE P == {n \in Nat : \A u \in ScanState : Len(u.buf) < n => Shows(u)}
<1>4. 0 \in P
  BY <1>1
<1>5. ASSUME NEW n \in Nat, n \in P PROVE n + 1 \in P
  <2>. SUFFICES ASSUME NEW u \in ScanState, Len(u.buf) < n + 1 PROVE Shows(u)
    OBVIOUS
  <2>1. CASE TagsIn(u.buf, Wanted(u.thinking)) = {}
    BY <1>2, <2>1
  <2>2. CASE TagsIn(u.buf, Wanted(u.thinking)) # {}
    <3>1. PassTag(u) \in ScanState /\ Len(PassTag(u).buf) < Len(u.buf)
      BY <2>2, PassTagIs, Zenon
    <3>. DEFINE v == PassTag(u)
    <3>. HIDE DEF v
    <3>2. v \in ScanState /\ Len(v.buf) < n
      BY <1>1, <3>1 DEF v
    <3>3. Shows(v)
      BY <1>5, <3>2
    <3>. QED
      BY <1>3, <2>2, <3>3, Zenon DEF v
  <2>. QED
    BY <2>1, <2>2
<1>6. Shows(ts)
  <2>. HIDE DEF P
  <2>1. Nat \subseteq P
    BY <1>4, <1>5, Inductively
  <2>2. Len(ts.buf) + 1 \in P /\ Len(ts.buf) < Len(ts.buf) + 1
    BY <1>1, <2>1
  <2>. QED
    BY <2>2 DEF P
<1>. QED
  BY <1>6, ScanIs, Zenon DEF Shows

\* The filter between two chunks.
FilterState == [thinking : BOOLEAN, buf : Held1]

LEMMA FeedShows ==
  ASSUME NEW t \in FilterState, NEW delta \in Texts
  PROVE  /\ ProcessFeed(t, delta).thinking \in BOOLEAN
         /\ ProcessFeed(t, delta).buf \in Held1
         /\ ProcessFeed(t, delta).text \in Texts
         /\ \A x \in Texts :
              ProcessFeed(t, delta).text \o Seen(ProcessFeed(t, delta).thinking, ProcessFeed(t, delta).buf \o x)
              = Seen(t.thinking, t.buf \o (delta \o x))
<1>. DEFINE buf == t.buf \o delta
            ts == Feeding([t EXCEPT !.buf = @ \o delta])
<1>1. t.thinking \in BOOLEAN /\ t.buf \in Texts
  BY TagSymbols DEF FilterState, Held1
<1>2. buf \in Texts
  BY <1>1, Concat
<1>3. t = [thinking |-> t.thinking, buf |-> t.buf]
  BY DEF FilterState
<1>4. ts = [thinking |-> t.thinking, buf |-> buf, text |-> <<>>]
  BY <1>3 DEF Feeding
<1>. HIDE DEF ts, buf
<1>5. ts \in ScanState /\ ts.thinking = t.thinking /\ ts.buf = buf /\ ts.text = <<>>
  BY <1>1, <1>2, <1>4, TagSymbols DEF ScanState, Texts
<1>6. ProcessFeed(t, delta) = Scan[ts]
  BY DEF ProcessFeed, ts
<1>7. /\ Scan[ts] \in ScanState /\ Scan[ts].buf \in Held1
      /\ \A x \in Texts : Scan[ts].text \o Seen(Scan[ts].thinking, Scan[ts].buf \o x)
                          = ts.text \o Seen(ts.thinking, ts.buf \o x)
  BY <1>5, ScanShows, Zenon
<1>8. Scan[ts].thinking \in BOOLEAN /\ Scan[ts].text \in Texts
  BY <1>7 DEF ScanState, Texts
<1>9. ASSUME NEW x \in Texts
      PROVE  Scan[ts].text \o Seen(Scan[ts].thinking, Scan[ts].buf \o x)
             = Seen(t.thinking, t.buf \o (delta \o x))
  <2>1. buf \o x = t.buf \o (delta \o x)
    BY <1>1, Assoc, Zenon DEF buf
  <2>. DEFINE s == Seen(t.thinking, buf \o x)
  <2>2. s \in Texts
    <3>1. buf \o x \in Texts
      BY <1>2, Concat
    <3>. QED
      BY <1>1, <3>1, SeenType
  <2>3. <<>> \o s = s
    BY <2>2 DEF Texts
  <2>. HIDE DEF s
  <2>4. Scan[ts].text \o Seen(Scan[ts].thinking, Scan[ts].buf \o x) = <<>> \o s
    BY <1>5, <1>7, Zenon DEF s
  <2>. QED
    BY <2>1, <2>3, <2>4 DEF s
<1>. QED
  BY <1>6, <1>7, <1>8, <1>9, Zenon

\* What is still held at the end is seen, if no thought is open.
LEMMA FlushShows ==
  ASSUME NEW t \in FilterState
  PROVE  /\ FlushTags(t).thinking \in BOOLEAN /\ FlushTags(t).buf = <<>>
         /\ FlushTags(t).text \in Texts
         /\ FlushTags(t).text = Seen(t.thinking, t.buf)
<1>1. t.thinking \in BOOLEAN /\ t.buf \in Texts
  BY TagSymbols DEF FilterState, Held1
<1>2. TagsIn(t.buf, Wanted(t.thinking)) = {}
  <2>1. t.buf = <<>> \/ t.buf = <<"lt">>
    BY DEF FilterState, Held1
  <2>2. 1..Len(t.buf) - 1 = {}
    <3>1. CASE t.buf = <<>>
      <4>1. Len(t.buf) = 0
        BY <3>1
      <4>. QED
        BY <4>1
    <3>2. CASE t.buf = <<"lt">>
      <4>1. Len(t.buf) = 1
        BY <3>2
      <4>. QED
        BY <4>1
    <3>. QED
      BY <2>1, <3>1, <3>2
  <2>. QED
    BY <2>2 DEF TagsIn
<1>3. Seen(t.thinking, t.buf) = Outside(t.thinking, t.buf)
  BY <1>1, <1>2, SeenIs
<1>. QED
  BY <1>1, <1>3, TagSymbols DEF FlushTags, Outside

---------------------------------------------------------------------------
(* Chunks, events and the states of the renderers *)

Args == Seq(Nat \X Nat)
Data == Seq(Symbols \cup (Nat \X Nat))
CallSet == [ix : Nat, id : Nat, args : Args]
ChunkSet == {Text(delta) : delta \in Texts} \cup {Thinking, Finish, Usage}
            \cup {Tool(c.ix, c.id, c.args) : c \in CallSet}
EventNames == {"role", "message_start", "created", "text_start", "text", "thinking_start", "thinking",
               "call", "args", "block_stop", "call_stop", "finish", "usage", "completed", "done",
               "error"}
EventSet == [ev : EventNames, ix : Nat, id : Nat, data : Data]
RenderState == [
  role : BOOLEAN, block : BOOLEAN, toolIx : Nat, toolOpen : BOOLEAN, toolId : Nat,
  started : BOOLEAN, msgAdded : BOOLEAN, reasoning : BOOLEAN, completed : BOOLEAN,
  callId : Seq([ix : Nat, id : Nat]), out : Seq(EventSet)]

\* The text in events, and events without any.
TextPart(e) == IF e.ev = "text" THEN e.data ELSE <<>>
TextOf(evs) == FlattenSeq([i \in DOMAIN evs |-> TextPart(evs[i])])
Mute(evs) == \A i \in DOMAIN evs : evs[i].ev # "text"

LEMMA DataSets == Args \subseteq Data /\ Texts \subseteq Data /\ <<>> \in Args /\ <<>> \in Data
BY DEF Args, Data, Texts

LEMMA EventTypes ==
  /\ \A name \in EventNames : Event(name) \in EventSet
  /\ \A name \in EventNames, data \in Data : At0(name, data) \in EventSet
  /\ \A name \in EventNames, ix \in Nat : AtIx(name, ix) \in EventSet
  /\ \A name \in EventNames, ix \in Nat, id \in Nat : [AtIx(name, ix) EXCEPT !.id = id] \in EventSet
  /\ \A name \in EventNames, ix \in Nat, data \in Data : [AtIx(name, ix) EXCEPT !.data = data] \in EventSet
BY DataSets, Zenon DEF Event, At0, AtIx, EventSet

LEMMA EmitIs ==
  ASSUME NEW s \in RenderState, NEW evs \in Seq(EventSet)
  PROVE  /\ Emit(s, evs) \in RenderState
         /\ Emit(s, evs).out = s.out \o evs
         /\ Emit(s, evs).toolIx = s.toolIx /\ Emit(s, evs).toolOpen = s.toolOpen
         /\ Emit(s, evs).toolId = s.toolId /\ Emit(s, evs).callId = s.callId
         /\ Emit(s, evs).started = s.started
<1>. DEFINE out == s.out \o evs
<1>1. out \in Seq(EventSet)
  BY DEF RenderState
<1>2. Emit(s, evs) = [s EXCEPT !.out = out]
  BY DEF Emit
<1>. HIDE DEF out
<1>3. [s EXCEPT !.out = out] \in RenderState
  BY <1>1, Zenon DEF RenderState
<1>4. /\ [s EXCEPT !.out = out].out = out
      /\ [s EXCEPT !.out = out].toolIx = s.toolIx /\ [s EXCEPT !.out = out].toolOpen = s.toolOpen
      /\ [s EXCEPT !.out = out].toolId = s.toolId /\ [s EXCEPT !.out = out].callId = s.callId
      /\ [s EXCEPT !.out = out].started = s.started
  BY DEF RenderState
<1>. QED
  BY <1>2, <1>3, <1>4 DEF out

TextParts == [e \in EventSet |-> TextPart(e)]

LEMMA TextFlat ==
  /\ TextParts \in [EventSet -> Data]
  /\ \A evs \in Seq(EventSet) : TextOf(evs) = Flat(TextParts, evs)
<1>1. \A e \in EventSet : TextPart(e) \in Data
  BY DataSets DEF TextPart, EventSet
<1>2. TextParts \in [EventSet -> Data] /\ \A e \in EventSet : TextParts[e] = TextPart(e)
  BY <1>1 DEF TextParts
<1>3. ASSUME NEW evs \in Seq(EventSet) PROVE TextOf(evs) = Flat(TextParts, evs)
  <2>1. \A i \in DOMAIN evs : evs[i] \in EventSet
    OBVIOUS
  <2>2. [i \in DOMAIN evs |-> TextPart(evs[i])] = [i \in DOMAIN evs |-> TextParts[evs[i]]]
    BY <1>2, <2>1
  <2>. QED
    BY <2>2 DEF TextOf, Flat
<1>. QED
  BY <1>2, <1>3

LEMMA TextOfConcat ==
  ASSUME NEW a \in Seq(EventSet), NEW b \in Seq(EventSet)
  PROVE  /\ TextOf(a \o b) = TextOf(a) \o TextOf(b)
         /\ TextOf(a) \in Data /\ TextOf(b) \in Data
<1>1. Flat(TextParts, a \o b) = Flat(TextParts, a) \o Flat(TextParts, b)
  <2>1. FlatAdds(TextParts, a, b)
    BY TextFlat, FlatConcat DEF Data
  <2>. QED
    BY <2>1 DEF FlatAdds
<1>2. Flat(TextParts, a) \in Data /\ Flat(TextParts, b) \in Data
  BY TextFlat, FlatType, Zenon DEF Data
<1>3. a \o b \in Seq(EventSet)
  OBVIOUS
<1>. QED
  BY <1>1, <1>2, <1>3, TextFlat, Zenon

LEMMA MuteText ==
  ASSUME NEW evs \in Seq(EventSet), Mute(evs)
  PROVE  TextOf(evs) = <<>>
<1>1. \A i \in DOMAIN evs : evs[i] \in EventSet
  OBVIOUS
<1>2. \A i \in DOMAIN evs : TextParts[evs[i]] = <<>>
  BY <1>1 DEF Mute, TextParts, TextPart
<1>3. Flat(TextParts, evs) = <<>>
  BY <1>2, TextFlat, FlatNothing, Zenon DEF Data
<1>. QED
  BY <1>3, TextFlat

LEMMA OneText ==
  ASSUME NEW delta \in Texts
  PROVE  <<At0("text", delta)>> \in Seq(EventSet) /\ TextOf(<<At0("text", delta)>>) = delta
<1>. DEFINE e == At0("text", delta)
<1>1. e \in EventSet /\ e.ev = "text" /\ e.data = delta
  <2>1. delta \in Data
    BY DataSets
  <2>2. e \in EventSet
    <3>1. "text" \in EventNames
      BY DEF EventNames
    <3>2. At0("text", delta) \in EventSet
      BY <2>1, <3>1, EventTypes
    <3>. QED
      BY <3>2
  <2>. QED
    BY <2>2 DEF At0, Event
<1>. HIDE DEF e
<1>2. [i \in DOMAIN <<e>> |-> TextPart(<<e>>[i])] = <<delta>>
  BY <1>1 DEF TextPart
<1>3. FlattenSeq(<<delta>>) = delta
  BY FlattenOne DEF Texts
<1>4. <<e>> \in Seq(EventSet)
  BY <1>1
<1>. QED
  BY <1>2, <1>3, <1>4 DEF TextOf, e

LEMMA ChunkKinds ==
  /\ \A delta : Text(delta).kind = "text" /\ Text(delta).delta = delta
  /\ Thinking.kind = "thinking" /\ Finish.kind = "finish" /\ Usage.kind = "usage"
  /\ \A ix, id, args : /\ Tool(ix, id, args).kind = "tool" /\ Tool(ix, id, args).ix = ix
                       /\ Tool(ix, id, args).id = id /\ Tool(ix, id, args).args = args
BY DEF Text, Thinking, Finish, Usage, Tool

\* Events without some, and the events beside the text and the calls.
Sans(names) == {evs \in Seq(EventSet) : \A i \in DOMAIN evs : evs[i].ev \notin names}
Aside == Sans({"text", "call", "args"})

LEMMA SansConcat ==
  ASSUME NEW names
  PROVE  /\ <<>> \in Sans(names)
         /\ \A e \in EventSet : e.ev \notin names => <<e>> \in Sans(names)
         /\ \A a, b \in Sans(names) : a \o b \in Sans(names)
<1>1. ASSUME NEW a \in Sans(names), NEW b \in Sans(names) PROVE a \o b \in Sans(names)
  <2>. DEFINE ab == a \o b
              m == Len(a)
              n == Len(b)
  <2>1. /\ m \in Nat /\ n \in Nat /\ DOMAIN a = 1..m /\ DOMAIN b = 1..n /\ DOMAIN ab = 1..m + n
        /\ \A i \in 1..m : ab[i] = a[i]
        /\ \A i \in 1..n : ab[m + i] = b[i]
        /\ ab \in Seq(EventSet)
    BY DEF Sans
  <2>. HIDE DEF m, n, ab
  <2>2. ASSUME NEW i \in 1..m + n PROVE ab[i].ev \notin names
    <3>1. CASE i \in 1..m
      BY <2>1, <3>1 DEF Sans
    <3>2. CASE i > m
      <4>. DEFINE k == i - m
      <4>1. k \in 1..n /\ i = m + k
        BY <2>1, <3>2
      <4>. HIDE DEF k
      <4>2. ab[i] = b[k]
        BY <2>1, <4>1
      <4>. QED
        BY <2>1, <4>1, <4>2 DEF Sans
    <3>. QED
      BY <2>1, <3>1, <3>2
  <2>3. ab \in Sans(names)
    BY <2>1, <2>2 DEF Sans
  <2>. QED
    BY <2>3 DEF ab
<1>2. \A e \in EventSet : e.ev \notin names => <<e>> \in Sans(names)
  BY DEF Sans
<1>3. <<>> \in Sans(names)
  BY DEF Sans
<1>. QED
  BY <1>1, <1>2, <1>3

LEMMA AsideConcat ==
  /\ <<>> \in Aside
  /\ \A e \in EventSet : e.ev \notin {"text", "call", "args"} => <<e>> \in Aside
  /\ \A a, b \in Aside : a \o b \in Aside
  /\ Aside \subseteq Sans({"text"}) /\ Aside \subseteq Sans({"call", "args"})
<1>1. Aside \subseteq Sans({"text"}) /\ Aside \subseteq Sans({"call", "args"})
  BY DEF Aside, Sans
<1>2. <<>> \in Aside /\ \A a, b \in Aside : a \o b \in Aside
  BY SansConcat DEF Aside
<1>3. \A e \in EventSet : e.ev \notin {"text", "call", "args"} => <<e>> \in Aside
  BY SansConcat DEF Aside
<1>. QED
  BY <1>1, <1>2, <1>3

LEMMA AsideIs ==
  ASSUME NEW evs \in Aside
  PROVE  evs \in Seq(EventSet) /\ TextOf(evs) = <<>>
<1>1. evs \in Seq(EventSet) /\ Mute(evs)
  BY DEF Aside, Sans, Mute
<1>. QED
  BY <1>1, MuteText

AsideNames == EventNames \ {"text", "call", "args"}

LEMMA AsideEvents ==
  /\ \A name \in AsideNames : <<Event(name)>> \in Aside
  /\ \A name \in AsideNames, ix \in Nat : <<AtIx(name, ix)>> \in Aside
  /\ \A s \in RenderState : {Role(s), Open(s), StopTool(s), Start(s)} \subseteq Aside
<1>1. \A name \in AsideNames : Event(name) \in EventSet /\ Event(name).ev \notin {"text", "call", "args"}
  BY EventTypes, Zenon DEF AsideNames, Event
<1>2. \A name \in AsideNames, ix \in Nat :
        AtIx(name, ix) \in EventSet /\ AtIx(name, ix).ev \notin {"text", "call", "args"}
  BY EventTypes, Zenon DEF AsideNames, Event, AtIx
<1>3. \A name \in AsideNames : <<Event(name)>> \in Aside
  BY <1>1, AsideConcat
<1>4. \A name \in AsideNames, ix \in Nat : <<AtIx(name, ix)>> \in Aside
  BY <1>2, AsideConcat
<1>5. {"role", "message_start", "created", "block_stop"} \subseteq AsideNames
  BY DEF AsideNames, EventNames
<1>6. ASSUME NEW s \in RenderState PROVE {Role(s), Open(s), StopTool(s), Start(s)} \subseteq Aside
  <2>1. s.toolIx \in Nat
    BY DEF RenderState
  <2>2. Role(s) \in Aside /\ Open(s) \in Aside /\ Start(s) \in Aside
    BY <1>3, <1>5, AsideConcat DEF Role, Open, Start
  <2>3. StopTool(s) \in Aside
    BY <1>4, <1>5, <2>1, AsideConcat DEF StopTool
  <2>. QED
    BY <2>2, <2>3
<1>. QED
  BY <1>3, <1>4, <1>6

\* What a renderer keeps about calls, apart from the output.
SameCalls(s, r) == NextTool(r) = NextTool(s) /\ r.toolId = s.toolId /\ r.callId = s.callId

\* r is s, but for what it knows of what it has opened.
LEMMA Updates ==
  ASSUME NEW s \in RenderState
  PROVE  /\ NextTool(s) \in Nat
         /\ \A r \in {[s EXCEPT !.role = TRUE],
                      [s EXCEPT !.role = TRUE, !.block = TRUE, !.toolOpen = FALSE, !.toolIx = NextTool(s)],
                      [s EXCEPT !.started = TRUE, !.msgAdded = TRUE],
                      [s EXCEPT !.started = TRUE, !.reasoning = TRUE],
                      [s EXCEPT !.started = TRUE],
                      [s EXCEPT !.completed = TRUE]} :
              r \in RenderState /\ r.out = s.out /\ SameCalls(s, r)
         /\ [s EXCEPT !.toolOpen = FALSE] \in RenderState
         /\ [s EXCEPT !.toolOpen = FALSE].out = s.out
<1>. DEFINE n == NextTool(s)
<1>1. s.toolIx \in Nat /\ s.toolOpen \in BOOLEAN
  BY DEF RenderState
<1>2. n \in Nat
  BY <1>1 DEF NextTool
<1>. DEFINE a == [s EXCEPT !.role = TRUE]
            b == [s EXCEPT !.role = TRUE, !.block = TRUE, !.toolOpen = FALSE, !.toolIx = n]
            c == [s EXCEPT !.started = TRUE, !.msgAdded = TRUE]
            d == [s EXCEPT !.started = TRUE, !.reasoning = TRUE]
            e == [s EXCEPT !.started = TRUE]
            f == [s EXCEPT !.completed = TRUE]
            g == [s EXCEPT !.toolOpen = FALSE]
<1>3. a \in RenderState /\ a.out = s.out /\ SameCalls(s, a)
  BY Zenon DEF RenderState, SameCalls, NextTool
<1>. HIDE DEF n
<1>4. b \in RenderState /\ b.out = s.out /\ SameCalls(s, b)
  <2>1. b \in RenderState
    BY <1>2, Zenon DEF RenderState
  <2>2. b.out = s.out /\ b.toolId = s.toolId /\ b.callId = s.callId /\ b.toolOpen = FALSE /\ b.toolIx = n
    BY DEF RenderState
  <2>. QED
    BY <2>1, <2>2 DEF SameCalls, NextTool, n
<1>5. c \in RenderState /\ c.out = s.out /\ SameCalls(s, c)
  BY Zenon DEF RenderState, SameCalls, NextTool
<1>6. d \in RenderState /\ d.out = s.out /\ SameCalls(s, d)
  BY Zenon DEF RenderState, SameCalls, NextTool
<1>7. e \in RenderState /\ e.out = s.out /\ SameCalls(s, e)
  BY Zenon DEF RenderState, SameCalls, NextTool
<1>8. f \in RenderState /\ f.out = s.out /\ SameCalls(s, f)
  BY Zenon DEF RenderState, SameCalls, NextTool
<1>9. g \in RenderState /\ g.out = s.out
  BY Zenon DEF RenderState
<1>. HIDE DEF a, b, c, d, e, f, g
<1>10. \A r \in {a, b, c, d, e, f} : r \in RenderState /\ r.out = s.out /\ SameCalls(s, r)
  BY <1>3, <1>4, <1>5, <1>6, <1>7, <1>8
<1>. QED
  BY <1>2, <1>9, <1>10 DEF a, b, c, d, e, f, g, n

\* Emitting after such an update.
LEMMA EmitAfter ==
  ASSUME NEW s \in RenderState, NEW r \in RenderState, r.out = s.out, NEW evs \in Seq(EventSet)
  PROVE  /\ Emit(r, evs) \in RenderState /\ Emit(r, evs).out = s.out \o evs
         /\ SameCalls(s, r) => SameCalls(s, Emit(r, evs))
<1>1. /\ Emit(r, evs) \in RenderState /\ Emit(r, evs).out = r.out \o evs
      /\ Emit(r, evs).toolIx = r.toolIx /\ Emit(r, evs).toolOpen = r.toolOpen
      /\ Emit(r, evs).toolId = r.toolId /\ Emit(r, evs).callId = r.callId
  BY EmitIs, Zenon
<1>. QED
  BY <1>1 DEF SameCalls, NextTool

LEMMA EventAssoc == \A r, s, t \in Seq(EventSet) : (r \o s) \o t = r \o (s \o t)
BY ConcatAssociative

\* A delta is told as it is, after what it opens.
LEMMA TextRendered ==
  ASSUME NEW d \in Dialects, NEW s \in RenderState, NEW delta \in Texts
  PROVE  \E evs \in Aside :
           LET r == RenderStreamChunk(d, s, Text(delta))
           IN /\ r \in RenderState /\ r.out = s.out \o (evs \o <<At0("text", delta)>>)
              /\ SameCalls(s, r)
<1>. DEFINE ch == Text(delta)
            say == <<At0("text", delta)>>
            r == RenderStreamChunk(d, s, ch)
            Goal == \E evs \in Aside :
                      r \in RenderState /\ r.out = s.out \o (evs \o say) /\ SameCalls(s, r)
<1>. SUFFICES Goal
  OBVIOUS
<1>1. ch.kind = "text" /\ ch.delta = delta
  BY ChunkKinds
<1>2. say \in Seq(EventSet)
  BY OneText, Zenon
<1>3. \A evs \in Aside : evs \in Seq(EventSet) /\ evs \o say \in Seq(EventSet)
  <2>. HIDE DEF say
  <2>. QED
    BY <1>2, AsideIs
<1>4. SameCalls(s, s)
  BY DEF SameCalls
<1>5. {Role(s), Open(s), StopTool(s), Start(s)} \subseteq Aside
  BY AsideEvents
<1>6. /\ <<Event("text_start")>> \in Aside /\ <<>> \in Aside
  BY AsideEvents, AsideConcat DEF AsideNames, EventNames
<1>. HIDE DEF ch, say, r
<1>7. CASE d = "openai"
  <2>. DEFINE q == [s EXCEPT !.role = TRUE]
  <2>1. r = Emit(q, Role(s) \o say)
    BY <1>1, <1>7 DEF r, RenderStreamChunk, OpenAI, say
  <2>2. q \in RenderState /\ q.out = s.out /\ SameCalls(s, q)
    BY Updates, Zenon
  <2>. HIDE DEF q
  <2>. QED
    BY <1>3, <1>5, <2>1, <2>2, EmitAfter, Zenon
<1>8. CASE d = "anthropic"
  <2>. DEFINE q == [s EXCEPT !.role = TRUE, !.block = TRUE, !.toolOpen = FALSE, !.toolIx = NextTool(s)]
              start == IF s.block THEN <<>> ELSE <<Event("text_start")>>
              evs == (Open(s) \o StopTool(s)) \o start
  <2>1. r = Emit(q, evs \o say)
    <3>1. r = Emit(q, Open(s) \o StopTool(s) \o start \o say)
      BY <1>1, <1>8 DEF r, RenderStreamChunk, Anthropic, AnthropicText, say
    <3>. QED
      BY <3>1
  <2>2. q \in RenderState /\ q.out = s.out /\ SameCalls(s, q)
    BY Updates, Zenon
  <2>3. start \in Aside
    BY <1>6
  <2>. HIDE DEF q, start
  <2>4. evs \in Aside
    BY <1>5, <2>3, AsideConcat
  <2>. HIDE DEF evs
  <2>. QED
    BY <1>3, <2>1, <2>2, <2>4, EmitAfter, Zenon
<1>9. CASE d = "responses"
  <2>. DEFINE q == [s EXCEPT !.started = TRUE, !.msgAdded = TRUE]
              start == IF s.msgAdded THEN <<>> ELSE <<Event("text_start")>>
              evs == Start(s) \o start
  <2>1. r = Emit(q, evs \o say)
    BY <1>1, <1>9 DEF r, RenderStreamChunk, Responses, ResponsesText, say
  <2>2. q \in RenderState /\ q.out = s.out /\ SameCalls(s, q)
    BY Updates, Zenon
  <2>3. start \in Aside
    BY <1>6
  <2>. HIDE DEF q, start
  <2>4. evs \in Aside
    BY <1>5, <2>3, AsideConcat
  <2>. HIDE DEF evs
  <2>. QED
    BY <1>3, <2>1, <2>2, <2>4, EmitAfter, Zenon
<1>10. CASE d \in {"gemini", "ollama"}
  <2>1. r = Emit(s, say)
    BY <1>1, <1>10 DEF r, RenderStreamChunk, Gemini, Ollama, say
  <2>2. <<>> \o say = say
    BY <1>2
  <2>. QED
    BY <1>2, <1>4, <1>6, <2>1, <2>2, EmitAfter, Zenon
<1>. QED
  BY <1>7, <1>8, <1>9, <1>10, Zenon DEF Dialects, r, ch, say

\* Anything else but a call tells neither text nor calls.
LEMMA AsideRendered ==
  ASSUME NEW d \in Dialects, NEW s \in RenderState, NEW ch \in {Thinking, Finish, Usage}
  PROVE  \E evs \in Aside :
           LET r == RenderStreamChunk(d, s, ch)
           IN /\ r \in RenderState /\ r.out = s.out \o evs
              /\ ch.kind # "finish" => SameCalls(s, r)
<1>. DEFINE r == RenderStreamChunk(d, s, ch)
            Goal == \E evs \in Aside : /\ r \in RenderState /\ r.out = s.out \o evs
                                       /\ ch.kind # "finish" => SameCalls(s, r)
<1>. SUFFICES Goal
  OBVIOUS
<1>1. ch.kind \in {"thinking", "finish", "usage"}
  BY ChunkKinds
<1>2. \A evs \in Aside : evs \in Seq(EventSet)
  BY AsideIs
<1>3. SameCalls(s, s) /\ s.out \in Seq(EventSet)
  BY DEF SameCalls, RenderState
<1>4. {Role(s), Open(s), StopTool(s), Start(s)} \subseteq Aside
  BY AsideEvents
<1>5. /\ \A name \in {"thinking", "thinking_start", "finish", "usage", "completed"} : <<Event(name)>> \in Aside
      /\ <<AtIx("block_stop", 0)>> \in Aside /\ <<>> \in Aside
  BY AsideEvents, AsideConcat DEF AsideNames, EventNames
<1>6. ASSUME NEW evs \in Aside, r = Emit(s, evs) PROVE Goal
  BY <1>2, <1>3, <1>6, EmitAfter, Zenon
<1>7. ASSUME r = s PROVE Goal
  <2>1. s.out \o <<>> = s.out
    BY <1>3
  <2>. QED
    BY <1>3, <1>5, <1>7, <2>1, Zenon
<1>8. ASSUME NEW q \in RenderState, q.out = s.out, SameCalls(s, q), NEW evs \in Aside, r = Emit(q, evs)
      PROVE  Goal
  BY <1>2, <1>8, EmitAfter, Zenon
<1>9. CASE d = "openai"
  <2>1. CASE ch.kind = "thinking"
    <3>. DEFINE q == [s EXCEPT !.role = TRUE]
                evs == Role(s) \o <<Event("thinking")>>
    <3>1. r = Emit(q, evs)
      BY <1>9, <2>1 DEF RenderStreamChunk, OpenAI
    <3>2. q \in RenderState /\ q.out = s.out /\ SameCalls(s, q)
      BY Updates, Zenon
    <3>3. evs \in Aside
      BY <1>4, <1>5, AsideConcat
    <3>. HIDE DEF q, evs, r, Goal
    <3>. QED
      BY <1>8, <3>1, <3>2, <3>3
  <2>2. CASE ch.kind \in {"finish", "usage"}
    <3>1. r = Emit(s, <<Event(ch.kind)>>)
      BY <1>9, <2>2 DEF RenderStreamChunk, OpenAI
    <3>2. <<Event(ch.kind)>> \in Aside
      BY <1>5, <2>2
    <3>. HIDE DEF r, Goal
    <3>. QED
      BY <1>6, <3>1, <3>2
  <2>. QED
    BY <1>1, <2>1, <2>2
<1>10. CASE d = "anthropic"
  <2>1. CASE ch.kind = "thinking"
    <3>. DEFINE q == [s EXCEPT !.role = TRUE]
                evs == Open(s) \o <<Event("thinking")>>
    <3>1. r = Emit(q, evs)
      BY <1>10, <2>1 DEF RenderStreamChunk, Anthropic
    <3>2. q \in RenderState /\ q.out = s.out /\ SameCalls(s, q)
      BY Updates, Zenon
    <3>3. evs \in Aside
      BY <1>4, <1>5, AsideConcat
    <3>. HIDE DEF q, evs, r, Goal
    <3>. QED
      BY <1>8, <3>1, <3>2, <3>3
  <2>2. CASE ch.kind = "finish"
    <3>. DEFINE q == [s EXCEPT !.toolOpen = FALSE]
                stop == IF s.block THEN <<AtIx("block_stop", 0)>> ELSE <<>>
                evs == StopTool(s) \o stop \o <<Event("finish")>>
    <3>1. r = Emit(q, evs)
      BY <1>10, <2>2 DEF RenderStreamChunk, Anthropic, AnthropicFinish
    <3>2. q \in RenderState /\ q.out = s.out
      BY Updates, Zenon
    <3>3. stop \in Aside
      BY <1>5
    <3>. HIDE DEF q, stop
    <3>4. evs \in Aside
      BY <1>4, <1>5, <3>3, AsideConcat
    <3>. HIDE DEF evs
    <3>. QED
      BY <1>2, <2>2, <3>1, <3>2, <3>4, EmitAfter, Zenon
  <2>3. CASE ch.kind = "usage"
    <3>1. r = s
      BY <1>10, <2>3 DEF RenderStreamChunk, Anthropic
    <3>. HIDE DEF r, Goal
    <3>. QED
      BY <1>7, <3>1
  <2>. QED
    BY <1>1, <2>1, <2>2, <2>3
<1>11. CASE d = "responses"
  <2>1. CASE ch.kind = "thinking"
    <3>. DEFINE q == [s EXCEPT !.started = TRUE, !.reasoning = TRUE]
                start == IF s.reasoning THEN <<>> ELSE <<Event("thinking_start")>>
                evs == Start(s) \o start \o <<Event("thinking")>>
    <3>1. r = Emit(q, evs)
      BY <1>11, <2>1 DEF RenderStreamChunk, Responses, ResponsesThinking
    <3>2. q \in RenderState /\ q.out = s.out /\ SameCalls(s, q)
      BY Updates, Zenon
    <3>3. start \in Aside
      BY <1>5
    <3>. HIDE DEF q, start
    <3>4. evs \in Aside
      BY <1>4, <1>5, <3>3, AsideConcat
    <3>. HIDE DEF evs, r, Goal
    <3>. QED
      BY <1>8, <3>1, <3>2, <3>4
  <2>2. CASE ch.kind = "finish"
    <3>. DEFINE stop == IF s.msgAdded THEN <<AtIx("block_stop", 0)>> ELSE <<>>
                stops == [i \in DOMAIN s.callId |->
                            [AtIx("call_stop", s.callId[i].ix) EXCEPT !.id = s.callId[i].id]]
    <3>1. r = Emit(s, stop \o stops)
      BY <1>11, <2>2 DEF RenderStreamChunk, Responses, ResponsesFinish
    <3>2. stop \in Aside
      BY <1>5
    <3>3. stops \in Aside
      <4>1. s.callId \in Seq([ix : Nat, id : Nat])
        BY DEF RenderState
      <4>. DEFINE ids == s.callId
                  n == Len(ids)
      <4>2. n \in Nat /\ DOMAIN ids = 1..n /\ \A i \in 1..n : ids[i].ix \in Nat /\ ids[i].id \in Nat
        <5>1. n \in Nat /\ DOMAIN ids = 1..n /\ \A i \in 1..n : ids[i] \in [ix : Nat, id : Nat]
          <6>. DEFINE R == [ix : Nat, id : Nat]
          <6>. HIDE DEF ids, R
          <6>1. ids \in Seq(R)
            BY <4>1 DEF ids, R
          <6>2. n \in Nat /\ DOMAIN ids = 1..n /\ \A i \in 1..n : ids[i] \in R
            BY <6>1
          <6>. QED
            BY <6>2 DEF R
        <5>. HIDE DEF ids, n
        <5>. QED
          BY <5>1
      <4>. HIDE DEF ids, n
      <4>3. "call_stop" \in EventNames
        BY DEF EventNames
      <4>4. \A ix \in Nat, id \in Nat : [AtIx("call_stop", ix) EXCEPT !.id = id] \in EventSet
        BY <4>3, EventTypes
      <4>5. \A ix \in Nat, id \in Nat : [AtIx("call_stop", ix) EXCEPT !.id = id].ev = "call_stop"
        BY DEF AtIx, Event
      <4>6. [i \in DOMAIN ids |-> [AtIx("call_stop", ids[i].ix) EXCEPT !.id = ids[i].id]] \in Aside
        <5>. DEFINE e(i) == [AtIx("call_stop", ids[i].ix) EXCEPT !.id = ids[i].id]
                    es == [i \in DOMAIN ids |-> e(i)]
        <5>1. \A i \in 1..n : e(i) \in EventSet /\ e(i).ev = "call_stop"
          BY <4>2, <4>4, <4>5
        <5>. HIDE DEF e
        <5>2. es \in Seq(EventSet) /\ DOMAIN es = 1..n /\ \A i \in 1..n : es[i] = e(i)
          BY <4>2, <5>1
        <5>. HIDE DEF es
        <5>3. es \in Aside
          BY <5>1, <5>2 DEF Aside, Sans
        <5>. QED
          BY <5>3 DEF es, e
      <4>. QED
        BY <4>6 DEF ids
    <3>. HIDE DEF stop, stops
    <3>4. stop \o stops \in Aside
      BY <3>2, <3>3, AsideConcat
    <3>. HIDE DEF r, Goal
    <3>. QED
      BY <1>6, <3>1, <3>4
  <2>3. CASE ch.kind = "usage"
    <3>. DEFINE q == [s EXCEPT !.started = TRUE]
                u == Emit(q, Start(s))
    <3>1. r = Complete(u)
      BY <1>11, <2>3 DEF RenderStreamChunk, Responses
    <3>2. q \in RenderState /\ q.out = s.out /\ SameCalls(s, q)
      BY Updates, Zenon
    <3>. HIDE DEF q
    <3>3. u \in RenderState /\ u.out = s.out \o Start(s) /\ SameCalls(s, u) /\ Start(s) \in Aside
      BY <1>2, <1>4, <3>2, EmitAfter, Zenon
    <3>. HIDE DEF u
    <3>4. CASE u.completed
      <4>1. r = u
        BY <3>1, <3>4 DEF Complete
      <4>. HIDE DEF r
      <4>. QED
        BY <3>3, <4>1
    <3>5. CASE ~u.completed
      <4>. DEFINE v == [u EXCEPT !.completed = TRUE]
                  done == <<Event("completed")>>
      <4>1. r = Emit(v, done)
        BY <3>1, <3>5 DEF Complete
      <4>2. v \in RenderState /\ v.out = u.out /\ SameCalls(u, v)
        BY <3>3, Updates, Zenon
      <4>3. done \in Aside
        BY <1>5
      <4>. HIDE DEF v, done, r
      <4>4. r \in RenderState /\ r.out = u.out \o done /\ SameCalls(u, r)
        BY <1>2, <3>3, <4>1, <4>2, <4>3, EmitAfter, Zenon
      <4>5. r.out = s.out \o (Start(s) \o done)
        <5>1. s.out \in Seq(EventSet) /\ Start(s) \in Seq(EventSet) /\ done \in Seq(EventSet)
          BY <1>2, <1>3, <3>3, <4>3
        <5>2. (s.out \o Start(s)) \o done = s.out \o (Start(s) \o done)
          BY <5>1, EventAssoc, Zenon
        <5>. QED
          BY <3>3, <4>4, <5>2
      <4>6. Start(s) \o done \in Aside
        BY <3>3, <4>3, AsideConcat
      <4>7. SameCalls(s, r)
        BY <3>3, <4>4 DEF SameCalls
      <4>. QED
        BY <4>4, <4>5, <4>6, <4>7, Zenon
    <3>. QED
      BY <3>4, <3>5
  <2>. QED
    BY <1>1, <2>1, <2>2, <2>3
<1>12. CASE d = "gemini"
  <2>1. CASE ch.kind = "thinking"
    <3>1. r = s
      BY <1>12, <2>1 DEF RenderStreamChunk, Gemini
    <3>. HIDE DEF r, Goal
    <3>. QED
      BY <1>7, <3>1
  <2>2. CASE ch.kind \in {"finish", "usage"}
    <3>1. r = Emit(s, <<Event(ch.kind)>>)
      BY <1>12, <2>2 DEF RenderStreamChunk, Gemini
    <3>2. <<Event(ch.kind)>> \in Aside
      BY <1>5, <2>2
    <3>. HIDE DEF r, Goal
    <3>. QED
      BY <1>6, <3>1, <3>2
  <2>. QED
    BY <1>1, <2>1, <2>2
<1>13. CASE d = "ollama"
  <2>1. CASE ch.kind = "thinking"
    <3>1. r = Emit(s, <<Event("thinking")>>)
      BY <1>13, <2>1 DEF RenderStreamChunk, Ollama
    <3>. HIDE DEF r, Goal
    <3>. QED
      BY <1>5, <1>6, <3>1
  <2>2. CASE ch.kind \in {"finish", "usage"}
    <3>1. r = s
      BY <1>13, <2>2 DEF RenderStreamChunk, Ollama
    <3>. HIDE DEF r, Goal
    <3>. QED
      BY <1>7, <3>1
  <2>. QED
    BY <1>1, <2>1, <2>2
<1>. QED
  BY <1>9, <1>10, <1>11, <1>12, <1>13 DEF Dialects

\* A call that a renderer takes for a new one, and the events by which it tells it.
New(d, s, c) == /\ c.id # 0
                /\ d = "anthropic" => c.id # s.toolId
                /\ d = "responses" => ~Added(s, c.ix)
Whole1(ix, id, args) == <<[ev |-> "call", ix |-> ix, id |-> id, data |-> args]>>
Whole2(ix, id, argsId, args) ==
  <<[ev |-> "call", ix |-> ix, id |-> id, data |-> <<>>]>>
  \o (IF args # <<>> THEN <<[ev |-> "args", ix |-> ix, id |-> argsId, data |-> args]>> ELSE <<>>)
WholeEvents(d, s, c) ==
  CASE d = "openai"    -> Whole1(c.ix, c.id, c.args)
    [] d = "anthropic" -> Whole2(NextTool(s), c.id, 0, c.args)
    [] d = "responses" -> Whole2(c.ix, c.id, c.id, c.args)
    [] OTHER           -> Whole1(Len(s.out), c.id, c.args)

LEMMA Eventful ==
  /\ \A ev \in {"call", "args"}, ix \in Nat, id \in Nat, data \in Args :
       <<[ev |-> ev, ix |-> ix, id |-> id, data |-> data]>> \in Sans({"text"})
  /\ <<>> \in Sans({"text"}) /\ \A evs \in Sans({"text"}) : evs \in Seq(EventSet) /\ TextOf(evs) = <<>>
<1>1. ASSUME NEW ev \in {"call", "args"}, NEW ix \in Nat, NEW id \in Nat, NEW data \in Args
      PROVE  <<[ev |-> ev, ix |-> ix, id |-> id, data |-> data]>> \in Sans({"text"})
  <2>. DEFINE e == [ev |-> ev, ix |-> ix, id |-> id, data |-> data]
  <2>1. data \in Data /\ ev \in EventNames
    BY DataSets DEF EventNames
  <2>2. e \in EventSet /\ e.ev \notin {"text"}
    BY <2>1 DEF EventSet
  <2>. HIDE DEF e
  <2>3. <<e>> \in Sans({"text"})
    BY <2>2, SansConcat
  <2>. QED
    BY <2>3 DEF e
<1>2. \A evs \in Sans({"text"}) : evs \in Seq(EventSet) /\ Mute(evs)
  BY DEF Sans, Mute
<1>. QED
  BY <1>1, <1>2, MuteText, SansConcat

LEMMA EventForms ==
  /\ \A ix, id : [AtIx("call", ix) EXCEPT !.id = id] = [ev |-> "call", ix |-> ix, id |-> id, data |-> <<>>]
  /\ \A ix, data : [AtIx("args", ix) EXCEPT !.data = data] = [ev |-> "args", ix |-> ix, id |-> 0, data |-> data]
<1>1. \A name, ix : AtIx(name, ix) = [ev |-> name, ix |-> ix, id |-> 0, data |-> <<>>]
  BY DEF AtIx, Event
<1>2. ASSUME NEW ix, NEW id
      PROVE  [AtIx("call", ix) EXCEPT !.id = id] = [ev |-> "call", ix |-> ix, id |-> id, data |-> <<>>]
  BY <1>1
<1>3. ASSUME NEW ix, NEW data
      PROVE  [AtIx("args", ix) EXCEPT !.data = data] = [ev |-> "args", ix |-> ix, id |-> 0, data |-> data]
  BY <1>1
<1>. QED
  BY <1>2, <1>3

\* A fragment of a call adds no text, and a new call is told whole.
LEMMA ToolRendered ==
  ASSUME NEW d \in Dialects, NEW s \in RenderState, NEW c \in CallSet
  PROVE  LET r == RenderStreamChunk(d, s, Tool(c.ix, c.id, c.args))
         IN /\ r \in RenderState
            /\ \E evs \in Sans({"text"}) : r.out = s.out \o evs
            /\ New(d, s, c) =>
                 /\ \E a \in Aside : r.out = s.out \o (a \o WholeEvents(d, s, c))
                 /\ d = "anthropic" => NextTool(r) = NextTool(s) + 1 /\ r.toolId = c.id
                 /\ d = "responses" => r.callId = Append(s.callId, [ix |-> c.ix, id |-> c.id])
<1>. DEFINE ch == Tool(c.ix, c.id, c.args)
            r == RenderStreamChunk(d, s, ch)
            Goal == /\ r \in RenderState
                    /\ \E evs \in Sans({"text"}) : r.out = s.out \o evs
                    /\ New(d, s, c) =>
                         /\ \E a \in Aside : r.out = s.out \o (a \o WholeEvents(d, s, c))
                         /\ d = "anthropic" => NextTool(r) = NextTool(s) + 1 /\ r.toolId = c.id
                         /\ d = "responses" => r.callId = Append(s.callId, [ix |-> c.ix, id |-> c.id])
<1>. SUFFICES Goal
  OBVIOUS
<1>1. ch.kind = "tool" /\ ch.ix = c.ix /\ ch.id = c.id /\ ch.args = c.args
  BY ChunkKinds
<1>2. c.ix \in Nat /\ c.id \in Nat /\ c.args \in Args /\ s.out \in Seq(EventSet) /\ Len(s.out) \in Nat
  BY DEF CallSet, RenderState
<1>3. \A evs \in Aside : evs \in Seq(EventSet) /\ evs \in Sans({"text"})
  BY AsideIs, AsideConcat
<1>4. {Role(s), Open(s), StopTool(s), Start(s)} \subseteq Aside /\ <<>> \in Aside
  BY AsideEvents, AsideConcat
<1>5. \A evs \in Sans({"text"}) : evs \in Seq(EventSet)
  BY Eventful
<1>6. \A a, b \in Sans({"text"}) : a \o b \in Sans({"text"})
  BY SansConcat
<1>. HIDE DEF ch, r
<1>7. CASE d = "openai"
  <2>. DEFINE q == [s EXCEPT !.role = TRUE]
              w == Whole1(c.ix, c.id, c.args)
              evs == Role(s) \o w
  <2>1. r = Emit(q, evs)
    BY <1>1, <1>7 DEF r, RenderStreamChunk, OpenAI, Whole1
  <2>2. q \in RenderState /\ q.out = s.out
    BY Updates, Zenon
  <2>3. w \in Sans({"text"})
    BY <1>2, Eventful DEF Whole1
  <2>4. w = WholeEvents(d, s, c)
    BY <1>7 DEF WholeEvents
  <2>. HIDE DEF q, w
  <2>5. evs \in Sans({"text"})
    BY <1>3, <1>4, <1>6, <2>3
  <2>6. r \in RenderState /\ r.out = s.out \o evs
    BY <1>5, <2>1, <2>2, <2>5, EmitAfter, Zenon
  <2>. QED
    BY <1>4, <1>7, <2>4, <2>5, <2>6, Zenon
<1>8. CASE d = "anthropic"
  <2>. DEFINE opens == c.id # 0 /\ c.id # s.toolId
              ix == IF opens THEN NextTool(s) ELSE s.toolIx
              toolId == IF opens THEN c.id ELSE s.toolId
              toolOpen == s.toolOpen \/ opens
              q == [s EXCEPT !.role = TRUE, !.toolIx = ix, !.toolOpen = toolOpen, !.toolId = toolId]
              call == <<[ev |-> "call", ix |-> ix, id |-> c.id, data |-> <<>>]>>
              opening == IF opens THEN StopTool(s) \o call ELSE <<>>
              args == IF (s.toolOpen \/ opens) /\ c.args # <<>>
                      THEN <<[ev |-> "args", ix |-> ix, id |-> 0, data |-> c.args]>> ELSE <<>>
              evs == (Open(s) \o opening) \o args
  <2>1. r = Emit(q, evs)
    <3>1. call = <<[AtIx("call", ix) EXCEPT !.id = c.id]>>
      BY EventForms
    <3>2. args = IF (s.toolOpen \/ opens) /\ c.args # <<>>
                 THEN <<[AtIx("args", ix) EXCEPT !.data = c.args]>> ELSE <<>>
      BY EventForms
    <3>3. q = [s EXCEPT !.role = TRUE, !.toolIx = ix, !.toolOpen = @ \/ opens,
                        !.toolId = IF opens THEN c.id ELSE @]
      OBVIOUS
    <3>4. r = AnthropicTool(s, ch)
      BY <1>1, <1>8 DEF r, RenderStreamChunk, Anthropic
    <3>. HIDE DEF call, args, q
    <3>. QED
      BY <1>1, <3>1, <3>2, <3>3, <3>4 DEF AnthropicTool
  <2>2. s.toolIx \in Nat /\ s.toolOpen \in BOOLEAN /\ s.toolId \in Nat /\ NextTool(s) \in Nat
    BY Updates, Zenon DEF RenderState
  <2>3. ix \in Nat /\ toolId \in Nat /\ toolOpen \in BOOLEAN /\ (opens => ix = NextTool(s) /\ toolId = c.id /\ toolOpen)
    BY <1>2, <2>2
  <2>4. call \in Sans({"text"}) /\ args \in Sans({"text"})
    BY <1>2, <2>3, Eventful, DataSets
  <2>5. opens => call \o args = WholeEvents(d, s, c)
    BY <1>8, <2>3 DEF WholeEvents, Whole2
  <2>6. New(d, s, c) => opens
    BY <1>8 DEF New
  <2>. HIDE DEF ix, toolId, toolOpen
  <2>7. q \in RenderState /\ q.out = s.out /\ q.toolIx = ix /\ q.toolOpen = toolOpen /\ q.toolId = toolId
    <3>1. q \in RenderState
      BY <2>3, Zenon DEF RenderState
    <3>2. q.out = s.out /\ q.toolIx = ix
      BY DEF RenderState
    <3>3. q.toolOpen = toolOpen /\ q.toolId = toolId
      BY DEF RenderState
    <3>. QED
      BY <3>1, <3>2, <3>3
  <2>. HIDE DEF q, opens, call, args
  <2>8. opening \in Sans({"text"})
    BY <1>3, <1>4, <1>6, <2>4
  <2>9. opens => evs = (Open(s) \o StopTool(s)) \o (call \o args)
    <3>1. Open(s) \in Seq(EventSet) /\ StopTool(s) \in Seq(EventSet) /\ call \in Seq(EventSet) /\ args \in Seq(EventSet)
      BY <1>3, <1>4, <1>5, <2>4
    <3>2. Open(s) \o (StopTool(s) \o call) = (Open(s) \o StopTool(s)) \o call
      BY <3>1, EventAssoc, Zenon
    <3>3. Open(s) \o StopTool(s) \in Seq(EventSet)
      BY <3>1
    <3>4. ((Open(s) \o StopTool(s)) \o call) \o args = (Open(s) \o StopTool(s)) \o (call \o args)
      BY <3>1, <3>3, EventAssoc, Zenon
    <3>. QED
      BY <3>2, <3>4, Zenon
  <2>. HIDE DEF opening
  <2>10. evs \in Sans({"text"})
    BY <1>3, <1>4, <1>6, <2>4, <2>8
  <2>. HIDE DEF evs
  <2>11. /\ r \in RenderState /\ r.out = s.out \o evs
         /\ r.toolIx = q.toolIx /\ r.toolOpen = q.toolOpen /\ r.toolId = q.toolId
    BY <1>5, <2>1, <2>7, <2>10, EmitAfter, EmitIs, Zenon
  <2>12. opens => NextTool(r) = NextTool(s) + 1 /\ r.toolId = c.id
    BY <2>3, <2>7, <2>11 DEF NextTool
  <2>13. Open(s) \o StopTool(s) \in Aside
    BY <1>4, AsideConcat
  <2>. QED
    BY <1>8, <2>5, <2>6, <2>9, <2>10, <2>11, <2>12, <2>13, Zenon
<1>9. CASE d = "responses"
  <2>. DEFINE adds == c.id # 0 /\ ~Added(s, c.ix)
              id == IF adds THEN c.id ELSE IdAt(s, c.ix)
              callId == IF adds THEN Append(s.callId, [ix |-> c.ix, id |-> id]) ELSE s.callId
              q == [s EXCEPT !.started = TRUE, !.callId = callId]
              call == <<[ev |-> "call", ix |-> c.ix, id |-> id, data |-> <<>>]>>
              adding == IF adds THEN call ELSE <<>>
              args == IF c.args # <<>> THEN <<[ev |-> "args", ix |-> c.ix, id |-> id, data |-> c.args]>>
                      ELSE <<>>
              evs == (Start(s) \o adding) \o args
  <2>1. r = Emit(q, evs)
    <3>1. call = <<[AtIx("call", c.ix) EXCEPT !.id = id]>>
      BY EventForms
    <3>2. q = [s EXCEPT !.started = TRUE,
                        !.callId = IF adds THEN Append(@, [ix |-> c.ix, id |-> id]) ELSE @]
      OBVIOUS
    <3>3. r = ResponsesTool(s, ch)
      BY <1>1, <1>9 DEF r, RenderStreamChunk, Responses
    <3>. HIDE DEF call, q
    <3>. QED
      BY <1>1, <3>1, <3>2, <3>3 DEF ResponsesTool
  <2>. DEFINE R == [ix : Nat, id : Nat]
  <2>2. s.callId \in Seq(R)
    BY DEF RenderState
  <2>3. id \in Nat /\ (adds => id = c.id)
    <3>1. CASE Added(s, c.ix)
      <4>. DEFINE i == CHOOSE i \in DOMAIN s.callId : s.callId[i].ix = c.ix
      <4>1. i \in DOMAIN s.callId
        BY <3>1 DEF Added
      <4>. HIDE DEF i, R
      <4>2. s.callId[i] \in R
        BY <2>2, <4>1
      <4>3. s.callId[i].id \in Nat
        BY <4>2 DEF R
      <4>4. IdAt(s, c.ix) = s.callId[i].id
        BY <3>1 DEF IdAt, i
      <4>. QED
        BY <3>1, <4>3, <4>4
    <3>2. CASE ~Added(s, c.ix)
      BY <1>2, <3>2 DEF IdAt
    <3>. QED
      BY <3>1, <3>2
  <2>4. call \in Sans({"text"}) /\ args \in Sans({"text"}) /\ <<>> \in Sans({"text"})
    BY <1>2, <2>3, Eventful, DataSets
  <2>5. adds => call \o args = WholeEvents(d, s, c)
    BY <1>9, <2>3 DEF WholeEvents, Whole2
  <2>6. New(d, s, c) => adds
    BY <1>9 DEF New
  <2>. HIDE DEF id
  <2>7. callId \in Seq(R) /\ (adds => callId = Append(s.callId, [ix |-> c.ix, id |-> c.id]))
    <3>. DEFINE e == [ix |-> c.ix, id |-> id]
    <3>1. e \in R
      BY <1>2, <2>3
    <3>. HIDE DEF e, R
    <3>2. callId \in Seq(R)
      BY <2>2, <3>1 DEF e
    <3>. QED
      BY <2>3, <3>2
  <2>. HIDE DEF callId
  <2>8. q \in RenderState /\ q.out = s.out /\ q.callId = callId
    <3>1. q \in RenderState
      BY <2>7, Zenon DEF RenderState
    <3>2. q.out = s.out
      BY DEF RenderState
    <3>3. q.callId = callId
      BY DEF RenderState
    <3>. QED
      BY <3>1, <3>2, <3>3
  <2>. HIDE DEF q, adds, call, args
  <2>9. adding \in Sans({"text"})
    BY <2>4
  <2>10. adds => evs = Start(s) \o (call \o args)
    <3>1. Start(s) \in Seq(EventSet) /\ call \in Seq(EventSet) /\ args \in Seq(EventSet)
      BY <1>3, <1>4, <1>5, <2>4
    <3>. QED
      BY <3>1, EventAssoc, Zenon
  <2>. HIDE DEF adding
  <2>11. evs \in Sans({"text"})
    BY <1>3, <1>4, <1>6, <2>4, <2>9
  <2>. HIDE DEF evs
  <2>12. r \in RenderState /\ r.out = s.out \o evs /\ r.callId = q.callId
    BY <1>5, <2>1, <2>8, <2>11, EmitAfter, EmitIs, Zenon
  <2>. QED
    BY <1>4, <1>9, <2>5, <2>6, <2>7, <2>8, <2>10, <2>11, <2>12, Zenon
<1>10. CASE d \in {"gemini", "ollama"}
  <2>. DEFINE w == Whole1(Len(s.out), c.id, c.args)
  <2>1. r = Emit(s, w)
    BY <1>1, <1>10 DEF r, RenderStreamChunk, Gemini, Ollama, Whole1
  <2>2. w \in Sans({"text"})
    BY <1>2, Eventful DEF Whole1
  <2>3. w = WholeEvents(d, s, c)
    BY <1>10 DEF WholeEvents
  <2>. HIDE DEF w
  <2>4. r \in RenderState /\ r.out = s.out \o w
    BY <1>5, <2>1, <2>2, EmitAfter, Zenon
  <2>5. <<>> \o w = w
    BY <1>5, <2>2
  <2>. QED
    BY <1>4, <1>10, <2>2, <2>3, <2>4, <2>5, Zenon
<1>. QED
  BY <1>7, <1>8, <1>9, <1>10, Zenon DEF Dialects

\* The end of the stream adds neither text nor calls.
LEMMA DoneRendered ==
  ASSUME NEW d \in Dialects, NEW s \in RenderState
  PROVE  \E evs \in Aside : RenderStreamDone(d, s) \in RenderState /\ RenderStreamDone(d, s).out = s.out \o evs
<1>. DEFINE r == RenderStreamDone(d, s)
<1>1. <<Event("done")>> \in Aside /\ <<Event("completed")>> \in Aside /\ <<>> \in Aside
  BY AsideEvents, AsideConcat DEF AsideNames, EventNames
<1>2. \A evs \in Aside : evs \in Seq(EventSet)
  BY AsideIs
<1>3. CASE r = s
  <2>1. s.out \o <<>> = s.out
    BY DEF RenderState
  <2>. HIDE DEF r
  <2>2. r \in RenderState /\ r.out = s.out \o <<>>
    BY <1>3, <2>1
  <2>. QED
    BY <1>1, <2>2, Zenon DEF r
<1>4. CASE r = Emit(s, <<Event("done")>>)
  <2>. HIDE DEF r
  <2>1. r \in RenderState /\ r.out = s.out \o <<Event("done")>>
    BY <1>1, <1>2, <1>4, EmitIs, Zenon
  <2>. QED
    BY <1>1, <2>1, Zenon DEF r
<1>5. CASE r = Emit([s EXCEPT !.completed = TRUE], <<Event("completed")>>)
  <2>. DEFINE q == [s EXCEPT !.completed = TRUE]
  <2>1. q \in RenderState /\ q.out = s.out
    BY Updates, Zenon
  <2>. HIDE DEF r, q
  <2>2. r \in RenderState /\ r.out = s.out \o <<Event("completed")>>
    BY <1>1, <1>2, <1>5, <2>1, EmitAfter, Zenon DEF q
  <2>. QED
    BY <1>1, <2>2, Zenon DEF r
<1>6. r = s \/ r = Emit(s, <<Event("done")>>) \/ r = Emit([s EXCEPT !.completed = TRUE], <<Event("completed")>>)
  BY DEF RenderStreamDone, Complete, Dialects
<1>. QED
  BY <1>3, <1>4, <1>5, <1>6

---------------------------------------------------------------------------
(* Calls put together from parts *)

PartSet == [key : Int, id : Nat, data : Data]

\* The id and the arguments of a call.
HeadOf(parts, key) == Joined(parts, key).id
DataOf(parts, key) == Joined(parts, key).args
DataParts(key) == [p \in PartSet |-> IF p.key = key THEN p.data ELSE <<>>]

LEMMA DataFlat ==
  ASSUME NEW key \in Int
  PROVE  /\ DataParts(key) \in [PartSet -> Data]
         /\ \A parts \in Seq(PartSet) : DataOf(parts, key) = Flat(DataParts(key), parts)
<1>1. \A p \in PartSet : (IF p.key = key THEN p.data ELSE <<>>) \in Data
  BY DataSets DEF PartSet
<1>2. /\ DataParts(key) \in [PartSet -> Data]
      /\ \A p \in PartSet : DataParts(key)[p] = IF p.key = key THEN p.data ELSE <<>>
  BY <1>1 DEF DataParts
<1>3. ASSUME NEW parts \in Seq(PartSet) PROVE DataOf(parts, key) = Flat(DataParts(key), parts)
  <2>1. \A i \in DOMAIN parts : parts[i] \in PartSet
    OBVIOUS
  <2>2. [i \in DOMAIN parts |-> IF parts[i].key = key THEN parts[i].data ELSE <<>>]
        = [i \in DOMAIN parts |-> DataParts(key)[parts[i]]]
    BY <1>2, <2>1
  <2>. QED
    BY <2>2 DEF DataOf, Joined, Flat
<1>. QED
  BY <1>2, <1>3

LEMMA JoinedIs ==
  ASSUME NEW parts, NEW key
  PROVE  Joined(parts, key) = [id |-> HeadOf(parts, key), args |-> DataOf(parts, key)]
BY DEF Joined, HeadOf, DataOf

LEMMA KeysAre ==
  ASSUME NEW parts \in Seq(PartSet), NEW key
  PROVE  key \in Keys(parts) <=> key # -1 /\ Of(parts, key) # {}
<1>. QED
  BY DEF Keys, Of, NoPart

\* Parts that come after others add to their calls or make new ones.
LEMMA JoinConcat ==
  ASSUME NEW parts \in Seq(PartSet), NEW more \in Seq(PartSet)
  PROVE  /\ Keys(parts \o more) = Keys(parts) \cup Keys(more)
         /\ \A key \in Int : DataOf(parts \o more, key) = DataOf(parts, key) \o DataOf(more, key)
         /\ \A key \in Int : DataOf(parts, key) \in Data /\ DataOf(more, key) \in Data
         /\ \A key \in Int \ {-1} : key \notin Keys(parts) => DataOf(parts, key) = <<>>
         /\ \A key \in Keys(parts) : HeadOf(parts \o more, key) = HeadOf(parts, key)
         /\ \A key \in Keys(more) : key \notin Keys(parts) => HeadOf(parts \o more, key) = HeadOf(more, key)
<1>. DEFINE both == parts \o more
            m == Len(parts)
            n == Len(more)
<1>1. /\ m \in Nat /\ n \in Nat /\ DOMAIN parts = 1..m /\ DOMAIN more = 1..n /\ DOMAIN both = 1..m + n
      /\ \A i \in 1..m : both[i] = parts[i]
      /\ \A i \in 1..n : both[m + i] = more[i]
      /\ both \in Seq(PartSet)
  OBVIOUS
<1>. HIDE DEF m, n, both
<1>2. ASSUME NEW key PROVE Of(both, key) = Of(parts, key) \cup {m + i : i \in Of(more, key)}
  <2>1. ASSUME NEW i \in Of(both, key) PROVE i \in Of(parts, key) \cup {m + j : j \in Of(more, key)}
    <3>1. i \in 1..m + n /\ both[i].key = key
      BY <1>1, <2>1 DEF Of
    <3>2. CASE i \in 1..m
      BY <1>1, <3>1, <3>2 DEF Of
    <3>3. CASE i > m
      <4>. DEFINE k == i - m
      <4>1. k \in 1..n /\ i = m + k
        BY <1>1, <3>1, <3>3
      <4>. HIDE DEF k
      <4>2. k \in Of(more, key)
        BY <1>1, <3>1, <4>1 DEF Of
      <4>. QED
        BY <4>1, <4>2
    <3>. QED
      BY <1>1, <3>1, <3>2, <3>3
  <2>2. Of(parts, key) \subseteq Of(both, key)
    BY <1>1 DEF Of
  <2>3. ASSUME NEW j \in Of(more, key) PROVE m + j \in Of(both, key)
    <3>1. j \in 1..n /\ more[j].key = key
      BY <1>1, <2>3 DEF Of
    <3>2. m + j \in 1..m + n /\ both[m + j] = more[j]
      BY <1>1, <3>1
    <3>. QED
      BY <1>1, <3>1, <3>2 DEF Of
  <2>. QED
    BY <2>1, <2>2, <2>3
<1>3. Keys(both) = Keys(parts) \cup Keys(more)
  <2>1. ASSUME NEW key PROVE key \in Keys(both) <=> key \in Keys(parts) \/ key \in Keys(more)
    <3>1. Of(both, key) # {} <=> Of(parts, key) # {} \/ Of(more, key) # {}
      <4>1. Of(more, key) # {} <=> {m + i : i \in Of(more, key)} # {}
        OBVIOUS
      <4>. QED
        BY <1>2, <4>1, Zenon
    <3>. QED
      BY <1>1, <3>1, KeysAre
  <2>. QED
    BY <2>1
<1>4. ASSUME NEW key \in Int
      PROVE  /\ DataOf(both, key) = DataOf(parts, key) \o DataOf(more, key)
             /\ DataOf(parts, key) \in Data /\ DataOf(more, key) \in Data
  <2>. DEFINE G == DataParts(key)
  <2>1. G \in [PartSet -> Data] /\ \A ps \in Seq(PartSet) : DataOf(ps, key) = Flat(G, ps)
    BY DataFlat
  <2>. HIDE DEF G
  <2>2. Flat(G, parts \o more) = Flat(G, parts) \o Flat(G, more)
    <3>1. FlatAdds(G, parts, more)
      BY <2>1, FlatConcat, Zenon DEF Data
    <3>. QED
      BY <3>1 DEF FlatAdds
  <2>3. Flat(G, parts) \in Data /\ Flat(G, more) \in Data
    BY <2>1, FlatType, Zenon DEF Data
  <2>. QED
    BY <1>1, <2>1, <2>2, <2>3, Zenon DEF both
<1>5. ASSUME NEW key \in Int \ {-1}, key \notin Keys(parts) PROVE DataOf(parts, key) = <<>>
  <2>. DEFINE G == DataParts(key)
  <2>1. G \in [PartSet -> Data] /\ \A ps \in Seq(PartSet) : DataOf(ps, key) = Flat(G, ps)
    BY DataFlat
  <2>2. \A i \in DOMAIN parts : parts[i] \in PartSet
    OBVIOUS
  <2>3. \A i \in DOMAIN parts : parts[i].key # key
    BY <1>5, KeysAre DEF Of
  <2>4. \A i \in DOMAIN parts : G[parts[i]] = <<>>
    BY <2>2, <2>3 DEF DataParts
  <2>. HIDE DEF G
  <2>5. Flat(G, parts) = <<>>
    BY <2>1, <2>4, FlatNothing, Zenon DEF Data
  <2>. QED
    BY <2>1, <2>5
<1>6. \A ps, key : HeadOf(ps, key) = ps[First(Of(ps, key))].id
  BY DEF HeadOf, Joined
<1>7. \A key : Of(parts, key) \subseteq 1..m /\ Of(more, key) \subseteq 1..n
  BY <1>1 DEF Of
<1>8. ASSUME NEW key \in Keys(parts) PROVE HeadOf(both, key) = HeadOf(parts, key)
  <2>. DEFINE f == First(Of(parts, key))
              g == First(Of(both, key))
  <2>1. Of(parts, key) # {} /\ Of(parts, key) \subseteq Nat
    BY <1>1, <1>7, <1>8, KeysAre
  <2>2. f \in Of(parts, key) /\ \A i \in Of(parts, key) : f <= i
    BY <2>1, FirstOf
  <2>3. Of(both, key) \subseteq Nat /\ Of(both, key) # {}
    <3>1. \A i \in Of(more, key) : m + i \in Nat
      BY <1>1, <1>7
    <3>. QED
      BY <1>2, <2>1, <3>1
  <2>4. g \in Of(both, key) /\ \A i \in Of(both, key) : g <= i
    BY <2>3, FirstOf
  <2>5. f \in Of(both, key) /\ f \in 1..m
    BY <1>2, <1>7, <2>2
  <2>. HIDE DEF f, g
  <2>6. g <= f /\ g \in Nat
    BY <2>3, <2>4, <2>5
  <2>7. g \in Of(parts, key)
    <3>1. \A i \in Of(more, key) : m + i > m
      BY <1>1, <1>7
    <3>2. g <= m
      BY <1>1, <2>5, <2>6
    <3>3. \A i \in Of(more, key) : g # m + i
      BY <1>1, <1>7, <2>6, <3>1, <3>2
    <3>. QED
      BY <1>2, <2>4, <3>3
  <2>8. g = f
    BY <2>1, <2>2, <2>6, <2>7
  <2>. QED
    BY <1>1, <1>6, <2>5, <2>8 DEF f, g
<1>9. ASSUME NEW key \in Keys(more), key \notin Keys(parts) PROVE HeadOf(both, key) = HeadOf(more, key)
  <2>. DEFINE f == First(Of(more, key))
              g == First(Of(both, key))
  <2>1. Of(more, key) # {} /\ Of(more, key) \subseteq Nat /\ Of(parts, key) = {}
    <3>1. key # -1
      BY <1>9, KeysAre
    <3>. QED
      BY <1>1, <1>7, <1>9, <3>1, KeysAre
  <2>2. f \in Of(more, key) /\ (\A i \in Of(more, key) : f <= i) /\ f \in 1..n
    BY <1>7, <2>1, FirstOf
  <2>3. Of(both, key) = {m + i : i \in Of(more, key)}
    BY <1>2, <2>1
  <2>4. Of(both, key) \subseteq Nat /\ Of(both, key) # {}
    BY <1>1, <2>1, <2>3
  <2>5. g \in Of(both, key) /\ \A i \in Of(both, key) : g <= i
    BY <2>4, FirstOf
  <2>. HIDE DEF f, g
  <2>6. g <= m + f
    BY <2>2, <2>3, <2>5, Zenon
  <2>7. PICK i \in Of(more, key) : g = m + i
    BY <2>3, <2>5
  <2>8. g = m + f
    BY <1>1, <1>7, <2>2, <2>6, <2>7
  <2>. QED
    BY <1>1, <1>6, <2>2, <2>8 DEF f, g
<1>. QED
  BY <1>3, <1>4, <1>5, <1>8, <1>9, Zenon DEF both

LEMMA AssembledConcat ==
  ASSUME NEW parts \in Seq(PartSet), NEW more \in Seq(PartSet)
  PROVE  /\ Keys(more) = {} => /\ Assembled(parts \o more) = Assembled(parts)
                               /\ Keys(parts \o more) = Keys(parts)
         /\ \A key \in Int : Keys(more) = {key} /\ key \notin Keys(parts) =>
              /\ Assembled(parts \o more) = Assembled(parts) \cup {Joined(more, key)}
              /\ Keys(parts \o more) = Keys(parts) \cup {key}
<1>. DEFINE both == parts \o more
            Same(key) == Joined(both, key) = Joined(parts, key)
<1>1. /\ Keys(both) = Keys(parts) \cup Keys(more)
      /\ \A key \in Int : DataOf(both, key) = DataOf(parts, key) \o DataOf(more, key)
      /\ \A key \in Int : DataOf(parts, key) \in Data /\ DataOf(more, key) \in Data
      /\ \A key \in Int \ {-1} : key \notin Keys(parts) => DataOf(parts, key) = <<>>
      /\ \A key \in Keys(parts) : HeadOf(both, key) = HeadOf(parts, key)
      /\ \A key \in Keys(more) : key \notin Keys(parts) => HeadOf(both, key) = HeadOf(more, key)
  BY JoinConcat, Zenon
<1>2. \A key \in Int \ {-1} : key \notin Keys(more) => DataOf(more, key) = <<>>
  BY JoinConcat
<1>3. \A data \in Data : data \o <<>> = data /\ <<>> \o data = data
  BY DEF Data
<1>4. Keys(parts) \subseteq Int \ {-1} /\ Keys(more) \subseteq Int \ {-1}
  <2>1. (\A i \in DOMAIN parts : parts[i] \in PartSet) /\ \A i \in DOMAIN more : more[i] \in PartSet
    OBVIOUS
  <2>2. (\A i \in DOMAIN parts : parts[i].key \in Int) /\ \A i \in DOMAIN more : more[i].key \in Int
    BY <2>1 DEF PartSet
  <2>. QED
    BY <2>2 DEF Keys, NoPart
<1>. HIDE DEF both
<1>5. ASSUME NEW key \in Keys(parts), key \notin Keys(more) PROVE Same(key)
  <2>1. DataOf(both, key) = DataOf(parts, key)
    BY <1>1, <1>2, <1>3, <1>4, <1>5, Zenon
  <2>2. HeadOf(both, key) = HeadOf(parts, key)
    BY <1>1, <1>5
  <2>. QED
    BY <2>1, <2>2, JoinedIs
<1>6. ASSUME NEW key \in Keys(more), key \notin Keys(parts) PROVE Joined(both, key) = Joined(more, key)
  <2>1. DataOf(both, key) = DataOf(more, key)
    BY <1>1, <1>3, <1>4, <1>6, Zenon
  <2>2. HeadOf(both, key) = HeadOf(more, key)
    BY <1>1, <1>6
  <2>. QED
    BY <2>1, <2>2, JoinedIs
<1>7. CASE Keys(more) = {}
  <2>1. Keys(both) = Keys(parts) /\ \A key \in Keys(parts) : Same(key)
    BY <1>1, <1>5, <1>7
  <2>2. Assembled(both) = Assembled(parts)
    BY <2>1 DEF Assembled
  <2>. QED
    BY <1>7, <2>1, <2>2 DEF both
<1>8. ASSUME NEW key \in Int, Keys(more) = {key}, key \notin Keys(parts)
      PROVE  /\ Assembled(both) = Assembled(parts) \cup {Joined(more, key)}
             /\ Keys(both) = Keys(parts) \cup {key}
  <2>1. Keys(both) = Keys(parts) \cup {key} /\ \A k \in Keys(parts) : Same(k)
    BY <1>1, <1>5, <1>8
  <2>2. Joined(both, key) = Joined(more, key)
    BY <1>6, <1>8
  <2>. QED
    BY <2>1, <2>2 DEF Assembled
<1>. QED
  BY <1>7, <1>8 DEF both

---------------------------------------------------------------------------
(* What a client is told *)

PartOf(d, e) ==
  IF e.ev \in {"call", "args"}
  THEN [key |-> IF d = "responses" THEN e.id ELSE e.ix, id |-> e.id, data |-> e.data] ELSE NoPart
PartsOf(d, evs) == [i \in DOMAIN evs |-> PartOf(d, evs[i])]

LEMMA PartTypes == \A d : \A e \in EventSet : PartOf(d, e) \in PartSet
BY DataSets DEF PartOf, PartSet, NoPart, EventSet

LEMMA PartsConcat ==
  ASSUME NEW d, NEW a \in Seq(EventSet), NEW b \in Seq(EventSet)
  PROVE  /\ PartsOf(d, a) \in Seq(PartSet) /\ PartsOf(d, b) \in Seq(PartSet)
         /\ PartsOf(d, a \o b) = PartsOf(d, a) \o PartsOf(d, b)
<1>. DEFINE ab == a \o b
            m == Len(a)
            n == Len(b)
            pa == PartsOf(d, a)
            pb == PartsOf(d, b)
            pp == PartsOf(d, ab)
            both == pa \o pb
<1>1. /\ m \in Nat /\ n \in Nat /\ DOMAIN a = 1..m /\ DOMAIN b = 1..n /\ DOMAIN ab = 1..m + n
      /\ \A i \in 1..m : ab[i] = a[i] /\ a[i] \in EventSet
      /\ \A i \in 1..n : ab[m + i] = b[i] /\ b[i] \in EventSet
      /\ \A i \in 1..m + n : ab[i] \in EventSet
  OBVIOUS
<1>. HIDE DEF m, n, ab
<1>2. /\ \A i \in 1..m : pa[i] = PartOf(d, a[i])
      /\ \A i \in 1..n : pb[i] = PartOf(d, b[i])
      /\ \A i \in 1..m + n : pp[i] = PartOf(d, ab[i])
      /\ pa \in Seq(PartSet) /\ pb \in Seq(PartSet) /\ pp \in Seq(PartSet)
      /\ Len(pa) = m /\ Len(pb) = n /\ Len(pp) = m + n
  BY <1>1, PartTypes DEF PartsOf
<1>. HIDE DEF pa, pb, pp
<1>3. /\ both \in Seq(PartSet) /\ Len(both) = m + n
      /\ \A i \in 1..m : both[i] = pa[i]
      /\ \A i \in 1..n : both[m + i] = pb[i]
  <2>1. \A s, t \in Seq(PartSet) :
          /\ s \o t \in Seq(PartSet) /\ Len(s \o t) = Len(s) + Len(t)
          /\ \A i \in 1..Len(s) : (s \o t)[i] = s[i]
          /\ \A i \in 1..Len(t) : (s \o t)[Len(s) + i] = t[i]
    OBVIOUS
  <2>. QED
    BY <1>2, <2>1, Zenon
<1>. HIDE DEF both
<1>4. ASSUME NEW i \in 1..m + n PROVE pp[i] = both[i]
  <2>1. CASE i \in 1..m
    BY <1>1, <1>2, <1>3, <2>1
  <2>2. CASE i > m
    <3>. DEFINE k == i - m
    <3>1. k \in 1..n /\ i = m + k
      BY <1>1, <2>2
    <3>. HIDE DEF k
    <3>2. pp[i] = PartOf(d, b[k])
      BY <1>1, <1>2, <3>1
    <3>3. both[i] = pb[k] /\ pb[k] = PartOf(d, b[k])
      BY <1>2, <1>3, <3>1
    <3>. QED
      BY <3>2, <3>3
  <2>. QED
    BY <1>1, <2>1, <2>2
<1>5. pp = both
  BY <1>2, <1>3, <1>4, SeqEqual
<1>. QED
  BY <1>2, <1>5 DEF pp, both, pa, pb, ab

\* Events that are not about calls change nothing of the calls told.
LEMMA QuietParts ==
  ASSUME NEW d, NEW out \in Seq(EventSet), NEW more \in Sans({"call", "args"})
  PROVE  /\ Assembled(PartsOf(d, out \o more)) = Assembled(PartsOf(d, out))
         /\ Keys(PartsOf(d, out \o more)) = Keys(PartsOf(d, out))
<1>1. more \in Seq(EventSet) /\ \A i \in DOMAIN more : more[i].ev \notin {"call", "args"}
  BY DEF Sans
<1>2. Keys(PartsOf(d, more)) = {}
  BY <1>1 DEF Keys, PartsOf, PartOf
<1>. DEFINE po == PartsOf(d, out)
            pm == PartsOf(d, more)
<1>3. po \in Seq(PartSet) /\ pm \in Seq(PartSet) /\ PartsOf(d, out \o more) = po \o pm
  BY <1>1, PartsConcat
<1>. HIDE DEF po, pm
<1>4. Assembled(po \o pm) = Assembled(po) /\ Keys(po \o pm) = Keys(po)
  BY <1>2, <1>3, AssembledConcat DEF pm
<1>. QED
  BY <1>3, <1>4 DEF po

\* The events of a whole call tell just this call.
LEMMA WholeParts ==
  ASSUME NEW d \in Dialects, NEW s \in RenderState, NEW c \in CallSet
  PROVE  LET key == CASE d = "openai"    -> c.ix
                      [] d = "anthropic" -> NextTool(s)
                      [] d = "responses" -> c.id
                      [] OTHER           -> Len(s.out)
             parts == PartsOf(d, WholeEvents(d, s, c))
         IN /\ WholeEvents(d, s, c) \in Seq(EventSet) /\ WholeEvents(d, s, c) # <<>>
            /\ Keys(parts) = {key} /\ Joined(parts, key) = [id |-> c.id, args |-> c.args]
<1>. DEFINE key == CASE d = "openai"    -> c.ix
                     [] d = "anthropic" -> NextTool(s)
                     [] d = "responses" -> c.id
                     [] OTHER           -> Len(s.out)
            evs == WholeEvents(d, s, c)
<1>1. c.ix \in Nat /\ c.id \in Nat /\ c.args \in Args /\ c.args \in Data /\ NextTool(s) \in Nat /\ Len(s.out) \in Nat
  <2>1. c.ix \in Nat /\ c.id \in Nat /\ c.args \in Args /\ c.args \in Data
    BY DataSets DEF CallSet
  <2>2. s.out \in Seq(EventSet) /\ NextTool(s) \in Nat
    BY Updates, Zenon DEF RenderState
  <2>. QED
    BY <2>1, <2>2
<1>2. key \in Nat
  BY <1>1 DEF Dialects
<1>. DEFINE One(data) == [key |-> key, id |-> c.id, data |-> data]
<1>3. \A data \in Data : One(data) \in PartSet /\ One(data).key = key /\ One(data).id = c.id /\ One(data).data = data
  BY <1>1, <1>2 DEF PartSet
<1>. HIDE DEF key, One
<1>4. ASSUME NEW data \in Data
      PROVE  Keys(<<One(data)>>) = {key} /\ HeadOf(<<One(data)>>, key) = c.id /\ DataOf(<<One(data)>>, key) = data
  <2>. DEFINE p == One(data)
              G == DataParts(key)
  <2>1. p \in PartSet /\ p.key = key /\ p.id = c.id /\ p.data = data
    BY <1>3
  <2>. HIDE DEF p
  <2>2. Keys(<<p>>) = {key}
    BY <1>2, <2>1 DEF Keys, NoPart
  <2>3. Of(<<p>>, key) = {1}
    BY <2>1 DEF Of
  <2>4. First({1}) = 1
    BY DEF First
  <2>5. HeadOf(<<p>>, key) = c.id
    BY <2>1, <2>3, <2>4 DEF HeadOf, Joined
  <2>6. DataOf(<<p>>, key) = data
    <3>1. <<p>> \in Seq(PartSet)
      BY <2>1
    <3>2. G \in [PartSet -> Data] /\ DataOf(<<p>>, key) = Flat(G, <<p>>)
      <4>1. key \in Int
        BY <1>2
      <4>2. G \in [PartSet -> Data] /\ \A ps \in Seq(PartSet) : DataOf(ps, key) = Flat(G, ps)
        BY <4>1, DataFlat
      <4>. HIDE DEF G
      <4>. QED
        BY <3>1, <4>2, Zenon
    <3>3. G[p] = data
      BY <2>1 DEF DataParts
    <3>. HIDE DEF G
    <3>4. Flat(G, <<p>>) = G[p]
      BY <2>1, <3>2, FlatOne DEF Data
    <3>. QED
      BY <3>2, <3>3, <3>4
  <2>. QED
    BY <2>2, <2>5, <2>6 DEF p
<1>5. CASE d \in {"openai", "gemini", "ollama"}
  <2>. DEFINE e == [ev |-> "call", ix |-> key, id |-> c.id, data |-> c.args]
  <2>1. evs = <<e>>
    BY <1>5 DEF WholeEvents, Whole1, key
  <2>2. e \in EventSet /\ PartOf(d, e) = One(c.args)
    BY <1>1, <1>2, <1>5 DEF EventSet, EventNames, PartOf, One
  <2>. HIDE DEF e, evs
  <2>3. PartsOf(d, evs) = <<One(c.args)>>
    BY <2>1, <2>2 DEF PartsOf
  <2>. QED
    BY <1>1, <1>4, <2>1, <2>2, <2>3, JoinedIs DEF evs, key
<1>6. CASE d \in {"anthropic", "responses"}
  <2>. DEFINE ix == IF d = "anthropic" THEN NextTool(s) ELSE c.ix
              argsId == IF d = "anthropic" THEN 0 ELSE c.id
              e == [ev |-> "call", ix |-> ix, id |-> c.id, data |-> <<>>]
              f == [ev |-> "args", ix |-> ix, id |-> argsId, data |-> c.args]
              more == IF c.args # <<>> THEN <<f>> ELSE <<>>
  <2>1. evs = <<e>> \o more
    BY <1>6 DEF WholeEvents, Whole2
  <2>2. e \in EventSet /\ f \in EventSet
    BY <1>1, DataSets DEF EventSet, EventNames
  <2>3. PartOf(d, e) = One(<<>>)
    BY <1>6 DEF PartOf, One, key
  <2>. DEFINE g == PartOf(d, f)
  <2>4. g \in PartSet /\ g.key = key /\ g.data = c.args
    <3>1. g = [key |-> IF d = "responses" THEN argsId ELSE ix, id |-> argsId, data |-> c.args]
      BY DEF PartOf
    <3>2. (IF d = "responses" THEN argsId ELSE ix) = key
      BY <1>6 DEF key
    <3>3. argsId \in Nat
      BY <1>1
    <3>. HIDE DEF g, argsId
    <3>. QED
      BY <1>1, <1>2, <3>1, <3>2, <3>3 DEF PartSet
  <2>. HIDE DEF e, f, evs, g
  <2>5. more \in Seq(EventSet) /\ <<e>> \in Seq(EventSet) /\ evs \in Seq(EventSet) /\ evs # <<>>
    <3>1. more \in Seq(EventSet) /\ <<e>> \in Seq(EventSet) /\ Len(<<e>>) = 1
      BY <2>2
    <3>. HIDE DEF more
    <3>2. evs \in Seq(EventSet) /\ Len(evs) = 1 + Len(more) /\ Len(more) \in Nat
      BY <2>1, <3>1
    <3>3. evs # <<>>
      BY <3>2
    <3>. QED
      BY <3>1, <3>2, <3>3
  <2>6. PartsOf(d, <<e>>) = <<One(<<>>)>>
    BY <2>3 DEF PartsOf
  <2>7. PartsOf(d, evs) = <<One(<<>>)>> \o PartsOf(d, more) /\ PartsOf(d, more) \in Seq(PartSet)
        /\ <<One(<<>>)>> \in Seq(PartSet)
    <3>. HIDE DEF more
    <3>1. /\ PartsOf(d, <<e>>) \in Seq(PartSet) /\ PartsOf(d, more) \in Seq(PartSet)
          /\ PartsOf(d, <<e>> \o more) = PartsOf(d, <<e>>) \o PartsOf(d, more)
      BY <2>5, PartsConcat, Zenon
    <3>. QED
      BY <2>1, <2>6, <3>1, Zenon
  <2>. DEFINE po == <<One(<<>>)>>
              pm == PartsOf(d, more)
  <2>8. Keys(po) = {key} /\ HeadOf(po, key) = c.id /\ DataOf(po, key) = <<>>
    BY <1>4, DataSets
  <2>9. Keys(pm) \subseteq {key} /\ DataOf(pm, key) = c.args
    <3>. DEFINE G == DataParts(key)
    <3>1. G \in [PartSet -> Data] /\ \A ps \in Seq(PartSet) : DataOf(ps, key) = Flat(G, ps)
      BY <1>2, DataFlat
    <3>2. CASE c.args = <<>>
      <4>1. pm = <<>>
        BY <3>2 DEF PartsOf
      <4>2. DataOf(pm, key) = <<>>
        BY <4>1 DEF DataOf, Joined, FlattenSeq
      <4>. QED
        BY <3>2, <4>1, <4>2 DEF Keys
    <3>3. CASE c.args # <<>>
      <4>1. pm = <<g>>
        BY <3>3 DEF PartsOf, g
      <4>2. Keys(<<g>>) \subseteq {key}
        BY <2>4 DEF Keys
      <4>3. <<g>> \in Seq(PartSet)
        BY <2>4
      <4>4. G[g] = c.args
        BY <2>4 DEF DataParts
      <4>. HIDE DEF G
      <4>5. Flat(G, <<g>>) = G[g]
        BY <2>4, <3>1, FlatOne DEF Data
      <4>. QED
        BY <3>1, <4>1, <4>2, <4>3, <4>4, <4>5, Zenon
    <3>. QED
      BY <3>2, <3>3
  <2>10. po \in Seq(PartSet) /\ pm \in Seq(PartSet) /\ PartsOf(d, evs) = po \o pm
    BY <2>7
  <2>. HIDE DEF po, pm
  <2>11. /\ Keys(po \o pm) = {key} /\ HeadOf(po \o pm, key) = c.id
         /\ DataOf(po \o pm, key) = <<>> \o c.args
    <3>1. /\ Keys(po \o pm) = Keys(po) \cup Keys(pm)
          /\ \A k \in Int : DataOf(po \o pm, k) = DataOf(po, k) \o DataOf(pm, k)
          /\ \A k \in Keys(po) : HeadOf(po \o pm, k) = HeadOf(po, k)
      BY <2>10, JoinConcat, Zenon
    <3>2. Keys(po \o pm) = {key}
      BY <2>8, <2>9, <3>1
    <3>3. HeadOf(po \o pm, key) = c.id
      BY <2>8, <3>1
    <3>4. DataOf(po \o pm, key) = DataOf(po, key) \o DataOf(pm, key)
      <4>1. key \in Int
        BY <1>2
      <4>2. \A k \in Int : DataOf(po \o pm, k) = DataOf(po, k) \o DataOf(pm, k)
        BY <3>1, Zenon
      <4>. QED
        BY ONLY <4>1, <4>2, Zenon
    <3>. QED
      BY <2>8, <2>9, <3>2, <3>3, <3>4
  <2>12. <<>> \o c.args = c.args
    BY <1>1 DEF Data
  <2>. QED
    BY <2>5, <2>10, <2>11, <2>12, JoinedIs DEF evs, key
<1>. QED
  BY <1>5, <1>6 DEF Dialects, evs, key

\* A renderer has told the calls T, whole, and will take none but these for known.
ToldIs(d, s, T) == Assembled(PartsOf(d, s.out)) = {[id |-> c.id, args |-> c.args] : c \in T}
Knows(d, s, T) ==
  LET keys == Keys(PartsOf(d, s.out))
  IN CASE d = "openai"    -> \A key \in keys : \E c \in T : key = c.ix
       [] d = "anthropic" -> /\ \A key \in keys : key < NextTool(s)
                             /\ s.toolId = 0 \/ \E c \in T : s.toolId = c.id
       [] d = "responses" -> /\ \A key \in keys : \E c \in T : key = c.id
                             /\ \A i \in DOMAIN s.callId : \E c \in T : s.callId[i].ix = c.ix
       [] OTHER           -> \A key \in keys : key < Len(s.out)
Tells(d, s, T) == ToldIs(d, s, T) /\ Knows(d, s, T)

LEMMA KeysNat ==
  ASSUME NEW d, NEW out \in Seq(EventSet)
  PROVE  Keys(PartsOf(d, out)) \subseteq Nat
<1>1. \A i \in DOMAIN out : out[i] \in EventSet
  OBVIOUS
<1>2. \A i \in DOMAIN out : PartOf(d, out[i]).key \in Nat \/ PartOf(d, out[i]).key = -1
  BY <1>1 DEF PartOf, NoPart, EventSet
<1>. QED
  BY <1>2 DEF Keys, PartsOf, NoPart

LEMMA TellsOf ==
  ASSUME NEW d \in Dialects, NEW s \in RenderState, NEW r \in RenderState,
         NEW more \in Sans({"call", "args"}), r.out = s.out \o more, NEW T
  PROVE  /\ ToldIs(d, s, T) => ToldIs(d, r, T)
         /\ Tells(d, s, T) /\ SameCalls(s, r) => Tells(d, r, T)
<1>1. s.out \in Seq(EventSet) /\ r.out \in Seq(EventSet) /\ more \in Seq(EventSet)
  BY DEF RenderState, Sans
<1>2. /\ Assembled(PartsOf(d, r.out)) = Assembled(PartsOf(d, s.out))
      /\ Keys(PartsOf(d, r.out)) = Keys(PartsOf(d, s.out))
  BY <1>1, QuietParts
<1>3. Len(s.out) \in Nat /\ Len(r.out) \in Nat /\ Len(s.out) <= Len(r.out)
  <2>1. Len(s.out \o more) = Len(s.out) + Len(more) /\ Len(more) \in Nat /\ Len(s.out) \in Nat
    BY <1>1
  <2>. QED
    BY <2>1
<1>4. Keys(PartsOf(d, s.out)) \subseteq Nat
  BY <1>1, KeysNat
<1>5. ToldIs(d, s, T) => ToldIs(d, r, T)
  BY <1>2 DEF ToldIs
<1>6. ASSUME Knows(d, s, T), SameCalls(s, r) PROVE Knows(d, r, T)
  <2>. DEFINE ks == Keys(PartsOf(d, s.out))
              kr == Keys(PartsOf(d, r.out))
  <2>1. ks = kr /\ ks \subseteq Nat
    BY <1>2, <1>4
  <2>. HIDE DEF ks, kr
  <2>2. CASE d \in {"openai", "anthropic", "responses"}
    BY <1>6, <2>1, <2>2 DEF Knows, SameCalls, ks, kr
  <2>3. CASE d \in {"gemini", "ollama"}
    <3>1. \A key \in ks : key < Len(s.out)
      BY <1>6, <2>3 DEF Knows, ks
    <3>2. \A key \in kr : key < Len(r.out)
      BY <1>3, <2>1, <3>1
    <3>. QED
      BY <2>3, <3>2 DEF Knows, kr
  <2>. QED
    BY <2>2, <2>3 DEF Dialects
<1>. QED
  BY <1>5, <1>6 DEF Tells

\* Text and thinking and the usage leave the calls as they are, and so does the
\* finish, but for the renderer's knowledge of them.
LEMMA TellsAside ==
  ASSUME NEW d \in Dialects, NEW s \in RenderState, NEW T,
         NEW ch \in {Text(delta) : delta \in Texts} \cup {Thinking, Finish, Usage}
  PROVE  /\ ToldIs(d, s, T) => ToldIs(d, RenderStreamChunk(d, s, ch), T)
         /\ Tells(d, s, T) /\ ch.kind # "finish" => Tells(d, RenderStreamChunk(d, s, ch), T)
<1>. DEFINE r == RenderStreamChunk(d, s, ch)
<1>1. CASE ch \in {Text(delta) : delta \in Texts}
  <2>1. PICK delta \in Texts : ch = Text(delta)
    BY <1>1
  <2>2. PICK evs \in Aside : /\ r \in RenderState /\ r.out = s.out \o (evs \o <<At0("text", delta)>>)
                             /\ SameCalls(s, r)
    BY <2>1, TextRendered, Zenon
  <2>. DEFINE more == evs \o <<At0("text", delta)>>
  <2>3. more \in Sans({"call", "args"})
    <3>1. <<At0("text", delta)>> \in Sans({"call", "args"})
      <4>1. At0("text", delta) \in EventSet
        <5>1. "text" \in EventNames /\ delta \in Data
          BY DataSets DEF EventNames
        <5>. QED
          BY <5>1, EventTypes
      <4>2. At0("text", delta).ev = "text"
        BY DEF At0, Event
      <4>. QED
        BY <4>1, <4>2, SansConcat
    <3>2. evs \in Sans({"call", "args"})
      BY AsideConcat
    <3>. QED
      BY <3>1, <3>2, SansConcat
  <2>. HIDE DEF more, r
  <2>. QED
    BY <2>2, <2>3, TellsOf, Zenon DEF more, r
<1>2. CASE ch \in {Thinking, Finish, Usage}
  <2>1. PICK evs \in Aside : /\ r \in RenderState /\ r.out = s.out \o evs
                             /\ ch.kind # "finish" => SameCalls(s, r)
    BY <1>2, AsideRendered, Zenon
  <2>2. evs \in Sans({"call", "args"})
    BY AsideConcat
  <2>. HIDE DEF r
  <2>. QED
    BY <2>1, <2>2, TellsOf, Zenon DEF r
<1>. QED
  BY <1>1, <1>2

\* A new call is told whole and once.
LEMMA TellsCall ==
  ASSUME NEW d \in Dialects, NEW s \in RenderState, NEW T, T \subseteq CallSet, Tells(d, s, T),
         NEW c \in CallSet, c.id # 0, \A e \in T : e.id # c.id,
         d \in {"openai", "responses"} => \A e \in T : e.ix # c.ix
  PROVE  Tells(d, RenderStreamChunk(d, s, Tool(c.ix, c.id, c.args)), T \cup {c})
<1>. DEFINE r == RenderStreamChunk(d, s, Tool(c.ix, c.id, c.args))
            evs == WholeEvents(d, s, c)
            key == CASE d = "openai"    -> c.ix
                     [] d = "anthropic" -> NextTool(s)
                     [] d = "responses" -> c.id
                     [] OTHER           -> Len(s.out)
<1>1. New(d, s, c)
  <2>1. d = "anthropic" => c.id # s.toolId
    BY DEF Tells, Knows
  <2>2. d = "responses" => ~Added(s, c.ix)
    BY DEF Tells, Knows, Added
  <2>. QED
    BY <2>1, <2>2 DEF New
<1>2. r \in RenderState
  BY ToolRendered, Zenon
<1>3. /\ \E a \in Aside : r.out = s.out \o (a \o evs)
      /\ d = "anthropic" => NextTool(r) = NextTool(s) + 1 /\ r.toolId = c.id
      /\ d = "responses" => r.callId = Append(s.callId, [ix |-> c.ix, id |-> c.id])
  BY <1>1, ToolRendered, Zenon
<1>4. /\ evs \in Seq(EventSet) /\ evs # <<>>
      /\ Keys(PartsOf(d, evs)) = {key}
      /\ Joined(PartsOf(d, evs), key) = [id |-> c.id, args |-> c.args]
  BY WholeParts
<1>5. c.ix \in Nat /\ c.id \in Nat /\ NextTool(s) \in Nat /\ s.out \in Seq(EventSet) /\ Len(s.out) \in Nat
  <2>1. s.out \in Seq(EventSet)
    BY DEF RenderState
  <2>2. c.ix \in Nat /\ c.id \in Nat
    BY DEF CallSet
  <2>3. NextTool(s) \in Nat
    BY Updates, Zenon
  <2>4. Len(s.out) \in Nat
    BY <2>1
  <2>. QED
    BY <2>1, <2>2, <2>3, <2>4
<1>6. key \in Int
  BY <1>5 DEF Dialects
<1>. HIDE DEF r, evs, key
<1>7. PICK a \in Aside : r.out = s.out \o (a \o evs)
  BY <1>3, Zenon
<1>8. a \in Seq(EventSet) /\ a \in Sans({"call", "args"})
  BY AsideIs, AsideConcat
<1>. DEFINE sa == s.out \o a
<1>9. sa \in Seq(EventSet) /\ r.out = sa \o evs
  <2>1. (s.out \o a) \o evs = s.out \o (a \o evs)
    BY <1>4, <1>5, <1>8, EventAssoc, Zenon
  <2>2. sa \in Seq(EventSet)
    BY <1>5, <1>8
  <2>. QED
    BY <1>7, <2>1, <2>2
<1>10. /\ Assembled(PartsOf(d, sa)) = Assembled(PartsOf(d, s.out))
       /\ Keys(PartsOf(d, sa)) = Keys(PartsOf(d, s.out))
  BY <1>5, <1>8, QuietParts
<1>. DEFINE keys == Keys(PartsOf(d, s.out))
<1>11. keys \subseteq Nat
  BY <1>5, KeysNat
<1>12. key \notin keys
  <2>. HIDE DEF keys
  <2>1. CASE d \in {"openai", "responses"}
    BY <2>1 DEF Tells, Knows, key, keys
  <2>2. CASE d = "anthropic"
    <3>1. \A k \in keys : k < NextTool(s)
      BY <2>2 DEF Tells, Knows, keys
    <3>. QED
      BY <1>5, <1>11, <2>2, <3>1 DEF key
  <2>3. CASE d \in {"gemini", "ollama"}
    <3>1. \A k \in keys : k < Len(s.out)
      BY <2>3 DEF Tells, Knows, keys
    <3>2. key = Len(s.out)
      BY <2>3 DEF key
    <3>. QED
      BY <1>5, <1>11, <3>1, <3>2
  <2>. QED
    BY <2>1, <2>2, <2>3 DEF Dialects
<1>13. /\ Assembled(PartsOf(d, r.out)) = Assembled(PartsOf(d, s.out)) \cup {[id |-> c.id, args |-> c.args]}
       /\ Keys(PartsOf(d, r.out)) = keys \cup {key}
  <2>. DEFINE ps == PartsOf(d, sa)
              pe == PartsOf(d, evs)
  <2>. HIDE DEF sa
  <2>1. ps \in Seq(PartSet) /\ pe \in Seq(PartSet) /\ PartsOf(d, sa \o evs) = ps \o pe
    BY <1>4, <1>9, PartsConcat
  <2>2. key \notin Keys(ps)
    BY <1>10, <1>12
  <2>. HIDE DEF ps, pe
  <2>3. Assembled(ps \o pe) = Assembled(ps) \cup {Joined(pe, key)} /\ Keys(ps \o pe) = Keys(ps) \cup {key}
    BY <1>4, <1>6, <2>1, <2>2, AssembledConcat DEF pe
  <2>. QED
    BY <1>4, <1>9, <1>10, <2>1, <2>3 DEF ps, pe
<1>. HIDE DEF keys, sa
<1>14. ToldIs(d, r, T \cup {c})
  <2>1. {[id |-> e.id, args |-> e.args] : e \in T \cup {c}}
        = {[id |-> e.id, args |-> e.args] : e \in T} \cup {[id |-> c.id, args |-> c.args]}
    OBVIOUS
  <2>. QED
    BY <1>13, <2>1 DEF Tells, ToldIs
<1>15. Len(r.out) \in Nat /\ Len(r.out) > Len(s.out)
  <2>1. a \o evs \in Seq(EventSet) /\ Len(a \o evs) = Len(a) + Len(evs) /\ Len(a) \in Nat /\ Len(evs) \in Nat
    BY <1>4, <1>8
  <2>2. Len(evs) # 0
    BY <1>4
  <2>. DEFINE ae == a \o evs
  <2>. HIDE DEF ae
  <2>3. ae \in Seq(EventSet) /\ Len(ae) > 0 /\ Len(ae) \in Nat
    BY <2>1, <2>2 DEF ae
  <2>4. Len(s.out \o ae) = Len(s.out) + Len(ae)
    BY <1>5, <2>3
  <2>5. r.out = s.out \o ae
    BY <1>7 DEF ae
  <2>. QED
    BY <1>5, <2>3, <2>4, <2>5
<1>16. Knows(d, r, T \cup {c})
  <2>1. CASE d = "openai"
    <3>1. \A k \in keys : \E e \in T : k = e.ix
      BY <2>1 DEF Tells, Knows, keys
    <3>2. \A k \in keys \cup {key} : \E e \in T \cup {c} : k = e.ix
      BY <2>1, <3>1 DEF key
    <3>. QED
      BY <1>13, <2>1, <3>2 DEF Knows
  <2>2. CASE d = "anthropic"
    <3>1. \A k \in keys : k < NextTool(s)
      BY <2>2 DEF Tells, Knows, keys
    <3>2. \A k \in keys \cup {key} : k < NextTool(r)
      <4>1. key = NextTool(s) /\ NextTool(r) = NextTool(s) + 1
        BY <1>3, <2>2 DEF key
      <4>. QED
        BY <1>5, <1>11, <3>1, <4>1
    <3>. QED
      BY <1>3, <1>13, <2>2, <3>2 DEF Knows
  <2>3. CASE d = "responses"
    <3>1. (\A k \in keys : \E e \in T : k = e.id) /\ \A i \in DOMAIN s.callId : \E e \in T : s.callId[i].ix = e.ix
      BY <2>3 DEF Tells, Knows, keys
    <3>2. \A k \in keys \cup {key} : \E e \in T \cup {c} : k = e.id
      BY <2>3, <3>1 DEF key
    <3>3. \A i \in DOMAIN r.callId : \E e \in T \cup {c} : r.callId[i].ix = e.ix
      <4>. DEFINE ids == s.callId
                  n == Len(ids)
                  new == [ix |-> c.ix, id |-> c.id]
                  R == [ix : Nat, id : Nat]
      <4>1. ids \in Seq(R) /\ new \in R /\ new.ix = c.ix
        BY <1>5 DEF RenderState
      <4>2. r.callId = Append(ids, new)
        BY <1>3, <2>3
      <4>3. \A i \in DOMAIN ids : \E e \in T : ids[i].ix = e.ix
        BY <3>1
      <4>. HIDE DEF ids, new, R
      <4>4. /\ n \in Nat /\ DOMAIN ids = 1..n /\ DOMAIN Append(ids, new) = 1..n + 1
            /\ (\A i \in 1..n : Append(ids, new)[i] = ids[i]) /\ Append(ids, new)[n + 1] = new
        BY <4>1
      <4>. HIDE DEF n
      <4>5. ASSUME NEW i \in 1..n + 1 PROVE \E e \in T \cup {c} : Append(ids, new)[i].ix = e.ix
        <5>1. CASE i = n + 1
          BY <4>1, <4>4, <5>1
        <5>2. CASE i \in 1..n
          BY <4>3, <4>4, <5>2
        <5>. QED
          BY <4>4, <5>1, <5>2
      <4>. QED
        BY <4>2, <4>4, <4>5
    <3>. QED
      BY <1>13, <2>3, <3>2, <3>3 DEF Knows
  <2>4. CASE d \in {"gemini", "ollama"}
    <3>1. \A k \in keys : k < Len(s.out)
      BY <2>4 DEF Tells, Knows, keys
    <3>2. key = Len(s.out)
      BY <2>4 DEF key
    <3>3. \A k \in keys \cup {key} : k < Len(r.out)
      BY <1>5, <1>11, <1>15, <3>1, <3>2
    <3>. QED
      BY <1>13, <2>4, <3>3 DEF Knows
  <2>. QED
    BY <2>1, <2>2, <2>3, <2>4 DEF Dialects
<1>. QED
  BY <1>14, <1>16 DEF Tells, r

---------------------------------------------------------------------------
(* The sanitizer *)

\* The sequences of a finite set have all of its members, once.
LEMMA Enumerates ==
  ASSUME NEW S, IsFiniteSet(S), NEW out \in SetToSeqs(S)
  PROVE  /\ out \in Seq(S)
         /\ \A i, j \in DOMAIN out : i # j => out[i] # out[j]
         /\ \A x \in S : \E i \in DOMAIN out : out[i] = x
         /\ S = {} => out = <<>>
<1>. DEFINE n == Cardinality(S)
            D == 1..n
<1>1. n \in Nat
  BY FS_CardinalityType
<1>2. out \in [D -> S] /\ \A i, j \in D : i # j => out[i] # out[j]
  BY DEF SetToSeqs
<1>3. S = {} => n = 0
  BY FS_EmptySet
<1>4. IsFiniteSet(D) /\ Cardinality(D) = n
  BY <1>1, FS_Interval
<1>. HIDE DEF n
<1>5. out \in Seq(S) /\ DOMAIN out = D
  BY <1>1, <1>2
<1>6. out \in Surjection(D, S)
  <2>. HIDE DEF D
  <2>1. out \in Injection(D, S)
    BY <1>2 DEF Injection, IsInjective
  <2>. QED
    BY <1>4, <2>1, FS_Injection DEF n
<1>7. S = {} => out = <<>>
  <2>1. S = {} => Len(out) = 0
    BY <1>1, <1>3, <1>5
  <2>. QED
    BY <1>5, <2>1
<1>. QED
  BY <1>2, <1>5, <1>6, <1>7 DEF Surjection

Buffered(bufs) == /\ bufs \subseteq CallSet /\ IsFiniteSet(bufs)
                  /\ \A b, c \in bufs : b.ix = c.ix => b = c

LEMMA WholeIs ==
  \A b \in CallSet : Whole(b) = Tool(b.ix, b.id, b.args) /\ Whole(b) \in ChunkSet
BY DEF Whole, ChunkSet

LEMMA FlushIs ==
  ASSUME NEW bufs, Buffered(bufs)
  PROVE  IsFiniteSet(Flush(bufs)) /\ Flush(bufs) \subseteq ChunkSet /\ Flush({}) = {}
<1>. DEFINE f == [b \in bufs |-> Whole(b)]
<1>1. f \in Surjection(bufs, Flush(bufs))
  BY DEF Surjection, Flush
<1>2. IsFiniteSet(Flush(bufs))
  BY <1>1, FS_Surjection DEF Buffered
<1>3. Flush(bufs) \subseteq ChunkSet
  BY WholeIs DEF Flush, Buffered
<1>4. Flush({}) = {}
  BY DEF Flush
<1>. QED
  BY <1>2, <1>3, <1>4

LEMMA SubBuffered ==
  ASSUME NEW bufs, Buffered(bufs), NEW S \in SUBSET bufs
  PROVE  Buffered(S)
BY FS_Subset DEF Buffered

LEMMA Longer ==
  ASSUME NEW b \in CallSet, NEW args \in Args
  PROVE  /\ [b EXCEPT !.args = @ \o args] \in CallSet
         /\ [b EXCEPT !.args = @ \o args].ix = b.ix /\ [b EXCEPT !.args = @ \o args].id = b.id
         /\ [b EXCEPT !.args = @ \o args].args = b.args \o args
<1>. DEFINE more == b.args \o args
<1>1. b.args \in Args
  BY DEF CallSet
<1>2. more \in Args
  BY <1>1 DEF Args
<1>. HIDE DEF more
<1>3. [b EXCEPT !.args = more] \in CallSet
  BY <1>2 DEF CallSet
<1>4. [b EXCEPT !.args = more].ix = b.ix /\ [b EXCEPT !.args = more].id = b.id
      /\ [b EXCEPT !.args = more].args = more
  BY DEF CallSet
<1>. QED
  BY <1>3, <1>4 DEF more

\* A fragment opens a buffer, goes into one, or passes by.
ToolStep(bufs, c, ch, p) ==
  LET at == WithIndex(bufs, c.ix)
      new == c.id # 0 /\ \A b \in at : b.id # c.id
  IN /\ new => p.held = (bufs \ at) \cup {c} /\ p.out = Flush(at) /\ p.pass = <<>>
     /\ ~new => /\ p.out = {}
                /\ \A b \in at : /\ p.held = (bufs \ {b}) \cup {[b EXCEPT !.args = @ \o c.args]}
                                 /\ p.pass = <<>>
                /\ at = {} => p.held = bufs /\ p.pass = <<ch>>

LEMMA ProcessToolIs ==
  ASSUME NEW bufs, Buffered(bufs), NEW c \in CallSet
  PROVE  ToolStep(bufs, c, Tool(c.ix, c.id, c.args), ProcessTool(bufs, Tool(c.ix, c.id, c.args)))
<1>. SUFFICES LET ch == Tool(c.ix, c.id, c.args)
                  p == ProcessTool(bufs, ch)
                  at == WithIndex(bufs, c.ix)
                  new == c.id # 0 /\ \A b \in at : b.id # c.id
              IN /\ new => p.held = (bufs \ at) \cup {c} /\ p.out = Flush(at) /\ p.pass = <<>>
                 /\ ~new => /\ p.out = {}
                            /\ \A b \in at : /\ p.held = (bufs \ {b}) \cup {[b EXCEPT !.args = @ \o c.args]}
                                             /\ p.pass = <<>>
                            /\ at = {} => p.held = bufs /\ p.pass = <<ch>>
  BY Zenon DEF ToolStep
<1>. DEFINE ch == Tool(c.ix, c.id, c.args)
            p == ProcessTool(bufs, ch)
            at == WithIndex(bufs, c.ix)
            new == c.id # 0 /\ \A b \in at : b.id # c.id
            put(buf) == IF buf.ix = c.ix THEN [buf EXCEPT !.args = @ \o c.args] ELSE buf
            fresh == [ix |-> c.ix, id |-> c.id, args |-> <<>>]
            kept == IF new THEN (bufs \ at) \cup {fresh} ELSE bufs
<1>1. ch.ix = c.ix /\ ch.id = c.id /\ ch.args = c.args
  BY ChunkKinds
<1>. HIDE DEF ch
<1>2. /\ p.held = {put(buf) : buf \in kept}
      /\ p.out = IF new THEN Flush(at) ELSE {}
      /\ p.pass = IF WithIndex(kept, c.ix) = {} THEN <<ch>> ELSE <<>>
  BY <1>1 DEF ProcessTool, OpensCall
<1>3. at \subseteq bufs /\ (\A b \in at : b.ix = c.ix) /\ \A b \in bufs \ at : b.ix # c.ix /\ put(b) = b
  BY Zenon DEF WithIndex
<1>4. CASE new
  <2>1. c.ix \in Nat /\ c.id \in Nat /\ c.args \in Args
    BY DEF CallSet
  <2>2. put(fresh) = c
    <3>1. <<>> \o c.args = c.args
      BY <2>1 DEF Args
    <3>2. put(fresh) = [fresh EXCEPT !.args = <<>> \o c.args]
      OBVIOUS
    <3>3. [fresh EXCEPT !.args = c.args] = [ix |-> c.ix, id |-> c.id, args |-> c.args]
      OBVIOUS
    <3>4. c = [ix |-> c.ix, id |-> c.id, args |-> c.args]
      BY DEF CallSet
    <3>. QED
      BY <3>1, <3>2, <3>3, <3>4
  <2>3. kept = (bufs \ at) \cup {fresh}
    BY <1>4
  <2>4. WithIndex(kept, c.ix) # {}
    <3>1. fresh \in kept /\ fresh.ix = c.ix
      BY <2>3
    <3>. HIDE DEF kept, fresh
    <3>. QED
      BY <3>1 DEF WithIndex
  <2>. HIDE DEF put, fresh, kept, at
  <2>5. {put(buf) : buf \in kept} = (bufs \ at) \cup {c}
    BY <1>3, <2>2, <2>3
  <2>. HIDE DEF p
  <2>6. p.held = (bufs \ at) \cup {c} /\ p.out = Flush(at) /\ p.pass = <<>>
    BY <1>2, <1>4, <2>4, <2>5
  <2>. QED
    BY <1>4, <2>6, Zenon DEF p, at, ch
<1>5. CASE ~new
  <2>1. kept = bufs
    BY <1>5
  <2>2. ASSUME NEW b \in at PROVE at = {b}
    BY <1>3 DEF Buffered
  <2>3. ASSUME NEW b \in at PROVE {put(buf) : buf \in bufs} = (bufs \ {b}) \cup {[b EXCEPT !.args = @ \o c.args]}
    <3>1. put(b) = [b EXCEPT !.args = @ \o c.args]
      BY <1>3
    <3>2. \A buf \in bufs \ {b} : put(buf) = buf
      BY <1>3, <2>2, Zenon
    <3>3. b \in bufs
      BY <1>3
    <3>. HIDE DEF put, at
    <3>. QED
      BY <3>1, <3>2, <3>3, Zenon
  <2>4. at = {} => {put(buf) : buf \in bufs} = bufs
    <3>1. at = {} => \A buf \in bufs : put(buf) = buf
      BY <1>3, Zenon
    <3>. HIDE DEF put, at
    <3>. QED
      BY <3>1
  <2>. HIDE DEF p, put, kept
  <2>5. p.out = {} /\ p.held = {put(buf) : buf \in bufs} /\ p.pass = IF at = {} THEN <<ch>> ELSE <<>>
    BY <1>2, <1>5, <2>1
  <2>. HIDE DEF at
  <2>6. /\ p.out = {}
        /\ \A b \in at : p.held = (bufs \ {b}) \cup {[b EXCEPT !.args = @ \o c.args]} /\ p.pass = <<>>
        /\ at = {} => p.held = bufs /\ p.pass = <<ch>>
    BY <2>3, <2>4, <2>5, Zenon
  <2>. QED
    BY <1>5, <2>6, Zenon DEF p, at, ch
<1>. QED
  BY <1>4, <1>5, Zenon

\* What a chunk makes of the buffers: some come out, in front of the chunk itself
\* unless that is kept.
LEMMA ProcessIs ==
  ASSUME NEW bufs, Buffered(bufs), NEW ch \in ChunkSet
  PROVE  LET p == Process(bufs, ch)
         IN /\ Buffered(p.held)
            /\ \A b \in p.held : (ch.kind = "tool" /\ ch.id # 0 /\ b.id = ch.id) \/ \E a \in bufs : b.id = a.id
            /\ \E S \in SUBSET bufs : p.out = Flush(S)
            /\ p.pass = <<ch>> \/ (p.pass = <<>> /\ ch.kind = "tool")
            /\ ch.kind \notin {"tool", "finish"} => p.held = bufs /\ p.out = {} /\ p.pass = <<ch>>
            /\ ch.kind = "finish" => p.held = {} /\ p.out = Flush(bufs) /\ p.pass = <<ch>>
<1>. DEFINE p == Process(bufs, ch)
            Goal == /\ Buffered(p.held)
                    /\ \A b \in p.held : (ch.kind = "tool" /\ ch.id # 0 /\ b.id = ch.id) \/ \E a \in bufs : b.id = a.id
                    /\ \E S \in SUBSET bufs : p.out = Flush(S)
                    /\ p.pass = <<ch>> \/ (p.pass = <<>> /\ ch.kind = "tool")
                    /\ ch.kind \notin {"tool", "finish"} => p.held = bufs /\ p.out = {} /\ p.pass = <<ch>>
                    /\ ch.kind = "finish" => p.held = {} /\ p.out = Flush(bufs) /\ p.pass = <<ch>>
<1>. SUFFICES Goal
  OBVIOUS
<1>1. Flush({}) = {} /\ Buffered({}) /\ {} \in SUBSET bufs
  BY FlushIs, FS_EmptySet DEF Buffered
<1>2. CASE ch.kind = "tool"
  <2>1. PICK c \in CallSet : ch = Tool(c.ix, c.id, c.args)
    BY <1>2, ChunkKinds DEF ChunkSet
  <2>2. ch.id = c.id
    BY <2>1, ChunkKinds
  <2>3. p = ProcessTool(bufs, ch)
    BY <1>2 DEF Process
  <2>. DEFINE at == WithIndex(bufs, c.ix)
              new == c.id # 0 /\ \A b \in at : b.id # c.id
  <2>4. at \subseteq bufs /\ (\A b \in at : b.ix = c.ix) /\ \A b \in bufs \ at : b.ix # c.ix
    BY DEF WithIndex
  <2>5. /\ new => p.held = (bufs \ at) \cup {c} /\ p.out = Flush(at) /\ p.pass = <<>>
        /\ ~new => /\ p.out = {}
                   /\ \A b \in at : /\ p.held = (bufs \ {b}) \cup {[b EXCEPT !.args = @ \o c.args]}
                                    /\ p.pass = <<>>
                   /\ at = {} => p.held = bufs /\ p.pass = <<ch>>
    <3>. DEFINE cc == Tool(c.ix, c.id, c.args)
                q == ProcessTool(bufs, cc)
    <3>1. ToolStep(bufs, c, cc, q)
      BY ProcessToolIs
    <3>2. q = p /\ cc = ch
      BY <2>1, <2>3
    <3>. HIDE DEF p, q, cc
    <3>3. ToolStep(bufs, c, ch, p)
      BY <3>1, <3>2
    <3>. QED
      BY <3>3, Zenon DEF ToolStep
  <2>. HIDE DEF p, at
  <2>6. CASE new
    <3>1. Buffered(bufs \ at)
      BY SubBuffered
    <3>2. Buffered((bufs \ at) \cup {c})
      BY <2>4, <3>1, FS_AddElement, Zenon DEF Buffered
    <3>. QED
      BY <1>2, <2>2, <2>4, <2>5, <2>6, <3>2, Zenon
  <2>7. CASE ~new /\ at # {}
    <3>1. PICK b \in at : TRUE
      BY <2>7
    <3>. DEFINE x == [b EXCEPT !.args = @ \o c.args]
    <3>2. c.args \in Args /\ b \in CallSet /\ b \in bufs
      BY <2>4 DEF CallSet, Buffered
    <3>3. x \in CallSet /\ x.ix = b.ix /\ x.id = b.id
      BY <3>2, Longer, Zenon
    <3>4. p.held = (bufs \ {b}) \cup {x} /\ p.pass = <<>> /\ p.out = {}
      BY <2>5, <2>7, Zenon
    <3>. HIDE DEF x
    <3>5. Buffered(bufs \ {b})
      BY SubBuffered
    <3>6. Buffered((bufs \ {b}) \cup {x})
      <4>1. \A a \in bufs \ {b} : a.ix # x.ix
        BY <3>2, <3>3 DEF Buffered
      <4>. QED
        BY <3>3, <3>5, <4>1, FS_AddElement DEF Buffered
    <3>. QED
      BY <1>1, <1>2, <3>2, <3>3, <3>4, <3>6
  <2>8. CASE ~new /\ at = {}
    BY <1>1, <1>2, <2>5, <2>8, Zenon
  <2>. QED
    BY <2>6, <2>7, <2>8
<1>3. CASE ch.kind = "finish"
  <2>1. p.held = {} /\ p.out = Flush(bufs) /\ p.pass = <<ch>>
    BY <1>3 DEF Process
  <2>. HIDE DEF p
  <2>. QED
    BY <1>1, <1>3, <2>1
<1>4. CASE ch.kind \notin {"tool", "finish"}
  <2>1. p.held = bufs /\ p.out = {} /\ p.pass = <<ch>>
    BY <1>4 DEF Process
  <2>. HIDE DEF p
  <2>. QED
    BY <1>1, <1>4, <2>1
<1>. QED
  BY <1>2, <1>3, <1>4

---------------------------------------------------------------------------
(* What the handler makes of a chunk *)

ChunkText(ch) == IF ch.kind = "text" THEN ch.delta ELSE <<>>
TextSent(chs) == FlattenSeq([i \in DOMAIN chs |-> ChunkText(chs[i])])
SentParts == [ch \in ChunkSet |-> ChunkText(ch)]

LEMMA ChunkForms ==
  ASSUME NEW ch \in ChunkSet
  PROVE  /\ ch.kind = "text" => ch.delta \in Texts /\ ch = Text(ch.delta)
         /\ ch.kind = "tool" => \E c \in CallSet : ch = Tool(c.ix, c.id, c.args)
         /\ ch.kind \notin {"text", "tool"} => ch \in {Thinking, Finish, Usage}
         /\ ChunkText(ch) \in Texts
<1>1. CASE ch \in {Text(delta) : delta \in Texts}
  BY <1>1, ChunkKinds DEF ChunkText
<1>2. CASE ch \in {Thinking, Finish, Usage}
  BY <1>2, ChunkKinds, TagSymbols DEF ChunkText
<1>3. CASE ch \in {Tool(c.ix, c.id, c.args) : c \in CallSet}
  BY <1>3, ChunkKinds, TagSymbols DEF ChunkText
<1>. QED
  BY <1>1, <1>2, <1>3 DEF ChunkSet

SentAdds(chs, ch) == TextSent(Append(chs, ch)) = TextSent(chs) \o ChunkText(ch)

LEMMA SentAppend ==
  ASSUME NEW chs \in Seq(ChunkSet), NEW ch \in ChunkSet
  PROVE  TextSent(chs) \in Texts /\ SentAdds(chs, ch)
<1>1. SentParts \in [ChunkSet -> Texts] /\ \A c \in ChunkSet : SentParts[c] = ChunkText(c)
  BY ChunkForms DEF SentParts
<1>2. ASSUME NEW s \in Seq(ChunkSet) PROVE TextSent(s) = Flat(SentParts, s)
  <2>1. \A i \in DOMAIN s : s[i] \in ChunkSet
    OBVIOUS
  <2>2. [i \in DOMAIN s |-> ChunkText(s[i])] = [i \in DOMAIN s |-> SentParts[s[i]]]
    BY <1>1, <2>1
  <2>. QED
    BY <2>2 DEF TextSent, Flat
<1>3. Flat(SentParts, chs) \in Texts
  BY <1>1, FlatType, Zenon DEF Texts
<1>4. <<ch>> \in Seq(ChunkSet) /\ Append(chs, ch) = chs \o <<ch>> /\ chs \o <<ch>> \in Seq(ChunkSet)
  OBVIOUS
<1>5. FlatAdds(SentParts, chs, <<ch>>)
  BY <1>1, <1>4, FlatConcat, Zenon DEF Texts
<1>6. Flat(SentParts, <<ch>>) = SentParts[ch]
  BY <1>1, FlatOne DEF Texts
<1>. HIDE DEF SentParts
<1>7. Flat(SentParts, chs \o <<ch>>) = Flat(SentParts, chs) \o ChunkText(ch)
  BY <1>1, <1>5, <1>6, Zenon DEF FlatAdds
<1>8. TextSent(Append(chs, ch)) = Flat(SentParts, chs \o <<ch>>)
  BY <1>2, <1>4, Zenon
<1>. QED
  BY <1>2, <1>3, <1>7, <1>8, Zenon DEF SentAdds

\* r has written what s has, and this text; r has told what s has.
TextAdds(s, r, text) == r \in RenderState /\ TextOf(r.out) = TextOf(s.out) \o text
KeepsTold(d, s, r) == \A T : ToldIs(d, s, T) => ToldIs(d, r, T)
KeepsTells(d, s, r) == \A T : Tells(d, s, T) => Tells(d, r, T)

LEMMA OutType ==
  ASSUME NEW s \in RenderState
  PROVE  s.out \in Seq(EventSet) /\ TextOf(s.out) \in Data /\ TextOf(s.out) \o <<>> = TextOf(s.out)
<1>1. s.out \in Seq(EventSet)
  BY DEF RenderState
<1>2. TextOf(s.out) \in Data
  BY <1>1, TextOfConcat
<1>3. \A data \in Data : data \o <<>> = data
  BY DEF Data
<1>. QED
  BY <1>1, <1>2, <1>3

LEMMA SilentAdds ==
  ASSUME NEW s \in RenderState, NEW r \in RenderState, NEW evs \in Seq(EventSet),
         r.out = s.out \o evs, TextOf(evs) = <<>>
  PROVE  TextAdds(s, r, <<>>)
<1>1. TextOf(s.out \o evs) = TextOf(s.out) \o TextOf(evs)
  BY OutType, TextOfConcat, Zenon
<1>. QED
  BY <1>1 DEF TextAdds

\* Text that comes out of the filter is written, if there is any.
LEMMA RenderTextIs ==
  ASSUME to \in Dialects, NEW s \in RenderState, NEW text \in Texts
  PROVE  /\ TextAdds(s, RenderText(s, text), text)
         /\ KeepsTold(to, s, RenderText(s, text)) /\ KeepsTells(to, s, RenderText(s, text))
<1>1. CASE text = <<>>
  <2>1. RenderText(s, text) = s
    BY <1>1 DEF RenderText
  <2>. QED
    BY <1>1, <2>1, OutType DEF TextAdds, KeepsTold, KeepsTells
<1>2. CASE text # <<>>
  <2>. DEFINE ch == Text(text)
              r == RenderStreamChunk(to, s, ch)
              say == <<At0("text", text)>>
  <2>1. RenderText(s, text) = r
    BY <1>2 DEF RenderText
  <2>2. \E evs \in Aside : r \in RenderState /\ r.out = s.out \o (evs \o say)
    BY TextRendered, Zenon
  <2>3. ch.kind # "finish" /\ ch \in {Text(delta) : delta \in Texts} \cup {Thinking, Finish, Usage}
    BY ChunkKinds
  <2>4. KeepsTold(to, s, r) /\ KeepsTells(to, s, r)
    BY <2>3, TellsAside DEF KeepsTold, KeepsTells
  <2>5. say \in Seq(EventSet) /\ TextOf(say) = text
    BY OneText
  <2>. HIDE DEF r, say
  <2>6. PICK evs \in Aside : r \in RenderState /\ r.out = s.out \o (evs \o say)
    BY <2>2, Zenon
  <2>7. evs \in Seq(EventSet) /\ TextOf(evs) = <<>>
    BY AsideIs
  <2>8. evs \o say \in Seq(EventSet)
    BY <2>5, <2>7
  <2>9. TextOf(evs \o say) = text
    <3>1. TextOf(evs \o say) = <<>> \o text
      BY <2>5, <2>7, TextOfConcat, Zenon
    <3>2. <<>> \o text = text
      BY DEF Texts
    <3>. QED
      BY <3>1, <3>2
  <2>10. TextOf(s.out \o (evs \o say)) = TextOf(s.out) \o text
    <3>. DEFINE more == evs \o say
    <3>1. more \in Seq(EventSet) /\ TextOf(more) = text
      BY <2>8, <2>9
    <3>. HIDE DEF more
    <3>2. TextOf(s.out \o more) = TextOf(s.out) \o TextOf(more)
      BY <3>1, OutType, TextOfConcat, Zenon
    <3>. QED
      BY <3>1, <3>2 DEF more
  <2>. QED
    BY <2>1, <2>4, <2>6, <2>10 DEF TextAdds
<1>. QED
  BY <1>1, <1>2

\* No other chunk makes a renderer write text.
LEMMA OtherRendered ==
  ASSUME NEW d \in Dialects, NEW s \in RenderState, NEW ch \in ChunkSet, ch.kind # "text"
  PROVE  /\ TextAdds(s, RenderStreamChunk(d, s, ch), <<>>)
         /\ ch.kind # "tool" => KeepsTold(d, s, RenderStreamChunk(d, s, ch))
         /\ ch.kind \notin {"tool", "finish"} => KeepsTells(d, s, RenderStreamChunk(d, s, ch))
<1>. DEFINE r == RenderStreamChunk(d, s, ch)
<1>1. CASE ch.kind = "tool"
  <2>1. PICK c \in CallSet : ch = Tool(c.ix, c.id, c.args)
    BY <1>1, ChunkForms
  <2>. DEFINE q == RenderStreamChunk(d, s, Tool(c.ix, c.id, c.args))
  <2>2. q \in RenderState /\ \E evs \in Sans({"text"}) : q.out = s.out \o evs
    BY ToolRendered, Zenon
  <2>3. q = r
    BY <2>1
  <2>. HIDE DEF q, r
  <2>4. PICK evs \in Sans({"text"}) : r.out = s.out \o evs
    BY <2>2, <2>3
  <2>5. TextAdds(s, r, <<>>)
    BY <2>2, <2>3, <2>4, Eventful, SilentAdds, Zenon
  <2>. QED
    BY <1>1, <2>5 DEF r
<1>2. CASE ch.kind # "tool"
  <2>1. ch \in {Thinking, Finish, Usage}
    BY <1>2, ChunkForms
  <2>2. \E evs \in Aside : r \in RenderState /\ r.out = s.out \o evs
    BY <2>1, AsideRendered, Zenon
  <2>3. KeepsTold(d, s, r) /\ (ch.kind # "finish" => KeepsTells(d, s, r))
    BY <2>1, TellsAside DEF KeepsTold, KeepsTells
  <2>. HIDE DEF r
  <2>4. PICK evs \in Aside : r \in RenderState /\ r.out = s.out \o evs
    BY <2>2
  <2>5. TextAdds(s, r, <<>>)
    BY <2>4, AsideIs, SilentAdds, Zenon
  <2>. QED
    BY <2>3, <2>5 DEF r
<1>. QED
  BY <1>1, <1>2

\* The filter and the renderer between two chunks.
RenderedSet == [tags : FilterState, client : RenderState]
Showing(v, x) == TextOf(x.client.out) \o Seen(x.tags.thinking, x.tags.buf \o v)
\* y comes after this much text was sent on to x.
Shows(x, y, text) == \A v \in Texts : Showing(v, y) = Showing(text \o v, x)

LEMMA RenderChunkIs ==
  ASSUME to \in Dialects, NEW x \in RenderedSet, NEW ch \in ChunkSet
  PROVE  /\ RenderChunk(x, ch) \in RenderedSet
         /\ ch.kind = "text" =>
              /\ RenderChunk(x, ch).tags = [thinking |-> ProcessFeed(x.tags, ch.delta).thinking,
                                            buf |-> ProcessFeed(x.tags, ch.delta).buf]
              /\ RenderChunk(x, ch).client = RenderText(x.client, ProcessFeed(x.tags, ch.delta).text)
         /\ ch.kind # "text" => /\ RenderChunk(x, ch).tags = x.tags
                                /\ RenderChunk(x, ch).client = RenderStreamChunk(to, x.client, ch)
<1>0. x.tags \in FilterState /\ x.client \in RenderState
  BY DEF RenderedSet
<1>1. CASE ch.kind = "text"
  <2>. DEFINE fed == ProcessFeed(x.tags, ch.delta)
              r == RenderText(x.client, fed.text)
              t == [thinking |-> fed.thinking, buf |-> fed.buf]
  <2>1. ch.delta \in Texts
    BY <1>1, ChunkForms
  <2>2. fed.thinking \in BOOLEAN /\ fed.buf \in Held1 /\ fed.text \in Texts
    BY <1>0, <2>1, FeedShows, Zenon
  <2>3. RenderChunk(x, ch) = [tags |-> t, client |-> r]
    BY <1>1 DEF RenderChunk
  <2>. HIDE DEF fed
  <2>4. r \in RenderState
    BY <1>0, <2>2, RenderTextIs DEF TextAdds
  <2>5. t \in FilterState
    BY <2>2 DEF FilterState
  <2>. HIDE DEF r, t
  <2>6. [tags |-> t, client |-> r] \in RenderedSet
    BY <2>4, <2>5 DEF RenderedSet
  <2>. QED
    BY <1>1, <2>3, <2>6 DEF fed, r, t
<1>2. CASE ch.kind # "text"
  <2>. DEFINE r == RenderStreamChunk(to, x.client, ch)
  <2>1. RenderChunk(x, ch) = [x EXCEPT !.client = r]
    BY <1>2 DEF RenderChunk
  <2>2. r \in RenderState
    BY <1>0, <1>2, OtherRendered DEF TextAdds
  <2>. HIDE DEF r
  <2>3. [x EXCEPT !.client = r] \in RenderedSet /\ [x EXCEPT !.client = r].tags = x.tags
        /\ [x EXCEPT !.client = r].client = r
    BY <2>2 DEF RenderedSet
  <2>. QED
    BY <1>2, <2>1, <2>3 DEF r
<1>. QED
  BY <1>1, <1>2

LEMMA DataAssoc ==
  /\ \A r, s, t \in Data : (r \o s) \o t = r \o (s \o t) /\ r \o <<>> = r
  /\ \A t \in Texts : t \in Data
<1>1. \A r, s, t \in Data : (r \o s) \o t = r \o (s \o t)
  BY ConcatAssociative DEF Data
<1>2. \A r \in Data : r \o <<>> = r
  BY DEF Data
<1>. QED
  BY <1>1, <1>2, DataSets, Zenon

\* What is shown, once v has come, is what would be, had the chunk's text come with it.
LEMMA ChunkShows ==
  ASSUME to \in Dialects, NEW x \in RenderedSet, NEW ch \in ChunkSet
  PROVE  Shows(x, RenderChunk(x, ch), ChunkText(ch))
<1>. DEFINE y == RenderChunk(x, ch)
            o == TextOf(x.client.out)
<1>0. x.tags \in FilterState /\ x.client \in RenderState
  BY DEF RenderedSet
<1>1. o \in Data /\ o \o <<>> = o
  BY <1>0, OutType
<1>. SUFFICES ASSUME NEW v \in Texts
              PROVE  TextOf(y.client.out) \o Seen(y.tags.thinking, y.tags.buf \o v)
                     = o \o Seen(x.tags.thinking, x.tags.buf \o (ChunkText(ch) \o v))
  BY DEF Shows, Showing
<1>2. CASE ch.kind = "text"
  <2>. DEFINE fed == ProcessFeed(x.tags, ch.delta)
              later == Seen(fed.thinking, fed.buf \o v)
              all == Seen(x.tags.thinking, x.tags.buf \o (ch.delta \o v))
  <2>1. ch.delta \in Texts /\ ChunkText(ch) = ch.delta
    BY <1>2, ChunkForms DEF ChunkText
  <2>2. /\ fed.thinking \in BOOLEAN /\ fed.buf \in Held1 /\ fed.text \in Texts
        /\ fed.text \o later = all
    BY <1>0, <2>1, FeedShows, Zenon
  <2>3. later \in Texts
    <3>1. fed.buf \in Texts
      BY <2>2, TagSymbols DEF Held1
    <3>2. fed.buf \o v \in Texts
      BY <3>1, Concat
    <3>. QED
      BY <2>2, <3>2, SeenType
  <2>4. y.tags.thinking = fed.thinking /\ y.tags.buf = fed.buf /\ y.client = RenderText(x.client, fed.text)
    <3>1. y.tags = [thinking |-> fed.thinking, buf |-> fed.buf] /\ y.client = RenderText(x.client, fed.text)
      BY <1>2, RenderChunkIs
    <3>. HIDE DEF y, fed
    <3>. QED
      BY <3>1
  <2>5. TextAdds(x.client, y.client, fed.text)
    BY <1>0, <2>2, <2>4, RenderTextIs
  <2>6. TextOf(y.client.out) = o \o fed.text
    BY <2>5 DEF TextAdds
  <2>7. TextOf(y.client.out) \o Seen(y.tags.thinking, y.tags.buf \o v) = (o \o fed.text) \o later
    BY <2>4, <2>6
  <2>. HIDE DEF y, later, fed, all, o
  <2>8. (o \o fed.text) \o later = o \o all
    <3>1. (o \o fed.text) \o later = o \o (fed.text \o later)
      BY <1>1, <2>2, <2>3, DataAssoc, Zenon
    <3>. QED
      BY <2>2, <3>1
  <2>. QED
    BY <2>1, <2>7, <2>8 DEF all
<1>3. CASE ch.kind # "text"
  <2>1. ChunkText(ch) = <<>> /\ <<>> \o v = v
    BY <1>3 DEF ChunkText, Texts
  <2>2. y.tags = x.tags /\ y.client = RenderStreamChunk(to, x.client, ch)
    BY <1>3, RenderChunkIs, Zenon
  <2>3. TextAdds(x.client, y.client, <<>>)
    BY <1>0, <1>3, <2>2, OtherRendered
  <2>4. TextOf(y.client.out) = o
    BY <1>1, <2>3 DEF TextAdds
  <2>. HIDE DEF y, o
  <2>. QED
    BY <2>1, <2>2, <2>4
<1>. QED
  BY <1>2, <1>3, Zenon

\* Render goes through the chunks once.
Folded(start, chunks, f) ==
  /\ f \in [0..Len(chunks) -> RenderedSet]
  /\ f[0] = start
  /\ \A i \in 1..Len(chunks) : f[i] = RenderChunk(f[i - 1], chunks[i])

LEMMA RenderIs ==
  ASSUME to \in Dialects, tags \in FilterState, client \in RenderState, NEW chunks \in Seq(ChunkSet)
  PROVE  \E f : Folded([tags |-> tags, client |-> client], chunks, f) /\ Render(chunks) = f[Len(chunks)]
<1>. DEFINE start == [tags |-> tags, client |-> client]
            n == Len(chunks)
            S == 0..n
            T == RenderedSet
            M == [i \in S |-> i]
            F == [g \in [S -> T] |-> [i \in S |-> IF i = 0 THEN start ELSE RenderChunk(g[i - 1], chunks[i])]]
<1>1. n \in Nat /\ start \in T /\ \A i \in 1..n : chunks[i] \in ChunkSet
  BY DEF RenderedSet
<1>2. M \in [S -> Nat] /\ \A i \in S : M[i] = i
  OBVIOUS
<1>3. \A i \in S : i # 0 => i \in 1..n /\ i - 1 \in S
  BY <1>1
<1>4. 0 \in S /\ n \in S
  BY <1>1
<1>. HIDE DEF S, T, start, n
<1>5. \A x \in T, i \in 1..n : RenderChunk(x, chunks[i]) \in T
  BY <1>1, RenderChunkIs, Zenon DEF T
<1>6. F \in [[S -> T] -> [S -> T]]
  BY <1>1, <1>3, <1>5
<1>7. \A g \in [S -> T] : \A i \in S : F[g][i] = IF i = 0 THEN start ELSE RenderChunk(g[i - 1], chunks[i])
  OBVIOUS
<1>8. \A i \in S : i # 0 => M[i - 1] < M[i]
  BY <1>1, <1>2, <1>3
<1>9. \A g, h \in [S -> T] : \A i \in S :
         (\A x \in S : M[x] < M[i] => g[x] = h[x]) => F[g][i] = F[h][i]
  <2>. HIDE DEF M, F
  <2>. QED
    BY <1>3, <1>7, <1>8
<1>10. \E g \in [S -> T] : g = F[g]
  <2>1. Extends(S, T, M, F)
    <3>. HIDE DEF M, F
    <3>. QED
      BY <1>1, <1>2, <1>6, <1>9, Zenon DEF Extends
  <2>. HIDE DEF M, F, T
  <2>. QED
    BY <2>1, Recursion
<1>11. PICK g : g = [i \in S |-> IF i = 0 THEN start ELSE RenderChunk(g[i - 1], chunks[i])]
  BY <1>10
<1>. DEFINE h == CHOOSE h : h = [i \in S |-> IF i = 0 THEN start ELSE RenderChunk(h[i - 1], chunks[i])]
<1>12. h = [i \in S |-> IF i = 0 THEN start ELSE RenderChunk(h[i - 1], chunks[i])]
  BY <1>11, Zenon
<1>13. Render(chunks) = h[n]
  BY DEF Render, S, n, start
<1>. HIDE DEF h
<1>. DEFINE P == {k \in Nat : k \in S => h[k] \in T}
<1>14. 0 \in P
  BY <1>1, <1>12
<1>15. ASSUME NEW k \in Nat, k \in P PROVE k + 1 \in P
  <2>. SUFFICES ASSUME k + 1 \in S PROVE h[k + 1] \in T
    OBVIOUS
  <2>1. k \in S /\ k + 1 # 0 /\ (k + 1) - 1 = k /\ k + 1 \in 1..n
    BY <1>1 DEF S
  <2>2. h[k + 1] = RenderChunk(h[k], chunks[k + 1])
    BY <1>12, <2>1
  <2>. QED
    BY <1>5, <1>15, <2>1, <2>2
<1>. HIDE DEF P
<1>16. Nat \subseteq P
  BY <1>14, <1>15, Inductively
<1>17. \A i \in S : h[i] \in T
  BY <1>1, <1>16 DEF S, P
<1>18. h \in [S -> T] /\ h[0] = start /\ \A i \in 1..n : h[i] = RenderChunk(h[i - 1], chunks[i])
  <2>1. \A i \in 1..n : i \in S /\ i # 0
    BY <1>1 DEF S
  <2>. QED
    BY <1>4, <1>12, <1>17, <2>1, Zenon
<1>19. Folded(start, chunks, h)
  BY <1>18 DEF Folded, S, T, n
<1>. QED
  BY <1>13, <1>19 DEF start, n
LEMMA ShowsPast ==
  ASSUME NEW x, NEW y, NEW z, NEW text \in Texts, Shows(x, y, <<>>), Shows(y, z, text)
  PROVE  Shows(x, x, <<>>) /\ Shows(x, z, text)
<1>1. \A v \in Texts : <<>> \o v = v /\ text \o v \in Texts
  BY Concat DEF Texts
<1>2. Shows(x, x, <<>>)
  BY <1>1 DEF Shows
<1>3. ASSUME NEW v \in Texts PROVE Showing(v, z) = Showing(text \o v, x)
  <2>. DEFINE w == text \o v
  <2>1. w \in Texts /\ <<>> \o w = w
    BY <1>1
  <2>. HIDE DEF w
  <2>2. Showing(v, z) = Showing(w, y)
    BY DEF Shows, w
  <2>3. Showing(w, y) = Showing(<<>> \o w, x)
    BY <2>1 DEF Shows
  <2>. QED
    BY <2>1, <2>2, <2>3 DEF w
<1>. QED
  BY <1>2, <1>3 DEF Shows

\* Only the last of the chunks may carry text.
LEMMA RenderShows ==
  ASSUME to \in Dialects, tags \in FilterState, client \in RenderState, NEW chunks \in Seq(ChunkSet),
         \A i \in 1..Len(chunks) - 1 : ChunkText(chunks[i]) = <<>>, NEW text,
         text = IF Len(chunks) = 0 THEN <<>> ELSE ChunkText(chunks[Len(chunks)])
  PROVE  /\ Render(chunks) \in RenderedSet
         /\ Shows([tags |-> tags, client |-> client], Render(chunks), text)
<1>. DEFINE start == [tags |-> tags, client |-> client]
            n == Len(chunks)
<1>1. n \in Nat /\ \A i \in 1..n : chunks[i] \in ChunkSet
  OBVIOUS
<1>2. PICK f : Folded(start, chunks, f) /\ Render(chunks) = f[n]
  BY RenderIs
<1>3. /\ f \in [0..n -> RenderedSet] /\ f[0] = start
      /\ \A i \in 1..n : f[i] = RenderChunk(f[i - 1], chunks[i])
  BY <1>2 DEF Folded
<1>4. ASSUME NEW i \in 1..n PROVE Shows(f[i - 1], f[i], ChunkText(chunks[i]))
  <2>1. i - 1 \in 0..n
    BY <1>1
  <2>2. f[i - 1] \in RenderedSet
    BY <1>3, <2>1
  <2>. QED
    BY <1>1, <1>3, <2>2, ChunkShows
<1>5. Shows(start, start, <<>>)
  BY DEF Shows, Texts
<1>6. <<>> \in Texts
  BY TagSymbols
<1>. HIDE DEF start, n
<1>. DEFINE P == {i \in Nat : i <= n - 1 => Shows(start, f[i], <<>>)}
<1>7. 0 \in P
  BY <1>3, <1>5
<1>8. ASSUME NEW i \in Nat, i \in P PROVE i + 1 \in P
  <2>. SUFFICES ASSUME i + 1 <= n - 1 PROVE Shows(start, f[i + 1], <<>>)
    OBVIOUS
  <2>1. i <= n - 1 /\ i + 1 \in 1..n - 1 /\ i + 1 \in 1..n /\ (i + 1) - 1 = i
    BY <1>1
  <2>2. Shows(start, f[i], <<>>)
    BY <1>8, <2>1
  <2>3. ChunkText(chunks[i + 1]) = <<>>
    BY <2>1 DEF n
  <2>4. Shows(f[i], f[i + 1], <<>>)
    BY <1>4, <2>1, <2>3
  <2>. QED
    BY <1>6, <2>2, <2>4, ShowsPast
<1>. HIDE DEF P
<1>9. Nat \subseteq P
  BY <1>7, <1>8, Inductively
<1>10. Render(chunks) \in RenderedSet
  BY <1>1, <1>2, <1>3
<1>11. ASSUME n = 0 PROVE Shows(start, Render(chunks), text)
  <2>1. text = <<>>
    BY <1>11 DEF n
  <2>2. Render(chunks) = start
    BY <1>2, <1>3, <1>11
  <2>. QED
    BY <1>5, <2>1, <2>2
<1>12. ASSUME n # 0 PROVE Shows(start, Render(chunks), text)
  <2>1. n \in 1..n /\ n - 1 \in Nat /\ n - 1 \in P /\ text = ChunkText(chunks[n])
    BY <1>1, <1>9, <1>12 DEF n
  <2>2. Shows(start, f[n - 1], <<>>)
    BY <1>1, <2>1 DEF P
  <2>3. Shows(f[n - 1], f[n], text)
    BY <1>4, <2>1
  <2>4. text \in Texts
    BY <1>1, <2>1, ChunkForms
  <2>5. Shows(start, f[n], text)
    BY <2>2, <2>3, <2>4, ShowsPast
  <2>. QED
    BY <1>2, <2>5
<1>. QED
  BY <1>10, <1>11, <1>12 DEF start

\* The calls that come out are tool calls.
LEMMA FlushedCalls ==
  ASSUME NEW bufs, Buffered(bufs), NEW out \in SetToSeqs(Flush(bufs))
  PROVE  /\ out \in Seq(ChunkSet) /\ \A i \in 1..Len(out) : ChunkText(out[i]) = <<>>
         /\ \A i \in 1..Len(out) : \E b \in bufs : out[i] = Tool(b.ix, b.id, b.args)
         /\ bufs = {} => out = <<>>
<1>1. IsFiniteSet(Flush(bufs)) /\ Flush(bufs) \subseteq ChunkSet /\ Flush({}) = {}
  BY FlushIs
<1>2. out \in Seq(Flush(bufs)) /\ (Flush(bufs) = {} => out = <<>>)
  BY <1>1, Enumerates
<1>3. \A i \in 1..Len(out) : out[i] \in Flush(bufs)
  BY <1>2
<1>4. out \in Seq(ChunkSet)
  BY <1>1, <1>2
<1>5. \A c \in Flush(bufs) : \E b \in bufs : c = Tool(b.ix, b.id, b.args)
  BY DEF Flush, Whole
<1>6. \A ix, id, args : ChunkText(Tool(ix, id, args)) = <<>>
  BY ChunkKinds DEF ChunkText
<1>. QED
  BY <1>1, <1>2, <1>3, <1>4, <1>5, <1>6

LEMMA Passed ==
  ASSUME NEW out \in Seq(ChunkSet), NEW ch \in ChunkSet
  PROVE  LET all == out \o <<ch>>
         IN /\ all \in Seq(ChunkSet) /\ Len(all) = Len(out) + 1 /\ all[Len(out) + 1] = ch
            /\ \A i \in 1..Len(out) : all[i] = out[i]
            /\ out \o <<>> = out
OBVIOUS

LEMMA Received ==
  ASSUME to \in Dialects, tags \in FilterState, client \in RenderState, Buffered(buffers),
         NEW ch \in ChunkSet, NEW out \in SetToSeqs(Process(buffers, ch).out)
  PROVE  /\ Render(out \o Process(buffers, ch).pass) \in RenderedSet
         /\ Shows([tags |-> tags, client |-> client], Render(out \o Process(buffers, ch).pass), ChunkText(ch))
<1>. DEFINE p == Process(buffers, ch)
            all == out \o p.pass
<1>1. /\ \E S \in SUBSET buffers : p.out = Flush(S)
      /\ p.pass = <<ch>> \/ (p.pass = <<>> /\ ch.kind = "tool")
  BY ProcessIs
<1>2. PICK S \in SUBSET buffers : p.out = Flush(S)
  BY <1>1
<1>3. Buffered(S)
  BY SubBuffered
<1>4. out \in Seq(ChunkSet) /\ \A i \in 1..Len(out) : ChunkText(out[i]) = <<>>
  BY <1>2, <1>3, FlushedCalls
<1>. HIDE DEF p
<1>5. CASE p.pass = <<ch>>
  <2>1. /\ all \in Seq(ChunkSet) /\ Len(all) = Len(out) + 1 /\ all[Len(out) + 1] = ch
        /\ \A i \in 1..Len(out) : all[i] = out[i]
    BY <1>4, <1>5, Passed
  <2>2. Len(out) \in Nat
    BY <1>4
  <2>. HIDE DEF all
  <2>3. \A i \in 1..Len(all) - 1 : ChunkText(all[i]) = <<>>
    BY <1>4, <2>1, <2>2
  <2>4. ChunkText(ch) = IF Len(all) = 0 THEN <<>> ELSE ChunkText(all[Len(all)])
    BY <2>1, <2>2
  <2>5. Render(all) \in RenderedSet /\ Shows([tags |-> tags, client |-> client], Render(all), ChunkText(ch))
    BY <2>1, <2>3, <2>4, RenderShows, Zenon
  <2>. QED
    BY <2>5 DEF p, all
<1>6. CASE p.pass = <<>> /\ ch.kind = "tool"
  <2>1. all = out
    BY <1>4, <1>6, Passed
  <2>2. ChunkText(ch) = <<>>
    BY <1>6 DEF ChunkText
  <2>3. Len(out) \in Nat
    BY <1>4
  <2>. HIDE DEF all
  <2>4. \A i \in 1..Len(out) - 1 : ChunkText(out[i]) = <<>>
    BY <1>4, <2>3
  <2>5. ChunkText(ch) = IF Len(out) = 0 THEN <<>> ELSE ChunkText(out[Len(out)])
    BY <1>4, <2>2, <2>3
  <2>6. Render(out) \in RenderedSet /\ Shows([tags |-> tags, client |-> client], Render(out), ChunkText(ch))
    BY <1>4, <2>4, <2>5, RenderShows
  <2>. QED
    BY <2>1, <2>6 DEF p, all
<1>. QED
  BY <1>1, <1>5, <1>6

---------------------------------------------------------------------------
(* The steps *)

TypeInv ==
  /\ from \in Providers /\ to \in Clients /\ phase \in {"streaming", "over", "failed"}
  /\ sent \in Seq(ChunkSet) /\ Len(sent) <= MaxChunks
  /\ calls \in Seq(CallSet) /\ Len(calls) <= MaxCalls
  /\ \A j \in DOMAIN calls : calls[j].id # 0
  /\ Buffered(buffers) /\ \A b \in buffers : \E j \in DOMAIN calls : b.id = calls[j].id
  /\ tags \in FilterState /\ client \in RenderState

\* A chunk that is no tool call comes, a call is opened, or gets more arguments.
Quiet(ch) ==
  /\ CanSend /\ ch \in ChunkSet /\ ch.kind # "tool" /\ Receive(ch) /\ UNCHANGED calls
  /\ IF ch.kind = "usage" THEN Finished => Last(sent).kind = "finish" ELSE ~Finished
Calling(c) ==
  /\ CanSend /\ ~Finished /\ Len(calls) < MaxCalls /\ c \in CallSet /\ c.id # 0
  /\ from = "openai" => c.ix = Len(calls)
  /\ from = "kiro" => c.id = Len(calls) + 1 /\ c.args = <<>>
  /\ calls' = Append(calls, c) /\ Receive(Tool(c.ix, c.id, c.args))
Adding(n, id, args) ==
  /\ CanSend /\ ~Finished /\ n \in DOMAIN calls /\ args \in Args
  /\ id = IF from = "kiro" THEN calls[n].id ELSE 0
  /\ from \in {"openai", "anthropic", "responses", "kiro"}
  /\ from # "openai" => n = Len(calls)
  /\ calls' = [calls EXCEPT ![n].args = @ \o args] /\ Receive(Tool(calls[n].ix, id, args))

LEMMA FragmentIs == ASSUME TypeInv, NEW n \in Nat PROVE Fragment(n) \in Args
<1>1. Len(sent) \in Nat
  BY DEF TypeInv
<1>. QED
  BY <1>1 DEF Fragment, Args

LEMMA CallOfIs ==
  ASSUME TypeInv, NEW n, n = Len(calls) + 1, NEW c \in CallOf(n)
  PROVE  /\ c \in CallSet /\ c.id # 0
         /\ from = "openai" => c.ix = Len(calls)
         /\ from = "kiro" => c.id = n /\ c.args = <<>>
<1>1. Len(calls) \in Nat /\ n \in Nat /\ n # 0 /\ n - 1 \in Nat /\ n - 1 = Len(calls)
  BY DEF TypeInv
<1>2. from \in Dialects \cup {"kiro"}
  BY StreamRenderAssumption DEF TypeInv
<1>. DEFINE frag == Fragment(n)
<1>3. frag \in Args /\ <<>> \in Args
  BY <1>1, FragmentIs, DataSets
<1>. DEFINE m == n - 1
<1>. HIDE DEF frag, m
<1>4. CASE from = "openai"
  <2>1. CallOf(n) = {[[ix |-> m, id |-> n, args |-> <<>>] EXCEPT !.args = args] : args \in {frag, <<>>}}
    BY <1>4 DEF CallOf, OpenAICall, NewCall, frag, m
  <2>2. PICK args \in {frag, <<>>} : c = [ix |-> m, id |-> n, args |-> args]
    BY <2>1
  <2>. QED
    BY <1>1, <1>3, <1>4, <2>2 DEF CallSet, m
<1>5. CASE from = "anthropic"
  <2>1. c \in {[ix |-> n, id |-> n, args |-> <<>>], [ix |-> m, id |-> n, args |-> <<>>]}
    BY <1>5 DEF CallOf, AnthropicCall, NewCall, m
  <2>. QED
    BY <1>1, <1>3, <1>5, <2>1 DEF CallSet, m
<1>6. CASE from \in {"responses", "kiro"}
  <2>1. c = [ix |-> 0, id |-> n, args |-> <<>>]
    BY <1>6 DEF CallOf, ResponsesCall, KiroCall, NewCall
  <2>. QED
    BY <1>1, <1>3, <1>6, <2>1 DEF CallSet
<1>7. CASE from = "ollama"
  <2>1. c \in [ix : {0, m}, id : {1, n}, args : {frag}]
    BY <1>7 DEF CallOf, OllamaCall, frag, m
  <2>2. {0, m} \subseteq Nat /\ {1, n} \subseteq Nat \ {0} /\ {frag} \subseteq Args
    BY <1>1, <1>3 DEF m
  <2>. QED
    BY <1>7, <2>1, <2>2 DEF CallSet
<1>8. CASE from = "gemini"
  <2>. DEFINE ixs == {0} \cup (IF sent # <<>> /\ Last(sent).kind = "tool" THEN {Last(sent).ix + 1} ELSE {})
  <2>1. c \in [ix : ixs, id : {1, n}, args : {frag}]
    BY <1>8 DEF CallOf, GeminiCall, frag
  <2>2. ixs \subseteq Nat
    <3>. SUFFICES ASSUME sent # <<>>, Last(sent).kind = "tool" PROVE Last(sent).ix \in Nat
      OBVIOUS
    <3>1. Last(sent) \in ChunkSet
      BY DEF TypeInv, Last
    <3>2. PICK k \in CallSet : Last(sent) = Tool(k.ix, k.id, k.args)
      BY <3>1, ChunkForms
    <3>. QED
      BY <3>2, ChunkKinds DEF CallSet
  <2>. HIDE DEF ixs
  <2>3. {1, n} \subseteq Nat \ {0} /\ {frag} \subseteq Args
    BY <1>1, <1>3
  <2>. QED
    BY <1>8, <2>1, <2>2, <2>3, Zenon DEF CallSet
<1>. QED
  BY <1>2, <1>4, <1>5, <1>6, <1>7, <1>8 DEF Dialects

LEMMA ToolIsChunk ==
  \A ix \in Nat, id \in Nat, args \in Args : Tool(ix, id, args) \in ChunkSet
<1>. SUFFICES ASSUME NEW ix \in Nat, NEW id \in Nat, NEW args \in Args PROVE Tool(ix, id, args) \in ChunkSet
  OBVIOUS
<1>. DEFINE c == [ix |-> ix, id |-> id, args |-> args]
<1>1. c \in CallSet /\ c.ix = ix /\ c.id = id /\ c.args = args
  BY DEF CallSet
<1>. HIDE DEF c
<1>2. Tool(c.ix, c.id, c.args) \in ChunkSet
  BY <1>1 DEF ChunkSet
<1>. QED
  BY <1>1, <1>2

LEMMA MoreIs ==
  ASSUME TypeInv, NEW n \in DOMAIN calls, NEW id, More(n, id),
         id = IF from = "kiro" THEN calls[n].id ELSE 0,
         from \in {"openai", "anthropic", "responses", "kiro"}, from # "openai" => n = Len(calls)
  PROVE  \E args : Adding(n, id, args)
<1>1. n \in Nat
  BY DEF TypeInv
<1>2. Fragment(n) \in Args
  BY <1>1, FragmentIs
<1>3. Adding(n, id, Fragment(n))
  BY <1>2 DEF More, Adding
<1>. QED
  BY <1>3

LEMMA Steps ==
  ASSUME TypeInv, [Next]_vars
  PROVE  \/ UNCHANGED vars
         \/ End
         \/ Fail
         \/ \E ch : Quiet(ch)
         \/ \E c : Calling(c)
         \/ \E n, id, args : Adding(n, id, args)
<1>1. CASE UNCHANGED vars
  BY <1>1
<1>2. CASE ParseText
  <2>1. PICK delta \in Deltas : CanSend /\ ~Finished /\ Receive(Text(delta)) /\ UNCHANGED calls
    BY <1>2 DEF ParseText
  <2>2. delta \in Texts
    BY StreamRenderAssumption DEF Texts
  <2>3. Text(delta) \in ChunkSet /\ Text(delta).kind \notin {"tool", "usage"}
    BY <2>2, ChunkKinds DEF ChunkSet
  <2>4. Quiet(Text(delta))
    BY <2>1, <2>3 DEF Quiet
  <2>. QED
    BY <2>4
<1>3. CASE ParseThinking
  <2>1. Thinking \in ChunkSet /\ Thinking.kind \notin {"tool", "usage"}
    BY ChunkKinds DEF ChunkSet
  <2>2. Quiet(Thinking)
    BY <1>3, <2>1 DEF Quiet, ParseThinking
  <2>. QED
    BY <2>2
<1>4. CASE ParseFinish
  <2>1. Finish \in ChunkSet /\ Finish.kind \notin {"tool", "usage"}
    BY ChunkKinds DEF ChunkSet
  <2>2. Quiet(Finish)
    BY <1>4, <2>1 DEF Quiet, ParseFinish
  <2>. QED
    BY <2>2
<1>5. CASE ParseUsage
  <2>1. Usage \in ChunkSet /\ Usage.kind = "usage"
    BY ChunkKinds DEF ChunkSet
  <2>2. Quiet(Usage)
    BY <1>5, <2>1 DEF Quiet, ParseUsage
  <2>. QED
    BY <2>2
<1>6. CASE ParseCall
  <2>1. PICK c \in CallOf(Len(calls) + 1) :
          calls' = Append(calls, c) /\ Receive(Tool(c.ix, c.id, c.args))
    BY <1>6 DEF ParseCall
  <2>2. CanSend /\ ~Finished /\ Len(calls) < MaxCalls
    BY <1>6 DEF ParseCall
  <2>3. /\ c \in CallSet /\ c.id # 0
        /\ from = "openai" => c.ix = Len(calls)
        /\ from = "kiro" => c.id = Len(calls) + 1 /\ c.args = <<>>
    BY CallOfIs
  <2>4. Calling(c)
    BY <2>1, <2>2, <2>3 DEF Calling
  <2>. QED
    BY <2>4
<1>7. CASE OpenAIArgs
  <2>1. PICK n \in DOMAIN calls : More(n, 0)
    BY <1>7 DEF OpenAIArgs
  <2>2. from = "openai"
    BY <1>7 DEF OpenAIArgs
  <2>3. \E args : Adding(n, 0, args)
    BY <2>1, <2>2, MoreIs
  <2>. QED
    BY <2>3
<1>8. CASE ItemArgs
  <2>1. from \in {"anthropic", "responses"} /\ calls # <<>> /\ More(Len(calls), 0)
    BY <1>8 DEF ItemArgs
  <2>2. Len(calls) \in DOMAIN calls
    BY <2>1 DEF TypeInv
  <2>3. \E args : Adding(Len(calls), 0, args)
    BY <2>1, <2>2, MoreIs
  <2>. QED
    BY <2>3
<1>9. CASE KiroArgs
  <2>1. from = "kiro" /\ calls # <<>> /\ More(Len(calls), Last(calls).id)
    BY <1>9 DEF KiroArgs
  <2>2. Len(calls) \in DOMAIN calls /\ Last(calls) = calls[Len(calls)]
    BY <2>1 DEF TypeInv, Last
  <2>3. \E args : Adding(Len(calls), Last(calls).id, args)
    BY <2>1, <2>2, MoreIs
  <2>. QED
    BY <2>3
<1>. QED
  BY <1>1, <1>2, <1>3, <1>4, <1>5, <1>6, <1>7, <1>8, <1>9 DEF Next

\* What a received chunk leaves of the state.
LEMMA ReceiveIs ==
  ASSUME TypeInv, NEW ch \in ChunkSet, CanSend, Receive(ch)
  PROVE  /\ sent' = Append(sent, ch) /\ sent' \in Seq(ChunkSet) /\ Len(sent') <= MaxChunks
         /\ buffers' = Process(buffers, ch).held /\ Buffered(buffers')
         /\ \A b \in buffers' : (ch.kind = "tool" /\ ch.id # 0 /\ b.id = ch.id) \/ \E a \in buffers : b.id = a.id
         /\ tags' \in FilterState /\ client' \in RenderState
         /\ from' = from /\ to' = to /\ phase' = phase /\ phase = "streaming"
         /\ Shows([tags |-> tags, client |-> client], [tags |-> tags', client |-> client'], ChunkText(ch))
         /\ \E out \in SetToSeqs(Process(buffers, ch).out) :
              LET r == Render(out \o Process(buffers, ch).pass) IN tags' = r.tags /\ client' = r.client
<1>. DEFINE p == Process(buffers, ch)
            start == [tags |-> tags, client |-> client]
<1>0. /\ to \in Dialects /\ tags \in FilterState /\ client \in RenderState /\ Buffered(buffers)
      /\ sent \in Seq(ChunkSet) /\ Len(sent) \in Nat /\ MaxChunks \in Nat
  BY StreamRenderAssumption DEF TypeInv
<1>1. /\ sent' = Append(sent, ch) /\ buffers' = p.held
      /\ \E out \in SetToSeqs(p.out) :
           LET r == Render(out \o p.pass) IN tags' = r.tags /\ client' = r.client
      /\ from' = from /\ to' = to /\ phase' = phase
  BY DEF Receive
<1>2. phase = "streaming" /\ Len(sent) < MaxChunks
  BY DEF CanSend
<1>3. sent' \in Seq(ChunkSet) /\ Len(sent') = Len(sent) + 1
  BY <1>0, <1>1
<1>4. Len(sent') <= MaxChunks
  BY <1>0, <1>2, <1>3
<1>5. /\ Buffered(p.held)
      /\ \A b \in p.held : (ch.kind = "tool" /\ ch.id # 0 /\ b.id = ch.id) \/ \E a \in buffers : b.id = a.id
  BY <1>0, ProcessIs
<1>6. \A out \in SetToSeqs(p.out) :
        Render(out \o p.pass) \in RenderedSet /\ Shows(start, Render(out \o p.pass), ChunkText(ch))
  BY <1>0, Received, Zenon
<1>. HIDE DEF p, start
<1>7. PICK out \in SetToSeqs(p.out) :
        tags' = Render(out \o p.pass).tags /\ client' = Render(out \o p.pass).client
  BY <1>1
<1>. DEFINE r == Render(out \o p.pass)
<1>8. r \in RenderedSet /\ Shows(start, r, ChunkText(ch)) /\ tags' = r.tags /\ client' = r.client
  BY <1>6, <1>7
<1>. HIDE DEF r
<1>9. tags' \in FilterState /\ client' \in RenderState /\ r = [tags |-> tags', client |-> client']
  BY <1>8 DEF RenderedSet
<1>10. Shows(start, [tags |-> tags', client |-> client'], ChunkText(ch))
  BY <1>8, <1>9
<1>. QED
  BY <1>1, <1>2, <1>3, <1>4, <1>5, <1>9, <1>10 DEF p, start

LEMMA DoneIs ==
  ASSUME NEW d \in Dialects, NEW s \in RenderState
  PROVE  TextAdds(s, RenderStreamDone(d, s), <<>>) /\ KeepsTold(d, s, RenderStreamDone(d, s))
<1>. DEFINE r == RenderStreamDone(d, s)
<1>1. \E evs \in Aside : r \in RenderState /\ r.out = s.out \o evs
  BY DoneRendered, Zenon
<1>. HIDE DEF r
<1>2. PICK evs \in Aside : r \in RenderState /\ r.out = s.out \o evs
  BY <1>1
<1>3. evs \in Seq(EventSet) /\ TextOf(evs) = <<>> /\ evs \in Sans({"call", "args"})
  BY AsideIs, AsideConcat
<1>4. TextAdds(s, r, <<>>)
  BY <1>2, <1>3, SilentAdds, Zenon
<1>5. KeepsTold(d, s, r)
  BY <1>2, <1>3, TellsOf, Zenon DEF KeepsTold
<1>. QED
  BY <1>4, <1>5 DEF r

LEMMA EndIs ==
  ASSUME TypeInv, End
  PROVE  /\ tags' \in FilterState /\ client' \in RenderState
         /\ TextOf(client'.out) = Showing(<<>>, [tags |-> tags, client |-> client])
         /\ \E out \in SetToSeqs(Flush(buffers)) : KeepsTold(to, Render(out).client, client')
         /\ buffers' = {} /\ phase = "streaming" /\ phase' = "over"
         /\ from' = from /\ to' = to /\ sent' = sent /\ calls' = calls
<1>. DEFINE start == [tags |-> tags, client |-> client]
<1>0. to \in Dialects /\ tags \in FilterState /\ client \in RenderState /\ Buffered(buffers)
  BY StreamRenderAssumption DEF TypeInv
<1>1. PICK out \in SetToSeqs(Flush(buffers)) :
        LET r == Render(out)
            flushed == FlushTags(r.tags)
        IN /\ tags' = [thinking |-> flushed.thinking, buf |-> flushed.buf]
           /\ client' = RenderStreamDone(to, RenderText(r.client, flushed.text))
  BY DEF End
<1>. DEFINE r == Render(out)
            flushed == FlushTags(r.tags)
            s == RenderText(r.client, flushed.text)
<1>2. tags' = [thinking |-> flushed.thinking, buf |-> flushed.buf] /\ client' = RenderStreamDone(to, s)
  BY <1>1
<1>3. out \in Seq(ChunkSet) /\ \A i \in 1..Len(out) : ChunkText(out[i]) = <<>>
  BY <1>0, FlushedCalls
<1>4. r \in RenderedSet /\ Shows(start, r, <<>>)
  <2>1. Len(out) \in Nat
    BY <1>3
  <2>2. \A i \in 1..Len(out) - 1 : ChunkText(out[i]) = <<>>
    BY <1>3, <2>1
  <2>3. <<>> = IF Len(out) = 0 THEN <<>> ELSE ChunkText(out[Len(out)])
    BY <1>3, <2>1
  <2>. QED
    BY <1>0, <1>3, <2>2, <2>3, RenderShows
<1>. HIDE DEF r
<1>5. r.tags \in FilterState /\ r.client \in RenderState
  BY <1>4 DEF RenderedSet
<1>6. /\ flushed.thinking \in BOOLEAN /\ flushed.buf = <<>> /\ flushed.text \in Texts
      /\ flushed.text = Seen(r.tags.thinking, r.tags.buf)
  BY <1>5, FlushShows
<1>. HIDE DEF flushed
<1>7. TextAdds(r.client, s, flushed.text) /\ KeepsTold(to, r.client, s)
  BY <1>0, <1>5, <1>6, RenderTextIs
<1>. HIDE DEF s
<1>8. s \in RenderState /\ TextOf(s.out) = TextOf(r.client.out) \o flushed.text
  BY <1>7 DEF TextAdds
<1>9. TextAdds(s, client', <<>>) /\ KeepsTold(to, s, client')
  BY <1>0, <1>2, <1>8, DoneIs
<1>10. client' \in RenderState /\ TextOf(client'.out) = TextOf(s.out)
  BY <1>8, <1>9, OutType DEF TextAdds
<1>11. tags' \in FilterState
  BY <1>2, <1>6 DEF FilterState, Held1
<1>12. TextOf(client'.out) = Showing(<<>>, r)
  <2>1. r.tags.buf \in Texts
    BY <1>5, TagSymbols DEF FilterState, Held1
  <2>2. r.tags.buf \o <<>> = r.tags.buf
    BY <2>1 DEF Texts
  <2>. QED
    BY <1>6, <1>8, <1>10, <2>2 DEF Showing
<1>13. Showing(<<>>, r) = Showing(<<>>, start)
  <2>1. <<>> \in Texts /\ <<>> \o <<>> = <<>>
    BY TagSymbols
  <2>. HIDE DEF start
  <2>2. Showing(<<>>, r) = Showing(<<>> \o <<>>, start)
    BY <1>4, <2>1 DEF Shows
  <2>. QED
    BY <2>1, <2>2
<1>14. KeepsTold(to, r.client, client')
  BY <1>7, <1>9 DEF KeepsTold
<1>15. \E o \in SetToSeqs(Flush(buffers)) : KeepsTold(to, Render(o).client, client')
  BY <1>14 DEF r
<1>16. /\ buffers' = {} /\ phase = "streaming" /\ phase' = "over"
       /\ from' = from /\ to' = to /\ sent' = sent /\ calls' = calls
  BY DEF End
<1>. QED
  BY <1>10, <1>11, <1>12, <1>13, <1>15, <1>16 DEF start

LEMMA FailIs ==
  ASSUME TypeInv, Fail
  PROVE  /\ client' \in RenderState /\ TextOf(client'.out) = TextOf(client.out)
         /\ KeepsTold(to, client, client')
         /\ phase = "streaming" /\ phase' = "failed"
         /\ from' = from /\ to' = to /\ sent' = sent /\ calls' = calls /\ buffers' = buffers /\ tags' = tags
<1>. DEFINE evs == <<Event("error")>>
<1>0. to \in Dialects /\ client \in RenderState
  BY StreamRenderAssumption DEF TypeInv
<1>1. evs \in Aside
  BY AsideEvents DEF AsideNames, EventNames
<1>2. client' = Emit(client, evs)
  BY DEF Fail
<1>. HIDE DEF evs
<1>3. evs \in Seq(EventSet) /\ TextOf(evs) = <<>> /\ evs \in Sans({"call", "args"})
  BY <1>1, AsideIs, AsideConcat
<1>4. client' \in RenderState /\ client'.out = client.out \o evs
  BY <1>0, <1>2, <1>3, EmitIs
<1>5. TextAdds(client, client', <<>>)
  BY <1>0, <1>3, <1>4, SilentAdds, Zenon
<1>6. KeepsTold(to, client, client')
  BY <1>0, <1>3, <1>4, TellsOf, Zenon DEF KeepsTold
<1>7. TextOf(client'.out) = TextOf(client.out)
  BY <1>0, <1>5, OutType DEF TextAdds
<1>. QED
  BY <1>4, <1>6, <1>7 DEF Fail

\* r is s with t after it.
Joins(r, s, t) == r = s \o t

\* The calls after one has been opened, or has got more arguments.
LEMMA CallingIs ==
  ASSUME TypeInv, NEW c, Calling(c)
  PROVE  LET ch == Tool(c.ix, c.id, c.args)
         IN /\ ch \in ChunkSet /\ CanSend /\ Receive(ch) /\ c \in CallSet /\ c.id # 0
            /\ calls' \in Seq(CallSet) /\ Len(calls') = Len(calls) + 1 /\ Len(calls') <= MaxCalls
            /\ DOMAIN calls' = DOMAIN calls \cup {Len(calls')}
            /\ calls'[Len(calls')] = c /\ \A j \in DOMAIN calls : calls'[j] = calls[j] /\ j # Len(calls')
<1>0. calls \in Seq(CallSet) /\ Len(calls) \in Nat /\ MaxCalls \in Nat
  BY StreamRenderAssumption DEF TypeInv
<1>1. c \in CallSet /\ c.id # 0 /\ CanSend /\ calls' = Append(calls, c) /\ Receive(Tool(c.ix, c.id, c.args))
      /\ Len(calls) < MaxCalls
  BY DEF Calling
<1>2. Tool(c.ix, c.id, c.args) \in ChunkSet
  BY <1>1 DEF ChunkSet
<1>3. calls' \in Seq(CallSet) /\ Len(calls') = Len(calls) + 1 /\ calls'[Len(calls) + 1] = c
      /\ DOMAIN calls = 1..Len(calls) /\ DOMAIN calls' = 1..Len(calls) + 1
      /\ \A j \in 1..Len(calls) : calls'[j] = calls[j]
  BY <1>0, <1>1
<1>4. DOMAIN calls' = DOMAIN calls \cup {Len(calls')} /\ \A j \in DOMAIN calls : j # Len(calls')
  BY <1>0, <1>3
<1>. QED
  BY <1>0, <1>1, <1>2, <1>3, <1>4

LEMMA AddingIs ==
  ASSUME TypeInv, NEW n, NEW id, NEW args, Adding(n, id, args)
  PROVE  LET ch == Tool(calls[n].ix, id, args)
         IN /\ ch \in ChunkSet /\ CanSend /\ Receive(ch) /\ calls[n] \in CallSet
            /\ calls' \in Seq(CallSet) /\ Len(calls') = Len(calls) /\ DOMAIN calls' = DOMAIN calls
            /\ calls'[n].ix = calls[n].ix /\ calls'[n].id = calls[n].id
            /\ calls'[n] = [calls[n] EXCEPT !.args = @ \o args]
            /\ Joins(calls'[n].args, calls[n].args, args)
            /\ \A j \in DOMAIN calls \ {n} : calls'[j] = calls[j]
<1>. DEFINE b == calls[n]
            x == [b EXCEPT !.args = @ \o args]
<1>1. /\ n \in DOMAIN calls /\ args \in Args /\ CanSend /\ Receive(Tool(b.ix, id, args))
      /\ id = (IF from = "kiro" THEN b.id ELSE 0) /\ calls' = [calls EXCEPT ![n] = x]
  BY DEF Adding
<1>2. calls \in Seq(CallSet)
  BY DEF TypeInv
<1>3. b \in CallSet
  BY <1>1, <1>2
<1>4. x \in CallSet /\ x.ix = b.ix /\ x.id = b.id /\ x.args = b.args \o args
  BY <1>1, <1>3, Longer, Zenon
<1>5. Tool(b.ix, id, args) \in ChunkSet
  BY <1>1, <1>3, ToolIsChunk, Zenon DEF CallSet
<1>6. x = [calls[n] EXCEPT !.args = @ \o args]
  OBVIOUS
<1>. HIDE DEF x
<1>7. calls' \in Seq(CallSet) /\ Len(calls') = Len(calls) /\ DOMAIN calls' = DOMAIN calls
      /\ calls'[n] = x /\ \A j \in DOMAIN calls \ {n} : calls'[j] = calls[j]
  BY <1>1, <1>2, <1>4
<1>8. Joins(calls'[n].args, calls[n].args, args)
  BY <1>4, <1>7 DEF b, Joins
<1>. QED
  BY <1>1, <1>3, <1>4, <1>5, <1>6, <1>7, <1>8, Zenon DEF b

LEMMA TypeInit == Init => TypeInv
<1>. SUFFICES ASSUME Init PROVE TypeInv
  OBVIOUS
<1>1. MaxChunks \in Nat /\ MaxCalls \in Nat
  BY StreamRenderAssumption
<1>2. NoThought \in FilterState
  BY DEF NoThought, FilterState, Held1
<1>3. Fresh \in RenderState
  BY DEF Fresh, RenderState
<1>4. Buffered({})
  BY FS_EmptySet DEF Buffered
<1>. QED
  BY <1>1, <1>2, <1>3, <1>4 DEF Init, TypeInv

LEMMA TypeStep == TypeInv /\ [Next]_vars => TypeInv'
<1>. SUFFICES ASSUME TypeInv, [Next]_vars PROVE TypeInv'
  OBVIOUS
<1>1. CASE UNCHANGED vars
  BY <1>1 DEF TypeInv, vars
<1>2. CASE End
  <2>1. Buffered({})
    BY FS_EmptySet DEF Buffered
  <2>. QED
    BY <1>2, <2>1, EndIs, Zenon DEF TypeInv
<1>3. CASE Fail
  BY <1>3, FailIs DEF TypeInv
<1>4. ASSUME NEW ch, Quiet(ch) PROVE TypeInv'
  <2>1. ch \in ChunkSet /\ CanSend /\ Receive(ch) /\ calls' = calls /\ ch.kind # "tool"
    BY <1>4 DEF Quiet
  <2>2. /\ sent' \in Seq(ChunkSet) /\ Len(sent') <= MaxChunks
        /\ Buffered(buffers') /\ \A b \in buffers' : \E a \in buffers : b.id = a.id
        /\ tags' \in FilterState /\ client' \in RenderState
        /\ from' = from /\ to' = to /\ phase' = phase
    BY <2>1, ReceiveIs
  <2>3. \A b \in buffers' : \E j \in DOMAIN calls : b.id = calls[j].id
    BY <2>2 DEF TypeInv
  <2>. QED
    BY <2>1, <2>2, <2>3 DEF TypeInv
<1>5. ASSUME NEW c, Calling(c) PROVE TypeInv'
  <2>. DEFINE ch == Tool(c.ix, c.id, c.args)
  <2>1. /\ ch \in ChunkSet /\ CanSend /\ Receive(ch) /\ c \in CallSet /\ c.id # 0
        /\ calls' \in Seq(CallSet) /\ Len(calls') <= MaxCalls
        /\ DOMAIN calls' = DOMAIN calls \cup {Len(calls')}
        /\ calls'[Len(calls')] = c /\ \A j \in DOMAIN calls : calls'[j] = calls[j]
    BY <1>5, CallingIs, Zenon
  <2>2. ch.id = c.id
    BY ChunkKinds
  <2>. HIDE DEF ch
  <2>3. /\ sent' \in Seq(ChunkSet) /\ Len(sent') <= MaxChunks
        /\ Buffered(buffers') /\ \A b \in buffers' : b.id = c.id \/ \E a \in buffers : b.id = a.id
        /\ tags' \in FilterState /\ client' \in RenderState
        /\ from' = from /\ to' = to /\ phase' = phase
    BY <2>1, <2>2, ReceiveIs
  <2>4. \A b \in buffers' : \E j \in DOMAIN calls' : b.id = calls'[j].id
    <3>1. \A a \in buffers : \E j \in DOMAIN calls : a.id = calls[j].id
      BY DEF TypeInv
    <3>2. \A a \in buffers : \E j \in DOMAIN calls' : a.id = calls'[j].id
      BY <2>1, <3>1, Zenon
    <3>3. \E j \in DOMAIN calls' : c.id = calls'[j].id
      BY <2>1, Zenon
    <3>. QED
      BY <2>3, <3>2, <3>3
  <2>5. \A j \in DOMAIN calls' : calls'[j].id # 0
    BY <2>1, Zenon DEF TypeInv
  <2>. QED
    BY <2>1, <2>3, <2>4, <2>5, Zenon DEF TypeInv
<1>6. ASSUME NEW n, NEW id, NEW args, Adding(n, id, args) PROVE TypeInv'
  <2>. DEFINE ch == Tool(calls[n].ix, id, args)
  <2>1. /\ ch \in ChunkSet /\ CanSend /\ Receive(ch)
        /\ calls' \in Seq(CallSet) /\ Len(calls') = Len(calls) /\ DOMAIN calls' = DOMAIN calls
        /\ calls'[n].id = calls[n].id
        /\ \A j \in DOMAIN calls \ {n} : calls'[j] = calls[j]
    BY <1>6, AddingIs, Zenon
  <2>2. n \in DOMAIN calls /\ (id = 0 \/ id = calls[n].id) /\ ch.id = id
    BY <1>6, ChunkKinds DEF Adding
  <2>. HIDE DEF ch
  <2>3. /\ sent' \in Seq(ChunkSet) /\ Len(sent') <= MaxChunks
        /\ Buffered(buffers') /\ \A b \in buffers' : (id # 0 /\ b.id = id) \/ \E a \in buffers : b.id = a.id
        /\ tags' \in FilterState /\ client' \in RenderState
        /\ from' = from /\ to' = to /\ phase' = phase
    BY <2>1, <2>2, ReceiveIs
  <2>4. \A j \in DOMAIN calls : calls'[j].id = calls[j].id
    BY <2>1
  <2>5. \A b \in buffers' : \E j \in DOMAIN calls' : b.id = calls'[j].id
    <3>1. \A a \in buffers : \E j \in DOMAIN calls : a.id = calls[j].id
      BY DEF TypeInv
    <3>. QED
      BY <2>1, <2>2, <2>3, <2>4, <3>1
  <2>6. \A j \in DOMAIN calls' : calls'[j].id # 0
    BY <2>1, <2>4 DEF TypeInv
  <2>7. Len(calls') <= MaxCalls
    BY <2>1 DEF TypeInv
  <2>. QED
    BY <2>1, <2>3, <2>5, <2>6, <2>7 DEF TypeInv
<1>. QED
  BY <1>1, <1>2, <1>3, <1>4, <1>5, <1>6, Steps

LEMMA TypeInvOK == TypeInv => TypeOK
<1>. SUFFICES ASSUME TypeInv PROVE TypeOK
  OBVIOUS
<1>1. tags.thinking \in BOOLEAN /\ tags.buf \in {<<>>, <<"lt">>}
  BY DEF TypeInv, FilterState, Held1
<1>2. DOMAIN client = DOMAIN Fresh
  <2>1. client \in RenderState
    BY DEF TypeInv
  <2>. QED
    BY <2>1 DEF RenderState, Fresh
<1>. QED
  BY <1>1, <1>2 DEF TypeInv, TypeOK, Buffered

\* The stream, the sanitizer's buffers, the filter and the renderer are what the
\* handler's code makes them: no two calls are held at one index, each that is held
\* is one of the provider's, and the filter holds at most the beginning of a tag.
THEOREM Typing == Spec => []TypeOK
<1>1. Init => TypeInv
  BY TypeInit
<1>2. TypeInv /\ [Next]_vars => TypeInv'
  BY TypeStep
<1>3. TypeInv => TypeOK
  BY TypeInvOK
<1>. QED
  BY <1>1, <1>2, <1>3, PTL DEF Spec

---------------------------------------------------------------------------
(* The text *)

\* However the provider goes on, what it has sent and what comes after are seen as
\* what has been written and what the filter, as it stands, makes of the rest.
TextInv ==
  /\ phase = "streaming" => \A x \in Texts : Visible[SentText \o x] = Showing(x, [tags |-> tags, client |-> client])
  /\ phase = "over" => ToldText = Visible[SentText]
  /\ phase = "failed" => IsPrefix(ToldText, Visible[SentText])

LEMMA TextsAre ==
  ASSUME TypeInv
  PROVE  /\ SentText = TextSent(sent) /\ SentText \in Texts /\ Visible[SentText] \in Texts
         /\ ToldText = TextOf(client.out) /\ ToldText \in Data
<1>1. sent \in Seq(ChunkSet) /\ client \in RenderState
  BY DEF TypeInv
<1>2. TextSent(sent) \in Texts
  BY <1>1, SentAppend, ChunkKinds, Zenon DEF ChunkSet
<1>3. SentText = TextSent(sent)
  BY DEF SentText, TextSent, ChunkText
<1>4. ToldText = TextOf(client.out)
  BY DEF ToldText, TextOf, TextPart, Events
<1>. QED
  BY <1>1, <1>2, <1>3, <1>4, OutType, VisibleIs

LEMMA PrefixOf ==
  ASSUME NEW s \in Data, NEW t \in Data
  PROVE  IsPrefix(s, s \o t) /\ IsPrefix(s, s)
<1>1. \A u \in Seq(Symbols \cup (Nat \X Nat)), v \in Seq(Symbols \cup (Nat \X Nat)) : IsPrefix(u, u \o v)
  <2>. SUFFICES ASSUME NEW u \in Seq(Symbols \cup (Nat \X Nat)), NEW v \in Seq(Symbols \cup (Nat \X Nat))
                PROVE  IsPrefix(u, u \o v)
    OBVIOUS
  <2>1. Len(u) <= Len(u \o v)
    OBVIOUS
  <2>2. SubSeq(u, 1, Len(u)) = SubSeq(u \o v, 1, Len(u))
    OBVIOUS
  <2>. QED
    BY <2>1, <2>2 DEF IsPrefix
<1>2. IsPrefix(s, s)
  BY DEF IsPrefix
<1>. QED
  BY <1>1, <1>2, Zenon DEF Data

\* While a stream runs, what is written is the beginning of what is visible.
LEMMA TextBegins ==
  ASSUME TypeInv, TextInv, phase = "streaming"
  PROVE  /\ IsPrefix(ToldText, Visible[SentText])
         /\ Showing(<<>>, [tags |-> tags, client |-> client]) = Visible[SentText]
<1>. DEFINE x == [tags |-> tags, client |-> client]
            seen == Seen(tags.thinking, tags.buf \o <<>>)
<1>1. Visible[SentText \o <<>>] = Showing(<<>>, x)
  BY TagSymbols, Zenon DEF TextInv
<1>2. SentText \o <<>> = SentText
  BY TextsAre DEF Texts
<1>3. Showing(<<>>, x) = TextOf(client.out) \o seen
  BY DEF Showing
<1>4. seen \in Texts
  <2>1. tags.thinking \in BOOLEAN /\ tags.buf \in Texts
    BY TagSymbols DEF TypeInv, FilterState, Held1
  <2>2. tags.buf \o <<>> \in Texts
    BY <2>1, TagSymbols, Concat
  <2>. QED
    BY <2>1, <2>2, SeenType
<1>. HIDE DEF seen
<1>5. IsPrefix(TextOf(client.out), TextOf(client.out) \o seen)
  BY <1>4, TextsAre, PrefixOf, DataSets
<1>. QED
  BY <1>1, <1>2, <1>3, <1>5, TextsAre, Zenon

LEMMA TextInit == Init => TextInv
<1>. SUFFICES ASSUME Init PROVE TextInv
  OBVIOUS
<1>1. SentText = <<>>
  <2>1. sent = <<>>
    BY DEF Init
  <2>2. [i \in DOMAIN sent |-> IF sent[i].kind = "text" THEN sent[i].delta ELSE <<>>] = <<>>
    BY <2>1
  <2>3. <<>> \in Seq(Texts)
    OBVIOUS
  <2>4. FlattenSeq(<<>>) = <<>>
    BY <2>3, FlattenType, Zenon DEF Texts
  <2>. QED
    BY <2>2, <2>4 DEF SentText
<1>2. TextOf(client.out) = <<>>
  <2>1. client.out = <<>>
    BY DEF Init, Fresh
  <2>2. [i \in DOMAIN client.out |-> TextPart(client.out[i])] = <<>>
    BY <2>1
  <2>3. <<>> \in Seq(Texts)
    OBVIOUS
  <2>4. FlattenSeq(<<>>) = <<>>
    BY <2>3, FlattenType, Zenon DEF Texts
  <2>. QED
    BY <2>2, <2>4, Zenon DEF TextOf
<1>3. tags.thinking = FALSE /\ tags.buf = <<>> /\ phase = "streaming"
  BY DEF Init, NoThought
<1>4. ASSUME NEW x \in Texts
      PROVE  Visible[SentText \o x] = Showing(x, [tags |-> tags, client |-> client])
  <2>1. <<>> \o x = x /\ SentText \o x = x /\ tags.buf \o x = x
    BY <1>1, <1>3 DEF Texts
  <2>2. Seen(tags.thinking, tags.buf \o x) = Visible[x]
    BY <1>3, <2>1 DEF Seen
  <2>3. Visible[x] \in Texts
    BY VisibleIs
  <2>4. <<>> \o Visible[x] = Visible[x]
    BY <2>3 DEF Texts
  <2>. QED
    BY <1>2, <2>1, <2>2, <2>4, Zenon DEF Showing
<1>. QED
  BY <1>3, <1>4 DEF TextInv

LEMMA TextReceived ==
  ASSUME TypeInv, TypeInv', TextInv, NEW ch \in ChunkSet, CanSend, Receive(ch)
  PROVE  TextInv'
<1>. DEFINE x == [tags |-> tags, client |-> client]
            y == [tags |-> tags', client |-> client']
            t == ChunkText(ch)
<1>1. sent' = Append(sent, ch) /\ phase' = "streaming" /\ phase = "streaming" /\ Shows(x, y, t)
  BY ReceiveIs
<1>2. t \in Texts
  BY ChunkForms
<1>3. SentText' = SentText \o t
  <2>1. SentText' = TextSent(sent')
    BY DEF SentText, TextSent, ChunkText
  <2>2. SentAdds(sent, ch)
    BY SentAppend DEF TypeInv
  <2>. QED
    BY <1>1, <2>1, <2>2, TextsAre DEF SentAdds
<1>4. ASSUME NEW v \in Texts PROVE Visible[SentText' \o v] = Showing(v, y)
  <2>1. t \o v \in Texts
    BY <1>2, Concat
  <2>. HIDE DEF x, y, t
  <2>2. SentText' \o v = SentText \o (t \o v)
    BY <1>2, <1>3, TextsAre, Assoc, Zenon
  <2>3. Showing(v, y) = Showing(t \o v, x)
    BY <1>1 DEF Shows
  <2>. DEFINE w == t \o v
  <2>4. Visible[SentText \o w] = Showing(w, x)
    BY <1>1, <2>1 DEF TextInv, x
  <2>. QED
    BY <2>2, <2>3, <2>4
<1>. QED
  BY <1>1, <1>4 DEF TextInv

LEMMA TextStep == TypeInv /\ TextInv /\ [Next]_vars => TextInv'
<1>. SUFFICES ASSUME TypeInv, TextInv, [Next]_vars PROVE TextInv'
  OBVIOUS
<1>0. TypeInv'
  BY TypeStep
<1>1. CASE UNCHANGED vars
  BY <1>1 DEF TextInv, vars, SentText, ToldText, Events
<1>2. CASE End
  <2>1. /\ TextOf(client'.out) = Showing(<<>>, [tags |-> tags, client |-> client])
        /\ phase = "streaming" /\ phase' = "over" /\ sent' = sent
    BY <1>2, EndIs
  <2>2. Showing(<<>>, [tags |-> tags, client |-> client]) = Visible[SentText]
    BY <2>1, TextBegins
  <2>3. SentText' = SentText
    BY <2>1 DEF SentText
  <2>4. ToldText' = TextOf(client'.out)
    BY DEF ToldText, TextOf, TextPart, Events
  <2>. QED
    BY <2>1, <2>2, <2>3, <2>4 DEF TextInv
<1>3. CASE Fail
  <2>1. TextOf(client'.out) = TextOf(client.out) /\ phase = "streaming" /\ phase' = "failed" /\ sent' = sent
    BY <1>3, FailIs
  <2>2. SentText' = SentText
    BY <2>1 DEF SentText
  <2>3. ToldText' = TextOf(client'.out)
    BY DEF ToldText, TextOf, TextPart, Events
  <2>4. IsPrefix(ToldText, Visible[SentText])
    BY <2>1, TextBegins
  <2>. QED
    BY <2>1, <2>2, <2>3, <2>4, TextsAre DEF TextInv
<1>4. ASSUME NEW ch, Quiet(ch) PROVE TextInv'
  BY <1>0, <1>4, TextReceived DEF Quiet
<1>5. ASSUME NEW c, Calling(c) PROVE TextInv'
  BY <1>0, <1>5, CallingIs, TextReceived
<1>6. ASSUME NEW n, NEW id, NEW args, Adding(n, id, args) PROVE TextInv'
  BY <1>0, <1>6, AddingIs, TextReceived, Zenon
<1>. QED
  BY <1>1, <1>2, <1>3, <1>4, <1>5, <1>6, Steps

LEMMA TextInvWhole == TypeInv /\ TextInv => TextWhole
<1>. SUFFICES ASSUME TypeInv, TextInv PROVE TextWhole
  OBVIOUS
<1>1. CASE phase = "streaming"
  BY <1>1, TextBegins DEF TextWhole
<1>2. CASE phase = "over"
  BY <1>2, TextsAre, PrefixOf DEF TextWhole, TextInv
<1>3. CASE phase = "failed"
  BY <1>3 DEF TextWhole, TextInv
<1>. QED
  BY <1>1, <1>2, <1>3 DEF TypeInv

\* The client has been shown a beginning of the provider's text outside thoughts, and
\* all of it at the end of the stream, however text and tags were cut into chunks and
\* whatever calls and thoughts came between: renderChunk, ProcessFeed and FlushTags
\* neither lose nor repeat text, and never show a piece of a tag or of a thought.
THEOREM TextIsWhole == Spec => []TextWhole
<1>1. Init => TypeInv /\ TextInv
  BY TypeInit, TextInit
<1>2. (TypeInv /\ TextInv) /\ [Next]_vars => (TypeInv /\ TextInv)'
  BY TypeStep, TextStep
<1>3. TypeInv /\ TextInv => TextWhole
  BY TextInvWhole
<1>. QED
  BY <1>1, <1>2, <1>3, PTL DEF Spec

---------------------------------------------------------------------------
(* The calls *)

\* Render goes on where it was.
LEMMA RenderOnto ==
  ASSUME to \in Dialects, tags \in FilterState, client \in RenderState,
         NEW chunks \in Seq(ChunkSet), NEW ch \in ChunkSet
  PROVE  /\ Render(chunks \o <<ch>>) = RenderChunk(Render(chunks), ch)
         /\ Render(chunks) \in RenderedSet
         /\ Render(<<>>) = [tags |-> tags, client |-> client]
<1>. DEFINE start == [tags |-> tags, client |-> client]
            n == Len(chunks)
            all == chunks \o <<ch>>
<1>1. n \in Nat
  OBVIOUS
<1>2. all \in Seq(ChunkSet) /\ Len(all) = n + 1 /\ all[n + 1] = ch /\ \A i \in 1..n : all[i] = chunks[i]
  BY Passed
<1>. HIDE DEF all
<1>3. PICK f : Folded(start, chunks, f) /\ Render(chunks) = f[n]
  BY RenderIs
<1>4. PICK g : Folded(start, all, g) /\ Render(all) = g[n + 1]
  BY <1>2, RenderIs
<1>5. /\ f \in [0..n -> RenderedSet] /\ f[0] = start
      /\ \A i \in 1..n : f[i] = RenderChunk(f[i - 1], chunks[i])
  BY <1>3 DEF Folded
<1>6. g[0] = start /\ \A i \in 1..n + 1 : g[i] = RenderChunk(g[i - 1], all[i])
  BY <1>2, <1>4 DEF Folded
<1>7. Render(<<>>) = start
  <2>1. <<>> \in Seq(ChunkSet) /\ Len(<<>>) = 0
    OBVIOUS
  <2>2. PICK e : Folded(start, <<>>, e) /\ Render(<<>>) = e[0]
    BY <2>1, RenderIs, Zenon
  <2>. QED
    BY <2>2 DEF Folded
<1>. HIDE DEF n, start
<1>. DEFINE P == {i \in Nat : i <= n => g[i] = f[i]}
<1>8. 0 \in P
  BY <1>5, <1>6
<1>9. ASSUME NEW i \in Nat, i \in P PROVE i + 1 \in P
  <2>. SUFFICES ASSUME i + 1 <= n PROVE g[i + 1] = f[i + 1]
    OBVIOUS
  <2>1. i <= n /\ i + 1 \in 1..n /\ i + 1 \in 1..n + 1 /\ (i + 1) - 1 = i
    BY <1>1
  <2>2. g[i + 1] = RenderChunk(g[i], all[i + 1])
    BY <1>6, <2>1
  <2>3. f[i + 1] = RenderChunk(f[i], chunks[i + 1])
    BY <1>5, <2>1
  <2>4. g[i] = f[i]
    BY <1>9, <2>1
  <2>. QED
    BY <1>2, <2>1, <2>2, <2>3, <2>4
<1>. HIDE DEF P
<1>10. Nat \subseteq P
  BY <1>8, <1>9, Inductively
<1>11. g[n] = f[n]
  BY <1>1, <1>10 DEF P
<1>12. n + 1 \in 1..n + 1 /\ (n + 1) - 1 = n
  BY <1>1
<1>13. g[n + 1] = RenderChunk(g[n], ch)
  BY <1>2, <1>6, <1>12
<1>14. Render(chunks) \in RenderedSet
  BY <1>1, <1>3, <1>5
<1>. QED
  BY <1>3, <1>4, <1>7, <1>11, <1>13, <1>14 DEF start, all

\* No chunk but a call makes a renderer tell a call, and none but the finish makes it
\* forget one.
LEMMA ChunkKeeps ==
  ASSUME to \in Dialects, NEW x \in RenderedSet, NEW ch \in ChunkSet, ch.kind # "tool"
  PROVE  /\ KeepsTold(to, x.client, RenderChunk(x, ch).client)
         /\ ch.kind # "finish" => KeepsTells(to, x.client, RenderChunk(x, ch).client)
<1>1. x.client \in RenderState /\ x.tags \in FilterState
  BY DEF RenderedSet
<1>2. CASE ch.kind = "text"
  <2>. DEFINE text == ProcessFeed(x.tags, ch.delta).text
  <2>1. text \in Texts
    BY <1>1, <1>2, ChunkForms, FeedShows, Zenon
  <2>2. RenderChunk(x, ch).client = RenderText(x.client, text)
    BY <1>2, RenderChunkIs, Zenon
  <2>. HIDE DEF text
  <2>. QED
    BY <1>1, <2>1, <2>2, RenderTextIs
<1>3. CASE ch.kind # "text"
  <2>1. RenderChunk(x, ch).client = RenderStreamChunk(to, x.client, ch)
    BY <1>3, RenderChunkIs, Zenon
  <2>. QED
    BY <1>1, <1>3, <2>1, OtherRendered
<1>. QED
  BY <1>2, <1>3

\* Calls that come out of the sanitizer are told, each once and whole.
LEMMA FlushTells ==
  ASSUME to \in Dialects, tags \in FilterState, client \in RenderState,
         NEW T, T \subseteq CallSet, Tells(to, client, T),
         NEW S, Buffered(S), \A b \in S : b.id # 0 /\ \A e \in T \cup S : e # b => e.id # b.id,
         to \in {"openai", "responses"} => \A b \in S, e \in T : e # b => e.ix # b.ix,
         S \cap T = {},
         NEW out \in SetToSeqs(Flush(S))
  PROVE  Tells(to, Render(out).client, T \cup S)
<1>. DEFINE start == [tags |-> tags, client |-> client]
            n == Len(out)
            Out(i) == {b \in S : \E j \in 1..i : out[j] = Whole(b)}
<1>1. S \subseteq CallSet
  BY DEF Buffered
<1>2. /\ out \in Seq(Flush(S))
      /\ \A i, j \in DOMAIN out : i # j => out[i] # out[j]
      /\ \A ch \in Flush(S) : \E i \in DOMAIN out : out[i] = ch
  BY FlushIs, Enumerates
<1>3. n \in Nat /\ DOMAIN out = 1..n
  BY <1>2
<1>4. \A i \in 1..n : \E b \in S : out[i] = Whole(b)
  <2>1. \A i \in 1..n : out[i] \in Flush(S)
    BY <1>2
  <2>. QED
    BY <2>1 DEF Flush
<1>5. out \in Seq(ChunkSet)
  BY <1>2, FlushIs
<1>6. PICK f : Folded(start, out, f) /\ Render(out) = f[n]
  BY <1>5, RenderIs
<1>7. /\ f \in [0..n -> RenderedSet] /\ f[0] = start
      /\ \A i \in 1..n : f[i] = RenderChunk(f[i - 1], out[i])
  BY <1>6 DEF Folded
<1>8. \A b, c \in S : Whole(b) = Whole(c) => b = c
  <2>1. \A b \in CallSet : b = [ix |-> b.ix, id |-> b.id, args |-> b.args]
    BY DEF CallSet
  <2>2. \A b, c \in S : Whole(b) = Whole(c) => b.ix = c.ix /\ b.id = c.id /\ b.args = c.args
    BY ChunkKinds DEF Whole
  <2>. QED
    BY <1>1, <2>1, <2>2
<1>. HIDE DEF n
<1>. DEFINE P == {i \in Nat : i <= n => Tells(to, f[i].client, T \cup Out(i))}
<1>9. 0 \in P
  <2>1. T \cup Out(0) = T
    OBVIOUS
  <2>2. f[0].client = client
    BY <1>7
  <2>. QED
    BY <2>1, <2>2, Zenon
<1>10. ASSUME NEW i \in Nat, i \in P PROVE i + 1 \in P
  <2>. SUFFICES ASSUME i + 1 <= n PROVE Tells(to, f[i + 1].client, T \cup Out(i + 1))
    OBVIOUS
  <2>1. i <= n /\ i + 1 \in 1..n /\ i \in 0..n /\ (i + 1) - 1 = i /\ \A j \in 1..i : j \in 1..n /\ j # i + 1
    BY <1>3
  <2>2. Tells(to, f[i].client, T \cup Out(i))
    BY <1>10, <2>1
  <2>3. PICK b \in S : out[i + 1] = Whole(b)
    BY <1>4, <2>1
  <2>4. b \in CallSet /\ Whole(b) = Tool(b.ix, b.id, b.args) /\ Whole(b) \in ChunkSet
    BY <1>1, WholeIs
  <2>5. f[i] \in RenderedSet
    BY <1>7, <2>1
  <2>6. f[i].client \in RenderState
    BY <2>5 DEF RenderedSet
  <2>7. f[i + 1].client = RenderStreamChunk(to, f[i].client, Tool(b.ix, b.id, b.args))
    <3>1. f[i + 1] = RenderChunk(f[i], Whole(b))
      BY <1>7, <2>1, <2>3
    <3>2. Whole(b).kind # "text"
      BY <2>4, ChunkKinds
    <3>3. RenderChunk(f[i], Whole(b)).client = RenderStreamChunk(to, f[i].client, Whole(b))
      BY <2>4, <2>5, <3>2, RenderChunkIs, Zenon
    <3>. QED
      BY <2>4, <3>1, <3>3
  <2>8. b \notin Out(i) /\ Out(i) \subseteq S
    <3>1. \A j \in 1..i : out[j] # out[i + 1]
      BY <1>2, <1>3, <2>1
    <3>. QED
      BY <2>3, <3>1
  <2>9. Out(i + 1) = Out(i) \cup {b}
    <3>1. \A j \in 1..i + 1 : j \in 1..i \/ j = i + 1
      OBVIOUS
    <3>2. 1..i \subseteq 1..i + 1 /\ i + 1 \in 1..i + 1
      OBVIOUS
    <3>. QED
      BY <1>8, <2>3, <3>1, <3>2
  <2>. DEFINE U == T \cup Out(i)
  <2>10. U \subseteq CallSet /\ \A e \in U : e # b /\ e.id # b.id
    BY <1>1, <2>8
  <2>11. to \in {"openai", "responses"} => \A e \in U : e.ix # b.ix
    BY <2>8, <2>10 DEF Buffered
  <2>12. T \cup Out(i + 1) = U \cup {b}
    BY <2>9
  <2>13. b.id # 0 /\ Tells(to, f[i].client, U)
    BY <2>2
  <2>. HIDE DEF U, Out
  <2>14. Tells(to, RenderStreamChunk(to, f[i].client, Tool(b.ix, b.id, b.args)), U \cup {b})
    BY <2>4, <2>6, <2>10, <2>11, <2>13, TellsCall, Zenon
  <2>. QED
    BY <2>7, <2>12, <2>14, Zenon
<1>. HIDE DEF P
<1>11. Nat \subseteq P
  BY <1>9, <1>10, Inductively
<1>12. Out(n) = S
  <2>1. \A b \in S : Whole(b) \in Flush(S)
    BY DEF Flush
  <2>. QED
    BY <1>2, <1>3, <2>1
<1>13. Tells(to, f[n].client, T \cup Out(n))
  <2>1. n \in P /\ n <= n
    BY <1>3, <1>11
  <2>. HIDE DEF Out
  <2>. QED
    BY <2>1 DEF P
<1>. QED
  BY <1>6, <1>12, <1>13, Zenon

\* Calls that a client can tell apart.
Apart ==
  /\ \A i, j \in DOMAIN calls : i # j => calls[i].id # calls[j].id
  /\ to \in {"openai", "responses"} => \A i, j \in DOMAIN calls : i # j => calls[i].ix # calls[j].ix

\* The buffers hold the calls that the client has not been told, as far as they have
\* come, and among them each call that may still get arguments.
Holding ==
  /\ buffers \subseteq ToSet(calls)
  /\ Tells(to, client, ToSet(calls) \ buffers)
  /\ from = "openai" => ToSet(calls) \subseteq buffers
  /\ from \in {"anthropic", "responses", "kiro"} /\ calls # <<>> => calls[Len(calls)] \in buffers

CallInv ==
  /\ Finished \/ phase = "over" => buffers = {}
  /\ from = "openai" => \A j \in DOMAIN calls : calls[j].ix = j - 1
  /\ Apart /\ (Finished \/ phase = "over") => ToldIs(to, client, ToSet(calls))
  /\ Apart /\ phase = "streaming" /\ ~Finished => Holding

LEMMA FinishedIs ==
  ASSUME TypeInv, NEW ch \in ChunkSet, sent' = Append(sent, ch)
  PROVE  Finished' <=> Finished \/ ch.kind = "finish"
<1>1. /\ sent \in Seq(ChunkSet) /\ DOMAIN sent = 1..Len(sent) /\ Len(sent) \in Nat
      /\ DOMAIN sent' = 1..Len(sent) + 1 /\ sent'[Len(sent) + 1] = ch
      /\ \A i \in 1..Len(sent) : sent'[i] = sent[i]
  BY DEF TypeInv
<1>2. Finished <=> \E i \in DOMAIN sent : sent[i].kind = "finish"
  BY DEF Finished, Kinds
<1>3. Finished' <=> \E i \in DOMAIN sent' : sent'[i].kind = "finish"
  BY DEF Finished, Kinds
<1>4. 1..Len(sent) + 1 = 1..Len(sent) \cup {Len(sent) + 1}
  BY <1>1
<1>. QED
  BY <1>1, <1>2, <1>3, <1>4

\* The calls of a client that can tell them apart meet what FlushTells asks.
LEMMA ApartFlush ==
  ASSUME TypeInv, CallInv, Apart, phase = "streaming", ~Finished, NEW S \in SUBSET buffers,
         NEW out \in SetToSeqs(Flush(S))
  PROVE  /\ Tells(to, Render(out).client, (ToSet(calls) \ buffers) \cup S)
         /\ Buffered(S) /\ out \in Seq(ChunkSet) /\ (S = {} => out = <<>>)
<1>. DEFINE T == ToSet(calls) \ buffers
<1>1. to \in Dialects /\ tags \in FilterState /\ client \in RenderState /\ Buffered(buffers)
      /\ calls \in Seq(CallSet) /\ \A j \in DOMAIN calls : calls[j].id # 0
  BY StreamRenderAssumption DEF TypeInv
<1>2. Buffered(S)
  BY <1>1, SubBuffered
<1>3. Holding
  BY DEF CallInv
<1>4. \A x \in ToSet(calls) : \E i \in DOMAIN calls : x = calls[i]
  BY DEF ToSet
<1>5. T \subseteq CallSet /\ Tells(to, client, T)
  BY <1>1, <1>3, <1>4 DEF Holding
<1>6. T \cup S \subseteq ToSet(calls) /\ S \cap T = {}
  BY <1>3 DEF Holding
<1>7. \A b \in S : b.id # 0 /\ \A e \in T \cup S : e # b => e.id # b.id
  <2>1. \A x, y \in ToSet(calls) : x # y => x.id # y.id
    BY <1>4 DEF Apart
  <2>2. \A x \in ToSet(calls) : x.id # 0
    BY <1>1, <1>4
  <2>. HIDE DEF T
  <2>. QED
    BY <1>6, <2>1, <2>2
<1>8. to \in {"openai", "responses"} => \A b \in S, e \in T : e # b => e.ix # b.ix
  <2>1. to \in {"openai", "responses"} => \A x, y \in ToSet(calls) : x # y => x.ix # y.ix
    BY <1>4 DEF Apart
  <2>. HIDE DEF T
  <2>. QED
    BY <1>6, <2>1
<1>9. out \in Seq(ChunkSet) /\ (S = {} => out = <<>>)
  BY <1>2, FlushedCalls
<1>. HIDE DEF T
<1>10. Tells(to, Render(out).client, T \cup S)
  BY <1>1, <1>2, <1>5, <1>6, <1>7, <1>8, FlushTells, Zenon
<1>. QED
  BY <1>2, <1>9, <1>10 DEF T

LEMMA CallInit == Init => CallInv
<1>. SUFFICES ASSUME Init PROVE CallInv
  OBVIOUS
<1>1. calls = <<>> /\ sent = <<>> /\ buffers = {} /\ client = Fresh /\ phase = "streaming"
  BY DEF Init
<1>2. ~Finished
  BY <1>1 DEF Finished, Kinds
<1>3. ToSet(calls) = {}
  BY <1>1 DEF ToSet
<1>4. client.out = <<>> /\ client.toolId = 0 /\ client.callId = <<>>
  BY <1>1 DEF Fresh
<1>5. PartsOf(to, client.out) = <<>>
  BY <1>4 DEF PartsOf
<1>6. Keys(PartsOf(to, client.out)) = {}
  BY <1>5 DEF Keys
<1>7. Assembled(PartsOf(to, client.out)) = {}
  BY <1>6 DEF Assembled
<1>8. Tells(to, client, {})
  <2>1. ToldIs(to, client, {})
    BY <1>7 DEF ToldIs
  <2>2. Knows(to, client, {})
    BY <1>4, <1>6 DEF Knows
  <2>. QED
    BY <2>1, <2>2 DEF Tells
<1>9. Holding
  BY <1>1, <1>3, <1>8, Zenon DEF Holding
<1>. QED
  BY <1>1, <1>2, <1>9 DEF CallInv

LEMMA QuietCalls ==
  ASSUME TypeInv, CallInv, NEW ch, Quiet(ch)
  PROVE  CallInv'
<1>. DEFINE p == Process(buffers, ch)
            start == [tags |-> tags, client |-> client]
<1>1. ch \in ChunkSet /\ CanSend /\ Receive(ch) /\ calls' = calls /\ ch.kind # "tool"
  BY DEF Quiet
<1>2. /\ sent' = Append(sent, ch) /\ buffers' = p.held
      /\ from' = from /\ to' = to /\ phase' = "streaming" /\ phase = "streaming"
      /\ \E out \in SetToSeqs(p.out) : client' = Render(out \o p.pass).client
  BY <1>1, ReceiveIs
<1>3. to \in Dialects /\ tags \in FilterState /\ client \in RenderState /\ Buffered(buffers)
  BY StreamRenderAssumption DEF TypeInv
<1>4. /\ p.pass = <<ch>>
      /\ ch.kind # "finish" => p.held = buffers /\ p.out = {}
      /\ ch.kind = "finish" => p.held = {} /\ p.out = Flush(buffers)
  BY <1>1, <1>3, ProcessIs
<1>. HIDE DEF p
<1>5. Finished' <=> Finished \/ ch.kind = "finish"
  BY <1>1, <1>2, FinishedIs
<1>6. Apart' <=> Apart
  BY <1>1, <1>2 DEF Apart
<1>7. start \in RenderedSet /\ start.client = client
  BY <1>3 DEF RenderedSet
<1>8. Flush({}) = {} /\ SetToSeqs(Flush({})) = SetToSeqs({})
  BY <1>3, FlushIs
<1>9. PICK out \in SetToSeqs(p.out) : client' = Render(out \o p.pass).client
  BY <1>2
\* Chunks but the finish pass by what is held.
<1>10. CASE ch.kind # "finish"
  <2>1. out = <<>>
    <3>1. out \in SetToSeqs({})
      BY <1>4, <1>9, <1>10
    <3>. QED
      BY <3>1, FS_EmptySet, Enumerates
  <2>2. client' = RenderChunk(start, ch).client
    <3>1. <<>> \in Seq(ChunkSet)
      OBVIOUS
    <3>2. Render(<<>> \o <<ch>>) = RenderChunk(Render(<<>>), ch) /\ Render(<<>>) = start
      BY <1>1, <1>3, <3>1, RenderOnto, Zenon
    <3>. QED
      BY <1>4, <1>9, <2>1, <3>2
  <2>3. KeepsTold(to, client, client') /\ KeepsTells(to, client, client')
    BY <1>1, <1>3, <1>7, <1>10, <2>2, ChunkKeeps
  <2>4. buffers' = buffers /\ (Finished' <=> Finished)
    BY <1>2, <1>4, <1>5, <1>10
  <2>5. Holding => Holding'
    BY <1>1, <1>2, <2>3, <2>4 DEF Holding, KeepsTells
  <2>6. ToldIs(to, client, ToSet(calls)) => ToldIs(to, client, ToSet(calls))'
    BY <1>1, <1>2, <2>3 DEF KeepsTold
  <2>. QED
    BY <1>1, <1>2, <1>6, <2>4, <2>5, <2>6 DEF CallInv
\* A finish brings them all out first.
<1>11. CASE ch.kind = "finish"
  <2>1. buffers' = {} /\ Finished' /\ out \in SetToSeqs(Flush(buffers))
    BY <1>2, <1>4, <1>5, <1>9, <1>11
  <2>2. out \in Seq(ChunkSet)
    BY <1>3, <2>1, FlushedCalls
  <2>3. Render(out \o <<ch>>) = RenderChunk(Render(out), ch) /\ Render(out) \in RenderedSet
        /\ Render(<<>>) = start
    BY <1>1, <1>3, <2>2, RenderOnto
  <2>4. KeepsTold(to, Render(out).client, client')
    BY <1>1, <1>3, <1>4, <1>9, <2>3, ChunkKeeps
  <2>5. ASSUME Apart PROVE ToldIs(to, Render(out).client, ToSet(calls))
    <3>1. CASE Finished
      <4>1. buffers = {} /\ ToldIs(to, client, ToSet(calls))
        BY <2>5, <3>1 DEF CallInv
      <4>2. out = <<>>
        BY <1>3, <2>1, <4>1, FlushedCalls
      <4>. QED
        BY <1>7, <2>3, <4>1, <4>2
    <3>2. CASE ~Finished
      <4>1. Tells(to, Render(out).client, (ToSet(calls) \ buffers) \cup buffers)
        BY <1>2, <2>1, <2>5, <3>2, ApartFlush, Zenon
      <4>2. (ToSet(calls) \ buffers) \cup buffers = ToSet(calls)
        BY <1>2, <2>5, <3>2 DEF CallInv, Holding
      <4>. QED
        BY <4>1, <4>2 DEF Tells
    <3>. QED
      BY <3>1, <3>2
  <2>6. Apart => ToldIs(to', client', ToSet(calls'))
    BY <1>1, <1>2, <2>4, <2>5 DEF KeepsTold
  <2>. QED
    BY <1>1, <1>2, <1>6, <2>1, <2>6 DEF CallInv
<1>. QED
  BY <1>10, <1>11

\* A new call takes its place among the buffers; one that was held there comes out.
LEMMA CallingCalls ==
  ASSUME TypeInv, CallInv, NEW c, Calling(c)
  PROVE  CallInv'
<1>. DEFINE ch == Tool(c.ix, c.id, c.args)
            p == Process(buffers, ch)
            at == WithIndex(buffers, c.ix)
            n == Len(calls) + 1
<1>1. /\ ch \in ChunkSet /\ CanSend /\ Receive(ch) /\ c \in CallSet /\ c.id # 0
      /\ calls' \in Seq(CallSet) /\ Len(calls') = n
      /\ DOMAIN calls' = DOMAIN calls \cup {n}
      /\ calls'[n] = c /\ \A j \in DOMAIN calls : calls'[j] = calls[j] /\ j # n
  BY CallingIs, Zenon
<1>2. ch.kind = "tool"
  BY ChunkKinds
<1>3. /\ sent' = Append(sent, ch) /\ buffers' = p.held
      /\ from' = from /\ to' = to /\ phase' = "streaming" /\ phase = "streaming"
      /\ \E out \in SetToSeqs(p.out) : client' = Render(out \o p.pass).client
  BY <1>1, ReceiveIs
<1>4. ToolStep(buffers, c, ch, p)
  <2>1. p = ProcessTool(buffers, ch)
    BY <1>2 DEF Process
  <2>. QED
    BY <1>1, <2>1, ProcessToolIs DEF TypeInv
<1>5. ~Finished /\ ~Finished'
  <2>1. ~Finished
    BY DEF Calling
  <2>2. ch.kind # "finish"
    BY <1>2
  <2>. HIDE DEF ch
  <2>. QED
    BY <1>1, <1>3, <2>1, <2>2, FinishedIs
<1>6. from = "openai" => c.ix = Len(calls)
  BY DEF Calling
<1>7. Len(calls) \in Nat /\ DOMAIN calls = 1..Len(calls)
  BY DEF TypeInv
<1>8. from' = "openai" => \A j \in DOMAIN calls' : calls'[j].ix = j - 1
  BY <1>1, <1>3, <1>6, <1>7 DEF CallInv
<1>. HIDE DEF ch, p, n
<1>9. ASSUME Apart' PROVE Holding'
  <2>1. Apart
    BY <1>1, <1>3, <1>9 DEF Apart
  <2>2. Holding
    BY <1>3, <1>5, <2>1 DEF CallInv
  <2>3. ToSet(calls') = ToSet(calls) \cup {c}
    BY <1>1 DEF ToSet
  <2>4. \A x \in ToSet(calls) : x.id # c.id
    BY <1>1, <1>9 DEF Apart, ToSet
  <2>5. at \subseteq buffers /\ \A b \in at : b.ix = c.ix
    BY DEF WithIndex
  <2>. HIDE DEF at
  <2>6. c.id # 0 /\ \A b \in at : b.id # c.id
    BY <1>1, <2>2, <2>4, <2>5 DEF Holding
  <2>7. p.held = (buffers \ at) \cup {c} /\ p.out = Flush(at) /\ p.pass = <<>>
    BY <1>4, <2>6 DEF ToolStep, at
  <2>8. PICK out \in SetToSeqs(Flush(at)) : client' = Render(out \o <<>>).client
    BY <1>3, <2>7
  <2>9. Tells(to, Render(out).client, (ToSet(calls) \ buffers) \cup at) /\ out \in Seq(ChunkSet)
    BY <1>3, <1>5, <2>1, <2>5, ApartFlush, Zenon
  <2>10. out \o <<>> = out
    BY <1>1, <2>9, Passed
  <2>11. (ToSet(calls) \ buffers) \cup at = ToSet(calls') \ buffers'
    BY <1>3, <2>2, <2>3, <2>4, <2>5, <2>7 DEF Holding
  <2>12. Tells(to', client', ToSet(calls') \ buffers')
    BY <1>3, <2>8, <2>9, <2>10, <2>11, Zenon
  <2>13. buffers' \subseteq ToSet(calls')
    BY <1>3, <2>2, <2>3, <2>7 DEF Holding
  <2>14. calls'[Len(calls')] \in buffers'
    BY <1>1, <1>3, <2>7
  <2>15. from' = "openai" => ToSet(calls') \subseteq buffers'
    <3>. SUFFICES ASSUME from = "openai" PROVE ToSet(calls') \subseteq buffers'
      BY <1>3
    <3>1. \A j \in DOMAIN calls : calls[j].ix = j - 1
      BY DEF CallInv
    <3>2. \A x \in ToSet(calls) : x.ix # c.ix
      BY <1>6, <1>7, <3>1 DEF ToSet
    <3>3. at = {}
      BY <2>2, <2>5, <3>2 DEF Holding
    <3>. QED
      BY <1>3, <2>2, <2>3, <2>7, <3>3 DEF Holding
  <2>. QED
    BY <2>12, <2>13, <2>14, <2>15 DEF Holding
<1>. QED
  BY <1>3, <1>5, <1>8, <1>9 DEF CallInv

\* More arguments go to a call that is still held.
LEMMA AddingCalls ==
  ASSUME TypeInv, CallInv, NEW n, NEW id, NEW args, Adding(n, id, args)
  PROVE  CallInv'
<1>. DEFINE b == calls[n]
            x == calls'[n]
            c == [ix |-> b.ix, id |-> id, args |-> args]
            ch == Tool(b.ix, id, args)
            p == Process(buffers, ch)
<1>1. /\ ch \in ChunkSet /\ CanSend /\ Receive(ch) /\ b \in CallSet
      /\ calls' \in Seq(CallSet) /\ Len(calls') = Len(calls) /\ DOMAIN calls' = DOMAIN calls
      /\ x.ix = b.ix /\ x.id = b.id /\ x = [b EXCEPT !.args = @ \o args]
      /\ \A j \in DOMAIN calls \ {n} : calls'[j] = calls[j]
  BY AddingIs, Zenon
<1>2. /\ n \in DOMAIN calls /\ args \in Args /\ id = (IF from = "kiro" THEN b.id ELSE 0) /\ ~Finished
      /\ from \in {"openai", "anthropic", "responses", "kiro"} /\ (from # "openai" => n = Len(calls))
  BY DEF Adding
<1>3. ch.kind = "tool"
  BY ChunkKinds
<1>4. /\ sent' = Append(sent, ch) /\ buffers' = p.held
      /\ from' = from /\ to' = to /\ phase' = "streaming" /\ phase = "streaming"
      /\ \E out \in SetToSeqs(p.out) : client' = Render(out \o p.pass).client
  BY <1>1, ReceiveIs
<1>5. c \in CallSet /\ c.ix = b.ix /\ c.id = id /\ c.args = args
  BY <1>1, <1>2 DEF CallSet
<1>6. ToolStep(buffers, c, ch, p)
  <2>1. p = ProcessTool(buffers, ch)
    BY <1>3 DEF Process
  <2>2. Tool(c.ix, c.id, c.args) = ch
    BY <1>5
  <2>. HIDE DEF c, ch
  <2>. QED
    BY <1>5, <2>1, <2>2, ProcessToolIs DEF TypeInv
<1>7. ~Finished'
  <2>2. ch.kind # "finish"
    BY <1>3
  <2>. HIDE DEF ch
  <2>. QED
    BY <1>1, <1>2, <1>4, <2>2, FinishedIs
<1>8. from' = "openai" => \A j \in DOMAIN calls' : calls'[j].ix = j - 1
  BY <1>1, <1>2, <1>4, Zenon DEF CallInv
<1>. HIDE DEF ch, p, c, x, b
<1>9. ASSUME Apart' PROVE Holding'
  <2>0. \A j \in DOMAIN calls : calls'[j].id = calls[j].id /\ calls'[j].ix = calls[j].ix
    BY <1>1, <1>2, Zenon DEF b, x
  <2>1. Apart
    BY <1>1, <1>4, <1>9, <2>0 DEF Apart
  <2>2. Holding
    BY <1>2, <1>4, <2>1 DEF CallInv
  <2>3. \A j \in DOMAIN calls : j # n => calls[j] # b /\ calls[j].id # b.id
    BY <1>2, <2>1 DEF Apart, b
  <2>4. ToSet(calls') = (ToSet(calls) \ {b}) \cup {x}
    <3>1. ASSUME NEW y \in ToSet(calls') PROVE y \in (ToSet(calls) \ {b}) \cup {x}
      <4>1. PICK j \in DOMAIN calls : y = calls'[j]
        BY <1>1 DEF ToSet
      <4>. QED
        BY <1>1, <2>3, <4>1 DEF ToSet, x
    <3>2. ASSUME NEW y \in ToSet(calls) \ {b} PROVE y \in ToSet(calls')
      <4>1. PICK j \in DOMAIN calls : y = calls[j]
        BY DEF ToSet
      <4>2. j # n
        BY <4>1 DEF b
      <4>. QED
        BY <1>1, <4>1, <4>2 DEF ToSet
    <3>3. x \in ToSet(calls')
      BY <1>1, <1>2, Zenon DEF ToSet, x
    <3>. QED
      BY <3>1, <3>2, <3>3
  <2>5. \A y \in ToSet(calls) : y = b \/ y.id # b.id
    BY <2>3 DEF ToSet, b
  <2>6. b \in ToSet(calls)
    BY <1>2 DEF ToSet, b
  <2>7. b \in buffers
    <3>1. calls # <<>>
      BY <1>2
    <3>. QED
      BY <1>2, <2>2, <2>6, <3>1 DEF Holding, b
  <2>. DEFINE at == WithIndex(buffers, c.ix)
  <2>8. b \in at
    BY <1>5, <2>7 DEF WithIndex
  <2>9. ~(c.id # 0 /\ \A e \in at : e.id # c.id)
    BY <1>2, <1>5, <2>8
  <2>10. p.out = {} /\ p.held = (buffers \ {b}) \cup {x} /\ p.pass = <<>>
    <3>1. /\ p.out = {}
          /\ \A e \in at : /\ p.held = (buffers \ {e}) \cup {[e EXCEPT !.args = @ \o c.args]}
                           /\ p.pass = <<>>
      BY <1>6, <2>9, Zenon DEF ToolStep
    <3>2. [b EXCEPT !.args = @ \o c.args] = x
      BY <1>1, <1>5
    <3>. HIDE DEF at
    <3>. QED
      BY <2>8, <3>1, <3>2, Zenon
  <2>11. client' = client
    <3>1. PICK out \in SetToSeqs({}) : client' = Render(out \o <<>>).client
      BY <1>4, <2>10
    <3>2. out = <<>> /\ out \o <<>> = <<>>
      BY FS_EmptySet, Enumerates
    <3>3. to \in Dialects /\ tags \in FilterState /\ client \in RenderState
      BY StreamRenderAssumption DEF TypeInv
    <3>4. Render(<<>>) = [tags |-> tags, client |-> client]
      <4>1. <<>> \in Seq(ChunkSet)
        OBVIOUS
      <4>. QED
        BY <1>1, <3>3, <4>1, RenderOnto, Zenon
    <3>. QED
      BY <3>1, <3>2, <3>4
  <2>. HIDE DEF at
  <2>12. \A y \in buffers : y \in ToSet(calls)
    BY <2>2 DEF Holding
  <2>13. ToSet(calls') \ buffers' = ToSet(calls) \ buffers
    <3>1. x \in buffers'
      BY <1>4, <2>10
    <3>2. ASSUME NEW y \in ToSet(calls) \ buffers PROVE y \in ToSet(calls') \ buffers'
      <4>1. y # b /\ y.id # b.id
        BY <2>5, <2>7, <3>2
      <4>2. y # x
        BY <1>1, <4>1, Zenon
      <4>. QED
        BY <1>4, <2>4, <2>10, <3>2, <4>1, <4>2
    <3>3. ASSUME NEW y \in ToSet(calls') \ buffers' PROVE y \in ToSet(calls) \ buffers
      BY <1>4, <2>4, <2>10, <3>1, <3>3
    <3>. QED
      BY <3>2, <3>3
  <2>14. Tells(to', client', ToSet(calls') \ buffers')
    BY <1>4, <2>2, <2>11, <2>13, Zenon DEF Holding
  <2>15. buffers' \subseteq ToSet(calls')
    BY <1>4, <2>4, <2>10, <2>12
  <2>16. from = "openai" => ToSet(calls') \subseteq buffers'
    BY <1>4, <2>2, <2>4, <2>10 DEF Holding
  <2>17. from # "openai" => calls'[Len(calls')] \in buffers'
    BY <1>1, <1>2, <1>4, <2>10 DEF x
  <2>. QED
    BY <1>4, <2>14, <2>15, <2>16, <2>17 DEF Holding
<1>. QED
  BY <1>4, <1>7, <1>8, <1>9 DEF CallInv

LEMMA EndCalls ==
  ASSUME TypeInv, CallInv, End
  PROVE  CallInv'
<1>1. /\ buffers' = {} /\ phase = "streaming" /\ phase' = "over"
      /\ from' = from /\ to' = to /\ sent' = sent /\ calls' = calls
      /\ \E out \in SetToSeqs(Flush(buffers)) : KeepsTold(to, Render(out).client, client')
  BY EndIs
<1>2. PICK out \in SetToSeqs(Flush(buffers)) : KeepsTold(to, Render(out).client, client')
  BY <1>1
<1>3. to \in Dialects /\ tags \in FilterState /\ client \in RenderState /\ Buffered(buffers)
  BY StreamRenderAssumption DEF TypeInv
<1>4. ASSUME Apart PROVE ToldIs(to, Render(out).client, ToSet(calls))
  <2>1. CASE Finished
    <3>1. buffers = {} /\ ToldIs(to, client, ToSet(calls))
      BY <1>4, <2>1 DEF CallInv
    <3>2. out = <<>>
      BY <1>3, <3>1, FlushedCalls
    <3>3. Render(<<>>) = [tags |-> tags, client |-> client]
      <4>1. <<>> \in Seq(ChunkSet) /\ Finish \in ChunkSet
        BY DEF ChunkSet
      <4>. QED
        BY <1>3, <4>1, RenderOnto, Zenon
    <3>. QED
      BY <3>1, <3>2, <3>3
  <2>2. CASE ~Finished
    <3>1. Tells(to, Render(out).client, (ToSet(calls) \ buffers) \cup buffers)
      BY <1>1, <1>4, <2>2, ApartFlush, Zenon
    <3>2. (ToSet(calls) \ buffers) \cup buffers = ToSet(calls)
      BY <1>1, <1>4, <2>2 DEF CallInv, Holding
    <3>. QED
      BY <3>1, <3>2, Zenon DEF Tells
  <2>. QED
    BY <2>1, <2>2
<1>5. Apart' <=> Apart
  BY <1>1 DEF Apart
<1>6. Apart' => ToldIs(to', client', ToSet(calls'))
  BY <1>1, <1>2, <1>4, <1>5 DEF KeepsTold
<1>. QED
  BY <1>1, <1>6 DEF CallInv

LEMMA CallStep == TypeInv /\ CallInv /\ [Next]_vars => CallInv'
<1>. SUFFICES ASSUME TypeInv, CallInv, [Next]_vars PROVE CallInv'
  OBVIOUS
<1>1. CASE UNCHANGED vars
  BY <1>1 DEF CallInv, Apart, Holding, Finished, Kinds, vars
<1>2. CASE End
  BY <1>2, EndCalls
<1>3. CASE Fail
  <2>1. /\ KeepsTold(to, client, client') /\ phase = "streaming" /\ phase' = "failed"
        /\ from' = from /\ to' = to /\ sent' = sent /\ calls' = calls /\ buffers' = buffers
    BY <1>3, FailIs
  <2>2. (Apart' <=> Apart) /\ (Finished' <=> Finished)
    BY <2>1 DEF Apart, Finished, Kinds
  <2>. QED
    BY <2>1, <2>2 DEF CallInv, KeepsTold
<1>4. ASSUME NEW ch, Quiet(ch) PROVE CallInv'
  BY <1>4, QuietCalls
<1>5. ASSUME NEW c, Calling(c) PROVE CallInv'
  BY <1>5, CallingCalls
<1>6. ASSUME NEW n, NEW id, NEW args, Adding(n, id, args) PROVE CallInv'
  BY <1>6, AddingCalls
<1>. QED
  BY <1>1, <1>2, <1>3, <1>4, <1>5, <1>6, Steps

LEMMA CallInvWhole == TypeInv /\ CallInv => CallsWhole
<1>. SUFFICES ASSUME CallInv, Finished \/ phase = "over",
                     DistinctBy(LAMBDA c : c.id),
                     to = "openai" \/ to = "responses" => DistinctBy(LAMBDA c : c.ix)
              PROVE  ToldCalls = {[id |-> c.id, args |-> c.args] : c \in ToSet(calls)}
  BY DEF CallsWhole
<1>1. Apart
  BY DEF Apart, DistinctBy
<1>2. ToldIs(to, client, ToSet(calls))
  BY <1>1 DEF CallInv
<1>3. ToldCalls = Assembled(PartsOf(to, client.out))
  BY DEF ToldCalls, ToldPart, Key, Events, PartsOf, PartOf
<1>. QED
  BY <1>2, <1>3 DEF ToldIs

\* A client that can tell the calls apart has been told each of them once and whole
\* when it is passed the finish and when the stream is over: the ToolArgSanitizer loses
\* no call, gives no call the arguments of another, and sends none on twice, whatever
\* else comes between the fragments, in whichever order it flushes its map and in
\* whichever dialect the renderer writes.
THEOREM CallsAreWhole == Spec => []CallsWhole
<1>1. Init => TypeInv /\ CallInv
  BY TypeInit, CallInit
<1>2. (TypeInv /\ CallInv) /\ [Next]_vars => (TypeInv /\ CallInv)'
  BY TypeStep, CallStep
<1>3. TypeInv /\ CallInv => CallsWhole
  BY CallInvWhole
<1>. QED
  BY <1>1, <1>2, <1>3, PTL DEF Spec

---------------------------------------------------------------------------
(* The folded answer *)

DrainParts == [i \in DOMAIN sent |-> DrainPart(sent[i])]

\* Kiro numbers its calls, and the parts of the j-th are those of key j.
FoldInv ==
  from = "kiro" =>
    /\ \A j \in DOMAIN calls : calls[j].id = j
    /\ Keys(DrainParts) = DOMAIN calls
    /\ \A j \in DOMAIN calls : HeadOf(DrainParts, j) = j /\ DataOf(DrainParts, j) = calls[j].args

LEMMA DrainTypes ==
  ASSUME NEW chs \in Seq(ChunkSet), NEW ch \in ChunkSet
  PROVE  /\ DrainPart(ch) \in PartSet
         /\ [i \in DOMAIN chs |-> DrainPart(chs[i])] \in Seq(PartSet)
         /\ [i \in DOMAIN Append(chs, ch) |-> DrainPart(Append(chs, ch)[i])]
            = [i \in DOMAIN chs |-> DrainPart(chs[i])] \o <<DrainPart(ch)>>
<1>1. ASSUME NEW c \in ChunkSet PROVE DrainPart(c) \in PartSet
  <2>1. CASE c.kind = "tool"
    <3>1. PICK k \in CallSet : c = Tool(k.ix, k.id, k.args)
      BY <2>1, ChunkForms
    <3>2. c.id \in Nat /\ c.args \in Data
      BY <3>1, ChunkKinds, DataSets DEF CallSet
    <3>. QED
      BY <2>1, <3>2 DEF DrainPart, PartSet
  <2>2. CASE c.kind # "tool"
    BY <2>2, DataSets DEF DrainPart, NoPart, PartSet
  <2>. QED
    BY <2>1, <2>2
<1>. DEFINE ps == [i \in DOMAIN chs |-> DrainPart(chs[i])]
            all == Append(chs, ch)
            n == Len(chs)
<1>2. /\ n \in Nat /\ DOMAIN chs = 1..n /\ DOMAIN all = 1..n + 1 /\ all[n + 1] = ch
      /\ \A i \in 1..n : all[i] = chs[i] /\ chs[i] \in ChunkSet
  OBVIOUS
<1>. HIDE DEF n, all
<1>3. ps \in [1..n -> PartSet] /\ \A i \in 1..n : ps[i] = DrainPart(chs[i])
  BY <1>1, <1>2
<1>4. ps \in Seq(PartSet) /\ Len(ps) = n
  BY <1>2, <1>3
<1>. HIDE DEF ps
<1>. DEFINE one == <<DrainPart(ch)>>
            more == ps \o one
            qs == [i \in DOMAIN all |-> DrainPart(all[i])]
<1>5. /\ more \in Seq(PartSet) /\ Len(more) = n + 1 /\ more[n + 1] = DrainPart(ch)
      /\ \A i \in 1..n : more[i] = ps[i]
  BY <1>1, <1>2, <1>4
<1>. HIDE DEF more
<1>6. DOMAIN more = 1..n + 1 /\ more = [i \in 1..n + 1 |-> more[i]]
  BY <1>2, <1>5
<1>7. \A i \in 1..n + 1 : DrainPart(all[i]) = more[i]
  <2>1. ASSUME NEW i \in 1..n + 1 PROVE DrainPart(all[i]) = more[i]
    <3>1. i \in 1..n \/ i = n + 1
      BY <1>2
    <3>. QED
      BY <1>2, <1>3, <1>5, <3>1
  <2>. QED
    BY <2>1
<1>8. qs = more
  BY <1>2, <1>6, <1>7
<1>. QED
  BY <1>1, <1>4, <1>8 DEF ps, all, more

\* What one more chunk makes of the parts.
Drains(ps, qs, ch) ==
  /\ ch.kind # "tool" => /\ Keys(qs) = Keys(ps)
                         /\ \A j \in Nat \ {0} : j \in Keys(ps) =>
                              HeadOf(qs, j) = HeadOf(ps, j) /\ DataOf(qs, j) = DataOf(ps, j)
  /\ ch.kind = "tool" =>
       /\ Keys(qs) = Keys(ps) \cup {ch.id}
       /\ \A j \in Keys(ps) : HeadOf(qs, j) = HeadOf(ps, j)
       /\ ch.id \notin Keys(ps) => HeadOf(qs, ch.id) = ch.id /\ DataOf(qs, ch.id) = ch.args
       /\ \A j \in Keys(ps) : j # ch.id => DataOf(qs, j) = DataOf(ps, j)
       /\ ch.id \in Keys(ps) => Joins(DataOf(qs, ch.id), DataOf(ps, ch.id), ch.args)

LEMMA OnePart ==
  ASSUME NEW p \in PartSet
  PROVE  /\ Keys(<<p>>) = IF p.key = -1 THEN {} ELSE {p.key}
         /\ \A key \in Int : DataOf(<<p>>, key) = IF p.key = key THEN p.data ELSE <<>>
         /\ HeadOf(<<p>>, p.key) = p.id
<1>1. DOMAIN <<p>> = {1} /\ <<p>>[1] = p
  OBVIOUS
<1>2. Keys(<<p>>) = IF p.key = -1 THEN {} ELSE {p.key}
  <2>1. {<<p>>[i].key : i \in DOMAIN <<p>>} = {p.key}
    BY <1>1
  <2>. QED
    BY <2>1 DEF Keys, NoPart
<1>3. ASSUME NEW key \in Int PROVE DataOf(<<p>>, key) = IF p.key = key THEN p.data ELSE <<>>
  <2>. DEFINE data == IF p.key = key THEN p.data ELSE <<>>
  <2>1. data \in Data
    BY DataSets DEF PartSet
  <2>2. [i \in DOMAIN <<p>> |-> IF <<p>>[i].key = key THEN <<p>>[i].data ELSE <<>>] = <<data>>
    BY <1>1
  <2>. HIDE DEF data
  <2>3. FlattenSeq(<<data>>) = data
    BY <2>1, FlattenOne DEF Data
  <2>. QED
    BY <2>2, <2>3 DEF DataOf, Joined, data
<1>4. HeadOf(<<p>>, p.key) = p.id
  <2>1. Of(<<p>>, p.key) = {1}
    BY <1>1 DEF Of
  <2>2. First({1}) \in {1}
    BY FirstOf
  <2>. QED
    BY <1>1, <2>1, <2>2 DEF HeadOf, Joined
<1>. QED
  BY <1>2, <1>3, <1>4

LEMMA DrainsIs ==
  ASSUME NEW ps \in Seq(PartSet), NEW ch \in ChunkSet
  PROVE  Drains(ps, ps \o <<DrainPart(ch)>>, ch)
<1>. DEFINE p == DrainPart(ch)
            qs == ps \o <<p>>
<1>1. p \in PartSet /\ <<p>> \in Seq(PartSet)
  <2>1. <<>> \in Seq(ChunkSet)
    OBVIOUS
  <2>2. p \in PartSet
    BY <2>1, DrainTypes, Zenon
  <2>. QED
    BY <2>2
<1>2. /\ Keys(qs) = Keys(ps) \cup Keys(<<p>>)
      /\ \A key \in Int : Joins(DataOf(qs, key), DataOf(ps, key), DataOf(<<p>>, key))
      /\ \A key \in Int : DataOf(ps, key) \in Data /\ DataOf(<<p>>, key) \in Data
      /\ \A key \in Int \ {-1} : key \notin Keys(ps) => DataOf(ps, key) = <<>>
      /\ \A key \in Keys(ps) : HeadOf(qs, key) = HeadOf(ps, key)
      /\ \A key \in Keys(<<p>>) : key \notin Keys(ps) => HeadOf(qs, key) = HeadOf(<<p>>, key)
  BY <1>1, JoinConcat, Zenon DEF Joins
<1>3. /\ Keys(<<p>>) = IF p.key = -1 THEN {} ELSE {p.key}
      /\ \A key \in Int : DataOf(<<p>>, key) = IF p.key = key THEN p.data ELSE <<>>
      /\ HeadOf(<<p>>, p.key) = p.id
  BY <1>1, OnePart, Zenon
<1>4. \A e : \A d \in Data : (Joins(e, d, <<>>) => e = d) /\ (Joins(e, <<>>, d) => e = d)
  <2>1. \A d \in Data : d \o <<>> = d /\ <<>> \o d = d
    BY DEF Data
  <2>. QED
    BY <2>1 DEF Joins
<1>5. Keys(ps) \subseteq Int
  <2>1. \A i \in DOMAIN ps : ps[i] \in PartSet
    OBVIOUS
  <2>. QED
    BY <2>1 DEF Keys, PartSet
<1>. HIDE DEF qs
<1>6. CASE ch.kind # "tool"
  <2>1. p.key = -1
    BY <1>6 DEF DrainPart, NoPart
  <2>2. Keys(qs) = Keys(ps)
    BY <1>2, <1>3, <2>1
  <2>3. ASSUME NEW j \in Nat \ {0} PROVE DataOf(qs, j) = DataOf(ps, j)
    <3>1. DataOf(<<p>>, j) = <<>>
      BY <1>3, <2>1
    <3>. QED
      BY <1>2, <1>4, <3>1
  <2>. QED
    BY <1>2, <1>6, <2>2, <2>3 DEF Drains, qs
<1>7. CASE ch.kind = "tool"
  <2>1. p.key = ch.id /\ p.id = ch.id /\ p.data = ch.args
    BY <1>7 DEF DrainPart
  <2>. HIDE DEF p
  <2>2. ch.id \in Nat /\ ch.args \in Data
    <3>1. PICK k \in CallSet : ch = Tool(k.ix, k.id, k.args)
      BY <1>7, ChunkForms
    <3>. QED
      BY <3>1, ChunkKinds, DataSets DEF CallSet
  <2>3. Keys(<<p>>) = {ch.id} /\ HeadOf(<<p>>, ch.id) = ch.id /\ DataOf(<<p>>, ch.id) = ch.args
    BY <1>3, <2>1, <2>2
  <2>4. ASSUME NEW j \in Keys(ps), j # ch.id PROVE DataOf(qs, j) = DataOf(ps, j)
    <3>1. j \in Int /\ DataOf(<<p>>, j) = <<>>
      BY <1>3, <1>5, <2>1, <2>4
    <3>. QED
      BY <1>2, <1>4, <3>1
  <2>5. Joins(DataOf(qs, ch.id), DataOf(ps, ch.id), ch.args)
    BY <1>2, <2>2, <2>3
  <2>6. ch.id \notin Keys(ps) => DataOf(qs, ch.id) = ch.args
    <3>1. ch.id \in Int \ {-1}
      BY <2>2
    <3>. QED
      BY <1>2, <1>4, <2>2, <2>3, <3>1
  <2>. QED
    BY <1>2, <1>7, <2>3, <2>4, <2>5, <2>6 DEF Drains, qs, p
<1>. QED
  BY <1>6, <1>7

LEMMA FoldReceived ==
  ASSUME TypeInv, NEW ch \in ChunkSet, CanSend, Receive(ch)
  PROVE  Drains(DrainParts, DrainParts', ch)
<1>1. sent' = Append(sent, ch) /\ sent \in Seq(ChunkSet)
  BY ReceiveIs DEF TypeInv
<1>2. DrainParts' = [i \in DOMAIN Append(sent, ch) |-> DrainPart(Append(sent, ch)[i])]
  BY <1>1 DEF DrainParts
<1>3. DrainParts' = DrainParts \o <<DrainPart(ch)>> /\ DrainParts \in Seq(PartSet)
  BY <1>1, <1>2, DrainTypes DEF DrainParts
<1>4. Drains(DrainParts, DrainParts \o <<DrainPart(ch)>>, ch)
  BY <1>3, DrainsIs
<1>. QED
  BY <1>3, <1>4

LEMMA FoldInit == Init => FoldInv
<1>. SUFFICES ASSUME Init PROVE FoldInv
  OBVIOUS
<1>1. calls = <<>> /\ sent = <<>>
  BY DEF Init
<1>2. Keys(DrainParts) = {}
  BY <1>1 DEF Keys, DrainParts
<1>. QED
  BY <1>1, <1>2 DEF FoldInv

LEMMA FoldStep == TypeInv /\ FoldInv /\ [Next]_vars => FoldInv'
<1>. SUFFICES ASSUME TypeInv, FoldInv, [Next]_vars, from' = "kiro" PROVE FoldInv'
  BY DEF FoldInv
<1>0. Len(calls) \in Nat /\ DOMAIN calls = 1..Len(calls) /\ calls \in Seq(CallSet)
  BY DEF TypeInv
<1>1. CASE UNCHANGED vars
  BY <1>1 DEF FoldInv, DrainParts, vars
<1>2. CASE End
  <2>1. from' = from /\ sent' = sent /\ calls' = calls
    BY <1>2, EndIs
  <2>. QED
    BY <2>1 DEF FoldInv, DrainParts
<1>3. CASE Fail
  <2>1. from' = from /\ sent' = sent /\ calls' = calls
    BY <1>3, FailIs
  <2>. QED
    BY <2>1 DEF FoldInv, DrainParts
<1>4. ASSUME NEW ch, Quiet(ch) PROVE FoldInv'
  <2>1. ch \in ChunkSet /\ CanSend /\ Receive(ch) /\ calls' = calls /\ ch.kind # "tool"
    BY <1>4 DEF Quiet
  <2>2. from' = from
    BY <2>1, ReceiveIs
  <2>3. Drains(DrainParts, DrainParts', ch)
    BY <2>1, FoldReceived
  <2>4. \A j \in DOMAIN calls : j \in Nat \ {0}
    BY <1>0
  <2>. QED
    BY <2>1, <2>2, <2>3, <2>4 DEF FoldInv, Drains
<1>5. ASSUME NEW c, Calling(c) PROVE FoldInv'
  <2>. DEFINE ch == Tool(c.ix, c.id, c.args)
              n == Len(calls) + 1
  <2>1. /\ ch \in ChunkSet /\ CanSend /\ Receive(ch) /\ c \in CallSet
        /\ DOMAIN calls' = DOMAIN calls \cup {n}
        /\ calls'[n] = c /\ \A j \in DOMAIN calls : calls'[j] = calls[j] /\ j # n
    BY <1>5, CallingIs, Zenon
  <2>2. ch.kind = "tool" /\ ch.id = c.id /\ ch.args = c.args
    BY ChunkKinds
  <2>. HIDE DEF ch
  <2>3. from' = from
    BY <2>1, ReceiveIs
  <2>4. Drains(DrainParts, DrainParts', ch)
    BY <2>1, FoldReceived
  <2>5. c.id = n
    BY <1>5, <2>3 DEF Calling
  <2>6. n \notin DOMAIN calls
    BY <2>1
  <2>. HIDE DEF n
  <2>. QED
    BY <2>1, <2>2, <2>3, <2>4, <2>5, <2>6 DEF FoldInv, Drains
<1>6. ASSUME NEW n, NEW id, NEW args, Adding(n, id, args) PROVE FoldInv'
  <2>. DEFINE ch == Tool(calls[n].ix, id, args)
  <2>1. /\ ch \in ChunkSet /\ CanSend /\ Receive(ch) /\ DOMAIN calls' = DOMAIN calls
        /\ calls'[n].id = calls[n].id /\ Joins(calls'[n].args, calls[n].args, args)
        /\ \A j \in DOMAIN calls \ {n} : calls'[j] = calls[j]
    BY <1>6, AddingIs, Zenon
  <2>2. ch.kind = "tool" /\ ch.id = id /\ ch.args = args
    BY ChunkKinds
  <2>. HIDE DEF ch
  <2>3. from' = from
    BY <2>1, ReceiveIs
  <2>4. Drains(DrainParts, DrainParts', ch)
    BY <2>1, FoldReceived
  <2>5. n \in DOMAIN calls /\ id = calls[n].id /\ calls[n].id = n
    BY <1>6, <2>3 DEF Adding, FoldInv
  <2>6. \A j \in DOMAIN calls' : calls'[j].id = j
    BY <2>1, <2>3, <2>5 DEF FoldInv
  <2>7. Keys(DrainParts') = DOMAIN calls'
    BY <2>1, <2>2, <2>3, <2>4, <2>5 DEF FoldInv, Drains
  <2>8. \A j \in DOMAIN calls' : HeadOf(DrainParts', j) = j
    BY <2>1, <2>2, <2>3, <2>4 DEF FoldInv, Drains
  <2>9. \A j \in DOMAIN calls' : j # n => DataOf(DrainParts', j) = calls'[j].args
    BY <2>1, <2>2, <2>3, <2>4, <2>5 DEF FoldInv, Drains
  <2>10. DataOf(DrainParts', n) = calls'[n].args
    <3>1. DataOf(DrainParts, n) = calls[n].args /\ id \in Keys(DrainParts) /\ id = n
      BY <2>3, <2>5 DEF FoldInv
    <3>2. Joins(DataOf(DrainParts', n), calls[n].args, args)
      BY <2>2, <2>4, <3>1 DEF Drains
    <3>. QED
      BY <2>1, <3>2 DEF Joins
  <2>. QED
    BY <2>6, <2>7, <2>8, <2>9, <2>10 DEF FoldInv
<1>. QED
  BY <1>1, <1>2, <1>3, <1>4, <1>5, <1>6, Steps

LEMMA FoldInvWhole == FoldInv => FoldedWhole
<1>. SUFFICES ASSUME FoldInv, from = "kiro"
              PROVE  Drained = {[id |-> c.id, args |-> c.args] : c \in ToSet(calls)}
  BY DEF FoldedWhole
<1>1. Drained = {Joined(DrainParts, j) : j \in DOMAIN calls}
  BY DEF Drained, Assembled, DrainParts, FoldInv
<1>2. \A j \in DOMAIN calls : Joined(DrainParts, j) = [id |-> calls[j].id, args |-> calls[j].args]
  BY JoinedIs DEF FoldInv
<1>3. {[id |-> c.id, args |-> c.args] : c \in ToSet(calls)}
      = {[id |-> calls[j].id, args |-> calls[j].args] : j \in DOMAIN calls}
  BY DEF ToSet
<1>. QED
  BY <1>1, <1>2, <1>3

\* The answer that is folded from Kiro's stream has each call once and whole: the
\* connector goes by the id that Kiro repeats with each fragment, and no fragment is
\* lost or put to another call.
THEOREM FoldIsWhole == Spec => []FoldedWhole
<1>1. Init => TypeInv /\ FoldInv
  BY TypeInit, FoldInit
<1>2. (TypeInv /\ FoldInv) /\ [Next]_vars => (TypeInv /\ FoldInv)'
  BY TypeStep, FoldStep
<1>3. FoldInv => FoldedWhole
  BY FoldInvWhole
<1>. QED
  BY <1>1, <1>2, <1>3, PTL DEF Spec


---------------------------------------------------------------------------
(* What a client's parser goes by *)

\* The items of a log of events, as WellFormed reads them, for a dialect.
Itemized == {"anthropic", "responses"}
Openings == {"role", "message_start", "created"}
Endings  == {"done", "completed"}
Named(d, e) == IF d = "responses" THEN e.id ELSE e.ix
Inside(d, e, o) == \/ e.ev = "text" /\ o.ev = "text_start"
                   \/ e.ev = "args" /\ o.ev = "call" /\ Named(d, e) = Named(d, o)
Shuts(d, e, o) == \/ e.ev = "block_stop" /\ (d = "anthropic" => e.ix = o.ix)
                                         /\ (d = "responses" => o.ev = "text_start")
                  \/ e.ev = "call_stop" /\ o.ev = "call" /\ e.id = o.id
OpenIn(d, evs, j, i) == j < i /\ Opens(evs[j]) /\ \A k \in j + 1..i - 1 : ~Shuts(d, evs[k], evs[j])
Items(d, evs) == {evs[j] : j \in {k \in DOMAIN evs : OpenIn(d, evs, k, Len(evs) + 1)}}

\* Each event comes where it may.
Lawful(d, evs) ==
  \A i \in DOMAIN evs :
    /\ d \in Itemized /\ evs[i].ev \in {"text", "args"} =>
         \E j \in DOMAIN evs : OpenIn(d, evs, j, i) /\ Inside(d, evs[i], evs[j])
    /\ d = "anthropic" /\ evs[i].ev = "finish" => \A j \in 1..i : ~OpenIn(d, evs, j, i)
    /\ evs[i].ev \in Openings => \A j \in 1..i - 1 : evs[j].ev = "usage"

\* A log that has not ended, in which these items are open, and which an opening may
\* still begin.
Log(d, evs, S, begun) ==
  /\ evs \in Sans(Endings) /\ Lawful(d, evs)
  /\ d \in Itemized => Items(d, evs) = S
  /\ ~begun => \A i \in DOMAIN evs : evs[i].ev = "usage"

TextItem == Event("text_start")
CallItem(ix, id) == [AtIx("call", ix) EXCEPT !.id = id]

\* What a renderer knows to be open, and whether it has begun.
Known(d, s, fin) ==
  IF fin THEN {}
  ELSE CASE d = "anthropic" -> (IF s.block THEN {TextItem} ELSE {})
                               \cup (IF s.toolOpen THEN {CallItem(s.toolIx, s.toolId)} ELSE {})
         [] d = "responses" -> (IF s.msgAdded THEN {TextItem} ELSE {})
                               \cup {CallItem(s.callId[i].ix, s.callId[i].id) : i \in DOMAIN s.callId}
         [] OTHER           -> {}
Begun(d, s, fin) ==
  CASE d \in {"openai", "anthropic"} -> s.role \/ fin
    [] d = "responses"               -> s.started
    [] OTHER                         -> TRUE

\* The log of a renderer while the stream runs: in the Anthropic dialect, as long as
\* text and calls have not both been rendered.
Shape(d, s, fin) ==
  /\ s \in RenderState /\ ~s.completed
  /\ (d = "anthropic" => ~(s.block /\ s.toolId # 0)) => Log(d, s.out, Known(d, s, fin), Begun(d, s, fin))
  /\ d = "anthropic" => (s.toolOpen => s.toolId # 0)
  /\ d = "responses" => (s.msgAdded \/ s.callId # <<>> => s.started)
  /\ d = "openai" => IF s.role THEN \E i \in DOMAIN s.out : s.out[i].ev = "role" ELSE Mute(s.out)

\* What one more event does to a log.
After1(d, S, e) == {o \in S : ~Shuts(d, e, o)} \cup (IF Opens(e) THEN {e} ELSE {})

LEMMA ItemsAfter ==
  ASSUME NEW d, NEW evs \in Seq(EventSet), NEW e \in EventSet
  PROVE  /\ \A i \in 1..Len(evs) + 1, j \in 1..Len(evs) : OpenIn(d, evs \o <<e>>, j, i) <=> OpenIn(d, evs, j, i)
         /\ Items(d, evs \o <<e>>) = After1(d, Items(d, evs), e)
<1>. DEFINE m == Len(evs)
            all == evs \o <<e>>
<1>1. m \in Nat /\ DOMAIN evs = 1..m /\ Len(all) = m + 1 /\ DOMAIN all = 1..m + 1
      /\ all[m + 1] = e /\ \A i \in 1..m : all[i] = evs[i]
  OBVIOUS
<1>. HIDE DEF all, m
<1>2. ASSUME NEW i \in 1..m + 1, NEW j \in 1..m PROVE OpenIn(d, all, j, i) <=> OpenIn(d, evs, j, i)
  <2>1. \A k \in j + 1..i - 1 : k \in 1..m
    BY <1>1
  <2>2. all[j] = evs[j] /\ \A k \in j + 1..i - 1 : all[k] = evs[k]
    BY <1>1, <2>1
  <2>. QED
    BY <2>2 DEF OpenIn
<1>3. ASSUME NEW j \in 1..m
      PROVE  OpenIn(d, all, j, m + 2) <=> OpenIn(d, evs, j, m + 1) /\ ~Shuts(d, e, evs[j])
  <2>1. \A k : k \in j + 1..(m + 2) - 1 <=> (k \in j + 1..(m + 1) - 1 \/ k = m + 1)
    BY <1>1
  <2>2. \A k \in j + 1..(m + 1) - 1 : k \in 1..m
    BY <1>1
  <2>3. all[j] = evs[j] /\ all[m + 1] = e /\ \A k \in j + 1..(m + 1) - 1 : all[k] = evs[k]
    BY <1>1, <2>2
  <2>4. j < m + 2 /\ j < m + 1
    BY <1>1
  <2>. QED
    BY <2>1, <2>3, <2>4 DEF OpenIn
<1>4. OpenIn(d, all, m + 1, m + 2) <=> Opens(e)
  <2>1. (m + 1) + 1..(m + 2) - 1 = {} /\ m + 1 < m + 2
    BY <1>1
  <2>. QED
    BY <1>1, <2>1 DEF OpenIn
<1>5. Items(d, all) = {all[j] : j \in {k \in 1..m + 1 : OpenIn(d, all, k, m + 2)}}
  BY <1>1 DEF Items
<1>6. Items(d, evs) = {evs[j] : j \in {k \in 1..m : OpenIn(d, evs, k, m + 1)}}
  BY <1>1 DEF Items, m
<1>7. 1..m + 1 = 1..m \cup {m + 1}
  BY <1>1
<1>8. Items(d, all) = After1(d, Items(d, evs), e)
  <2>1. ASSUME NEW o \in Items(d, all) PROVE o \in After1(d, Items(d, evs), e)
    <3>1. PICK j \in 1..m + 1 : OpenIn(d, all, j, m + 2) /\ o = all[j]
      BY <1>5, <2>1
    <3>2. CASE j \in 1..m
      <4>1. OpenIn(d, evs, j, m + 1) /\ ~Shuts(d, e, evs[j]) /\ o = evs[j]
        BY <1>1, <1>3, <3>1, <3>2
      <4>2. o \in Items(d, evs)
        BY <1>6, <3>2, <4>1
      <4>. QED
        BY <4>1, <4>2 DEF After1
    <3>3. CASE j = m + 1
      BY <1>1, <1>4, <3>1, <3>3 DEF After1
    <3>. QED
      BY <1>7, <3>1, <3>2, <3>3
  <2>2. ASSUME NEW o \in After1(d, Items(d, evs), e) PROVE o \in Items(d, all)
    <3>1. CASE o \in Items(d, evs) /\ ~Shuts(d, e, o)
      <4>1. PICK j \in 1..m : OpenIn(d, evs, j, m + 1) /\ o = evs[j]
        BY <1>6, <3>1
      <4>2. OpenIn(d, all, j, m + 2) /\ o = all[j] /\ j \in 1..m + 1
        BY <1>1, <1>3, <1>7, <3>1, <4>1
      <4>. QED
        BY <1>5, <4>2
    <3>2. CASE Opens(e) /\ o = e
      <4>1. OpenIn(d, all, m + 1, m + 2) /\ all[m + 1] = e /\ m + 1 \in 1..m + 1
        BY <1>1, <1>4, <1>7, <3>2
      <4>. QED
        BY <1>5, <3>2, <4>1
    <3>. QED
      BY <2>2, <3>1, <3>2 DEF After1
  <2>. QED
    BY <2>1, <2>2, Zenon
<1>. QED
  BY <1>2, <1>8 DEF all, m

\* An event that may come next.
Fits(d, S, begun, e) ==
  /\ e \in EventSet /\ e.ev \notin Endings
  /\ d \in Itemized /\ e.ev \in {"text", "args"} => \E o \in S : Inside(d, e, o)
  /\ d = "anthropic" /\ e.ev = "finish" => S = {}
  /\ e.ev \in Openings => ~begun

LEMMA LawfulAfter ==
  ASSUME NEW d, NEW evs \in Seq(EventSet), Lawful(d, evs), NEW e \in EventSet,
         d \in Itemized /\ e.ev \in {"text", "args"} => \E o \in Items(d, evs) : Inside(d, e, o),
         d = "anthropic" /\ e.ev = "finish" => Items(d, evs) = {},
         e.ev \in Openings => \A i \in DOMAIN evs : evs[i].ev = "usage"
  PROVE  Lawful(d, evs \o <<e>>)
<1>. DEFINE m == Len(evs)
            all == evs \o <<e>>
<1>1. m \in Nat /\ DOMAIN evs = 1..m /\ Len(all) = m + 1 /\ DOMAIN all = 1..m + 1
      /\ all[m + 1] = e /\ \A i \in 1..m : all[i] = evs[i]
  OBVIOUS
<1>2. \A i \in 1..m + 1, j \in 1..m : OpenIn(d, all, j, i) <=> OpenIn(d, evs, j, i)
  BY ItemsAfter, Zenon
<1>. HIDE DEF all, m
<1>3. Items(d, evs) = {evs[j] : j \in {k \in 1..m : OpenIn(d, evs, k, m + 1)}}
  BY <1>1 DEF Items, m
<1>4. ASSUME NEW i \in 1..m
      PROVE  /\ d \in Itemized /\ all[i].ev \in {"text", "args"} =>
                  \E j \in DOMAIN all : OpenIn(d, all, j, i) /\ Inside(d, all[i], all[j])
             /\ d = "anthropic" /\ all[i].ev = "finish" => \A j \in 1..i : ~OpenIn(d, all, j, i)
             /\ all[i].ev \in Openings => \A j \in 1..i - 1 : all[j].ev = "usage"
  <2>1. all[i] = evs[i] /\ i \in 1..m + 1 /\ i \in DOMAIN evs /\ (\A j \in 1..i : j \in 1..m)
        /\ \A j \in 1..i - 1 : j \in 1..m
    BY <1>1
  <2>2. ASSUME d \in Itemized, all[i].ev \in {"text", "args"}
        PROVE  \E j \in DOMAIN all : OpenIn(d, all, j, i) /\ Inside(d, all[i], all[j])
    <3>1. PICK j \in 1..m : OpenIn(d, evs, j, i) /\ Inside(d, evs[i], evs[j])
      BY <1>1, <2>1, <2>2 DEF Lawful
    <3>2. j \in DOMAIN all /\ OpenIn(d, all, j, i) /\ all[j] = evs[j]
      BY <1>1, <1>2, <2>1, <3>1
    <3>. QED
      BY <2>1, <3>1, <3>2
  <2>3. d = "anthropic" /\ all[i].ev = "finish" => \A j \in 1..i : ~OpenIn(d, all, j, i)
    BY <1>2, <2>1 DEF Lawful
  <2>4. all[i].ev \in Openings => \A j \in 1..i - 1 : all[j].ev = "usage"
    BY <1>1, <2>1 DEF Lawful
  <2>. QED
    BY <2>2, <2>3, <2>4
<1>5. d \in Itemized /\ e.ev \in {"text", "args"} =>
        \E j \in DOMAIN all : OpenIn(d, all, j, m + 1) /\ Inside(d, e, all[j])
  <2>. SUFFICES ASSUME d \in Itemized, e.ev \in {"text", "args"}
                PROVE  \E j \in DOMAIN all : OpenIn(d, all, j, m + 1) /\ Inside(d, e, all[j])
    OBVIOUS
  <2>1. PICK j \in 1..m : OpenIn(d, evs, j, m + 1) /\ Inside(d, e, evs[j])
    BY <1>3
  <2>2. m + 1 \in 1..m + 1 /\ j \in DOMAIN all /\ all[j] = evs[j]
    BY <1>1
  <2>. QED
    BY <1>2, <2>1, <2>2
<1>6. d = "anthropic" /\ e.ev = "finish" => \A j \in 1..m + 1 : ~OpenIn(d, all, j, m + 1)
  <2>. SUFFICES ASSUME d = "anthropic", e.ev = "finish", NEW j \in 1..m + 1 PROVE ~OpenIn(d, all, j, m + 1)
    OBVIOUS
  <2>1. CASE j \in 1..m
    <3>1. ~OpenIn(d, evs, j, m + 1)
      BY <1>3, <2>1, Zenon
    <3>2. m + 1 \in 1..m + 1
      BY <1>1
    <3>. QED
      BY <1>2, <2>1, <3>1, <3>2
  <2>2. CASE j = m + 1
    <3>1. ~(j < m + 1)
      BY <1>1, <2>2
    <3>. QED
      BY <3>1 DEF OpenIn
  <2>. QED
    BY <1>1, <2>1, <2>2
<1>7. e.ev \in Openings => \A j \in 1..(m + 1) - 1 : all[j].ev = "usage"
  <2>1. 1..(m + 1) - 1 = 1..m
    BY <1>1
  <2>. QED
    BY <1>1, <2>1
<1>8. 1..m + 1 = 1..m \cup {m + 1}
  BY <1>1
<1>9. ASSUME NEW i \in 1..m + 1
      PROVE  /\ d \in Itemized /\ all[i].ev \in {"text", "args"} =>
                  \E j \in DOMAIN all : OpenIn(d, all, j, i) /\ Inside(d, all[i], all[j])
             /\ d = "anthropic" /\ all[i].ev = "finish" => \A j \in 1..i : ~OpenIn(d, all, j, i)
             /\ all[i].ev \in Openings => \A j \in 1..i - 1 : all[j].ev = "usage"
  <2>1. CASE i \in 1..m
    BY <1>4, <2>1
  <2>2. CASE i = m + 1
    BY <1>1, <1>5, <1>6, <1>7, <2>2
  <2>. QED
    BY <1>8, <2>1, <2>2
<1>10. Lawful(d, all)
  BY <1>1, <1>9 DEF Lawful
<1>. QED
  BY <1>10 DEF all

LEMMA LogAdds ==
  ASSUME NEW d, NEW evs, NEW S, NEW begun \in BOOLEAN, Log(d, evs, S, begun), NEW e, Fits(d, S, begun, e)
  PROVE  /\ evs \o <<e>> \in Seq(EventSet)
         /\ \A b \in BOOLEAN : (~b => ~begun /\ e.ev = "usage") => Log(d, evs \o <<e>>, After1(d, S, e), b)
<1>. DEFINE all == evs \o <<e>>
<1>1. evs \in Seq(EventSet) /\ e \in EventSet /\ e.ev \notin Endings /\ evs \in Sans(Endings)
  BY DEF Log, Fits, Sans
<1>2. <<e>> \in Sans(Endings)
  BY <1>1, SansConcat
<1>3. all \in Sans(Endings)
  <2>. DEFINE last == <<e>>
  <2>1. last \in Sans(Endings)
    BY <1>2
  <2>. HIDE DEF last
  <2>2. evs \o last \in Sans(Endings)
    BY <1>1, <2>1, SansConcat
  <2>. QED
    BY <2>2 DEF last
<1>4. Itemized = {"anthropic", "responses"}
  BY DEF Itemized
<1>5. Lawful(d, all)
  <2>1. d \in Itemized => Items(d, evs) = S
    BY DEF Log
  <2>2. d \in Itemized /\ e.ev \in {"text", "args"} => \E o \in Items(d, evs) : Inside(d, e, o)
    BY <2>1 DEF Fits
  <2>3. d = "anthropic" /\ e.ev = "finish" => Items(d, evs) = {}
    BY <1>4, <2>1 DEF Fits
  <2>4. e.ev \in Openings => \A i \in DOMAIN evs : evs[i].ev = "usage"
    BY DEF Fits, Log
  <2>5. Lawful(d, evs)
    BY DEF Log
  <2>. QED
    BY <1>1, <2>2, <2>3, <2>4, <2>5, LawfulAfter
<1>6. d \in Itemized => Items(d, all) = After1(d, S, e)
  BY <1>1, ItemsAfter DEF Log
<1>7. ~begun /\ e.ev = "usage" => \A i \in DOMAIN all : all[i].ev = "usage"
  <2>1. Len(evs) \in Nat /\ DOMAIN evs = 1..Len(evs) /\ DOMAIN all = 1..Len(evs) + 1 /\ all[Len(evs) + 1] = e
        /\ (\A i \in 1..Len(evs) : all[i] = evs[i]) /\ 1..Len(evs) + 1 = 1..Len(evs) \cup {Len(evs) + 1}
    BY <1>1
  <2>. HIDE DEF all
  <2>. QED
    BY <2>1 DEF Log
<1>8. all \in Seq(EventSet)
  BY <1>3 DEF Sans
<1>. HIDE DEF all
<1>9. \A b \in BOOLEAN : (~b => ~begun /\ e.ev = "usage") => Log(d, all, After1(d, S, e), b)
  BY <1>3, <1>5, <1>6, <1>7 DEF Log
<1>. QED
  BY <1>8, <1>9 DEF all

LEMMA LogNeutral ==
  ASSUME NEW d, NEW evs, NEW S, NEW begun \in BOOLEAN, Log(d, evs, S, begun), NEW e, Fits(d, S, begun, e),
         e.ev \notin {"text_start", "call", "block_stop", "call_stop"}
  PROVE  evs \o <<e>> \in Seq(EventSet) /\ Log(d, evs \o <<e>>, S, TRUE)
         /\ (e.ev = "usage" => Log(d, evs \o <<e>>, S, begun))
<1>1. After1(d, S, e) = S
  BY DEF After1, Shuts, Opens
<1>. QED
  BY <1>1, LogAdds, Zenon

\* An opening, if nothing has begun.
LEMMA LogBegins ==
  ASSUME NEW d, NEW evs, NEW S, NEW begun \in BOOLEAN, Log(d, evs, S, begun), NEW name \in Openings,
         NEW piece, piece = IF begun THEN <<>> ELSE <<Event(name)>>
  PROVE  piece \in Seq(EventSet) /\ evs \o piece \in Seq(EventSet) /\ Log(d, evs \o piece, S, TRUE)
<1>. DEFINE e == Event(name)
<1>1. evs \in Seq(EventSet)
  BY DEF Log, Sans
<1>2. CASE begun
  <2>1. evs \o <<>> = evs /\ piece = <<>>
    BY <1>1, <1>2
  <2>. QED
    BY <1>1, <1>2, <2>1 DEF Log
<1>3. CASE ~begun
  <2>1. name \in EventNames /\ name \notin {"done", "completed", "text", "args", "finish", "text_start",
                                             "call", "block_stop", "call_stop"}
    BY DEF Openings, EventNames
  <2>2. e \in EventSet /\ e.ev = name
    BY <2>1, EventTypes DEF Event
  <2>3. Fits(d, S, begun, e)
    BY <1>3, <2>1, <2>2 DEF Fits, Endings
  <2>4. evs \o <<e>> \in Seq(EventSet) /\ Log(d, evs \o <<e>>, S, TRUE)
    BY <2>1, <2>2, <2>3, LogNeutral, Zenon
  <2>5. piece = <<e>> /\ <<e>> \in Seq(EventSet)
    BY <1>3, <2>2
  <2>. QED
    BY <2>4, <2>5, Zenon
<1>. QED
  BY <1>2, <1>3, Zenon

\* A renderer's state apart from what it has written.
Alike(s, r) ==
  /\ r.role = s.role /\ r.block = s.block /\ r.toolIx = s.toolIx /\ r.toolOpen = s.toolOpen
  /\ r.toolId = s.toolId /\ r.started = s.started /\ r.msgAdded = s.msgAdded
  /\ r.completed = s.completed /\ r.callId = s.callId

LEMMA EmitAlike ==
  ASSUME NEW s \in RenderState, NEW evs \in Seq(EventSet)
  PROVE  Emit(s, evs) \in RenderState /\ Emit(s, evs).out = s.out \o evs /\ Alike(s, Emit(s, evs))
<1>. DEFINE out == s.out \o evs
<1>1. Emit(s, evs) \in RenderState /\ Emit(s, evs).out = s.out \o evs
  BY EmitIs
<1>2. Emit(s, evs) = [s EXCEPT !.out = out]
  BY DEF Emit
<1>. HIDE DEF out
<1>3. Alike(s, [s EXCEPT !.out = out])
  BY DEF RenderState, Alike
<1>. QED
  BY <1>1, <1>2, <1>3

\* Pieces that are written one after the other.
Logs == Seq(EventSet)
Regroups2(o, a, b) == a \o b \in Logs /\ o \o (a \o b) = (o \o a) \o b
Regroups3(o, a, b, c) == a \o b \o c \in Logs /\ o \o (a \o b \o c) = ((o \o a) \o b) \o c
Regroups4(o, a, b, c, e) == a \o b \o c \o e \in Logs /\ o \o (a \o b \o c \o e) = (((o \o a) \o b) \o c) \o e

LEMMA Pieces2 == \A o, a, b \in Logs : Regroups2(o, a, b)
<1>. SUFFICES ASSUME NEW o \in Logs, NEW a \in Logs, NEW b \in Logs PROVE Regroups2(o, a, b)
  OBVIOUS
<1>1. a \o b \in Logs
  BY DEF Logs
<1>2. (o \o a) \o b = o \o (a \o b)
  BY EventAssoc DEF Logs
<1>. QED
  BY <1>1, <1>2, Zenon DEF Regroups2

LEMMA Pieces3 == \A o, a, b, c \in Logs : Regroups3(o, a, b, c)
<1>. SUFFICES ASSUME NEW o \in Logs, NEW a \in Logs, NEW b \in Logs, NEW c \in Logs
              PROVE  Regroups3(o, a, b, c)
  OBVIOUS
<1>. DEFINE ab == a \o b
            oab == (o \o a) \o b
<1>1. Regroups2(o, a, b)
  BY Pieces2
<1>2. ab \in Logs /\ o \o ab = oab
  BY <1>1, Zenon DEF Regroups2
<1>. HIDE DEF ab, oab
<1>3. Regroups2(o, ab, c)
  BY <1>2, Pieces2
<1>4. ab \o c \in Logs /\ o \o (ab \o c) = (o \o ab) \o c
  BY <1>3, Zenon DEF Regroups2
<1>. QED
  BY <1>2, <1>4, Zenon DEF ab, oab, Regroups3

LEMMA Pieces4 == \A o, a, b, c, e \in Logs : Regroups4(o, a, b, c, e)
<1>. SUFFICES ASSUME NEW o \in Logs, NEW a \in Logs, NEW b \in Logs, NEW c \in Logs, NEW e \in Logs
              PROVE  Regroups4(o, a, b, c, e)
  OBVIOUS
<1>. DEFINE ab == a \o b
            oab == (o \o a) \o b
<1>1. Regroups2(o, a, b)
  BY Pieces2
<1>2. ab \in Logs /\ o \o ab = oab
  BY <1>1, Zenon DEF Regroups2
<1>. HIDE DEF ab, oab
<1>3. Regroups3(o, ab, c, e)
  BY <1>2, Pieces3
<1>4. ab \o c \o e \in Logs /\ o \o (ab \o c \o e) = ((o \o ab) \o c) \o e
  BY <1>3, Zenon DEF Regroups3
<1>. QED
  BY <1>2, <1>4, Zenon DEF ab, oab, Regroups4

LEMMA ElementOf ==
  \A S : \A q \in Seq(S) : \A i \in DOMAIN q : q[i] \in S
OBVIOUS

LEMMA Beginning ==
  \A a, b \in Logs : \A i \in DOMAIN a : i \in DOMAIN (a \o b) /\ (a \o b)[i] = a[i]
BY DEF Logs

LEMMA TypedPieces ==
  ASSUME NEW s \in RenderState
  PROVE  /\ Role(s) \in Logs /\ Open(s) \in Logs /\ StopTool(s) \in Logs /\ Start(s) \in Logs
         /\ NextTool(s) \in Nat /\ s.out \in Logs
<1>1. {Role(s), Open(s), StopTool(s), Start(s)} \subseteq Aside
  BY AsideEvents
<1>2. NextTool(s) \in Nat
  BY Updates, Zenon
<1>3. s.out \in Logs
  BY DEF RenderState, Logs
<1>. QED
  BY <1>1, <1>2, <1>3, AsideIs DEF Logs

LEMMA ItemForms ==
  /\ TextItem \in EventSet /\ TextItem.ev = "text_start" /\ TextItem.ix = 0 /\ Opens(TextItem)
  /\ \A ix \in Nat, id \in Nat :
       /\ CallItem(ix, id) \in EventSet /\ CallItem(ix, id).ev = "call" /\ Opens(CallItem(ix, id))
       /\ CallItem(ix, id).ix = ix /\ CallItem(ix, id).id = id
<1>1. TextItem \in EventSet /\ TextItem.ev = "text_start" /\ TextItem.ix = 0
  BY EventTypes DEF TextItem, Event, EventNames
<1>2. ASSUME NEW ix \in Nat, NEW id \in Nat
      PROVE  /\ CallItem(ix, id) \in EventSet /\ CallItem(ix, id).ev = "call"
             /\ CallItem(ix, id).ix = ix /\ CallItem(ix, id).id = id
  <2>1. CallItem(ix, id) = [ev |-> "call", ix |-> ix, id |-> id, data |-> <<>>]
    BY EventForms DEF CallItem
  <2>. QED
    BY <2>1, DataSets DEF EventSet, EventNames
<1>. QED
  BY <1>1, <1>2 DEF Opens

\* Without items, anything but an opening and an ending may come.
LEMMA LogPlain ==
  ASSUME NEW d, d \notin Itemized, NEW evs, NEW S, NEW begun \in BOOLEAN, Log(d, evs, S, begun),
         NEW e \in EventSet, e.ev \notin Openings, e.ev \notin Endings
  PROVE  /\ evs \o <<e>> \in Logs /\ <<e>> \in Logs /\ Log(d, evs \o <<e>>, {}, TRUE)
         /\ e.ev = "usage" => Log(d, evs \o <<e>>, {}, begun)
<1>1. Fits(d, S, begun, e)
  BY DEF Fits, Itemized
<1>2. evs \o <<e>> \in Seq(EventSet)
      /\ \A b \in BOOLEAN : (~b => ~begun /\ e.ev = "usage") => Log(d, evs \o <<e>>, After1(d, S, e), b)
  BY <1>1, LogAdds
<1>. DEFINE all == evs \o <<e>>
<1>3. all \in Logs /\ <<e>> \in Logs
  BY <1>2 DEF Logs
<1>. HIDE DEF all
<1>4. \A b \in BOOLEAN : Log(d, all, After1(d, S, e), b) => Log(d, all, {}, b)
  BY DEF Log
<1>5. Log(d, all, After1(d, S, e), TRUE)
  BY <1>2, Zenon DEF all
<1>6. e.ev = "usage" => Log(d, all, After1(d, S, e), begun)
  BY <1>2 DEF all
<1>. QED
  BY <1>3, <1>4, <1>5, <1>6, Zenon DEF all

\* In the OpenAI dialect anything that is said comes after the role.
LEMMA OpenAISays ==
  ASSUME NEW s, Shape("openai", s, FALSE), NEW e \in EventSet, e.ev \notin Openings, e.ev \notin Endings
  PROVE  LET r == Emit([s EXCEPT !.role = TRUE], Role(s) \o <<e>>)
         IN Shape("openai", r, FALSE) /\ r.toolId = s.toolId /\ r.block = s.block
<1>. DEFINE d == "openai"
            q == [s EXCEPT !.role = TRUE]
            say == <<e>>
            evs == Role(s) \o say
            out == s.out \o Role(s)
            r == Emit(q, evs)
<1>0. s \in RenderState /\ s.completed = FALSE /\ s.role \in BOOLEAN
  BY DEF Shape, RenderState
<1>1. say \in Logs /\ Role(s) \in Logs /\ s.out \in Logs
  BY <1>0, TypedPieces DEF Logs
<1>2. q \in RenderState /\ q.out = s.out
  BY <1>0, Updates, Zenon
<1>3. q.role = TRUE /\ q.toolId = s.toolId /\ q.block = s.block /\ q.completed = FALSE
  BY <1>0 DEF RenderState
<1>4. evs \in Logs /\ s.out \o evs = out \o say
  <2>1. Regroups2(s.out, Role(s), say)
    BY <1>1, Pieces2
  <2>. QED
    BY <2>1, Zenon DEF Regroups2
<1>5. Log(d, s.out, {}, s.role)
  <2>1. Known(d, s, FALSE) = {} /\ Begun(d, s, FALSE) = s.role
    BY <1>0 DEF Known, Begun
  <2>. QED
    BY <2>1, Zenon DEF Shape
<1>6. Log(d, out, {}, TRUE)
  BY <1>0, <1>5, LogBegins, Zenon DEF Openings, Role
<1>. HIDE DEF q, evs, out, r
<1>7. Log(d, out \o say, {}, TRUE)
  BY <1>6, LogPlain, Zenon DEF Itemized
<1>8. r \in RenderState /\ r.out = out \o say /\ Alike(q, r)
  BY <1>2, <1>4, EmitAlike, Zenon DEF Logs, r
<1>9. \E i \in DOMAIN r.out : r.out[i].ev = "role"
  <2>1. CASE s.role
    <3>1. PICK i \in DOMAIN s.out : s.out[i].ev = "role"
      BY <2>1 DEF Shape
    <3>2. r.out = s.out \o evs
      BY <1>4, <1>8
    <3>3. i \in DOMAIN r.out /\ r.out[i] = s.out[i]
      BY <1>1, <1>4, <3>1, <3>2, Beginning
    <3>. QED
      BY <3>1, <3>3
  <2>2. CASE ~s.role
    <3>1. out = s.out \o <<Event("role")>>
      BY <2>2 DEF out, Role
    <3>2. Event("role").ev = "role"
      BY DEF Event
    <3>. DEFINE n == Len(s.out) + 1
    <3>3. n \in DOMAIN out /\ out[n] = Event("role") /\ out \in Logs
      BY <1>1, <1>6, <3>1 DEF Logs, Log, Sans
    <3>4. n \in DOMAIN (out \o say) /\ (out \o say)[n] = out[n]
      BY <1>1, <3>3, Beginning
    <3>. QED
      BY <1>8, <3>2, <3>3, <3>4
  <2>. QED
    BY <1>0, <2>1, <2>2
<1>. QED
  BY <1>3, <1>7, <1>8, <1>9, Zenon DEF Shape, Known, Begun, Alike, q, r, evs

\* Stops take out of the open items those that they are about.
LEMMA LogStops ==
  ASSUME NEW d, NEW evs, NEW S, Log(d, evs, S, TRUE), NEW more \in Seq(EventSet),
         \A k \in DOMAIN more : more[k].ev \in {"block_stop", "call_stop"}
  PROVE  Log(d, evs \o more, {o \in S : \A k \in DOMAIN more : ~Shuts(d, more[k], o)}, TRUE)
<1>. DEFINE n == Len(more)
            cut(i) == SubSeq(more, 1, i)
            Left(i) == {o \in S : \A k \in 1..i : ~Shuts(d, more[k], o)}
            Stopped(i) == Log(d, evs \o cut(i), Left(i), TRUE)
            P == {i \in Nat : i <= n => Stopped(i)}
<1>1. evs \in Seq(EventSet) /\ n \in Nat /\ DOMAIN more = 1..n /\ \A k \in 1..n : more[k] \in EventSet
  BY DEF Log, Sans
<1>2. cut(0) = <<>> /\ cut(n) = more
  OBVIOUS
<1>3. \A i \in 0..n : cut(i) \in Seq(EventSet)
  OBVIOUS
<1>4. \A i \in 0..n - 1 : cut(i + 1) = Append(cut(i), more[i + 1])
  OBVIOUS
<1>. HIDE DEF n, cut, Stopped
<1>5. 0 \in P
  <2>1. evs \o <<>> = evs /\ Left(0) = S
    BY <1>1
  <2>2. Stopped(0)
    BY <1>2, <2>1, Zenon DEF Stopped
  <2>. QED
    BY <2>2
<1>6. ASSUME NEW i \in Nat, i \in P PROVE i + 1 \in P
  <2>. SUFFICES ASSUME i + 1 <= n PROVE Stopped(i + 1)
    OBVIOUS
  <2>. DEFINE e == more[i + 1]
              all == evs \o cut(i)
  <2>1. i <= n /\ i \in 0..n /\ i \in 0..n - 1 /\ i + 1 \in 1..n /\ 1..i + 1 = 1..i \cup {i + 1}
    BY <1>1
  <2>2. Log(d, all, Left(i), TRUE) /\ e \in EventSet /\ e.ev \in {"block_stop", "call_stop"}
    <3>1. Stopped(i)
      BY <1>6, <2>1
    <3>. QED
      BY <1>1, <2>1, <3>1, Zenon DEF Stopped
  <2>3. evs \o cut(i + 1) = all \o <<e>>
    <3>. DEFINE c == cut(i)
    <3>1. cut(i + 1) = Append(c, e) /\ c \in Seq(EventSet)
      BY <1>3, <1>4, <2>1
    <3>. HIDE DEF c, e
    <3>2. evs \o Append(c, e) = (evs \o c) \o <<e>>
      BY <1>1, <2>2, <3>1
    <3>. QED
      BY <3>1, <3>2, Zenon DEF c
  <2>. HIDE DEF all, e, Left
  <2>4. Fits(d, Left(i), TRUE, e)
    BY <2>2 DEF Fits, Endings, Openings
  <2>5. Log(d, all \o <<e>>, After1(d, Left(i), e), TRUE)
    BY <2>2, <2>4, LogAdds, Zenon
  <2>6. After1(d, Left(i), e) = Left(i + 1)
    <3>1. ~Opens(e)
      BY <2>2 DEF Opens
    <3>. QED
      BY <2>1, <3>1, Zenon DEF After1, Left, e
  <2>. QED
    BY <2>3, <2>5, <2>6, Zenon DEF Stopped
<1>. HIDE DEF P, Left
<1>7. Nat \subseteq P
  BY <1>5, <1>6, Inductively
<1>8. Stopped(n)
  BY <1>1, <1>7 DEF P
<1>9. Log(d, evs \o more, Left(n), TRUE)
  BY <1>2, <1>8, Zenon DEF Stopped
<1>. QED
  BY <1>1, <1>9, Zenon DEF Left

\* A delta is written into an item that is open.
LEMMA TextFits ==
  ASSUME NEW d \in Dialects, NEW evs, NEW S, NEW begun \in BOOLEAN, Log(d, evs, S, begun),
         d \in Itemized => TextItem \in S, NEW delta \in Texts
  PROVE  LET e == At0("text", delta)
         IN evs \o <<e>> \in Logs /\ Log(d, evs \o <<e>>, S, TRUE) /\ <<e>> \in Logs
<1>. DEFINE e == At0("text", delta)
<1>1. e \in EventSet /\ e.ev = "text"
  BY EventTypes, DataSets DEF At0, Event, EventNames
<1>. HIDE DEF e
<1>2. d \in Itemized => \E o \in S : Inside(d, e, o)
  BY <1>1, ItemForms DEF Inside
<1>3. e.ev \notin Endings /\ e.ev \notin Openings /\ e.ev # "finish"
  BY <1>1 DEF Endings, Openings
<1>4. Fits(d, S, begun, e)
  BY <1>1, <1>2, <1>3 DEF Fits
<1>5. evs \o <<e>> \in Seq(EventSet) /\ Log(d, evs \o <<e>>, S, TRUE)
  BY <1>1, <1>4, LogNeutral, Zenon
<1>6. <<e>> \in Logs
  BY <1>1 DEF Logs
<1>. QED
  BY <1>5, <1>6, Zenon DEF e, Logs

\* An item for text, unless there is one.
LEMMA TextOpens ==
  ASSUME NEW d \in Itemized, NEW evs, NEW S, Log(d, evs, S, TRUE), NEW there \in BOOLEAN, there <=> TextItem \in S
  PROVE  LET piece == IF there THEN <<>> ELSE <<TextItem>>
         IN piece \in Logs /\ evs \o piece \in Logs /\ Log(d, evs \o piece, S \cup {TextItem}, TRUE)
<1>. DEFINE piece == IF there THEN <<>> ELSE <<TextItem>>
<1>1. evs \in Seq(EventSet)
  BY DEF Log, Sans
<1>2. CASE there
  <2>1. piece = <<>> /\ evs \o <<>> = evs /\ S \cup {TextItem} = S /\ <<>> \in Logs
    BY <1>1, <1>2 DEF Logs
  <2>. HIDE DEF piece
  <2>. QED
    BY <1>1, <2>1, Zenon DEF piece, Logs
<1>3. CASE ~there
  <2>1. Fits(d, S, TRUE, TextItem)
    BY ItemForms DEF Fits, Endings, Openings
  <2>2. evs \o <<TextItem>> \in Seq(EventSet) /\ Log(d, evs \o <<TextItem>>, After1(d, S, TextItem), TRUE)
    BY <2>1, LogAdds, Zenon
  <2>3. After1(d, S, TextItem) = S \cup {TextItem}
    BY ItemForms DEF After1, Shuts
  <2>4. <<TextItem>> \in Logs
    BY ItemForms DEF Logs
  <2>. QED
    BY <1>3, <2>2, <2>3, <2>4, Zenon DEF Logs
<1>. QED
  BY <1>2, <1>3, Zenon

LEMMA ShapeText ==
  ASSUME NEW d \in Dialects, NEW s, Shape(d, s, FALSE), NEW delta \in Texts
  PROVE  LET r == RenderStreamChunk(d, s, Text(delta))
         IN Shape(d, r, FALSE) /\ r.toolId = s.toolId
<1>. DEFINE ch == Text(delta)
            e == At0("text", delta)
            say == <<e>>
            r == RenderStreamChunk(d, s, ch)
            Goal == Shape(d, r, FALSE) /\ r.toolId = s.toolId
<1>. SUFFICES Goal
  OBVIOUS
<1>0. s \in RenderState /\ s.completed = FALSE
  BY DEF Shape, RenderState
<1>1. ch.kind = "text" /\ ch.delta = delta
  BY ChunkKinds
<1>2. e \in EventSet /\ e.ev = "text" /\ say \in Logs /\ <<>> \in Logs
  BY EventTypes, DataSets DEF At0, Event, EventNames, Logs
<1>3. /\ Role(s) \in Logs /\ Open(s) \in Logs /\ StopTool(s) \in Logs /\ Start(s) \in Logs
      /\ NextTool(s) \in Nat /\ s.out \in Logs
  BY <1>0, TypedPieces
<1>4. <<TextItem>> \in Logs
  BY ItemForms DEF Logs
<1>5. s.role \in BOOLEAN /\ s.block \in BOOLEAN /\ s.toolOpen \in BOOLEAN /\ s.started \in BOOLEAN
      /\ s.msgAdded \in BOOLEAN /\ s.toolId \in Nat
  BY <1>0 DEF RenderState
<1>. HIDE DEF ch, e, say, r
<1>6. CASE d = "openai"
  <2>1. r = Emit([s EXCEPT !.role = TRUE], Role(s) \o <<e>>)
    BY <1>1, <1>6 DEF r, RenderStreamChunk, OpenAI, e
  <2>2. e.ev \notin Openings /\ e.ev \notin Endings
    BY <1>2 DEF Openings, Endings
  <2>. QED
    BY <1>2, <1>6, <2>1, <2>2, OpenAISays, Zenon
<1>7. CASE d = "anthropic"
  <2>. DEFINE q == [s EXCEPT !.role = TRUE, !.block = TRUE, !.toolOpen = FALSE, !.toolIx = NextTool(s)]
              start == IF s.block THEN <<>> ELSE <<TextItem>>
              stop == StopTool(s)
              a == s.out \o Open(s)
              evs == Open(s) \o stop \o start \o say
  <2>1. r = Emit(q, evs)
    BY <1>1, <1>7 DEF r, RenderStreamChunk, Anthropic, AnthropicText, say, e, TextItem
  <2>2. q \in RenderState /\ q.out = s.out
    BY <1>0, Updates, Zenon
  <2>3. q.role = TRUE /\ q.block = TRUE /\ q.toolOpen = FALSE /\ q.toolId = s.toolId /\ q.completed = FALSE
    <3>. DEFINE n == NextTool(s)
    <3>. HIDE DEF n
    <3>1. [s EXCEPT !.role = TRUE, !.block = TRUE, !.toolOpen = FALSE, !.toolIx = n].role = TRUE
      BY <1>0 DEF RenderState
    <3>2. [s EXCEPT !.role = TRUE, !.block = TRUE, !.toolOpen = FALSE, !.toolIx = n].block = TRUE
      BY <1>0 DEF RenderState
    <3>3. [s EXCEPT !.role = TRUE, !.block = TRUE, !.toolOpen = FALSE, !.toolIx = n].toolOpen = FALSE
      BY <1>0 DEF RenderState
    <3>4. [s EXCEPT !.role = TRUE, !.block = TRUE, !.toolOpen = FALSE, !.toolIx = n].toolId = s.toolId
      BY <1>0 DEF RenderState
    <3>5. [s EXCEPT !.role = TRUE, !.block = TRUE, !.toolOpen = FALSE, !.toolIx = n].completed = FALSE
      BY <1>0 DEF RenderState
    <3>. QED
      BY <3>1, <3>2, <3>3, <3>4, <3>5 DEF n
  <2>4. start \in Logs /\ stop \in Logs
    BY <1>2, <1>3, <1>4
  <2>. HIDE DEF start, stop
  <2>5. evs \in Logs /\ s.out \o evs = ((a \o stop) \o start) \o say
    <3>1. Regroups4(s.out, Open(s), stop, start, say)
      BY <1>2, <1>3, <2>4, Pieces4, Zenon
    <3>. QED
      BY <3>1, Zenon DEF Regroups4
  <2>. HIDE DEF q, evs, a
  <2>6. r \in RenderState /\ r.out = s.out \o evs /\ Alike(q, r)
    BY <2>1, <2>2, <2>5, EmitAlike, Zenon DEF Logs
  <2>7. ASSUME ~(r.block /\ r.toolId # 0) PROVE Log(d, r.out, {TextItem}, TRUE)
    <3>1. s.toolId = 0 /\ s.toolOpen = FALSE
      BY <1>5, <1>7, <2>3, <2>6, <2>7 DEF Alike, Shape
    <3>2. Log(d, s.out, IF s.block THEN {TextItem} ELSE {}, s.role)
      <4>1. Known(d, s, FALSE) = IF s.block THEN {TextItem} ELSE {}
        BY <1>7, <3>1 DEF Known
      <4>2. Begun(d, s, FALSE) = s.role
        BY <1>5, <1>7 DEF Begun
      <4>. QED
        BY <3>1, <4>1, <4>2, Zenon DEF Shape
    <3>. DEFINE S == IF s.block THEN {TextItem} ELSE {}
    <3>3. Log(d, a, S, TRUE)
      BY <1>5, <3>2, LogBegins, Zenon DEF Openings, Open, a
    <3>4. a \o stop = a
      <4>1. stop = <<>>
        BY <3>1 DEF stop, StopTool
      <4>2. a \in Seq(EventSet)
        BY <3>3 DEF Log, Sans
      <4>. QED
        BY <4>1, <4>2
    <3>5. s.block <=> TextItem \in S
      OBVIOUS
    <3>6. S \cup {TextItem} = {TextItem}
      OBVIOUS
    <3>. HIDE DEF S
    <3>7. Log(d, a \o start, {TextItem}, TRUE)
      BY <1>5, <1>7, <3>3, <3>5, <3>6, TextOpens, Zenon DEF start, Itemized
    <3>8. Log(d, (a \o start) \o say, {TextItem}, TRUE)
      BY <3>7, TextFits, Zenon DEF say, e
    <3>. QED
      BY <2>5, <2>6, <3>4, <3>8, Zenon
  <2>8. r.role = TRUE /\ r.block = TRUE /\ r.toolOpen = FALSE /\ r.toolId = s.toolId /\ r.completed = FALSE
    BY <2>3, <2>6 DEF Alike
  <2>9. Known(d, r, FALSE) = {TextItem} /\ Begun(d, r, FALSE) = TRUE
    BY <1>7, <2>8 DEF Known, Begun
  <2>. QED
    BY <1>7, <2>6, <2>7, <2>8, <2>9, Zenon DEF Shape
<1>8. CASE d = "responses"
  <2>. DEFINE q == [s EXCEPT !.started = TRUE, !.msgAdded = TRUE]
              start == IF s.msgAdded THEN <<>> ELSE <<TextItem>>
              a == s.out \o Start(s)
              evs == Start(s) \o start \o say
  <2>1. r = Emit(q, evs)
    BY <1>1, <1>8 DEF r, RenderStreamChunk, Responses, ResponsesText, say, e, TextItem
  <2>2. q \in RenderState /\ q.out = s.out
    BY <1>0, Updates, Zenon
  <2>3. q.started = TRUE /\ q.msgAdded = TRUE /\ q.callId = s.callId /\ q.toolId = s.toolId /\ q.completed = FALSE
    BY <1>0 DEF RenderState
  <2>4. start \in Logs
    BY <1>2, <1>4
  <2>. HIDE DEF start
  <2>5. evs \in Logs /\ s.out \o evs = (a \o start) \o say
    <3>1. Regroups3(s.out, Start(s), start, say)
      BY <1>2, <1>3, <2>4, Pieces3
    <3>. QED
      BY <3>1, Zenon DEF Regroups3
  <2>. HIDE DEF q, evs, a
  <2>6. r \in RenderState /\ r.out = s.out \o evs /\ Alike(q, r)
    BY <2>1, <2>2, <2>5, EmitAlike, Zenon DEF Logs
  <2>. DEFINE C == {CallItem(s.callId[i].ix, s.callId[i].id) : i \in DOMAIN s.callId}
              S == (IF s.msgAdded THEN {TextItem} ELSE {}) \cup C
  <2>7. Log(d, s.out, S, s.started)
    BY <1>8 DEF Shape, Known, Begun
  <2>8. TextItem \notin C
    <3>1. ASSUME NEW i \in DOMAIN s.callId PROVE CallItem(s.callId[i].ix, s.callId[i].id).ev = "call"
      <4>0. s.callId \in Seq([ix : Nat, id : Nat])
        BY <1>0 DEF RenderState
      <4>1. s.callId[i] \in [ix : Nat, id : Nat]
        BY <4>0, ElementOf, Zenon
      <4>2. s.callId[i].ix \in Nat /\ s.callId[i].id \in Nat
        BY <4>1
      <4>. QED
        BY <4>2, ItemForms
    <3>. QED
      BY <3>1, ItemForms
  <2>9. s.msgAdded <=> TextItem \in S
    BY <2>8
  <2>10. S \cup {TextItem} = {TextItem} \cup C
    OBVIOUS
  <2>11. Log(d, a, S, TRUE)
    BY <1>5, <2>7, LogBegins, Zenon DEF Openings, Start, a
  <2>12. Known(d, r, FALSE) = {TextItem} \cup C /\ Begun(d, r, FALSE) = TRUE
    <3>1. r.msgAdded = TRUE /\ r.callId = s.callId /\ r.started = TRUE
      BY <2>3, <2>6 DEF Alike
    <3>. QED
      BY <1>8, <3>1 DEF Known, Begun
  <2>. HIDE DEF S, C
  <2>13. Log(d, a \o start, {TextItem} \cup C, TRUE)
    BY <1>5, <1>8, <2>9, <2>10, <2>11, TextOpens, Zenon DEF start, Itemized
  <2>14. Log(d, (a \o start) \o say, {TextItem} \cup C, TRUE)
    <3>1. TextItem \in {TextItem} \cup C
      OBVIOUS
    <3>. QED
      BY <2>13, <3>1, TextFits, Zenon DEF say, e
  <2>. QED
    BY <1>8, <2>3, <2>5, <2>6, <2>12, <2>14, Zenon DEF Shape, Alike
<1>9. CASE d \in {"gemini", "ollama"}
  <2>1. r = Emit(s, say)
    BY <1>1, <1>9 DEF r, RenderStreamChunk, Gemini, Ollama, say, e
  <2>2. r \in RenderState /\ r.out = s.out \o say /\ Alike(s, r)
    BY <1>0, <1>2, <2>1, EmitAlike DEF Logs
  <2>3. Log(d, s.out, {}, TRUE)
    BY <1>9, Zenon DEF Shape, Known, Begun
  <2>4. Log(d, s.out \o say, {}, TRUE)
    BY <1>9, <2>3, TextFits, Zenon DEF Itemized, say, e
  <2>5. Known(d, r, FALSE) = {} /\ Begun(d, r, FALSE) = TRUE
    BY <1>9 DEF Known, Begun
  <2>. QED
    BY <1>0, <1>9, <2>2, <2>4, <2>5, Zenon DEF Shape, Alike
<1>. QED
  BY <1>6, <1>7, <1>8, <1>9, Zenon DEF Dialects

LEMMA Typed ==
  ASSUME NEW d, NEW s, NEW fin, Shape(d, s, fin)
  PROVE  /\ s \in RenderState /\ s.completed = FALSE
         /\ s.role \in BOOLEAN /\ s.block \in BOOLEAN /\ s.toolOpen \in BOOLEAN /\ s.started \in BOOLEAN
         /\ s.msgAdded \in BOOLEAN /\ s.toolId \in Nat /\ s.toolIx \in Nat
         /\ s.callId \in Seq([ix : Nat, id : Nat])
         /\ Role(s) \in Logs /\ Open(s) \in Logs /\ StopTool(s) \in Logs /\ Start(s) \in Logs
         /\ NextTool(s) \in Nat /\ s.out \in Logs
<1>1. s \in RenderState /\ s.completed = FALSE
  BY DEF Shape, RenderState
<1>2. /\ s.role \in BOOLEAN /\ s.block \in BOOLEAN /\ s.toolOpen \in BOOLEAN /\ s.started \in BOOLEAN
      /\ s.msgAdded \in BOOLEAN /\ s.toolId \in Nat /\ s.toolIx \in Nat
      /\ s.callId \in Seq([ix : Nat, id : Nat])
  BY <1>1 DEF RenderState
<1>. QED
  BY <1>1, <1>2, TypedPieces

\* Events that are neither items nor ends of any, and that only the renderer counts.
LEMMA Asides ==
  \A name \in {"thinking", "thinking_start", "finish", "usage"} :
    /\ Event(name) \in EventSet /\ Event(name).ev = name /\ <<Event(name)>> \in Logs
    /\ name \notin Openings /\ name \notin Endings
    /\ \A d, S, begun : name # "finish" => Fits(d, S, begun, Event(name))
<1>. SUFFICES ASSUME NEW name \in {"thinking", "thinking_start", "finish", "usage"}
              PROVE  /\ Event(name) \in EventSet /\ Event(name).ev = name /\ <<Event(name)>> \in Logs
                     /\ name \notin Openings /\ name \notin Endings
                     /\ \A d, S, begun : name # "finish" => Fits(d, S, begun, Event(name))
  OBVIOUS
<1>1. Event(name) \in EventSet /\ Event(name).ev = name
  BY EventTypes DEF Event, EventNames
<1>2. name \notin Openings /\ name \notin Endings
  BY DEF Openings, Endings
<1>3. \A d, S, begun : name # "finish" => Fits(d, S, begun, Event(name))
  BY <1>1, <1>2 DEF Fits
<1>. QED
  BY <1>1, <1>2, <1>3 DEF Logs

LEMMA LogAside ==
  ASSUME NEW d, NEW evs, NEW S, NEW begun \in BOOLEAN, Log(d, evs, S, begun),
         NEW name \in {"thinking", "thinking_start", "usage"}
  PROVE  /\ evs \o <<Event(name)>> \in Logs /\ Log(d, evs \o <<Event(name)>>, S, TRUE)
         /\ name = "usage" => Log(d, evs \o <<Event(name)>>, S, begun)
<1>. DEFINE e == Event(name)
<1>1. e.ev = name /\ Fits(d, S, begun, e)
  BY Asides
<1>. HIDE DEF e
<1>2. evs \o <<e>> \in Seq(EventSet) /\ Log(d, evs \o <<e>>, S, TRUE)
      /\ (e.ev = "usage" => Log(d, evs \o <<e>>, S, begun))
  BY <1>1, LogNeutral, Zenon
<1>. QED
  BY <1>1, <1>2, Zenon DEF e, Logs

\* An aside leaves what the OpenAI renderer knows of its role.
LEMMA RoleStays ==
  ASSUME NEW s \in RenderState, NEW r \in RenderState, r.role = s.role,
         IF s.role THEN \E i \in DOMAIN s.out : s.out[i].ev = "role" ELSE Mute(s.out),
         NEW e \in EventSet, e.ev # "text", r.out = s.out \o <<e>>
  PROVE  IF r.role THEN \E i \in DOMAIN r.out : r.out[i].ev = "role" ELSE Mute(r.out)
<1>. DEFINE m == Len(s.out)
<1>1. s.out \in Seq(EventSet)
  BY DEF RenderState
<1>2. /\ m \in Nat /\ DOMAIN s.out = 1..m /\ DOMAIN r.out = 1..m + 1 /\ r.out[m + 1] = e
      /\ (\A i \in 1..m : r.out[i] = s.out[i]) /\ 1..m + 1 = 1..m \cup {m + 1}
  BY <1>1
<1>. HIDE DEF m
<1>3. CASE s.role
  <2>1. PICK i \in 1..m : s.out[i].ev = "role"
    BY <1>2, <1>3
  <2>2. i \in DOMAIN r.out /\ r.out[i].ev = "role"
    BY <1>2, <2>1
  <2>. QED
    BY <1>3, <2>2, Zenon
<1>4. CASE ~s.role
  <2>1. \A i \in 1..m : s.out[i].ev # "text"
    BY <1>2, <1>4, Zenon DEF Mute
  <2>2. \A i \in 1..m + 1 : r.out[i].ev # "text"
    BY <1>2, <2>1
  <2>. QED
    BY <1>2, <1>4, <2>2 DEF Mute
<1>. QED
  BY <1>3, <1>4

LEMMA ShapeThinking ==
  ASSUME NEW d \in Dialects, NEW s, Shape(d, s, FALSE)
  PROVE  LET r == RenderStreamChunk(d, s, Thinking)
         IN Shape(d, r, FALSE) /\ r.toolId = s.toolId /\ r.block = s.block
<1>. DEFINE e == Event("thinking")
            say == <<e>>
            r == RenderStreamChunk(d, s, Thinking)
            Goal == Shape(d, r, FALSE) /\ r.toolId = s.toolId /\ r.block = s.block
<1>. SUFFICES Goal
  OBVIOUS
<1>0. /\ s \in RenderState /\ s.completed = FALSE
      /\ s.role \in BOOLEAN /\ s.block \in BOOLEAN /\ s.started \in BOOLEAN
      /\ Open(s) \in Logs /\ Start(s) \in Logs /\ s.out \in Logs
  BY Typed, Zenon
<1>1. Thinking.kind = "thinking"
  BY ChunkKinds
<1>2. e \in EventSet /\ e.ev = "thinking" /\ say \in Logs /\ <<>> \in Logs
      /\ <<Event("thinking_start")>> \in Logs /\ e.ev \notin Openings /\ e.ev \notin Endings
  BY Asides DEF Logs
<1>. HIDE DEF e, r
<1>3. CASE d = "openai"
  <2>1. r = Emit([s EXCEPT !.role = TRUE], Role(s) \o <<e>>)
    BY <1>1, <1>3 DEF r, RenderStreamChunk, OpenAI, e
  <2>. QED
    BY <1>2, <1>3, <2>1, OpenAISays, Zenon
<1>4. CASE d = "anthropic"
  <2>. DEFINE q == [s EXCEPT !.role = TRUE]
              a == s.out \o Open(s)
              evs == Open(s) \o say
  <2>1. r = Emit(q, evs)
    BY <1>1, <1>4 DEF r, RenderStreamChunk, Anthropic, e
  <2>2. q \in RenderState /\ q.out = s.out
    BY <1>0, Updates, Zenon
  <2>3. q.role = TRUE /\ q.block = s.block /\ q.toolOpen = s.toolOpen /\ q.toolIx = s.toolIx
        /\ q.toolId = s.toolId /\ q.completed = FALSE
    BY <1>0 DEF RenderState
  <2>4. evs \in Logs /\ s.out \o evs = a \o say
    <3>1. Regroups2(s.out, Open(s), say)
      BY <1>0, <1>2, Pieces2
    <3>. QED
      BY <3>1, Zenon DEF Regroups2
  <2>. HIDE DEF q, evs, a
  <2>5. r \in RenderState /\ r.out = a \o say /\ Alike(q, r)
    BY <2>1, <2>2, <2>4, EmitAlike, Zenon DEF Logs
  <2>6. /\ r.role = TRUE /\ r.block = s.block /\ r.toolOpen = s.toolOpen /\ r.toolIx = s.toolIx
        /\ r.toolId = s.toolId /\ r.completed = FALSE
    BY <2>3, <2>5 DEF Alike
  <2>. DEFINE S == Known(d, s, FALSE)
  <2>7. Known(d, r, FALSE) = S /\ Begun(d, r, FALSE) = TRUE /\ Begun(d, s, FALSE) = s.role
    BY <1>0, <1>4, <2>6 DEF Known, Begun
  <2>. HIDE DEF S
  <2>8. ASSUME ~(r.block /\ r.toolId # 0) PROVE Log(d, r.out, S, TRUE)
    <3>1. Log(d, s.out, S, s.role)
      BY <2>6, <2>7, <2>8, Zenon DEF Shape, S
    <3>2. Log(d, a, S, TRUE)
      BY <1>0, <3>1, LogBegins, Zenon DEF Openings, Open, a
    <3>. QED
      BY <2>5, <3>2, LogAside, Zenon DEF e
  <2>. QED
    BY <1>4, <2>5, <2>6, <2>7, <2>8, Zenon DEF Shape
<1>5. CASE d = "responses"
  <2>. DEFINE q == [s EXCEPT !.started = TRUE, !.reasoning = TRUE]
              start == IF s.reasoning THEN <<>> ELSE <<Event("thinking_start")>>
              a == s.out \o Start(s)
              evs == Start(s) \o start \o say
  <2>1. r = Emit(q, evs)
    BY <1>1, <1>5 DEF r, RenderStreamChunk, Responses, ResponsesThinking, e
  <2>2. q \in RenderState /\ q.out = s.out
    BY <1>0, Updates, Zenon
  <2>3. q.started = TRUE /\ q.msgAdded = s.msgAdded /\ q.callId = s.callId /\ q.toolId = s.toolId
        /\ q.block = s.block /\ q.completed = FALSE
    BY <1>0 DEF RenderState
  <2>4. start \in Logs
    BY <1>2
  <2>. HIDE DEF start
  <2>5. evs \in Logs /\ s.out \o evs = (a \o start) \o say
    <3>1. Regroups3(s.out, Start(s), start, say)
      BY <1>0, <1>2, <2>4, Pieces3
    <3>. QED
      BY <3>1, Zenon DEF Regroups3
  <2>. HIDE DEF q, evs, a
  <2>6. r \in RenderState /\ r.out = s.out \o evs /\ Alike(q, r)
    BY <2>1, <2>2, <2>5, EmitAlike, Zenon DEF Logs
  <2>7. r.started = TRUE /\ r.msgAdded = s.msgAdded /\ r.callId = s.callId /\ r.toolId = s.toolId
        /\ r.block = s.block /\ r.completed = FALSE
    BY <2>3, <2>6 DEF Alike
  <2>. DEFINE S == Known(d, s, FALSE)
  <2>8. Known(d, r, FALSE) = S /\ Begun(d, r, FALSE) = TRUE /\ Begun(d, s, FALSE) = s.started
    BY <1>5, <2>7 DEF Known, Begun
  <2>. HIDE DEF S
  <2>9. Log(d, s.out, S, s.started)
    BY <1>5, <2>8, Zenon DEF Shape, S
  <2>10. Log(d, a, S, TRUE)
    BY <1>0, <2>9, LogBegins, Zenon DEF Openings, Start, a
  <2>11. Log(d, a \o start, S, TRUE)
    <3>1. CASE s.reasoning
      <4>1. start = <<>> /\ a \o <<>> = a
        BY <2>10, <3>1 DEF start, Log, Sans
      <4>. QED
        BY <2>10, <4>1, Zenon
    <3>2. CASE ~s.reasoning
      BY <2>10, <3>2, LogAside, Zenon DEF start
    <3>. QED
      BY <3>1, <3>2, Zenon
  <2>12. Log(d, (a \o start) \o say, S, TRUE)
    BY <2>11, LogAside, Zenon DEF e
  <2>. QED
    BY <1>5, <2>5, <2>6, <2>7, <2>8, <2>12, Zenon DEF Shape
<1>6. CASE d = "ollama"
  <2>1. r = Emit(s, say)
    BY <1>1, <1>6 DEF r, RenderStreamChunk, Ollama, e
  <2>2. r \in RenderState /\ r.out = s.out \o say /\ Alike(s, r)
    BY <1>0, <1>2, <2>1, EmitAlike, Zenon DEF Logs
  <2>3. Log(d, s.out, {}, TRUE)
    BY <1>6, Zenon DEF Shape, Known, Begun
  <2>4. Log(d, s.out \o say, {}, TRUE)
    BY <2>3, LogAside, Zenon DEF e
  <2>5. Known(d, r, FALSE) = {} /\ Begun(d, r, FALSE) = TRUE
    BY <1>6 DEF Known, Begun
  <2>. QED
    BY <1>0, <1>6, <2>2, <2>4, <2>5, Zenon DEF Shape, Alike
<1>7. CASE d = "gemini"
  <2>1. r = s
    BY <1>1, <1>7 DEF r, RenderStreamChunk, Gemini
  <2>. QED
    BY <2>1, Zenon
<1>. QED
  BY <1>3, <1>4, <1>5, <1>6, <1>7, Zenon DEF Dialects

\* Usage is told in passing, or not at all; it completes a response.
LEMMA ShapeUsage ==
  ASSUME NEW d \in Dialects, d # "responses", NEW fin \in BOOLEAN, NEW s, Shape(d, s, fin)
  PROVE  LET r == RenderStreamChunk(d, s, Usage)
         IN Shape(d, r, fin) /\ r.toolId = s.toolId /\ r.block = s.block
<1>. DEFINE e == Event("usage")
            say == <<e>>
            r == RenderStreamChunk(d, s, Usage)
            Goal == Shape(d, r, fin) /\ r.toolId = s.toolId /\ r.block = s.block
<1>. SUFFICES Goal
  OBVIOUS
<1>0. s \in RenderState /\ s.completed = FALSE
  BY Typed, Zenon
<1>1. Usage.kind = "usage"
  BY ChunkKinds
<1>2. e \in EventSet /\ e.ev = "usage" /\ say \in Logs
  BY Asides
<1>. HIDE DEF e, r
<1>3. CASE d \in {"openai", "gemini"}
  <2>1. r = Emit(s, say)
    BY <1>1, <1>3 DEF r, RenderStreamChunk, OpenAI, Gemini, e
  <2>2. r \in RenderState /\ r.out = s.out \o say /\ Alike(s, r)
    BY <1>0, <1>2, <2>1, EmitAlike, Zenon DEF Logs
  <2>3. Known(d, r, fin) = {} /\ Known(d, s, fin) = {} /\ Begun(d, r, fin) = Begun(d, s, fin)
        /\ Begun(d, s, fin) \in BOOLEAN
    <3>1. r.role = s.role /\ s.role \in BOOLEAN
      BY <2>2, Typed, Zenon DEF Alike
    <3>. QED
      BY <1>3, <3>1, Zenon DEF Known, Begun
  <2>4. Log(d, s.out, {}, Begun(d, s, fin))
    BY <1>3, <2>3 DEF Shape
  <2>5. Log(d, s.out \o say, {}, Begun(d, s, fin))
    BY <2>3, <2>4, LogAside, Zenon DEF e
  <2>6. d = "openai" => IF r.role THEN \E i \in DOMAIN r.out : r.out[i].ev = "role" ELSE Mute(r.out)
    BY <1>0, <1>2, <2>2, RoleStays, Zenon DEF Shape, Alike
  <2>. QED
    BY <1>0, <1>3, <2>2, <2>3, <2>5, <2>6, Zenon DEF Shape, Alike
<1>4. CASE d \in {"anthropic", "ollama"}
  <2>1. r = s
    BY <1>1, <1>4 DEF r, RenderStreamChunk, Anthropic, Ollama
  <2>. QED
    BY <2>1
<1>. QED
  BY <1>3, <1>4 DEF Dialects

LEMMA UsageCompletes ==
  ASSUME NEW s, Shape("responses", s, TRUE)
  PROVE  LET r == RenderStreamChunk("responses", s, Usage)
         IN /\ r \in RenderState /\ r.completed /\ r.started /\ r.toolId = s.toolId /\ r.block = s.block
            /\ \E evs \in Seq(EventSet) :
                 r.out = evs \o <<Event("completed")>> /\ Log("responses", evs, {}, TRUE)
<1>. DEFINE d == "responses"
            q == [s EXCEPT !.started = TRUE]
            t == Emit(q, Start(s))
            p == [t EXCEPT !.completed = TRUE]
            last == <<Event("completed")>>
            r == RenderStreamChunk(d, s, Usage)
            evs == s.out \o Start(s)
<1>0. s \in RenderState /\ s.completed = FALSE /\ s.started \in BOOLEAN /\ Start(s) \in Logs
  BY Typed, Zenon
<1>1. Usage.kind = "usage"
  BY ChunkKinds
<1>2. r = Complete(t)
  BY <1>1 DEF RenderStreamChunk, Responses
<1>3. q \in RenderState /\ q.out = s.out
  BY <1>0, Updates, Zenon
<1>4. q.started = TRUE /\ q.completed = FALSE /\ q.toolId = s.toolId /\ q.block = s.block
  BY <1>0 DEF RenderState
<1>5. last \in Logs
  BY EventTypes DEF EventNames, Logs
<1>6. Log(d, s.out, {}, s.started)
  BY DEF Shape, Known, Begun
<1>7. evs \in Seq(EventSet) /\ Log(d, evs, {}, TRUE)
  BY <1>0, <1>6, LogBegins, Zenon DEF Openings, Start
<1>. HIDE DEF q, r
<1>8. t \in RenderState /\ t.out = evs /\ Alike(q, t)
  BY <1>0, <1>3, EmitAlike, Zenon DEF Logs
<1>. HIDE DEF t, evs
<1>9. t.completed = FALSE /\ t.started = TRUE /\ t.toolId = s.toolId /\ t.block = s.block
  BY <1>4, <1>8 DEF Alike
<1>10. r = Emit(p, last)
  BY <1>2, <1>9 DEF Complete
<1>11. p \in RenderState /\ p.out = t.out
  BY <1>8, Updates, Zenon
<1>12. p.completed = TRUE /\ p.started = TRUE /\ p.toolId = s.toolId /\ p.block = s.block
  BY <1>8, <1>9 DEF RenderState
<1>. HIDE DEF p, last
<1>13. r \in RenderState /\ r.out = evs \o last /\ Alike(p, r)
  BY <1>5, <1>8, <1>10, <1>11, EmitAlike, Zenon DEF Logs
<1>14. r.completed /\ r.started /\ r.toolId = s.toolId /\ r.block = s.block
  BY <1>12, <1>13 DEF Alike
<1>. QED
  BY <1>7, <1>13, <1>14, Zenon DEF r, last

\* The finish closes what is open.
LEMMA ShapeFinish ==
  ASSUME NEW d \in Dialects, NEW s, Shape(d, s, FALSE)
  PROVE  LET r == RenderStreamChunk(d, s, Finish)
         IN Shape(d, r, TRUE) /\ r.toolId = s.toolId /\ r.block = s.block
<1>. DEFINE e == Event("finish")
            say == <<e>>
            r == RenderStreamChunk(d, s, Finish)
            Goal == Shape(d, r, TRUE) /\ r.toolId = s.toolId /\ r.block = s.block
<1>. SUFFICES Goal
  OBVIOUS
<1>0. /\ s \in RenderState /\ s.completed = FALSE
      /\ s.role \in BOOLEAN /\ s.block \in BOOLEAN /\ s.toolOpen \in BOOLEAN /\ s.started \in BOOLEAN
      /\ s.msgAdded \in BOOLEAN /\ s.toolId \in Nat /\ s.toolIx \in Nat
      /\ s.callId \in Seq([ix : Nat, id : Nat]) /\ StopTool(s) \in Logs /\ s.out \in Logs
  BY Typed, Zenon
<1>1. Finish.kind = "finish"
  BY ChunkKinds
<1>2. e \in EventSet /\ e.ev = "finish" /\ say \in Logs /\ <<>> \in Logs
      /\ e.ev \notin Openings /\ e.ev \notin Endings
  BY Asides DEF Logs
<1>3. \A ix \in Nat : /\ AtIx("block_stop", ix) \in EventSet /\ AtIx("block_stop", ix).ev = "block_stop"
                      /\ AtIx("block_stop", ix).ix = ix /\ <<AtIx("block_stop", ix)>> \in Logs
  <2>. SUFFICES ASSUME NEW ix \in Nat
                PROVE  /\ AtIx("block_stop", ix) \in EventSet /\ AtIx("block_stop", ix).ev = "block_stop"
                       /\ AtIx("block_stop", ix).ix = ix /\ <<AtIx("block_stop", ix)>> \in Logs
    OBVIOUS
  <2>1. AtIx("block_stop", ix) \in EventSet /\ AtIx("block_stop", ix).ev = "block_stop"
        /\ AtIx("block_stop", ix).ix = ix
    BY EventTypes, Zenon DEF AtIx, Event, EventNames
  <2>. QED
    BY <2>1 DEF Logs
<1>8. AtIx("block_stop", 0).ev = "block_stop" /\ AtIx("block_stop", 0).ix = 0
  BY DEF AtIx, Event
<1>. HIDE DEF e, r, say
<1>4. CASE d \in {"openai", "gemini"}
  <2>1. r = Emit(s, say)
    BY <1>1, <1>4 DEF r, RenderStreamChunk, OpenAI, Gemini, e, say
  <2>2. r \in RenderState /\ r.out = s.out \o say /\ Alike(s, r)
    BY <1>0, <1>2, <2>1, EmitAlike, Zenon DEF Logs
  <2>3. Begun(d, s, FALSE) \in BOOLEAN /\ Log(d, s.out, {}, Begun(d, s, FALSE))
    BY <1>0, <1>4, Zenon DEF Shape, Known, Begun
  <2>4. Log(d, s.out \o say, {}, TRUE)
    BY <1>2, <1>4, <2>3, LogPlain, Zenon DEF Itemized, say
  <2>5. Known(d, r, TRUE) = {} /\ Begun(d, r, TRUE) = TRUE
    BY <1>4 DEF Known, Begun
  <2>6. d = "openai" => IF r.role THEN \E i \in DOMAIN r.out : r.out[i].ev = "role" ELSE Mute(r.out)
    BY <1>0, <1>2, <2>2, RoleStays, Zenon DEF Shape, Alike, say
  <2>. QED
    BY <1>0, <1>4, <2>2, <2>4, <2>5, <2>6, Zenon DEF Shape, Alike
<1>5. CASE d = "anthropic"
  <2>. DEFINE q == [s EXCEPT !.toolOpen = FALSE]
              stop == StopTool(s)
              block == IF s.block THEN <<AtIx("block_stop", 0)>> ELSE <<>>
              stops == stop \o block
              evs == stops \o say
              a == s.out \o stops
  <2>1. r = Emit(q, evs)
    BY <1>1, <1>5 DEF r, RenderStreamChunk, Anthropic, AnthropicFinish, e, say
  <2>2. q \in RenderState /\ q.out = s.out
    BY <1>0, Updates, Zenon
  <2>3. q.role = s.role /\ q.block = s.block /\ q.toolOpen = FALSE /\ q.toolId = s.toolId /\ q.completed = FALSE
    BY <1>0 DEF RenderState
  <2>4. stop \in Logs /\ block \in Logs
    BY <1>0, <1>2, <1>3
  <2>5. stops \in Logs /\ (block = <<>> => stops = stop) /\ (stop = <<>> => stops = block)
    <3>1. \A x, y \in Logs : x \o y \in Logs /\ x \o <<>> = x /\ <<>> \o y = y
      BY DEF Logs
    <3>. HIDE DEF stop, block
    <3>. QED
      BY <2>4, <3>1, Zenon
  <2>6. evs \in Logs /\ s.out \o evs = a \o say
    <3>. HIDE DEF stops
    <3>1. Regroups2(s.out, stops, say)
      BY <1>0, <1>2, <2>5, Pieces2
    <3>. QED
      BY <3>1, Zenon DEF Regroups2
  <2>7. s.toolOpen => s.toolId # 0
    BY <1>5 DEF Shape
  <2>8. ASSUME ~(s.block /\ s.toolId # 0) PROVE Log(d, a, {}, TRUE)
    <3>. DEFINE S == Known(d, s, FALSE)
                Left == {o \in S : \A k \in DOMAIN stops : ~Shuts(d, stops[k], o)}
    <3>1. S = (IF s.block THEN {TextItem} ELSE {})
              \cup (IF s.toolOpen THEN {CallItem(s.toolIx, s.toolId)} ELSE {})
      BY <1>5 DEF Known
    <3>. HIDE DEF S
    <3>2. Log(d, s.out, S, TRUE)
      BY <1>5, <2>8, Zenon DEF Shape, S, Log
    <3>3. CASE s.toolOpen
      <4>1. stops = <<AtIx("block_stop", s.toolIx)>> /\ S = {CallItem(s.toolIx, s.toolId)}
        BY <2>5, <2>7, <2>8, <3>1, <3>3, Zenon DEF StopTool
      <4>2. Shuts(d, AtIx("block_stop", s.toolIx), CallItem(s.toolIx, s.toolId))
        BY <1>0, <1>3, <1>5, ItemForms, Zenon DEF Shuts
      <4>. HIDE DEF stops
      <4>3. \A k \in DOMAIN stops : stops[k] = AtIx("block_stop", s.toolIx)
        BY <4>1
      <4>4. 1 \in DOMAIN stops
        BY <4>1
      <4>5. Left = {}
        BY <4>1, <4>2, <4>3, <4>4
      <4>6. \A k \in DOMAIN stops : stops[k].ev \in {"block_stop", "call_stop"}
        BY <1>0, <1>3, <4>3, Zenon
      <4>7. Log(d, a, Left, TRUE)
        BY <2>5, <3>2, <4>6, LogStops, Zenon DEF Logs
      <4>. QED
        BY <4>5, <4>7, Zenon
    <3>4. CASE ~s.toolOpen /\ s.block
      <4>1. stops = <<AtIx("block_stop", 0)>> /\ S = {TextItem}
        BY <2>5, <3>1, <3>4 DEF StopTool
      <4>2. Shuts(d, AtIx("block_stop", 0), TextItem)
        BY <1>5, <1>8, ItemForms DEF Shuts
      <4>. HIDE DEF stops
      <4>3. \A k \in DOMAIN stops : stops[k] = AtIx("block_stop", 0)
        BY <4>1
      <4>4. 1 \in DOMAIN stops
        BY <4>1
      <4>5. Left = {}
        BY <4>1, <4>2, <4>3, <4>4
      <4>6. \A k \in DOMAIN stops : stops[k].ev \in {"block_stop", "call_stop"}
        BY <1>3, <4>3, Zenon
      <4>7. Log(d, a, Left, TRUE)
        BY <2>5, <3>2, <4>6, LogStops, Zenon DEF Logs
      <4>. QED
        BY <4>5, <4>7, Zenon
    <3>5. CASE ~s.toolOpen /\ ~s.block
      <4>1. stops = <<>> /\ S = {}
        BY <2>5, <3>1, <3>5 DEF StopTool
      <4>2. s.out \o <<>> = s.out
        BY <1>0 DEF Logs
      <4>. QED
        BY <3>2, <4>1, <4>2, Zenon
    <3>. QED
      BY <1>0, <3>3, <3>4, <3>5, Zenon
  <2>. HIDE DEF q, evs, a, stops
  <2>9. r \in RenderState /\ r.out = a \o say /\ Alike(q, r)
    BY <2>1, <2>2, <2>6, EmitAlike, Zenon DEF Logs
  <2>10. r.block = s.block /\ r.toolOpen = FALSE /\ r.toolId = s.toolId /\ r.completed = FALSE
    BY <2>3, <2>9 DEF Alike
  <2>11. ASSUME ~(r.block /\ r.toolId # 0) PROVE Log(d, r.out, {}, TRUE)
    <3>1. Log(d, a, {}, TRUE)
      BY <2>8, <2>10, <2>11, Zenon
    <3>2. Fits(d, {}, TRUE, e)
      BY <1>2 DEF Fits
    <3>3. e.ev \notin {"text_start", "call", "block_stop", "call_stop"}
      BY <1>2
    <3>4. Log(d, a \o <<e>>, {}, TRUE)
      BY <3>1, <3>2, <3>3, LogNeutral, Zenon
    <3>. QED
      BY <2>9, <3>4, Zenon DEF say
  <2>12. Known(d, r, TRUE) = {} /\ Begun(d, r, TRUE) = TRUE
    BY <1>5 DEF Known, Begun
  <2>. QED
    BY <1>5, <2>9, <2>10, <2>11, <2>12, Zenon DEF Shape
<1>6. CASE d = "responses"
  <2>. DEFINE block == IF s.msgAdded THEN <<AtIx("block_stop", 0)>> ELSE <<>>
              Done(i) == [AtIx("call_stop", s.callId[i].ix) EXCEPT !.id = s.callId[i].id]
              done == [i \in DOMAIN s.callId |-> Done(i)]
              C == {CallItem(s.callId[i].ix, s.callId[i].id) : i \in DOMAIN s.callId}
              S == (IF s.msgAdded THEN {TextItem} ELSE {}) \cup C
              evs == block \o done
              a == s.out \o block
  <2>1. r = Emit(s, evs)
    BY <1>1, <1>6 DEF r, RenderStreamChunk, Responses, ResponsesFinish
  <2>2. \A i \in DOMAIN s.callId : s.callId[i].ix \in Nat /\ s.callId[i].id \in Nat
    <3>1. \A i \in DOMAIN s.callId : s.callId[i] \in [ix : Nat, id : Nat]
      BY <1>0, ElementOf, Zenon
    <3>. QED
      BY <3>1
  <2>3. \A i \in DOMAIN s.callId : Done(i) \in EventSet /\ Done(i).ev = "call_stop" /\ Done(i).id = s.callId[i].id
    <3>1. \A ix \in Nat, id \in Nat :
            /\ [AtIx("call_stop", ix) EXCEPT !.id = id] \in EventSet
            /\ [AtIx("call_stop", ix) EXCEPT !.id = id].ev = "call_stop"
            /\ [AtIx("call_stop", ix) EXCEPT !.id = id].id = id
      <4>. SUFFICES ASSUME NEW ix \in Nat, NEW id \in Nat
                    PROVE  /\ [AtIx("call_stop", ix) EXCEPT !.id = id] \in EventSet
                           /\ [AtIx("call_stop", ix) EXCEPT !.id = id].ev = "call_stop"
                           /\ [AtIx("call_stop", ix) EXCEPT !.id = id].id = id
        OBVIOUS
      <4>. DEFINE x == AtIx("call_stop", ix)
      <4>1. x \in EventSet /\ x.ev = "call_stop"
        BY EventTypes, Zenon DEF AtIx, Event, EventNames
      <4>. HIDE DEF x
      <4>2. [x EXCEPT !.id = id] \in EventSet /\ [x EXCEPT !.id = id].ev = "call_stop"
            /\ [x EXCEPT !.id = id].id = id
        BY <4>1 DEF EventSet
      <4>. QED
        BY <4>2 DEF x
    <3>. QED
      BY <2>2, <3>1
  <2>. HIDE DEF Done
  <2>4. block \in Logs /\ done \in Logs /\ DOMAIN done = DOMAIN s.callId
    <3>1. DOMAIN s.callId = 1..Len(s.callId) /\ Len(s.callId) \in Nat
      BY <1>0
    <3>2. done \in Seq(EventSet)
      BY <2>3, <3>1
    <3>. QED
      BY <1>2, <1>3, <3>2 DEF Logs
  <2>5. \A i \in DOMAIN s.callId : done[i] = Done(i)
    OBVIOUS
  <2>. HIDE DEF done
  <2>6. evs \in Logs /\ s.out \o evs = a \o done
    <3>1. Regroups2(s.out, block, done)
      BY <1>0, <2>4, Pieces2
    <3>. QED
      BY <3>1, Zenon DEF Regroups2
  <2>. HIDE DEF evs, a, block
  <2>7. r \in RenderState /\ r.out = a \o done /\ Alike(s, r)
    BY <1>0, <2>1, <2>6, EmitAlike, Zenon DEF Logs
  <2>8. Log(d, s.out, S, s.started) /\ (s.msgAdded \/ s.callId # <<>> => s.started)
    BY <1>6 DEF Shape, Known, Begun
  <2>9. ASSUME s.started PROVE Log(d, r.out, {}, s.started)
    <3>1. \A k \in DOMAIN block : block[k].ev \in {"block_stop", "call_stop"}
      BY <1>3 DEF block
    <3>. DEFINE S1 == {o \in S : \A k \in DOMAIN block : ~Shuts(d, block[k], o)}
                S2 == {o \in S1 : \A k \in DOMAIN done : ~Shuts(d, done[k], o)}
    <3>2. Log(d, a, S1, TRUE)
      BY <2>4, <2>8, <2>9, <3>1, LogStops, Zenon DEF Logs, a
    <3>3. \A k \in DOMAIN done : done[k].ev \in {"block_stop", "call_stop"}
      BY <2>3, <2>4, <2>5
    <3>4. S2 = {}
      <4>. SUFFICES ASSUME NEW o \in S2 PROVE FALSE
        OBVIOUS
      <4>0. o \in S /\ (\A k \in DOMAIN block : ~Shuts(d, block[k], o)) /\ \A k \in DOMAIN done : ~Shuts(d, done[k], o)
        OBVIOUS
      <4>1. CASE s.msgAdded /\ o = TextItem
        <5>1. 1 \in DOMAIN block /\ block[1] = AtIx("block_stop", 0)
          BY <4>1 DEF block
        <5>2. Shuts(d, AtIx("block_stop", 0), TextItem)
          BY <1>6, <1>8, ItemForms DEF Shuts
        <5>. QED
          BY <4>0, <4>1, <5>1, <5>2
      <4>2. CASE o \in C
        <5>1. PICK i \in DOMAIN s.callId : o = CallItem(s.callId[i].ix, s.callId[i].id)
          BY <4>2
        <5>2. o.ev = "call" /\ o.id = s.callId[i].id
          BY <2>2, <5>1, ItemForms
        <5>3. Shuts(d, Done(i), o)
          BY <2>3, <5>2 DEF Shuts
        <5>. QED
          BY <2>4, <2>5, <4>0, <5>3
      <4>. QED
        BY <4>0, <4>1, <4>2
    <3>. HIDE DEF S1
    <3>5. Log(d, a \o done, S2, TRUE)
      BY <2>4, <3>2, <3>3, LogStops, Zenon DEF Logs
    <3>6. Log(d, r.out, {}, s.started)
      <4>1. s.started = TRUE
        BY <1>0, <2>9
      <4>. HIDE DEF S2
      <4>. QED
        BY <2>7, <3>4, <3>5, <4>1, Zenon
    <3>. QED
      BY <3>6
  <2>10. ASSUME ~s.started PROVE Log(d, r.out, {}, s.started)
    <3>1. ~s.msgAdded /\ s.callId = <<>>
      BY <2>8, <2>10
    <3>2. block = <<>> /\ done = <<>> /\ S = {}
      BY <2>4, <3>1 DEF block, done
    <3>3. s.out \o <<>> = s.out
      BY <1>0 DEF Logs
    <3>4. r.out = s.out
      BY <2>7, <3>2, <3>3 DEF a
    <3>. QED
      BY <2>8, <3>2, <3>4, Zenon
  <2>11. Log(d, r.out, {}, s.started)
    <3>. HIDE DEF S, C
    <3>1. CASE s.started
      BY <2>9, <3>1, Zenon
    <3>2. CASE ~s.started
      BY <2>10, <3>2
    <3>. QED
      BY <3>1, <3>2
  <2>12. Known(d, r, TRUE) = {} /\ Begun(d, r, TRUE) = s.started
    BY <1>6, <2>7 DEF Known, Begun, Alike
  <2>. QED
    BY <1>0, <1>6, <2>7, <2>8, <2>11, <2>12, Zenon DEF Shape, Alike
<1>7. CASE d = "ollama"
  <2>1. r = s
    BY <1>1, <1>7 DEF r, RenderStreamChunk, Ollama
  <2>2. Known(d, s, TRUE) = Known(d, s, FALSE) /\ Begun(d, s, TRUE) = Begun(d, s, FALSE)
    BY <1>7 DEF Known, Begun
  <2>. QED
    BY <1>7, <2>1, <2>2, Zenon DEF Shape
<1>. QED
  BY <1>4, <1>5, <1>6, <1>7, Zenon DEF Dialects

\* A call opens an item of its own.
LEMMA CallOpens ==
  ASSUME NEW d, NEW evs, NEW S, Log(d, evs, S, TRUE), NEW ix \in Nat, NEW id \in Nat
  PROVE  /\ <<CallItem(ix, id)>> \in Logs /\ evs \o <<CallItem(ix, id)>> \in Logs
         /\ Log(d, evs \o <<CallItem(ix, id)>>, S \cup {CallItem(ix, id)}, TRUE)
<1>. DEFINE e == CallItem(ix, id)
<1>1. e \in EventSet /\ e.ev = "call" /\ Opens(e)
  BY ItemForms
<1>. HIDE DEF e
<1>2. Fits(d, S, TRUE, e)
  BY <1>1 DEF Fits, Endings, Openings
<1>3. After1(d, S, e) = S \cup {e}
  BY <1>1 DEF After1, Shuts
<1>4. evs \o <<e>> \in Seq(EventSet) /\ Log(d, evs \o <<e>>, S \cup {e}, TRUE)
  BY <1>2, <1>3, LogAdds, Zenon
<1>5. <<e>> \in Logs
  BY <1>1 DEF Logs
<1>. QED
  BY <1>4, <1>5, Zenon DEF e, Logs

\* Arguments, if there are any, go into an item that is open.
LEMMA ArgsFit ==
  ASSUME NEW d, NEW evs, NEW S, Log(d, evs, S, TRUE), NEW there \in BOOLEAN,
         NEW ix \in Nat, NEW id \in Nat, NEW data \in Args,
         there => \E o \in S : o.ev = "call" /\ Named(d, o) = IF d = "responses" THEN id ELSE ix
  PROVE  LET piece == IF there THEN <<[ev |-> "args", ix |-> ix, id |-> id, data |-> data]>> ELSE <<>>
         IN piece \in Logs /\ evs \o piece \in Logs /\ Log(d, evs \o piece, S, TRUE)
<1>. DEFINE e == [ev |-> "args", ix |-> ix, id |-> id, data |-> data]
            piece == IF there THEN <<e>> ELSE <<>>
<1>1. e \in EventSet /\ e.ev = "args" /\ e.ix = ix /\ e.id = id
  BY DataSets DEF EventSet, EventNames
<1>2. evs \in Seq(EventSet)
  BY DEF Log, Sans
<1>. HIDE DEF e
<1>3. CASE there
  <2>1. PICK o \in S : o.ev = "call" /\ Named(d, o) = IF d = "responses" THEN id ELSE ix
    BY <1>3
  <2>2. Inside(d, e, o)
    BY <1>1, <2>1 DEF Inside, Named
  <2>3. Fits(d, S, TRUE, e)
    BY <1>1, <2>2 DEF Fits, Endings, Openings
  <2>4. evs \o <<e>> \in Seq(EventSet) /\ Log(d, evs \o <<e>>, S, TRUE)
    BY <1>1, <2>3, LogNeutral, Zenon
  <2>5. <<e>> \in Logs
    BY <1>1 DEF Logs
  <2>. QED
    BY <1>3, <2>4, <2>5, Zenon DEF Logs, e
<1>4. CASE ~there
  <2>1. piece = <<>> /\ evs \o <<>> = evs /\ <<>> \in Logs
    BY <1>2, <1>4 DEF Logs
  <2>. HIDE DEF piece
  <2>2. piece \in Logs /\ evs \o piece \in Logs /\ Log(d, evs \o piece, S, TRUE)
    BY <1>2, <2>1, Zenon DEF Logs
  <2>. QED
    BY <2>2, Zenon DEF piece, e
<1>. QED
  BY <1>3, <1>4, Zenon

\* A call that comes out of the sanitizer is told in an item of its own, unless the
\* client has an item for its index or its id.
LEMMA ShapeTool ==
  ASSUME NEW d \in Dialects, NEW s, Shape(d, s, FALSE), NEW c \in CallSet, c.id # 0
  PROVE  LET r == RenderStreamChunk(d, s, Tool(c.ix, c.id, c.args))
         IN Shape(d, r, FALSE) /\ r.block = s.block
<1>. DEFINE ch == Tool(c.ix, c.id, c.args)
            r == RenderStreamChunk(d, s, ch)
            Goal == Shape(d, r, FALSE) /\ r.block = s.block
<1>. SUFFICES Goal
  OBVIOUS
<1>0. /\ s \in RenderState /\ s.completed = FALSE
      /\ s.role \in BOOLEAN /\ s.block \in BOOLEAN /\ s.toolOpen \in BOOLEAN /\ s.started \in BOOLEAN
      /\ s.msgAdded \in BOOLEAN /\ s.toolId \in Nat /\ s.toolIx \in Nat
      /\ s.callId \in Seq([ix : Nat, id : Nat])
      /\ Open(s) \in Logs /\ StopTool(s) \in Logs /\ Start(s) \in Logs /\ NextTool(s) \in Nat /\ s.out \in Logs
  BY Typed, Zenon
<1>1. ch.kind = "tool" /\ ch.ix = c.ix /\ ch.id = c.id /\ ch.args = c.args
  BY ChunkKinds
<1>2. c.ix \in Nat /\ c.id \in Nat /\ c.args \in Args /\ Len(s.out) \in Nat /\ <<>> \in Logs
  BY <1>0 DEF CallSet, Logs
<1>3. \A ix \in Nat : LET e == [ev |-> "call", ix |-> ix, id |-> c.id, data |-> c.args]
                      IN e \in EventSet /\ e.ev = "call" /\ e.ev \notin Openings /\ e.ev \notin Endings
  BY <1>2, DataSets DEF EventSet, EventNames, Openings, Endings
<1>. HIDE DEF ch, r
<1>4. CASE d = "openai"
  <2>. DEFINE e == [ev |-> "call", ix |-> c.ix, id |-> c.id, data |-> c.args]
  <2>1. r = Emit([s EXCEPT !.role = TRUE], Role(s) \o <<e>>)
    BY <1>1, <1>4 DEF r, RenderStreamChunk, OpenAI
  <2>2. e \in EventSet /\ e.ev \notin Openings /\ e.ev \notin Endings
    BY <1>2, <1>3
  <2>. HIDE DEF e
  <2>. QED
    BY <1>4, <2>1, <2>2, OpenAISays, Zenon
<1>5. CASE d = "anthropic"
  <2>. DEFINE opens == c.id # s.toolId
              ix == IF opens THEN NextTool(s) ELSE s.toolIx
              toolOpen == s.toolOpen \/ opens
              q == [s EXCEPT !.role = TRUE, !.toolIx = ix, !.toolOpen = toolOpen, !.toolId = c.id]
              stop == StopTool(s)
              call == <<CallItem(ix, c.id)>>
              opening == IF opens THEN stop \o call ELSE <<>>
              there == toolOpen /\ c.args # <<>>
              args == IF there THEN <<[ev |-> "args", ix |-> ix, id |-> 0, data |-> c.args]>> ELSE <<>>
              evs == (Open(s) \o opening) \o args
              a == s.out \o Open(s)
  <2>1. r = Emit(q, evs)
    <3>1. call = <<[AtIx("call", ix) EXCEPT !.id = c.id]>>
      BY DEF CallItem
    <3>2. args = IF (s.toolOpen \/ opens) /\ c.args # <<>>
                 THEN <<[AtIx("args", ix) EXCEPT !.data = c.args]>> ELSE <<>>
      BY EventForms
    <3>3. q = [s EXCEPT !.role = TRUE, !.toolIx = ix, !.toolOpen = @ \/ opens,
                        !.toolId = IF opens THEN c.id ELSE @]
      OBVIOUS
    <3>4. r = AnthropicTool(s, ch)
      BY <1>1, <1>5 DEF r, RenderStreamChunk, Anthropic
    <3>5. opens <=> c.id # 0 /\ c.id # s.toolId
      OBVIOUS
    <3>. HIDE DEF call, args, q
    <3>. QED
      BY <1>1, <3>1, <3>2, <3>3, <3>4, <3>5, Zenon DEF AnthropicTool
  <2>2. ix \in Nat /\ toolOpen \in BOOLEAN /\ opens \in BOOLEAN /\ there \in BOOLEAN
    BY <1>0
  <2>3. opens => toolOpen
    OBVIOUS
  <2>4. ~opens => ix = s.toolIx /\ toolOpen = s.toolOpen /\ c.id = s.toolId
    BY <1>0
  <2>. HIDE DEF ix, toolOpen, opens
  <2>5. q \in RenderState /\ q.out = s.out
    <3>1. q \in RenderState
      BY <1>0, <1>2, <2>2, Zenon DEF RenderState
    <3>2. q.out = s.out
      BY <1>0 DEF RenderState
    <3>. QED
      BY <3>1, <3>2
  <2>6. q.role = TRUE /\ q.toolIx = ix /\ q.toolOpen = toolOpen /\ q.toolId = c.id
    BY <1>0 DEF RenderState
  <2>7. q.block = s.block /\ q.completed = FALSE
    BY <1>0 DEF RenderState
  <2>. HIDE DEF q, there
  <2>8. call \in Logs /\ stop \in Logs /\ args \in Logs
    <3>1. CallItem(ix, c.id) \in EventSet
      BY <1>2, <2>2, ItemForms
    <3>2. [ev |-> "args", ix |-> ix, id |-> 0, data |-> c.args] \in EventSet
      BY <1>2, <2>2, DataSets DEF EventSet, EventNames
    <3>. QED
      BY <1>0, <1>2, <3>1, <3>2 DEF Logs
  <2>. HIDE DEF call, stop, args
  <2>9. opening \in Logs /\ (opens => a \o opening = (a \o stop) \o call)
    <3>1. a \in Logs
      BY <1>0 DEF Logs
    <3>. HIDE DEF a
    <3>2. Regroups2(a, stop, call)
      BY <2>8, <3>1, Pieces2
    <3>3. stop \o call \in Logs /\ a \o (stop \o call) = (a \o stop) \o call
      BY <3>2, Zenon DEF Regroups2
    <3>. QED
      BY <1>2, <3>3, Zenon
  <2>. HIDE DEF opening
  <2>10. evs \in Logs /\ s.out \o evs = (a \o opening) \o args
    <3>1. Regroups3(s.out, Open(s), opening, args)
      BY <1>0, <2>8, <2>9, Pieces3
    <3>. QED
      BY <3>1, Zenon DEF Regroups3
  <2>. HIDE DEF evs, a
  <2>11. r \in RenderState /\ r.out = (a \o opening) \o args /\ Alike(q, r)
    BY <2>1, <2>5, <2>10, EmitAlike, Zenon DEF Logs
  <2>12. /\ r.role = TRUE /\ r.toolIx = ix /\ r.toolOpen = toolOpen /\ r.toolId = c.id
         /\ r.block = s.block /\ r.completed = FALSE
    BY <2>6, <2>7, <2>11 DEF Alike
  <2>13. s.toolOpen => s.toolId # 0
    BY <1>5 DEF Shape
  <2>14. ASSUME ~s.block PROVE Log(d, r.out, Known(d, r, FALSE), TRUE)
    <3>. DEFINE item == CallItem(ix, c.id)
                S == IF s.toolOpen THEN {CallItem(s.toolIx, s.toolId)} ELSE {}
                N == IF toolOpen THEN {item} ELSE {}
    <3>1. Known(d, s, FALSE) = S /\ Begun(d, s, FALSE) = s.role /\ Known(d, r, FALSE) = N
      BY <1>0, <1>5, <2>12, <2>14 DEF Known, Begun
    <3>2. Log(d, s.out, S, s.role)
      BY <1>5, <2>14, <3>1, Zenon DEF Shape
    <3>3. Log(d, a, S, TRUE)
      BY <1>0, <3>2, LogBegins, Zenon DEF Openings, Open, a
    <3>4. Log(d, a \o opening, N, TRUE)
      <4>1. CASE opens
        <5>. DEFINE Left == {o \in S : \A k \in DOMAIN stop : ~Shuts(d, stop[k], o)}
        <5>1. \A k \in DOMAIN stop : stop[k] = AtIx("block_stop", s.toolIx)
          BY DEF stop, StopTool
        <5>2. AtIx("block_stop", s.toolIx).ev = "block_stop" /\ AtIx("block_stop", s.toolIx).ix = s.toolIx
          BY DEF AtIx, Event
        <5>3. \A k \in DOMAIN stop : stop[k].ev \in {"block_stop", "call_stop"}
          BY <5>1, <5>2
        <5>4. Left = {}
          <6>1. CASE s.toolOpen
            <7>1. 1 \in DOMAIN stop
              BY <6>1 DEF stop, StopTool
            <7>2. Shuts(d, AtIx("block_stop", s.toolIx), CallItem(s.toolIx, s.toolId))
              BY <1>0, <1>5, <5>2, ItemForms DEF Shuts
            <7>. QED
              BY <5>1, <6>1, <7>1, <7>2
          <6>2. CASE ~s.toolOpen
            BY <6>2
          <6>. QED
            BY <6>1, <6>2
        <5>. HIDE DEF S
        <5>5. Log(d, a \o stop, Left, TRUE)
          BY <2>8, <3>3, <5>3, LogStops, Zenon DEF Logs
        <5>6. Log(d, a \o stop, {}, TRUE)
          BY <5>4, <5>5, Zenon
        <5>. DEFINE b == a \o stop
        <5>7. Log(d, b \o <<item>>, {} \cup {item}, TRUE)
          <6>1. Log(d, b, {}, TRUE)
            BY <5>6, Zenon
          <6>. HIDE DEF b
          <6>. QED
            BY <1>2, <2>2, <6>1, CallOpens, Zenon
        <5>8. {} \cup {item} = N
          BY <2>3, <4>1
        <5>. QED
          BY <2>9, <4>1, <5>7, <5>8, Zenon DEF call
      <4>2. CASE ~opens
        <5>1. opening = <<>> /\ N = S /\ a \in Seq(EventSet)
          BY <2>4, <3>3, <4>2, Zenon DEF opening, Log, Sans
        <5>2. a \o <<>> = a
          BY <5>1
        <5>. QED
          BY <3>3, <5>1, <5>2, Zenon
      <4>. QED
        BY <4>1, <4>2, Zenon
    <3>5. there => \E o \in N : o.ev = "call" /\ Named(d, o) = IF d = "responses" THEN 0 ELSE ix
      <4>1. item.ev = "call" /\ item.ix = ix
        BY <1>2, <2>2, ItemForms
      <4>. HIDE DEF item
      <4>2. there => item \in N
        BY DEF there
      <4>3. Named(d, item) = ix
        BY <1>5, <4>1 DEF Named
      <4>. QED
        BY <1>5, <4>1, <4>2, <4>3
    <3>. HIDE DEF N
    <3>. DEFINE b == a \o opening
    <3>6. Log(d, b, N, TRUE)
      BY <3>4, Zenon
    <3>. HIDE DEF b
    <3>7. Log(d, b \o args, N, TRUE)
      BY <1>2, <2>2, <3>5, <3>6, ArgsFit, Zenon DEF args
    <3>. QED
      BY <2>11, <3>1, <3>7, Zenon DEF b
  <2>15. Begun(d, r, FALSE) = TRUE
    BY <1>5, <2>12 DEF Begun
  <2>. QED
    BY <1>5, <2>11, <2>12, <2>14, <2>15, Zenon DEF Shape
<1>6. CASE d = "responses"
  <2>. DEFINE R == [ix : Nat, id : Nat]
              adds == ~Added(s, c.ix)
              id == IF adds THEN c.id ELSE IdAt(s, c.ix)
              callId == IF adds THEN Append(s.callId, [ix |-> c.ix, id |-> id]) ELSE s.callId
              q == [s EXCEPT !.started = TRUE, !.callId = callId]
              adding == IF adds THEN <<CallItem(c.ix, id)>> ELSE <<>>
              there == c.args # <<>>
              args == IF there THEN <<[ev |-> "args", ix |-> c.ix, id |-> id, data |-> c.args]>> ELSE <<>>
              evs == (Start(s) \o adding) \o args
              a == s.out \o Start(s)
              C == {CallItem(s.callId[i].ix, s.callId[i].id) : i \in DOMAIN s.callId}
              M == IF s.msgAdded THEN {TextItem} ELSE {}
  <2>1. r = Emit(q, evs)
    <3>1. adding = IF adds THEN <<[AtIx("call", c.ix) EXCEPT !.id = id]>> ELSE <<>>
      BY DEF CallItem
    <3>2. q = [s EXCEPT !.started = TRUE,
                        !.callId = IF adds THEN Append(@, [ix |-> c.ix, id |-> id]) ELSE @]
      OBVIOUS
    <3>3. r = ResponsesTool(s, ch)
      BY <1>1, <1>6 DEF r, RenderStreamChunk, Responses
    <3>4. adds <=> c.id # 0 /\ ~Added(s, c.ix)
      OBVIOUS
    <3>. HIDE DEF adding, q
    <3>. QED
      BY <1>1, <3>1, <3>2, <3>3, <3>4 DEF ResponsesTool
  <2>2. s.callId \in Seq(R)
    BY <1>0
  <2>3. id \in Nat /\ (adds => id = c.id) /\ (~adds => \E i \in DOMAIN s.callId : s.callId[i].id = id)
    <3>1. CASE Added(s, c.ix)
      <4>. DEFINE i == CHOOSE i \in DOMAIN s.callId : s.callId[i].ix = c.ix
      <4>1. i \in DOMAIN s.callId
        BY <3>1 DEF Added
      <4>. HIDE DEF i, R
      <4>2. s.callId[i] \in R
        BY <2>2, <4>1, ElementOf
      <4>3. s.callId[i].id \in Nat
        BY <4>2 DEF R
      <4>4. IdAt(s, c.ix) = s.callId[i].id
        BY <3>1 DEF IdAt, i
      <4>. QED
        BY <3>1, <4>1, <4>3, <4>4
    <3>2. CASE ~Added(s, c.ix)
      BY <1>2, <3>2
    <3>. QED
      BY <3>1, <3>2
  <2>4. \A i \in DOMAIN s.callId : s.callId[i].ix \in Nat /\ s.callId[i].id \in Nat
    <3>1. \A i \in DOMAIN s.callId : s.callId[i] \in [ix : Nat, id : Nat]
      BY <1>0, ElementOf, Zenon
    <3>. QED
      BY <3>1
  <2>. HIDE DEF id
  <2>5. callId \in Seq(R) /\ (~adds => callId = s.callId)
        /\ (adds => {CallItem(callId[i].ix, callId[i].id) : i \in DOMAIN callId} = C \cup {CallItem(c.ix, id)})
    <3>. DEFINE e == [ix |-> c.ix, id |-> id]
                n == Len(s.callId)
    <3>1. e \in R /\ e.ix = c.ix /\ e.id = id
      BY <1>2, <2>3
    <3>2. n \in Nat /\ DOMAIN s.callId = 1..n
      BY <2>2
    <3>. HIDE DEF e, R, n
    <3>3. callId \in Seq(R) /\ (~adds => callId = s.callId)
      BY <2>2, <3>1 DEF e
    <3>4. adds => /\ DOMAIN callId = 1..n + 1 /\ callId[n + 1] = e
                  /\ \A i \in 1..n : callId[i] = s.callId[i]
      BY <2>2, <3>1, <3>2 DEF e, n
    <3>5. 1..n + 1 = 1..n \cup {n + 1}
      BY <3>2
    <3>. HIDE DEF callId
    <3>6. adds => {CallItem(callId[i].ix, callId[i].id) : i \in DOMAIN callId} = C \cup {CallItem(c.ix, id)}
      BY <3>1, <3>2, <3>4, <3>5
    <3>. QED
      BY <3>3, <3>6, Zenon
  <2>. HIDE DEF callId
  <2>6. q \in RenderState /\ q.out = s.out
    <3>1. q \in RenderState
      BY <1>0, <2>5, Zenon DEF RenderState
    <3>2. q.out = s.out
      BY <1>0 DEF RenderState
    <3>. QED
      BY <3>1, <3>2
  <2>7. q.started = TRUE /\ q.msgAdded = s.msgAdded /\ q.callId = callId
    BY <1>0 DEF RenderState
  <2>8. q.block = s.block /\ q.completed = FALSE
    BY <1>0 DEF RenderState
  <2>9. there \in BOOLEAN /\ adds \in BOOLEAN
    BY DEF Added
  <2>. HIDE DEF q, adds, there
  <2>10. adding \in Logs /\ args \in Logs
    <3>1. CallItem(c.ix, id) \in EventSet
      BY <1>2, <2>3, ItemForms
    <3>2. [ev |-> "args", ix |-> c.ix, id |-> id, data |-> c.args] \in EventSet
      BY <1>2, <2>3, DataSets DEF EventSet, EventNames
    <3>. QED
      BY <1>2, <3>1, <3>2 DEF Logs
  <2>. HIDE DEF adding, args
  <2>11. evs \in Logs /\ s.out \o evs = (a \o adding) \o args
    <3>1. Regroups3(s.out, Start(s), adding, args)
      BY <1>0, <2>10, Pieces3
    <3>. QED
      BY <3>1, Zenon DEF Regroups3
  <2>. HIDE DEF evs, a
  <2>12. r \in RenderState /\ r.out = (a \o adding) \o args /\ Alike(q, r)
    BY <2>1, <2>6, <2>11, EmitAlike, Zenon DEF Logs
  <2>13. r.started = TRUE /\ r.msgAdded = s.msgAdded /\ r.callId = callId /\ r.block = s.block
         /\ r.completed = FALSE
    BY <2>7, <2>8, <2>12 DEF Alike
  <2>. DEFINE N == M \cup (C \cup (IF adds THEN {CallItem(c.ix, id)} ELSE {}))
  <2>14. Known(d, r, FALSE) = N /\ Begun(d, r, FALSE) = TRUE
    <3>1. {CallItem(r.callId[i].ix, r.callId[i].id) : i \in DOMAIN r.callId}
            = C \cup (IF adds THEN {CallItem(c.ix, id)} ELSE {})
      BY <2>5, <2>9, <2>13, Zenon
    <3>. HIDE DEF C
    <3>2. Known(d, r, FALSE) = M \cup {CallItem(r.callId[i].ix, r.callId[i].id) : i \in DOMAIN r.callId}
      BY <1>6, <2>13 DEF Known
    <3>3. Begun(d, r, FALSE) = TRUE
      BY <1>6, <2>13 DEF Begun
    <3>. QED
      BY <3>1, <3>2, <3>3, Zenon
  <2>15. Log(d, a, M \cup C, TRUE)
    <3>1. Log(d, s.out, M \cup C, s.started)
      BY <1>6 DEF Shape, Known, Begun
    <3>. QED
      BY <1>0, <3>1, LogBegins, Zenon DEF Openings, Start, a
  <2>16. \E o \in N : o.ev = "call" /\ Named(d, o) = id
    <3>1. CASE adds
      <4>1. CallItem(c.ix, id).ev = "call" /\ CallItem(c.ix, id).id = id /\ CallItem(c.ix, id) \in N
        BY <1>2, <2>3, <3>1, ItemForms
      <4>. QED
        BY <1>6, <4>1 DEF Named
    <3>2. CASE ~adds
      <4>1. PICK i \in DOMAIN s.callId : s.callId[i].id = id
        BY <2>3, <3>2 DEF adds
      <4>. DEFINE o == CallItem(s.callId[i].ix, s.callId[i].id)
      <4>2. o.ev = "call" /\ o.id = id /\ o \in N
        BY <2>4, <4>1, ItemForms
      <4>. QED
        BY <1>6, <4>2 DEF Named
    <3>. QED
      BY <2>9, <3>1, <3>2
  <2>. HIDE DEF C, M
  <2>17. Log(d, a \o adding, N, TRUE)
    <3>1. CASE adds
      <4>1. Log(d, a \o <<CallItem(c.ix, id)>>, (M \cup C) \cup {CallItem(c.ix, id)}, TRUE)
        BY <1>2, <2>3, <2>15, CallOpens, Zenon
      <4>2. (M \cup C) \cup {CallItem(c.ix, id)} = N
        BY <3>1
      <4>. QED
        BY <3>1, <4>1, <4>2, Zenon DEF adding
    <3>2. CASE ~adds
      <4>1. adding = <<>> /\ N = M \cup C /\ a \in Seq(EventSet)
        BY <2>15, <3>2 DEF adding, Log, Sans
      <4>2. a \o <<>> = a
        BY <4>1
      <4>. QED
        BY <2>15, <4>1, <4>2, Zenon
    <3>. QED
      BY <2>9, <3>1, <3>2, Zenon
  <2>. HIDE DEF N
  <2>. DEFINE b == a \o adding
  <2>18. Log(d, b, N, TRUE)
    BY <2>17, Zenon
  <2>. HIDE DEF b
  <2>19. Log(d, b \o args, N, TRUE)
    BY <1>2, <1>6, <2>3, <2>9, <2>16, <2>18, ArgsFit, Zenon DEF args
  <2>20. Log(d, r.out, N, TRUE)
    BY <2>12, <2>19, Zenon DEF b
  <2>. QED
    BY <1>6, <2>12, <2>13, <2>14, <2>20, Zenon DEF Shape
<1>7. CASE d \in {"gemini", "ollama"}
  <2>. DEFINE e == [ev |-> "call", ix |-> Len(s.out), id |-> c.id, data |-> c.args]
              say == <<e>>
  <2>1. r = Emit(s, say)
    BY <1>1, <1>7 DEF r, RenderStreamChunk, Gemini, Ollama
  <2>2. e \in EventSet /\ e.ev \notin Openings /\ e.ev \notin Endings /\ say \in Logs
    <3>1. e \in EventSet /\ e.ev \notin Openings /\ e.ev \notin Endings
      BY <1>2, <1>3
    <3>. HIDE DEF e
    <3>. QED
      BY <3>1 DEF Logs
  <2>. HIDE DEF e
  <2>3. r \in RenderState /\ r.out = s.out \o say /\ Alike(s, r)
    BY <1>0, <2>1, <2>2, EmitAlike, Zenon DEF Logs
  <2>4. Log(d, s.out, {}, TRUE)
    BY <1>7, Zenon DEF Shape, Known, Begun
  <2>5. Log(d, s.out \o say, {}, TRUE)
    BY <1>7, <2>2, <2>4, LogPlain, Zenon DEF Itemized
  <2>6. Known(d, r, FALSE) = {} /\ Begun(d, r, FALSE) = TRUE
    BY <1>7 DEF Known, Begun
  <2>. QED
    BY <1>0, <1>7, <2>3, <2>5, <2>6, Zenon DEF Shape, Alike
<1>. QED
  BY <1>4, <1>5, <1>6, <1>7, Zenon DEF Dialects

\* A text that may go on with a tag.
OpenEnded(text) == text # <<>> /\ Last(text) = "lt"

\* The filter holds something back only if the text so far ends inside a tag.
LEMMA ScanHolds ==
  ASSUME NEW ts \in ScanState
  PROVE  Scan[ts].buf # <<>> => OpenEnded(ts.buf)
<1>. DEFINE Holds(u) == Scan[u].buf # <<>> => OpenEnded(u.buf)
<1>1. \A u \in ScanState : u.thinking \in BOOLEAN /\ u.buf \in Texts /\ Len(u.buf) \in Nat
  BY DEF ScanState, Texts
<1>2. ASSUME NEW u \in ScanState, TagsIn(u.buf, Wanted(u.thinking)) = {} PROVE Holds(u)
  <2>1. Scan[u] = Hold(u)
    BY <1>2, ScanIs
  <2>. SUFFICES ASSUME ~OpenEnded(u.buf) PROVE Hold(u).buf = <<>>
    BY <2>1
  <2>2. Held(u.buf) = 0
    BY DEF OpenEnded, Held
  <2>3. Hold(u).buf = SubSeq(u.buf, Len(u.buf) - 0 + 1, Len(u.buf))
    BY <2>2 DEF Hold
  <2>. QED
    BY <1>1, <2>3 DEF Texts
<1>3. ASSUME NEW u \in ScanState, TagsIn(u.buf, Wanted(u.thinking)) # {}, Holds(PassTag(u)) PROVE Holds(u)
  <2>. DEFINE tag == Wanted(u.thinking)
              text == u.buf
              v == PassTag(u)
              k == First(TagsIn(text, tag))
              a == After(text, tag)
  <2>1. v.buf = a /\ Scan[u] = Scan[v]
    BY <1>3, PassTagIs, ScanIs, Zenon
  <2>2. tag \in Tags /\ text \in Texts /\ Len(text) \in Nat
    BY <1>1 DEF Wanted, Tags
  <2>. HIDE DEF tag, text
  <2>3. TagsIn(text, tag) # {}
    BY <1>3 DEF tag, text
  <2>4. k \in Nat \ {0} /\ k + 1 <= Len(text)
    <3>1. k \in TagsIn(text, tag) /\ k \in Nat \ {0}
      BY <2>2, <2>3, FirstOf, TagNumbers
    <3>. HIDE DEF k
    <3>. QED
      BY <2>2, <3>1, TagsAre
  <2>5. a = SubSeq(text, k + 2, Len(text))
    BY DEF After
  <2>. HIDE DEF k, a, v
  <2>6. ASSUME OpenEnded(a) PROVE OpenEnded(text)
    <3>1. a # <<>> /\ Last(a) = "lt"
      BY <2>6 DEF OpenEnded
    <3>2. k + 2 <= Len(text)
      BY <2>2, <2>4, <2>5, <3>1 DEF Texts
    <3>3. Len(a) = Len(text) - (k + 1) /\ a[Len(a)] = text[Len(text)] /\ text # <<>>
      BY <2>2, <2>4, <2>5, <3>2 DEF Texts
    <3>. QED
      BY <3>1, <3>3 DEF OpenEnded, Last
  <2>. QED
    BY <1>3, <2>1, <2>6 DEF v, text
<1>. HIDE DEF Holds
<1>. DEFINE P == {n \in Nat : \A u \in ScanState : Len(u.buf) < n => Holds(u)}
<1>4. 0 \in P
  BY <1>1
<1>5. ASSUME NEW n \in Nat, n \in P PROVE n + 1 \in P
  <2>. SUFFICES ASSUME NEW u \in ScanState, Len(u.buf) < n + 1 PROVE Holds(u)
    OBVIOUS
  <2>1. CASE TagsIn(u.buf, Wanted(u.thinking)) = {}
    BY <1>2, <2>1
  <2>2. CASE TagsIn(u.buf, Wanted(u.thinking)) # {}
    <3>1. PassTag(u) \in ScanState /\ Len(PassTag(u).buf) < Len(u.buf)
      BY <2>2, PassTagIs, Zenon
    <3>. DEFINE v == PassTag(u)
    <3>. HIDE DEF v
    <3>2. v \in ScanState /\ Len(v.buf) < n
      BY <1>1, <3>1 DEF v
    <3>3. Holds(v)
      BY <1>5, <3>2
    <3>. QED
      BY <1>3, <2>2, <3>3, Zenon DEF v
  <2>. QED
    BY <2>1, <2>2
<1>. HIDE DEF P
<1>6. Nat \subseteq P
  BY <1>4, <1>5, Inductively
<1>7. Len(ts.buf) + 1 \in P /\ Len(ts.buf) < Len(ts.buf) + 1
  BY <1>1, <1>6
<1>. QED
  BY <1>7 DEF P, Holds

LEMMA FeedHolds ==
  ASSUME NEW t \in FilterState, NEW delta \in Texts, ProcessFeed(t, delta).buf # <<>>
  PROVE  OpenEnded(t.buf \o delta)
<1>. DEFINE buf == t.buf \o delta
            ts == Feeding([t EXCEPT !.buf = @ \o delta])
<1>1. t.thinking \in BOOLEAN /\ t.buf \in Texts
  BY TagSymbols DEF FilterState, Held1
<1>2. buf \in Texts
  BY <1>1, Concat
<1>3. t = [thinking |-> t.thinking, buf |-> t.buf]
  BY DEF FilterState
<1>4. ts = [thinking |-> t.thinking, buf |-> buf, text |-> <<>>]
  BY <1>3 DEF Feeding
<1>. HIDE DEF ts, buf
<1>5. ts \in ScanState /\ ts.buf = buf
  BY <1>1, <1>2, <1>4, TagSymbols DEF ScanState, Texts
<1>6. ProcessFeed(t, delta) = Scan[ts]
  BY DEF ProcessFeed, ts
<1>7. OpenEnded(buf)
  BY <1>5, <1>6, ScanHolds
<1>. QED
  BY <1>7 DEF buf

\* What ends so, after more has come, did so already or does so by what has come.
LEMMA EndsOpen ==
  ASSUME NEW a \in Texts, NEW b \in Texts, NEW c \in Texts, OpenEnded(a \o b), a # <<>> => OpenEnded(c)
  PROVE  OpenEnded(c \o b)
<1>1. /\ Len(a) \in Nat /\ Len(b) \in Nat /\ Len(c) \in Nat
      /\ Len(a \o b) = Len(a) + Len(b) /\ Len(c \o b) = Len(c) + Len(b)
      /\ \A i \in 1..Len(b) : (a \o b)[Len(a) + i] = b[i] /\ (c \o b)[Len(c) + i] = b[i]
  BY Concat DEF Texts
<1>2. CASE b = <<>>
  <2>1. a \o b = a /\ c \o b = c
    BY <1>2 DEF Texts
  <2>. QED
    BY <2>1 DEF OpenEnded
<1>3. CASE b # <<>>
  <2>1. Len(b) \in 1..Len(b)
    BY <1>1, <1>3 DEF Texts
  <2>. DEFINE x == a \o b
              y == c \o b
  <2>2. x[Len(x)] = "lt"
    BY DEF OpenEnded, Last
  <2>3. y[Len(y)] = x[Len(x)] /\ Len(y) # 0
    BY <1>1, <2>1
  <2>4. y # <<>>
    BY <2>3
  <2>. QED
    BY <2>2, <2>3, <2>4 DEF OpenEnded, Last
<1>. QED
  BY <1>2, <1>3

---------------------------------------------------------------------------
(* What the chunks that come out of the sanitizer do to the shape *)

\* A fragment with an id, or for a call that is held, is held, and no index is lost.
LEMMA IndexKept ==
  ASSUME NEW bufs, Buffered(bufs), NEW c \in CallSet, NEW ch, NEW p, ToolStep(bufs, c, ch, p),
         c.id # 0 \/ \E b \in bufs : b.ix = c.ix
  PROVE  /\ p.pass = <<>> /\ \E b \in p.held : b.ix = c.ix
         /\ \A b \in bufs : \E a \in p.held : a.ix = b.ix
         /\ \E S \in SUBSET bufs : p.out = Flush(S)
<1>. DEFINE at == WithIndex(bufs, c.ix)
            new == c.id # 0 /\ \A b \in at : b.id # c.id
<1>1. at \subseteq bufs /\ (\A b \in at : b.ix = c.ix) /\ \A b \in bufs \ at : b.ix # c.ix
  BY DEF WithIndex
<1>2. /\ new => p.held = (bufs \ at) \cup {c} /\ p.out = Flush(at) /\ p.pass = <<>>
      /\ ~new => /\ p.out = {}
                 /\ \A b \in at : /\ p.held = (bufs \ {b}) \cup {[b EXCEPT !.args = @ \o c.args]}
                                  /\ p.pass = <<>>
                 /\ at = {} => p.held = bufs /\ p.pass = <<ch>>
  BY Zenon DEF ToolStep
<1>. HIDE DEF at
<1>3. CASE new
  BY <1>1, <1>2, <1>3
<1>4. CASE ~new
  <2>1. PICK b \in at : TRUE
    <3>1. CASE c.id # 0
      BY <1>4, <3>1
    <3>2. CASE \E b \in bufs : b.ix = c.ix
      BY <1>1, <3>2
    <3>. QED
      BY <3>1, <3>2
  <2>. DEFINE x == [b EXCEPT !.args = @ \o c.args]
  <2>2. x.ix = b.ix
    BY <1>1, Longer DEF CallSet, Buffered
  <2>. HIDE DEF x
  <2>3. p.out = {} /\ p.held = (bufs \ {b}) \cup {x} /\ p.pass = <<>>
    BY <1>2, <1>4, <2>1, Zenon DEF x
  <2>4. {} \in SUBSET bufs /\ Flush({}) = {}
    BY FlushIs
  <2>. QED
    BY <1>1, <2>2, <2>3, <2>4
<1>. QED
  BY <1>3, <1>4

LEMMA ShapeFlush ==
  ASSUME to \in Dialects, tags \in FilterState, client \in RenderState, Shape(to, client, FALSE),
         NEW S, Buffered(S), \A b \in S : b.id # 0, NEW out \in SetToSeqs(Flush(S))
  PROVE  /\ Shape(to, Render(out).client, FALSE) /\ Render(out).tags = tags
         /\ Render(out).client.block = client.block
         /\ S = {} => Render(out) = [tags |-> tags, client |-> client]
<1>. DEFINE start == [tags |-> tags, client |-> client]
            n == Len(out)
            Keeps(x) == Shape(to, x.client, FALSE) /\ x.tags = tags /\ x.client.block = client.block
<1>1. S \subseteq CallSet
  BY DEF Buffered
<1>2. /\ out \in Seq(ChunkSet) /\ \A i \in 1..n : \E b \in S : out[i] = Tool(b.ix, b.id, b.args)
      /\ S = {} => out = <<>>
  BY FlushedCalls
<1>3. n \in Nat /\ \A i \in 1..n : out[i] \in ChunkSet
  BY <1>2
<1>4. PICK f : Folded(start, out, f) /\ Render(out) = f[n]
  BY <1>2, RenderIs
<1>5. /\ f \in [0..n -> RenderedSet] /\ f[0] = start
      /\ \A i \in 1..n : f[i] = RenderChunk(f[i - 1], out[i])
  BY <1>4 DEF Folded
<1>6. Keeps(start)
  OBVIOUS
<1>7. S = {} => n = 0
  BY <1>2
<1>. HIDE DEF n, start, Keeps
<1>. DEFINE P == {i \in Nat : i <= n => Keeps(f[i])}
<1>8. 0 \in P
  BY <1>5, <1>6
<1>9. ASSUME NEW i \in Nat, i \in P PROVE i + 1 \in P
  <2>. SUFFICES ASSUME i + 1 <= n PROVE Keeps(f[i + 1])
    BY DEF P
  <2>1. i <= n /\ i + 1 \in 1..n /\ i \in 0..n /\ (i + 1) - 1 = i
    BY <1>3
  <2>. DEFINE x == f[i]
  <2>2. Keeps(x) /\ x \in RenderedSet
    BY <1>5, <1>9, <2>1
  <2>. HIDE DEF x
  <2>3. PICK b \in S : out[i + 1] = Tool(b.ix, b.id, b.args)
    BY <1>2, <2>1
  <2>. DEFINE ch == Tool(b.ix, b.id, b.args)
  <2>4. ch.kind # "text" /\ ch \in ChunkSet
    BY <1>3, <2>1, <2>3, ChunkKinds
  <2>5. f[i + 1] = RenderChunk(x, ch)
    BY <1>5, <2>1, <2>3 DEF x
  <2>6. RenderChunk(x, ch).tags = x.tags
        /\ RenderChunk(x, ch).client = RenderStreamChunk(to, x.client, ch)
    BY <2>2, <2>4, RenderChunkIs, Zenon
  <2>. DEFINE r == RenderStreamChunk(to, x.client, ch)
  <2>7. Shape(to, r, FALSE) /\ r.block = x.client.block
    <3>1. b \in CallSet /\ b.id # 0
      BY <1>1
    <3>2. x.client \in RenderState /\ Shape(to, x.client, FALSE)
      BY <2>2, Zenon DEF Keeps, Shape
    <3>. QED
      BY <3>1, <3>2, ShapeTool, Zenon
  <2>. HIDE DEF r, ch
  <2>. QED
    BY <2>2, <2>5, <2>6, <2>7, Zenon DEF r, Keeps
<1>. HIDE DEF P
<1>10. Nat \subseteq P
  BY <1>8, <1>9, Inductively
<1>11. Keeps(f[n])
  BY <1>3, <1>10 DEF P
<1>12. S = {} => f[n] = start
  BY <1>5, <1>7
<1>. QED
  BY <1>4, <1>11, <1>12, Zenon DEF start, Keeps

---------------------------------------------------------------------------
(* The events of the whole stream *)

\* The usage comes where the Responses dialect needs it.
UsageLast ==
  to = "responses" =>
    \A i \in DOMAIN sent : sent[i].kind = "usage" => i > 1 /\ sent[i - 1].kind = "finish"

\* The Responses dialect's log once the usage has completed it.
Completed ==
  /\ Finished /\ Last(sent).kind = "usage" /\ to = "responses" /\ client.completed /\ client.started
  /\ \E evs \in Seq(EventSet) :
       client.out = evs \o <<Event("completed")>> /\ Log(to, evs, {}, TRUE)

\* The renderer's log while the stream runs: it knows of text and of calls only what
\* the provider has sent, and what the filter holds is the end of the text.
Rendered ==
  /\ Shape(to, client, Finished) \/ Completed
  /\ client.block \/ tags.buf # <<>> => "text" \in Kinds
  /\ client.toolId # 0 => calls # <<>>
  /\ tags.buf # <<>> => OpenEnded(SentText)

\* The sanitizer holds a call at each index for which arguments may still come.
Expecting ==
  /\ from = "openai" => \A j \in DOMAIN calls : \E b \in buffers : b.ix = calls[j].ix
  /\ from \in {"anthropic", "responses"} /\ calls # <<>> =>
       \E b \in buffers : b.ix = calls[Len(calls)].ix

WellInv ==
  /\ calls # <<>> => "tool" \in Kinds
  /\ phase = "streaming" /\ UsageLast => Rendered
  /\ phase = "streaming" /\ ~Finished => Expecting
  /\ phase = "over" => WellFormed

\* What one more chunk adds to the provider's stream.
LEMMA SentGrows ==
  ASSUME TypeInv, NEW ch \in ChunkSet, sent' = Append(sent, ch), to' = to
  PROVE  /\ \A k : k \in Kinds' <=> k \in Kinds \/ k = ch.kind
         /\ Last(sent') = ch
         /\ SentText \in Texts /\ Joins(SentText', SentText, ChunkText(ch))
         /\ UsageLast' => UsageLast
         /\ UsageLast' /\ to = "responses" /\ ch.kind = "usage" => Finished /\ Last(sent).kind = "finish"
<1>. DEFINE n == Len(sent)
            more == Append(sent, ch)
<1>1. sent \in Seq(ChunkSet) /\ DOMAIN sent = 1..n /\ n \in Nat
  BY DEF TypeInv
<1>2. /\ DOMAIN more = 1..n + 1 /\ more[n + 1] = ch /\ Len(more) = n + 1
      /\ \A i \in 1..n : more[i] = sent[i]
  BY <1>1
<1>. HIDE DEF n, more
<1>3. sent' = more
  BY DEF more
<1>4. 1..n + 1 = 1..n \cup {n + 1}
  BY <1>1
<1>5. Kinds' = {more[i].kind : i \in DOMAIN more} /\ Kinds = {sent[i].kind : i \in DOMAIN sent}
  BY <1>3 DEF Kinds
<1>6. \A k : k \in Kinds' <=> k \in Kinds \/ k = ch.kind
  <2>1. ASSUME NEW k PROVE k \in Kinds' <=> \E i \in 1..n + 1 : k = more[i].kind
    BY <1>2, <1>5
  <2>2. ASSUME NEW k PROVE k \in Kinds <=> \E i \in 1..n : k = sent[i].kind
    BY <1>1, <1>5
  <2>. QED
    BY <1>1, <1>2, <1>4, <2>1, <2>2
<1>7. Last(sent') = ch
  BY <1>2, <1>3 DEF Last
<1>8. Joins(SentText', SentText, ChunkText(ch))
  <2>1. SentText' = TextSent(sent')
    BY DEF SentText, TextSent, ChunkText
  <2>2. SentAdds(sent, ch)
    BY SentAppend DEF TypeInv
  <2>. QED
    BY <1>3, <2>1, <2>2, TextsAre DEF SentAdds, Joins, more
<1>9. UsageLast' <=> (to = "responses" => \A i \in 1..n + 1 : more[i].kind = "usage" => i > 1 /\ more[i - 1].kind = "finish")
  BY <1>2, <1>3, Zenon DEF UsageLast
<1>10. ASSUME UsageLast' PROVE UsageLast
  <2>. SUFFICES ASSUME to = "responses", NEW i \in 1..n, sent[i].kind = "usage"
                PROVE  i > 1 /\ sent[i - 1].kind = "finish"
    BY <1>1 DEF UsageLast
  <2>1. i \in 1..n + 1 /\ more[i].kind = "usage"
    BY <1>1, <1>2
  <2>2. i > 1 /\ more[i - 1].kind = "finish"
    BY <1>9, <1>10, <2>1
  <2>3. i - 1 \in 1..n
    BY <1>1, <2>2
  <2>. QED
    BY <1>2, <2>2, <2>3
<1>11. ASSUME UsageLast', to = "responses", ch.kind = "usage" PROVE Finished /\ Last(sent).kind = "finish"
  <2>1. n + 1 > 1 /\ more[(n + 1) - 1].kind = "finish"
    BY <1>1, <1>2, <1>9, <1>11
  <2>2. n \in 1..n /\ (n + 1) - 1 = n
    BY <1>1, <2>1
  <2>3. sent[n].kind = "finish"
    BY <1>2, <2>1, <2>2
  <2>4. sent # <<>>
    BY <1>1, <2>2
  <2>. QED
    BY <1>1, <1>5, <2>2, <2>3, <2>4 DEF Finished, Last, n
<1>12. SentText \in Texts
  BY TextsAre
<1>. QED
  BY <1>6, <1>7, <1>8, <1>10, <1>11, <1>12

LEMMA WellInit == Init => WellInv
<1>. SUFFICES ASSUME Init PROVE WellInv
  OBVIOUS
<1>1. to \in Dialects /\ client = Fresh /\ calls = <<>> /\ sent = <<>> /\ tags.buf = <<>> /\ phase = "streaming"
  BY StreamRenderAssumption DEF Init, NoThought
<1>2. ~Finished
  BY <1>1 DEF Finished, Kinds
<1>3. Fresh \in RenderState
  BY DEF Fresh, RenderState
<1>4. /\ ~Fresh.completed /\ Fresh.out = <<>> /\ ~Fresh.role /\ ~Fresh.block /\ ~Fresh.toolOpen /\ ~Fresh.msgAdded
      /\ ~Fresh.started /\ Fresh.callId = <<>> /\ Fresh.toolId = 0
  BY DEF Fresh
<1>5. Known(to, Fresh, FALSE) = {}
  BY <1>4 DEF Known
<1>6. Log(to, <<>>, {}, Begun(to, Fresh, FALSE))
  <2>1. <<>> \in Sans(Endings)
    BY DEF Sans
  <2>2. Lawful(to, <<>>) /\ Items(to, <<>>) = {}
    BY DEF Lawful, Items
  <2>. QED
    BY <2>1, <2>2 DEF Log
<1>7. Mute(Fresh.out)
  BY <1>4 DEF Mute
<1>8. Shape(to, client, Finished)
  <2>1. Log(to, Fresh.out, Known(to, Fresh, FALSE), Begun(to, Fresh, FALSE))
    BY <1>4, <1>5, <1>6, Zenon
  <2>2. Shape(to, Fresh, FALSE)
    BY <1>3, <1>4, <1>7, <2>1, Zenon DEF Shape
  <2>3. Finished = FALSE
    BY <1>2 DEF Finished
  <2>. QED
    BY <1>1, <2>2, <2>3, Zenon
<1>9. Rendered
  BY <1>1, <1>4, <1>8 DEF Rendered
<1>10. Expecting
  BY <1>1 DEF Expecting
<1>. QED
  BY <1>1, <1>9, <1>10 DEF WellInv

\* What a chunk that is no call does to the client's side.
LEMMA QuietIs ==
  ASSUME TypeInv, NEW ch, Quiet(ch)
  PROVE  /\ ch \in ChunkSet /\ sent' = Append(sent, ch) /\ calls' = calls
         /\ from' = from /\ to' = to /\ phase = "streaming" /\ phase' = "streaming"
         /\ to \in Dialects /\ tags \in FilterState /\ client \in RenderState /\ Buffered(buffers)
         /\ ch.kind # "finish" =>
              /\ buffers' = buffers
              /\ ch.kind = "text" =>
                   /\ tags'.buf = ProcessFeed(tags, ch.delta).buf
                   /\ client' = RenderText(client, ProcessFeed(tags, ch.delta).text)
              /\ ch.kind # "text" => tags' = tags /\ client' = RenderStreamChunk(to, client, ch)
         /\ ch.kind = "finish" =>
              \E out \in SetToSeqs(Flush(buffers)) :
                 tags' = Render(out).tags /\ client' = RenderStreamChunk(to, Render(out).client, ch)
<1>. DEFINE p == Process(buffers, ch)
            start == [tags |-> tags, client |-> client]
<1>1. ch \in ChunkSet /\ CanSend /\ Receive(ch) /\ calls' = calls /\ ch.kind # "tool"
  BY DEF Quiet
<1>2. /\ sent' = Append(sent, ch) /\ buffers' = p.held
      /\ from' = from /\ to' = to /\ phase' = phase /\ phase = "streaming"
      /\ \E out \in SetToSeqs(p.out) :
           LET r == Render(out \o p.pass) IN tags' = r.tags /\ client' = r.client
  BY <1>1, ReceiveIs
<1>3. to \in Dialects /\ tags \in FilterState /\ client \in RenderState /\ Buffered(buffers)
  BY StreamRenderAssumption DEF TypeInv
<1>4. /\ p.pass = <<ch>>
      /\ ch.kind # "finish" => p.held = buffers /\ p.out = {}
      /\ ch.kind = "finish" => p.held = {} /\ p.out = Flush(buffers)
  BY <1>1, <1>3, ProcessIs
<1>. HIDE DEF p
<1>5. PICK out \in SetToSeqs(p.out) :
        LET r == Render(out \o p.pass) IN tags' = r.tags /\ client' = r.client
  BY <1>2
<1>6. out \in Seq(ChunkSet) /\ (ch.kind # "finish" => out = <<>>)
  <2>1. CASE ch.kind = "finish"
    BY <1>3, <1>4, <1>5, <2>1, FlushedCalls
  <2>2. CASE ch.kind # "finish"
    <3>1. out \in SetToSeqs({})
      BY <1>4, <1>5, <2>2
    <3>2. out = <<>>
      BY <3>1, FS_EmptySet, Enumerates
    <3>. QED
      BY <3>2
  <2>. QED
    BY <2>1, <2>2
<1>. DEFINE x == Render(out)
<1>7. Render(out \o <<ch>>) = RenderChunk(x, ch) /\ x \in RenderedSet /\ Render(<<>>) = start
  BY <1>1, <1>3, <1>6, RenderOnto
<1>8. ch.kind # "finish" => x = start
  BY <1>6, <1>7
<1>. HIDE DEF x
<1>9. tags' = RenderChunk(x, ch).tags /\ client' = RenderChunk(x, ch).client
  BY <1>4, <1>5, <1>7
<1>10. /\ ch.kind = "text" =>
            /\ RenderChunk(x, ch).tags.buf = ProcessFeed(x.tags, ch.delta).buf
            /\ RenderChunk(x, ch).client = RenderText(x.client, ProcessFeed(x.tags, ch.delta).text)
       /\ ch.kind # "text" => /\ RenderChunk(x, ch).tags = x.tags
                              /\ RenderChunk(x, ch).client = RenderStreamChunk(to, x.client, ch)
  <2>. DEFINE y == RenderChunk(x, ch)
              fed == ProcessFeed(x.tags, ch.delta)
  <2>1. x \in RenderedSet
    BY <1>7
  <2>2. /\ ch.kind = "text" => /\ y.tags = [thinking |-> fed.thinking, buf |-> fed.buf]
                               /\ y.client = RenderText(x.client, fed.text)
        /\ ch.kind # "text" => y.tags = x.tags /\ y.client = RenderStreamChunk(to, x.client, ch)
    BY <1>1, <1>3, <2>1, RenderChunkIs
  <2>. HIDE DEF y, fed
  <2>3. ch.kind = "text" => y.tags.buf = fed.buf
    BY <2>2
  <2>. QED
    BY <2>2, <2>3 DEF y, fed
<1>11. start.tags = tags /\ start.client = client
  OBVIOUS
<1>. HIDE DEF start
<1>12. ASSUME ch.kind # "finish"
       PROVE  /\ buffers' = buffers
              /\ ch.kind = "text" =>
                   /\ tags'.buf = ProcessFeed(tags, ch.delta).buf
                   /\ client' = RenderText(client, ProcessFeed(tags, ch.delta).text)
              /\ ch.kind # "text" => tags' = tags /\ client' = RenderStreamChunk(to, client, ch)
  BY <1>2, <1>4, <1>8, <1>9, <1>10, <1>11, <1>12
<1>13. ASSUME ch.kind = "finish"
       PROVE  \E o \in SetToSeqs(Flush(buffers)) :
                 tags' = Render(o).tags /\ client' = RenderStreamChunk(to, Render(o).client, ch)
  <2>1. out \in SetToSeqs(Flush(buffers))
    BY <1>4, <1>5, <1>13
  <2>2. tags' = Render(out).tags /\ client' = RenderStreamChunk(to, Render(out).client, ch)
    BY <1>9, <1>10, <1>13 DEF x
  <2>. QED
    BY <2>1, <2>2
<1>. QED
  BY <1>1, <1>2, <1>3, <1>12, <1>13

\* Text that comes out of the filter is rendered as text.
LEMMA ShapeShown ==
  ASSUME to \in Dialects, NEW s, Shape(to, s, FALSE), NEW text \in Texts
  PROVE  Shape(to, RenderText(s, text), FALSE) /\ RenderText(s, text).toolId = s.toolId
<1>1. CASE text = <<>>
  BY <1>1, Zenon DEF RenderText
<1>2. CASE text # <<>>
  <2>1. RenderText(s, text) = RenderStreamChunk(to, s, Text(text))
    BY <1>2 DEF RenderText
  <2>. QED
    BY <2>1, ShapeText, Zenon
<1>. QED
  BY <1>1, <1>2, Zenon

LEMMA QuietRendered ==
  ASSUME TypeInv, WellInv, NEW ch, Quiet(ch), UsageLast'
  PROVE  Rendered'
<1>1. /\ ch \in ChunkSet /\ sent' = Append(sent, ch) /\ calls' = calls /\ to' = to /\ phase = "streaming"
      /\ to \in Dialects /\ tags \in FilterState /\ client \in RenderState /\ Buffered(buffers)
  BY QuietIs
<1>2. /\ \A k : k \in Kinds' <=> k \in Kinds \/ k = ch.kind
      /\ UsageLast /\ Last(sent') = ch
      /\ SentText \in Texts /\ Joins(SentText', SentText, ChunkText(ch))
      /\ to = "responses" /\ ch.kind = "usage" => Finished /\ Last(sent).kind = "finish"
  BY <1>1, SentGrows
<1>3. Finished' <=> Finished \/ ch.kind = "finish"
  BY <1>1, FinishedIs
<1>4. Rendered
  BY <1>1, <1>2 DEF WellInv
<1>5. IF ch.kind = "usage" THEN Finished => Last(sent).kind = "finish" ELSE ~Finished
  BY DEF Quiet
<1>6. Shape(to, client, Finished)
  BY <1>4, <1>5, Zenon DEF Rendered, Completed
<1>7. Finished \in BOOLEAN /\ Finished' \in BOOLEAN
  BY DEF Finished
<1>8. ch.kind # "text" => SentText' = SentText
  BY <1>2 DEF Joins, ChunkText, Texts
<1>9. CASE ch.kind = "text"
  <2>. DEFINE fed == ProcessFeed(tags, ch.delta)
  <2>1. tags'.buf = fed.buf /\ client' = RenderText(client, fed.text)
    BY <1>9, QuietIs
  <2>2. ch.delta \in Texts /\ ChunkText(ch) = ch.delta
    BY <1>1, <1>9, ChunkForms DEF ChunkText
  <2>3. fed.text \in Texts
    BY <1>1, <2>2, FeedShows, Zenon
  <2>4. Finished = FALSE /\ Finished' = FALSE
    BY <1>3, <1>5, <1>7, <1>9
  <2>5. fed.buf # <<>> => OpenEnded(tags.buf \o ch.delta)
    BY <1>1, <2>2, FeedHolds
  <2>. HIDE DEF fed
  <2>6. Shape(to, client', FALSE) /\ client'.toolId = client.toolId
    BY <1>1, <1>6, <2>1, <2>3, <2>4, ShapeShown, Zenon
  <2>7. Shape(to', client', Finished')
    BY <1>1, <2>4, <2>6, Zenon
  <2>8. "text" \in Kinds'
    BY <1>2, <1>9
  <2>9. tags'.buf # <<>> => OpenEnded(SentText')
    <3>. SUFFICES ASSUME fed.buf # <<>> PROVE OpenEnded(SentText')
      BY <2>1
    <3>1. tags.buf \in Texts
      BY <1>1, TagSymbols DEF FilterState, Held1
    <3>2. tags.buf # <<>> => OpenEnded(SentText)
      BY <1>4 DEF Rendered
    <3>3. OpenEnded(SentText \o ch.delta)
      BY <1>2, <2>2, <2>5, <3>1, <3>2, EndsOpen
    <3>. QED
      BY <1>2, <2>2, <3>3, Zenon DEF Joins
  <2>10. client'.toolId # 0 => calls' # <<>>
    BY <1>1, <1>4, <2>6 DEF Rendered
  <2>. QED
    BY <2>7, <2>8, <2>9, <2>10 DEF Rendered
<1>10. ASSUME Shape(to, client', Finished') \/ Completed', tags'.buf = tags.buf, ch.kind # "text",
              client'.block = client.block, client'.toolId # 0 => client.toolId # 0 \/ calls # <<>>
       PROVE  Rendered'
  <2>1. client'.block \/ tags'.buf # <<>> => "text" \in Kinds'
    BY <1>2, <1>4, <1>10 DEF Rendered
  <2>2. client'.toolId # 0 => calls' # <<>>
    BY <1>1, <1>4, <1>10 DEF Rendered
  <2>3. tags'.buf # <<>> => OpenEnded(SentText')
    BY <1>4, <1>8, <1>10 DEF Rendered
  <2>4. Shape(to', client', Finished') \/ Completed'
    BY <1>1, <1>10
  <2>. QED
    BY <2>1, <2>2, <2>3, <2>4 DEF Rendered
<1>11. CASE ch.kind = "thinking"
  <2>1. ch = Thinking
    BY <1>1, <1>11, ChunkForms, ChunkKinds
  <2>2. tags' = tags /\ client' = RenderStreamChunk(to, client, Thinking)
    BY <1>11, <2>1, QuietIs
  <2>3. Finished = FALSE /\ Finished' = FALSE
    BY <1>3, <1>5, <1>7, <1>11
  <2>4. Shape(to, client', FALSE) /\ client'.toolId = client.toolId /\ client'.block = client.block
    BY <1>1, <1>6, <2>2, <2>3, ShapeThinking, Zenon
  <2>. QED
    BY <1>10, <1>11, <2>2, <2>3, <2>4, Zenon
<1>12. CASE ch.kind = "usage"
  <2>1. ch = Usage
    BY <1>1, <1>12, ChunkForms, ChunkKinds
  <2>2. tags' = tags /\ client' = RenderStreamChunk(to, client, Usage)
    BY <1>12, <2>1, QuietIs
  <2>3. Finished' = Finished
    BY <1>3, <1>7, <1>12
  <2>4. CASE to # "responses"
    <3>1. Shape(to, client', Finished) /\ client'.toolId = client.toolId /\ client'.block = client.block
      BY <1>1, <1>6, <1>7, <2>2, <2>4, ShapeUsage
    <3>. QED
      BY <1>10, <1>12, <2>2, <2>3, <3>1
  <2>5. CASE to = "responses"
    <3>1. Finished = TRUE
      BY <1>2, <1>7, <1>12, <2>5
    <3>2. Shape("responses", client, TRUE)
      BY <1>6, <2>5, <3>1, Zenon
    <3>3. /\ client'.completed /\ client'.started
          /\ client'.toolId = client.toolId /\ client'.block = client.block
          /\ \E evs \in Seq(EventSet) :
               client'.out = evs \o <<Event("completed")>> /\ Log("responses", evs, {}, TRUE)
      BY <2>2, <2>5, <3>2, UsageCompletes, Zenon
    <3>4. Finished' /\ Last(sent').kind = "usage" /\ to' = "responses"
      BY <1>1, <1>2, <1>12, <2>3, <2>5, <3>1
    <3>5. \E evs \in Seq(EventSet) :
            client'.out = evs \o <<Event("completed")>> /\ Log(to', evs, {}, TRUE)
      BY <3>3, <3>4, Zenon
    <3>6. Completed'
      BY <3>3, <3>4, <3>5, Zenon DEF Completed
    <3>. QED
      BY <1>10, <1>12, <2>2, <3>3, <3>6
  <2>. QED
    BY <2>4, <2>5
<1>13. CASE ch.kind = "finish"
  <2>1. ch = Finish
    BY <1>1, <1>13, ChunkForms, ChunkKinds
  <2>2. PICK out \in SetToSeqs(Flush(buffers)) :
          tags' = Render(out).tags /\ client' = RenderStreamChunk(to, Render(out).client, Finish)
    BY <1>13, <2>1, QuietIs
  <2>3. Finished = FALSE /\ Finished' = TRUE
    BY <1>3, <1>5, <1>7, <1>13
  <2>4. (\A b \in buffers : b.id # 0) /\ (calls = <<>> => buffers = {})
    BY DEF TypeInv
  <2>. DEFINE x == Render(out)
  <2>5. /\ Shape(to, x.client, FALSE) /\ x.tags = tags /\ x.client.block = client.block
        /\ buffers = {} => x = [tags |-> tags, client |-> client]
    BY <1>1, <1>6, <2>2, <2>3, <2>4, ShapeFlush, Zenon
  <2>6. tags' = x.tags /\ client' = RenderStreamChunk(to, x.client, Finish)
    BY <2>2
  <2>. HIDE DEF x
  <2>7. Shape(to, client', TRUE) /\ client'.toolId = x.client.toolId /\ client'.block = x.client.block
    BY <1>1, <2>5, <2>6, ShapeFinish, Zenon
  <2>8. client'.toolId # 0 => client.toolId # 0 \/ calls # <<>>
    BY <2>4, <2>5, <2>7
  <2>9. Shape(to, client', Finished')
    BY <2>3, <2>7, Zenon
  <2>. QED
    BY <1>10, <1>13, <2>5, <2>6, <2>7, <2>8, <2>9
<1>14. ch.kind \in {"text", "thinking", "usage", "finish"}
  BY <1>1, ChunkForms, ChunkKinds DEF Quiet
<1>. QED
  BY <1>9, <1>11, <1>12, <1>13, <1>14

LEMMA QuietWell ==
  ASSUME TypeInv, WellInv, NEW ch, Quiet(ch)
  PROVE  WellInv'
<1>1. /\ ch \in ChunkSet /\ sent' = Append(sent, ch) /\ calls' = calls /\ from' = from /\ to' = to
      /\ phase = "streaming" /\ phase' = "streaming"
      /\ ch.kind # "finish" => buffers' = buffers
  BY QuietIs
<1>2. \A k : k \in Kinds' <=> k \in Kinds \/ k = ch.kind
  BY <1>1, SentGrows
<1>3. calls' # <<>> => "tool" \in Kinds'
  BY <1>1, <1>2 DEF WellInv
<1>4. ASSUME ~Finished' PROVE Expecting'
  <2>1. ~Finished /\ buffers' = buffers
    BY <1>1, <1>4, FinishedIs
  <2>2. Expecting
    BY <1>1, <2>1 DEF WellInv
  <2>. QED
    BY <1>1, <2>1, <2>2 DEF Expecting
<1>5. UsageLast' => Rendered'
  BY QuietRendered
<1>. QED
  BY <1>1, <1>3, <1>4, <1>5 DEF WellInv

\* What a fragment that is held does to the client's side: calls may come out.
LEMMA HeldRendered ==
  ASSUME TypeInv, WellInv, NEW c \in CallSet, CanSend, ~Finished, Receive(Tool(c.ix, c.id, c.args)),
         calls' # <<>>, c.id # 0 \/ \E b \in buffers : b.ix = c.ix
  PROVE  /\ ~Finished' /\ "tool" \in Kinds' /\ (UsageLast' => Rendered')
         /\ \E b \in buffers' : b.ix = c.ix
         /\ \A b \in buffers : \E a \in buffers' : a.ix = b.ix
         /\ from' = from /\ to' = to /\ phase = "streaming" /\ phase' = "streaming"
<1>. DEFINE ch == Tool(c.ix, c.id, c.args)
            p == Process(buffers, ch)
<1>1. ch \in ChunkSet /\ Receive(ch) /\ ch.kind = "tool" /\ ChunkText(ch) = <<>>
  BY ChunkKinds DEF ChunkSet, ChunkText
<1>2. /\ to \in Dialects /\ tags \in FilterState /\ client \in RenderState /\ Buffered(buffers)
      /\ \A b \in buffers : b.id # 0
      /\ calls = <<>> => buffers = {}
  BY StreamRenderAssumption DEF TypeInv
<1>3. p = ProcessTool(buffers, ch)
  BY <1>1 DEF Process
<1>4. ToolStep(buffers, c, ch, p)
  BY <1>2, <1>3, ProcessToolIs
<1>. HIDE DEF p, ch
<1>5. /\ p.pass = <<>> /\ \E b \in p.held : b.ix = c.ix
      /\ \A b \in buffers : \E a \in p.held : a.ix = b.ix
      /\ \E S \in SUBSET buffers : p.out = Flush(S)
  BY <1>2, <1>4, IndexKept
<1>6. /\ sent' = Append(sent, ch) /\ buffers' = p.held
      /\ from' = from /\ to' = to /\ phase' = phase /\ phase = "streaming"
      /\ \E out \in SetToSeqs(p.out) :
           LET r == Render(out \o p.pass) IN tags' = r.tags /\ client' = r.client
  BY <1>1, ReceiveIs DEF p
<1>7. /\ \A k : k \in Kinds' <=> k \in Kinds \/ k = ch.kind
      /\ UsageLast' => UsageLast
      /\ SentText \in Texts /\ Joins(SentText', SentText, ChunkText(ch))
  BY <1>1, <1>6, SentGrows
<1>8. SentText' = SentText
  BY <1>1, <1>7 DEF Joins, Texts
<1>9. ~Finished' /\ "tool" \in Kinds'
  BY <1>1, <1>7 DEF Finished
<1>10. Finished = FALSE /\ Finished' = FALSE
  BY <1>9 DEF Finished
<1>11. PICK out \in SetToSeqs(p.out) :
         tags' = Render(out \o p.pass).tags /\ client' = Render(out \o p.pass).client
  BY <1>6
<1>12. PICK S \in SUBSET buffers : p.out = Flush(S)
  BY <1>5
<1>13. Buffered(S)
  BY <1>2, SubBuffered
<1>14. out \in SetToSeqs(Flush(S)) /\ out \in Seq(ChunkSet)
  BY <1>11, <1>12, <1>13, FlushedCalls
<1>15. out \o p.pass = out
  BY <1>5, <1>14
<1>. DEFINE x == Render(out)
<1>16. tags' = x.tags /\ client' = x.client
  BY <1>11, <1>15
<1>17. ASSUME UsageLast' PROVE Rendered'
  <2>1. Rendered /\ Shape(to, client, FALSE)
    BY <1>6, <1>7, <1>10, <1>17, Zenon DEF WellInv, Rendered, Completed
  <2>2. /\ Shape(to, x.client, FALSE) /\ x.tags = tags /\ x.client.block = client.block
    BY <1>2, <1>13, <1>14, <2>1, ShapeFlush, Zenon
  <2>. HIDE DEF x
  <2>3. Shape(to', client', Finished')
    BY <1>6, <1>10, <1>16, <2>2, Zenon
  <2>4. client'.block \/ tags'.buf # <<>> => "text" \in Kinds'
    BY <1>7, <1>16, <2>1, <2>2 DEF Rendered
  <2>5. tags'.buf # <<>> => OpenEnded(SentText')
    BY <1>8, <1>16, <2>1, <2>2 DEF Rendered
  <2>. QED
    BY <2>3, <2>4, <2>5 DEF Rendered
<1>. QED
  BY <1>5, <1>6, <1>9, <1>17

LEMMA CallingWell ==
  ASSUME TypeInv, WellInv, NEW c, Calling(c)
  PROVE  WellInv'
<1>1. /\ CanSend /\ Receive(Tool(c.ix, c.id, c.args)) /\ c \in CallSet /\ c.id # 0
      /\ DOMAIN calls' = DOMAIN calls \cup {Len(calls')} /\ Len(calls') = Len(calls) + 1
      /\ calls'[Len(calls')] = c /\ \A j \in DOMAIN calls : calls'[j] = calls[j]
  BY CallingIs, Zenon
<1>2. ~Finished
  BY DEF Calling
<1>3. calls' # <<>>
  <2>1. Len(calls) \in Nat
    BY DEF TypeInv
  <2>2. Len(calls') # 0
    BY <1>1, <2>1
  <2>. QED
    BY <2>2
<1>4. /\ ~Finished' /\ "tool" \in Kinds' /\ (UsageLast' => Rendered')
      /\ \E b \in buffers' : b.ix = c.ix
      /\ \A b \in buffers : \E a \in buffers' : a.ix = b.ix
      /\ from' = from /\ phase = "streaming" /\ phase' = "streaming"
  BY <1>1, <1>2, <1>3, HeldRendered
<1>5. Expecting'
  <2>1. Expecting
    BY <1>2, <1>4 DEF WellInv
  <2>2. ASSUME from = "openai", NEW j \in DOMAIN calls' PROVE \E b \in buffers' : b.ix = calls'[j].ix
    <3>1. CASE j = Len(calls')
      BY <1>1, <1>4, <3>1
    <3>2. CASE j \in DOMAIN calls
      <4>1. PICK b \in buffers : b.ix = calls[j].ix
        BY <2>1, <2>2, <3>2 DEF Expecting
      <4>. QED
        BY <1>1, <1>4, <3>2, <4>1
    <3>. QED
      BY <1>1, <3>1, <3>2
  <2>3. \E b \in buffers' : b.ix = calls'[Len(calls')].ix
    BY <1>1, <1>4
  <2>. QED
    BY <1>4, <2>2, <2>3 DEF Expecting
<1>. QED
  BY <1>4, <1>5 DEF WellInv

LEMMA AddingWell ==
  ASSUME TypeInv, WellInv, NEW n, NEW id, NEW args, Adding(n, id, args)
  PROVE  WellInv'
<1>. DEFINE b0 == calls[n]
            c == [ix |-> b0.ix, id |-> id, args |-> args]
<1>1. /\ CanSend /\ Receive(Tool(b0.ix, id, args)) /\ b0 \in CallSet
      /\ Len(calls') = Len(calls) /\ DOMAIN calls' = DOMAIN calls
      /\ calls'[n].ix = b0.ix /\ \A j \in DOMAIN calls \ {n} : calls'[j] = calls[j]
  BY AddingIs, Zenon
<1>2. /\ ~Finished /\ n \in DOMAIN calls /\ args \in Args
      /\ id = IF from = "kiro" THEN b0.id ELSE 0
      /\ from \in {"openai", "anthropic", "responses", "kiro"}
      /\ from # "openai" => n = Len(calls)
  BY DEF Adding
<1>3. b0.id # 0 /\ calls # <<>> /\ phase = "streaming"
  BY <1>1, <1>2 DEF TypeInv, CanSend
<1>4. Expecting
  BY <1>2, <1>3 DEF WellInv
<1>. HIDE DEF b0
<1>5. c \in CallSet /\ c.ix = b0.ix /\ c.id = id /\ c.args = args
  BY <1>1, <1>2 DEF CallSet
<1>6. id # 0 \/ \E b \in buffers : b.ix = b0.ix
  <2>1. CASE from = "kiro"
    BY <1>2, <1>3, <2>1
  <2>2. CASE from = "openai"
    BY <1>2, <1>4, <2>2 DEF Expecting, b0
  <2>3. CASE from \in {"anthropic", "responses"}
    BY <1>2, <1>3, <1>4, <2>3 DEF Expecting, b0
  <2>. QED
    BY <1>2, <2>1, <2>2, <2>3
<1>7. calls' # <<>>
  BY <1>1, <1>2
<1>. HIDE DEF c
<1>8. /\ ~Finished' /\ "tool" \in Kinds' /\ (UsageLast' => Rendered')
      /\ \A b \in buffers : \E a \in buffers' : a.ix = b.ix
      /\ from' = from /\ phase = "streaming" /\ phase' = "streaming"
  BY <1>1, <1>2, <1>5, <1>6, <1>7, HeldRendered
<1>9. \A j \in DOMAIN calls : calls'[j].ix = calls[j].ix
  BY <1>1 DEF b0
<1>10. Expecting'
  <2>1. ASSUME from = "openai", NEW j \in DOMAIN calls' PROVE \E b \in buffers' : b.ix = calls'[j].ix
    <3>1. PICK b \in buffers : b.ix = calls[j].ix
      BY <1>1, <1>4, <2>1 DEF Expecting
    <3>. QED
      BY <1>1, <1>8, <1>9, <2>1, <3>1
  <2>2. ASSUME from \in {"anthropic", "responses"} PROVE \E b \in buffers' : b.ix = calls'[Len(calls')].ix
    <3>1. PICK b \in buffers : b.ix = calls[Len(calls)].ix
      BY <1>3, <1>4, <2>2 DEF Expecting
    <3>2. Len(calls) \in DOMAIN calls /\ Len(calls') = Len(calls)
      BY <1>1, <1>2, <2>2
    <3>. QED
      BY <1>8, <1>9, <3>1, <3>2
  <2>. QED
    BY <1>8, <2>1, <2>2 DEF Expecting
<1>. QED
  BY <1>8, <1>10 DEF WellInv

\* What WellFormed asks of a log of a dialect, after a finish or without one.
Sound(d, evs, fin) ==
  /\ d \in Itemized =>
       /\ \A i \in DOMAIN evs : evs[i].ev \in {"text", "args"} =>
            \E j \in DOMAIN evs : OpenIn(d, evs, j, i) /\ Inside(d, evs[i], evs[j])
       /\ \A i \in DOMAIN evs : fin /\ evs[i].ev = (IF d = "anthropic" THEN "finish" ELSE "completed") =>
            \A j \in 1..i : ~OpenIn(d, evs, j, i)
  /\ \A i \in DOMAIN evs : evs[i].ev \in Openings => \A j \in 1..i - 1 : evs[j].ev = "usage"
  /\ \A i \in DOMAIN evs : evs[i].ev \in Endings => i = Len(evs)
  /\ d = "openai" => Mute(evs) \/ \E i \in DOMAIN evs : evs[i].ev = "role"

\* A log that ends, or is left without an end.
LEMMA SoundLog ==
  ASSUME NEW d \in Dialects, NEW evs, NEW S, NEW begun \in BOOLEAN, Log(d, evs, S, begun), NEW fin \in BOOLEAN,
         fin /\ d \in Itemized => S = {},
         d = "openai" => Mute(evs) \/ \E i \in DOMAIN evs : evs[i].ev = "role",
         NEW e \in EventSet, e.ev \in Endings, NEW out, out = evs \/ out = evs \o <<e>>
  PROVE  Sound(d, out, fin)
<1>1. /\ evs \in Seq(EventSet) /\ Len(evs) \in Nat /\ DOMAIN evs = 1..Len(evs)
      /\ \A i \in DOMAIN evs : evs[i].ev \notin Endings
      /\ Lawful(d, evs) /\ (d \in Itemized => Items(d, evs) = S)
  BY DEF Log, Sans
<1>2. e.ev \notin {"text", "args", "finish"} /\ e.ev \notin Openings
  BY DEF Endings, Openings
<1>3. Lawful(d, evs \o <<e>>)
  BY <1>1, <1>2, LawfulAfter
<1>4. Lawful(d, out)
  BY <1>1, <1>3, Zenon
<1>5. out \in Seq(EventSet) /\ DOMAIN out = 1..Len(out) /\ Len(out) \in Nat
  BY <1>1
<1>. DEFINE all == evs \o <<e>>
            n == Len(evs)
<1>6. /\ DOMAIN all = 1..n + 1 /\ Len(all) = n + 1 /\ all[n + 1] = e
      /\ \A i \in 1..n : all[i] = evs[i] /\ i \in 1..n + 1
      /\ 1..n + 1 = (1..n) \cup {n + 1}
  BY <1>1
<1>7. \A i \in 1..n + 1, j \in 1..n : OpenIn(d, all, j, i) <=> OpenIn(d, evs, j, i)
  BY <1>1, ItemsAfter, Zenon
<1>8. out = evs \/ out = all
  OBVIOUS
<1>. HIDE DEF all
<1>9. \A i \in DOMAIN out : (i \in DOMAIN evs /\ out[i] = evs[i]) \/ (i = n + 1 /\ i = Len(out) /\ out[i] = e)
  <2>1. CASE out = evs
    BY <2>1
  <2>2. CASE out = all
    <3>1. DOMAIN out = (1..n) \cup {n + 1} /\ Len(out) = n + 1 /\ DOMAIN evs = 1..n
      BY <1>1, <1>6, <2>2
    <3>. QED
      BY <1>6, <2>2, <3>1
  <2>. QED
    BY <1>8, <2>1, <2>2
<1>10. \A i \in DOMAIN evs : i \in DOMAIN out /\ out[i] = evs[i]
  BY <1>1, <1>6, <1>8
<1>11. \A i \in 1..n + 1, j \in 1..n : OpenIn(d, out, j, i) <=> OpenIn(d, evs, j, i)
  <2>1. CASE out = evs
    BY <2>1
  <2>2. CASE out = all
    BY <1>7, <2>2
  <2>. QED
    BY <1>8, <2>1, <2>2
<1>. HIDE DEF n
<1>12. ASSUME d \in Itemized, NEW i \in DOMAIN out, out[i].ev \in {"text", "args"}
      PROVE  \E j \in DOMAIN out : OpenIn(d, out, j, i) /\ Inside(d, out[i], out[j])
  BY <1>4, <1>12 DEF Lawful
<1>13. ASSUME d \in Itemized, fin, NEW i \in DOMAIN out,
              out[i].ev = IF d = "anthropic" THEN "finish" ELSE "completed", NEW j \in 1..i
       PROVE  ~OpenIn(d, out, j, i)
  <2>1. CASE d = "anthropic"
    BY <1>4, <1>13, <2>1 DEF Lawful
  <2>2. CASE d # "anthropic"
    <3>1. out[i].ev \in Endings
      BY <1>13, <2>2 DEF Endings
    <3>2. i = n + 1 /\ n \in Nat /\ n = Len(evs)
      BY <1>1, <1>9, <3>1 DEF n
    <3>3. CASE j \in 1..n
      <4>1. j \in DOMAIN evs /\ Items(d, evs) = {}
        BY <1>1, <1>13, <3>2, <3>3
      <4>2. ~OpenIn(d, evs, j, n + 1)
        BY <3>2, <4>1 DEF Items
      <4>3. n + 1 \in 1..n + 1
        BY <3>2
      <4>. QED
        BY <1>11, <3>2, <3>3, <4>2, <4>3
    <3>4. CASE j = i
      <4>1. ~(j < i)
        BY <3>2, <3>4
      <4>. QED
        BY <4>1 DEF OpenIn
    <3>. QED
      BY <3>2, <3>3, <3>4
  <2>. QED
    BY <2>1, <2>2
<1>14. \A i \in DOMAIN out : out[i].ev \in Openings => \A j \in 1..i - 1 : out[j].ev = "usage"
  BY <1>4 DEF Lawful
<1>15. \A i \in DOMAIN out : out[i].ev \in Endings => i = Len(out)
  BY <1>1, <1>9
<1>16. d = "openai" => Mute(out) \/ \E i \in DOMAIN out : out[i].ev = "role"
  <2>1. Mute(evs) => Mute(out)
    BY <1>2, <1>9 DEF Mute
  <2>. QED
    BY <1>10, <2>1
<1>. QED
  BY <1>12, <1>13, <1>14, <1>15, <1>16 DEF Sound

\* A sound log is well formed.
LEMMA SoundIsWell ==
  ASSUME TypeInv', Sound(to', client'.out, Finished')
  PROVE  WellFormed'
<1>. DEFINE d == to'
            evs == client'.out
<1>1. evs \in Seq(EventSet)
  BY DEF TypeInv, RenderState
<1>2. Events' = evs
  BY DEF Events
<1>3. \A i, j : OpenAt(j, i)' <=> OpenIn(d, evs, j, i)
  BY <1>2 DEF OpenAt, Closes, OpenIn, Shuts, Opens
<1>4. \A i : InItem(i)' <=> \E j \in DOMAIN evs : OpenIn(d, evs, j, i) /\ Inside(d, evs[i], evs[j])
  <2>1. \A i, j : Piece(Events[i], Events[j])' <=> Inside(d, evs[i], evs[j])
    BY <1>2 DEF Piece, Inside, Key, Named
  <2>. QED
    BY <1>2, <1>3, <2>1, Zenon DEF InItem
<1>5. \A name : Where(name)' = {i \in DOMAIN evs : evs[i].ev = name}
  BY <1>2 DEF Where
<1>6. ToldText' # <<>> => ~Mute(evs)
  <2>1. ToldText' = TextOf(evs)
    BY DEF ToldText, TextOf, TextPart, Events
  <2>. QED
    BY <1>1, <2>1, MuteText
<1>. HIDE DEF d, evs
<1>7. Sound(d, evs, Finished')
  BY DEF d, evs
<1>8. ASSUME d \in {"anthropic", "responses"}
      PROVE  /\ (\A i \in Where("text") \cup Where("args") : InItem(i))'
             /\ (\A i \in Where(IF to = "anthropic" THEN "finish" ELSE "completed") :
                   Finished => \A j \in 1..i : ~OpenAt(j, i))'
  <2>1. d \in Itemized
    BY <1>8 DEF Itemized
  <2>2. ASSUME NEW i \in (Where("text") \cup Where("args"))' PROVE InItem(i)'
    <3>1. i \in DOMAIN evs /\ evs[i].ev \in {"text", "args"}
      BY <1>5, <2>2
    <3>. QED
      BY <1>4, <1>7, <2>1, <3>1 DEF Sound
  <2>3. ASSUME NEW i \in Where(IF to = "anthropic" THEN "finish" ELSE "completed")', Finished', NEW j \in 1..i
        PROVE  ~OpenAt(j, i)'
    <3>1. i \in DOMAIN evs /\ evs[i].ev = IF d = "anthropic" THEN "finish" ELSE "completed"
      BY <1>5, <2>3 DEF d
    <3>2. ~OpenIn(d, evs, j, i)
      BY <1>7, <2>1, <2>3, <3>1 DEF Sound
    <3>. QED
      BY <1>3, <3>2
  <2>. QED
    BY <2>2, <2>3
<1>9. (\A opening \in {"role", "message_start", "created"}, i \in DOMAIN Events :
         i \in Where(opening) => \A j \in 1..i - 1 : Events[j].ev = "usage")'
  <2>1. \A opening \in {"role", "message_start", "created"}, i \in DOMAIN evs :
           i \in Where(opening)' => \A j \in 1..i - 1 : evs[j].ev = "usage"
    BY <1>5, <1>7 DEF Sound, Openings
  <2>. QED
    BY <1>2, <2>1
<1>10. (\A last \in {"done", "completed"} : Where(last) \subseteq {Len(Events)})'
  <2>1. \A last \in {"done", "completed"} : Where(last)' \subseteq {Len(evs)}
    BY <1>5, <1>7 DEF Sound, Endings
  <2>. QED
    BY <1>2, <2>1
<1>11. (to = "openai" /\ ToldText # <<>> => Where("role") # {})'
  BY <1>5, <1>6, <1>7 DEF Sound, d
<1>. QED
  BY <1>8, <1>9, <1>10, <1>11 DEF WellFormed, d

\* The terminal event of a stream leaves a sound log.
LEMMA DoneSound ==
  ASSUME NEW d \in Dialects, NEW fin \in BOOLEAN, NEW s, Shape(d, s, fin),
         d = "anthropic" => ~(s.block /\ s.toolId # 0)
  PROVE  Sound(d, RenderStreamDone(d, s).out, fin)
<1>. DEFINE S == Known(d, s, fin)
            begun == Begun(d, s, fin)
            r == RenderStreamDone(d, s)
            q == [s EXCEPT !.completed = TRUE]
<1>1. s \in RenderState /\ s.completed = FALSE /\ s.role \in BOOLEAN /\ s.started \in BOOLEAN
  BY Typed, Zenon
<1>2. Log(d, s.out, S, begun)
  BY DEF Shape
<1>3. fin => S = {}
  BY DEF Known
<1>4. begun \in BOOLEAN
  BY <1>1, Zenon DEF Begun
<1>5. d = "openai" => Mute(s.out) \/ \E i \in DOMAIN s.out : s.out[i].ev = "role"
  BY DEF Shape
<1>6. \A name \in Endings : Event(name) \in EventSet /\ Event(name).ev = name
  <2>1. \A name \in Endings : name \in EventNames
    BY DEF Endings, EventNames
  <2>. QED
    BY <2>1, EventTypes, Zenon DEF Event
<1>7. q \in RenderState /\ q.out = s.out
  BY <1>1, Updates, Zenon
<1>. HIDE DEF q
<1>8. \/ r = s
      \/ r = Emit(s, <<Event("done")>>)
      \/ r = Emit(q, <<Event("completed")>>)
  BY DEF RenderStreamDone, Complete, Dialects, q
<1>. HIDE DEF S, begun, r
<1>9. \E e \in EventSet : e.ev \in Endings /\ (r.out = s.out \/ r.out = s.out \o <<e>>)
  <2>1. {"done", "completed"} = Endings
    BY DEF Endings
  <2>2. CASE r = s
    BY <1>6, <2>1, <2>2
  <2>3. CASE r = Emit(s, <<Event("done")>>)
    <3>. DEFINE e == Event("done")
    <3>1. e \in EventSet /\ e.ev \in Endings
      BY <1>6, <2>1
    <3>. HIDE DEF e
    <3>2. <<e>> \in Seq(EventSet)
      BY <3>1
    <3>3. r.out = s.out \o <<e>>
      BY <1>1, <2>3, <3>2, EmitIs, Zenon DEF e
    <3>. QED
      BY <3>1, <3>3, Zenon
  <2>4. CASE r = Emit(q, <<Event("completed")>>)
    <3>. DEFINE e == Event("completed")
    <3>1. e \in EventSet /\ e.ev \in Endings
      BY <1>6, <2>1
    <3>. HIDE DEF e
    <3>2. <<e>> \in Seq(EventSet)
      BY <3>1
    <3>3. r.out = s.out \o <<e>>
      BY <1>7, <2>4, <3>2, EmitIs, Zenon DEF e
    <3>. QED
      BY <3>1, <3>3, Zenon
  <2>. QED
    BY <1>8, <2>2, <2>3, <2>4, Zenon
<1>10. PICK e \in EventSet : e.ev \in Endings /\ (r.out = s.out \/ r.out = s.out \o <<e>>)
  BY <1>9, Zenon
<1>11. Sound(d, r.out, fin)
  BY <1>2, <1>3, <1>4, <1>5, <1>10, SoundLog
<1>. QED
  BY <1>11 DEF r

LEMMA EndSound ==
  ASSUME TypeInv, CallInv, WellInv, End, Plain
  PROVE  Sound(to, client'.out, Finished)
<1>1. /\ to \in Dialects /\ tags \in FilterState /\ client \in RenderState /\ Buffered(buffers)
      /\ \A b \in buffers : b.id # 0
      /\ calls = <<>> => buffers = {}
  BY StreamRenderAssumption DEF TypeInv
<1>2. PICK out \in SetToSeqs(Flush(buffers)) :
        client' = RenderStreamDone(to, RenderText(Render(out).client, FlushTags(Render(out).tags).text))
  BY DEF End
<1>3. phase = "streaming" /\ Finished \in BOOLEAN
  BY DEF End, Finished
<1>4. UsageLast
  BY DEF Plain, UsageLast
<1>5. Rendered
  BY <1>3, <1>4 DEF WellInv
<1>. DEFINE x == Render(out)
            text == FlushTags(x.tags).text
            s == RenderText(x.client, text)
<1>6. text = (IF x.tags.thinking THEN <<>> ELSE x.tags.buf) /\ client' = RenderStreamDone(to, s)
  BY <1>2 DEF FlushTags
<1>7. buffers = {} => x = [tags |-> tags, client |-> client]
  <2>. SUFFICES ASSUME buffers = {} PROVE x = [tags |-> tags, client |-> client]
    OBVIOUS
  <2>1. out = <<>>
    BY <1>1, FlushedCalls
  <2>2. <<>> \in Seq(ChunkSet) /\ Thinking \in ChunkSet
    BY DEF ChunkSet
  <2>3. Render(<<>>) = [tags |-> tags, client |-> client]
    BY <1>1, <2>2, RenderOnto, Zenon
  <2>. QED
    BY <2>1, <2>3
<1>8. Finished => buffers = {} /\ tags.buf = <<>>
  <2>1. Finished => buffers = {}
    BY DEF CallInv
  <2>2. Finished => ~OpenEnded(SentText)
    BY DEF Plain, OpenEnded
  <2>. QED
    BY <1>5, <2>1, <2>2 DEF Rendered
<1>9. to = "anthropic" /\ calls # <<>> => ~client.block /\ tags.buf = <<>>
  <2>1. calls # <<>> => "tool" \in Kinds
    BY DEF WellInv
  <2>2. to = "anthropic" => ~("text" \in Kinds /\ "tool" \in Kinds)
    BY DEF Plain
  <2>. QED
    BY <1>5, <2>1, <2>2 DEF Rendered
<1>10. CASE Shape(to, client, Finished) /\ Finished
  <2>. HIDE DEF x
  <2>1. x.tags = tags /\ x.client = client
    BY <1>7, <1>8, <1>10
  <2>2. text = <<>>
    BY <1>6, <1>8, <1>10, <2>1
  <2>3. s = client
    BY <2>1, <2>2 DEF RenderText
  <2>4. to = "anthropic" => ~(client.block /\ client.toolId # 0)
    BY <1>5, <1>9 DEF Rendered
  <2>. HIDE DEF s
  <2>. QED
    BY <1>1, <1>3, <1>6, <1>10, <2>3, <2>4, DoneSound, Zenon
<1>11. CASE Shape(to, client, Finished) /\ ~Finished
  <2>1. Finished = FALSE /\ Shape(to, client, FALSE)
    BY <1>3, <1>11, Zenon
  <2>2. Shape(to, x.client, FALSE) /\ x.tags = tags /\ x.client.block = client.block
    BY <1>1, <1>2, <2>1, ShapeFlush, Zenon
  <2>. HIDE DEF x
  <2>3. text \in Texts
    BY <1>1, <1>6, <2>2, TagSymbols DEF FilterState, Held1
  <2>4. to = "anthropic" /\ calls # <<>> => s = x.client /\ ~x.client.block
    BY <1>6, <1>9, <2>2 DEF RenderText
  <2>5. calls = <<>> => x.client.toolId = 0
    <3>1. calls = <<>> => x.client = client
      BY <1>1, <1>7
    <3>. QED
      BY <1>5, <3>1 DEF Rendered
  <2>. HIDE DEF text
  <2>6. Shape(to, s, FALSE) /\ s.toolId = x.client.toolId
    BY <1>1, <2>2, <2>3, ShapeShown, Zenon
  <2>. HIDE DEF s
  <2>7. to = "anthropic" => ~(s.block /\ s.toolId # 0)
    BY <2>4, <2>5, <2>6
  <2>. QED
    BY <1>1, <1>6, <2>1, <2>6, <2>7, DoneSound, Zenon
<1>12. CASE Completed
  <2>. HIDE DEF x
  <2>1. Finished = TRUE /\ to = "responses" /\ client.completed /\ client.started
    BY <1>3, <1>12 DEF Completed
  <2>2. x.tags = tags /\ x.client = client
    BY <1>7, <1>8, <2>1
  <2>3. text = <<>>
    BY <1>6, <1>8, <2>1, <2>2
  <2>4. s = client
    BY <2>2, <2>3 DEF RenderText
  <2>. HIDE DEF s
  <2>5. client' = client
    BY <1>6, <2>1, <2>4 DEF RenderStreamDone, Complete
  <2>6. PICK evs \in Seq(EventSet) :
          client.out = evs \o <<Event("completed")>> /\ Log(to, evs, {}, TRUE)
    BY <1>12, Zenon DEF Completed
  <2>. DEFINE e == Event("completed")
  <2>7. e \in EventSet /\ e.ev \in Endings
    BY EventTypes DEF EventNames, Endings, Event
  <2>. HIDE DEF e
  <2>8. client'.out = evs \o <<e>>
    BY <2>5, <2>6 DEF e
  <2>9. Sound(to, client'.out, TRUE)
    BY <1>1, <2>1, <2>6, <2>7, <2>8, SoundLog, Zenon
  <2>. QED
    BY <2>1, <2>9, Zenon
<1>. QED
  BY <1>5, <1>10, <1>11, <1>12 DEF Rendered

LEMMA EndWell ==
  ASSUME TypeInv, CallInv, WellInv, End
  PROVE  WellInv'
<1>1. /\ phase' = "over" /\ to' = to /\ sent' = sent /\ calls' = calls
  BY EndIs
<1>2. /\ Kinds' = Kinds /\ (Finished' <=> Finished) /\ SentText' = SentText
  BY <1>1 DEF Kinds, Finished, SentText
<1>3. Finished' = Finished
  BY <1>2 DEF Finished
<1>4. TypeInv'
  BY TypeStep DEF Next
<1>5. CASE Plain
  <2>1. Sound(to, client'.out, Finished)
    BY <1>5, EndSound
  <2>2. Sound(to', client'.out, Finished')
    BY <1>1, <1>3, <2>1
  <2>3. WellFormed'
    BY <1>4, <2>2, SoundIsWell
  <2>. QED
    BY <1>1, <1>2, <2>3 DEF WellInv
<1>6. CASE ~Plain
  <2>1. ~Plain'
    BY <1>1, <1>2, <1>6 DEF Plain
  <2>2. WellFormed'
    BY <2>1 DEF WellFormed
  <2>. QED
    BY <1>1, <1>2, <2>2 DEF WellInv
<1>. QED
  BY <1>5, <1>6

LEMMA WellStep == TypeInv /\ CallInv /\ WellInv /\ [Next]_vars => WellInv'
<1>. SUFFICES ASSUME TypeInv, CallInv, WellInv, [Next]_vars PROVE WellInv'
  OBVIOUS
<1>1. CASE UNCHANGED vars
  <2>1. /\ from' = from /\ to' = to /\ sent' = sent /\ calls' = calls /\ buffers' = buffers
        /\ tags' = tags /\ client' = client /\ phase' = phase
    BY <1>1 DEF vars
  <2>2. Kinds' = Kinds /\ (Finished' <=> Finished) /\ SentText' = SentText /\ Events' = Events /\ (UsageLast' <=> UsageLast)
    BY <2>1 DEF Kinds, Finished, SentText, Events, UsageLast
  <2>3. Finished' = Finished
    BY <2>2 DEF Finished
  <2>4. Rendered' <=> Rendered
    BY <2>1, <2>2, <2>3 DEF Rendered, Completed
  <2>5. Expecting' <=> Expecting
    BY <2>1 DEF Expecting
  <2>6. WellFormed' <=> WellFormed
    BY <2>1 DEF WellFormed, Plain, Kinds, Finished, SentText, Events, Where, InItem, OpenAt, Piece, Closes, Key,
                ToldText
  <2>. QED
    BY <2>1, <2>2, <2>4, <2>5, <2>6 DEF WellInv
<1>2. CASE End
  BY <1>2, EndWell
<1>3. CASE Fail
  <2>1. phase' = "failed" /\ sent' = sent /\ calls' = calls
    BY <1>3, FailIs
  <2>2. Kinds' = Kinds
    BY <2>1 DEF Kinds
  <2>. QED
    BY <2>1, <2>2 DEF WellInv
<1>4. ASSUME NEW ch, Quiet(ch) PROVE WellInv'
  BY <1>4, QuietWell
<1>5. ASSUME NEW c, Calling(c) PROVE WellInv'
  BY <1>5, CallingWell
<1>6. ASSUME NEW n, NEW id, NEW args, Adding(n, id, args) PROVE WellInv'
  BY <1>6, AddingWell
<1>. QED
  BY <1>1, <1>2, <1>3, <1>4, <1>5, <1>6, Steps

\* Whatever a provider sends, in whatever pieces, and whichever calls the sanitizer
\* holds back or lets out: a stream the renderers are fit for is well formed when it
\* is over.  Its text and arguments are inside items that are open, the items are
\* closed by the finish, the opening comes first and once, the end last and once.
THEOREM RendersWellFormed == Spec => []WellFormed
<1>1. Init => TypeInv /\ CallInv /\ WellInv
  BY TypeInit, CallInit, WellInit
<1>2. (TypeInv /\ CallInv /\ WellInv) /\ [Next]_vars => (TypeInv /\ CallInv /\ WellInv)'
  BY TypeStep, CallStep, WellStep
<1>3. TypeInv /\ WellInv => WellFormed
  <2>1. CASE phase = "over"
    BY <2>1 DEF WellInv
  <2>2. CASE phase # "over"
    BY <2>2 DEF WellFormed
  <2>. QED
    BY <2>1, <2>2
<1>. QED
  BY <1>1, <1>2, <1>3, PTL DEF Spec
=============================================================================

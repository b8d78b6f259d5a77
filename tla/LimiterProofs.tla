--------------------------- MODULE LimiterProofs ---------------------------
(***************************************************************************)
(* Proofs about Limiter.tla, for any set of requests, keys and limits.     *)
(***************************************************************************)
EXTENDS Limiter, FiniteSetTheorems, TLAPS

\* A request that is still being decided holds nothing, and only requests with
\* a key reach the mutex or hold a slot.
Fresh ==
  \A r \in Reqs :
    /\ pc[r] \in {"resolved", "timed"} => r \notin fired /\ ~inc[r]
    /\ pc[r] = "timed" => KeyOf[r] \in Keys
    /\ inc[r] => KeyOf[r] \in Keys

\* The buckets of the current and of later windows hold at least what was
\* admitted in those windows.
Charged ==
  \A k \in Keys, w \in Windows :
    w >= window => /\ granted[k][w].requests <= rpm[k][w]
                   /\ granted[k][w].tokens <= tpm[k][w]

SlotInv == TypeOK /\ Fresh /\ SlotAccounting
---------------------------------------------------------------------------
(* Types *)

LEMMA LimitChoiceType == LimitChoices \subseteq Limits /\ NoReq \in [limits : Limits, tokens : Int, now : Windows]
  BY LimiterAssumption DEF Limits, NoReq, NoLimit, Windows

LEMMA HoldersFinite == ASSUME NEW k PROVE IsFiniteSet(Holders(k))
<1>1. Holders(k) \subseteq Reqs
  BY DEF Holders
<1>2. QED
  BY <1>1, LimiterAssumption, FS_Subset

LEMMA InitTyped == Init => TypeOK /\ Fresh
<1>1. 0 \in Windows
  BY LimiterAssumption DEF Windows
<1>2. QED
  BY <1>1, LimitChoiceType, LimiterAssumption DEF Init, TypeOK, Fresh, Limits

LEMMA ChargeType ==
  ASSUME TypeOK, NEW r \in Reqs
  PROVE  Charge(r) \in Nat \ {0}
  BY DEF TypeOK, Charge

\* Each step of one request keeps the types and Fresh.
LEMMA StepTyped ==
  ASSUME TypeOK, Fresh, NEW r \in Reqs, Step(r)
  PROVE  TypeOK' /\ Fresh'
<1>1. CASE Resolve(r)
  <2>1. PICK t \in Estimates :
          req' = [req EXCEPT ![r] = [limits |-> IF KeyOf[r] = NoKey THEN NoLimit ELSE plan[KeyOf[r]],
                                     tokens |-> t, now |-> 0]]
    BY <1>1 DEF Resolve
  <2>2. (IF KeyOf[r] = NoKey THEN NoLimit ELSE plan[KeyOf[r]]) \in Limits /\ t \in Int
    BY LimiterAssumption DEF TypeOK, Limits, NoLimit
  <2>3. req' \in [Reqs -> [limits : Limits, tokens : Int, now : Windows]]
    BY <2>1, <2>2, LimiterAssumption DEF TypeOK, Windows
  <2>4. QED
    BY <1>1, <2>3 DEF Resolve, TypeOK, Fresh, counters
<1>2. CASE Cancelled(r) \/ Bypass(r)
  BY <1>2, LimitChoiceType DEF Cancelled, Bypass, Return, TypeOK, Fresh, counters
<1>3. CASE ReadClock(r)
  <2>1. req' \in [Reqs -> [limits : Limits, tokens : Int, now : Windows]]
    BY <1>3 DEF ReadClock, TypeOK
  <2>2. KeyOf[r] \in Keys
    BY <1>3, LimiterAssumption DEF ReadClock, Limited
  <2>3. QED
    BY <1>3, <2>1, <2>2 DEF ReadClock, TypeOK, Fresh, counters
<1>4. CASE Grant(r)
  <2>1. KeyOf[r] \in Keys /\ req[r].now \in Windows /\ Charge(r) \in Nat
    BY <1>4, ChargeType DEF Grant, Fresh, TypeOK
  <2>2. rpm' \in [Keys -> [Windows -> Nat]] /\ tpm' \in [Keys -> [Windows -> Nat]]
    BY <1>4, <2>1 DEF Grant, CountRequest, CountTokens, TypeOK
  <2>3. concurrency' \in [Keys -> Nat]
    BY <1>4, <2>1 DEF Grant, TypeOK
  <2>4. granted' \in [Keys -> [Windows -> [requests : Nat, tokens : Nat]]]
    <3>1. /\ granted \in [Keys -> [Windows -> [requests : Nat, tokens : Nat]]]
          /\ window \in Windows
      BY DEF TypeOK
    <3>2. CASE req[r].now # window
      BY <1>4, <3>1, <3>2 DEF Grant, NoteGrant
    <3>3. CASE req[r].now = window
      <4>. DEFINE g == granted[KeyOf[r]][window]
                  n == IF req[r].limits.rpm > 0 THEN g.requests + 1 ELSE g.requests
                  m == IF req[r].limits.tpm > 0 THEN g.tokens + Charge(r) ELSE g.tokens
                  h == [requests |-> n, tokens |-> m]
      <4>1. g \in [requests : Nat, tokens : Nat]
        BY <2>1, <3>1
      <4>2. granted' = [granted EXCEPT ![KeyOf[r]] = [@ EXCEPT ![window] = h]]
        BY <1>4, <2>1, <3>1, <3>3, <4>1 DEF Grant, NoteGrant
      <4>. HIDE DEF g
      <4>3. n \in Nat /\ m \in Nat
        BY <2>1, <4>1
      <4>. HIDE DEF n, m
      <4>4. h \in [requests : Nat, tokens : Nat]
        BY <4>3
      <4>. HIDE DEF h
      <4>. QED
        BY <2>1, <3>1, <4>2, <4>4
    <3>. QED
      BY <3>2, <3>3
  <2>5. inc' = [inc EXCEPT ![r] = Cap(r) > 0] /\ (Cap(r) > 0) \in BOOLEAN
    BY <1>4 DEF Grant, Cap, TypeOK, Limits
  <2>6. QED
    BY <1>4, <2>1, <2>2, <2>3, <2>4, <2>5, LimitChoiceType DEF Grant, Return, TypeOK, Fresh
<1>5. CASE DenyConcurrency(r)
  BY <1>5, LimitChoiceType DEF DenyConcurrency, Deny, Return, TypeOK, Fresh
<1>6. CASE DenyRpm(r)
  BY <1>6, LimitChoiceType DEF DenyRpm, Deny, Return, TypeOK, Fresh
<1>7. CASE DenyTpm(r)
  <2>1. KeyOf[r] \in Keys /\ req[r].now \in Windows
    BY <1>7 DEF DenyTpm, Fresh, TypeOK
  <2>2. rpm' \in [Keys -> [Windows -> Nat]]
    BY <1>7, <2>1 DEF DenyTpm, CountRequest, TypeOK
  <2>3. QED
    BY <1>7, <2>2, LimitChoiceType DEF DenyTpm, Deny, Return, TypeOK, Fresh
<1>8. CASE Release(r)
  <2>1. concurrency' \in [Keys -> Nat]
    BY <1>8 DEF Release, TypeOK, Fresh
  <2>2. QED
    BY <1>8, <2>1 DEF Release, TypeOK, Fresh
<1>9. QED
  BY <1>1, <1>2, <1>3, <1>4, <1>5, <1>6, <1>7, <1>8 DEF Step

\* The steps around the limiter, and stuttering, keep them too.
LEMMA EnvironmentTyped ==
  ASSUME TypeOK, Fresh,
         \/ \E t \in Windows : Cleanup(t)
         \/ NextWindow \/ SetEnabled
         \/ \E k \in Keys : EditPlan(k)
         \/ UNCHANGED vars
  PROVE  TypeOK' /\ Fresh'
<1>1. ASSUME NEW t \in Windows, Cleanup(t) PROVE TypeOK' /\ Fresh'
  BY <1>1 DEF Cleanup, Surviving, TypeOK, Fresh
<1>2. CASE NextWindow
  <2>1. window' \in Windows
    BY <1>2, LimiterAssumption DEF NextWindow, TypeOK, Windows
  <2>2. QED
    BY <1>2, <2>1 DEF NextWindow, TypeOK, Fresh, counters
<1>3. CASE SetEnabled
  BY <1>3 DEF SetEnabled, TypeOK, Fresh, counters
<1>4. ASSUME NEW k \in Keys, EditPlan(k) PROVE TypeOK' /\ Fresh'
  BY <1>4, LimitChoiceType DEF EditPlan, TypeOK, Fresh, counters
<1>5. CASE UNCHANGED vars
  BY <1>5 DEF vars, TypeOK, Fresh
<1>6. QED
  BY <1>1, <1>2, <1>3, <1>4, <1>5

LEMMA NextTyped == TypeOK /\ Fresh /\ [Next]_vars => TypeOK' /\ Fresh'
  BY StepTyped, EnvironmentTyped DEF Next

(* Every variable keeps its type: in particular no counter goes below zero *)
(* and no bucket is addressed under the empty key.                         *)
THEOREM Typing == Spec => []TypeOK
<1>1. Spec => [](TypeOK /\ Fresh)
  BY InitTyped, NextTyped, PTL DEF Spec
<1>2. QED
  BY <1>1, PTL
---------------------------------------------------------------------------
(* Slots *)

\* Who holds a slot after a step of request r: r joins when it is granted one,
\* leaves when its release runs for the first time, and nothing else changes.
LEMMA GrantHolders ==
  ASSUME TypeOK, Fresh, NEW r \in Reqs, Grant(r), NEW k \in Keys
  PROVE  Holders(k)' = IF k = KeyOf[r] /\ Cap(r) > 0 THEN Holders(k) \cup {r} ELSE Holders(k)
<1>1. r \notin fired /\ ~inc[r] /\ pc' = [pc EXCEPT ![r] = "open"] /\ fired' = fired
  BY DEF Grant, Return, Fresh
<1>2. inc' = [inc EXCEPT ![r] = Cap(r) > 0]
  BY DEF Grant
<1>3. ASSUME NEW x \in Reqs, x # r
      PROVE  x \in Holders(k)' <=> x \in Holders(k)
  BY <1>1, <1>2, <1>3 DEF Holders, TypeOK
<1>4. r \in Holders(k)' <=> k = KeyOf[r] /\ Cap(r) > 0
  BY <1>1, <1>2 DEF Holders, TypeOK
<1>5. r \notin Holders(k)
  BY <1>1 DEF Holders
<1>6. Holders(k) \subseteq Reqs /\ Holders(k)' \subseteq Reqs
  BY DEF Holders
<1>7. QED
  BY <1>3, <1>4, <1>5, <1>6

LEMMA ReleaseHolders ==
  ASSUME TypeOK, Fresh, NEW r \in Reqs, Release(r), NEW k \in Keys
  PROVE  /\ Holders(k)' = Holders(k) \ {r}
         /\ r \in Holders(k) <=> k = KeyOf[r] /\ inc[r] /\ r \notin fired
  BY DEF Release, Holders, TypeOK

LEMMA OtherHolders ==
  ASSUME TypeOK, Fresh, NEW r \in Reqs, NEW k \in Keys,
         \/ Resolve(r) \/ Cancelled(r) \/ Bypass(r) \/ ReadClock(r)
         \/ DenyConcurrency(r) \/ DenyRpm(r) \/ DenyTpm(r)
  PROVE  Holders(k)' = Holders(k) /\ concurrency' = concurrency
<1>1. CASE Resolve(r)
  <2>1. r \notin Holders(k)
    BY <1>1 DEF Resolve, Free, Holders
  <2>2. QED
    BY <1>1, <2>1 DEF Resolve, Holders, TypeOK, counters
<1>2. CASE Cancelled(r) \/ Bypass(r)
  BY <1>2 DEF Cancelled, Bypass, Return, Holders, Fresh, TypeOK, counters
<1>3. CASE ReadClock(r)
  BY <1>3 DEF ReadClock, Holders, TypeOK, counters
<1>4. CASE DenyConcurrency(r) \/ DenyRpm(r) \/ DenyTpm(r)
  BY <1>4 DEF DenyConcurrency, DenyRpm, DenyTpm, Deny, Return, Holders, TypeOK
<1>5. QED
  BY <1>1, <1>2, <1>3, <1>4

LEMMA EnvironmentHolders ==
  ASSUME NEW k \in Keys,
         \/ \E t \in Windows : Cleanup(t)
         \/ NextWindow \/ SetEnabled
         \/ \E j \in Keys : EditPlan(j)
         \/ UNCHANGED vars
  PROVE  Holders(k)' = Holders(k) /\ concurrency' = concurrency /\ req' = req
  BY DEF Cleanup, NextWindow, SetEnabled, EditPlan, vars, counters, Holders

LEMMA NextSlots == SlotInv /\ [Next]_vars => SlotAccounting'
<1>. SUFFICES ASSUME SlotInv, [Next]_vars, NEW k \in Keys
              PROVE  concurrency'[k] = Cardinality(Holders(k)')
  BY DEF SlotAccounting
<1>. USE DEF SlotInv
<1>0. /\ concurrency[k] = Cardinality(Holders(k))
      /\ IsFiniteSet(Holders(k))
  BY HoldersFinite DEF SlotAccounting
<1>1. ASSUME NEW r \in Reqs, Grant(r) PROVE concurrency'[k] = Cardinality(Holders(k)')
  <2>1. r \notin Holders(k)
    BY <1>1 DEF Grant, Holders
  <2>2. Cardinality(Holders(k) \cup {r}) = Cardinality(Holders(k)) + 1
    BY <1>0, <2>1, FS_AddElement
  <2>3. concurrency'[k] = IF k = KeyOf[r] /\ Cap(r) > 0 THEN concurrency[k] + 1 ELSE concurrency[k]
    BY <1>1 DEF Grant, TypeOK
  <2>4. QED
    BY <1>0, <1>1, <2>2, <2>3, GrantHolders
<1>2. ASSUME NEW r \in Reqs, Release(r) PROVE concurrency'[k] = Cardinality(Holders(k)')
  <2>1. CASE r \in Holders(k)
    <3>1. k = KeyOf[r] /\ inc[r] /\ r \notin fired
      BY <1>2, <2>1, ReleaseHolders
    <3>2. Cardinality(Holders(k)) \in Nat /\ Cardinality(Holders(k) \ {r}) = Cardinality(Holders(k)) - 1
      BY <1>0, <2>1, FS_RemoveElement, FS_CardinalityType
    <3>3. Cardinality(Holders(k)) # 0
      BY <1>0, <2>1, FS_EmptySet
    <3>4. concurrency'[k] = concurrency[k] - 1
      <4>1. concurrency[k] \in Nat /\ concurrency[k] # 0
        BY <1>0, <3>2, <3>3
      <4>2. concurrency' = [concurrency EXCEPT ![k] = IF @ <= 1 THEN 0 ELSE @ - 1]
        BY <1>2, <3>1 DEF Release
      <4>3. concurrency'[k] = IF concurrency[k] <= 1 THEN 0 ELSE concurrency[k] - 1
        BY <4>2 DEF TypeOK
      <4>4. QED
        BY <4>1, <4>3
    <3>5. QED
      BY <1>0, <1>2, <3>2, <3>4, ReleaseHolders
  <2>2. CASE r \notin Holders(k)
    <3>1. concurrency'[k] = concurrency[k]
      <4>1. ~(k = KeyOf[r] /\ inc[r] /\ r \notin fired)
        BY <1>2, <2>2, ReleaseHolders
      <4>2. QED
        BY <1>2, <4>1 DEF Release, TypeOK
    <3>2. Holders(k)' = Holders(k)
      BY <1>2, <2>2, ReleaseHolders
    <3>3. QED
      BY <1>0, <3>1, <3>2
  <2>3. QED
    BY <2>1, <2>2
<1>3. ASSUME NEW r \in Reqs,
             \/ Resolve(r) \/ Cancelled(r) \/ Bypass(r) \/ ReadClock(r)
             \/ DenyConcurrency(r) \/ DenyRpm(r) \/ DenyTpm(r)
      PROVE  concurrency'[k] = Cardinality(Holders(k)')
  BY <1>0, <1>3, OtherHolders
<1>4. CASE \/ \E t \in Windows : Cleanup(t)
           \/ NextWindow \/ SetEnabled
           \/ \E j \in Keys : EditPlan(j)
           \/ UNCHANGED vars
  BY <1>0, <1>4, EnvironmentHolders
<1>5. QED
  BY <1>1, <1>2, <1>3, <1>4 DEF Next, Step

LEMMA InitSlots == Init => SlotInv
<1>1. ASSUME Init, NEW k \in Keys PROVE concurrency[k] = Cardinality(Holders(k))
  <2>1. Holders(k) = {}
    BY <1>1 DEF Init, Holders
  <2>2. QED
    BY <1>1, <2>1, FS_EmptySet DEF Init
<1>2. QED
  BY <1>1, InitTyped DEF SlotInv, SlotAccounting

(* Memory.concurrency counts exactly the admitted requests whose release has *)
(* not run, whatever the interleaving of Acquire, repeated releases, plan    *)
(* edits and the switch.                                                     *)
THEOREM SlotsAccounted == Spec => []SlotAccounting
<1>1. SlotInv /\ [Next]_vars => SlotInv'
  BY NextTyped, NextSlots DEF SlotInv
<1>2. SlotInv => SlotAccounting
  BY DEF SlotInv
<1>3. QED
  BY <1>1, <1>2, InitSlots, PTL DEF Spec
---------------------------------------------------------------------------
(* Windows *)

LEMMA InitCharged == Init => Charged
  BY DEF Init, Charged

\* Only an admission adds to what was granted, and it charges the buckets the
\* same; the cleanup drops buckets of earlier windows only.
LEMMA NextCharged == TypeOK /\ Fresh /\ Charged /\ [Next]_vars => Charged'
<1>. SUFFICES ASSUME TypeOK, Fresh, Charged, [Next]_vars PROVE Charged'
  OBVIOUS
<1>1. ASSUME NEW r \in Reqs, Grant(r) PROVE Charged'
  <2>1. KeyOf[r] \in Keys /\ req[r].now \in Windows /\ Charge(r) \in Nat
    BY <1>1, ChargeType DEF Grant, Fresh, TypeOK
  <2>2. window' = window /\ window \in Windows
    BY <1>1 DEF Grant, TypeOK
  <2>. SUFFICES ASSUME NEW k \in Keys, NEW w \in Windows, w >= window
                PROVE  /\ granted'[k][w].requests <= rpm'[k][w]
                       /\ granted'[k][w].tokens <= tpm'[k][w]
    BY <2>2 DEF Charged
  <2>3. /\ granted[k][w].requests <= rpm[k][w]
        /\ granted[k][w].tokens <= tpm[k][w]
        /\ granted[k][w] \in [requests : Nat, tokens : Nat]
        /\ rpm[k][w] \in Nat /\ tpm[k][w] \in Nat
    BY DEF Charged, TypeOK
  <2>4. rpm'[k][w] = IF req[r].limits.rpm > 0 /\ k = KeyOf[r] /\ w = req[r].now
                       THEN rpm[k][w] + 1 ELSE rpm[k][w]
    BY <1>1, <2>1 DEF Grant, CountRequest, TypeOK
  <2>5. tpm'[k][w] = IF req[r].limits.tpm > 0 /\ k = KeyOf[r] /\ w = req[r].now
                       THEN tpm[k][w] + Charge(r) ELSE tpm[k][w]
    BY <1>1, <2>1 DEF Grant, CountTokens, TypeOK
  <2>6. CASE req[r].now = window /\ k = KeyOf[r] /\ w = window
    <3>1. /\ granted'[k][w].requests = IF req[r].limits.rpm > 0
                                         THEN granted[k][w].requests + 1 ELSE granted[k][w].requests
          /\ granted'[k][w].tokens = IF req[r].limits.tpm > 0
                                       THEN granted[k][w].tokens + Charge(r) ELSE granted[k][w].tokens
      BY <1>1, <2>1, <2>2, <2>6 DEF Grant, NoteGrant, TypeOK
    <3>2. QED
      BY <2>1, <2>3, <2>4, <2>5, <2>6, <3>1
  <2>7. CASE ~(req[r].now = window /\ k = KeyOf[r] /\ w = window)
    <3>1. granted'[k][w] = granted[k][w]
      BY <1>1, <2>1, <2>2, <2>7 DEF Grant, NoteGrant, TypeOK
    <3>2. QED
      BY <2>1, <2>3, <2>4, <2>5, <3>1
  <2>8. QED
    BY <2>6, <2>7
<1>2. ASSUME NEW r \in Reqs, DenyTpm(r) PROVE Charged'
  <2>1. KeyOf[r] \in Keys /\ req[r].now \in Windows
    BY <1>2 DEF DenyTpm, Fresh, TypeOK
  <2>2. \A k \in Keys, w \in Windows : rpm'[k][w] >= rpm[k][w] /\ rpm'[k][w] \in Nat
    BY <1>2, <2>1 DEF DenyTpm, CountRequest, TypeOK
  <2>3. tpm' = tpm /\ granted' = granted /\ window' = window
    BY <1>2 DEF DenyTpm, Deny
  <2>4. \A k \in Keys, w \in Windows : granted[k][w].requests \in Nat /\ rpm[k][w] \in Nat
    BY DEF TypeOK
  <2>5. QED
    BY <2>2, <2>3, <2>4 DEF Charged
<1>3. ASSUME NEW t \in Windows, Cleanup(t) PROVE Charged'
  BY <1>3 DEF Cleanup, Surviving, Charged, TypeOK, Windows
<1>4. CASE NextWindow
  BY <1>4 DEF NextWindow, Charged, counters, TypeOK, Windows
<1>5. ASSUME NEW r \in Reqs,
             \/ Resolve(r) \/ Cancelled(r) \/ Bypass(r) \/ ReadClock(r)
             \/ DenyConcurrency(r) \/ DenyRpm(r) \/ Release(r)
      PROVE  Charged'
  BY <1>5 DEF Resolve, Cancelled, Bypass, ReadClock, DenyConcurrency, DenyRpm, Release, Deny, counters, Charged
<1>6. CASE SetEnabled \/ (\E k \in Keys : EditPlan(k)) \/ UNCHANGED vars
  BY <1>6 DEF SetEnabled, EditPlan, vars, counters, Charged
<1>7. QED
  BY <1>1, <1>2, <1>3, <1>4, <1>5, <1>6 DEF Next, Step

\* An admission with a current clock reading leaves the window within limits.
LEMMA NextWindowCap ==
  ASSUME TypeOK, Fresh, Charged, [Next]_vars, NEW r \in Reqs,
         pc[r] = "timed", pc'[r] = "open", req[r].now = window
  PROVE  LET g == granted[KeyOf[r]][window]'
             l == req[r].limits
         IN  /\ l.rpm > 0 => g.requests <= l.rpm
             /\ l.tpm > 0 => g.tokens <= l.tpm
<1>1. Grant(r)
  <2>1. ASSUME NEW x \in Reqs, Step(x), x # r PROVE FALSE
    BY <2>1 DEF Step, Resolve, Cancelled, Bypass, ReadClock, Grant, DenyConcurrency, DenyRpm, DenyTpm,
                Deny, Return, Release, TypeOK
  <2>2. ~Resolve(r) /\ ~Bypass(r) /\ ~ReadClock(r) /\ ~Release(r)
    BY DEF Resolve, Free, Bypass, ReadClock, Release
  <2>3. ~Cancelled(r) /\ ~DenyConcurrency(r) /\ ~DenyRpm(r) /\ ~DenyTpm(r)
    BY DEF Cancelled, DenyConcurrency, DenyRpm, DenyTpm, Deny, Return, TypeOK
  <2>4. QED
    BY <2>1, <2>2, <2>3 DEF Next, Step, Cleanup, NextWindow, SetEnabled, EditPlan, vars
<1>2. KeyOf[r] \in Keys /\ window \in Windows /\ Charge(r) \in Nat /\ window' = window
  BY <1>1, ChargeType DEF Grant, Fresh, TypeOK
<1>3. /\ granted'[KeyOf[r]][window].requests =
            IF req[r].limits.rpm > 0 THEN granted[KeyOf[r]][window].requests + 1
                                     ELSE granted[KeyOf[r]][window].requests
      /\ granted'[KeyOf[r]][window].tokens =
            IF req[r].limits.tpm > 0 THEN granted[KeyOf[r]][window].tokens + Charge(r)
                                     ELSE granted[KeyOf[r]][window].tokens
  BY <1>1, <1>2 DEF Grant, NoteGrant, TypeOK
<1>4. /\ granted[KeyOf[r]][window] \in [requests : Nat, tokens : Nat]
      /\ rpm[KeyOf[r]][window] \in Nat /\ tpm[KeyOf[r]][window] \in Nat
      /\ req[r].limits \in [rpm : Nat, tpm : Nat, concurrency : Nat]
      /\ granted[KeyOf[r]][window].requests <= rpm[KeyOf[r]][window]
      /\ granted[KeyOf[r]][window].tokens <= tpm[KeyOf[r]][window]
  <2>1. /\ granted[KeyOf[r]][window] \in [requests : Nat, tokens : Nat]
        /\ rpm[KeyOf[r]][window] \in Nat /\ tpm[KeyOf[r]][window] \in Nat
    BY <1>2 DEF TypeOK
  <2>2. req[r].limits \in [rpm : Nat, tpm : Nat, concurrency : Nat]
    BY DEF TypeOK, Limits
  <2>3. window >= window
    BY <1>2, LimiterAssumption DEF Windows
  <2>4. QED
    BY <1>2, <2>1, <2>2, <2>3 DEF Charged
<1>5. /\ req[r].limits.rpm > 0 => rpm[KeyOf[r]][window] + 1 <= req[r].limits.rpm
      /\ req[r].limits.tpm > 0 => tpm[KeyOf[r]][window] + Charge(r) <= req[r].limits.tpm
  BY <1>1 DEF Grant, RpmFree, TpmFree
<1>6. req[r].limits.rpm > 0 => granted'[KeyOf[r]][window].requests <= req[r].limits.rpm
  BY <1>3, <1>4, <1>5
<1>7. req[r].limits.tpm > 0 => granted'[KeyOf[r]][window].tokens <= req[r].limits.tpm
  BY <1>2, <1>3, <1>4, <1>5
<1>8. QED
  BY <1>2, <1>6, <1>7

(* Admissions whose clock reading is current stay within the request and    *)
(* token limits the request carries, however plans are edited and however   *)
(* late the cleanup loop or another request's stale clock reading comes.    *)
THEOREM WindowsCapped == Spec => WindowCap
<1>1. TypeOK /\ Fresh /\ Charged /\ [Next]_vars => TypeOK' /\ Fresh' /\ Charged'
  BY NextTyped, NextCharged
<1>2. Init => TypeOK /\ Fresh /\ Charged
  BY InitTyped, InitCharged
<1>3. TypeOK /\ Fresh /\ Charged /\ [Next]_vars =>
        [\A r \in Reqs :
           LET g == granted[KeyOf[r]][window]'
               l == req[r].limits
           IN (pc[r] = "timed" /\ pc'[r] = "open" /\ req[r].now = window) =>
                 /\ l.rpm > 0 => g.requests <= l.rpm
                 /\ l.tpm > 0 => g.tokens <= l.tpm]_vars
  BY NextWindowCap
<1>4. QED
  BY <1>1, <1>2, <1>3, PTL DEF Spec, WindowCap
---------------------------------------------------------------------------
(* The pool of slots *)

LEMMA InitPool == Init => Pool!Init
<1>. SUFFICES ASSUME Init PROVE Pool!Init
  OBVIOUS
<1>1. \A k \in Keys : Holders(k) = {}
  BY DEF Init, Holders
<1>2. [r \in Reqs |-> req[r].limits.concurrency] = [r \in Reqs |-> 0]
  BY DEF Init, NoReq, NoLimit
<1>3. QED
  BY <1>1, <1>2 DEF Pool!Init

\* The pool's view of the requests: the concurrency limits they ask under.
Asked == [x \in Reqs |-> req[x].limits.concurrency]
Held  == [k \in Keys |-> Holders(k)]

LEMMA PoolCardinality == ASSUME NEW S PROVE Pool!Cardinality(S) = Cardinality(S)
  BY Zenon DEF Pool!Cardinality, Cardinality

LEMMA AskedCleared ==
  ASSUME TypeOK, NEW r \in Reqs, NEW to, Return(r, to)
  PROVE  Asked' = [Asked EXCEPT ![r] = 0]
<1>1. req' = [req EXCEPT ![r] = NoReq] /\ NoReq.limits.concurrency = 0
  BY DEF Return, NoReq, NoLimit
<1>2. \A x \in Reqs : req'[x].limits.concurrency = IF x = r THEN 0 ELSE req[x].limits.concurrency
  BY <1>1 DEF TypeOK
<1>3. QED
  BY <1>2 DEF Asked

LEMMA StepPool ==
  ASSUME SlotInv, NEW r \in Reqs, Step(r)
  PROVE  Pool!Next \/ UNCHANGED Pool!vars
<1>. USE DEF SlotInv, Asked, Held
<1>1. CASE Grant(r) /\ Cap(r) > 0
  <2>1. KeyOf[r] \in Keys
    BY <1>1 DEF Grant, Fresh
  <2>2. Cardinality(Held[KeyOf[r]]) < Asked[r] /\ Asked[r] > 0
    BY <1>1, <2>1 DEF Grant, SlotFree, Cap, SlotAccounting
  <2>3. Held' = [Held EXCEPT ![KeyOf[r]] = @ \cup {r}]
    BY <1>1, GrantHolders
  <2>4. Asked' = [Asked EXCEPT ![r] = 0]
    BY <1>1, AskedCleared DEF Grant
  <2>5. Pool!Admit(KeyOf[r], r)
    BY <2>2, <2>3, <2>4, PoolCardinality DEF Pool!Admit
  <2>6. QED
    BY <2>1, <2>5 DEF Pool!Next
<1>2. CASE Grant(r) /\ ~(Cap(r) > 0)
  <2>1. Held' = Held
    BY <1>2, GrantHolders
  <2>2. Asked' = [Asked EXCEPT ![r] = 0]
    BY <1>2, AskedCleared DEF Grant
  <2>3. Pool!TurnAway(r)
    BY <2>1, <2>2 DEF Pool!TurnAway
  <2>4. QED
    BY <2>3 DEF Pool!Next
<1>3. CASE Cancelled(r) \/ Bypass(r) \/ DenyConcurrency(r) \/ DenyRpm(r) \/ DenyTpm(r)
  <2>1. Held' = Held
    BY <1>3, OtherHolders
  <2>2. Asked' = [Asked EXCEPT ![r] = 0]
    BY <1>3, AskedCleared DEF Cancelled, Bypass, DenyConcurrency, DenyRpm, DenyTpm, Deny
  <2>3. Pool!TurnAway(r)
    BY <2>1, <2>2 DEF Pool!TurnAway
  <2>4. QED
    BY <2>3 DEF Pool!Next
<1>4. CASE ReadClock(r)
  <2>1. Held' = Held
    BY <1>4, OtherHolders
  <2>2. Asked' = Asked
    BY <1>4 DEF ReadClock, TypeOK
  <2>3. QED
    BY <2>1, <2>2 DEF Pool!vars
<1>5. CASE Resolve(r)
  <2>1. Held' = Held
    BY <1>5, OtherHolders
  <2>2. \A k \in Keys : r \notin Held[k]
    BY <1>5 DEF Resolve, Free, Holders
  <2>3. PICK t \in Estimates :
          req' = [req EXCEPT ![r] = [limits |-> IF KeyOf[r] = NoKey THEN NoLimit ELSE plan[KeyOf[r]],
                                     tokens |-> t, now |-> 0]]
    BY <1>5 DEF Resolve
  <2>. DEFINE cap == IF KeyOf[r] = NoKey THEN 0 ELSE plan[KeyOf[r]].concurrency
  <2>4. Asked' = [Asked EXCEPT ![r] = cap]
    <3>1. \A x \in Reqs : req'[x].limits.concurrency = IF x = r THEN cap ELSE req[x].limits.concurrency
      BY <2>3 DEF NoLimit, TypeOK
    <3>2. QED
      BY <3>1
  <2>5. Pool!Ask(r, cap)
    BY <2>1, <2>2, <2>4 DEF Pool!Ask
  <2>6. cap \in {0} \cup {l.concurrency : l \in LimitChoices}
    BY LimiterAssumption DEF TypeOK
  <2>. HIDE DEF cap
  <2>7. \E c \in {0} \cup {l.concurrency : l \in LimitChoices} : Pool!Ask(r, c)
    BY <2>5, <2>6 DEF Pool!Ask
  <2>8. QED
    BY <2>7 DEF Pool!Next
<1>6. CASE Release(r)
  <2>1. Asked' = Asked
    BY <1>6 DEF Release
  <2>2. CASE \E k \in Keys : r \in Holders(k)
    <3>1. PICK k \in Keys : r \in Holders(k)
      BY <2>2
    <3>2. \A j \in Keys : j # k => r \notin Holders(j)
      BY <3>1 DEF Holders
    <3>3. Held' = [Held EXCEPT ![k] = @ \ {r}]
      <4>1. \A j \in Keys : Holders(j)' = IF j = k THEN Holders(j) \ {r} ELSE Holders(j)
        BY <1>6, <3>2, ReleaseHolders
      <4>2. QED
        BY <4>1
    <3>4. Pool!Leave(k, r)
      BY <2>1, <3>1, <3>3 DEF Pool!Leave
    <3>5. QED
      BY <3>4 DEF Pool!Next
  <2>3. CASE \A k \in Keys : r \notin Holders(k)
    <3>1. \A j \in Keys : Holders(j)' = Holders(j)
      BY <1>6, <2>3, ReleaseHolders
    <3>2. QED
      BY <2>1, <3>1 DEF Pool!vars
  <2>4. QED
    BY <2>2, <2>3
<1>7. QED
  BY <1>1, <1>2, <1>3, <1>4, <1>5, <1>6 DEF Step

LEMMA NextPool == SlotInv /\ [Next]_vars => [Pool!Next]_(Pool!vars)
<1>. SUFFICES ASSUME SlotInv, [Next]_vars PROVE Pool!Next \/ UNCHANGED Pool!vars
  OBVIOUS
<1>1. CASE \E r \in Reqs : Step(r)
  BY <1>1, StepPool
<1>2. CASE \/ \E t \in Windows : Cleanup(t)
           \/ NextWindow \/ SetEnabled
           \/ \E j \in Keys : EditPlan(j)
           \/ UNCHANGED vars
  <2>1. req' = req
    BY <1>2 DEF Cleanup, NextWindow, SetEnabled, EditPlan, vars
  <2>2. \A k \in Keys : Holders(k)' = Holders(k)
    BY <1>2, EnvironmentHolders
  <2>3. QED
    BY <2>1, <2>2 DEF Pool!vars
<1>3. QED
  BY <1>1, <1>2 DEF Next

(* The limiter implements the pool of slots: for every number of requests,  *)
(* keys and plans, each step admits one request below the limit it carries, *)
(* lets one holder go, or leaves the pool alone.                            *)
THEOREM LimiterImplementsPool == Spec => ImplementsPool
<1>1. SlotInv /\ [Next]_vars => SlotInv'
  BY NextTyped, NextSlots DEF SlotInv
<1>2. QED
  BY <1>1, InitSlots, InitPool, NextPool, PTL DEF Spec, ImplementsPool, Pool!Spec
============================================================================

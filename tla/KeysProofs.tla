----------------------------- MODULE KeysProofs -----------------------------
(***************************************************************************)
(* Proofs about Keys.tla, for any keys, plans, models, requests, admin      *)
(* handlers, lifetime and size of the cache.                                *)
(***************************************************************************)
EXTENDS Keys, FiniteSetTheorems, TLAPS

Pending(k) == \E a \in Admins : admin[a].pc = "invalidate" /\ admin[a].of = k

\* Secrets are those of keys that were created, each of them once.
Known ==
  /\ \A r \in Requests : req[r].pc # "idle" => req[r].of \in born
  /\ \A k \in Keys : keys[k] # None \/ cache[k] # None => k \in born
  /\ \A a \in Admins : admin[a].pc = "create" => admin[a].of \notin born
  /\ \A a, b \in Admins :
       admin[a].pc = "create" /\ admin[b].pc = "create" /\ admin[a].of = admin[b].of => a = b

\* A record that is on its way to the cache is excused like one that is there.
Clean ==
  /\ RevokedUnlessOutrun
  /\ \A r \in Requests : req[r].pc = "found" =>
       Enabled(req[r].of) \/ req[r].outrun \/ Pending(req[r].of)

\* A key without a list was granted every model, and its requests know.
Restricted ==
  /\ \A k \in Keys : access[k] # Models
  /\ \A k \in Keys : keys[k] # None /\ access[k] = {} => k \in free
  /\ \A r \in Requests : ~Home(r) /\ req[r].of \in free => r \in open
  /\ RestrictedStays

\* A key keeps its plan, which exists unless it was deleted across a creation.
Planned ==
  /\ \A k \in Keys : keys[k] # None /\ keys[k].plan # None =>
       plans[keys[k].plan] # None \/ keys[k].plan \in crossed
  /\ \A k \in Keys : keys[k] # None /\ cache[k] # None => cache[k].key.plan = keys[k].plan
  /\ \A r \in Requests :
       req[r].pc \in {"found", "authed", "filtered"} /\ keys[req[r].of] # None =>
         req[r].key.plan = keys[req[r].of].plan
  /\ \A a \in Admins, k \in Keys :
       admin[a].pc = "drop" /\ keys[k] # None /\ keys[k].plan = admin[a].plan =>
         admin[a].plan \in crossed
  /\ FailsOnlyIfCrossed

\* The part of all this that is about the cache.
Sound ==
  /\ cache \in [Keys -> Entry \cup {None}] /\ Cardinality(Cached) <= AuthMax
  /\ \A k \in Keys : cache[k] # None => k \in born
  /\ RevokedUnlessOutrun
  /\ \A k \in Keys : keys[k] # None /\ cache[k] # None => cache[k].key.plan = keys[k].plan

Inv == TypeOK /\ Known /\ Clean /\ Restricted /\ Planned

-----------------------------------------------------------------------------
(* What requests and handlers carry                                        *)

LEMMA Carried ==
  ASSUME TypeOK, NEW r \in Requests
  PROVE  /\ req[r] \in Places
         /\ req[r].pc \in {"idle", "auth", "found", "authed", "filtered", "failed"}
         /\ req[r].pc # "idle" => req[r].of \in Keys
         /\ req[r].pc \in {"found", "authed", "filtered"} => req[r].key \in Key
         /\ req[r].pc = "found" => req[r].outrun \in BOOLEAN
                                   /\ req[r] \in [pc : {"found"}, of : Keys, key : Key, outrun : BOOLEAN]
         /\ req[r].pc = "failed" => req[r].plan \in Plans
<1>1. req[r] \in Places
  BY DEF TypeOK
<1>. QED
  BY <1>1 DEF Places, Quiet

LEMMA OnDesk ==
  ASSUME TypeOK, NEW a \in Admins
  PROVE  /\ admin[a].pc \in {"idle", "create", "invalidate", "edit", "drop"}
         /\ admin[a].pc = "create" =>
              /\ admin[a].of \in Keys /\ admin[a].plan \in Plans \cup {None}
              /\ admin[a].list \in Lists /\ admin[a].row \in Plan
         /\ admin[a].pc = "invalidate" => admin[a].of \in Keys
         /\ admin[a].pc = "edit" => admin[a].plan \in Plans /\ admin[a].row \in Plan
         /\ admin[a].pc = "drop" => admin[a].plan \in Plans
<1>1. admin[a] \in Desks
  BY DEF TypeOK
<1>. QED
  BY <1>1 DEF Desks, Quiet

LEMMA SoundNow == Inv => Sound
BY DEF Inv, TypeOK, Known, Clean, Planned, Sound

-----------------------------------------------------------------------------
(* Requests                                                                *)

\* One request turns to something else.
LEMMA RequestStep ==
  ASSUME Inv, NEW r \in Requests, NEW to \in Places, Become(r, to),
         UNCHANGED <<store, admin, born, free, crossed>>, Sound',
         open' \subseteq Requests, \A q \in Requests : q # r => (q \in open' <=> q \in open),
         to.pc # "idle" => to.of \in born,
         to.pc = "found" => Enabled(to.of) \/ to.outrun \/ Pending(to.of),
         to.pc \notin {"idle", "auth"} /\ to.of \in free => r \in open',
         to.pc = "filtered" => to.sent # Models \/ r \in open' \/ keys[to.of] = None,
         to.pc \in {"found", "authed", "filtered"} /\ keys[to.of] # None =>
           to.key.plan = keys[to.of].plan,
         to.pc = "failed" => to.plan \in crossed \/ keys[to.of] = None
  PROVE  Inv'
<1>0. TypeOK /\ Known /\ Clean /\ Restricted /\ Planned
  BY DEF Inv
<1>1. /\ req' \in [Requests -> Places] /\ req'[r] = to
      /\ \A q \in Requests : q # r => req'[q] = req[q]
  BY <1>0 DEF Become, TypeOK
<1>2. UNCHANGED <<keys, access, plans, admin, born, free, crossed>>
  BY DEF store
<1>3. TypeOK'
  BY <1>0, <1>1, <1>2 DEF TypeOK, Sound
<1>4. Known'
  BY <1>0, <1>1, <1>2 DEF Known, Sound
<1>5. Clean'
  <2>1. RevokedUnlessOutrun'
    BY DEF Sound
  <2>2. ASSUME NEW q \in Requests, req'[q].pc = "found"
        PROVE  (Enabled(req[q].of) \/ req[q].outrun \/ Pending(req[q].of))'
    <3>1. CASE q = r
      BY <1>1, <1>2, <2>2, <3>1 DEF Enabled, Pending
    <3>2. CASE q # r
      BY <1>0, <1>1, <1>2, <2>2, <3>2 DEF Clean, Enabled, Pending
    <3>. QED
      BY <3>1, <3>2
  <2>. QED
    BY <2>1, <2>2 DEF Clean
<1>6. Restricted'
  <2>1. ASSUME NEW q \in Requests, ~Home(q)', req'[q].of \in free
        PROVE  q \in open'
    BY <1>0, <1>1, <2>1 DEF Restricted, Home
  <2>2. ASSUME NEW q \in Requests, req'[q].pc = "filtered"
        PROVE  req'[q].sent # Models \/ q \in open' \/ keys[req'[q].of] = None
    BY <1>0, <1>1, <2>2 DEF Restricted, RestrictedStays
  <2>. QED
    BY <1>0, <1>2, <2>1, <2>2 DEF Restricted, RestrictedStays
<1>7. Planned'
  <2>1. ASSUME NEW q \in Requests, req'[q].pc \in {"found", "authed", "filtered"},
               keys[req'[q].of] # None
        PROVE  req'[q].key.plan = keys[req'[q].of].plan
    BY <1>0, <1>1, <2>1 DEF Planned
  <2>2. ASSUME NEW q \in Requests, req'[q].pc = "failed"
        PROVE  req'[q].plan \in crossed \/ keys[req'[q].of] = None
    BY <1>0, <1>1, <2>2 DEF Planned, FailsOnlyIfCrossed
  <2>. QED
    BY <1>0, <1>2, <2>1, <2>2 DEF Planned, FailsOnlyIfCrossed, Sound
<1>. QED
  BY <1>3, <1>4, <1>5, <1>6, <1>7 DEF Inv

LEMMA StillSound ==
  ASSUME Inv, UNCHANGED <<store, cache, admin, born>>
  PROVE  Sound'
BY SoundNow DEF Sound, store, Cached, RevokedUnlessOutrun, Enabled

LEMMA FillSound ==
  ASSUME Inv, NEW r \in Requests, Fill(r)
  PROVE  Sound'
<1>0. TypeOK /\ Known /\ Clean /\ Planned /\ Sound
  BY SoundNow DEF Inv
<1> DEFINE k == req[r].of
           e == [key |-> req[r].key, left |-> Ttl, outrun |-> req[r].outrun]
<1>1. PICK gone \in Evicted :
        cache' = [o \in Keys |-> IF o = k THEN e ELSE IF o \in gone THEN None ELSE cache[o]]
  BY DEF Fill
<1>2. /\ UNCHANGED <<keys, access, plans, admin, born>> /\ req[r].pc = "found"
      /\ k \in Keys /\ k \in born /\ e \in Entry
  BY <1>0, Carried, KeysAssumption DEF Fill, store, Known, Entry
<1>3. cache' \in [Keys -> Entry \cup {None}]
  BY <1>0, <1>1, <1>2 DEF TypeOK
<1>4. \A o \in Keys : (cache'[o] = e /\ o = k) \/ cache'[o] = cache[o] \/ cache'[o] = None
  BY <1>1
<1>5. Cardinality(Cached') <= AuthMax
  <2>1. IsFiniteSet(Cached) /\ Cached' \subseteq (Cached \ gone) \cup {k} /\ Cached \subseteq Keys
    <3>1. Cached' \subseteq (Cached \ gone) \cup {k}
      BY <1>1 DEF Cached
    <3>. QED
      BY <3>1, KeysAssumption, FS_Subset DEF Cached
  <2>2. Cardinality(Cached) \in Nat /\ AuthMax \in Nat \ {0} /\ Cardinality(Cached) <= AuthMax
    BY <1>0, <2>1, FS_CardinalityType, KeysAssumption DEF TypeOK
  <2>3. IsFiniteSet(Cached \ gone) /\ Cardinality(Cached \ gone) \in Nat
        /\ Cardinality(Cached \ gone) < AuthMax
    <3>1. CASE Cardinality(Cached) >= AuthMax
      <4>1. PICK o \in Cached : gone = {o}
        BY <3>1 DEF Evicted, Oldest
      <4>2. IsFiniteSet(Cached \ {o}) /\ Cardinality(Cached \ {o}) = Cardinality(Cached) - 1
        BY <2>1, <4>1, FS_RemoveElement
      <4>. QED
        BY <2>2, <3>1, <4>1, <4>2
    <3>2. CASE ~(Cardinality(Cached) >= AuthMax)
      <4>1. Cached \ gone = Cached
        BY <3>2 DEF Evicted
      <4>. QED
        BY <2>1, <2>2, <3>2, <4>1
    <3>. QED
      BY <3>1, <3>2
  <2>4. /\ IsFiniteSet((Cached \ gone) \cup {k})
        /\ Cardinality((Cached \ gone) \cup {k}) \in Nat
        /\ Cardinality((Cached \ gone) \cup {k}) <= AuthMax
    <3>1. /\ IsFiniteSet((Cached \ gone) \cup {k})
          /\ Cardinality((Cached \ gone) \cup {k})
               = IF k \in Cached \ gone THEN Cardinality(Cached \ gone) ELSE Cardinality(Cached \ gone) + 1
      BY <2>3, FS_AddElement
    <3>. QED
      BY <2>2, <2>3, <3>1
  <2>5. IsFiniteSet(Cached') /\ Cardinality(Cached') <= Cardinality((Cached \ gone) \cup {k})
    BY <2>1, <2>4, FS_Subset
  <2>6. Cardinality(Cached') \in Nat
    BY <2>5, FS_CardinalityType
  <2>. QED
    BY <2>2, <2>4, <2>5, <2>6
<1>6. \A o \in Keys : cache'[o] # None => o \in born
  BY <1>0, <1>2, <1>4 DEF Known
<1>7. RevokedUnlessOutrun'
  <2> SUFFICES ASSUME NEW o \in Keys, cache'[o] # None
               PROVE  (Enabled(o) \/ cache[o].outrun \/ Pending(o))'
    BY DEF RevokedUnlessOutrun, Cached, Pending
  <2>1. CASE cache'[o] = e /\ o = k
    BY <1>0, <1>2, <2>1 DEF Clean, Enabled, Pending
  <2>2. CASE cache'[o] = cache[o]
    BY <1>0, <1>2, <2>2 DEF Clean, RevokedUnlessOutrun, Cached, Enabled, Pending
  <2>. QED
    BY <1>4, <2>1, <2>2
<1>8. \A o \in Keys : keys[o] # None /\ cache'[o] # None => cache'[o].key.plan = keys[o].plan
  BY <1>0, <1>2, <1>4 DEF Planned
<1>. QED
  BY <1>2, <1>3, <1>5, <1>6, <1>7, <1>8 DEF Sound

LEMMA ServeStep ==
  ASSUME Inv, NEW r \in Requests, Serve(r) \/ \E k \in Keys : Arrive(r, k)
  PROVE  Inv'
<1>0. TypeOK /\ Known /\ Clean /\ Restricted /\ Planned /\ Sound /\ open \subseteq Requests
  BY SoundNow DEF Inv, TypeOK
<1>1. ASSUME NEW k \in Keys, Arrive(r, k)
      PROVE  Inv'
  <2> DEFINE to == [pc |-> "auth", of |-> k]
  <2>1. to \in Places /\ k \in born
    BY <1>1 DEF Arrive, Places
  <2>. QED
    BY <1>0, <1>1, <2>1, StillSound, RequestStep DEF Arrive, store
<1>2. CASE Hit(r)
  <2> DEFINE k == req[r].of
             to == [pc |-> "authed", of |-> k, key |-> cache[k].key]
  <2>1. k \in Keys /\ k \in born /\ req[r].pc = "auth" /\ cache[k] # None
    BY <1>0, <1>2, Carried DEF Hit, Known, Fresh
  <2>2. cache[k].key \in Key
    BY <1>0, <2>1 DEF TypeOK, Entry
  <2>3. to \in Places
    BY <2>1, <2>2 DEF Places
  <2>4. keys[k] # None => cache[k].key.plan = keys[k].plan
    BY <1>0, <2>1 DEF Planned
  <2>. QED
    BY <1>0, <1>2, <2>1, <2>3, <2>4, StillSound, RequestStep DEF Hit, Authed, Opening, store
<1>3. CASE Lookup(r)
  <2> DEFINE k == req[r].of
             to == [pc |-> "found", of |-> k, key |-> keys[k], outrun |-> FALSE]
  <2>1. k \in Keys /\ k \in born /\ req[r].pc = "auth"
    BY <1>0, <1>3, Carried DEF Lookup, Known
  <2>2. CASE Admits(keys[k])
    <3>1. keys[k] \in Key /\ Enabled(k)
      BY <1>0, <2>1, <2>2 DEF Admits, Enabled, TypeOK
    <3>2. to \in Places
      BY <2>1, <3>1 DEF Places
    <3>. QED
      BY <1>0, <1>3, <2>1, <2>2, <3>1, <3>2, StillSound, RequestStep DEF Lookup, Opening, store
  <2>3. CASE ~Admits(keys[k])
    <3>1. Quiet \in Places /\ Quiet.pc = "idle"
      BY DEF Places, Quiet
    <3>. QED
      BY <1>0, <1>3, <2>1, <2>3, <3>1, StillSound, RequestStep DEF Lookup, Opening, store
  <2>. QED
    BY <2>2, <2>3
<1>4. CASE Fill(r)
  <2> DEFINE k == req[r].of
             to == [pc |-> "authed", of |-> k, key |-> req[r].key]
  <2>1. k \in Keys /\ k \in born /\ req[r].pc = "found" /\ req[r].key \in Key
    BY <1>0, <1>4, Carried DEF Fill, Known
  <2>2. to \in Places
    BY <2>1 DEF Places
  <2>3. (keys[k] # None => req[r].key.plan = keys[k].plan) /\ (k \in free => r \in open)
    BY <1>0, <2>1 DEF Planned, Restricted, Home
  <2>. QED
    BY <1>0, <1>4, <2>1, <2>2, <2>3, FillSound, RequestStep DEF Fill, Authed, store
<1>5. CASE Filter(r)
  <2> DEFINE k == req[r].of
             to == [pc |-> "filtered", of |-> k, key |-> req[r].key, sent |-> Allowed(k)]
  <2>1. k \in Keys /\ k \in born /\ req[r].pc = "authed" /\ req[r].key \in Key
    BY <1>0, <1>5, Carried DEF Filter, Known
  <2>2. Allowed(k) \in SUBSET Models
    BY <1>0, <2>1 DEF Allowed, TypeOK
  <2>3. to \in Places
    BY <2>1, <2>2 DEF Places
  <2>4. (keys[k] # None => req[r].key.plan = keys[k].plan) /\ (k \in free => r \in open)
    BY <1>0, <2>1 DEF Planned, Restricted, Home
  <2>5. Allowed(k) # Models \/ r \in open \/ keys[k] = None
    BY <1>0, <2>1, <2>4 DEF Allowed, Restricted
  <2>. QED
    BY <1>0, <1>5, <2>1, <2>3, <2>4, <2>5, StillSound, RequestStep DEF Filter, store
<1>6. CASE Limits(r)
  <2> DEFINE k == req[r].of
             p == req[r].key.plan
             to == [pc |-> "failed", of |-> k, plan |-> p]
  <2>1. k \in Keys /\ k \in born /\ req[r].pc = "filtered" /\ req[r].key \in Key
    BY <1>0, <1>6, Carried DEF Limits, Known
  <2>2. (keys[k] # None => p = keys[k].plan) /\ (k \in free => r \in open)
    BY <1>0, <2>1 DEF Planned, Restricted, Home
  <2>3. CASE p # None /\ plans[p] = None
    <3>1. p \in Plans
      BY <2>1, <2>3 DEF Key
    <3>2. to \in Places
      BY <2>1, <3>1 DEF Places
    <3>3. p \in crossed \/ keys[k] = None
      BY <1>0, <2>1, <2>2, <2>3 DEF Planned
    <3>. QED
      BY <1>0, <1>6, <2>1, <2>2, <2>3, <3>2, <3>3, StillSound, RequestStep DEF Limits, store
  <2>4. CASE ~(p # None /\ plans[p] = None)
    <3>1. Quiet \in Places /\ Quiet.pc = "idle"
      BY DEF Places, Quiet
    <3>. QED
      BY <1>0, <1>6, <2>4, <3>1, StillSound, RequestStep DEF Limits, store
  <2>. QED
    BY <2>3, <2>4
<1>7. CASE Leave(r)
  <2>1. Quiet \in Places /\ Quiet.pc = "idle"
    BY DEF Places, Quiet
  <2>. QED
    BY <1>0, <1>7, <2>1, StillSound, RequestStep DEF Leave, store
<1>. QED
  BY <1>1, <1>2, <1>3, <1>4, <1>5, <1>6, <1>7 DEF Serve

-----------------------------------------------------------------------------
(* Admin handlers                                                          *)

\* What a handler turns to without changing anything but its own place.
LEMMA DeskStep ==
  ASSUME Inv, NEW a \in Admins, NEW to \in Desks, Handle(a, to), admin[a].pc # "invalidate",
         UNCHANGED <<store, cache, req, born, free, open, crossed>>,
         to.pc = "create" => to.of \notin born /\ \A b \in Admins : admin[b].pc = "create" => admin[b].of # to.of,
         to.pc = "drop" => KeysOf(to.plan) = {}
  PROVE  Inv'
<1>0. TypeOK /\ Known /\ Clean /\ Restricted /\ Planned
  BY DEF Inv
<1>1. /\ admin' \in [Admins -> Desks] /\ admin'[a] = to
      /\ \A b \in Admins : b # a => admin'[b] = admin[b]
  BY <1>0 DEF Handle, TypeOK
<1>2. UNCHANGED <<keys, access, plans>>
  BY DEF store
<1>3. TypeOK'
  BY <1>0, <1>1, <1>2 DEF TypeOK, Cached
<1>4. Known'
  BY <1>0, <1>1, <1>2 DEF Known
<1>5. Clean'
  <2>1. \A k \in Keys : Pending(k) => Pending(k)'
    BY <1>1 DEF Pending
  <2>2. \A r \in Requests : req[r].pc = "found" => req[r].of \in Keys
    BY <1>0, Carried
  <2>3. RevokedUnlessOutrun'
    BY <1>0, <1>2, <2>1 DEF Clean, RevokedUnlessOutrun, Cached, Enabled, Pending
  <2>. QED
    BY <1>0, <1>2, <2>1, <2>2, <2>3 DEF Clean, Enabled
<1>6. Restricted'
  BY <1>0, <1>2 DEF Restricted, RestrictedStays, Home
<1>7. Planned'
  BY <1>0, <1>1, <1>2 DEF Planned, FailsOnlyIfCrossed, KeysOf
<1>. QED
  BY <1>3, <1>4, <1>5, <1>6, <1>7 DEF Inv

LEMMA LookStep ==
  ASSUME Inv, NEW a \in Admins,
         \/ \E k \in Keys, p \in Plans \cup {None}, list \in Lists : ReadPlan(a, k, p, list)
         \/ \E p \in Plans : ReadForUpdate(a, p) \/ CountKeys(a, p)
  PROVE  Inv'
<1>0. TypeOK /\ admin[a].pc # "invalidate"
  <2>1. Idle(a)
    BY DEF ReadPlan, ReadForUpdate, CountKeys
  <2>. QED
    BY <2>1 DEF Inv, Idle, Quiet
<1>1. ASSUME NEW k \in Keys, NEW p \in Plans \cup {None}, NEW list \in Lists, ReadPlan(a, k, p, list)
      PROVE  Inv'
  <2> DEFINE row == IF p = None THEN NoPlan ELSE plans[p]
             to  == [pc |-> "create", of |-> k, plan |-> p, list |-> list, row |-> row]
  <2>1. row \in Plan
    <3>1. NoPlan \in Plan
      BY KeysAssumption DEF NoPlan, Plan
    <3>2. p # None => p \in Plans /\ plans[p] # None
      BY <1>1 DEF ReadPlan
    <3>. QED
      BY <1>0, <3>1, <3>2 DEF TypeOK
  <2>2. to \in Desks
    BY <2>1 DEF Desks
  <2>. QED
    BY <1>0, <1>1, <2>2, DeskStep DEF ReadPlan
<1>2. ASSUME NEW p \in Plans, ReadForUpdate(a, p)
      PROVE  Inv'
  <2> DEFINE to == [pc |-> "edit", plan |-> p, row |-> plans[p]]
  <2>1. to \in Desks
    BY <1>0, <1>2 DEF ReadForUpdate, TypeOK, Desks
  <2>. QED
    BY <1>0, <1>2, <2>1, DeskStep DEF ReadForUpdate
<1>3. ASSUME NEW p \in Plans, CountKeys(a, p)
      PROVE  Inv'
  <2> DEFINE to == [pc |-> "drop", plan |-> p]
  <2>1. to \in Desks
    BY DEF Desks
  <2>. QED
    BY <1>0, <1>3, <2>1, DeskStep DEF CountKeys
<1>. QED
  BY <1>1, <1>2, <1>3

\* A handler leaves its place, or comes to one from which it invalidates.
LEMMA Leaving ==
  ASSUME TypeOK, NEW a \in Admins, NEW to \in Desks, Handle(a, to), to.pc \in {"idle", "invalidate"}
  PROVE  /\ admin' \in [Admins -> Desks] /\ admin'[a] = to
         /\ \A b \in Admins : b # a => admin'[b] = admin[b]
         /\ \A b \in Admins : admin'[b].pc \in {"create", "drop"} => admin'[b] = admin[b] /\ b # a
         /\ admin[a].pc # "invalidate" => \A k \in Keys : Pending(k) => Pending(k)'
         /\ to.pc = "invalidate" => Pending(to.of)'
BY DEF Handle, TypeOK, Pending

LEMMA QuietDesk == Quiet \in Desks /\ Quiet.pc = "idle"
BY DEF Desks, Quiet

LEMMA CommitStep ==
  ASSUME Inv, NEW a \in Admins, CommitKey(a)
  PROVE  Inv'
<1>0. TypeOK /\ Known /\ Clean /\ Restricted /\ Planned
  BY DEF Inv
<1> DEFINE c == admin[a]
           k == admin[a].of
           p == admin[a].plan
           row == [plan |-> p, disabled |-> FALSE]
<1>1. /\ admin[a].pc = "create" /\ k \in Keys /\ p \in Plans \cup {None} /\ c.list \in Lists
      /\ c.row \in Plan /\ k \notin born
  BY <1>0, OnDesk DEF CommitKey, Known
<1>2. /\ keys' = [keys EXCEPT ![k] = row]
      /\ access' = [access EXCEPT ![k] = ModelsOf(c)] /\ born' = born \cup {k}
      /\ UNCHANGED <<plans, cache, req, open>> /\ Handle(a, Quiet)
      /\ crossed' = IF p # None /\ (plans[p] = None
                        \/ \E b \in Admins : admin[b].pc = "drop" /\ admin[b].plan = p)
                     THEN crossed \cup {p} ELSE crossed
      /\ free' = IF c.list = {} /\ c.row.models = {} THEN free \cup {k} ELSE free
  BY DEF CommitKey
<1>3. /\ admin' \in [Admins -> Desks]
      /\ \A b \in Admins : admin'[b].pc \in {"create", "drop"} => admin'[b] = admin[b] /\ b # a
      /\ \A o \in Keys : Pending(o) => Pending(o)'
  BY <1>0, <1>1, <1>2, QuietDesk, Leaving
<1>4. row \in Key /\ row # None
  <2>1. row \in Key
    BY <1>1 DEF Key
  <2> HIDE DEF row
  <2>. QED
    BY <2>1, KeysAssumption
<1>5. /\ keys' \in [Keys -> Key \cup {None}] /\ keys'[k] = row
      /\ \A o \in Keys : o # k => keys'[o] = keys[o] /\ access'[o] = access[o]
  BY <1>0, <1>1, <1>2, <1>4 DEF TypeOK
<1>6. /\ access'[k] = ModelsOf(c) /\ ModelsOf(c) \in (SUBSET Models) \ {Models}
      /\ (ModelsOf(c) = {} => k \in free')
  BY <1>0, <1>1, <1>2, KeysAssumption DEF TypeOK, ModelsOf, Plan
<1>7. /\ free \subseteq free' /\ free' \subseteq free \cup {k} /\ crossed \subseteq crossed'
      /\ crossed' \subseteq crossed \cup {p}
  BY <1>2
<1>8. TypeOK'
  <2>1. access' \in [Keys -> SUBSET Models]
    BY <1>0, <1>1, <1>2, <1>6 DEF TypeOK
  <2>2. \A o \in Keys : keys'[o] = None => access'[o] = {}
    BY <1>0, <1>4, <1>5 DEF TypeOK
  <2>3. crossed' \subseteq Plans
    BY <1>0, <1>1, <1>2 DEF TypeOK
  <2>4. born' \subseteq Keys /\ free' \subseteq born'
    BY <1>0, <1>1, <1>2, <1>7 DEF TypeOK
  <2>. QED
    BY <1>0, <1>2, <1>3, <1>5, <2>1, <2>2, <2>3, <2>4 DEF TypeOK, Cached
<1>9. Known'
  <2>1. \A b \in Admins : b # a /\ admin[b].pc = "create" => admin[b].of # k
    BY <1>0, <1>1 DEF Known
  <2>. QED
    BY <1>0, <1>2, <1>3, <1>5, <2>1 DEF Known
<1>10. Clean'
  <2>1. \A o \in Keys : Enabled(o) => Enabled(o)'
    BY <1>4, <1>5 DEF Enabled
  <2>2. \A r \in Requests : req[r].pc = "found" => req[r].of \in Keys
    BY <1>0, Carried
  <2>3. RevokedUnlessOutrun'
    BY <1>0, <1>2, <1>3, <2>1 DEF Clean, RevokedUnlessOutrun, Cached, Pending
  <2>. QED
    BY <1>0, <1>2, <1>3, <2>1, <2>2, <2>3 DEF Clean
<1>11. Restricted'
  <2>1. \A r \in Requests : req[r].pc # "idle" => req[r].of \in Keys /\ req[r].of # k
    BY <1>0, <1>1, Carried DEF Known
  <2>2. \A o \in Keys : access'[o] # Models /\ (keys'[o] # None /\ access'[o] = {} => o \in free')
    BY <1>0, <1>5, <1>6, <1>7 DEF Restricted
  <2>3. \A r \in Requests : ~Home(r) /\ req[r].of \in free' => r \in open
    BY <1>0, <1>7, <2>1 DEF Restricted, Home
  <2>4. RestrictedStays'
    BY <1>0, <1>2, <1>5, <2>1 DEF Restricted, RestrictedStays
  <2>. QED
    BY <1>2, <2>2, <2>3, <2>4 DEF Restricted, Home
<1>12. Planned'
  <2>1. \A r \in Requests : req[r].pc # "idle" => req[r].of \in Keys /\ req[r].of # k
    BY <1>0, <1>1, Carried DEF Known
  <2>2. \A o \in Keys : keys'[o] # None /\ keys'[o].plan # None =>
          plans[keys'[o].plan] # None \/ keys'[o].plan \in crossed'
    BY <1>0, <1>2, <1>5, <1>7 DEF Planned
  <2>3. \A o \in Keys : keys'[o] # None /\ cache[o] # None => cache[o].key.plan = keys'[o].plan
    BY <1>0, <1>1, <1>5 DEF Planned, Known
  <2>4. \A r \in Requests :
          req[r].pc \in {"found", "authed", "filtered"} /\ keys'[req[r].of] # None =>
            req[r].key.plan = keys'[req[r].of].plan
    BY <1>0, <1>5, <2>1 DEF Planned
  <2>5. ASSUME NEW b \in Admins, NEW o \in Keys, admin'[b].pc = "drop", keys'[o] # None,
               keys'[o].plan = admin'[b].plan
        PROVE  admin'[b].plan \in crossed'
    <3>1. admin'[b] = admin[b]
      BY <1>3, <2>5
    <3>2. CASE o # k
      BY <1>0, <1>5, <1>7, <2>5, <3>1, <3>2 DEF Planned
    <3>3. CASE o = k
      <4>1. admin[b].plan = p /\ admin[b].pc = "drop" /\ p # None
        BY <1>0, <1>5, <2>5, <3>1, <3>3, OnDesk, KeysAssumption
      <4>. QED
        BY <1>2, <3>1, <4>1
    <3>. QED
      BY <3>2, <3>3
  <2>6. FailsOnlyIfCrossed'
    BY <1>0, <1>2, <1>5, <1>7, <2>1 DEF Planned, FailsOnlyIfCrossed
  <2>. QED
    BY <1>2, <2>2, <2>3, <2>4, <2>5, <2>6 DEF Planned
<1>. QED
  BY <1>8, <1>9, <1>10, <1>11, <1>12 DEF Inv

\* A key is switched off or on, or deleted: its cached record is to go.
LEMMA RevokeStep ==
  ASSUME Inv, NEW a \in Admins, NEW k \in Keys, Idle(a), Handle(a, [pc |-> "invalidate", of |-> k]),
         UNCHANGED <<plans, cache, req, born, free, open, crossed>>,
         keys' \in [Keys -> Key \cup {None}],
         \A o \in Keys : o # k => keys'[o] = keys[o] /\ access'[o] = access[o],
         keys'[k] # None => keys[k] # None /\ keys'[k].plan = keys[k].plan /\ access'[k] = access[k],
         access' \in [Keys -> SUBSET Models], access'[k] \in {access[k], {}},
         keys'[k] = None => access'[k] = {}
  PROVE  Inv'
<1>0. TypeOK /\ Known /\ Clean /\ Restricted /\ Planned
  BY DEF Inv
<1> DEFINE to == [pc |-> "invalidate", of |-> k]
<1>1. to \in Desks /\ admin[a].pc # "invalidate"
  BY DEF Desks, Idle, Quiet
<1>2. /\ admin' \in [Admins -> Desks]
      /\ \A b \in Admins : admin'[b].pc \in {"create", "drop"} => admin'[b] = admin[b] /\ b # a
      /\ \A o \in Keys : Pending(o) => Pending(o)'
      /\ Pending(k)'
  BY <1>0, <1>1, Leaving
<1>3. \A o \in Keys : keys'[o] # None => keys[o] # None /\ keys'[o].plan = keys[o].plan
                                       /\ access'[o] = access[o]
  OBVIOUS
<1>4. \A r \in Requests : req[r].pc # "idle" => req[r].of \in Keys
  BY <1>0, Carried
<1>5. TypeOK'
  BY <1>0, <1>2 DEF TypeOK, Cached
<1>6. Known'
  BY <1>0, <1>2, <1>3 DEF Known
<1>7. Clean'
  <2>1. \A o \in Keys : o # k => Enabled(o)' = Enabled(o)
    BY DEF Enabled
  <2>2. RevokedUnlessOutrun'
    BY <1>0, <1>2, <2>1 DEF Clean, RevokedUnlessOutrun, Cached, Pending
  <2>. QED
    BY <1>0, <1>2, <1>4, <2>1, <2>2 DEF Clean
<1>8. Restricted'
  <2>1. \A o \in Keys : access'[o] # Models
    BY <1>0, KeysAssumption DEF Restricted
  <2>2. \A o \in Keys : keys'[o] # None /\ access'[o] = {} => o \in free
    BY <1>0, <1>3 DEF Restricted
  <2>3. RestrictedStays'
    BY <1>0, <1>3, <1>4 DEF Restricted, RestrictedStays
  <2>. QED
    BY <1>0, <2>1, <2>2, <2>3 DEF Restricted, Home
<1>9. Planned'
  <2>1. \A r \in Requests : req[r].pc \in {"found", "authed", "filtered", "failed"} => req[r].pc # "idle"
    OBVIOUS
  <2>2. FailsOnlyIfCrossed'
    BY <1>0, <1>3, <1>4 DEF Planned, FailsOnlyIfCrossed
  <2>3. \A r \in Requests :
          req[r].pc \in {"found", "authed", "filtered"} /\ keys'[req[r].of] # None =>
            req[r].key.plan = keys'[req[r].of].plan
    BY <1>0, <1>3, <1>4, <2>1 DEF Planned
  <2>. QED
    BY <1>0, <1>2, <1>3, <2>2, <2>3 DEF Planned
<1>. QED
  BY <1>5, <1>6, <1>7, <1>8, <1>9 DEF Inv

LEMMA KeyStep ==
  ASSUME Inv, NEW a \in Admins, NEW k \in Keys,
         DeleteKey(a, k) \/ \E off \in BOOLEAN : SetDisabled(a, k, off)
  PROVE  Inv'
<1>0. TypeOK
  BY DEF Inv
<1>1. CASE DeleteKey(a, k)
  BY <1>0, <1>1, RevokeStep DEF DeleteKey, Cascade, TypeOK
<1>2. ASSUME NEW off \in BOOLEAN, SetDisabled(a, k, off)
      PROVE  Inv'
  <2>1. CASE keys[k] = None
    <3>1. UNCHANGED <<keys, access>>
      BY <1>2, <2>1 DEF SetDisabled
    <3>. QED
      BY <1>0, <1>2, <2>1, <3>1, RevokeStep DEF SetDisabled, TypeOK
  <2>2. CASE keys[k] # None
    <3>1. keys[k] \in Key /\ keys' = [keys EXCEPT ![k].disabled = off]
      BY <1>0, <1>2, <2>2 DEF SetDisabled, TypeOK
    <3>2. [keys[k] EXCEPT !.disabled = off] \in Key
          /\ [keys[k] EXCEPT !.disabled = off].plan = keys[k].plan
      BY <3>1 DEF Key
    <3>3. /\ keys' \in [Keys -> Key \cup {None}]
          /\ keys'[k] \in Key /\ keys'[k].plan = keys[k].plan
          /\ \A o \in Keys : o # k => keys'[o] = keys[o]
      BY <1>0, <3>1, <3>2 DEF TypeOK
    <3>4. keys'[k] # None
      BY <3>3, KeysAssumption
    <3>5. access' = access
      BY <1>2 DEF SetDisabled
    <3>. QED
      BY <1>0, <1>2, <2>2, <3>3, <3>4, <3>5, RevokeStep DEF SetDisabled, TypeOK
  <2>. QED
    BY <2>1, <2>2
<1>. QED
  BY <1>1, <1>2

LEMMA InvalidateStep ==
  ASSUME Inv, NEW a \in Admins, InvalidateAuthCacheForKey(a)
  PROVE  Inv'
<1>0. TypeOK /\ Known /\ Clean /\ Restricted /\ Planned
  BY DEF Inv
<1> DEFINE k == admin[a].of
<1>1. /\ admin[a].pc = "invalidate" /\ k \in Keys /\ cache' = [cache EXCEPT ![k] = None]
      /\ req' = Outrun(k) /\ Handle(a, Quiet)
      /\ UNCHANGED <<keys, access, plans, born, free, open, crossed>>
  BY <1>0, OnDesk DEF InvalidateAuthCacheForKey, Drops, store
<1>2. /\ admin' \in [Admins -> Desks]
      /\ \A b \in Admins : admin'[b].pc \in {"create", "drop"} => admin'[b] = admin[b] /\ b # a
      /\ \A b \in Admins : b # a => admin'[b] = admin[b]
  BY <1>0, <1>1, QuietDesk, Leaving
<1>3. \A r \in Requests :
        /\ req'[r].pc = req[r].pc
        /\ req[r].pc # "found" \/ req[r].of # k => req'[r] = req[r]
        /\ req[r].pc = "found" =>
             /\ req'[r].of = req[r].of /\ req'[r].key = req[r].key
             /\ IF req[r].of = k THEN req'[r].outrun ELSE req'[r].outrun = req[r].outrun
             /\ req'[r] \in [pc : {"found"}, of : Keys, key : Key, outrun : BOOLEAN]
  <2> SUFFICES ASSUME NEW r \in Requests
               PROVE  /\ req'[r].pc = req[r].pc
                      /\ req[r].pc # "found" \/ req[r].of # k => req'[r] = req[r]
                      /\ req[r].pc = "found" =>
                           /\ req'[r].of = req[r].of /\ req'[r].key = req[r].key
                           /\ IF req[r].of = k THEN req'[r].outrun ELSE req'[r].outrun = req[r].outrun
                           /\ req'[r] \in [pc : {"found"}, of : Keys, key : Key, outrun : BOOLEAN]
    OBVIOUS
  <2>1. CASE req[r].pc = "found" /\ req[r].of = k
    <3>1. /\ req'[r] = [req[r] EXCEPT !.outrun = TRUE]
          /\ req[r] \in [pc : {"found"}, of : Keys, key : Key, outrun : BOOLEAN]
      BY <1>0, <1>1, <2>1, Carried DEF Outrun
    <3>. QED
      BY <2>1, <3>1
  <2>2. CASE ~(req[r].pc = "found" /\ req[r].of = k)
    BY <1>0, <1>1, <2>2, Carried DEF Outrun
  <2>. QED
    BY <2>1, <2>2
<1>4. \A r \in Requests : req[r].pc \in {"auth", "found", "authed", "filtered", "failed"} =>
        req[r].of \in Keys /\ req'[r].of = req[r].of
  BY <1>0, <1>3, Carried
<1>5. req' \in [Requests -> Places]
  <2>1. \A r \in Requests : req'[r] \in Places
    BY <1>0, <1>3, Carried DEF Places
  <2>. QED
    BY <1>1, <2>1 DEF Outrun
<1>6. /\ cache' \in [Keys -> Entry \cup {None}] /\ Cached' \subseteq Cached
      /\ \A o \in Keys : cache'[o] = cache[o] \/ cache'[o] = None
      /\ k \notin Cached'
  BY <1>0, <1>1 DEF TypeOK, Cached
<1>7. TypeOK'
  <2>1. Cardinality(Cached') <= AuthMax
    <3>1. IsFiniteSet(Cached)
      BY FS_Subset, KeysAssumption DEF Cached
    <3>2. IsFiniteSet(Cached') /\ Cardinality(Cached') <= Cardinality(Cached)
      BY <1>6, <3>1, FS_Subset
    <3>. QED
      BY <1>0, <3>1, <3>2, FS_CardinalityType, KeysAssumption DEF TypeOK
  <2>. QED
    BY <1>0, <1>1, <1>2, <1>5, <1>6, <2>1 DEF TypeOK
<1>8. Known'
  <2>1. \A r \in Requests : req'[r].pc # "idle" => req'[r].of \in born
    BY <1>0, <1>3, <1>4, Carried DEF Known
  <2>. QED
    BY <1>0, <1>1, <1>2, <1>6, <2>1 DEF Known
<1>9. Clean'
  <2>1. \A o \in Keys : o # k /\ Pending(o) => Pending(o)'
    BY <1>1, <1>2 DEF Pending
  <2>2. RevokedUnlessOutrun'
    <3> SUFFICES ASSUME NEW o \in Cached'
                 PROVE  (Enabled(o) \/ cache[o].outrun \/ Pending(o))'
      BY DEF RevokedUnlessOutrun, Pending
    <3>1. o \in Keys /\ o \in Cached /\ o # k /\ cache'[o] = cache[o]
      BY <1>6 DEF Cached
    <3>2. Enabled(o) \/ cache[o].outrun \/ Pending(o)
      BY <1>0, <3>1 DEF Clean, RevokedUnlessOutrun, Pending
    <3>. QED
      BY <1>1, <2>1, <3>1, <3>2 DEF Enabled
  <2>3. ASSUME NEW r \in Requests, req'[r].pc = "found"
        PROVE  (Enabled(req[r].of) \/ req[r].outrun \/ Pending(req[r].of))'
    <3>1. req[r].pc = "found" /\ req'[r].of = req[r].of /\ req[r].of \in Keys
      BY <1>3, <1>4, <2>3
    <3>2. CASE req[r].of = k
      BY <1>3, <3>1, <3>2
    <3>3. CASE req[r].of # k
      <4>1. Enabled(req[r].of) \/ req[r].outrun \/ Pending(req[r].of)
        BY <1>0, <3>1 DEF Clean
      <4>2. req'[r] = req[r]
        BY <1>3, <3>3
      <4>. QED
        BY <1>1, <2>1, <3>1, <3>3, <4>1, <4>2 DEF Enabled
    <3>. QED
      BY <3>2, <3>3
  <2>. QED
    BY <2>2, <2>3 DEF Clean
<1>10. Restricted'
  <2>1. \A r \in Requests : ~Home(r)' /\ req'[r].of \in free => r \in open
    BY <1>0, <1>3, <1>4, Carried DEF Restricted, Home
  <2>2. \A r \in Requests : req'[r].pc = "filtered" => req'[r] = req[r]
    BY <1>3
  <2>. QED
    BY <1>0, <1>1, <2>1, <2>2, <1>3 DEF Restricted, RestrictedStays
<1>11. Planned'
  <2>1. \A r \in Requests :
          req'[r].pc \in {"found", "authed", "filtered"} /\ keys[req'[r].of] # None =>
            req'[r].key.plan = keys[req'[r].of].plan
    BY <1>0, <1>3, <1>4 DEF Planned
  <2>2. \A r \in Requests : req'[r].pc = "failed" => req'[r] = req[r] /\ req[r].pc = "failed"
    BY <1>3
  <2>3. FailsOnlyIfCrossed'
    BY <1>0, <1>1, <2>2 DEF Planned, FailsOnlyIfCrossed
  <2>. QED
    BY <1>0, <1>1, <1>2, <1>6, <2>1, <2>3 DEF Planned
<1>. QED
  BY <1>7, <1>8, <1>9, <1>10, <1>11 DEF Inv

LEMMA SetAllowedModelsStep ==
  ASSUME Inv, NEW a \in Admins, NEW k \in Keys, NEW list \in Lists, SetAllowedModels(a, k, list)
  PROVE  Inv'
<1>0. TypeOK /\ Known /\ Clean /\ Restricted /\ Planned
  BY DEF Inv
<1>1. /\ keys[k] # None /\ access' = [access EXCEPT ![k] = list]
      /\ free' = IF list = {} THEN free \cup {k} ELSE free \ {k}
      /\ open' = IF list = {} THEN open \cup {r \in Requests : ~Home(r) /\ req[r].of = k} ELSE open
      /\ UNCHANGED <<keys, plans, cache, req, admin, born, crossed>>
  BY DEF SetAllowedModels
<1>2. list \in SUBSET Models /\ list # Models /\ k \in born
  BY <1>0, <1>1, KeysAssumption DEF Known
<1>3. TypeOK'
  BY <1>0, <1>1, <1>2 DEF TypeOK, Cached
<1>4. Known' /\ Planned'
  BY <1>0, <1>1 DEF Known, Planned, FailsOnlyIfCrossed
<1>5. Clean'
  BY <1>0, <1>1 DEF Clean, RevokedUnlessOutrun, Cached, Enabled, Pending
<1>6. Restricted'
  <2>1. \A o \in Keys : access'[o] # Models /\ (keys[o] # None /\ access'[o] = {} => o \in free')
    BY <1>0, <1>1, <1>2 DEF Restricted, TypeOK
  <2>2. \A r \in Requests : ~Home(r) /\ req[r].of \in free' => r \in open'
    BY <1>0, <1>1 DEF Restricted
  <2>3. RestrictedStays'
    BY <1>0, <1>1 DEF Restricted, RestrictedStays
  <2>. QED
    BY <1>1, <2>1, <2>2, <2>3 DEF Restricted, Home
<1>. QED
  BY <1>3, <1>4, <1>5, <1>6 DEF Inv

LEMMA PlanStep ==
  ASSUME Inv, NEW a \in Admins,
         DeletePlan(a) \/ \E row \in PlanRows, field \in DOMAIN NoPlan : UpdatePlan(a, field, row)
  PROVE  Inv'
<1>0. TypeOK /\ Known /\ Clean /\ Restricted /\ Planned
  BY DEF Inv
<1>1. /\ Handle(a, Quiet) /\ admin[a].pc \in {"drop", "edit"}
      /\ UNCHANGED <<keys, access, cache, req, born, free, open, crossed>>
  BY DEF DeletePlan, UpdatePlan
<1>2. /\ admin' \in [Admins -> Desks]
      /\ \A b \in Admins : admin'[b].pc \in {"create", "drop"} => admin'[b] = admin[b] /\ b # a
      /\ \A o \in Keys : Pending(o) => Pending(o)'
  BY <1>0, <1>1, QuietDesk, Leaving
<1>3. /\ plans' \in [Plans -> Plan \cup {None}]
      /\ \A p \in Plans : plans[p] # None =>
           plans'[p] # None \/ (admin[a].pc = "drop" /\ admin[a].plan = p)
  <2>1. CASE DeletePlan(a)
    BY <1>0, <2>1, OnDesk DEF DeletePlan, TypeOK
  <2>2. ASSUME NEW row \in PlanRows, NEW field \in DOMAIN NoPlan, UpdatePlan(a, field, row)
        PROVE  /\ plans' \in [Plans -> Plan \cup {None}]
              /\ \A p \in Plans : plans[p] # None => plans'[p] # None
    <3>1. admin[a].plan \in Plans /\ admin[a].row \in Plan /\ row \in Plan
          /\ field \in {"models", "rate"}
      BY <1>0, <2>2, OnDesk, KeysAssumption DEF UpdatePlan, NoPlan
    <3>2. [admin[a].row EXCEPT ![field] = row[field]] \in Plan
      BY <3>1 DEF Plan
    <3>. QED
      BY <1>0, <2>2, <3>1, <3>2, KeysAssumption DEF UpdatePlan, TypeOK
  <2>. QED
    BY <2>1, <2>2
<1>4. TypeOK'
  BY <1>0, <1>1, <1>2, <1>3 DEF TypeOK, Cached
<1>5. Known' /\ Restricted'
  BY <1>0, <1>1, <1>2 DEF Known, Restricted, RestrictedStays, Home
<1>6. Clean'
  <2>1. \A r \in Requests : req[r].pc = "found" => req[r].of \in Keys
    BY <1>0, Carried
  <2>2. RevokedUnlessOutrun'
    BY <1>0, <1>1, <1>2 DEF Clean, RevokedUnlessOutrun, Cached, Enabled, Pending
  <2>. QED
    BY <1>0, <1>1, <1>2, <2>1, <2>2 DEF Clean, Enabled
<1>7. Planned'
  <2>1. ASSUME NEW k \in Keys, keys[k] # None, keys[k].plan # None
        PROVE  plans'[keys[k].plan] # None \/ keys[k].plan \in crossed
    <3>1. keys[k].plan \in Plans
      BY <1>0, <2>1 DEF TypeOK, Key
    <3>. QED
      BY <1>0, <1>3, <2>1, <3>1 DEF Planned
  <2>. QED
    BY <1>0, <1>1, <1>2, <2>1 DEF Planned, FailsOnlyIfCrossed
<1>. QED
  BY <1>4, <1>5, <1>6, <1>7 DEF Inv

LEMMA TickStep ==
  ASSUME Inv, Tick
  PROVE  Inv'
<1>0. TypeOK /\ Known /\ Clean /\ Restricted /\ Planned
  BY DEF Inv
<1>1. UNCHANGED <<keys, access, plans, req, admin, born, free, open, crossed>>
  BY DEF Tick, store
<1>2. ASSUME NEW k \in Keys
      PROVE  /\ cache'[k] \in Entry \cup {None}
             /\ cache'[k] = cache[k]
                \/ (cache[k] # None /\ cache'[k].key = cache[k].key /\ cache'[k].outrun = cache[k].outrun)
  <2>1. CASE k \in Cached /\ cache[k].left > 0
    <3>1. cache[k] \in Entry /\ cache[k] # None
      BY <1>0, <2>1 DEF TypeOK, Cached
    <3>2. cache'[k] = [cache[k] EXCEPT !.left = cache[k].left - 1]
      BY <2>1 DEF Tick
    <3>. QED
      BY <2>1, <3>1, <3>2, KeysAssumption DEF Entry
  <2>2. CASE ~(k \in Cached /\ cache[k].left > 0)
    BY <1>0, <2>2 DEF Tick, TypeOK
  <2>. QED
    BY <2>1, <2>2
<1>3. Cached' \subseteq Cached
  BY <1>2 DEF Cached
<1>4. TypeOK'
  <2>1. cache' \in [Keys -> Entry \cup {None}]
    BY <1>2 DEF Tick
  <2>2. Cardinality(Cached') <= AuthMax
    <3>1. IsFiniteSet(Cached)
      BY FS_Subset, KeysAssumption DEF Cached
    <3>2. IsFiniteSet(Cached') /\ Cardinality(Cached') <= Cardinality(Cached)
      BY <1>3, <3>1, FS_Subset
    <3>. QED
      BY <1>0, <3>1, <3>2, FS_CardinalityType, KeysAssumption DEF TypeOK
  <2>. QED
    BY <1>0, <1>1, <2>1, <2>2 DEF TypeOK
<1>5. Known' /\ Restricted'
  BY <1>0, <1>1, <1>2 DEF Known, Restricted, RestrictedStays, Home
<1>6. Clean'
  <2>1. RevokedUnlessOutrun'
    BY <1>0, <1>1, <1>2, <1>3 DEF Clean, RevokedUnlessOutrun, Cached, Enabled
  <2>. QED
    BY <1>0, <1>1, <2>1 DEF Clean, Enabled, Pending
<1>7. Planned'
  BY <1>0, <1>1, <1>2 DEF Planned, FailsOnlyIfCrossed
<1>. QED
  BY <1>4, <1>5, <1>6, <1>7 DEF Inv

-----------------------------------------------------------------------------
LEMMA InvInit == Init => Inv
<1> SUFFICES ASSUME Init PROVE Inv
  OBVIOUS
<1>1. TypeOK
  <2>1. Cached = {} /\ Cardinality(Cached) = 0
    BY FS_EmptySet DEF Init, Cached
  <2>2. Quiet \in Places /\ Quiet \in Desks /\ 0 <= AuthMax
    BY KeysAssumption DEF Places, Desks
  <2>. QED
    BY <2>1, <2>2, KeysAssumption DEF Init, TypeOK
<1>2. Known /\ Clean
  BY DEF Init, Known, Clean, RevokedUnlessOutrun, Cached, Quiet
<1>3. Restricted /\ Planned
  BY KeysAssumption DEF Init, Restricted, RestrictedStays, Home, Planned, FailsOnlyIfCrossed, Quiet
<1>. QED
  BY <1>1, <1>2, <1>3 DEF Inv

LEMMA InvNext == Inv /\ [Next]_vars => Inv'
<1> SUFFICES ASSUME Inv, [Next]_vars PROVE Inv'
  OBVIOUS
<1>1. CASE \E r \in Requests : Serve(r) \/ \E k \in Keys : Arrive(r, k)
  BY <1>1, ServeStep
<1>2. CASE \E a \in Admins : Call(a) \/ Finish(a)
  BY <1>2, LookStep, CommitStep, KeyStep, InvalidateStep, SetAllowedModelsStep, PlanStep
     DEF Call, Finish
<1>3. CASE UNCHANGED vars
  <2>1. UNCHANGED <<keys, access, plans, cache, req, admin, born, free, open, crossed>>
    BY <1>3 DEF vars, store
  <2>. QED
    BY <2>1 DEF Inv, TypeOK, Cached, Known, Clean, RevokedUnlessOutrun, Enabled, Pending,
                Restricted, RestrictedStays, Home, Planned, FailsOnlyIfCrossed
<1>. QED
  BY <1>1, <1>2, <1>3, TickStep DEF Next

LEMMA Inductive == Spec => []Inv
BY InvInit, InvNext, PTL DEF Spec

\* Types for any number of everything; the cache stays within its limit.
THEOREM Typing == Spec => []TypeOK
<1>1. Inv => TypeOK
  BY DEF Inv
<1>. QED
  BY <1>1, Inductive, PTL

\* What is cached of a key that is disabled or deleted was read before, and
\* cached after, the invalidation, which else is still to come (identity.go:
\* SetDisabled, Delete, Authenticate).
THEOREM RevokedStaysOut == Spec => []RevokedUnlessOutrun
<1>1. Inv => RevokedUnlessOutrun
  BY DEF Inv, Clean
<1>. QED
  BY <1>1, Inductive, PTL

\* A key that some list restricts never has all models open to it while it
\* exists (admin.go: adminCreateKey; repo_apikeys.go: SetAllowedModels).
THEOREM RestrictionHolds == Spec => []RestrictedStays
<1>1. Inv => RestrictedStays
  BY DEF Inv, Restricted
<1>. QED
  BY <1>1, Inductive, PTL

\* A plan that a request finds missing was deleted across the creation of a
\* key, or the request's key is gone too (admin.go: adminDeletePlan).
THEOREM OnlyCrossedFail == Spec => []FailsOnlyIfCrossed
<1>1. Inv => FailsOnlyIfCrossed
  BY DEF Inv, Planned
<1>. QED
  BY <1>1, Inductive, PTL
=============================================================================

-------------------------------- MODULE Keys --------------------------------
(***************************************************************************)
(* API keys: backend/internal/identity/identity.go with the handlers that    *)
(* change keys and plans (gateway/admin.go), the statements they run         *)
(* (store/repo_apikeys.go, store/repo_plans.go), and the part of a request   *)
(* that depends on them (gateway/middleware.go, handlers.go, media.go):      *)
(* authentication through the cache, the key's model list, the plan's rates. *)
(*                                                                           *)
(* Every statement and every transaction is one step, and the steps of       *)
(* requests and of admin handlers interleave.  A request asks for a chain of *)
(* all models.  Ids are fresh: a deleted key or plan never comes back.       *)
(* Left out: a wrong secret under a known lookup hash, failed statements,    *)
(* last-used timestamps, and budgets (module Budget).                        *)
(***************************************************************************)
EXTENDS Naturals, FiniteSets

CONSTANTS
  Keys, Plans, Models,
  PlanRows,   \* rows a plan may hold: its model list and its rate limit
  Lists,      \* model lists that callers send: none, or a restriction
  Requests,   \* request goroutines
  Admins,     \* goroutines of admin handlers
  Ttl,        \* ticks for which an authentication is cached
  AuthMax,    \* authCacheMaxEntries
  None

Key  == [plan : Plans \cup {None}, disabled : BOOLEAN]
Plan == [models : (SUBSET Models) \ {Models}, rate : Nat]

ASSUME KeysAssumption ==
  /\ Models # {} /\ IsFiniteSet(Keys)
  /\ PlanRows \subseteq Plan
  /\ Lists \subseteq (SUBSET Models) \ {Models}
  /\ Ttl \in Nat \ {0} /\ AuthMax \in Nat \ {0}
  /\ None \notin Keys \cup Plans \cup Plan \cup Key

VARIABLES
  keys,     \* keys[k]: the row of the key, or None
  access,   \* access[k]: its model list; {} allows every model
  plans,    \* plans[p]: the row of the plan, or None
  cache,    \* cache[k]: the cached authentication of k's secret, or None
  req,      \* req[r]: a request
  admin,    \* admin[a]: an admin handler
  born,     \* history: keys that were ever created
  free,     \* history: keys that were granted every model
  open,     \* history: requests whose key was granted that at some moment of theirs
  crossed   \* history: plans deleted while a key was being created under them

store == <<keys, access, plans>>
vars  == <<store, cache, req, admin, born, free, open, crossed>>

NoPlan  == [models |-> {}, rate |-> 0]
Entry   == [key : Key, left : 0..Ttl, outrun : BOOLEAN]
Quiet   == [pc |-> "idle"]

\* Where a request may be, and where an admin handler.
Places ==
  {Quiet} \cup [pc : {"auth"}, of : Keys]
          \cup [pc : {"found"}, of : Keys, key : Key, outrun : BOOLEAN]
          \cup [pc : {"authed"}, of : Keys, key : Key]
          \cup [pc : {"filtered"}, of : Keys, key : Key, sent : SUBSET Models]
          \cup [pc : {"failed"}, of : Keys, plan : Plans]
Desks ==
  {Quiet} \cup [pc : {"create"}, of : Keys, plan : Plans \cup {None}, list : Lists, row : Plan]
          \cup [pc : {"invalidate"}, of : Keys]
          \cup [pc : {"edit"}, plan : Plans, row : Plan]
          \cup [pc : {"drop"}, plan : Plans]

Init ==
  /\ keys = [k \in Keys |-> None] /\ born = {}
  /\ access = [k \in Keys |-> {}]
  /\ plans \in [Plans -> PlanRows]
  /\ cache = [k \in Keys |-> None]
  /\ req = [r \in Requests |-> Quiet]
  /\ admin = [a \in Admins |-> Quiet]
  /\ free = {} /\ open = {} /\ crossed = {}

Enabled(k) == keys[k] # None /\ ~keys[k].disabled

-----------------------------------------------------------------------------
(* A request.                                                              *)

Home(r)         == req[r].pc \in {"idle", "auth"}
Become(r, next) == req' = [req EXCEPT ![r] = next]

\* A client presents the secret of key k, which its creator was shown once.
Arrive(r, k) ==
  /\ req[r] = Quiet /\ k \in born
  /\ Become(r, [pc |-> "auth", of |-> k])
  /\ UNCHANGED <<store, cache, admin, born, free, open, crossed>>

Authed(r, key) == [pc |-> "authed", of |-> req[r].of, key |-> key]

\* Fresh(k): the cache answers for k.  Opening(r): may r's key use every model?
Fresh(k)   == cache[k] # None /\ cache[k].left > 0
Opening(r) == open' = IF req[r].of \in free THEN open \cup {r} ELSE open \ {r}

\* Fast path: the cache vouches for the record.  What is cached is enabled.
Hit(r) ==
  /\ req[r].pc = "auth"
  /\ Fresh(req[r].of)
  /\ Become(r, Authed(r, cache[req[r].of].key)) /\ Opening(r)
  /\ UNCHANGED <<store, cache, admin, born, free, crossed>>

\* Faulty variant: the lookup is trusted to return enabled keys only.
AdmitsFound(row) == row # None
Admits(row) == row # None /\ ~row.disabled

\* Slow path: the row is read; its hash is verified afterwards.
Lookup(r) ==
  LET k == req[r].of IN
  /\ req[r].pc = "auth"
  /\ ~Fresh(k)
  /\ Opening(r)
  /\ Become(r, IF Admits(keys[k])
                 THEN [pc |-> "found", of |-> k, key |-> keys[k], outrun |-> FALSE]
                 ELSE Quiet)
  /\ UNCHANGED <<store, cache, admin, born, free, crossed>>

Cached == {k \in Keys : cache[k] # None}

\* The entries one of which makes room: those that expire first.
Oldest == {k \in Cached : \A o \in Cached : cache[k].left <= cache[o].left}

Evicted == IF Cardinality(Cached) >= AuthMax THEN {{k} : k \in Oldest} ELSE {{}}

\* The verified record is cached.
Fill(r) ==
  /\ req[r].pc = "found"
  /\ \E gone \in Evicted :
       cache' = [k \in Keys |->
                   IF k = req[r].of
                     THEN [key |-> req[r].key, left |-> Ttl, outrun |-> req[r].outrun]
                     ELSE IF k \in gone THEN None ELSE cache[k]]
  /\ Become(r, Authed(r, req[r].key))
  /\ UNCHANGED <<store, admin, born, free, open, crossed>>

Allowed(k) == IF access[k] = {} THEN Models ELSE access[k]

\* The targets are filtered by the model list as it is now.
Filter(r) ==
  /\ req[r].pc = "authed"
  /\ Become(r, [pc |-> "filtered", of |-> req[r].of, key |-> req[r].key,
                sent |-> Allowed(req[r].of)])
  /\ UNCHANGED <<store, cache, admin, born, free, open, crossed>>

\* The plan's rates are read and the pipeline takes over; a plan that is gone
\* fails the request.
Limits(r) ==
  LET p == req[r].key.plan IN
  /\ req[r].pc = "filtered"
  /\ Become(r, IF p # None /\ plans[p] = None
                 THEN [pc |-> "failed", of |-> req[r].of, plan |-> p]
                 ELSE Quiet)
  /\ UNCHANGED <<store, cache, admin, born, free, open, crossed>>

Leave(r) ==
  /\ req[r].pc = "failed"
  /\ Become(r, Quiet)
  /\ UNCHANGED <<store, cache, admin, born, free, open, crossed>>

-----------------------------------------------------------------------------
(* The admin handlers.                                                     *)

Handle(a, next) == admin' = [admin EXCEPT ![a] = next]
Idle(a)         == admin[a] = Quiet

\* Requests that already hold a row of k: their fill comes after this point.
Outrun(k) == [r \in Requests |->
                IF req[r].pc = "found" /\ req[r].of = k
                  THEN [req[r] EXCEPT !.outrun = TRUE] ELSE req[r]]

\* adminCreateKey reads the plan it was given before anything else.
ReadPlan(a, k, p, list) ==
  /\ Idle(a) /\ k \notin born
  /\ \A b \in Admins : admin[b].pc = "create" => admin[b].of # k
  /\ p # None => plans[p] # None
  /\ Handle(a, [pc |-> "create", of |-> k, plan |-> p, list |-> list,
                row |-> IF p = None THEN NoPlan ELSE plans[p]])
  /\ UNCHANGED <<store, cache, req, born, free, open, crossed>>

\* Faulty variant: the plan's list is left to the dashboard to copy.
ModelsOfOverride(c) == c.list

\* The caller's list wins over that of the plan as it was read.
ModelsOf(c) == IF c.list # {} THEN c.list ELSE c.row.models

\* One transaction inserts the key, its model list and its budget, whose
\* enforcement is that of module Budget.
CommitKey(a) ==
  LET c == admin[a] IN
  /\ c.pc = "create"
  /\ keys' = [keys EXCEPT ![c.of] = [plan |-> c.plan, disabled |-> FALSE]]
  /\ access' = [access EXCEPT ![c.of] = ModelsOf(c)]
  /\ born' = born \cup {c.of}
  /\ crossed' = IF c.plan # None /\ (plans[c.plan] = None
                     \/ \E b \in Admins : admin[b].pc = "drop" /\ admin[b].plan = c.plan)
                  THEN crossed \cup {c.plan} ELSE crossed
  /\ free' = IF c.list = {} /\ c.row.models = {} THEN free \cup {c.of} ELSE free
  /\ Handle(a, Quiet)
  /\ UNCHANGED <<plans, cache, req, open>>

\* The row changes first, the cache is invalidated afterwards.
SetDisabled(a, k, off) ==
  /\ Idle(a)
  /\ keys' = IF keys[k] = None THEN keys ELSE [keys EXCEPT ![k].disabled = off]
  /\ Handle(a, [pc |-> "invalidate", of |-> k])
  /\ UNCHANGED <<access, plans, cache, req, born, free, open, crossed>>

Cascade(k) == [access EXCEPT ![k] = {}]

\* Deleting a key takes its model list along.
DeleteKey(a, k) ==
  /\ Idle(a)
  /\ keys' = [keys EXCEPT ![k] = None]
  /\ access' = Cascade(k)
  /\ Handle(a, [pc |-> "invalidate", of |-> k])
  /\ UNCHANGED <<plans, cache, req, born, free, open, crossed>>

\* Faulty variant: an entry goes only once it has expired.
DropsExpired(k) == IF cache[k] # None /\ cache[k].left = 0
                     THEN [cache EXCEPT ![k] = None] ELSE cache
Drops(k) == [cache EXCEPT ![k] = None]

InvalidateAuthCacheForKey(a) ==
  /\ admin[a].pc = "invalidate"
  /\ cache' = Drops(admin[a].of)
  /\ req' = Outrun(admin[a].of)
  /\ Handle(a, Quiet)
  /\ UNCHANGED <<store, born, free, open, crossed>>

\* One transaction replaces the list; a list needs the row of its key.
SetAllowedModels(a, k, list) ==
  /\ Idle(a)
  /\ keys[k] # None
  /\ access' = [access EXCEPT ![k] = list]
  /\ free' = IF list = {} THEN free \cup {k} ELSE free \ {k}
  /\ open' = IF list = {} THEN open \cup {r \in Requests : ~Home(r) /\ req[r].of = k}
             ELSE open
  /\ UNCHANGED <<keys, plans, cache, req, admin, born, crossed>>

\* adminUpdatePlan reads the row, and writes all of it back with its change.
ReadForUpdate(a, p) ==
  /\ Idle(a)
  /\ plans[p] # None
  /\ Handle(a, [pc |-> "edit", plan |-> p, row |-> plans[p]])
  /\ UNCHANGED <<store, cache, req, born, free, open, crossed>>

UpdatePlan(a, field, row) ==
  LET c == admin[a] IN
  /\ c.pc = "edit"
  /\ plans' = IF plans[c.plan] = None THEN plans
               ELSE [plans EXCEPT ![c.plan] = [c.row EXCEPT ![field] = row[field]]]
  /\ Handle(a, Quiet)
  /\ UNCHANGED <<keys, access, cache, req, born, free, open, crossed>>

\* Faulty variant: only keys that are enabled count.
KeysOfEnabled(p) == {k \in Keys : Enabled(k) /\ keys[k].plan = p}
KeysOf(p) == {k \in Keys : keys[k] # None /\ keys[k].plan = p}

\* adminDeletePlan counts the keys of the plan, and deletes it afterwards.
CountKeys(a, p) ==
  /\ Idle(a)
  /\ KeysOf(p) = {}
  /\ Handle(a, [pc |-> "drop", plan |-> p])
  /\ UNCHANGED <<store, cache, req, born, free, open, crossed>>

DeletePlan(a) ==
  /\ admin[a].pc = "drop"
  /\ plans' = [plans EXCEPT ![admin[a].plan] = None]
  /\ Handle(a, Quiet)
  /\ UNCHANGED <<keys, access, cache, req, born, free, open, crossed>>

-----------------------------------------------------------------------------
\* A tick of the clock ages what is cached.
Tick ==
  /\ \E k \in Cached : cache[k].left > 0
  /\ cache' = [k \in Keys |-> IF k \in Cached /\ cache[k].left > 0
                                THEN [cache[k] EXCEPT !.left = @ - 1] ELSE cache[k]]
  /\ UNCHANGED <<store, req, admin, born, free, open, crossed>>

Serve(r) == Hit(r) \/ Lookup(r) \/ Fill(r) \/ Filter(r) \/ Limits(r) \/ Leave(r)

Finish(a) ==
  \/ CommitKey(a) \/ InvalidateAuthCacheForKey(a) \/ DeletePlan(a)
  \/ \E row \in PlanRows, field \in DOMAIN NoPlan : UpdatePlan(a, field, row)

Call(a) ==
  \/ \E k \in Keys, p \in Plans \cup {None}, list \in Lists :
       ReadPlan(a, k, p, list)
  \/ \E k \in Keys, off \in BOOLEAN : SetDisabled(a, k, off)
  \/ \E k \in Keys : DeleteKey(a, k)
  \/ \E k \in Keys, list \in Lists : SetAllowedModels(a, k, list)
  \/ \E p \in Plans : ReadForUpdate(a, p) \/ CountKeys(a, p)

Next ==
  \/ \E r \in Requests : Serve(r) \/ \E k \in Keys : Arrive(r, k)
  \/ \E a \in Admins : Call(a) \/ Finish(a)
  \/ Tick

\* Requests and handlers run to their end, and the clock goes on; nothing
\* makes a client or an administrator come.
Fairness ==
  /\ \A r \in Requests : WF_vars(Serve(r))
  /\ \A a \in Admins : WF_vars(Finish(a))
  /\ WF_vars(Tick)

Spec == Init /\ [][Next]_vars /\ Fairness

-----------------------------------------------------------------------------
(* Properties.                                                             *)

\* Types; the cache never outgrows its limit, and no list outlives its key.
TypeOK ==
  /\ keys \in [Keys -> Key \cup {None}] /\ born \subseteq Keys
  /\ access \in [Keys -> SUBSET Models] /\ \A k \in Keys : keys[k] = None => access[k] = {}
  /\ plans \in [Plans -> Plan \cup {None}]
  /\ cache \in [Keys -> Entry \cup {None}] /\ Cardinality(Cached) <= AuthMax
  /\ req \in [Requests -> Places] /\ admin \in [Admins -> Desks]
  /\ free \subseteq born /\ open \subseteq Requests /\ crossed \subseteq Plans

\* No authentication of a key that is disabled or deleted stays in the cache
\* once its handler has invalidated it, unless a request had read the row
\* before that and cached it after (identity.go: SetDisabled, Delete, Authenticate).
RevokedUnlessOutrun ==
  \A k \in Cached :
    \/ Enabled(k)
    \/ cache[k].outrun
    \/ \E a \in Admins : admin[a].pc = "invalidate" /\ admin[a].of = k

\* A key whose list, or whose plan's list, has restricted it throughout a
\* request never opens all models to it: its creation and each replacement of
\* its list leave no moment without one.  Deletion does: the list goes with the
\* row, and a request under way finds none (admin.go, repo_apikeys.go).
RestrictedStays ==
  \A r \in Requests : req[r].pc = "filtered" =>
    \/ req[r].sent # Models
    \/ r \in open
    \/ keys[req[r].of] = None

\* A request fails for a missing plan only if that plan was deleted while a
\* key was being created under it, or if its own key has been deleted since
\* (admin.go: adminDeletePlan; handlers.go: effectiveLimits).
FailsOnlyIfCrossed ==
  \A r \in Requests : req[r].pc = "failed" =>
    req[r].plan \in crossed \/ keys[req[r].of] = None

\* A key that stays disabled or deleted leaves the cache for good, however
\* the invalidation raced with its requests (identity.go: authCacheTTL).
RevocationLands ==
  \A k \in Keys : (<>[]~Enabled(k)) => <>[]~Fresh(k)
=============================================================================

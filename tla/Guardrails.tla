----------------------------- MODULE Guardrails -----------------------------
(***************************************************************************)
(* The policy a request is judged by: backend/internal/guardrails            *)
(* (resolver.go, policy.go, engine.go), the handlers that edit policies      *)
(* (gateway/guardrails.go, guardrails_extras.go), and the unary path of      *)
(* pipeline.go around them, with the semantic cache that may answer in the   *)
(* place of a provider (cache/cache.go).                                     *)
(*                                                                           *)
(* A policy is reduced to what it says of one detector: nothing, let pass,   *)
(* or block; what the detector finds is a choice of the request's and of the *)
(* answer's.  Resolving walks the layers, and each layer that is not cached  *)
(* takes a read and, later, a store.  One handler edits at a time, and the   *)
(* semantic cache has one entry, similar to every prompt.  Left out: masks,  *)
(* tenant flags, the audit log and the streaming path (module StreamPump).   *)
(***************************************************************************)
EXTENDS PolicyRows

vars == <<rows, cache, edit, req, answers>>

Answers == {"clean", "leaky"}
Quiet   == [pc |-> "idle"]

\* Why a cached row may differ from the stored one; see Stale.
Excuses == {"none", "outrun", "failed", "deleted"}
Entry   == [row : Rows \cup {None}, left : 1..Ttl, why : Excuses]

\* A request that resolves or is judged, has read a layer, has its answer.
Resolves == [pc : {"resolve", "judge"}, dir : {"in", "out"}, said : Answers,
             layer : Layers, rule : Rules]
Reads    == [pc : {"read"}, dir : {"in", "out"}, said : Answers, layer : Layers,
             rule : Rules, row : Rows \cup {None}, why : Excuses]
Returns  == [pc : {"sent"}, said : Answers, hit : BOOLEAN]
Edits    == [pc : {"invalidate", "forget", "delete"}, layer : Layers]
            \cup [pc : {"have"}, layer : Layers, row : Rows]

Init ==
  /\ rows \in [Layers -> Rows \cup {None}]
  /\ cache = [l \in Layers |-> None]
  /\ edit = Quiet
  /\ req = [r \in Requests |-> Quiet]
  /\ answers = None

-----------------------------------------------------------------------------
(* Resolving.                                                              *)

Become(r, next) == req' = [req EXCEPT ![r] = next]

\* Judging starts at the global layer with nothing said.
Judging(dir, said) ==
  [pc |-> "resolve", dir |-> dir, said |-> said, layer |-> 1, rule |-> "inherit"]

\* An enabled row overrides what it speaks of.
Merge(rule, row) ==
  IF row = None THEN rule
  ELSE IF row.enabled /\ row.rule # "inherit" THEN row.rule ELSE rule

IsLast(l) == l = Depth

Advance(r, row) ==
  LET q == req[r] IN
  Become(r, [pc |-> IF IsLast(q.layer) THEN "judge" ELSE "resolve",
             dir |-> q.dir, said |-> q.said, rule |-> Merge(q.rule, row),
             layer |-> IF IsLast(q.layer) THEN q.layer ELSE q.layer + 1])

FetchCached(r) ==
  /\ req[r].pc = "resolve"
  /\ Fresh(req[r].layer)
  /\ Advance(r, cache[req[r].layer].row)
  /\ UNCHANGED <<rows, cache, edit, answers>>

Reading(r, row, why) ==
  /\ req[r].pc = "resolve"
  /\ ~Fresh(req[r].layer)
  /\ Become(r, [pc |-> "read", dir |-> req[r].dir, said |-> req[r].said,
                layer |-> req[r].layer, rule |-> req[r].rule, row |-> row, why |-> why])
  /\ UNCHANGED <<rows, cache, edit, answers>>

Read(r) == req[r].pc = "resolve" /\ Reading(r, rows[req[r].layer], "none")

\* A read that fails counts as a layer without a policy: the client has gone,
\* or the database is busy.
ReadFails(r) == Reading(r, None, "failed")

\* What was read is cached, with a lifetime that starts now.
Store(r) ==
  LET q == req[r] IN
  /\ q.pc = "read"
  /\ cache' = [cache EXCEPT ![q.layer] = [row |-> q.row, left |-> Ttl, why |-> q.why]]
  /\ Advance(r, q.row)
  /\ UNCHANGED <<rows, edit, answers>>

-----------------------------------------------------------------------------
(* A unary request.                                                        *)

\* The inbound check comes first.
Arrive(r) ==
  /\ req[r] = Quiet
  /\ Become(r, Judging("in", "clean"))
  /\ UNCHANGED <<rows, cache, edit, answers>>

\* A prompt the detector objects to is refused under a blocking policy.
RefusePrompt(r) ==
  /\ req[r].pc = "judge" /\ req[r].dir = "in" /\ req[r].rule = "block"
  /\ Become(r, Quiet)
  /\ UNCHANGED <<rows, cache, edit, answers>>

Sent(said, hit) == [pc |-> "sent", said |-> said, hit |-> hit]

\* The semantic cache answers, and the answer is returned as it is.
CacheHit(r) ==
  /\ req[r].pc = "judge" /\ req[r].dir = "in"
  /\ answers # None
  /\ Become(r, Sent(answers, TRUE))
  /\ UNCHANGED <<rows, cache, edit, answers>>

\* A provider answers; the policy is resolved again for the answer.
Answer(r, said) ==
  /\ req[r].pc = "judge" /\ req[r].dir = "in"
  /\ answers = None
  /\ Become(r, Judging("out", said))
  /\ UNCHANGED <<rows, cache, edit, answers>>

BlocksAnswer(q) == q.rule = "block" /\ q.said = "leaky"

RefuseAnswer(r) ==
  /\ req[r].pc = "judge" /\ req[r].dir = "out"
  /\ BlocksAnswer(req[r])
  /\ Become(r, Quiet)
  /\ UNCHANGED <<rows, cache, edit, answers>>

\* The answer is cached and returned.
Return(r) ==
  /\ req[r].pc = "judge" /\ req[r].dir = "out"
  /\ ~BlocksAnswer(req[r])
  /\ answers' = req[r].said
  /\ Become(r, Sent(req[r].said, FALSE))
  /\ UNCHANGED <<rows, cache, edit>>

Leave(r) ==
  /\ req[r].pc = "sent"
  /\ Become(r, Quiet)
  /\ UNCHANGED <<rows, cache, edit, answers>>

\* The cached answer expires or is overwritten by another prompt's.
Forget ==
  /\ answers # None
  /\ answers' = None
  /\ UNCHANGED <<rows, cache, edit, req>>

-----------------------------------------------------------------------------
(* The admin handlers.                                                     *)

\* The stored row of l becomes row: what requests have read of it is old news,
\* and so is what was cached if its invalidation has already been.
Put(l, row, late) ==
  /\ rows' = [rows EXCEPT ![l] = row]
  /\ req' = [r \in Requests |->
               IF req[r].pc = "read" /\ req[r].layer = l
                 THEN [req[r] EXCEPT !.why = "outrun"] ELSE req[r]]
  /\ cache' = IF late /\ Fresh(l)
                THEN [cache EXCEPT ![l].why = "deleted"] ELSE cache

\* adminCreateGuardrail and the import: the row of the scope is replaced.
Create(l, row) ==
  /\ edit = Quiet
  /\ Put(l, row, FALSE)
  /\ edit' = [pc |-> "invalidate", layer |-> l]
  /\ UNCHANGED answers

\* adminUpdateGuardrail reads the row, changes a field and writes it back.
GetForUpdate(l) ==
  /\ edit = Quiet /\ rows[l] # None
  /\ edit' = [pc |-> "have", layer |-> l, row |-> rows[l]]
  /\ UNCHANGED <<rows, cache, req, answers>>

Update(field, row) ==
  /\ edit.pc = "have"
  /\ [edit.row EXCEPT ![field] = row[field]] \in Rows
  /\ Put(edit.layer, [edit.row EXCEPT ![field] = row[field]], FALSE)
  /\ edit' = [pc |-> "invalidate", layer |-> edit.layer]
  /\ UNCHANGED answers

\* Faulty variant: the entry dropped is always that of the global layer.
DropsGlobal(l) == [cache EXCEPT ![1] = None]
Drops(l) == [cache EXCEPT ![l] = None]

Invalidate ==
  /\ edit.pc = "invalidate"
  /\ cache' = Drops(edit.layer)
  /\ edit' = Quiet
  /\ UNCHANGED <<rows, req, answers>>

\* adminDeleteGuardrail reads the row, invalidates, and only then deletes.
GetForDelete(l) ==
  /\ edit = Quiet /\ rows[l] # None
  /\ edit' = [pc |-> "forget", layer |-> l]
  /\ UNCHANGED <<rows, cache, req, answers>>

InvalidateForDelete ==
  /\ edit.pc = "forget"
  /\ cache' = Drops(edit.layer)
  /\ edit' = [edit EXCEPT !.pc = "delete"]
  /\ UNCHANGED <<rows, req, answers>>

Delete ==
  /\ edit.pc = "delete"
  /\ Put(edit.layer, None, TRUE)
  /\ edit' = Quiet
  /\ UNCHANGED answers

-----------------------------------------------------------------------------
\* Faulty variant: that a layer has no policy is remembered for good.
AgedFound(e) == IF e.row = None THEN e
                ELSE IF e.left = 1 THEN None ELSE [e EXCEPT !.left = @ - 1]
Aged(e) == IF e.left = 1 THEN None ELSE [e EXCEPT !.left = @ - 1]

\* A tick of the clock ages what is cached; what has expired is as good as gone.
Tick ==
  /\ \E l \in Layers : Fresh(l)
  /\ cache' = [l \in Layers |-> IF Fresh(l) THEN Aged(cache[l]) ELSE None]
  /\ UNCHANGED <<rows, edit, req, answers>>

Proceed(r) ==
  \/ FetchCached(r) \/ Read(r) \/ ReadFails(r) \/ Store(r)
  \/ RefusePrompt(r) \/ CacheHit(r) \/ (\E said \in Answers : Answer(r, said))
  \/ RefuseAnswer(r) \/ Return(r) \/ Leave(r)

Edit ==
  \/ \E l \in Layers : GetForUpdate(l) \/ GetForDelete(l) \/ \E row \in Rows : Create(l, row)
  \/ \E field \in {"enabled", "rule"}, row \in Rows : Update(field, row)
  \/ Invalidate \/ InvalidateForDelete \/ Delete

Next ==
  \/ \E r \in Requests : Arrive(r) \/ Proceed(r)
  \/ Edit \/ Forget \/ Tick

\* Requests run to their end and the clock goes on.
Fairness ==
  /\ \A r \in Requests : WF_vars(Proceed(r))
  /\ WF_vars(Tick)

Spec == Init /\ [][Next]_vars /\ Fairness

-----------------------------------------------------------------------------
(* Properties.                                                             *)

\* Types; a request is never past the most specific layer.
TypeOK ==
  /\ rows \in [Layers -> Rows \cup {None}]
  /\ cache \in [Layers -> Entry \cup {None}]
  /\ edit \in Edits \cup {Quiet}
  /\ answers \in Answers \cup {None}
  /\ req \in [Requests -> Resolves \cup Reads \cup Returns \cup {Quiet}]

\* The rule that the stored rows amount to, from one layer to the most specific.
Stored[l \in 0..Depth] == IF l = 0 THEN "inherit" ELSE Merge(Stored[l - 1], rows[l])

\* Whatever raced before, once the stored policies stand at blocking and reads
\* succeed, an answer that the detector objects to is returned no more, unless
\* it comes from the semantic cache (resolver.go, engine.go: Outbound).
BlockingLands ==
  /\ <>[](edit = Quiet /\ Stored[Depth] = "block")
  /\ <>[][~ \E r \in Requests : ReadFails(r)]_vars
  => <>[](\A r \in Requests : req[r].pc = "sent" => req[r].said = "clean" \/ req[r].hit)
=============================================================================

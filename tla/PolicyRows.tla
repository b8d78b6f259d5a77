----------------------------- MODULE PolicyRows -----------------------------
(***************************************************************************)
(* The guardrail policies as they are stored and as the resolver has them  *)
(* cached, and what is promised of the two.  How requests and handlers move *)
(* them is Guardrails.tla.                                                 *)
(***************************************************************************)
EXTENDS Naturals

CONSTANTS
  Depth,     \* layers: 1 is global, Depth the most specific
  Rows,      \* policies an administrator may store
  Requests,  \* goroutines of requests
  Ttl,       \* ticks for which a layer is cached
  None

ASSUME GuardrailsAssumption ==
  /\ Depth \in Nat \ {0} /\ Ttl \in Nat \ {0}

Rules == {"inherit", "pass", "block"}

ASSUME RowsAssumption == Rows \subseteq [enabled : BOOLEAN, rule : Rules] /\ None \notin Rows

VARIABLES
  rows,    \* rows[l]: the stored policy of layer l, or None
  cache,   \* cache[l]: what the resolver has cached of it, or None
  edit,    \* the admin handler
  req,     \* req[r]: a request
  answers  \* the answer in the semantic cache, or None

Layers == 1..Depth

\* The resolver has an entry of layer l that has not expired.
Fresh(l) == cache[l] # None

-----------------------------------------------------------------------------
\* What the resolver serves from its cache is the stored row, or its handler
\* is about to invalidate it, or one of three things happened: a request read
\* it before the edit and cached it after the invalidation, its read failed,
\* or its deletion invalidated before it deleted (resolver.go: fetch, store;
\* gateway/guardrails.go: adminDeleteGuardrail).
Stale ==
  \A l \in Layers : Fresh(l) =>
    \/ cache[l].row = rows[l]
    \/ cache[l].why # "none"
    \/ edit.pc = "invalidate" /\ edit.layer = l
=============================================================================

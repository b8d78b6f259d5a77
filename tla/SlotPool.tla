----------------------------- MODULE SlotPool -----------------------------
(***************************************************************************)
(* What a concurrency limiter promises, with no counter in it: for every   *)
(* key the set of requests that occupy one of its slots.  A request asks   *)
(* under the limit its plan gave it, is let in only while the occupants    *)
(* are fewer than that limit, occupies at most one slot, and only an       *)
(* occupant can leave.  Limiter.tla is shown to implement this with an     *)
(* integer per key.                                                        *)
(***************************************************************************)
EXTENDS Integers, FiniteSets

CONSTANTS
  Keys,       \* API keys that carry limits
  Reqs,       \* requests
  Caps        \* the concurrency limits a plan may give, 0 for none

VARIABLES
  holders,    \* holders[k]: the requests that occupy a slot of key k
  asked       \* asked[r]: the limit r asks under, 0 when it asks for no slot

vars == <<holders, asked>>

Init ==
  /\ holders = [k \in Keys |-> {}]
  /\ asked = [r \in Reqs |-> 0]

\* A request that occupies nothing asks for a slot.
Ask(r, cap) ==
  /\ \A k \in Keys : r \notin holders[k]
  /\ asked' = [asked EXCEPT ![r] = cap]
  /\ UNCHANGED holders

\* It takes a slot of k, which was below the limit it asked under.
Admit(k, r) ==
  /\ asked[r] > 0
  /\ Cardinality(holders[k]) < asked[r]
  /\ holders' = [holders EXCEPT ![k] = @ \cup {r}]
  /\ asked' = [asked EXCEPT ![r] = 0]

\* It is turned away, for this or for another limit.
TurnAway(r) ==
  /\ asked' = [asked EXCEPT ![r] = 0]
  /\ UNCHANGED holders

\* An occupant gives its slot back.
Leave(k, r) ==
  /\ r \in holders[k]
  /\ holders' = [holders EXCEPT ![k] = @ \ {r}]
  /\ UNCHANGED asked

Next == \E r \in Reqs :
          \/ \E cap \in Caps : Ask(r, cap)
          \/ TurnAway(r)
          \/ \E k \in Keys : Admit(k, r) \/ Leave(k, r)

Spec == Init /\ [][Next]_vars
============================================================================

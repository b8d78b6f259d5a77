------------------------- MODULE TokenRefreshProofs -------------------------
(***************************************************************************)
(* Proofs about TokenRefresh.tla, for any callers and any bound on the      *)
(* tokens that the provider issues.                                         *)
(***************************************************************************)
EXTENDS TokenRefresh, TLAPS

\* There is at most one flight, and whoever is on it knows who leads it.
Flights ==
  /\ \A c \in Callers : leader[c] # NoOne <=> pc[c] \in Fetching \cup {"joined"}
  /\ \A c \in Callers : leader[c] # NoOne => leader[c] \in Leads
  /\ \A c, d \in Leads : c = d

\* The provider accepts one refresh token, and nobody holds a later one.
Newest ==
  \E t \in Tokens :
    /\ live = {t} /\ t <= issued
    /\ row.refresh <= t /\ row.access <= issued
    /\ \A c \in Callers : acc[c].refresh <= t /\ acc[c].access <= issued

\* What the flight holds is the newest, and what it was refused for is spent.
Held ==
  \A c \in Callers :
    /\ pc[c] = "issued" => acc[c].refresh \in live /\ acc[c].access = issued
    /\ pc[c] = "refused" => acc[c].refresh \notin live \/ revoked

Inv == TypeOK /\ Flights /\ Newest /\ Held /\ StoredTokenLive

Same(a, b) == a.access = b.access /\ a.refresh = b.refresh

-----------------------------------------------------------------------------
(* What the actions have in common                                         *)

LEMMA EnterKeeps ==
  ASSUME TypeOK, Flights, NEW c \in Callers, pc[c] \in {"read", "probing"}, Enter(c)
  PROVE  /\ pc' \in [Callers -> Places] /\ leader' \in [Callers -> Callers \cup {NoOne}]
         /\ Flights'
         /\ \A d \in Callers : pc'[d] \in {"issued", "refused"} <=> pc[d] \in {"issued", "refused"}
         /\ \A d \in Callers : pc'[d] \in {"issued", "refused"} => pc'[d] = pc[d]
<1>1. c \notin Leads /\ c # NoOne
  BY TokenRefreshAssumption DEF Leads, Fetching
<1>2. CASE /\ Leads = {}
           /\ pc' = [pc EXCEPT ![c] = "calling"]
           /\ leader' = [leader EXCEPT ![c] = c]
  <2>1. Leads' = {c}
    BY <1>2 DEF Leads, Fetching, TypeOK
  <2>2. \A d \in Callers : leader[d] = NoOne
    BY <1>2 DEF Flights
  <2>3. Flights'
    <3>1. \A d \in Callers : leader'[d] = IF d = c THEN c ELSE NoOne
      BY <1>2, <2>2 DEF TypeOK
    <3>2. \A d \in Callers : (leader[d] # NoOne <=> pc[d] \in Fetching \cup {"joined"})'
      BY <1>1, <1>2, <2>2, <3>1 DEF TypeOK, Flights, Fetching
    <3>. QED
      BY <2>1, <3>1, <3>2 DEF Flights
  <2>. QED
    BY <1>2, <2>3 DEF TypeOK, Places, Fetching
<1>3. CASE \E d \in Leads : /\ pc' = [pc EXCEPT ![c] = "joined"]
                            /\ leader' = [leader EXCEPT ![c] = d]
  <2>1. PICK d \in Leads : /\ pc' = [pc EXCEPT ![c] = "joined"]
                           /\ leader' = [leader EXCEPT ![c] = d]
    BY <1>3
  <2>2. d \in Callers /\ d # NoOne
    BY TokenRefreshAssumption DEF Leads
  <2>3. Leads' = Leads
    BY <1>1, <2>1 DEF Leads, Fetching, TypeOK
  <2>4. Flights'
    <3>1. \A e \in Callers : (leader[e] # NoOne <=> pc[e] \in Fetching \cup {"joined"})'
      BY <2>1, <2>2 DEF TypeOK, Flights, Fetching
    <3>2. \A e \in Callers : leader'[e] # NoOne => leader'[e] \in Leads
      BY <2>1 DEF TypeOK, Flights
    <3>. QED
      BY <2>3, <3>1, <3>2 DEF Flights
  <2>. QED
    BY <2>1, <2>2, <2>4 DEF TypeOK, Places, Fetching
<1>. QED
  BY <1>2, <1>3 DEF Enter

\* A caller that is on no flight, before and after, disturbs none.
LEMMA GroundKeeps ==
  ASSUME TypeOK, Flights, NEW c \in Callers, NEW place \in Places, UNCHANGED leader,
         pc[c] \notin Fetching \cup {"joined"}, place \notin Fetching \cup {"joined"},
         pc' = [pc EXCEPT ![c] = place]
  PROVE  /\ pc' \in [Callers -> Places] /\ Flights'
         /\ \A d \in Callers : pc'[d] \in {"issued", "refused"} <=> pc[d] \in {"issued", "refused"}
         /\ \A d \in Callers : pc'[d] \in {"issued", "refused"} => pc'[d] = pc[d]
<1>1. Leads' = Leads
  BY DEF Leads, TypeOK
<1>2. \A d \in Callers : pc'[d] \in Fetching \cup {"joined"} <=> pc[d] \in Fetching \cup {"joined"}
  BY DEF TypeOK
<1>3. Flights'
  BY <1>1, <1>2 DEF Flights
<1>. QED
  BY <1>3 DEF TypeOK, Fetching

\* A flight moves on, and no other is under way.
LEMMA FlightKeeps ==
  ASSUME TypeOK, Flights, NEW c \in Leads, NEW place \in Fetching, UNCHANGED leader,
         pc' = [pc EXCEPT ![c] = place]
  PROVE  /\ pc' \in [Callers -> Places] /\ Flights'
         /\ \A d \in Callers : d # c => pc'[d] \notin Fetching
<1>0. c \in Callers /\ pc[c] \in Fetching
  BY DEF Leads
<1>1. Leads' = Leads
  BY <1>0 DEF Leads, TypeOK
<1>2. \A d \in Callers : pc'[d] \in Fetching \cup {"joined"} <=> pc[d] \in Fetching \cup {"joined"}
  BY <1>0 DEF TypeOK
<1>3. Flights'
  BY <1>1, <1>2 DEF Flights
<1>. QED
  BY <1>0, <1>3 DEF TypeOK, Places, Flights, Leads

\* Tokens change hands and none is issued.
LEMMA HandsKeep ==
  ASSUME Newest, issued \in Tokens, UNCHANGED <<live, issued>>,
         Same(row', row) \/ \E d \in Callers : Same(row', acc[d]),
         \A c \in Callers : \/ Same(acc'[c], row) \/ Same(acc'[c], Blank)
                            \/ \E d \in Callers : Same(acc'[c], acc[d])
  PROVE  Newest'
<1>1. PICK t \in Tokens : /\ live = {t} /\ t <= issued
                          /\ row.refresh <= t /\ row.access <= issued
                          /\ \A c \in Callers : acc[c].refresh <= t /\ acc[c].access <= issued
  BY DEF Newest
<1>2. 0 <= t /\ 0 <= issued
  BY <1>1, TokenRefreshAssumption DEF Tokens
<1>3. row'.refresh <= t /\ row'.access <= issued
  BY <1>1 DEF Same
<1>4. \A c \in Callers : acc'[c].refresh <= t /\ acc'[c].access <= issued
  BY <1>1, <1>2 DEF Same, Blank
<1>. QED
  BY <1>1, <1>3, <1>4 DEF Newest

-----------------------------------------------------------------------------
(* The steps of a caller outside its flight                                *)

\* A step that neither issues nor refuses, and leaves what is held alone.
LEMMA Aside ==
  ASSUME Inv, TypeOK', Flights', Newest', UNCHANGED <<live, issued, revoked, lost>>,
         row'.refresh = row.refresh,
         \A d \in Callers : pc'[d] \in {"issued", "refused"} =>
           pc'[d] = pc[d] /\ acc'[d] = acc[d],
         \A d \in Callers : pc[d] = "issued" => pc'[d] = "issued"
  PROVE  Inv'
<1>1. Held'
  BY DEF Inv, Held
<1>2. StoredTokenLive'
  BY DEF Inv, StoredTokenLive
<1>. QED
  BY <1>1, <1>2 DEF Inv

LEMMA ReturnType ==
  ASSUME TypeOK, Flights, NEW c \in Callers, pc[c] \in {"read", "probing", "retrying"},
         Return(c), UNCHANGED leader
  PROVE  /\ pc' \in [Callers -> Places] /\ Flights'
         /\ \A d \in Callers : pc'[d] \in {"issued", "refused"} <=> pc[d] \in {"issued", "refused"}
         /\ \A d \in Callers : pc'[d] \in {"issued", "refused"} => pc'[d] = pc[d] /\ d # c
         /\ acc' = [acc EXCEPT ![c] = Blank] /\ acc' \in [Callers -> Account]
         /\ was' \in [Callers -> BOOLEAN] /\ forced' \in [Callers -> BOOLEAN]
<1>1. "idle" \in Places /\ pc' = [pc EXCEPT ![c] = "idle"]
  BY DEF Return, Places
<1>2. pc[c] \notin Fetching \cup {"joined"} /\ "idle" \notin Fetching \cup {"joined"}
  BY DEF Fetching
<1>3. Blank \in Account
  BY TokenRefreshAssumption DEF Blank, Account, Tokens
<1>. QED
  BY <1>1, <1>2, <1>3, GroundKeeps DEF Return, TypeOK

LEMMA ReadStep ==
  ASSUME Inv, NEW c \in Callers, Read(c)
  PROVE  Inv'
<1>0. TypeOK /\ Flights
  BY DEF Inv
<1>1. "read" \in Places /\ {"idle", "read"} \cap (Fetching \cup {"joined"}) = {}
  BY DEF Places, Fetching
<1>2. /\ pc' \in [Callers -> Places] /\ Flights'
      /\ \A d \in Callers : pc'[d] \in {"issued", "refused"} <=> pc[d] \in {"issued", "refused"}
      /\ \A d \in Callers : pc'[d] \in {"issued", "refused"} => pc'[d] = pc[d]
  BY <1>0, <1>1, GroundKeeps DEF Read
<1>3. TypeOK'
  BY <1>0, <1>2 DEF Read, TypeOK, provider, Account
<1>4. Newest'
  BY <1>0, HandsKeep DEF Inv, Read, provider, Same, TypeOK
<1>5. \A d \in Callers : pc'[d] \in {"issued", "refused"} => acc'[d] = acc[d]
  BY <1>0 DEF Read, TypeOK
<1>. QED
  BY <1>2, <1>3, <1>4, <1>5, Aside DEF Read, provider

LEMMA EnsureFreshStep ==
  ASSUME Inv, NEW c \in Callers, EnsureFresh(c)
  PROVE  Inv'
<1>0. TypeOK /\ Flights /\ pc[c] = "read"
  BY DEF Inv, EnsureFresh
<1>1. CASE Enter(c) /\ UNCHANGED <<acc, was, forced>>
  <2>1. /\ pc' \in [Callers -> Places] /\ leader' \in [Callers -> Callers \cup {NoOne}]
        /\ Flights'
        /\ \A d \in Callers : pc'[d] \in {"issued", "refused"} <=> pc[d] \in {"issued", "refused"}
        /\ \A d \in Callers : pc'[d] \in {"issued", "refused"} => pc'[d] = pc[d]
    BY <1>0, <1>1, EnterKeeps
  <2>2. TypeOK'
    BY <1>0, <1>1, <2>1 DEF EnsureFresh, TypeOK, provider
  <2>3. Newest'
    BY <1>1 DEF Inv, EnsureFresh, provider, Newest
  <2>. QED
    BY <1>1, <2>1, <2>2, <2>3, Aside DEF EnsureFresh, provider
<1>2. CASE Return(c) /\ UNCHANGED leader
  <2>1. /\ pc' \in [Callers -> Places] /\ Flights'
        /\ \A d \in Callers : pc'[d] \in {"issued", "refused"} <=> pc[d] \in {"issued", "refused"}
        /\ \A d \in Callers : pc'[d] \in {"issued", "refused"} => pc'[d] = pc[d] /\ d # c
        /\ acc' = [acc EXCEPT ![c] = Blank] /\ acc' \in [Callers -> Account]
        /\ was' \in [Callers -> BOOLEAN] /\ forced' \in [Callers -> BOOLEAN]
    BY <1>0, <1>2, ReturnType
  <2>2. TypeOK'
    BY <1>0, <1>2, <2>1 DEF EnsureFresh, TypeOK, provider
  <2>3. Newest'
    BY <1>0, <2>1, HandsKeep DEF Inv, EnsureFresh, provider, Same, TypeOK
  <2>. QED
    BY <1>0, <2>1, <2>2, <2>3, Aside DEF EnsureFresh, provider, TypeOK
<1>3. CASE pc' = [pc EXCEPT ![c] = "probing"] /\ UNCHANGED <<acc, was, forced, leader>>
  <2>1. "probing" \in Places /\ {"read", "probing"} \cap (Fetching \cup {"joined"}) = {}
    BY DEF Places, Fetching
  <2>2. /\ pc' \in [Callers -> Places] /\ Flights'
        /\ \A d \in Callers : pc'[d] \in {"issued", "refused"} <=> pc[d] \in {"issued", "refused"}
        /\ \A d \in Callers : pc'[d] \in {"issued", "refused"} => pc'[d] = pc[d]
    BY <1>0, <1>3, <2>1, GroundKeeps
  <2>3. TypeOK'
    BY <1>0, <1>3, <2>2 DEF EnsureFresh, TypeOK, provider
  <2>4. Newest'
    BY <1>3 DEF Inv, EnsureFresh, provider, Newest
  <2>. QED
    BY <1>3, <2>2, <2>3, <2>4, Aside DEF EnsureFresh, provider
<1>. QED
  BY <1>1, <1>2, <1>3 DEF EnsureFresh

\* Probing takes a flag off or puts it on: tokens stay what they are.
LEMMA FlagType ==
  ASSUME TypeOK, NEW f \in BOOLEAN, row' \in {row, [row EXCEPT !.flagged = f]}
  PROVE  /\ row' \in Account /\ Same(row', row)
BY DEF TypeOK, Account, Same

LEMMA ProbeStep ==
  ASSUME Inv, NEW c \in Callers, Probe(c)
  PROVE  Inv'
<1>0. TypeOK /\ Flights /\ pc[c] = "probing" /\ UNCHANGED <<provider, lost>>
  BY DEF Inv, Probe
<1>1. CASE Enter(c) /\ forced' = [forced EXCEPT ![c] = TRUE] /\ UNCHANGED <<row, acc, was>>
  <2>1. /\ pc' \in [Callers -> Places] /\ leader' \in [Callers -> Callers \cup {NoOne}]
        /\ Flights'
        /\ \A d \in Callers : pc'[d] \in {"issued", "refused"} <=> pc[d] \in {"issued", "refused"}
        /\ \A d \in Callers : pc'[d] \in {"issued", "refused"} => pc'[d] = pc[d]
    BY <1>0, <1>1, EnterKeeps
  <2>2. TypeOK'
    BY <1>0, <1>1, <2>1 DEF TypeOK, provider
  <2>3. Newest'
    BY <1>0, <1>1 DEF Inv, provider, Newest
  <2>. QED
    BY <1>0, <1>1, <2>1, <2>2, <2>3, Aside DEF provider
<1>2. CASE row' \in {row, [row EXCEPT !.flagged = FALSE]} /\ Return(c) /\ UNCHANGED leader
  <2>1. /\ pc' \in [Callers -> Places] /\ Flights'
        /\ \A d \in Callers : pc'[d] \in {"issued", "refused"} <=> pc[d] \in {"issued", "refused"}
        /\ \A d \in Callers : pc'[d] \in {"issued", "refused"} => pc'[d] = pc[d] /\ d # c
        /\ acc' = [acc EXCEPT ![c] = Blank] /\ acc' \in [Callers -> Account]
        /\ was' \in [Callers -> BOOLEAN] /\ forced' \in [Callers -> BOOLEAN]
    BY <1>0, <1>2, ReturnType
  <2>2. row' \in Account /\ Same(row', row)
    BY <1>0, <1>2, FlagType
  <2>3. TypeOK'
    BY <1>0, <1>2, <2>1, <2>2 DEF TypeOK, provider
  <2>4. Newest'
    BY <1>0, <2>1, <2>2, HandsKeep DEF Inv, provider, Same, TypeOK
  <2>. QED
    BY <1>0, <2>1, <2>2, <2>3, <2>4, Aside DEF provider, TypeOK, Same
<1>. QED
  BY <1>1, <1>2 DEF Probe, Clears

LEMMA RetryStep ==
  ASSUME Inv, NEW c \in Callers, Retry(c)
  PROVE  Inv'
<1>0. /\ TypeOK /\ Flights /\ pc[c] = "retrying" /\ UNCHANGED <<provider, lost, leader>>
      /\ Return(c)
  BY DEF Inv, Retry
<1>1. \E f \in BOOLEAN : row' \in {row, [row EXCEPT !.flagged = f]}
  BY DEF Retry, Clears
<1>2. row' \in Account /\ Same(row', row)
  BY <1>0, <1>1, FlagType
<1>3. /\ pc' \in [Callers -> Places] /\ Flights'
      /\ \A d \in Callers : pc'[d] \in {"issued", "refused"} <=> pc[d] \in {"issued", "refused"}
      /\ \A d \in Callers : pc'[d] \in {"issued", "refused"} => pc'[d] = pc[d] /\ d # c
      /\ acc' = [acc EXCEPT ![c] = Blank] /\ acc' \in [Callers -> Account]
      /\ was' \in [Callers -> BOOLEAN] /\ forced' \in [Callers -> BOOLEAN]
  BY <1>0, ReturnType
<1>4. TypeOK'
  BY <1>0, <1>2, <1>3 DEF TypeOK, provider
<1>5. Newest'
  BY <1>0, <1>2, <1>3, HandsKeep DEF Inv, provider, Same, TypeOK
<1>. QED
  BY <1>0, <1>2, <1>3, <1>4, <1>5, Aside DEF provider, TypeOK, Same

-----------------------------------------------------------------------------
(* The steps of a flight                                                   *)

LEMMA AboardFlight ==
  ASSUME Inv, NEW c \in Callers, pc[c] \in Fetching
  PROVE  /\ c \in Leads
         /\ \A d \in Callers : d # c => pc[d] \notin Fetching
BY DEF Inv, Flights, Leads

LEMMA IssueStep ==
  ASSUME Inv, NEW c \in Callers, pc[c] = "calling",
         acc[c].refresh \in live, issued < MaxTokens,
         NEW token \in {acc[c].refresh, issued + 1},
         issued' = issued + 1, live' = {token},
         acc' = [acc EXCEPT ![c].access = issued + 1, ![c].due = FALSE, ![c].refresh = token],
         pc' = [pc EXCEPT ![c] = "issued"],
         UNCHANGED <<row, revoked, lost, was, forced, leader>>
  PROVE  Inv'
<1>0. TypeOK /\ Flights /\ Newest
  BY DEF Inv
<1>1. c \in Leads /\ \A d \in Callers : d # c => pc[d] \notin Fetching
  BY AboardFlight DEF Fetching
<1>2. /\ pc' \in [Callers -> Places] /\ Flights'
      /\ \A d \in Callers : d # c => pc'[d] \notin Fetching
  BY <1>0, <1>1, FlightKeeps DEF Fetching
<1>3. PICK t \in Tokens : /\ live = {t} /\ t <= issued
                          /\ row.refresh <= t /\ row.access <= issued
                          /\ \A d \in Callers : acc[d].refresh <= t /\ acc[d].access <= issued
  BY <1>0 DEF Newest
<1>4. issued \in Nat /\ issued + 1 \in Tokens /\ t \in Nat
  BY <1>0, <1>3, TokenRefreshAssumption DEF TypeOK, Tokens
<1>5. token \in Tokens /\ t <= token /\ token <= issued + 1
  BY <1>3, <1>4
<1>6. /\ acc' \in [Callers -> Account]
      /\ acc'[c].refresh = token /\ acc'[c].access = issued + 1
      /\ \A d \in Callers : d # c => acc'[d] = acc[d]
  BY <1>0, <1>4, <1>5 DEF TypeOK, Account
<1>7. TypeOK'
  BY <1>0, <1>2, <1>4, <1>5, <1>6 DEF TypeOK
<1>8. Newest'
  <2>1. /\ \A d \in Callers : acc[d].refresh \in Nat /\ acc[d].access \in Nat
        /\ row.refresh \in Nat /\ row.access \in Nat /\ token \in Nat
    BY <1>0, <1>5, TokenRefreshAssumption DEF TypeOK, Account, Tokens
  <2>2. row.refresh <= token /\ row.access <= issued + 1
    BY <1>3, <1>4, <1>5, <2>1
  <2>3. ASSUME NEW d \in Callers
        PROVE  acc'[d].refresh <= token /\ acc'[d].access <= issued + 1
    BY <1>3, <1>4, <1>5, <1>6, <2>1
  <2>. QED
    BY <1>5, <2>2, <2>3 DEF Newest
<1>9. Held'
  <2>1. \A d \in Callers : d # c => pc'[d] \notin {"issued", "refused"}
    BY <1>2 DEF Fetching
  <2>2. pc'[c] = "issued"
    BY <1>0 DEF TypeOK
  <2>. QED
    BY <1>6, <2>1, <2>2 DEF Held
<1>10. StoredTokenLive'
  BY <1>0 DEF StoredTokenLive, TypeOK
<1>. QED
  BY <1>2, <1>7, <1>8, <1>9, <1>10 DEF Inv

\* A flight moves on that no longer holds what was issued.
LEMMA FlightStep ==
  ASSUME Inv, NEW c \in Leads, NEW place \in Fetching, UNCHANGED <<live, issued, revoked>>,
         UNCHANGED <<acc, was, forced, leader>>, pc' = [pc EXCEPT ![c] = place],
         place # "issued",
         place = "refused" => acc[c].refresh \notin live \/ revoked,
         row' \in Account, Same(row', row) \/ Same(row', acc[c]),
         lost' \in BOOLEAN, row'.refresh \in live \/ lost'
  PROVE  Inv'
<1>0. TypeOK /\ Flights /\ c \in Callers
  BY DEF Inv, Leads
<1>1. /\ pc' \in [Callers -> Places] /\ Flights'
      /\ \A d \in Callers : d # c => pc'[d] \notin Fetching
  BY <1>0, FlightKeeps
<1>2. TypeOK'
  BY <1>0, <1>1 DEF TypeOK
<1>3. Newest'
  BY <1>0, HandsKeep DEF Inv, Same, TypeOK
<1>4. Held'
  <2>1. \A d \in Callers : d # c => pc'[d] \notin {"issued", "refused"}
    BY <1>1 DEF Fetching
  <2>2. pc'[c] = place
    BY <1>0 DEF TypeOK
  <2>. QED
    BY <2>1, <2>2 DEF Held
<1>5. StoredTokenLive'
  BY DEF StoredTokenLive
<1>. QED
  BY <1>1, <1>2, <1>3, <1>4, <1>5 DEF Inv

\* Nobody but the flight's leader can hold what was issued.
LEMMA Standing ==
  ASSUME Inv, NEW c \in Callers, pc[c] \in Fetching, pc[c] # "issued"
  PROVE  row.refresh \in live \/ lost
<1>1. \A d \in Callers : pc[d] # "issued"
  BY AboardFlight DEF Fetching
<1>. QED
  BY <1>1 DEF Inv, StoredTokenLive

LEMMA ExchangeStep ==
  ASSUME Inv, NEW c \in Callers, Exchange(c)
  PROVE  Inv'
<1>0. TypeOK /\ pc[c] = "calling" /\ c \in Leads /\ row \in Account /\ lost \in BOOLEAN
  BY DEF Inv, Exchange, Leads, Fetching, TypeOK
<1>1. UNCHANGED <<row, revoked, lost, was, forced, leader>>
  BY DEF Exchange
<1>2. CASE /\ pc' = [pc EXCEPT ![c] = "refused"] /\ UNCHANGED <<live, issued, acc>>
           /\ acc[c].refresh \notin live \/ revoked
  <2>1. "refused" \in Fetching /\ (row'.refresh \in live \/ lost')
    BY <1>0, <1>1, Standing DEF Fetching
  <2>. QED
    BY <1>0, <1>1, <1>2, <2>1, FlightStep DEF Same
<1>3. CASE pc' = [pc EXCEPT ![c] = "failed"] /\ UNCHANGED <<live, issued, acc>>
  <2>1. "failed" \in Fetching /\ (row'.refresh \in live \/ lost')
    BY <1>0, <1>1, Standing DEF Fetching
  <2>. QED
    BY <1>0, <1>1, <1>3, <2>1, FlightStep DEF Same
<1>4. CASE /\ acc[c].refresh \in live /\ ~revoked /\ issued < MaxTokens
           /\ issued' = issued + 1
           /\ \E token \in {acc[c].refresh, issued + 1} :
                /\ live' = {token}
                /\ acc' = [acc EXCEPT ![c].access = issued + 1, ![c].due = FALSE,
                                      ![c].refresh = token]
           /\ pc' = [pc EXCEPT ![c] = "issued"]
  BY <1>0, <1>1, <1>4, IssueStep
<1>. QED
  BY <1>2, <1>3, <1>4 DEF Exchange

LEMMA StoreStep ==
  ASSUME Inv, NEW c \in Callers, UpdateTokens(c) \/ MarkReconnect(c) \/ GiveUp(c)
  PROVE  Inv'
<1>0. TypeOK /\ c \in Leads /\ row \in Account /\ lost \in BOOLEAN /\ acc[c] \in Account
  BY DEF Inv, UpdateTokens, MarkReconnect, GiveUp, Leads, Fetching, TypeOK
<1>1. CASE UpdateTokens(c)
  <2>1. row' \in Account /\ Same(row', acc[c])
    BY <1>0, <1>1 DEF UpdateTokens, Account, Same
  <2>2. "stored" \in Fetching /\ row'.refresh \in live
    BY <1>1, <2>1 DEF Inv, Held, UpdateTokens, Same, Fetching
  <2>. QED
    BY <1>0, <1>1, <2>1, <2>2, FlightStep DEF UpdateTokens, provider
<1>2. CASE MarkReconnect(c)
  <2>1. row' \in Account /\ Same(row', row)
    BY <1>0, <1>2 DEF MarkReconnect, Account, Same
  <2>2. "failed" \in Fetching /\ (row'.refresh \in live \/ lost')
    BY <1>2, <2>1, Standing DEF MarkReconnect, Same, Fetching
  <2>. QED
    BY <1>0, <1>2, <2>1, <2>2, FlightStep DEF MarkReconnect, provider
<1>3. CASE GiveUp(c)
  <2>1. "failed" \in Fetching /\ (row'.refresh \in live \/ lost') /\ lost' \in BOOLEAN
    BY <1>0, <1>3, Standing DEF GiveUp, Fetching
  <2>. QED
    BY <1>0, <1>3, <2>1, FlightStep DEF GiveUp, provider, Same
<1>. QED
  BY <1>1, <1>2, <1>3

LEMMA LandStep ==
  ASSUME Inv, NEW c \in Callers, Land(c)
  PROVE  Inv'
<1>0. /\ TypeOK /\ Flights /\ pc[c] \in {"stored", "failed"} /\ UNCHANGED <<row, provider, lost>>
      /\ pc[c] \in Fetching
  BY DEF Inv, Land, Fetching
<1>1. c \in Leads /\ \A d \in Callers : d # c => pc[d] \notin Fetching
  BY <1>0, AboardFlight
<1>2. \A d \in Callers : leader[d] # NoOne <=> d \in Aboard(c)
  <2>1. c # NoOne
    BY TokenRefreshAssumption
  <2>2. \A d \in Callers : leader[d] # NoOne => leader[d] = c
    BY <1>0, <1>1 DEF Flights
  <2>. QED
    BY <2>1, <2>2 DEF Aboard
<1>3. \A d \in Callers : leader'[d] = NoOne
  BY <1>2 DEF Land
<1>4. \A d \in Callers : pc'[d] \in Places /\ pc'[d] \notin Fetching \cup {"joined"}
  <2> SUFFICES ASSUME NEW d \in Callers
               PROVE  pc'[d] \in Places /\ pc'[d] \notin Fetching \cup {"joined"}
    OBVIOUS
  <2>1. CASE d \in Aboard(c)
    BY <2>1 DEF Land, Places, Fetching
  <2>2. CASE d \notin Aboard(c)
    BY <1>0, <1>2, <2>2 DEF Land, Flights, TypeOK
  <2>. QED
    BY <2>1, <2>2
<1>5. Leads' = {}
  BY <1>4 DEF Leads
<1>6. Flights'
  BY <1>3, <1>4, <1>5 DEF Flights
<1>7. pc' \in [Callers -> Places]
  BY <1>4 DEF Land
<1>8. acc' \in [Callers -> Account]
  <2>1. Blank \in Account
    BY TokenRefreshAssumption DEF Blank, Account, Tokens
  <2>. QED
    BY <1>0, <2>1 DEF Land, TypeOK
<1>9. /\ was' \in [Callers -> BOOLEAN] /\ forced' \in [Callers -> BOOLEAN]
      /\ leader' \in [Callers -> Callers \cup {NoOne}]
  BY <1>0, <1>3 DEF Land, TypeOK
<1>10. TypeOK'
  BY <1>0, <1>7, <1>8, <1>9 DEF TypeOK, provider
<1>11. Newest'
  <2>1. \A d \in Callers : acc'[d] \in {Blank, acc[c], acc[d]}
    BY DEF Land
  <2>2. Same(row', row) /\ UNCHANGED <<live, issued>> /\ issued \in Tokens
    BY <1>0 DEF Same, provider, TypeOK
  <2>3. \A d \in Callers : \/ Same(acc'[d], Blank)
                           \/ \E e \in Callers : Same(acc'[d], acc[e])
    BY <2>1 DEF Same
  <2>. QED
    BY <2>2, <2>3, HandsKeep DEF Inv
<1>12. Held'
  BY <1>4 DEF Held, Fetching
<1>13. StoredTokenLive'
  BY <1>0, Standing DEF StoredTokenLive, provider
<1>. QED
  BY <1>6, <1>10, <1>11, <1>12, <1>13 DEF Inv

-----------------------------------------------------------------------------
(* The rest of the world                                                   *)

LEMMA WorldStep ==
  ASSUME Inv, Expire \/ Revoke \/ ClearProviderCooldowns \/ Crash
  PROVE  Inv'
<1>0. TypeOK /\ Flights /\ row \in Account
  BY DEF Inv, TypeOK
<1>1. CASE Expire \/ ClearProviderCooldowns
  <2>1. row' \in Account /\ Same(row', row) /\ UNCHANGED <<provider, lost, call>>
    BY <1>0, <1>1 DEF Expire, ClearProviderCooldowns, Account, Same
  <2>2. TypeOK' /\ Flights'
    BY <1>0, <2>1 DEF TypeOK, Flights, Leads, provider, call
  <2>3. Newest'
    BY <2>1 DEF Inv, Newest, Same, provider, call
  <2>. QED
    BY <2>1, <2>2, <2>3 DEF Inv, Held, StoredTokenLive, Same, provider, call
<1>2. CASE Revoke
  <2>1. revoked' = TRUE /\ UNCHANGED <<row, live, issued, lost, call>>
    BY <1>2 DEF Revoke
  <2>2. TypeOK' /\ Flights'
    BY <1>0, <2>1 DEF TypeOK, Flights, Leads, call
  <2>3. Newest'
    BY <2>1 DEF Inv, Newest, call
  <2>. QED
    BY <2>1, <2>2, <2>3 DEF Inv, Held, StoredTokenLive, call
<1>3. CASE Crash
  <2>1. \A c \in Callers : pc'[c] = "idle" /\ leader'[c] = NoOne /\ acc'[c] = Blank
    BY <1>3 DEF Crash
  <2>2. Flights'
    BY <2>1 DEF Flights, Leads, Fetching
  <2>3. Blank \in Account /\ "idle" \in Places
    BY TokenRefreshAssumption DEF Blank, Account, Tokens, Places
  <2>4. TypeOK'
    BY <1>0, <1>3, <2>3 DEF Crash, TypeOK, provider
  <2>5. Newest'
    <3>1. issued \in Tokens /\ UNCHANGED <<live, issued>> /\ Same(row', row)
      BY <1>0, <1>3 DEF Crash, provider, TypeOK, Same
    <3>2. \A c \in Callers : Same(acc'[c], Blank)
      BY <2>1 DEF Same
    <3>. QED
      BY <3>1, <3>2, HandsKeep DEF Inv
  <2>6. Held'
    BY <2>1 DEF Held
  <2>7. StoredTokenLive'
    BY <1>3 DEF Crash, StoredTokenLive, provider
  <2>. QED
    BY <2>2, <2>4, <2>5, <2>6, <2>7 DEF Inv
<1>. QED
  BY <1>1, <1>2, <1>3

-----------------------------------------------------------------------------
LEMMA InvInit == Init => Inv
<1> SUFFICES ASSUME Init PROVE Inv
  OBVIOUS
<1>1. Blank \in Account /\ 0 \in Tokens /\ "idle" \in Places
  BY TokenRefreshAssumption DEF Blank, Account, Tokens, Places
<1>2. TypeOK
  BY <1>1 DEF Init, TypeOK
<1>3. Flights
  BY DEF Init, Flights, Leads, Fetching
<1>4. Newest
  BY <1>1 DEF Init, Newest, Blank
<1>. QED
  BY <1>2, <1>3, <1>4 DEF Init, Inv, Held, StoredTokenLive, Blank

LEMMA InvNext == Inv /\ [Next]_vars => Inv'
<1> SUFFICES ASSUME Inv, [Next]_vars PROVE Inv'
  OBVIOUS
<1>1. CASE \E c \in Callers : Read(c) \/ Exchange(c) \/ Step(c)
  BY <1>1, ReadStep, ExchangeStep, EnsureFreshStep, StoreStep, LandStep, ProbeStep, RetryStep
     DEF Step
<1>2. CASE Expire \/ Revoke \/ ClearProviderCooldowns \/ Crash
  BY <1>2, WorldStep
<1>3. CASE UNCHANGED vars
  <2>1. TypeOK' /\ Flights'
    BY <1>3 DEF vars, Inv, TypeOK, Flights, Leads, provider, call
  <2>. QED
    BY <1>3, <2>1 DEF vars, Inv, Newest, Held, StoredTokenLive, provider, call
<1>. QED
  BY <1>1, <1>2, <1>3 DEF Next

LEMMA Inductive == Spec => []Inv
BY InvInit, InvNext, PTL DEF Spec

LEMMA InvRefused == Inv => RefusedIsStale
<1> SUFFICES ASSUME Inv, NEW c \in Callers, pc[c] = "refused", ~revoked, ~lost
             PROVE  acc[c].refresh # row.refresh
  BY DEF RefusedIsStale
<1>1. acc[c].refresh \notin live
  BY DEF Inv, Held
<1>2. row.refresh \in live
  BY Standing DEF Fetching
<1>. QED
  BY <1>1, <1>2

\* Rows only ever take what the flight was issued, which is the newest.
LEMMA Onwards ==
  ASSUME Inv, Next, row' # row
  PROVE  row'.access >= row.access /\ row'.refresh >= row.refresh
<1>0. TypeOK /\ row.access \in Nat /\ row.refresh \in Nat
  BY TokenRefreshAssumption DEF Inv, TypeOK, Account, Tokens
<1>1. CASE \E c \in Callers : UpdateTokens(c)
  <2>1. PICK c \in Callers : UpdateTokens(c)
    BY <1>1
  <2>2. row'.access = acc[c].access /\ row'.refresh = acc[c].refresh
    BY <1>0, <2>1 DEF UpdateTokens, TypeOK, Account
  <2>3. acc[c].refresh \in live /\ acc[c].access = issued /\ Newest
    BY <2>1 DEF UpdateTokens, Inv, Held
  <2>. QED
    BY <1>0, <2>2, <2>3 DEF Newest, TypeOK, Tokens
<1>2. CASE Same(row', row)
  BY <1>0, <1>2 DEF Same
<1>3. \/ Same(row', row) \/ \E c \in Callers : UpdateTokens(c)
  <2>1. \A f \in BOOLEAN : Same([row EXCEPT !.flagged = f], row) /\ Same([row EXCEPT !.due = f], row)
    BY <1>0 DEF Same, TypeOK, Account
  <2>2. ASSUME NEW c \in Callers, Probe(c) \/ Retry(c)
        PROVE  Same(row', row)
    BY <2>1, <2>2 DEF Probe, Retry, Clears
  <2>3. ASSUME NEW c \in Callers, Read(c) \/ Exchange(c) \/ EnsureFresh(c) \/ GiveUp(c) \/ Land(c)
        PROVE  FALSE
    BY <2>3 DEF Read, Exchange, EnsureFresh, GiveUp, Land
  <2>4. ASSUME NEW c \in Callers, MarkReconnect(c)
        PROVE  Same(row', row)
    BY <2>1, <2>4 DEF MarkReconnect
  <2>5. Expire \/ Revoke \/ ClearProviderCooldowns \/ Crash => Same(row', row)
    BY <2>1 DEF Expire, Revoke, ClearProviderCooldowns, Crash
  <2>. QED
    BY <2>2, <2>3, <2>4, <2>5 DEF Next, Step
<1>. QED
  BY <1>1, <1>2, <1>3

THEOREM Typing == Spec => []TypeOK
<1>1. Inv => TypeOK
  BY DEF Inv
<1>. QED
  BY <1>1, Inductive, PTL

\* The stored refresh token is one the provider still accepts, unless its
\* successor is on its way to the store or was dropped on that way
\* (manager.go: refreshAndPersist).
THEOREM TokenStaysLive == Spec => []StoredTokenLive
<1>1. Inv => StoredTokenLive
  BY DEF Inv
<1>. QED
  BY <1>1, Inductive, PTL

\* Overlapping callers never spend a token twice: a standing grant is refused
\* only to a flight whose leader read the row before the last refresh
\* (manager.go: dedupedRefresh).
THEOREM RefusalIsStale == Spec => []RefusedIsStale
BY InvRefused, Inductive, PTL

\* No flight overwrites the tokens of a later one (manager.go:
\* refreshAndPersist, repo_accounts.go: UpdateTokens).
THEOREM TokensMoveOn == Spec => NeverBackwards
<1>1. Inv /\ [Next]_vars => [row'.access >= row.access /\ row'.refresh >= row.refresh]_row
  BY Onwards DEF vars
<1>. QED
  BY <1>1, Inductive, PTL DEF Spec, NeverBackwards
=============================================================================

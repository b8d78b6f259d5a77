---------------------------- MODULE TokenRefresh ----------------------------
(***************************************************************************)
(* Refreshing the OAuth tokens of one account: backend/internal/oauth       *)
(* (manager.go, keepalive.go), the statements of store/repo_accounts.go it  *)
(* runs, and its callers: planned requests and the keepalive pass, which    *)
(* skip flagged accounts, and the dashboard's account test, which does not. *)
(*                                                                          *)
(* A caller works on the copy of the account it has read.  Singleflight     *)
(* joins callers that overlap; the others meet only in the store and at the *)
(* provider, which numbers the tokens it issues.  Left out: accounts        *)
(* without a refresh configuration or a refresh token, which fail at once,  *)
(* and a request that reaches the provider after its caller has given up.   *)
(***************************************************************************)
EXTENDS Naturals, FiniteSets

CONSTANTS
  Callers,    \* goroutines that may refresh the account
  Automatic,  \* requests and the keepalive pass; the others are account tests
  MaxTokens,  \* bound on the tokens the provider issues
  NoOne

ASSUME TokenRefreshAssumption ==
  /\ Automatic \subseteq Callers /\ NoOne \notin Callers
  /\ MaxTokens \in Nat

VARIABLES
  row,      \* the account's row
  live,     \* refresh tokens the provider accepts
  issued,   \* the newest token the provider has issued
  revoked,  \* has the user withdrawn the grant at the provider?
  lost,     \* history: an issued refresh token replaced the stored one and was dropped
  pc,       \* pc[c]: where caller c is
  acc,      \* acc[c]: the copy of the row that c works on
  was,      \* was[c]: was the row flagged when c read it?
  forced,   \* forced[c]: has c come to its forced refresh?
  leader    \* leader[c]: the caller whose flight c leads or has joined

provider == <<live, issued, revoked>>
call     == <<pc, acc, was, forced, leader>>
vars     == <<row, provider, lost, call>>

Tokens  == 0..MaxTokens
Account == [access : Tokens, refresh : Tokens, due : BOOLEAN, flagged : BOOLEAN]
Blank   == [access |-> 0, refresh |-> 0, due |-> FALSE, flagged |-> FALSE]
Fetching == {"calling", "issued", "refused", "stored", "failed"}
Places  == {"idle", "read", "joined", "probing", "retrying"} \cup Fetching

Init ==
  /\ row = Blank
  /\ live = {0} /\ issued = 0 /\ revoked = FALSE /\ lost = FALSE
  /\ pc = [c \in Callers |-> "idle"]
  /\ acc = [c \in Callers |-> Blank]
  /\ was = [c \in Callers |-> FALSE]
  /\ forced = [c \in Callers |-> FALSE]
  /\ leader = [c \in Callers |-> NoOne]

\* The caller reads the account.  Planning and the keepalive pass skip an
\* account that is flagged.
Read(c) ==
  /\ pc[c] = "idle"
  /\ c \in Automatic => ~row.flagged
  /\ pc' = [pc EXCEPT ![c] = "read"]
  /\ acc' = [acc EXCEPT ![c] = row]
  /\ was' = [was EXCEPT ![c] = row.flagged]
  /\ forced' = [forced EXCEPT ![c] = FALSE]
  /\ UNCHANGED <<row, provider, lost, leader>>

\* Caller c is done with the account and forgets its copy.
Return(c) ==
  /\ pc' = [pc EXCEPT ![c] = "idle"]
  /\ acc' = [acc EXCEPT ![c] = Blank]
  /\ was' = [was EXCEPT ![c] = FALSE]
  /\ forced' = [forced EXCEPT ![c] = FALSE]

\* Singleflight: a caller leads a flight, or joins the one that is under way.
Leads == {d \in Callers : pc[d] \in Fetching}

\* Faulty variant: overlapping callers are not joined.
EnterAlone(c) ==
  /\ pc' = [pc EXCEPT ![c] = "calling"]
  /\ leader' = [leader EXCEPT ![c] = c]

Enter(c) ==
  \/ /\ Leads = {}
     /\ pc' = [pc EXCEPT ![c] = "calling"]
     /\ leader' = [leader EXCEPT ![c] = c]
  \/ \E d \in Leads : /\ pc' = [pc EXCEPT ![c] = "joined"]
                      /\ leader' = [leader EXCEPT ![c] = d]

\* EnsureFresh goes by the expiry in the caller's copy.  A request or the
\* keepalive pass is then done with this account, a test goes on to its probe.
EnsureFresh(c) ==
  /\ pc[c] = "read"
  /\ \/ acc[c].due /\ Enter(c) /\ UNCHANGED <<acc, was, forced>>
     \/ ~acc[c].due /\ c \in Automatic /\ Return(c) /\ UNCHANGED leader
     \/ /\ ~acc[c].due /\ c \notin Automatic
        /\ pc' = [pc EXCEPT ![c] = "probing"]
        /\ UNCHANGED <<acc, was, forced, leader>>
  /\ UNCHANGED <<row, provider, lost>>

\* The token endpoint: it issues tokens for a refresh token it accepts, refuses
\* any other for good, or fails for the moment.  It may rotate the refresh token,
\* which spends the one presented, or name none, and then the old one is kept.
Exchange(c) ==
  /\ pc[c] = "calling"
  /\ \/ /\ acc[c].refresh \in live /\ ~revoked /\ issued < MaxTokens
        /\ issued' = issued + 1
        /\ \E token \in {acc[c].refresh, issued + 1} :
             /\ live' = {token}
             /\ acc' = [acc EXCEPT ![c].access = issued + 1, ![c].due = FALSE,
                                   ![c].refresh = token]
        /\ pc' = [pc EXCEPT ![c] = "issued"]
     \/ /\ acc[c].refresh \notin live \/ revoked
        /\ pc' = [pc EXCEPT ![c] = "refused"]
        /\ UNCHANGED <<live, issued, acc>>
     \/ /\ pc' = [pc EXCEPT ![c] = "failed"]
        /\ UNCHANGED <<live, issued, acc>>
  /\ UNCHANGED <<row, revoked, lost, was, forced, leader>>

\* Faulty variant: the refresh token the provider rotated to is not stored.
UpdateAccessToken(c) ==
  /\ pc[c] = "issued"
  /\ row' = [acc[c] EXCEPT !.flagged = FALSE, !.refresh = row.refresh]
  /\ pc' = [pc EXCEPT ![c] = "stored"]
  /\ UNCHANGED <<provider, lost, acc, was, forced, leader>>

\* UpdateTokens stores what the provider issued and takes the flag off.
UpdateTokens(c) ==
  /\ pc[c] = "issued"
  /\ row' = [acc[c] EXCEPT !.flagged = FALSE]
  /\ pc' = [pc EXCEPT ![c] = "stored"]
  /\ UNCHANGED <<provider, lost, acc, was, forced, leader>>

\* A permanent refusal flags the account.
MarkReconnect(c) ==
  /\ pc[c] = "refused"
  /\ row' = [row EXCEPT !.flagged = TRUE]
  /\ pc' = [pc EXCEPT ![c] = "failed"]
  /\ UNCHANGED <<provider, lost, acc, was, forced, leader>>

\* Faulty variant: the call to the token endpoint has no timeout.
GiveUpAnswered(c) ==
  /\ pc[c] \in {"issued", "refused"}
  /\ lost' = (lost \/ (pc[c] = "issued" /\ row.refresh \notin live))
  /\ pc' = [pc EXCEPT ![c] = "failed"]
  /\ UNCHANGED <<row, provider, acc, was, forced, leader>>

\* The call times out, the first caller leaves and takes its context with it,
\* or the statement on the store fails: whatever the flight holds is dropped.
GiveUp(c) ==
  /\ pc[c] \in {"calling", "issued", "refused"}
  /\ lost' = (lost \/ (pc[c] = "issued" /\ row.refresh \notin live))
  /\ pc' = [pc EXCEPT ![c] = "failed"]
  /\ UNCHANGED <<row, provider, acc, was, forced, leader>>

\* The flight ends and all who are on it take its result.  A test goes on to its
\* probe whatever the result, but gives up when a forced refresh has failed.
Aboard(c) == {d \in Callers : leader[d] = c}
Home(c)   == {d \in Aboard(c) : d \in Automatic \/ (forced[d] /\ pc[c] = "failed")}
Land(c) ==
  /\ pc[c] \in {"stored", "failed"}
  /\ pc' = [d \in Callers |-> IF d \notin Aboard(c) THEN pc[d]
                             ELSE IF d \in Home(c) THEN "idle"
                             ELSE IF forced[d] THEN "retrying" ELSE "probing"]
  /\ acc' = [d \in Callers |-> IF d \in Home(c) THEN Blank
                              ELSE IF d \in Aboard(c) /\ pc[c] = "stored" THEN acc[c]
                              ELSE acc[d]]
  /\ was' = [d \in Callers |-> was[d] /\ d \notin Home(c)]
  /\ forced' = [d \in Callers |-> forced[d] /\ d \notin Home(c)]
  /\ leader' = [d \in Callers |-> IF d \in Aboard(c) THEN NoOne ELSE leader[d]]
  /\ UNCHANGED <<row, provider, lost>>

\* The test probes the provider.  An accepted token takes the flag off that the
\* test had read; a refused one, which may happen before its expiry, has the
\* test force a refresh.
Clears(f) == \/ row' = IF f THEN [row EXCEPT !.flagged = FALSE] ELSE row
             \/ UNCHANGED row
Probe(c) ==
  /\ pc[c] = "probing"
  /\ \/ ~revoked /\ Clears(was[c]) /\ Return(c) /\ UNCHANGED leader
     \/ /\ Enter(c)
        /\ forced' = [forced EXCEPT ![c] = TRUE]
        /\ UNCHANGED <<row, acc, was>>
     \/ Return(c) /\ UNCHANGED <<row, leader>>
  /\ UNCHANGED <<provider, lost>>

\* After a forced refresh the probe is repeated with the new token.
Retry(c) ==
  /\ pc[c] = "retrying"
  /\ \/ ~revoked /\ Clears(acc[c].flagged \/ was[c])
     \/ revoked /\ row' \in {row, [row EXCEPT !.flagged = TRUE]}
     \/ UNCHANGED row
  /\ Return(c)
  /\ UNCHANGED <<provider, lost, leader>>

-----------------------------------------------------------------------------
\* The rest of the world.

Expire ==
  /\ ~row.due
  /\ row' = [row EXCEPT !.due = TRUE]
  /\ UNCHANGED <<provider, lost, call>>

Revoke ==
  /\ ~revoked
  /\ revoked' = TRUE
  /\ UNCHANGED <<row, live, issued, lost, call>>

\* Connecting another account of the provider takes the flag off this one.
ClearProviderCooldowns ==
  /\ row.flagged
  /\ row' = [row EXCEPT !.flagged = FALSE]
  /\ UNCHANGED <<provider, lost, call>>

\* The process dies; only the store and the provider remember anything.
Crash ==
  /\ \E c \in Callers : pc[c] # "idle"
  /\ lost' = (lost \/ row.refresh \notin live)
  /\ pc' = [c \in Callers |-> "idle"]
  /\ leader' = [c \in Callers |-> NoOne]
  /\ acc' = [c \in Callers |-> Blank]
  /\ was' = [c \in Callers |-> FALSE]
  /\ forced' = [c \in Callers |-> FALSE]
  /\ UNCHANGED <<row, provider>>

Step(c) ==
  \/ EnsureFresh(c) \/ UpdateTokens(c) \/ MarkReconnect(c) \/ GiveUp(c)
  \/ Land(c) \/ Probe(c) \/ Retry(c)

Next ==
  \/ \E c \in Callers : Read(c) \/ Exchange(c) \/ Step(c)
  \/ Expire \/ Revoke \/ ClearProviderCooldowns \/ Crash

\* A caller keeps running: the token endpoint's client gives up after 30 s.
Spec == Init /\ [][Next]_vars /\ \A c \in Callers : WF_vars(Step(c))

-----------------------------------------------------------------------------
TypeOK ==
  /\ row \in Account /\ live \subseteq Tokens /\ issued \in Tokens
  /\ revoked \in BOOLEAN /\ lost \in BOOLEAN
  /\ pc \in [Callers -> Places] /\ acc \in [Callers -> Account]
  /\ was \in [Callers -> BOOLEAN] /\ forced \in [Callers -> BOOLEAN]
  /\ leader \in [Callers -> Callers \cup {NoOne}]

\* The stored refresh token is one the provider still accepts, unless its
\* successor is in a flight's hands or was dropped between the provider and the
\* store: about refreshAndPersist, whose two halves are not atomic.
StoredTokenLive ==
  row.refresh \in live \/ lost \/ \E c \in Callers : pc[c] = "issued"

\* A grant that stands is refused only to a flight whose leader read the row
\* before the last refresh: overlapping callers never spend a token twice,
\* which is what singleflight is for.
RefusedIsStale ==
  \A c \in Callers :
    pc[c] = "refused" /\ ~revoked /\ ~lost => acc[c].refresh # row.refresh

\* The tokens of a later refresh are never overwritten with those of an earlier
\* one, in whatever order flights are answered and stored.
NeverBackwards == [][row'.access >= row.access /\ row'.refresh >= row.refresh]_row

\* Every caller comes back, a caller that has joined another's flight too,
\* whatever the provider, the store and the first caller do.
EveryCallerReturns == \A c \in Callers : pc[c] # "idle" ~> pc[c] = "idle"
=============================================================================

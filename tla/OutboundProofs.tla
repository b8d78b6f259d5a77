--------------------------- MODULE OutboundProofs ---------------------------
(***************************************************************************)
(* Proofs about the two guards of an answer: StreamPump.tla, which holds a *)
(* stream to the policy it was given, and Guardrails.tla, which resolves   *)
(* the policy a request is judged by.  They hold for any capacities of the *)
(* channels, any scan window and any number of chunks, and for any layers, *)
(* policies, requests and lifetime of the resolver's cache.                *)
(***************************************************************************)
EXTENDS StreamPump, PolicyRows, SequenceTheorems, FiniteSetTheorems, TLAPS

G == INSTANCE Guardrails

-----------------------------------------------------------------------------
(* The stream pump                                                         *)

ErrorIn(s) == \E i \in DOMAIN s : s[i] = "error"
Ending     == gone \/ pump \in {"failing", "done"}
Unsettled  == {"receiving", "sending", "blocking", "adding"}

\* The outcome is recorded when the pump leaves its loop.
Settled ==
  /\ pump \in Unsettled => outcomes = <<>>
  /\ pump = "failing" => outcomes \in {<<"failed">>, <<"stalled">>}
  /\ pump = "done" => \E how \in Outcomes : outcomes = <<how>>
  /\ pump = "sending" => hold \in Chunks

\* What the state of the connector says about the end of the body.
Endings ==
  /\ reader \in {"reading", "sending"} => ending = "none"
  /\ reader = "sending" => sent # <<>>
  /\ reader # "done" => ending # "complete"
  /\ inClosed <=> reader = "done"
  /\ reader = "done" => ending = "complete" \/ Ending \/ ErrorIn(in)

\* Only a broken body or a cancellation makes an error.
Blame ==
  /\ stopped => Ending
  /\ reader = "reporting" \/ ErrorIn(in) => ending = "broken" \/ Ending
  /\ outcomes = <<"failed">> => ending = "broken"

\* As long as nothing has gone wrong, what was sent is what was passed on, what
\* the pump holds, what is in the channel and what the connector holds.
Intact == ending # "broken" /\ ~gone /\ pump \in {"receiving", "sending", "adding"}
Held   == IF pump = "sending" THEN 1 ELSE 0
Line   == IF reader = "sending" THEN 1 ELSE 0

Whole ==
  /\ Intact =>
       /\ Len(sent) = Len(passed) + Held + Len(in) + Line
       /\ \A i \in 1..Len(passed) : passed[i] = sent[i]
       /\ pump = "sending" => hold = sent[Len(passed) + 1]
       /\ \A i \in 1..Len(in) : in[i] = sent[Len(passed) + Held + i]
  /\ pump = "adding" \/ outcomes = <<"success">> =>
       ending = "complete" /\ passed = sent

Inv == TypeOK /\ Settled /\ Endings /\ Blame /\ Whole

-----------------------------------------------------------------------------
(* Sequences                                                               *)

LEMMA Appended ==
  ASSUME NEW S, NEW s \in Seq(S), NEW x \in S
  PROVE  /\ Append(s, x) \in Seq(S) /\ Len(Append(s, x)) = Len(s) + 1
         /\ Append(s, x) # <<>>
         /\ \A i \in 1..Len(s) : Append(s, x)[i] = s[i]
         /\ Append(s, x)[Len(s) + 1] = x /\ Last(Append(s, x)) = x
         /\ ErrorIn(Append(s, x)) <=> ErrorIn(s) \/ x = "error"
<1>1. /\ Append(s, x) \in Seq(S) /\ Len(Append(s, x)) = Len(s) + 1
      /\ DOMAIN Append(s, x) = 1..Len(s) + 1 /\ DOMAIN s = 1..Len(s) /\ Len(s) \in Nat
      /\ \A i \in 1..Len(s) : Append(s, x)[i] = s[i]
      /\ Append(s, x)[Len(s) + 1] = x
  OBVIOUS
<1>2. Last(Append(s, x)) = x
  BY <1>1 DEF Last
<1>3. ErrorIn(Append(s, x)) <=> ErrorIn(s) \/ x = "error"
  BY <1>1 DEF ErrorIn
<1>. QED
  BY <1>1, <1>2, <1>3

LEMMA Taken ==
  ASSUME NEW S, NEW s \in Seq(S), s # <<>>
  PROVE  /\ Head(s) \in S /\ Head(s) = s[1] /\ Tail(s) \in Seq(S)
         /\ Len(Tail(s)) = Len(s) - 1 /\ Len(s) \in Nat \ {0}
         /\ \A i \in 1..Len(s) - 1 : Tail(s)[i] = s[i + 1]
         /\ ErrorIn(s) <=> ErrorIn(Tail(s)) \/ Head(s) = "error"
<1>1. /\ Head(s) \in S /\ Head(s) = s[1] /\ Tail(s) \in Seq(S)
      /\ Len(Tail(s)) = Len(s) - 1 /\ Len(s) \in Nat \ {0}
      /\ DOMAIN Tail(s) = 1..Len(s) - 1 /\ DOMAIN s = 1..Len(s)
      /\ \A i \in 1..Len(s) - 1 : Tail(s)[i] = s[i + 1]
  OBVIOUS
<1>2. ErrorIn(s) => ErrorIn(Tail(s)) \/ Head(s) = "error"
  <2> SUFFICES ASSUME NEW i \in 1..Len(s), s[i] = "error", Head(s) # "error"
               PROVE  ErrorIn(Tail(s))
    BY <1>1 DEF ErrorIn
  <2>1. i - 1 \in 1..Len(s) - 1 /\ Tail(s)[i - 1] = "error"
    BY <1>1
  <2>. QED
    BY <1>1, <2>1 DEF ErrorIn
<1>3. ErrorIn(Tail(s)) \/ Head(s) = "error" => ErrorIn(s)
  <2>1. 1 \in DOMAIN s /\ \A i \in DOMAIN Tail(s) : i + 1 \in DOMAIN s /\ s[i + 1] = Tail(s)[i]
    BY <1>1
  <2>. QED
    BY <1>1, <2>1 DEF ErrorIn
<1>. QED
  BY <1>1, <1>2, <1>3

LEMMA Single ==
  /\ \A x : ToSet(<<x>>) = {x} /\ ToSet(<<>>) = {}
  /\ \A x : Append(<<>>, x) = <<x>> /\ Len(<<x>>) = 1 /\ <<x>> # <<>>
  /\ \A x, y : <<x>> = <<y>> => x = y
<1>1. \A x : DOMAIN <<x>> = {1} /\ <<x>>[1] = x
  OBVIOUS
<1>2. DOMAIN <<>> = {}
  OBVIOUS
<1>3. \A x : ToSet(<<x>>) = {x} /\ ToSet(<<>>) = {}
  BY <1>1, <1>2 DEF ToSet
<1>4. \A x : Append(<<>>, x) = <<x>> /\ Len(<<x>>) = 1 /\ <<x>> # <<>>
  OBVIOUS
<1>. QED
  BY <1>1, <1>3, <1>4

LEMMA Typed ==
  ASSUME TypeOK
  PROVE  /\ sent \in Seq(Chunks) /\ Len(sent) \in Nat
         /\ in \in Seq(Chunks \cup {"error"}) /\ Len(in) \in Nat
         /\ passed \in Seq(Chunks) /\ Len(passed) \in Nat
         /\ out \in Seq(Chunks \cup {"error", "estimate"}) /\ Len(out) \in Nat
         /\ window \in Seq({"text", "banned"}) /\ Len(window) \in Nat
         /\ InCap \in Nat /\ OutCap \in Nat /\ Window \in Nat \ {0} /\ MaxChunks \in Nat
BY StreamPumpAssumption DEF TypeOK

-----------------------------------------------------------------------------
(* The connector                                                           *)

LEMMA ReadChunkStep ==
  ASSUME Inv, ReadChunk
  PROVE  Inv'
<1>0. TypeOK /\ Settled /\ Endings /\ Blame /\ Whole
  BY DEF Inv
<1>1. PICK ch \in Chunks : sent' = Append(sent, ch)
  BY DEF ReadChunk
<1>2. /\ sent' \in Seq(Chunks) /\ Len(sent') = Len(sent) + 1 /\ sent' # <<>>
      /\ \A i \in 1..Len(sent) : sent'[i] = sent[i]
  BY <1>0, <1>1, Typed, Appended
<1>3. TypeOK'
  BY <1>0, <1>2, Typed DEF ReadChunk, TypeOK, pumping, client
<1>4. Settled' /\ Blame'
  BY <1>0 DEF ReadChunk, pumping, client, Settled, Blame, Ending
<1>5. Endings'
  BY <1>0, <1>2 DEF ReadChunk, pumping, client, Endings, Ending
<1>6. Whole'
  <2>1. (pump # "adding") /\ outcomes # <<"success">>
    BY <1>0 DEF ReadChunk, Whole, Endings
  <2>2. CASE Intact
    <3>1. Held \in {0, 1} /\ Line = 0 /\ Line' = 1 /\ Held' = Held /\ (pump = "sending" <=> Held = 1)
      BY DEF ReadChunk, pumping, Held, Line
    <3>2. /\ Len(sent) = Len(passed) + Held + Len(in) + Line
          /\ \A i \in 1..Len(passed) : passed[i] = sent[i]
          /\ pump = "sending" => hold = sent[Len(passed) + 1]
          /\ \A i \in 1..Len(in) : in[i] = sent[Len(passed) + Held + i]
      BY <1>0, <2>2 DEF Whole
    <3>. HIDE DEF Held, Line
    <3>. QED
      BY <1>0, <1>2, <2>1, <3>1, <3>2, Typed DEF Whole, ReadChunk, pumping, client
  <2>3. CASE ~Intact
    BY <2>1, <2>3 DEF Whole, Intact, ReadChunk, pumping, client
  <2>. QED
    BY <2>2, <2>3
<1>. QED
  BY <1>3, <1>4, <1>5, <1>6 DEF Inv

\* The connector stops reading: the chunks it has sent on stay where they are.
LEMMA ReadStops ==
  ASSUME Inv, reader \in {"reading", "sending"}, UNCHANGED <<sent, in, pumping, client, stopped>>,
         ending' \in {"none", "complete", "broken"}, ending' = "complete" => reader = "reading",
         reader' \in {"reporting", "done"}, inClosed' = (reader' = "done"),
         reader' = "reporting" => ending' # "complete" /\ (ending' = "broken" \/ Ending),
         reader' = "done" => ending' = "complete" \/ Ending
  PROVE  Inv'
<1>0. TypeOK /\ Settled /\ Endings /\ Blame /\ Whole
  BY DEF Inv
<1>1. ending = "none" /\ Ending' = Ending
  BY <1>0 DEF Endings, Ending, pumping, client
<1>2. TypeOK'
  BY <1>0 DEF TypeOK, pumping, client
<1>3. Settled'
  BY <1>0 DEF pumping, Settled
<1>4. Endings'
  BY <1>0, <1>1 DEF Endings
<1>5. Blame'
  BY <1>0, <1>1 DEF Blame, pumping
<1>6. Whole'
  <2>1. (pump # "adding") /\ outcomes # <<"success">>
    BY <1>0, <1>1 DEF Whole
  <2>2. Intact' => Intact /\ reader = "reading"
    BY <1>1 DEF Intact, Ending, pumping, client
  <2>3. Held' = Held /\ (reader = "reading" => Line = Line')
    BY DEF Held, Line, pumping
  <2>. QED
    BY <1>0, <2>1, <2>2, <2>3 DEF Whole, pumping
<1>. QED
  BY <1>2, <1>3, <1>4, <1>5, <1>6 DEF Inv

LEMMA Cancellation ==
  ASSUME Inv, Stopped
  PROVE  Ending /\ ~Intact
BY DEF Inv, Blame, Stopped, Ending, Intact

LEMMA SendChunkStep ==
  ASSUME Inv, SendChunk
  PROVE  Inv'
<1>0. TypeOK /\ Settled /\ Endings /\ Blame /\ Whole
  BY DEF Inv
<1>1. CASE Stopped /\ reader' = "done" /\ inClosed' = TRUE /\ UNCHANGED in
  BY <1>0, <1>1, Cancellation, ReadStops DEF SendChunk, Endings
<1>2. CASE /\ Len(in) < InCap /\ in' = Append(in, Last(sent))
           /\ reader' = "reading" /\ UNCHANGED inClosed
  <2>0. reader = "sending" /\ UNCHANGED <<sent, ending, pumping, client, stopped>>
    BY DEF SendChunk
  <2>1. sent # <<>> /\ Len(sent) \in Nat \ {0} /\ Last(sent) = sent[Len(sent)]
        /\ Last(sent) \in Chunks
    BY <1>0, <2>0, Typed, Taken DEF Endings, Last
  <2>2. /\ in' \in Seq(Chunks \cup {"error"}) /\ Len(in') = Len(in) + 1
        /\ \A i \in 1..Len(in) : in'[i] = in[i]
        /\ in'[Len(in) + 1] = Last(sent)
        /\ ErrorIn(in') <=> ErrorIn(in)
    <3>1. Last(sent) # "error"
      BY <2>1 DEF Chunks
    <3>. QED
      BY <1>0, <1>2, <2>1, <3>1, Typed, Appended
  <2>3. TypeOK'
    BY <1>0, <1>2, <2>0, <2>2, Typed DEF TypeOK, pumping, client
  <2>4. Settled' /\ Endings' /\ Blame'
    BY <1>0, <1>2, <2>0, <2>2 DEF Settled, Endings, Blame, Ending, pumping, client
  <2>5. Whole'
    <3>1. (pump # "adding") /\ outcomes # <<"success">>
      BY <1>0, <2>0 DEF Whole, Endings
    <3>2. CASE Intact
      <4>1. Held \in {0, 1} /\ Line = 1 /\ Line' = 0 /\ Held' = Held /\ (pump = "sending" <=> Held = 1)
        BY <1>2, <2>0 DEF pumping, Held, Line
      <4>2. /\ Len(sent) = Len(passed) + Held + Len(in) + Line
            /\ \A i \in 1..Len(passed) : passed[i] = sent[i]
            /\ pump = "sending" => hold = sent[Len(passed) + 1]
            /\ \A i \in 1..Len(in) : in[i] = sent[Len(passed) + Held + i]
        BY <1>0, <3>2 DEF Whole
      <4>3. \A i \in 1..Len(in) + 1 : in'[i] = sent[Len(passed) + Held + i]
        <5> HIDE DEF Held, Line
        <5>1. /\ Len(in) \in Nat /\ Len(passed) \in Nat
              /\ Len(sent) = Len(passed) + Held + (Len(in) + 1)
          BY <1>0, <4>1, <4>2, Typed
        <5>2. in'[Len(in) + 1] = sent[Len(passed) + Held + (Len(in) + 1)]
          BY <2>1, <2>2, <5>1
        <5>3. \A i \in 1..Len(in) : in'[i] = sent[Len(passed) + Held + i]
          BY <2>2, <4>2
        <5>. QED
          BY <5>1, <5>2, <5>3
      <4>. HIDE DEF Held, Line
      <4>. QED
        BY <1>0, <2>0, <2>2, <3>1, <4>1, <4>2, <4>3, Typed DEF Whole, pumping
    <3>3. CASE ~Intact
      BY <2>0, <3>1, <3>3 DEF Whole, Intact, pumping, client
    <3>. QED
      BY <3>2, <3>3
  <2>. QED
    BY <2>3, <2>4, <2>5 DEF Inv
<1>. QED
  BY <1>1, <1>2 DEF SendChunk

LEMMA SendErrorStep ==
  ASSUME Inv, SendError
  PROVE  Inv'
<1>0. TypeOK /\ Settled /\ Endings /\ Blame /\ Whole
  BY DEF Inv
<1>1. /\ in' \in Seq(Chunks \cup {"error"}) /\ Len(in') = Len(in) + 1 /\ ErrorIn(in')
  BY <1>0, Typed, Appended DEF SendError
<1>2. TypeOK'
  BY <1>0, <1>1, Typed DEF SendError, TypeOK, pumping, client
<1>3. Settled' /\ Endings' /\ Blame'
  BY <1>0, <1>1 DEF SendError, Settled, Endings, Blame, Ending, pumping, client
<1>4. Whole'
  BY <1>0 DEF SendError, Whole, Intact, Endings, Blame, Ending, pumping, client
<1>. QED
  BY <1>2, <1>3, <1>4 DEF Inv

LEMMA ConnectorStep ==
  ASSUME Inv, ReadChunk \/ ReadEnd \/ ReadFails \/ ReaderStep
  PROVE  Inv'
<1>0. Endings /\ inClosed \in BOOLEAN
  BY DEF Inv, TypeOK
<1>1. CASE ReadEnd \/ ReadFails
  <2>1. reader = "reading" /\ UNCHANGED <<sent, in, pumping, client, stopped>>
    BY <1>1 DEF ReadEnd, ReadFails
  <2>2. inClosed = FALSE
    BY <1>0, <2>1 DEF Endings
  <2>3. CASE ReadEnd
    BY <2>1, <2>3, ReadStops DEF ReadEnd
  <2>4. CASE ReadFails
    <3>1. ending' = "broken" /\ reader' = "reporting" /\ inClosed' = FALSE
      BY <2>2, <2>4 DEF ReadFails
    <3>. QED
      BY <2>1, <3>1, ReadStops
  <2>. QED
    BY <1>1, <2>3, <2>4
<1>2. CASE ReadCancelled
  <2>1. ending = "none" /\ Ending /\ inClosed = FALSE
    BY <1>0, <1>2, Cancellation DEF ReadCancelled, Endings, Inv, TypeOK
  <2>. QED
    BY <1>2, <2>1, ReadStops DEF ReadCancelled
<1>. QED
  BY <1>1, <1>2, ReadChunkStep, SendChunkStep, SendErrorStep DEF ReaderStep

-----------------------------------------------------------------------------
(* The pump                                                                *)

\* The pump leaves, and its stream has been settled once.
LEMMA LeaveStep ==
  ASSUME Inv, Leave, UNCHANGED <<sent, ending, reader, inClosed, passed, client>>,
         in' \in Seq(Chunks \cup {"error"}), Len(in') <= InCap,
         out' \in Seq(Chunks \cup {"error", "estimate"}), Len(out') <= OutCap,
         sawUsage' \in BOOLEAN,
         NEW how \in Outcomes, outcomes' = <<how>>,
         how = "failed" => ending = "broken",
         how = "success" => ending = "complete" /\ passed = sent
  PROVE  Inv'
<1>0. TypeOK /\ Settled /\ Endings /\ Blame /\ Whole
  BY DEF Inv
<1>1. pump' = "done" /\ Ending' /\ ~Intact'
  BY DEF Leave, Ending, Intact
<1>2. TypeOK'
  <2>1. outcomes' \in Seq(Outcomes)
    OBVIOUS
  <2>2. window' \in Seq({"text", "banned"}) /\ Len(window') < Window
    BY StreamPumpAssumption DEF Leave
  <2>. QED
    BY <1>0, <2>1, <2>2 DEF Leave, TypeOK, client
<1>3. Settled'
  BY <1>1 DEF Settled, Unsettled
<1>4. Endings'
  BY <1>0, <1>1 DEF Endings
<1>5. Blame'
  BY <1>1, Single DEF Blame
<1>6. Whole'
  BY <1>1, Single DEF Whole
<1>. QED
  BY <1>2, <1>3, <1>4, <1>5, <1>6 DEF Inv

LEMMA SettleType ==
  ASSUME Inv, pump \in Unsettled, NEW how, Settle(how)
  PROVE  outcomes' = <<how>>
BY Single DEF Inv, Settled, Settle

\* At the end of the connector's channel nothing is missing.
LEMMA EndIsWhole ==
  ASSUME Inv, pump = "receiving", in = <<>>, inClosed, ~gone
  PROVE  ending = "complete" /\ passed = sent
<1>0. TypeOK /\ Endings /\ Whole
  BY DEF Inv
<1>1. ~ErrorIn(in) /\ Len(in) = 0
  BY DEF ErrorIn
<1>2. ending = "complete" /\ reader = "done"
  BY <1>0, <1>1 DEF Endings, Ending
<1>3. Intact /\ Held = 0 /\ Line = 0
  BY <1>2 DEF Intact, Held, Line
<1>4. Len(sent) = Len(passed) /\ \A i \in 1..Len(passed) : passed[i] = sent[i]
  BY <1>0, <1>1, <1>3, Typed DEF Whole
<1>5. passed = sent
  BY <1>0, <1>4, Typed, SeqEqual
<1>. QED
  BY <1>2, <1>5

\* The steps at which the pump leaves.
LEMMA LastStep ==
  ASSUME Inv,
         \/ PumpCancelled \/ ErrorUnsent \/ SendBlocked \/ SendFailure \/ AddUsage
         \/ pump = "receiving" /\ in = <<>> /\ inClosed /\ Settle("success") /\ ~gone /\ Leave
            /\ UNCHANGED <<connector, client, sawUsage, out, passed>>
  PROVE  Inv'
<1>0. /\ TypeOK /\ Settled /\ Endings /\ Blame /\ Whole
      /\ in \in Seq(Chunks \cup {"error"}) /\ Len(in) <= InCap /\ sawUsage \in BOOLEAN
      /\ out \in Seq(Chunks \cup {"error", "estimate"}) /\ Len(out) <= OutCap
  BY DEF Inv, TypeOK
<1>1. Len(out) < OutCap => \A x \in {"error", "estimate"} :
        /\ Append(out, x) \in Seq(Chunks \cup {"error", "estimate"})
        /\ Len(Append(out, x)) <= OutCap
  BY <1>0, Typed, Appended
<1>2. CASE PumpCancelled
  <2>1. pump \in Unsettled /\ Settle("cancelled") /\ Leave
        /\ UNCHANGED <<connector, client, sawUsage, out, passed>>
    BY <1>2 DEF PumpCancelled, SettleCancelled, Unsettled
  <2>2. outcomes' = <<"cancelled">> /\ "cancelled" \in Outcomes
    BY <2>1, SettleType DEF Outcomes
  <2>. QED
    BY <1>0, <2>1, <2>2, LeaveStep DEF connector
<1>3. CASE ErrorUnsent \/ SendFailure
  <2>1. /\ pump = "failing" /\ Leave /\ UNCHANGED <<connector, client, sawUsage, passed, outcomes>>
        /\ out' \in Seq(Chunks \cup {"error", "estimate"}) /\ Len(out') <= OutCap
    BY <1>0, <1>1, <1>3 DEF ErrorUnsent, SendFailure
  <2>2. PICK how \in {"failed", "stalled"} : outcomes = <<how>>
    BY <1>0, <2>1 DEF Settled
  <2>3. how \in Outcomes /\ how # "success" /\ (how = "failed" => ending = "broken")
        /\ outcomes' = <<how>>
    BY <1>0, <2>1, <2>2 DEF Outcomes, Blame
  <2>. QED
    BY <1>0, <2>1, <2>3, LeaveStep DEF connector
<1>4. CASE SendBlocked
  <2>1. /\ pump \in Unsettled /\ Settle("blocked") /\ Leave
        /\ UNCHANGED <<connector, client, sawUsage, passed>>
        /\ out' \in Seq(Chunks \cup {"error", "estimate"}) /\ Len(out') <= OutCap
    BY <1>0, <1>1, <1>4 DEF SendBlocked, Unsettled
  <2>2. outcomes' = <<"blocked">> /\ "blocked" \in Outcomes
    BY <2>1, SettleType DEF Outcomes
  <2>. QED
    BY <1>0, <2>1, <2>2, LeaveStep DEF connector
<1>5. CASE AddUsage
  <2>1. /\ pump \in Unsettled /\ Settle("success") /\ Leave
        /\ UNCHANGED <<connector, client, sawUsage, passed>>
        /\ out' \in Seq(Chunks \cup {"error", "estimate"}) /\ Len(out') <= OutCap
    BY <1>0, <1>1, <1>5 DEF AddUsage, Unsettled
  <2>2. outcomes' = <<"success">> /\ "success" \in Outcomes
    BY <2>1, SettleType DEF Outcomes
  <2>3. ending = "complete" /\ passed = sent
    BY <1>0, <1>5 DEF AddUsage, Whole
  <2>. QED
    BY <1>0, <2>1, <2>2, <2>3, LeaveStep DEF connector
<1>6. CASE pump = "receiving" /\ in = <<>> /\ inClosed /\ Settle("success") /\ ~gone /\ Leave
           /\ UNCHANGED <<connector, client, sawUsage, out, passed>>
  <2>1. outcomes' = <<"success">> /\ "success" \in Outcomes
    BY <1>6, SettleType DEF Outcomes, Unsettled
  <2>2. ending = "complete" /\ passed = sent
    BY <1>6, EndIsWhole
  <2>. QED
    BY <1>0, <1>6, <2>1, <2>2, LeaveStep DEF connector
<1>. QED
  BY <1>2, <1>3, <1>4, <1>5, <1>6

\* A failure is recorded, and the client is to be told.
LEMMA FailStep ==
  ASSUME Inv, pump \in {"receiving", "sending"}, pump' = "failing", ~gone,
         UNCHANGED <<sent, ending, reader, inClosed, client, sawUsage, out, passed, outClosed>>,
         in' \in Seq(Chunks \cup {"error"}), Len(in') <= InCap,
         hold' \in {hold, "none"}, window' = window, stopped' \in BOOLEAN,
         NEW how \in {"failed", "stalled"}, Settle(how), how = "failed" => ending = "broken"
  PROVE  Inv'
<1>0. TypeOK /\ Settled /\ Endings /\ Blame /\ Whole
  BY DEF Inv
<1>1. outcomes' = <<how>> /\ outcomes' \in Seq(Outcomes) /\ how # "success"
  <2>1. how \in Outcomes /\ how # "success"
    BY DEF Outcomes
  <2>2. outcomes' = <<how>>
    BY SettleType DEF Unsettled
  <2>. QED
    BY <2>1, <2>2
<1>2. Ending' /\ ~Intact' /\ pump' # "adding"
  BY DEF Ending, Intact
<1>3. TypeOK'
  BY <1>0, <1>1 DEF TypeOK, client
<1>4. Settled'
  BY <1>1 DEF Settled, Unsettled
<1>5. Endings'
  BY <1>0, <1>2 DEF Endings
<1>6. Blame'
  BY <1>1, <1>2, Single DEF Blame
<1>7. Whole'
  BY <1>1, <1>2, Single DEF Whole
<1>. QED
  BY <1>3, <1>4, <1>5, <1>6, <1>7 DEF Inv

LEMMA ReceiveErrorStep ==
  ASSUME Inv, ReceiveError \/ Stall
  PROVE  Inv'
<1>0. /\ TypeOK /\ Blame /\ in \in Seq(Chunks \cup {"error"}) /\ Len(in) <= InCap
      /\ sawUsage \in BOOLEAN /\ stopped \in BOOLEAN
      /\ out \in Seq(Chunks \cup {"error", "estimate"}) /\ Len(out) <= OutCap
  BY DEF Inv, TypeOK
<1>1. CASE ReceiveError
  <2>1. /\ pump = "receiving" /\ in # <<>> /\ Head(in) = "error" /\ in' = Tail(in)
        /\ UNCHANGED <<sent, ending, reader, inClosed, client, sawUsage, out, passed>>
    BY <1>1 DEF ReceiveError
  <2>2. in' \in Seq(Chunks \cup {"error"}) /\ Len(in') <= InCap /\ ErrorIn(in)
    BY <1>0, <2>1, Typed, Taken
  <2>3. CASE gone /\ Settle("cancelled") /\ Leave
    <3>1. outcomes' = <<"cancelled">> /\ "cancelled" \in Outcomes
      BY <2>1, <2>3, SettleType DEF Outcomes, Unsettled
    <3>. QED
      BY <1>0, <2>1, <2>2, <2>3, <3>1, LeaveStep
  <2>4. CASE ~gone /\ Settle("failed") /\ pump' = "failing"
             /\ UNCHANGED <<hold, window, outClosed, stopped>>
    <3>1. ending = "broken"
      BY <1>0, <2>1, <2>2, <2>4 DEF Blame, Ending
    <3>. QED
      BY <1>0, <2>1, <2>2, <2>4, <3>1, FailStep
  <2>. QED
    BY <1>1, <2>3, <2>4 DEF ReceiveError
<1>2. CASE Stall
  <2>1. pump \in {"receiving", "sending"} /\ UNCHANGED <<connector, client, sawUsage, out, passed>>
    BY <1>2 DEF Stall
  <2>2. CASE gone /\ Settle("cancelled") /\ Leave
    <3>1. outcomes' = <<"cancelled">> /\ "cancelled" \in Outcomes
      BY <2>1, <2>2, SettleType DEF Outcomes, Unsettled
    <3>. QED
      BY <1>0, <2>1, <2>2, <3>1, LeaveStep DEF connector
  <2>3. CASE ~gone /\ Settle("stalled") /\ stopped' = TRUE /\ pump' = "failing" /\ hold' = "none"
             /\ UNCHANGED <<window, outClosed>>
    BY <1>0, <2>1, <2>3, FailStep DEF connector
  <2>. QED
    BY <1>2, <2>2, <2>3 DEF Stall
<1>. QED
  BY <1>1, <1>2

LEMMA InputEndsStep ==
  ASSUME Inv, InputEnds
  PROVE  Inv'
<1>0. /\ TypeOK /\ Settled /\ Endings /\ Blame /\ Whole
      /\ in \in Seq(Chunks \cup {"error"}) /\ Len(in) <= InCap /\ sawUsage \in BOOLEAN
      /\ out \in Seq(Chunks \cup {"error", "estimate"}) /\ Len(out) <= OutCap
  BY DEF Inv, TypeOK
<1>1. pump = "receiving" /\ in = <<>> /\ inClosed /\ UNCHANGED <<connector, client, sawUsage, out, passed>>
  BY DEF InputEnds
<1>2. CASE gone
  <2>1. Settle("cancelled") /\ Leave
    BY <1>2 DEF InputEnds
  <2>2. outcomes' = <<"cancelled">> /\ "cancelled" \in Outcomes
    BY <1>1, <2>1, SettleType DEF Outcomes, Unsettled
  <2>. QED
    BY <1>0, <1>1, <2>1, <2>2, LeaveStep DEF connector
<1>3. CASE ~gone /\ Settle("success") /\ Leave
  BY <1>1, <1>3, LastStep
<1>4. CASE ~gone /\ pump' = "adding" /\ UNCHANGED <<hold, window, outClosed, outcomes, stopped>>
  <2>1. ending = "complete" /\ passed = sent
    BY <1>1, <1>4, EndIsWhole
  <2>2. reader = "done" /\ UNCHANGED <<sent, in, ending, reader, inClosed>>
    BY <1>0, <1>1, <2>1 DEF Endings, connector
  <2>3. TypeOK'
    BY <1>0, <1>1, <1>4 DEF TypeOK, connector, client
  <2>4. Settled' /\ Endings' /\ Blame'
    BY <1>0, <1>1, <1>4, <2>1, <2>2 DEF Settled, Endings, Blame, Ending, Unsettled, client
  <2>5. Whole'
    <3>1. Len(in) = 0 /\ Held' = 0 /\ Line' = 0 /\ Len(sent) \in Nat
      BY <1>0, <1>1, <1>4, <2>2, Typed DEF Held, Line
    <3>. QED
      BY <1>1, <1>4, <2>1, <2>2, <3>1 DEF Whole
  <2>. QED
    BY <2>3, <2>4, <2>5 DEF Inv
<1>. QED
  BY <1>2, <1>3, <1>4 DEF InputEnds

LEMMA WindowType ==
  ASSUME TypeOK, NEW ch \in Chunks, NEW text,
         text = IF IsText(ch) THEN Append(window, ch) ELSE window,
         window' = IF IsText(ch) /\ Scanned(text) THEN <<>> ELSE text
  PROVE  window' \in Seq({"text", "banned"}) /\ Len(window') < Window
<1>1. CASE IsText(ch)
  <2>1. text \in Seq({"text", "banned"}) /\ Len(text) \in Nat
    BY <1>1, Typed, Appended DEF IsText
  <2>. QED
    BY <1>1, <2>1, Typed DEF Scanned
<1>2. CASE ~IsText(ch)
  BY <1>2 DEF TypeOK
<1>. QED
  BY <1>1, <1>2

LEMMA ReceiveChunkStep ==
  ASSUME Inv, ReceiveChunk
  PROVE  Inv'
<1>0. TypeOK /\ Settled /\ Endings /\ Blame /\ Whole
  BY DEF Inv
<1>1. /\ pump = "receiving" /\ in # <<>> /\ Head(in) # "error" /\ in' = Tail(in)
      /\ hold' = Head(in) /\ pump' \in {"blocking", "sending"}
      /\ sawUsage' = (sawUsage \/ Head(in) = "usage")
      /\ UNCHANGED <<sent, ending, reader, inClosed, out, passed, outClosed, outcomes, client, stopped>>
  BY DEF ReceiveChunk
<1>2. /\ Head(in) \in Chunks /\ Head(in) = in[1] /\ in' \in Seq(Chunks \cup {"error"})
      /\ Len(in') = Len(in) - 1 /\ Len(in) \in Nat \ {0}
      /\ \A i \in 1..Len(in) - 1 : in'[i] = in[i + 1]
      /\ ErrorIn(in') <=> ErrorIn(in)
  BY <1>0, <1>1, Typed, Taken
<1>3. window' \in Seq({"text", "banned"}) /\ Len(window') < Window
  <2>1. /\ window' = IF IsText(Head(in)) /\ Scanned(IF IsText(Head(in)) THEN Append(window, Head(in))
                                                                       ELSE window)
                     THEN <<>> ELSE IF IsText(Head(in)) THEN Append(window, Head(in)) ELSE window
    BY DEF ReceiveChunk
  <2>. QED
    BY <1>0, <1>2, <2>1, WindowType
<1>4. TypeOK'
  <2>1. Len(in') <= InCap
    BY <1>0, <1>2, Typed DEF TypeOK
  <2>2. sawUsage' \in BOOLEAN /\ hold' \in Chunks \cup {"none"}
    BY <1>1, <1>2
  <2>. QED
    BY <1>0, <1>1, <1>2, <1>3, <2>1, <2>2 DEF TypeOK, client
<1>5. Settled' /\ Endings' /\ Blame'
  BY <1>0, <1>1, <1>2 DEF Settled, Endings, Blame, Ending, Unsettled, client
<1>6. Whole'
  <2>1. outcomes # <<"success">>
    BY <1>0, <1>1, Single DEF Settled, Unsettled
  <2>2. CASE Intact'
    <3>1. Intact /\ pump' = "sending" /\ Held = 0 /\ Held' = 1 /\ Line' = Line /\ Line \in {0, 1}
      BY <1>1, <2>2 DEF Intact, Held, Line, client
    <3>2. /\ Len(sent) = Len(passed) + Held + Len(in) + Line
          /\ \A i \in 1..Len(passed) : passed[i] = sent[i]
          /\ \A i \in 1..Len(in) : in[i] = sent[Len(passed) + Held + i]
      BY <1>0, <3>1 DEF Whole
    <3>3. hold' = sent[Len(passed) + 1]
      BY <1>0, <1>1, <1>2, <3>1, <3>2, Typed
    <3>4. \A i \in 1..Len(in') : in'[i] = sent[Len(passed) + Held' + i]
      <4> SUFFICES ASSUME NEW i \in 1..Len(in) - 1
                   PROVE  in'[i] = sent[Len(passed) + 1 + i]
        BY <1>2, <3>1
      <4>1. Len(passed) \in Nat /\ i + 1 \in 1..Len(in)
        BY <1>0, <1>2, Typed
      <4>2. in[i + 1] = sent[Len(passed) + 0 + (i + 1)]
        BY <3>1, <3>2, <4>1
      <4>. QED
        BY <1>2, <4>1, <4>2
    <3>5. Len(sent) = Len(passed) + Held' + Len(in') + Line'
      BY <1>0, <1>2, <3>1, <3>2, Typed
    <3>. QED
      BY <1>1, <2>1, <3>1, <3>2, <3>3, <3>4, <3>5 DEF Whole
  <2>3. CASE ~Intact'
    BY <1>1, <2>1, <2>3 DEF Whole
  <2>. QED
    BY <2>2, <2>3
<1>. QED
  BY <1>4, <1>5, <1>6 DEF Inv

LEMMA PassOnStep ==
  ASSUME Inv, PassOn
  PROVE  Inv'
<1>0. TypeOK /\ Settled /\ Endings /\ Blame /\ Whole
  BY DEF Inv
<1>1. /\ pump = "sending" /\ pump' = "receiving" /\ hold' = "none" /\ hold \in Chunks
      /\ passed' = Append(passed, hold) /\ out' = Append(out, hold) /\ Len(out) < OutCap
      /\ UNCHANGED <<sent, ending, reader, in, inClosed, window, sawUsage, outClosed, outcomes,
                     client, stopped>>
  BY <1>0 DEF PassOn, connector, Settled
<1>2. /\ passed' \in Seq(Chunks) /\ Len(passed') = Len(passed) + 1
      /\ \A i \in 1..Len(passed) : passed'[i] = passed[i]
      /\ passed'[Len(passed) + 1] = hold
  BY <1>0, <1>1, Typed, Appended
<1>3. out' \in Seq(Chunks \cup {"error", "estimate"}) /\ Len(out') <= OutCap
  <2>1. hold \in Chunks \cup {"error", "estimate"}
    BY <1>1
  <2>. QED
    BY <1>0, <1>1, <2>1, Typed, Appended
<1>4. TypeOK'
  BY <1>0, <1>1, <1>2, <1>3 DEF TypeOK, client
<1>5. Settled' /\ Endings' /\ Blame'
  BY <1>0, <1>1 DEF Settled, Endings, Blame, Ending, Unsettled, client
<1>6. Whole'
  <2>1. outcomes # <<"success">>
    BY <1>0, <1>1, Single DEF Settled, Unsettled
  <2>2. CASE Intact'
    <3>1. Intact /\ Held = 1 /\ Held' = 0 /\ Line' = Line /\ Line \in {0, 1}
      BY <1>1, <2>2 DEF Intact, Held, Line, client
    <3>2. /\ Len(sent) = Len(passed) + Held + Len(in) + Line
          /\ \A i \in 1..Len(passed) : passed[i] = sent[i]
          /\ hold = sent[Len(passed) + 1]
          /\ \A i \in 1..Len(in) : in[i] = sent[Len(passed) + Held + i]
      BY <1>0, <1>1, <3>1 DEF Whole
    <3>3. \A i \in 1..Len(passed') : passed'[i] = sent[i]
      <4>1. Len(passed) \in Nat
        BY <1>0, Typed
      <4>. QED
        BY <1>2, <3>2, <4>1
    <3>4. \A i \in 1..Len(in) : in[i] = sent[Len(passed') + Held' + i]
      <4>1. Len(passed') + Held' = Len(passed) + Held
        BY <1>0, <1>2, <3>1, Typed
      <4>. QED
        BY <3>2, <4>1
    <3>5. Len(sent) = Len(passed') + Held' + Len(in) + Line'
      BY <1>0, <1>2, <3>1, <3>2, Typed
    <3>. QED
      BY <1>1, <2>1, <3>3, <3>4, <3>5 DEF Whole
  <2>3. CASE ~Intact'
    BY <1>1, <2>1, <2>3 DEF Whole
  <2>. QED
    BY <2>2, <2>3
<1>. QED
  BY <1>4, <1>5, <1>6 DEF Inv

LEMMA PumpingStep ==
  ASSUME Inv, PumpStep \/ Stall
  PROVE  Inv'
BY LastStep, ReceiveErrorStep, ReceiveChunkStep, PassOnStep, InputEndsStep DEF PumpStep

-----------------------------------------------------------------------------
(* The handler                                                             *)

LEMMA HandlingStep ==
  ASSUME Inv, HandlerStep \/ Written \/ ClientLeaves
  PROVE  Inv'
<1>0. TypeOK /\ Settled /\ Endings /\ Blame /\ Whole
  BY DEF Inv
<1>1. /\ UNCHANGED <<connector, pump, hold, window, sawUsage, passed, outClosed, outcomes, stopped>>
      /\ gone' \in BOOLEAN /\ (gone => gone') /\ handler' \in {"waiting", "writing", "returned"}
  BY <1>0 DEF HandlerStep, TakeChunk, TakeEnd, Written, ClientLeaves, pumping, TypeOK
<1>2. out' \in {out, Tail(out)} /\ (out' # out => out # <<>>)
  BY DEF HandlerStep, TakeChunk, TakeEnd, Written, ClientLeaves, pumping
<1>3. out' \in Seq(Chunks \cup {"error", "estimate"}) /\ Len(out') <= OutCap
  <2>1. CASE out' = out
    BY <1>0, <2>1 DEF TypeOK
  <2>2. CASE out # <<>> /\ out' = Tail(out)
    <3>1. Tail(out) \in Seq(Chunks \cup {"error", "estimate"}) /\ Len(Tail(out)) = Len(out) - 1
      BY <1>0, <2>2, Typed, Taken
    <3>. QED
      BY <1>0, <2>2, <3>1, Typed DEF TypeOK
  <2>. QED
    BY <1>2, <2>1, <2>2
<1>4. TypeOK'
  BY <1>0, <1>1, <1>3 DEF TypeOK, connector
<1>5. Settled' /\ Endings' /\ Blame'
  BY <1>0, <1>1 DEF Settled, Endings, Blame, Ending, connector
<1>6. Whole'
  <2>1. (Intact' => Intact) /\ Held' = Held /\ Line' = Line
    BY <1>0, <1>1 DEF Intact, Held, Line, connector, TypeOK
  <2>. QED
    BY <1>0, <1>1, <2>1 DEF Whole, connector
<1>. QED
  BY <1>4, <1>5, <1>6 DEF Inv

-----------------------------------------------------------------------------
LEMMA InvInit == Init => Inv
<1> SUFFICES ASSUME Init PROVE Inv
  OBVIOUS
<1>1. TypeOK
  <2>1. Len(<<>>) = 0 /\ 0 <= MaxChunks /\ 0 <= InCap /\ 0 <= OutCap /\ 0 < Window
    BY StreamPumpAssumption
  <2>2. \A S : <<>> \in Seq(S)
    OBVIOUS
  <2>. QED
    BY <2>1, <2>2 DEF Init, TypeOK
<1>2. Settled /\ Endings
  BY DEF Init, Settled, Unsettled, Endings
<1>3. Blame
  BY Single DEF Init, Blame, ErrorIn
<1>4. Whole
  BY Single DEF Init, Whole, Held, Line
<1>. QED
  BY <1>1, <1>2, <1>3, <1>4 DEF Inv

LEMMA InvNext == Inv /\ [Next]_vars => Inv'
<1> SUFFICES ASSUME Inv, [Next]_vars PROVE Inv'
  OBVIOUS
<1>1. CASE UNCHANGED vars
  <2>1. TypeOK' /\ Settled' /\ Endings' /\ Blame'
    BY <1>1 DEF vars, connector, pumping, client, Inv, TypeOK, Settled, Endings, Blame, Ending
  <2>2. Whole'
    BY <1>1 DEF vars, connector, pumping, client, Inv, Whole, Intact, Held, Line
  <2>. QED
    BY <2>1, <2>2 DEF Inv
<1>. QED
  BY <1>1, ConnectorStep, PumpingStep, HandlingStep DEF Next

LEMMA Inductive == Spec => []Inv
BY InvInit, InvNext, PTL DEF Spec

\* What the pump has recorded is one outcome or none.
LEMMA Recorded ==
  ASSUME Inv
  PROVE  \/ outcomes = <<>> \/ \E how \in Outcomes : outcomes = <<how>>
<1>1. CASE pump \in Unsettled
  BY <1>1 DEF Inv, Settled
<1>2. CASE pump = "failing"
  BY <1>2 DEF Inv, Settled, Outcomes
<1>3. CASE pump = "done"
  BY <1>3 DEF Inv, Settled
<1>. QED
  BY <1>1, <1>2, <1>3 DEF Inv, TypeOK, Unsettled

THEOREM Typing == Spec => []TypeOK
<1>1. Inv => TypeOK
  BY DEF Inv
<1>. QED
  BY <1>1, Inductive, PTL

\* A stream recorded as a success was ended by the provider, and all of it was
\* passed on (pipeline.go: pumpStream).
THEOREM SuccessWasWhole == Spec => []SuccessIsWhole
<1>1. Inv => SuccessIsWhole
  <2> SUFFICES ASSUME Inv, "success" \in ToSet(outcomes)
               PROVE  ending = "complete" /\ passed = sent
    BY DEF SuccessIsWhole
  <2>1. outcomes = <<"success">>
    BY Recorded, Single
  <2>. QED
    BY <2>1 DEF Inv, Whole
<1>. QED
  BY <1>1, Inductive, PTL

\* No provider is blamed for a body that a cancellation broke (pipeline.go:
\* pumpStream, streamContextFailure).
THEOREM BlameWasFair == Spec => []BlameIsFair
<1>1. Inv => BlameIsFair
  <2> SUFFICES ASSUME Inv, "failed" \in ToSet(outcomes)
               PROVE  ending = "broken"
    BY DEF BlameIsFair
  <2>1. outcomes = <<"failed">>
    BY Recorded, Single
  <2>. QED
    BY <2>1 DEF Inv, Blame
<1>. QED
  BY <1>1, Inductive, PTL

\* Every way out of the pump settles the stream once (pipeline.go: pumpStream).
THEOREM SettlesOnce == Spec => []SettledOnce
<1>1. Inv => SettledOnce
  <2> SUFFICES ASSUME Inv PROVE SettledOnce
    OBVIOUS
  <2>1. Len(outcomes) <= 1
    <3>1. CASE outcomes = <<>>
      BY <3>1
    <3>2. CASE \E how \in Outcomes : outcomes = <<how>>
      BY <3>2
    <3>. QED
      BY <3>1, <3>2, Recorded
  <2>2. pump = "done" => outcomes # <<>>
    BY Single DEF Inv, Settled
  <2>. QED
    BY <2>1, <2>2 DEF SettledOnce
<1>. QED
  BY <1>1, Inductive, PTL
-----------------------------------------------------------------------------
(* The outbound policy                                                     *)

\* The text that has been passed on after the chunk at i.
TextAfter(i) == {j \in DOMAIN passed : j > i /\ IsText(passed[j])}
Pending      == IF pump = "sending" /\ IsText(hold) THEN 1 ELSE 0

\* As long as the pump works, what breaks the policy is still in the window, with
\* all the text that followed it.
Windowed ==
  /\ pump \in {"receiving", "sending"} =>
       \A i \in DOMAIN passed : passed[i] = "banned" =>
         /\ "banned" \in ToSet(window)
         /\ Cardinality(TextAfter(i)) + Pending + 1 <= Len(window)
  /\ pump = "sending" /\ hold = "banned" => "banned" \in ToSet(window)

Guarded == Inv /\ Windowed /\ BannedIsCaught

LEMMA TextAfterType ==
  ASSUME TypeOK, NEW i
  PROVE  IsFiniteSet(TextAfter(i)) /\ Cardinality(TextAfter(i)) \in Nat
<1>1. Len(passed) \in Nat /\ DOMAIN passed = 1..Len(passed)
  BY Typed
<1>2. IsFiniteSet(1..Len(passed)) /\ TextAfter(i) \in SUBSET (1..Len(passed))
  BY <1>1, FS_Interval DEF TextAfter
<1>. QED
  BY <1>2, FS_Subset, FS_CardinalityType

\* A step that passes nothing on, and leaves the pump's work alone or ends it.
LEMMA NothingPassed ==
  ASSUME Guarded, UNCHANGED passed,
         pump' \notin {"receiving", "sending"} \/ UNCHANGED <<pump, hold, window>>
  PROVE  Windowed' /\ BannedIsCaught'
BY DEF Guarded, Windowed, BannedIsCaught, TextAfter, Pending

\* Text joins the window, which is emptied only when nothing in it breaks the
\* policy.
LEMMA ReceiveChunkGuarded ==
  ASSUME Guarded, Inv', ReceiveChunk
  PROVE  Windowed' /\ BannedIsCaught'
<1>. DEFINE ch == Head(in)
            text == IF IsText(ch) THEN Append(window, ch) ELSE window
<1>1. /\ pump = "receiving" /\ in # <<>> /\ UNCHANGED passed /\ hold' = ch
      /\ window' = IF IsText(ch) /\ Scanned(text) THEN <<>> ELSE text
      /\ pump' = IF IsText(ch) /\ Scanned(text) /\ "banned" \in ToSet(text)
                 THEN "blocking" ELSE "sending"
  BY DEF ReceiveChunk
<1>2. /\ TypeOK /\ window \in Seq({"text", "banned"}) /\ Len(window) \in Nat
      /\ in \in Seq(Chunks \cup {"error"}) /\ passed \in Seq(Chunks)
  BY Typed DEF Guarded, Inv
<1>. HIDE DEF ch
<1>3. /\ Len(text) = Len(window) + (IF IsText(ch) THEN 1 ELSE 0)
      /\ \A x \in ToSet(window) : x \in ToSet(text)
      /\ ch = "banned" => "banned" \in ToSet(text)
  <2>1. CASE IsText(ch)
    <3>1. ch \in {"text", "banned"}
      BY <2>1 DEF IsText
    <3>2. /\ Len(Append(window, ch)) = Len(window) + 1
          /\ DOMAIN Append(window, ch) = 1..Len(window) + 1 /\ DOMAIN window = 1..Len(window)
          /\ \A i \in 1..Len(window) : Append(window, ch)[i] = window[i]
          /\ Append(window, ch)[Len(window) + 1] = ch
      BY <1>2, <3>1
    <3>3. \A x \in ToSet(window) : x \in ToSet(Append(window, ch))
      BY <1>2, <3>2 DEF ToSet
    <3>4. ch \in ToSet(Append(window, ch))
      BY <1>2, <3>2 DEF ToSet
    <3>. QED
      BY <2>1, <3>2, <3>3, <3>4
  <2>2. CASE ~ IsText(ch)
    BY <1>2, <2>2 DEF IsText
  <2>. QED
    BY <2>1, <2>2
<1>. HIDE DEF text
<1>4. CASE IsText(ch) /\ Scanned(text) /\ "banned" \in ToSet(text)
  BY <1>1, <1>4, NothingPassed
<1>5. CASE IsText(ch) /\ Scanned(text) /\ "banned" \notin ToSet(text)
  <2>1. \A i \in DOMAIN passed : passed[i] # "banned"
    BY <1>1, <1>3, <1>5 DEF Guarded, Windowed
  <2>2. ch # "banned"
    BY <1>3, <1>5
  <2>. QED
    BY <1>1, <2>1, <2>2 DEF Windowed, BannedIsCaught
<1>6. CASE ~ (IsText(ch) /\ Scanned(text))
  <2>1. window' = text /\ pump' = "sending" /\ hold' = ch /\ passed' = passed
    BY <1>1, <1>6
  <2>2. Pending = 0 /\ Pending' = IF IsText(ch) THEN 1 ELSE 0
    BY <1>1, <2>1 DEF Pending
  <2>3. ASSUME NEW i \in DOMAIN passed, passed[i] = "banned"
        PROVE  /\ "banned" \in ToSet(text)
               /\ Cardinality(TextAfter(i)) + Pending' + 1 <= Len(text)
    <3>1. "banned" \in ToSet(window) /\ Cardinality(TextAfter(i)) + 0 + 1 <= Len(window)
      BY <1>1, <2>2, <2>3 DEF Guarded, Windowed
    <3>2. Cardinality(TextAfter(i)) \in Nat
      BY <1>2, TextAfterType
    <3>. QED
      BY <1>2, <1>3, <2>2, <3>1, <3>2
  <2>4. \A i : TextAfter(i)' = TextAfter(i)
    BY <2>1 DEF TextAfter
  <2>5. Windowed'
    BY <1>3, <2>1, <2>3, <2>4 DEF Windowed
  <2>6. BannedIsCaught'
    BY <2>1 DEF Guarded, BannedIsCaught
  <2>. QED
    BY <2>5, <2>6
<1>. QED
  BY <1>4, <1>5, <1>6

\* What is passed on is in the window, whose length bounds the text that follows.
LEMMA PassOnGuarded ==
  ASSUME Guarded, PassOn
  PROVE  Windowed' /\ BannedIsCaught'
<1>0. PICK n \in Nat : n = Len(passed)
  BY Typed DEF Guarded, Inv
<1>1. /\ pump = "sending" /\ pump' = "receiving" /\ passed' = Append(passed, hold)
      /\ window' = window /\ hold' = "none"
  BY DEF PassOn
<1>2. /\ TypeOK /\ passed \in Seq(Chunks) /\ n = Len(passed) /\ Len(window) \in Nat
      /\ Len(window) < Window /\ Window \in Nat
  BY <1>0, Typed DEF Guarded, Inv, TypeOK
<1>3. hold \in Chunks
  BY <1>1 DEF Guarded, Inv, Settled
<1>4. /\ DOMAIN passed = 1..n /\ DOMAIN passed' = 1..n + 1 /\ passed'[n + 1] = hold
      /\ \A i \in 1..n : passed'[i] = passed[i]
  BY <1>1, <1>2, <1>3
<1>5. ASSUME NEW i \in 1..n
      PROVE  Cardinality(TextAfter(i)') = Cardinality(TextAfter(i)) + Pending
  <2>1. n + 1 \notin TextAfter(i) /\ IsFiniteSet(TextAfter(i))
    <3>1. IsFiniteSet(TextAfter(i))
      BY <1>2, TextAfterType
    <3>2. n + 1 \notin DOMAIN passed
      BY <1>4
    <3>. QED
      BY <3>1, <3>2 DEF TextAfter
  <2>2. CASE IsText(hold)
    <3>1. TextAfter(i)' = TextAfter(i) \cup {n + 1}
      BY <1>2, <1>4, <2>2 DEF TextAfter
    <3>2. Cardinality(TextAfter(i) \cup {n + 1}) = Cardinality(TextAfter(i)) + 1
      BY <2>1, FS_AddElement
    <3>. QED
      BY <1>1, <2>2, <3>1, <3>2 DEF Pending
  <2>3. CASE ~ IsText(hold)
    <3>1. TextAfter(i)' = TextAfter(i)
      BY <1>2, <1>4, <2>3 DEF TextAfter
    <3>2. Cardinality(TextAfter(i)) \in Nat
      BY <1>2, TextAfterType
    <3>. QED
      BY <2>3, <3>1, <3>2 DEF Pending
  <2>. QED
    BY <2>2, <2>3
<1>6. Cardinality(TextAfter(n + 1)') = 0
  <2>1. TextAfter(n + 1)' = {}
    <3>1. \A j \in DOMAIN passed' : ~ (j > n + 1)
      BY <1>4
    <3>. QED
      BY <3>1 DEF TextAfter
  <2>. QED
    BY <2>1, FS_EmptySet
<1>7. ASSUME NEW i \in DOMAIN passed', passed'[i] = "banned"
      PROVE  /\ "banned" \in ToSet(window)
             /\ Cardinality(TextAfter(i)') + 1 <= Len(window)
             /\ Cardinality(TextAfter(i)') \in Nat
  <2>1. CASE i = n + 1
    <3>1. "banned" \in ToSet(window)
      BY <1>1, <1>4, <1>7, <2>1 DEF Guarded, Windowed
    <3>2. 0 < Len(window)
      BY <1>2, <3>1 DEF ToSet, TypeOK
    <3>. QED
      BY <1>2, <1>6, <2>1, <3>1, <3>2
  <2>2. CASE i \in 1..n
    <3>1. "banned" \in ToSet(window) /\ Cardinality(TextAfter(i)) + Pending + 1 <= Len(window)
      BY <1>1, <1>4, <1>7, <2>2 DEF Guarded, Windowed
    <3>2. Cardinality(TextAfter(i)) \in Nat /\ Pending \in Nat
      BY <1>2, TextAfterType DEF Pending
    <3>. QED
      BY <1>5, <2>2, <3>1, <3>2
  <2>. QED
    BY <1>2, <1>4, <1>7, <2>1, <2>2
<1>8. Windowed'
  <2>1. Pending' = 0
    BY <1>1 DEF Pending
  <2>. QED
    BY <1>1, <1>2, <1>7, <2>1 DEF Windowed
<1>9. BannedIsCaught'
  <2>1. \A i \in DOMAIN passed' : passed'[i] = "banned" => Cardinality(TextAfter(i)') < Window - 1
    BY <1>2, <1>7
  <2>. QED
    BY <2>1 DEF BannedIsCaught, TextAfter
<1>. QED
  BY <1>8, <1>9

LEMMA GuardedNext == Guarded /\ [Next]_vars => Guarded'
<1> SUFFICES ASSUME Guarded, [Next]_vars PROVE Guarded'
  OBVIOUS
<1>1. Inv'
  BY InvNext DEF Guarded
<1>2. CASE ReceiveChunk
  BY <1>1, <1>2, ReceiveChunkGuarded DEF Guarded
<1>3. CASE PassOn
  BY <1>1, <1>3, PassOnGuarded DEF Guarded
<1>4. CASE ~ ReceiveChunk /\ ~ PassOn
  <2>1. /\ UNCHANGED passed
        /\ pump' \notin {"receiving", "sending"} \/ UNCHANGED <<pump, hold, window>>
    <3>1. CASE ReadChunk \/ ReadEnd \/ ReadFails \/ ReaderStep \/ HandlerStep \/ Written \/ ClientLeaves
      BY <3>1 DEF ReadChunk, ReadEnd, ReadFails, ReaderStep, ReadCancelled, SendChunk, SendError,
         HandlerStep, TakeChunk, TakeEnd, Written, ClientLeaves, pumping
    <3>2. CASE PumpStep \/ Stall
      BY <1>4, <3>2 DEF PumpStep, PumpCancelled, SettleCancelled, ErrorUnsent, ReceiveError,
         SendBlocked, SendFailure, InputEnds, AddUsage, Stall, Leave
    <3>3. CASE UNCHANGED vars
      BY <3>3 DEF vars, pumping
    <3>. QED
      BY <3>1, <3>2, <3>3 DEF Next
  <2>. QED
    BY <1>1, <2>1, NothingPassed DEF Guarded
<1>. QED
  BY <1>2, <1>3, <1>4

\* Less than a window of text, without its last fragment, follows what breaks the
\* policy, for any window and any capacities (pipeline.go: pumpStream's scan).
THEOREM CatchesBanned == Spec => []BannedIsCaught
<1>1. Init => Guarded
  <2>1. Init => DOMAIN passed = {} /\ hold = "none"
    BY DEF Init
  <2>. QED
    BY <2>1, InvInit DEF Guarded, Windowed, BannedIsCaught
<1>2. Guarded => BannedIsCaught
  BY DEF Guarded
<1>. QED
  BY <1>1, <1>2, GuardedNext, PTL DEF Spec

-----------------------------------------------------------------------------
(* The policy resolver.  What the module G shares with PolicyRows is       *)
(* written with its prefix until the last theorem.                         *)

\* A read that nothing excuses still tells what is stored.
InFlight ==
  \A r \in Requests : req[r].pc = "read" /\ req[r].why = "none" =>
    req[r].row = rows[req[r].layer]

PolicyInv == G!TypeOK /\ InFlight /\ G!Stale

-----------------------------------------------------------------------------
(* Types of what requests become                                           *)

LEMMA MergeType ==
  ASSUME NEW rule \in G!Rules, NEW row \in Rows \cup {None}
  PROVE  G!Merge(rule, row) \in G!Rules
BY RowsAssumption DEF G!Merge, G!Rules, Rules

LEMMA LayersType == G!Layers \subseteq Nat /\ 1 \in G!Layers /\ Depth \in G!Layers
BY GuardrailsAssumption DEF G!Layers

LEMMA AdvanceType ==
  ASSUME G!TypeOK, NEW r \in Requests, NEW row \in Rows \cup {None},
         req[r] \in G!Resolves \cup G!Reads, G!Advance(r, row)
  PROVE  /\ req' \in [Requests -> G!Resolves \cup G!Reads \cup G!Returns \cup {G!Quiet}]
         /\ \A q \in Requests : req'[q].pc = "read" => q # r /\ req'[q] = req[q]
<1>1. req[r].layer \in G!Layers /\ req[r].rule \in G!Rules
      /\ req[r].dir \in {"in", "out"} /\ req[r].said \in G!Answers
  BY DEF G!Resolves, G!Reads
<1>2. G!Merge(req[r].rule, row) \in G!Rules
  BY <1>1, MergeType
<1>3. ~G!IsLast(req[r].layer) => req[r].layer + 1 \in G!Layers
  BY <1>1, GuardrailsAssumption DEF G!IsLast, G!Layers
<1> DEFINE to == [pc |-> IF G!IsLast(req[r].layer) THEN "judge" ELSE "resolve",
                  dir |-> req[r].dir, said |-> req[r].said, rule |-> G!Merge(req[r].rule, row),
                  layer |-> IF G!IsLast(req[r].layer) THEN req[r].layer ELSE req[r].layer + 1]
<1>4. to \in G!Resolves
  BY <1>1, <1>2, <1>3 DEF G!Resolves
<1>5. req' = [req EXCEPT ![r] = to]
  BY DEF G!Advance, G!Become
<1>6. to.pc # "read"
  OBVIOUS
<1>7. req \in [Requests -> G!Resolves \cup G!Reads \cup G!Returns \cup {G!Quiet}]
  BY DEF G!TypeOK
<1> HIDE DEF to
<1>. QED
  BY <1>4, <1>5, <1>6, <1>7

LEMMA BecomeType ==
  ASSUME G!TypeOK, NEW r \in Requests, NEW to, G!Become(r, to), to.pc # "read",
         to \in G!Resolves \cup G!Reads \cup G!Returns \cup {G!Quiet}
  PROVE  /\ req' \in [Requests -> G!Resolves \cup G!Reads \cup G!Returns \cup {G!Quiet}]
         /\ \A q \in Requests : req'[q].pc = "read" => q # r /\ req'[q] = req[q]
BY DEF G!TypeOK, G!Become

LEMMA Judged ==
  ASSUME NEW dir \in {"in", "out"}, NEW said \in G!Answers
  PROVE  G!Judging(dir, said) \in G!Resolves /\ G!Judging(dir, said).pc # "read"
BY LayersType DEF G!Judging, G!Resolves, G!Rules

LEMMA SentType ==
  ASSUME NEW said \in G!Answers, NEW hit \in BOOLEAN
  PROVE  G!Sent(said, hit) \in G!Returns /\ G!Sent(said, hit).pc # "read"
BY DEF G!Sent, G!Returns

LEMMA Places == 
  ASSUME G!TypeOK, NEW r \in Requests
  PROVE  /\ req[r].pc \in {"resolve", "judge"} => req[r] \in G!Resolves
         /\ req[r].pc = "read" => req[r] \in G!Reads
         /\ req[r].pc = "sent" => req[r] \in G!Returns
BY DEF G!TypeOK, G!Resolves, G!Reads, G!Returns, G!Quiet

-----------------------------------------------------------------------------
(* Steps that change no row                                                *)

\* A request that turns to something else than a read leaves the others as
\* they were, and the rows too.
LEMMA RequestStep ==
  ASSUME PolicyInv, NEW r \in Requests, UNCHANGED <<rows, edit>>,
         req' \in [Requests -> G!Resolves \cup G!Reads \cup G!Returns \cup {G!Quiet}],
         \A q \in Requests : req'[q].pc = "read" => q # r /\ req'[q] = req[q],
         answers' \in G!Answers \cup {None},
         \/ UNCHANGED cache
         \/ /\ req[r].pc = "read"
            /\ cache' = [cache EXCEPT ![req[r].layer] =
                            [row |-> req[r].row, left |-> Ttl, why |-> req[r].why]]
  PROVE  PolicyInv'
<1>1. InFlight'
  BY DEF PolicyInv, InFlight
<1>2. CASE UNCHANGED cache
  BY <1>1, <1>2 DEF PolicyInv, G!TypeOK, G!Stale, G!Fresh
<1>3. CASE /\ req[r].pc = "read"
           /\ cache' = [cache EXCEPT ![req[r].layer] =
                           [row |-> req[r].row, left |-> Ttl, why |-> req[r].why]]
  <2>1. req[r] \in G!Reads
    BY <1>3, Places DEF PolicyInv
  <2>2. [row |-> req[r].row, left |-> Ttl, why |-> req[r].why] \in G!Entry
    BY <2>1, GuardrailsAssumption DEF G!Reads, G!Entry
  <2>3. req[r].layer \in G!Layers
    BY <2>1 DEF G!Reads
  <2>4. G!TypeOK'
    BY <1>3, <2>2, <2>3 DEF PolicyInv, G!TypeOK
  <2>5. req[r].why = "none" => req[r].row = rows[req[r].layer]
    BY <1>3 DEF PolicyInv, InFlight
  <2>6. G!Stale'
    <3> SUFFICES ASSUME NEW l \in G!Layers, G!Fresh(l)', cache'[l].why = "none",
                        ~(edit.pc = "invalidate" /\ edit.layer = l)
                 PROVE  cache'[l].row = rows[l]
      BY DEF G!Stale
    <3>1. CASE l = req[r].layer
      BY <1>3, <2>3, <2>5, <3>1 DEF PolicyInv, G!TypeOK
    <3>2. CASE l # req[r].layer
      BY <1>3, <2>3, <3>2 DEF PolicyInv, G!TypeOK, G!Stale, G!Fresh
    <3>. QED
      BY <3>1, <3>2
  <2>. QED
    BY <1>1, <2>4, <2>6 DEF PolicyInv
<1>. QED
  BY <1>2, <1>3

LEMMA ProceedStep ==
  ASSUME PolicyInv, NEW r \in Requests, G!Arrive(r) \/ G!Proceed(r)
  PROVE  PolicyInv'
<1>0. G!TypeOK
  BY DEF PolicyInv
<1>1. CASE G!Arrive(r)
  BY <1>0, <1>1, Judged, BecomeType, RequestStep DEF G!Arrive, G!Answers, PolicyInv, G!TypeOK
<1>2. CASE G!FetchCached(r)
  <2>1. cache[req[r].layer].row \in Rows \cup {None} /\ req[r] \in G!Resolves
    BY <1>0, <1>2, Places DEF G!FetchCached, G!TypeOK, G!Fresh, G!Entry, G!Resolves
  <2>. QED
    BY <1>0, <1>2, <2>1, AdvanceType, RequestStep DEF G!FetchCached, G!TypeOK
<1>3. CASE G!Read(r) \/ G!ReadFails(r)
  <2>1. PICK row, why : /\ G!Reading(r, row, why)
                        /\ \/ row = rows[req[r].layer] /\ why = "none"
                           \/ row = None /\ why = "failed"
    BY <1>3 DEF G!Read, G!ReadFails
  <2>2. req[r] \in G!Resolves
    BY <1>0, <2>1, Places DEF G!Reading
  <2>3. row \in Rows \cup {None} /\ why \in G!Excuses
    BY <1>0, <2>1, <2>2 DEF G!TypeOK, G!Resolves, G!Excuses
  <2> DEFINE to == [pc |-> "read", dir |-> req[r].dir, said |-> req[r].said,
                    layer |-> req[r].layer, rule |-> req[r].rule, row |-> row, why |-> why]
  <2>4. to \in G!Reads
    BY <2>2, <2>3 DEF G!Resolves, G!Reads
  <2>5. req' = [req EXCEPT ![r] = to] /\ UNCHANGED <<rows, cache, edit, answers>>
    BY <2>1 DEF G!Reading, G!Become
  <2>6. G!TypeOK'
    BY <1>0, <2>4, <2>5 DEF G!TypeOK
  <2>7. to.why = "none" => to.row = rows[to.layer]
    BY <2>1
  <2>8. InFlight'
    <3> HIDE DEF to
    <3>. QED
      BY <1>0, <2>5, <2>7 DEF PolicyInv, InFlight, G!TypeOK
  <2>9. G!Stale'
    BY <2>5 DEF PolicyInv, G!Stale, G!Fresh
  <2>. QED
    BY <2>6, <2>8, <2>9 DEF PolicyInv
<1>4. CASE G!Store(r)
  <2>1. req[r] \in G!Reads /\ req[r].row \in Rows \cup {None}
    BY <1>0, <1>4, Places DEF G!Store, G!Reads
  <2>. QED
    BY <1>0, <1>4, <2>1, AdvanceType, RequestStep DEF G!Store, G!TypeOK
<1>5. CASE G!RefusePrompt(r) \/ G!RefuseAnswer(r) \/ G!Leave(r)
  <2>1. G!Quiet.pc # "read"
    BY DEF G!Quiet
  <2>. QED
    BY <1>0, <1>5, <2>1, BecomeType, RequestStep DEF G!RefusePrompt, G!RefuseAnswer, G!Leave, G!TypeOK
<1>6. CASE G!CacheHit(r)
  <2>1. answers \in G!Answers
    BY <1>0, <1>6 DEF G!CacheHit, G!TypeOK
  <2>. QED
    BY <1>0, <1>6, <2>1, SentType, BecomeType, RequestStep DEF G!CacheHit
<1>7. ASSUME NEW said \in G!Answers, G!Answer(r, said)
      PROVE  PolicyInv'
  BY <1>0, <1>7, Judged, BecomeType, RequestStep DEF G!Answer, G!TypeOK
<1>8. CASE G!Return(r)
  <2>1. req[r].said \in G!Answers
    BY <1>0, <1>8, Places DEF G!Return, G!Resolves
  <2>. QED
    BY <1>0, <1>8, <2>1, SentType, BecomeType, RequestStep DEF G!Return
<1>. QED
  BY <1>1, <1>2, <1>3, <1>4, <1>5, <1>6, <1>7, <1>8 DEF G!Proceed

-----------------------------------------------------------------------------
(* The administrator                                                       *)

\* A row that changes leaves no read behind that nothing excuses.  What is
\* cached is excused as well, or the layer is about to be invalidated.
LEMMA PutStep ==
  ASSUME PolicyInv, NEW l \in G!Layers, NEW row \in Rows \cup {None}, NEW late \in BOOLEAN,
         G!Put(l, row, late), UNCHANGED answers, edit' \in G!Edits \cup {G!Quiet},
         edit.pc = "invalidate" => FALSE,
         late \/ (edit'.pc = "invalidate" /\ edit'.layer = l)
  PROVE  PolicyInv'
<1>0. G!TypeOK
  BY DEF PolicyInv
<1>1. rows' = [rows EXCEPT ![l] = row]
  BY DEF G!Put
<1>2. \A q \in Requests :
        \/ req'[q] = req[q] /\ ~(req[q].pc = "read" /\ req[q].layer = l)
        \/ /\ req[q] \in G!Reads /\ req'[q] = [req[q] EXCEPT !.why = "outrun"]
           /\ req[q].layer = l
  BY <1>0, Places DEF G!Put
<1>3. \A q \in Requests : req'[q] \in G!Resolves \cup G!Reads \cup G!Returns \cup {G!Quiet}
  <2> TAKE q \in Requests
  <2>1. CASE req'[q] = req[q]
    BY <1>0, <2>1 DEF G!TypeOK
  <2>2. CASE req[q] \in G!Reads /\ req'[q] = [req[q] EXCEPT !.why = "outrun"]
    BY <2>2 DEF G!Reads, G!Excuses
  <2>. QED
    BY <1>2, <2>1, <2>2
<1>4. req' \in [Requests -> G!Resolves \cup G!Reads \cup G!Returns \cup {G!Quiet}]
  BY <1>3 DEF G!Put
<1>5. InFlight'
  <2> SUFFICES ASSUME NEW q \in Requests, req'[q].pc = "read", req'[q].why = "none"
               PROVE  req'[q].row = rows'[req'[q].layer]
    BY DEF InFlight
  <2>1. CASE req'[q] = req[q] /\ ~(req[q].pc = "read" /\ req[q].layer = l)
    <3>1. req[q] \in G!Reads
      BY <1>0, <2>1, Places
    <3>. QED
      BY <1>0, <1>1, <2>1, <3>1 DEF PolicyInv, InFlight, G!TypeOK, G!Reads
  <2>2. CASE req[q] \in G!Reads /\ req'[q] = [req[q] EXCEPT !.why = "outrun"]
    BY <2>2 DEF G!Reads
  <2>. QED
    BY <1>2, <2>1, <2>2
<1>6. \A m \in G!Layers :
        \/ cache'[m] = cache[m] /\ ~(late /\ m = l /\ G!Fresh(l))
        \/ /\ late /\ m = l /\ cache[m] \in G!Entry
           /\ cache'[m] = [cache[m] EXCEPT !.why = "deleted"]
  BY <1>0 DEF G!Put, G!TypeOK, G!Fresh
<1>7. cache' \in [G!Layers -> G!Entry \cup {None}]
  <2>1. \A m \in G!Layers : cache'[m] \in G!Entry \cup {None}
    <3> TAKE m \in G!Layers
    <3>1. CASE cache'[m] = cache[m]
      BY <1>0, <3>1 DEF G!TypeOK
    <3>2. CASE cache[m] \in G!Entry /\ cache'[m] = [cache[m] EXCEPT !.why = "deleted"]
      BY <3>2 DEF G!Entry, G!Excuses
    <3>. QED
      BY <1>6, <3>1, <3>2
  <2>. QED
    BY <1>0, <2>1 DEF G!Put, G!TypeOK
<1>8. G!Stale'
  <2> SUFFICES ASSUME NEW m \in G!Layers, G!Fresh(m)', cache'[m].why = "none",
                      ~(edit'.pc = "invalidate" /\ edit'.layer = m)
               PROVE  cache'[m].row = rows'[m]
    BY DEF G!Stale
  <2>1. CASE cache'[m] = cache[m] /\ ~(late /\ m = l /\ G!Fresh(l))
    <3>1. G!Fresh(m)
      BY <2>1 DEF G!Fresh
    <3>2. m # l
      BY <2>1, <3>1
    <3>3. rows'[m] = rows[m]
      BY <1>0, <1>1, <3>2 DEF G!TypeOK
    <3>4. cache[m].row = rows[m]
      BY <2>1, <3>1 DEF PolicyInv, G!Stale
    <3>. QED
      BY <2>1, <3>3, <3>4
  <2>2. CASE cache[m] \in G!Entry /\ cache'[m] = [cache[m] EXCEPT !.why = "deleted"]
    BY <2>2 DEF G!Entry
  <2>. QED
    BY <1>6, <2>1, <2>2
<1>9. G!TypeOK'
  BY <1>0, <1>1, <1>4, <1>7 DEF G!TypeOK
<1>. QED
  BY <1>5, <1>8, <1>9 DEF PolicyInv

\* A cache that only lost or aged entries.
LEMMA LoseStep ==
  ASSUME PolicyInv, UNCHANGED <<rows, req, answers>>, edit' \in G!Edits \cup {G!Quiet},
         cache' \in [G!Layers -> G!Entry \cup {None}],
         \A l \in G!Layers : G!Fresh(l)' => /\ G!Fresh(l)
                                       /\ cache'[l].row = cache[l].row
                                       /\ cache'[l].why = cache[l].why
                                       /\ \/ ~(edit.pc = "invalidate" /\ edit.layer = l)
                                          \/ edit' = edit
  PROVE  PolicyInv'
<1>1. G!TypeOK'
  BY DEF PolicyInv, G!TypeOK
<1>2. InFlight'
  BY DEF PolicyInv, InFlight
<1>3. G!Stale'
  <2> SUFFICES ASSUME NEW l \in G!Layers, G!Fresh(l)', cache'[l].why = "none",
                      ~(edit'.pc = "invalidate" /\ edit'.layer = l)
               PROVE  cache'[l].row = rows'[l]
    BY DEF G!Stale
  <2>1. ~(edit.pc = "invalidate" /\ edit.layer = l)
    OBVIOUS
  <2>2. cache[l].row = rows[l]
    BY <2>1 DEF PolicyInv, G!Stale
  <2>. QED
    BY <2>2
<1>. QED
  BY <1>1, <1>2, <1>3 DEF PolicyInv

LEMMA EditKinds ==
  ASSUME G!TypeOK
  PROVE  /\ edit.pc = "have" => /\ edit \in [pc : {"have"}, layer : G!Layers, row : Rows]
                                /\ edit.layer \in G!Layers
         /\ edit.pc \in {"invalidate", "forget", "delete"} =>
              /\ edit \in [pc : {"invalidate", "forget", "delete"}, layer : G!Layers]
              /\ edit.layer \in G!Layers
BY DEF G!TypeOK, G!Edits, G!Quiet

LEMMA DropsType ==
  ASSUME G!TypeOK, NEW l \in G!Layers
  PROVE  /\ G!Drops(l) \in [G!Layers -> G!Entry \cup {None}]
         /\ \A m \in G!Layers : G!Drops(l)[m] # None => m # l /\ G!Drops(l)[m] = cache[m]
BY DEF G!Drops, G!TypeOK

LEMMA EditStep ==
  ASSUME PolicyInv, G!Edit
  PROVE  PolicyInv'
<1>0. G!TypeOK
  BY DEF PolicyInv
<1>1. ASSUME NEW l \in G!Layers, NEW row \in Rows, G!Create(l, row)
      PROVE  PolicyInv'
  <2>1. edit.pc # "invalidate"
    BY <1>1 DEF G!Create, G!Quiet
  <2>2. edit' \in G!Edits /\ edit'.pc = "invalidate" /\ edit'.layer = l
    BY <1>1 DEF G!Create, G!Edits
  <2>. QED
    BY <1>1, <2>1, <2>2, PutStep DEF G!Create
<1>2. ASSUME NEW l \in G!Layers, G!GetForUpdate(l) \/ G!GetForDelete(l)
      PROVE  PolicyInv'
  <2>1. edit.pc # "invalidate"
    BY <1>2 DEF G!GetForUpdate, G!GetForDelete, G!Quiet
  <2>2. rows[l] \in Rows
    BY <1>0, <1>2 DEF G!TypeOK, G!GetForUpdate, G!GetForDelete
  <2>3. edit' \in G!Edits
    BY <1>2, <2>2 DEF G!GetForUpdate, G!GetForDelete, G!Edits
  <2>. QED
    BY <1>0, <1>2, <2>1, <2>3, LoseStep DEF G!GetForUpdate, G!GetForDelete, G!TypeOK, G!Fresh
<1>3. ASSUME NEW field \in {"enabled", "rule"}, NEW row \in Rows, G!Update(field, row)
      PROVE  PolicyInv'
  <2>1. edit.pc = "have" /\ edit.layer \in G!Layers
    BY <1>0, <1>3, EditKinds DEF G!Update
  <2>2. edit' \in G!Edits /\ edit'.pc = "invalidate" /\ edit'.layer = edit.layer
    BY <1>3, <2>1 DEF G!Update, G!Edits
  <2> DEFINE new == [edit.row EXCEPT ![field] = row[field]]
  <2>3. new \in Rows /\ G!Put(edit.layer, new, FALSE) /\ UNCHANGED answers
    BY <1>3 DEF G!Update
  <2> HIDE DEF new
  <2>. QED
    BY <2>1, <2>2, <2>3, PutStep
<1>4. CASE G!Invalidate
  <2>1. edit.layer \in G!Layers /\ edit' \in G!Edits \cup {G!Quiet}
    BY <1>0, <1>4, EditKinds DEF G!Invalidate
  <2>. QED
    BY <1>0, <1>4, <2>1, DropsType, LoseStep DEF G!Invalidate, G!Fresh
<1>5. CASE G!InvalidateForDelete
  <2>1. edit.layer \in G!Layers /\ edit' \in G!Edits \cup {G!Quiet}
    BY <1>0, <1>5, EditKinds DEF G!InvalidateForDelete, G!Edits
  <2>. QED
    BY <1>0, <1>5, <2>1, DropsType, LoseStep DEF G!InvalidateForDelete, G!Fresh
<1>6. CASE G!Delete
  <2>1. edit.layer \in G!Layers /\ edit.pc # "invalidate"
    BY <1>0, <1>6, EditKinds DEF G!Delete
  <2>. QED
    BY <1>6, <2>1, PutStep DEF G!Delete
<1>. QED
  BY <1>1, <1>2, <1>3, <1>4, <1>5, <1>6 DEF G!Edit

LEMMA ClockStep ==
  ASSUME PolicyInv, G!Tick \/ G!Forget
  PROVE  PolicyInv'
<1>1. CASE G!Tick
  <2>1. \A l \in G!Layers : G!Fresh(l) =>
          \/ G!Aged(cache[l]) = None
          \/ /\ G!Aged(cache[l]) \in G!Entry
             /\ G!Aged(cache[l]).row = cache[l].row /\ G!Aged(cache[l]).why = cache[l].why
    BY GuardrailsAssumption DEF PolicyInv, G!TypeOK, G!Fresh, G!Aged, G!Entry
  <2>2. \A l \in G!Layers : cache'[l] = IF G!Fresh(l) THEN G!Aged(cache[l]) ELSE None
    BY <1>1 DEF G!Tick
  <2>3. cache' \in [G!Layers -> G!Entry \cup {None}]
    BY <1>1, <2>1 DEF G!Tick
  <2>4. \A l \in G!Layers : G!Fresh(l)' => /\ G!Fresh(l)
                                      /\ cache'[l].row = cache[l].row
                                      /\ cache'[l].why = cache[l].why
    BY <2>1, <2>2 DEF G!Fresh
  <2>. QED
    BY <1>1, <2>3, <2>4, LoseStep DEF G!Tick, PolicyInv, G!TypeOK
<1>2. CASE G!Forget
  BY <1>2 DEF G!Forget, PolicyInv, G!TypeOK, InFlight, G!Stale, G!Fresh
<1>. QED
  BY <1>1, <1>2

-----------------------------------------------------------------------------
LEMMA PolicyInductive == G!Spec => []PolicyInv
<1>1. G!Init => PolicyInv
  BY DEF G!Init, PolicyInv, G!TypeOK, InFlight, G!Stale, G!Fresh, G!Quiet
<1>2. PolicyInv /\ [G!Next]_(G!vars) => PolicyInv'
  <2> SUFFICES ASSUME PolicyInv, [G!Next]_(G!vars)
               PROVE  PolicyInv'
    OBVIOUS
  <2>1. CASE G!Next
    BY <2>1, ProceedStep, EditStep, ClockStep DEF G!Next
  <2>2. CASE UNCHANGED G!vars
    BY <2>2 DEF G!vars, PolicyInv, G!TypeOK, InFlight, G!Stale, G!Fresh
  <2>. QED
    BY <2>1, <2>2
<1>. QED
  BY <1>1, <1>2, PTL DEF G!Spec

\* No request walks past the most specific layer, whatever their number.
THEOREM PoliciesTyped == G!Spec => []G!TypeOK
<1>1. PolicyInv => G!TypeOK
  BY DEF PolicyInv
<1>. QED
  BY <1>1, PolicyInductive, PTL

\* A row that the resolver serves from its cache and that is not the stored
\* one is about to be invalidated, was cached by a request the edit outran,
\* stands for a read that failed, or lost to the order of a deletion
\* (resolver.go: fetch, store, Invalidate; gateway/guardrails.go).
THEOREM StaleIsExcused == G!Spec => []Stale
<1>1. PolicyInv => Stale
  BY DEF PolicyInv, Stale, Layers, Fresh, G!Stale, G!Layers, G!Fresh
<1>. QED
  BY <1>1, PolicyInductive, PTL
=============================================================================

----------------------------- MODULE StreamPump -----------------------------
(***************************************************************************)
(* One stream on its way to the client: the connector's goroutine that      *)
(* reads the provider's body (scanOpenAISSE in connectors/httpclient.go),   *)
(* the pump between the two channels (pumpStream in pipeline/pipeline.go)   *)
(* and the handler that writes to the client (gateway/handlers.go).         *)
(*                                                                          *)
(* Module Pipeline takes a stream as one step; here it is the whole story.  *)
(* A chunk is its kind: a text fragment, a text fragment that breaks the    *)
(* outbound policy, or the usage.  Left out: the rewriting of chunks in the *)
(* handler (module StreamRender), and that the row of a finished stream is  *)
(* written with the request's own context, so that it is lost when the      *)
(* client leaves at that very moment and the meter writes synchronously.    *)
(***************************************************************************)
EXTENDS Naturals, Sequences, FiniteSets, SequencesExt

CONSTANTS
  InCap, OutCap,   \* capacities of the two channels, 16 in the code
  Window,          \* text fragments per outbound scan, 256 characters in the code
  IncludeUsage,    \* did the client ask for the usage?
  MaxChunks        \* bound on the chunks of the provider

ASSUME StreamPumpAssumption ==
  {InCap, OutCap, Window} \subseteq Nat \ {0} /\ IncludeUsage \in BOOLEAN /\ MaxChunks \in Nat

VARIABLES
  sent,        \* history: chunks the provider has sent
  ending,      \* history: how the body came to an end of itself
  reader,      \* where the connector's goroutine is
  in,          \* the connector's channel
  inClosed,
  pump,        \* where the pump is
  hold,        \* the chunk it is passing on
  window,      \* text since the last scan
  sawUsage,
  out,         \* the pump's channel
  passed,      \* history: the provider's chunks that went into it
  outClosed,
  handler,     \* where the handler is
  gone,        \* is the request's context cancelled?
  stopped,     \* is the upstream call's context cancelled?
  outcomes     \* history: how the stream was settled, each time it was

connector == <<sent, ending, reader, in, inClosed>>
pumping   == <<pump, hold, window, sawUsage, out, passed, outClosed, outcomes>>
client    == <<handler, gone>>
vars      == <<connector, pumping, client, stopped>>

Chunks   == {"text", "banned", "usage"}
IsText(ch) == ch \in {"text", "banned"}
Outcomes == {"success", "cancelled", "failed", "stalled", "blocked"}

\* The upstream call's context is a child of the request's.
Stopped == stopped \/ gone

Init ==
  /\ sent = <<>> /\ ending = "none" /\ reader = "reading" /\ in = <<>> /\ inClosed = FALSE
  /\ pump = "receiving" /\ hold = "none" /\ window = <<>> /\ sawUsage = FALSE
  /\ out = <<>> /\ passed = <<>> /\ outClosed = FALSE /\ outcomes = <<>>
  /\ handler = "waiting" /\ gone = FALSE
  /\ stopped = FALSE

-----------------------------------------------------------------------------
\* The connector.  A provider may fall silent for good: nothing makes it send.

ReadChunk ==
  /\ reader = "reading" /\ ~Stopped /\ Len(sent) < MaxChunks
  /\ \E ch \in Chunks : sent' = Append(sent, ch)
  /\ reader' = "sending"
  /\ UNCHANGED <<ending, in, inClosed, pumping, client, stopped>>

ReadEnd ==
  /\ reader = "reading" /\ ~Stopped
  /\ ending' = "complete"
  /\ reader' = "done" /\ inClosed' = TRUE
  /\ UNCHANGED <<sent, in, pumping, client, stopped>>

ReadFails ==
  /\ reader = "reading" /\ ~Stopped
  /\ ending' = "broken"
  /\ reader' = "reporting"
  /\ UNCHANGED <<sent, in, inClosed, pumping, client, stopped>>

\* Cancellation breaks the body too: the scanner then reports an error, unless
\* it had a line in hand.
ReadCancelled ==
  /\ reader = "reading" /\ Stopped
  /\ \/ reader' = "reporting" /\ UNCHANGED inClosed
     \/ reader' = "done" /\ inClosed' = TRUE
  /\ UNCHANGED <<sent, ending, in, pumping, client, stopped>>

\* Faulty variant: the send cannot be cancelled.
SendChunkBlocking ==
  /\ reader = "sending" /\ Len(in) < InCap
  /\ in' = Append(in, Last(sent))
  /\ reader' = "reading"
  /\ UNCHANGED <<sent, ending, inClosed, pumping, client, stopped>>

SendChunk ==
  /\ reader = "sending"
  /\ \/ /\ Len(in) < InCap
        /\ in' = Append(in, Last(sent))
        /\ reader' = "reading"
        /\ UNCHANGED inClosed
     \/ /\ Stopped
        /\ reader' = "done" /\ inClosed' = TRUE
        /\ UNCHANGED in
  /\ UNCHANGED <<sent, ending, pumping, client, stopped>>

\* The error goes into the channel with no regard to cancellation.
SendError ==
  /\ reader = "reporting" /\ Len(in) < InCap
  /\ in' = Append(in, "error")
  /\ reader' = "done" /\ inClosed' = TRUE
  /\ UNCHANGED <<sent, ending, pumping, client, stopped>>

-----------------------------------------------------------------------------
\* The pump.

\* The deferred calls: cancel upstream, return the slot, close the channel.
Leave ==
  /\ pump' = "done" /\ hold' = "none" /\ window' = <<>>
  /\ stopped' = TRUE /\ outClosed' = TRUE

Settle(how) == outcomes' = Append(outcomes, how)

SettleCancelled ==
  /\ gone
  /\ Settle("cancelled") /\ Leave
  /\ UNCHANGED <<connector, client, sawUsage, out, passed>>

\* The client is gone: any wait of the pump ends, and one that has not been
\* settled yet is settled as a cancellation.
PumpCancelled == pump \in {"receiving", "sending", "blocking", "adding"} /\ SettleCancelled

\* Faulty variant: a stream whose failure was recorded is recorded again.
ErrorUnsentSettling == pump = "failing" /\ SettleCancelled

ErrorUnsent ==
  /\ pump = "failing" /\ gone
  /\ Leave
  /\ UNCHANGED <<connector, client, sawUsage, out, passed, outcomes>>

\* Faulty variant: cancellation is not looked for.
ReceiveErrorBlindly ==
  /\ pump = "receiving" /\ in # <<>> /\ Head(in) = "error"
  /\ Settle("failed") /\ pump' = "failing"
  /\ in' = Tail(in)
  /\ UNCHANGED <<sent, ending, reader, inClosed, client, hold, window, sawUsage, out, passed,
                 outClosed, stopped>>

\* The provider reports an error, for which it answers unless the client left.
ReceiveError ==
  /\ pump = "receiving" /\ in # <<>> /\ Head(in) = "error"
  /\ IF gone
       THEN Settle("cancelled") /\ Leave
       ELSE /\ Settle("failed") /\ pump' = "failing"
            /\ UNCHANGED <<hold, window, outClosed, stopped>>
  /\ in' = Tail(in)
  /\ UNCHANGED <<sent, ending, reader, inClosed, client, sawUsage, out, passed>>

\* Faulty variant: the window is scanned when it has been passed.
ScannedAbove(text) == Len(text) > Window

\* Text is gathered until there is a window of it, which is then scanned.
Scanned(text) == Len(text) >= Window
ReceiveChunk ==
  /\ pump = "receiving" /\ in # <<>> /\ Head(in) # "error"
  /\ LET ch == Head(in)
         text == IF IsText(ch) THEN Append(window, ch) ELSE window
     IN /\ hold' = ch
        /\ sawUsage' = (sawUsage \/ ch = "usage")
        /\ window' = IF IsText(ch) /\ Scanned(text) THEN <<>> ELSE text
        /\ pump' = IF IsText(ch) /\ Scanned(text) /\ "banned" \in ToSet(text)
                   THEN "blocking" ELSE "sending"
  /\ in' = Tail(in)
  /\ UNCHANGED <<sent, ending, reader, inClosed, out, passed, outClosed, outcomes, client, stopped>>

PassOn ==
  /\ pump = "sending" /\ Len(out) < OutCap
  /\ out' = Append(out, hold) /\ hold' = "none"
  /\ passed' = Append(passed, hold)
  /\ pump' = "receiving"
  /\ UNCHANGED <<connector, window, sawUsage, outClosed, outcomes, client, stopped>>

SendBlocked ==
  /\ pump = "blocking" /\ Len(out) < OutCap
  /\ out' = Append(out, "error")
  /\ Settle("blocked") /\ Leave
  /\ UNCHANGED <<connector, client, sawUsage, passed>>

SendFailure ==
  /\ pump = "failing" /\ Len(out) < OutCap
  /\ out' = Append(out, "error")
  /\ Leave
  /\ UNCHANGED <<connector, client, sawUsage, passed, outcomes>>

\* Faulty variant: the pump does not ask whether the client has left.
InputEndsBlindly ==
  /\ pump = "receiving" /\ in = <<>> /\ inClosed
  /\ Settle("success") /\ Leave
  /\ UNCHANGED <<connector, client, sawUsage, out, passed>>

\* The connector's channel is closed and empty: the end of the stream, or a
\* cancellation that made the connector stop.  An estimate stands in for a usage
\* the provider has not sent.
InputEnds ==
  /\ pump = "receiving" /\ in = <<>> /\ inClosed
  /\ IF gone THEN Settle("cancelled") /\ Leave
     ELSE IF ~sawUsage /\ IncludeUsage
     THEN /\ pump' = "adding"
          /\ UNCHANGED <<hold, window, outClosed, outcomes, stopped>>
     ELSE Settle("success") /\ Leave
  /\ UNCHANGED <<connector, client, sawUsage, out, passed>>

AddUsage ==
  /\ pump = "adding" /\ Len(out) < OutCap
  /\ out' = Append(out, "estimate")
  /\ Settle("success") /\ Leave
  /\ UNCHANGED <<connector, client, sawUsage, passed>>

\* Faulty variant: the timer is not armed again after a chunk.
StallAtFirst ==
  /\ pump = "receiving" /\ passed = <<>>
  /\ IF gone THEN Settle("cancelled") /\ Leave
     ELSE /\ Settle("stalled") /\ stopped' = TRUE
          /\ pump' = "failing" /\ hold' = "none"
          /\ UNCHANGED <<window, outClosed>>
  /\ UNCHANGED <<connector, client, sawUsage, out, passed>>

\* The stall timer, which each chunk resets, also runs while the pump waits for
\* room in its own channel.
Stall ==
  /\ pump \in {"receiving", "sending"}
  /\ IF gone THEN Settle("cancelled") /\ Leave
     ELSE /\ Settle("stalled") /\ stopped' = TRUE
          /\ pump' = "failing" /\ hold' = "none"
          /\ UNCHANGED <<window, outClosed>>
  /\ UNCHANGED <<connector, client, sawUsage, out, passed>>

-----------------------------------------------------------------------------
\* The handler.  It drops what it cannot write and goes on reading; an error is
\* the last thing it reads.  When it returns the server cancels the context.

TakeChunk ==
  /\ handler = "waiting" /\ out # <<>> /\ Head(out) # "error"
  /\ out' = Tail(out) /\ handler' = "writing"
  /\ UNCHANGED <<connector, pump, hold, window, sawUsage, passed, outClosed, outcomes, gone,
                 stopped>>

\* A write returns when the client reads, or when it has gone.
Written ==
  /\ handler = "writing"
  /\ handler' = "waiting"
  /\ UNCHANGED <<connector, pumping, gone, stopped>>

TakeEnd ==
  /\ handler = "waiting"
  /\ \/ out # <<>> /\ Head(out) = "error" /\ out' = Tail(out)
     \/ out = <<>> /\ outClosed /\ UNCHANGED out
  /\ handler' = "returned" /\ gone' = TRUE
  /\ UNCHANGED <<connector, pump, hold, window, sawUsage, passed, outClosed, outcomes, stopped>>

ClientLeaves ==
  /\ ~gone
  /\ gone' = TRUE
  /\ UNCHANGED <<connector, pumping, handler, stopped>>

ReaderStep  == ReadCancelled \/ SendChunk \/ SendError
PumpStep    == \/ PumpCancelled \/ ErrorUnsent \/ ReceiveError \/ ReceiveChunk \/ PassOn
               \/ SendBlocked \/ SendFailure \/ InputEnds \/ AddUsage
HandlerStep == TakeChunk \/ TakeEnd

Over == pump = "done" /\ handler = "returned"
Jammed == reader = "reporting" /\ pump = "done" /\ Len(in) = InCap

Next == \/ ReadChunk \/ ReadEnd \/ ReadFails \/ ReaderStep
        \/ PumpStep \/ Stall
        \/ HandlerStep \/ Written \/ ClientLeaves
        \/ Over /\ UNCHANGED vars

\* Go runs every goroutine that can go on, a timer that is armed expires, and a
\* client reads what it is sent or leaves.
Fairness == /\ WF_vars(ReaderStep) /\ WF_vars(PumpStep) /\ WF_vars(Stall)
            /\ WF_vars(HandlerStep) /\ WF_vars(Written)
Spec == Init /\ [][Next]_vars /\ Fairness

-----------------------------------------------------------------------------
TypeOK ==
  /\ sent \in Seq(Chunks) /\ Len(sent) <= MaxChunks
  /\ ending \in {"none", "complete", "broken"}
  /\ reader \in {"reading", "sending", "reporting", "done"}
  /\ in \in Seq(Chunks \cup {"error"}) /\ Len(in) <= InCap /\ inClosed \in BOOLEAN
  /\ pump \in {"receiving", "sending", "blocking", "adding", "failing", "done"}
  /\ hold \in Chunks \cup {"none"}
  /\ window \in Seq({"text", "banned"}) /\ Len(window) < Window
  /\ sawUsage \in BOOLEAN
  /\ out \in Seq(Chunks \cup {"error", "estimate"}) /\ Len(out) <= OutCap
  /\ outClosed \in BOOLEAN
  /\ handler \in {"waiting", "writing", "returned"}
  /\ passed \in Seq(Chunks) /\ gone \in BOOLEAN /\ stopped \in BOOLEAN
  /\ outcomes \in Seq(Outcomes)

\* A stream is recorded as a success only when the provider ended it and all of
\* it was passed on; a connector that stops because of a cancellation closes its
\* channel just like one at the end of the body.
SuccessIsWhole ==
  "success" \in ToSet(outcomes) =>
    ending = "complete" /\ passed = sent

\* A provider is put on cooldown for a failed stream only if its body broke of
\* itself: the error a cancelled body ends with is not held against it.
BlameIsFair == "failed" \in ToSet(outcomes) => ending = "broken"

\* However it ends, a stream is settled exactly once, before its slot returns.
SettledOnce == Len(outcomes) <= 1 /\ (pump = "done" => outcomes # <<>>)

\* The client never gets a whole window of text after a fragment that breaks the
\* policy: the scan lags behind what is forwarded, by less than a window.
BannedIsCaught ==
  \A i \in DOMAIN passed : passed[i] = "banned" =>
    Cardinality({j \in DOMAIN passed : j > i /\ IsText(passed[j])}) < Window - 1

\* Every stream ends for the pump, which holds the slot, and for the handler,
\* even when the provider falls silent.
StreamEnds == <>Over

\* The connector ends too, and closes the body, unless it is left with an error
\* to report and a channel that nobody empties any more.
ReaderEnds == <>(reader = "done" \/ Jammed)
=============================================================================

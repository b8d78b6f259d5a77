---------------------------- MODULE StreamRender ----------------------------
(***************************************************************************)
(* What becomes of a provider's stream between the pump and the client:     *)
(* the stream parsers of backend/internal/transform and of the Kiro         *)
(* connector give canonical chunks; the handler (streamChat in              *)
(* gateway/handlers.go) sends each through the ToolArgSanitizer, which      *)
(* holds tool calls back until they are complete, then through the          *)
(* ThinkTagState (module ThinkTags), then to the renderer of the client's   *)
(* dialect (module StreamCodecs).                                           *)
(*                                                                          *)
(* The handler is one goroutine, and an action is all it does with a chunk. *)
(* Arguments are sequences of fragments, none for "" and for the "{}" that  *)
(* some parsers open a call with; a later fragment that is just "{}", which *)
(* the sanitizer drops, is left out, and so are the cleaning of complete    *)
(* arguments, names, models and counts.  Streams that are copied as they    *)
(* are (DirectBody) do not come here.                                       *)
(***************************************************************************)
EXTENDS Integers, FiniteSets, ThinkTags, StreamCodecs

CONSTANTS
  Providers,   \* dialects a provider may speak
  Clients,     \* dialects a client may speak
  Deltas,      \* the text one chunk may carry
  MaxChunks,   \* bound on the chunks of a stream
  MaxCalls     \* bound on its tool calls

ASSUME StreamRenderAssumption ==
  /\ Providers \subseteq Dialects \cup {"kiro"} /\ Clients \subseteq Dialects
  /\ \A delta \in Deltas : delta \in Seq(Symbols) /\ delta # <<>>
  /\ {MaxChunks, MaxCalls} \subseteq Nat

VARIABLES
  from, to,   \* the dialects of the two sides
  sent,       \* history: the chunks the provider's parser has made
  calls,      \* history: the provider's tool calls, [ix, id, args]
  buffers,    \* the sanitizer's buffers, [ix, id, args]
  tags,       \* the think-tag filter
  client,     \* the renderer's state, and all it has written
  phase       \* "streaming", "over", or "failed"

vars == <<from, to, sent, calls, buffers, tags, client, phase>>

Init ==
  /\ from \in Providers /\ to \in Clients
  /\ sent = <<>> /\ calls = <<>>
  /\ buffers = {} /\ tags = NoThought /\ client = Fresh
  /\ phase = "streaming"

Kinds == {sent[i].kind : i \in DOMAIN sent}
Finished == "finish" \in Kinds

-----------------------------------------------------------------------------
\* ToolArgSanitizer.  Process returns what the sanitizer holds, the calls that
\* come out, in any order, and the chunk itself when it is passed on after them.

WithIndex(bufs, ix) == {buf \in bufs : buf.ix = ix}
Whole(buf) == Tool(buf.ix, buf.id, buf.args)
Flush(bufs) == {Whole(buf) : buf \in bufs}

\* An id opens a call, unless it is that of the call at its index.
OpensCall(bufs, ch) == ch.id # 0 /\ \A buf \in WithIndex(bufs, ch.ix) : buf.id # ch.id

\* The call that was at the index comes out for a new one.
ProcessTool(bufs, ch) ==
  LET new == OpensCall(bufs, ch)
      at == WithIndex(bufs, ch.ix)
      kept == IF new THEN (bufs \ at) \cup {[ix |-> ch.ix, id |-> ch.id, args |-> <<>>]} ELSE bufs
  IN [held |-> {IF buf.ix = ch.ix THEN [buf EXCEPT !.args = @ \o ch.args] ELSE buf : buf \in kept},
      out  |-> IF new THEN Flush(at) ELSE {},
      pass |-> IF WithIndex(kept, ch.ix) = {} THEN <<ch>> ELSE <<>>]

\* Faulty variant: a finish passes by the calls that are held.
ProcessByKind(bufs, ch) ==
  IF ch.kind = "tool" THEN ProcessTool(bufs, ch)
  ELSE [held |-> bufs, out |-> {}, pass |-> <<ch>>]

\* A finish brings out all calls first.
Process(bufs, ch) ==
  CASE ch.kind = "tool"   -> ProcessTool(bufs, ch)
    [] ch.kind = "finish" -> [held |-> {}, out |-> Flush(bufs), pass |-> <<ch>>]
    [] OTHER              -> [held |-> bufs, out |-> {}, pass |-> <<ch>>]

-----------------------------------------------------------------------------
\* The handler's renderChunk: text passes the filter, anything else does not.

RenderText(s, text) ==
  IF text = <<>> THEN s ELSE RenderStreamChunk(to, s, Text(text))

RenderChunk(s, ch) ==
  IF ch.kind # "text" THEN [s EXCEPT !.client = RenderStreamChunk(to, @, ch)]
  ELSE LET fed == ProcessFeed(s.tags, ch.delta)
       IN [tags |-> [thinking |-> fed.thinking, buf |-> fed.buf],
           client |-> RenderText(s.client, fed.text)]

Render(chunks) ==
  LET after[n \in 0..Len(chunks)] ==
        IF n = 0 THEN [tags |-> tags, client |-> client] ELSE RenderChunk(after[n - 1], chunks[n])
  IN after[Len(chunks)]

Receive(ch) ==
  LET processed == Process(buffers, ch)
  IN /\ sent' = Append(sent, ch)
     /\ buffers' = processed.held
     /\ \E out \in SetToSeqs(processed.out) :   \* a map is flushed in any order
          LET rendered == Render(out \o processed.pass)
          IN tags' = rendered.tags /\ client' = rendered.client
     /\ UNCHANGED <<from, to, phase>>

-----------------------------------------------------------------------------
\* What providers send, as their parsers make chunks of it.

CanSend == phase = "streaming" /\ Len(sent) < MaxChunks

ParseText ==
  /\ CanSend /\ ~Finished
  /\ \E delta \in Deltas : Receive(Text(delta))
  /\ UNCHANGED calls

\* Gemini's parser has no thinking.
ParseThinking ==
  /\ CanSend /\ ~Finished /\ from # "gemini" /\ "thinking" \notin Kinds
  /\ Receive(Thinking)
  /\ UNCHANGED calls

\* A new tool call, the n-th, as each parser makes it.  OpenAI numbers its calls,
\* Anthropic its blocks, Gemini the parts of a fragment, Ollama as it likes; the
\* parsers of Responses and Kiro leave the index at 0.  Gemini's id is made of the
\* function's name, Ollama's, if it names none, of the place in the line.  Gemini
\* and Ollama have only whole calls, OpenAI providers may send the first fragment
\* of the arguments, the others open the call without any.
Fragment(n)      == <<<<n, Len(sent)>>>>
NewCall(ix, n)   == [ix |-> ix, id |-> n, args |-> <<>>]
OpenAICall(n)    == {[NewCall(n - 1, n) EXCEPT !.args = args] : args \in {Fragment(n), <<>>}}
AnthropicCall(n) == {NewCall(IF "text" \in Kinds THEN n ELSE n - 1, n)}
ResponsesCall(n) == {NewCall(0, n)}
KiroCall(n)      == {NewCall(0, n)}
OllamaCall(n)    == [ix : {0, n - 1}, id : {1, n}, args : {Fragment(n)}]
GeminiCall(n)    ==
  [ix : {0} \cup (IF sent # <<>> /\ Last(sent).kind = "tool" THEN {Last(sent).ix + 1} ELSE {}),
   id : {1, n}, args : {Fragment(n)}]

CallOf(n) == CASE from = "openai"    -> OpenAICall(n)
               [] from = "anthropic" -> AnthropicCall(n)
               [] from = "responses" -> ResponsesCall(n)
               [] from = "kiro"      -> KiroCall(n)
               [] from = "ollama"    -> OllamaCall(n)
               [] from = "gemini"    -> GeminiCall(n)

ParseCall ==
  /\ CanSend /\ ~Finished /\ Len(calls) < MaxCalls
  /\ \E call \in CallOf(Len(calls) + 1) :
       /\ calls' = Append(calls, call)
       /\ Receive(Tool(call.ix, call.id, call.args))

\* More arguments: OpenAI's name the call by its index, those of the others
\* belong to the last call, and Kiro repeats its id.
More(n, id) ==
  /\ CanSend /\ ~Finished
  /\ calls' = [calls EXCEPT ![n].args = @ \o Fragment(n)]
  /\ Receive(Tool(calls[n].ix, id, Fragment(n)))

OpenAIArgs == from = "openai" /\ \E n \in DOMAIN calls : More(n, 0)
ItemArgs   == from \in {"anthropic", "responses"} /\ calls # <<>> /\ More(Len(calls), 0)
KiroArgs   == from = "kiro" /\ calls # <<>> /\ More(Len(calls), Last(calls).id)

ParseFinish ==
  /\ CanSend /\ ~Finished
  /\ Receive(Finish)
  /\ UNCHANGED calls

\* Anthropic reports its usage first and again at the end, Gemini with any
\* fragment, Kiro before the stop or after it, the others last.
ParseUsage ==
  /\ CanSend /\ (Finished => Last(sent).kind = "finish")
  /\ from = "anthropic" => sent = <<>> \/ Finished
  /\ from \in {"openai", "responses", "ollama"} => Finished
  /\ Receive(Usage)
  /\ UNCHANGED calls

\* The channel is closed: what is still held comes out, and the terminal events.
End ==
  /\ phase = "streaming"
  /\ \E out \in SetToSeqs(Flush(buffers)) :
       LET rendered == Render(out)
           flushed == FlushTags(rendered.tags)
       IN /\ tags' = [thinking |-> flushed.thinking, buf |-> flushed.buf]
          /\ client' = RenderStreamDone(to, RenderText(rendered.client, flushed.text))
  /\ buffers' = {}
  /\ phase' = "over"
  /\ UNCHANGED <<from, to, sent, calls>>

\* An error is the last event; nothing that is held comes out any more.
Fail ==
  /\ phase = "streaming"
  /\ client' = Emit(client, <<Event("error")>>)
  /\ phase' = "failed"
  /\ UNCHANGED <<from, to, sent, calls, buffers, tags>>

Next == \/ ParseText \/ ParseThinking \/ ParseFinish \/ ParseUsage
        \/ ParseCall \/ OpenAIArgs \/ ItemArgs \/ KiroArgs
        \/ End \/ Fail

Spec == Init /\ [][Next]_vars

-----------------------------------------------------------------------------
\* Receivers put a call together from parts, [key, id, data]: those of one key make
\* one call, by the id of the first.

NoPart == [key |-> -1, id |-> 0, data |-> <<>>]
Of(parts, key) == {i \in DOMAIN parts : parts[i].key = key}
Keys(parts) == {parts[i].key : i \in DOMAIN parts} \ {NoPart.key}
Joined(parts, key) ==
  [id   |-> parts[First(Of(parts, key))].id,
   args |-> FlattenSeq([i \in DOMAIN parts |-> IF parts[i].key = key THEN parts[i].data ELSE <<>>])]
Assembled(parts) == {Joined(parts, key) : key \in Keys(parts)}

\* Faulty variant: a stream is folded by the index of a call.
DrainPartByIndex(ch) ==
  IF ch.kind = "tool" THEN [key |-> ch.ix, id |-> ch.id, data |-> ch.args] ELSE NoPart

\* Connectors that only stream fold a stream into one answer, by the id of a call.
DrainPart(ch) ==
  IF ch.kind = "tool" THEN [key |-> ch.id, id |-> ch.id, data |-> ch.args] ELSE NoPart

Drained == Assembled([i \in DOMAIN sent |-> DrainPart(sent[i])])

-----------------------------------------------------------------------------
\* What a client makes of the events: it knows a call by its index, or, in the
\* Responses dialect, by its item.

Events == client.out
Key(e) == IF to = "responses" THEN e.id ELSE e.ix
ToldPart(e) ==
  IF e.ev \in {"call", "args"} THEN [key |-> Key(e), id |-> e.id, data |-> e.data] ELSE NoPart
ToldCalls == Assembled([i \in DOMAIN Events |-> ToldPart(Events[i])])

ToldText == FlattenSeq([i \in DOMAIN Events |-> IF Events[i].ev = "text" THEN Events[i].data ELSE <<>>])
SentText == FlattenSeq([i \in DOMAIN sent |-> IF sent[i].kind = "text" THEN sent[i].delta ELSE <<>>])

DistinctBy(Field(_)) == \A i, j \in DOMAIN calls : i # j => Field(calls[i]) # Field(calls[j])

TypeOK ==
  /\ from \in Providers /\ to \in Clients /\ phase \in {"streaming", "over", "failed"}
  /\ Len(sent) <= MaxChunks /\ Len(calls) <= MaxCalls
  /\ \A b, c \in buffers : b.ix = c.ix => b = c
  /\ \A b \in buffers : \E j \in DOMAIN calls : b.id = calls[j].id
  /\ tags.thinking \in BOOLEAN /\ tags.buf \in {<<>>, <<"lt">>}
  /\ DOMAIN client = DOMAIN Fresh

\* By the time the finish is passed on, and at the end of a stream without one,
\* the client has been told of each tool call once, with all of its arguments in
\* order, however they were cut and whatever came between them: for providers
\* that give their calls ids and, if the client goes by it, indexes of their own.
CallsWhole ==
  /\ Finished \/ phase = "over"
  /\ DistinctBy(LAMBDA c : c.id)
  /\ to = "openai" \/ to = "responses" => DistinctBy(LAMBDA c : c.ix)
  => ToldCalls = {[id |-> c.id, args |-> c.args] : c \in ToSet(calls)}

\* The client is shown the provider's text outside thoughts, in order, whole when
\* the stream is over, and never a piece of a tag or of a thought.
TextWhole ==
  /\ IsPrefix(ToldText, Visible[SentText])
  /\ phase = "over" => ToldText = Visible[SentText]

\* The items of the Anthropic and the Responses dialect, by their openings.
Opens(e)      == e.ev \in {"text_start", "call"}
Piece(e, o)   == \/ e.ev = "text" /\ o.ev = "text_start"
                 \/ e.ev = "args" /\ o.ev = "call" /\ Key(e) = Key(o)
Closes(e, o)  == \/ e.ev = "block_stop" /\ (to = "anthropic" => e.ix = o.ix)
                                        /\ (to = "responses" => o.ev = "text_start")
                 \/ e.ev = "call_stop" /\ o.ev = "call" /\ e.id = o.id
OpenAt(j, i)  == j < i /\ Opens(Events[j]) /\ \A k \in j + 1..i - 1 : ~Closes(Events[k], Events[j])
InItem(i)     == \E j \in DOMAIN Events : OpenAt(j, i) /\ Piece(Events[i], Events[j])
Where(ev)       == {i \in DOMAIN Events : Events[i].ev = ev}

\* The streams the renderers are fit for: no text that ends inside a tag at the
\* finish, the usage right after it for Responses, and for Anthropic, whose text and
\* first call share an index, not both of these.
Plain ==
  /\ Finished /\ SentText # <<>> => Last(SentText) # "lt"
  /\ to = "anthropic" => ~({"text", "tool"} \subseteq Kinds)
  /\ to = "responses" =>
       \A i \in DOMAIN sent : sent[i].kind = "usage" => i > 1 /\ sent[i - 1].kind = "finish"

\* What a client's parser goes by: text and arguments come inside an item that has
\* been opened and not yet closed, all items are closed by the finish, the opening
\* of the message comes first and once, and its end once and last.
WellFormed ==
  phase = "over" /\ Plain =>
    /\ to \in {"anthropic", "responses"} =>
         /\ \A i \in Where("text") \cup Where("args") : InItem(i)
         /\ \A i \in Where(IF to = "anthropic" THEN "finish" ELSE "completed") :
              Finished => \A j \in 1..i : ~OpenAt(j, i)
    /\ \A opening \in {"role", "message_start", "created"}, i \in DOMAIN Events :
         i \in Where(opening) => \A j \in 1..i - 1 : Events[j].ev = "usage"
    /\ \A last \in {"done", "completed"} : Where(last) \subseteq {Len(Events)}
    /\ to = "openai" /\ ToldText # <<>> => Where("role") # {}

\* The answer folded from Kiro's stream has each call once and whole, as the stream
\* does, by the id that Kiro repeats.
FoldedWhole ==
  from = "kiro" => Drained = {[id |-> c.id, args |-> c.args] : c \in ToSet(calls)}
=============================================================================

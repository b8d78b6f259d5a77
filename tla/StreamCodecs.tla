---------------------------- MODULE StreamCodecs ----------------------------
(***************************************************************************)
(* The stream renderers of backend/internal/transform: RenderStreamChunk    *)
(* and RenderStreamDone of the five dialects a client may speak.            *)
(*                                                                          *)
(* A renderer takes a state of rendering (StreamState and what the codecs   *)
(* keep in its Custom map) and a chunk, and returns the next state with the *)
(* events it adds.  An event is its name, the index it carries, the id of   *)
(* the call it is about (0: none), and the text or arguments in it.         *)
(***************************************************************************)
EXTENDS Naturals, Sequences, SequencesExt

Dialects == {"openai", "anthropic", "responses", "gemini", "ollama"}

Text(delta) == [kind |-> "text", delta |-> delta]
Thinking    == [kind |-> "thinking"]
Tool(ix, id, args) == [kind |-> "tool", ix |-> ix, id |-> id, args |-> args]
Finish      == [kind |-> "finish"]
Usage       == [kind |-> "usage"]

Event(name) == [ev |-> name, ix |-> 0, id |-> 0, data |-> <<>>]
At0(name, data) == [Event(name) EXCEPT !.data = data]
AtIx(name, ix) == [Event(name) EXCEPT !.ix = ix]

\* The zero StreamState the handler starts from.
Fresh == [
  role |-> FALSE,        \* SentRole
  block |-> FALSE,       \* OpenedBlock
  toolIx |-> 0,          \* ToolIndex
  toolOpen |-> FALSE,    \* Custom["tool_open"]
  toolId |-> 0,          \* Custom["tool_id"]
  started |-> FALSE, msgAdded |-> FALSE, reasoning |-> FALSE, completed |-> FALSE,
  callId |-> <<>>,       \* toolCallID, and with it toolAdded: the ids by index
  out |-> <<>>]          \* events, in the order in which they are written

Emit(s, events) == [s EXCEPT !.out = @ \o events]

-----------------------------------------------------------------------------
\* OpenAI: the first event that carries anything also carries the role.

Role(s) == IF s.role THEN <<>> ELSE <<Event("role")>>
OpenAI(s, ch) ==
  LET Say(event) == Emit([s EXCEPT !.role = TRUE], Role(s) \o <<event>>)
  IN CASE ch.kind = "text"     -> Say(At0("text", ch.delta))
       [] ch.kind = "thinking" -> Say(Event("thinking"))
       [] ch.kind = "tool"     -> Say([ev |-> "call", ix |-> ch.ix, id |-> ch.id, data |-> ch.args])
       [] OTHER                -> Emit(s, <<Event(ch.kind)>>)

-----------------------------------------------------------------------------
\* Anthropic: blocks are opened when they are first needed.  Text always goes to
\* block 0, and so does the first tool call.

Open(s) == IF s.role THEN <<>> ELSE <<Event("message_start")>>
StopTool(s) == IF s.toolOpen THEN <<AtIx("block_stop", s.toolIx)>> ELSE <<>>
NextTool(s) == IF s.toolOpen THEN s.toolIx + 1 ELSE s.toolIx

AnthropicText(s, ch) ==
  Emit([s EXCEPT !.role = TRUE, !.block = TRUE, !.toolOpen = FALSE, !.toolIx = NextTool(s)],
       Open(s) \o StopTool(s)
       \o (IF s.block THEN <<>> ELSE <<Event("text_start")>>)
       \o <<At0("text", ch.delta)>>)

\* A call whose id is not that of the open block opens a block of its own.
AnthropicTool(s, ch) ==
  LET opens == ch.id # 0 /\ ch.id # s.toolId
      ix == IF opens THEN NextTool(s) ELSE s.toolIx
  IN Emit([s EXCEPT !.role = TRUE, !.toolIx = ix, !.toolOpen = @ \/ opens,
                    !.toolId = IF opens THEN ch.id ELSE @],
          Open(s)
          \o (IF opens THEN StopTool(s) \o <<[AtIx("call", ix) EXCEPT !.id = ch.id]>> ELSE <<>>)
          \o (IF (s.toolOpen \/ opens) /\ ch.args # <<>>
                THEN <<[AtIx("args", ix) EXCEPT !.data = ch.args]>> ELSE <<>>))

\* Faulty variant: a tool block that is still open is not stopped.
AnthropicFinishText(s) ==
  Emit([s EXCEPT !.toolOpen = FALSE],
       (IF s.block THEN <<AtIx("block_stop", 0)>> ELSE <<>>) \o <<Event("finish")>>)

AnthropicFinish(s) ==
  Emit([s EXCEPT !.toolOpen = FALSE],
       StopTool(s) \o (IF s.block THEN <<AtIx("block_stop", 0)>> ELSE <<>>)
       \o <<Event("finish")>>)

Anthropic(s, ch) ==
  CASE ch.kind = "text"     -> AnthropicText(s, ch)
    [] ch.kind = "thinking" -> Emit([s EXCEPT !.role = TRUE], Open(s) \o <<Event("thinking")>>)
    [] ch.kind = "tool"     -> AnthropicTool(s, ch)
    [] ch.kind = "finish"   -> AnthropicFinish(s)
    [] OTHER                -> s

-----------------------------------------------------------------------------
\* Responses: items are added when they are first needed and done at the finish.
\* A call is known by its index; the usage completes the response.

Start(s) == IF s.started THEN <<>> ELSE <<Event("created")>>

ResponsesText(s, ch) ==
  Emit([s EXCEPT !.started = TRUE, !.msgAdded = TRUE],
       Start(s) \o (IF s.msgAdded THEN <<>> ELSE <<Event("text_start")>>)
       \o <<At0("text", ch.delta)>>)

ResponsesThinking(s) ==
  Emit([s EXCEPT !.started = TRUE, !.reasoning = TRUE],
       Start(s) \o (IF s.reasoning THEN <<>> ELSE <<Event("thinking_start")>>)
       \o <<Event("thinking")>>)

Added(s, ix) == \E i \in DOMAIN s.callId : s.callId[i].ix = ix
IdAt(s, ix) == IF Added(s, ix)
               THEN s.callId[CHOOSE i \in DOMAIN s.callId : s.callId[i].ix = ix].id ELSE 0

ResponsesTool(s, ch) ==
  LET adds == ch.id # 0 /\ ~Added(s, ch.ix)
      id == IF adds THEN ch.id ELSE IdAt(s, ch.ix)
  IN Emit([s EXCEPT !.started = TRUE,
                    !.callId = IF adds THEN Append(@, [ix |-> ch.ix, id |-> id]) ELSE @],
          Start(s)
          \o (IF adds THEN <<[AtIx("call", ch.ix) EXCEPT !.id = id]>> ELSE <<>>)
          \o (IF ch.args # <<>>
                THEN <<[ev |-> "args", ix |-> ch.ix, id |-> id, data |-> ch.args]>> ELSE <<>>))

\* The calls are done in the order of a map, which properties do not tell apart.
ResponsesFinish(s) ==
  Emit(s, (IF s.msgAdded THEN <<AtIx("block_stop", 0)>> ELSE <<>>)
          \o [i \in DOMAIN s.callId |->
                [AtIx("call_stop", s.callId[i].ix) EXCEPT !.id = s.callId[i].id]])

Complete(s) ==
  IF s.completed THEN s
  ELSE Emit([s EXCEPT !.completed = TRUE], <<Event("completed")>>)

Responses(s, ch) ==
  CASE ch.kind = "text"     -> ResponsesText(s, ch)
    [] ch.kind = "thinking" -> ResponsesThinking(s)
    [] ch.kind = "tool"     -> ResponsesTool(s, ch)
    [] ch.kind = "finish"   -> ResponsesFinish(s)
    [] ch.kind = "usage"    -> Complete(Emit([s EXCEPT !.started = TRUE], Start(s)))

-----------------------------------------------------------------------------
\* Gemini and Ollama keep no state: each chunk is a line of its own.

Gemini(s, ch) ==
  CASE ch.kind = "text"     -> Emit(s, <<At0("text", ch.delta)>>)
    [] ch.kind = "tool"     -> Emit(s, <<[ev |-> "call", ix |-> Len(s.out), id |-> ch.id,
                                          data |-> ch.args]>>)
    [] ch.kind = "thinking" -> s
    [] OTHER                -> Emit(s, <<Event(ch.kind)>>)

Ollama(s, ch) ==
  IF ch.kind \in {"finish", "usage"} THEN s
  ELSE IF ch.kind = "thinking" THEN Emit(s, <<Event("thinking")>>)
  ELSE Gemini(s, ch)

RenderStreamChunk(to, s, ch) ==
  CASE to = "openai"    -> OpenAI(s, ch)
    [] to = "anthropic" -> Anthropic(s, ch)
    [] to = "responses" -> Responses(s, ch)
    [] to = "gemini"    -> Gemini(s, ch)
    [] to = "ollama"    -> Ollama(s, ch)

RenderStreamDone(to, s) ==
  CASE to \in {"openai", "anthropic", "ollama"} -> Emit(s, <<Event("done")>>)
    [] to = "responses" -> IF s.started THEN Complete(s) ELSE s
    [] to = "gemini"    -> s
=============================================================================

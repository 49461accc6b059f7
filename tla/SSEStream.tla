----------------------------- MODULE SSEStream -----------------------------
(***************************************************************************)
(* One streamed answer: SSEBuilder (providers/common/sse_builder.py)       *)
(* driven by _stream_response_impl of openai_compat.py or of               *)
(* antigravity/client.py.  The provider may send thinking, text and tool   *)
(* calls in any order and break off anywhere.                              *)
(*                                                                         *)
(* A step is the code between two yields, since the client may be slow.    *)
(* What the parsers make of text (StreamParsers) arrives here as parts.    *)
(***************************************************************************)
EXTENDS Integers, SequencesExt

CONSTANTS
    Providers,    \* which of the two loops are in use
    FallbackKey,  \* an Anthropic API key is configured
    ToolIndices,  \* indices that providers give to tool calls
    Letters,      \* what tool names are made of
    Task,         \* the name of the tool whose arguments are buffered
    Calls,        \* tool call deltas that providers send
    MaxParts      \* bound: parts of one stream

ASSUME ProvidersAssumption == Providers \subseteq {"openai_compat", "antigravity"}
ASSUME IndicesAssumption == ToolIndices \subseteq Nat
ASSUME TaskAssumption == Task \in Seq(Letters)
ASSUME BoundAssumption == MaxParts \in Nat

VARIABLES
    provider,       \* the loop that serves this answer
    pc,             \* where _stream_response_impl is
    part,           \* what it handles now
    step,           \* how far it has come with it
    call,           \* the tool call delta that part is, if it is one
    inline,         \* block_idx of a block that is written in one go
    received,       \* parts received
    errorOccurred,  \* error_occurred
    toClose,        \* tools that close_all_blocks has still to stop
    relayed,        \* lines of the fallback that were passed on
    nextIndex,      \* the fields of ContentBlockManager
    thinkingIndex,
    textIndex,
    thinkingStarted,
    textStarted,
    tools,          \* tool_states
    \* What the client has received.
    event, blocks, closed

control == <<provider, pc, part, step, call, inline, received, errorOccurred, toClose, relayed>>
builder == <<nextIndex, thinkingIndex, textIndex, thinkingStarted, textStarted, tools>>
client == <<event, blocks, closed>>
vars == <<control, builder, client>>

Protocol == INSTANCE BlockProtocol

\* A call that names no tool has NoName; others name one in pieces, of which
\* some are empty.  args says what the arguments make of those before them:
\* no JSON yet, an object or some other value.
NoName == <<"no name">>
DefaultName == <<"tool_call">>
ToolCall == [index : ToolIndices \cup {-1}, id : BOOLEAN, name : Seq(Letters) \cup {NoName},
             args : {"none", "partial", "object", "other"}]

ASSUME CallsAssumption == Calls \subseteq ToolCall

\* tool_states of an index that is not in it.
NoTool == [known |-> FALSE, name |-> <<>>, started |-> FALSE, index |-> -1,
           buffered |-> FALSE, emitted |-> FALSE]
Tool == [known : BOOLEAN, name : Seq(Letters \cup {"tool_call"}), started : BOOLEAN,
         index : Int, buffered : BOOLEAN, emitted : BOOLEAN]

Parts == {"none", "thinking", "text", "tool_use", "call", "error"}

TypeOK ==
    /\ provider \in Providers
    /\ pc \in {"start", "stream", "relay", "remaining", "leftover", "ensure", "buffers",
               "close", "delta", "done"}
    /\ part \in Parts
    /\ step \in {"open", "named", "fill", "stop"}
    /\ call \in ToolCall
    /\ inline \in Int
    /\ received \in 0..MaxParts
    /\ errorOccurred \in BOOLEAN
    /\ toClose \subseteq ToolIndices
    /\ relayed \in Nat
    /\ nextIndex \in Nat
    /\ thinkingIndex \in Int
    /\ textIndex \in Int
    /\ thinkingStarted \in BOOLEAN
    /\ textStarted \in BOOLEAN
    /\ tools \in [ToolIndices -> Tool]
    /\ blocks \in Seq(Protocol!BlockKinds)
    /\ closed \subseteq Nat

NoCall == [index |-> -1, id |-> FALSE, name |-> NoName, args |-> "none"]

Init ==
    /\ provider \in Providers
    /\ pc = "start"
    /\ part = "none" /\ step = "open" /\ call = NoCall
    /\ inline = -1
    /\ received = 0
    /\ errorOccurred = FALSE
    /\ toClose = {}
    /\ relayed = 0
    /\ nextIndex = 0
    /\ thinkingIndex = -1 /\ textIndex = -1
    /\ thinkingStarted = FALSE /\ textStarted = FALSE
    /\ tools = [t \in ToolIndices |-> NoTool]
    /\ Protocol!Init
-----------------------------------------------------------------------------
(***************************************************************************)
(* The events of SSEBuilder.                                               *)
(***************************************************************************)

\* content_block_start with an index from allocate_index.
StartsBlock(kind) ==
    /\ nextIndex' = nextIndex + 1
    /\ event' = Protocol!Event("content_block_start", nextIndex)
    /\ blocks' = Append(blocks, kind)
    /\ UNCHANGED closed

\* content_block_delta.
SendsDelta(kind, index) ==
    /\ event' = Protocol!Event(kind, index)
    /\ UNCHANGED <<blocks, closed>>

\* content_block_stop.
StopsBlock(index) ==
    /\ event' = Protocol!Event("content_block_stop", index)
    /\ closed' = closed \cup {index}
    /\ UNCHANGED blocks

\* message_start, message_delta, message_stop.
SendsMessage(type) ==
    /\ event' = Protocol!Event(type, -1)
    /\ UNCHANGED <<blocks, closed>>

ContentClosed == ~thinkingStarted /\ ~textStarted

\* close_content_blocks is called for this part; so does close_all_blocks.
ClosesContent ==
    \/ part \in {"tool_use", "call", "error"} /\ step = "open"
    \/ part = "none" /\ pc = "close"

\* stop_thinking_block, from ensure_text_block or a closing of the content.
StopThinkingBlock ==
    /\ thinkingStarted
    /\ part = "text" \/ ClosesContent
    /\ thinkingStarted' = FALSE
    /\ StopsBlock(thinkingIndex)
    /\ UNCHANGED <<control, nextIndex, thinkingIndex, textIndex, textStarted, tools>>

\* Mutant of StopTextBlock: text_started stays set.
StopTextForgetfully ==
    /\ textStarted
    /\ part = "thinking" \/ (ClosesContent /\ ~thinkingStarted)
    /\ StopsBlock(textIndex)
    /\ UNCHANGED <<control, nextIndex, thinkingIndex, textIndex, textStarted, thinkingStarted,
                   tools>>

\* stop_text_block, from ensure_thinking_block or a closing of the content.
StopTextBlock ==
    /\ textStarted
    /\ part = "thinking" \/ (ClosesContent /\ ~thinkingStarted)
    /\ textStarted' = FALSE
    /\ StopsBlock(textIndex)
    /\ UNCHANGED <<control, nextIndex, thinkingIndex, textIndex, thinkingStarted, tools>>

\* Mutant of StartThinkingBlock: an open text block stays open.
StartThinkingBeside ==
    /\ part = "thinking" /\ ~thinkingStarted
    /\ thinkingIndex' = nextIndex
    /\ thinkingStarted' = TRUE
    /\ StartsBlock("thinking")
    /\ UNCHANGED <<control, textIndex, textStarted, tools>>

\* ensure_thinking_block: start_thinking_block.
StartThinkingBlock ==
    /\ part = "thinking" /\ ContentClosed
    /\ thinkingIndex' = nextIndex
    /\ thinkingStarted' = TRUE
    /\ StartsBlock("thinking")
    /\ UNCHANGED <<control, textIndex, textStarted, tools>>

\* ensure_text_block: start_text_block.
StartTextBlock ==
    /\ part = "text" /\ ContentClosed
    /\ textIndex' = nextIndex
    /\ textStarted' = TRUE
    /\ StartsBlock("text")
    /\ UNCHANGED <<control, thinkingIndex, thinkingStarted, tools>>

PartDone ==
    /\ part' = "none"
    /\ step' = "open"
    /\ UNCHANGED <<provider, pc, call, inline, received, errorOccurred, toClose, relayed>>

\* emit_thinking_delta.
EmitThinkingDelta ==
    /\ part = "thinking" /\ thinkingStarted /\ ~textStarted
    /\ SendsDelta("thinking", thinkingIndex)
    /\ PartDone
    /\ UNCHANGED builder

\* emit_text_delta.
EmitTextDelta ==
    /\ part = "text" /\ textStarted /\ ~thinkingStarted
    /\ SendsDelta("text", textIndex)
    /\ PartDone
    /\ UNCHANGED builder
-----------------------------------------------------------------------------
(***************************************************************************)
(* Blocks that are written in one go: a tool call found in the text, a     *)
(* functionCall of Antigravity, an error (emit_error).                     *)
(***************************************************************************)

InlineKind == IF part = "error" THEN "text" ELSE "tool_use"

StartInlineBlock ==
    /\ part \in {"tool_use", "error"} /\ step = "open" /\ ContentClosed
    /\ inline' = nextIndex
    /\ step' = "fill"
    /\ StartsBlock(InlineKind)
    /\ UNCHANGED <<provider, pc, part, call, received, errorOccurred, toClose, relayed,
                   thinkingIndex, textIndex, thinkingStarted, textStarted, tools>>

FillInlineBlock ==
    /\ step = "fill"
    /\ SendsDelta(InlineKind, inline)
    /\ step' = "stop"
    /\ UNCHANGED <<provider, pc, part, call, inline, received, errorOccurred, toClose, relayed,
                   builder>>

StopInlineBlock ==
    /\ step = "stop"
    /\ StopsBlock(inline)
    /\ PartDone
    /\ UNCHANGED builder
-----------------------------------------------------------------------------
(***************************************************************************)
(* Native tool calls: _process_tool_call.                                  *)
(***************************************************************************)

Known == {t \in ToolIndices : tools[t].known}

\* A negative index means a new tool: tc_index = len(tool_states).
ToolIndex(c) == IF c.index < 0 THEN Cardinality(Known) ELSE c.index

\* register_tool_name: a name comes in fragments, or whole again and again.
Merged(old, new) ==
    IF IsPrefix(old, new) THEN new
    ELSE IF IsPrefix(new, old) THEN old
    ELSE old \o new

Named(tool, c) ==
    IF c.name = NoName THEN tool
    ELSE [tool EXCEPT !.known = TRUE, !.name = Merged(tool.name, c.name)]

RegisterToolName ==
    /\ part = "call" /\ step = "open" /\ ContentClosed
    /\ LET t == ToolIndex(call) IN
        /\ call' = [call EXCEPT !.index = t]
        /\ tools' = [tools EXCEPT ![t] = Named(@, call)]
    /\ step' = "named"
    /\ UNCHANGED <<provider, pc, part, inline, received, errorOccurred, toClose, relayed,
                   nextIndex, thinkingIndex, textIndex, thinkingStarted, textStarted, client>>

\* The tool of the call, once its name is registered.
This == tools[call.index]

\* start_tool_block: as soon as there is a name, an id or an argument.
Opened(tool, c) ==
    [tool EXCEPT !.known = TRUE, !.started = TRUE, !.index = nextIndex,
                 !.name = IF tool.known \/ c.id THEN tool.name ELSE DefaultName]

StartToolBlock ==
    /\ part = "call" /\ step = "named" /\ ~This.started
    /\ This.name # <<>> \/ call.id \/ call.args # "none"
    /\ tools' = [tools EXCEPT ![call.index] = Opened(@, call)]
    /\ StartsBlock("tool_use")
    /\ UNCHANGED <<control, thinkingIndex, textIndex, thinkingStarted, textStarted>>

\* emit_tool_delta with the arguments as they come.
EmitToolDelta ==
    /\ part = "call" /\ step = "named" /\ This.started
    /\ call.args # "none" /\ This.name # Task
    /\ SendsDelta("tool_use", This.index)
    /\ PartDone
    /\ UNCHANGED builder

\* buffer_task_args: nothing is sent before the buffer is an object.
Buffered(tool) == [tool EXCEPT !.buffered = TRUE]
Sent(tool) == [tool EXCEPT !.buffered = FALSE, !.emitted = TRUE]

BufferTaskArgs ==
    /\ part = "call" /\ step = "named" /\ This.started
    /\ call.args # "none" /\ This.name = Task
    /\ \/ /\ This.emitted
          /\ UNCHANGED <<tools, client>>
       \/ /\ call.args = "partial" /\ ~This.emitted
          /\ tools' = [tools EXCEPT ![call.index] = Buffered(@)]
          /\ UNCHANGED client
       \/ /\ call.args = "object" /\ ~This.emitted
          /\ tools' = [tools EXCEPT ![call.index] = Sent(@)]
          /\ SendsDelta("tool_use", This.index)
    /\ PartDone
    /\ UNCHANGED <<nextIndex, thinkingIndex, textIndex, thinkingStarted, textStarted>>

\* The tool call needs no more.
FinishToolCall ==
    /\ part = "call" /\ step = "named" /\ call.args = "none"
    /\ This.started \/ (This.name = <<>> /\ ~call.id)
    /\ PartDone
    /\ UNCHANGED <<builder, client>>
-----------------------------------------------------------------------------
(***************************************************************************)
(* _stream_response_impl.                                                  *)
(***************************************************************************)

Goes(to) ==
    /\ pc' = to
    /\ UNCHANGED <<provider, part, step, call, inline, received, errorOccurred, toClose, relayed>>

\* The part is handled next, and the loop then goes on at to.
GoesWith(to, next) ==
    /\ pc' = to
    /\ part' = next
    /\ UNCHANGED <<provider, step, call, inline, received, errorOccurred, toClose, relayed>>

Begin ==
    /\ pc = "start"
    /\ SendsMessage("message_start")
    /\ Goes("stream")
    /\ UNCHANGED builder

\* Only an OpenAI-compatible provider sends native tool calls.  ToolIndices
\* bounds the number of tools.
Receive(p, c) ==
    /\ pc = "stream" /\ part = "none" /\ received < MaxParts
    /\ \/ p \in {"thinking", "text", "tool_use"} /\ c = NoCall
       \/ p = "call" /\ c \in Calls /\ provider = "openai_compat" /\ ToolIndex(c) \in ToolIndices
    /\ part' = p
    /\ call' = c
    /\ received' = received + 1
    /\ UNCHANGED <<provider, pc, step, inline, errorOccurred, toClose, relayed, builder, client>>

StreamEnds ==
    /\ pc = "stream" /\ part = "none"
    /\ Goes("remaining")
    /\ UNCHANGED <<builder, client>>

\* Mutant of Fails: nothing catches the exception.
FailsForGood ==
    /\ pc' = "done"
    /\ part' = "none" /\ step' = "open"
    /\ UNCHANGED <<provider, call, inline, received, errorOccurred, toClose, relayed, client>>

\* The handler of the exception: close_content_blocks and emit_error.
Fails ==
    /\ pc' = "remaining"
    /\ part' = "error" /\ step' = "open"
    /\ errorOccurred' = TRUE
    /\ UNCHANGED <<provider, call, inline, received, toClose, relayed, client>>

\* The stream cannot be opened, or breaks.
StreamBreaks ==
    /\ pc = "stream" /\ part = "none"
    /\ Fails
    /\ UNCHANGED builder

\* Task arguments that are JSON but no object: get raises AttributeError.
TaskArgsRaise ==
    /\ part = "call" /\ step = "named" /\ This.started
    /\ call.args = "other" /\ This.name = Task /\ ~This.emitted
    /\ tools' = [tools EXCEPT ![call.index] = Buffered(@)]
    /\ Fails
    /\ UNCHANGED <<nextIndex, thinkingIndex, textIndex, thinkingStarted, textStarted>>

\* think_parser.flush, in openai_compat.py only.
FlushThinkTags ==
    /\ pc = "remaining" /\ part = "none"
    /\ \E p \in {"none", "thinking", "text"} :
        /\ provider = "antigravity" => p = "none"
        /\ GoesWith("leftover", p)
    /\ UNCHANGED <<builder, client>>

\* heuristic_parser.flush.
FlushHeuristicTools ==
    /\ pc = "leftover" /\ part = "none"
    /\ \E p \in {"none", "tool_use"} :
        /\ provider = "antigravity" => p = "none"
        /\ GoesWith("ensure", p)
    /\ UNCHANGED <<builder, client>>

\* Mutant of EnsureBlock: takes the first index for none.
EnsureFromZero ==
    /\ pc = "ensure" /\ part = "none"
    /\ \E p \in {"none", "text"} :
        /\ p = "text" <=> ~errorOccurred /\ textIndex = 0 /\ Known = {}
        /\ GoesWith("buffers", p)
    /\ UNCHANGED <<builder, client>>

\* "Ensure at least one content block exists".
EnsureBlock ==
    /\ pc = "ensure" /\ part = "none"
    /\ \E p \in {"none", "text"} :
        /\ p = "text" <=> ~errorOccurred /\ textIndex = -1 /\ Known = {}
        /\ GoesWith("buffers", p)
    /\ UNCHANGED <<builder, client>>

\* _flush_task_arg_buffers: arguments that never became JSON are sent as {}.
FlushTaskArgs(t) ==
    /\ pc = "buffers" /\ part = "none"
    /\ tools[t].buffered /\ ~tools[t].emitted
    /\ tools' = [tools EXCEPT ![t] = Sent(@)]
    /\ SendsDelta("tool_use", tools[t].index)
    /\ UNCHANGED <<control, nextIndex, thinkingIndex, textIndex, thinkingStarted, textStarted>>

\* Then close_all_blocks; the order of the tools is left open.
CloseAllBlocks ==
    /\ pc = "buffers" /\ part = "none"
    /\ \A t \in ToolIndices : ~(tools[t].buffered /\ ~tools[t].emitted)
    /\ pc' = "close"
    /\ toClose' = {t \in ToolIndices : tools[t].started}
    /\ UNCHANGED <<provider, part, step, call, inline, received, errorOccurred, relayed,
                   builder, client>>

StopToolBlock(t) ==
    /\ pc = "close" /\ ContentClosed /\ t \in toClose
    /\ toClose' = toClose \ {t}
    /\ StopsBlock(tools[t].index)
    /\ UNCHANGED <<provider, pc, part, step, call, inline, received, errorOccurred, relayed,
                   builder>>

MessageDelta ==
    /\ pc = "close" /\ ContentClosed /\ toClose = {}
    /\ SendsMessage("message_delta")
    /\ Goes("delta")
    /\ UNCHANGED builder

MessageStop ==
    /\ pc = "delta"
    /\ SendsMessage("message_stop")
    /\ Goes("done")
    /\ UNCHANGED builder
-----------------------------------------------------------------------------
(***************************************************************************)
(* The fallback of antigravity/client.py: no account could be used, and    *)
(* the stream of the real API is passed on, from its message_start on.     *)
(***************************************************************************)

\* An answer of the real API, as short as it gets.
Upstream ==
    <<Protocol!Event("message_start", -1), Protocol!Event("content_block_start", 0),
      Protocol!Event("text", 0), Protocol!Event("content_block_stop", 0),
      Protocol!Event("message_delta", -1), Protocol!Event("message_stop", -1)>>

Fallback ==
    /\ pc = "stream" /\ part = "none" /\ received = 0
    /\ provider = "antigravity" /\ FallbackKey
    /\ Goes("relay")
    /\ UNCHANGED <<builder, client>>

\* _stream_anthropic_fallback: "yield SSE lines unchanged".
RelayLine ==
    /\ pc = "relay" /\ part = "none" /\ relayed < Len(Upstream)
    /\ relayed' = relayed + 1
    /\ event' = Upstream[relayed + 1]
    /\ blocks' = IF event'.type = "content_block_start" THEN Append(blocks, "text") ELSE blocks
    /\ closed' = IF event'.type = "content_block_stop" THEN closed \cup {0} ELSE closed
    /\ UNCHANGED <<provider, pc, part, step, call, inline, received, errorOccurred, toClose,
                   builder>>

RelayEnds ==
    /\ pc = "relay" /\ relayed = Len(Upstream)
    /\ Goes("done")
    /\ UNCHANGED <<builder, client>>

\* The real API refuses too, or its stream breaks.
RelayBreaks ==
    /\ pc = "relay" /\ relayed < Len(Upstream)
    /\ Fails
    /\ UNCHANGED builder
-----------------------------------------------------------------------------
HandlePart ==
    \/ StopThinkingBlock \/ StopTextBlock \/ StartThinkingBlock \/ StartTextBlock
    \/ EmitThinkingDelta \/ EmitTextDelta
    \/ StartInlineBlock \/ FillInlineBlock \/ StopInlineBlock
    \/ RegisterToolName \/ StartToolBlock \/ EmitToolDelta \/ BufferTaskArgs
    \/ FinishToolCall \/ TaskArgsRaise

Finish ==
    \/ FlushThinkTags \/ FlushHeuristicTools \/ EnsureBlock \/ CloseAllBlocks
    \/ MessageDelta \/ MessageStop
    \/ \E t \in ToolIndices : FlushTaskArgs(t) \/ StopToolBlock(t)

Relay == Fallback \/ RelayLine \/ RelayEnds \/ RelayBreaks

Next ==
    \/ Begin \/ StreamEnds \/ StreamBreaks
    \/ \E p \in Parts, c \in Calls \cup {NoCall} : Receive(p, c)
    \/ HandlePart
    \/ Finish
    \/ Relay

Spec == Init /\ [][Next]_vars

\* The provider's stream ends, or its read times out; the proxy then goes on
\* as long as the client reads.
FairSpec == Spec /\ WF_vars(Next)
-----------------------------------------------------------------------------
(***************************************************************************)
(* Properties.                                                             *)
(***************************************************************************)

\* The indices that the builder takes for open.
OpenProse(i) == (thinkingStarted /\ i = thinkingIndex) \/ (textStarted /\ i = textIndex)
OpenTool(i) ==
    \E t \in ToolIndices :
        tools[t].started /\ i = tools[t].index /\ (pc \in {"close", "delta", "done"} => t \in toClose)
OpenInline(i) == step \in {"fill", "stop"} /\ i = inline

\* What the builder takes for open is what the client takes for open.
BuilderMatchesClient ==
    \A i \in 0..(Len(blocks) - 1) :
        i \notin closed <=> OpenProse(i) \/ OpenTool(i) \/ OpenInline(i)

\* Every index the builder holds is that of a block of the right kind.
KindsMatch ==
    /\ nextIndex = Len(blocks)
    /\ thinkingStarted => thinkingIndex \in 0..(nextIndex - 1) /\ blocks[thinkingIndex + 1] = "thinking"
    /\ textStarted => textIndex \in 0..(nextIndex - 1) /\ blocks[textIndex + 1] = "text"
    /\ \A t \in ToolIndices : tools[t].started =>
          tools[t].index \in 0..(nextIndex - 1) /\ blocks[tools[t].index + 1] = "tool_use"
    /\ step \in {"fill", "stop"} => inline \in 0..(nextIndex - 1) /\ blocks[inline + 1] = InlineKind

\* No two of the open blocks are one.
IndicesDistinct ==
    /\ \A t, u \in ToolIndices :
          tools[t].started /\ tools[u].started /\ tools[t].index = tools[u].index => t = u
    /\ step \in {"fill", "stop"} =>
          /\ ContentClosed
          /\ \A t \in ToolIndices : tools[t].started => tools[t].index # inline
    /\ ~(thinkingStarted /\ textStarted)

\* Where the loop is says what the client received last and what may be open.
PhasesMatch ==
    /\ pc = "start" <=> event.type = "none"
    /\ pc = "delta" <=> event.type = "message_delta"
    /\ pc = "done" <=> event.type = "message_stop"
    /\ pc \in {"start", "close", "delta", "done"} => part = "none"
    /\ pc \in {"delta", "done"} => ContentClosed /\ toClose = {}
    /\ toClose \subseteq {t \in ToolIndices : tools[t].started}
    /\ step \in {"fill", "stop"} => part \in {"tool_use", "error"}
    /\ part = "call" => ToolIndex(call) \in ToolIndices
    /\ step = "named" => part = "call" /\ call.index \in ToolIndices
    /\ \A t \in ToolIndices : tools[t].buffered => tools[t].started

\* Lines of another stream have been passed on.
FallenBack == pc = "relay" \/ relayed > 0

\* The builder and the client agree: sse_builder.py keeps flags and indices
\* in six places, and every one of them must mean an open block of its kind.
StreamInv ==
    /\ TypeOK
    /\ ~FallenBack =>
          BuilderMatchesClient /\ KindsMatch /\ IndicesDistinct /\ PhasesMatch

\* Whatever the provider sends and wherever it breaks, the client receives a
\* well-formed message, as long as the proxy writes it.
FollowsProtocol == Protocol!Init /\ [][FallenBack' \/ Protocol!Next]_client

\* A message is never empty (the ensured " "), unless all that came was the
\* empty name of a tool.
SomethingShown ==
    event.type = "message_delta" =>
        blocks # <<>> \/ \E t \in Known : ~tools[t].started

\* An answer that began ends with message_stop, errors or not.
StreamCompletes == (pc = "stream") ~> (event.type = "message_stop")
=============================================================================

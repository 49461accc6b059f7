-------------------------- MODULE SSEStreamProofs --------------------------
(***************************************************************************)
(* Theorems about SSEStream, for any tools, any tool call deltas and any   *)
(* number of parts: the streaming loops implement BlockProtocol.           *)
(***************************************************************************)
EXTENDS SSEStream, SequenceTheorems, TLAPS

-----------------------------------------------------------------------------
(***************************************************************************)
(* Types, and where the loop can be.                                       *)
(***************************************************************************)

\* What holds of the control state, also while another stream is relayed.
PartsMatch ==
    /\ part = "none" => step = "open"
    /\ pc \in {"start", "relay", "close", "delta", "done"} => part = "none"
    /\ step = "named" => part = "call" /\ call.index \in ToolIndices
    /\ part = "call" => step \in {"open", "named"} /\ ToolIndex(call) \in ToolIndices
    /\ step \in {"fill", "stop"} => part \in {"tool_use", "error"} /\ inline \in Nat

\* What the builder takes for open has an index.
HasIndices ==
    /\ thinkingStarted => thinkingIndex \in Nat
    /\ textStarted => textIndex \in Nat
    /\ \A t \in ToolIndices : tools[t].started => tools[t].index \in Nat
    /\ toClose \subseteq {t \in ToolIndices : tools[t].started}

\* TypeOK, variable group by variable group.
ControlOK ==
    /\ provider \in Providers
    /\ pc \in {"start", "stream", "relay", "remaining", "leftover", "ensure", "buffers",
               "close", "delta", "done"}
    /\ part \in Parts
    /\ step \in {"open", "named", "fill", "stop"}
    /\ call \in ToolCall
    /\ inline \in Int
    /\ received \in 0..MaxParts
    /\ errorOccurred \in BOOLEAN
    /\ toClose \subseteq ToolIndices
    /\ relayed \in Nat

ProseOK ==
    /\ nextIndex \in Nat
    /\ thinkingIndex \in Int
    /\ textIndex \in Int
    /\ thinkingStarted \in BOOLEAN
    /\ textStarted \in BOOLEAN

ToolsOK == tools \in [ToolIndices -> Tool]

ClientOK == blocks \in Seq(Protocol!BlockKinds) /\ closed \subseteq Nat

\* TypeOK is its four groups.
LEMMA TypeParts == TypeOK <=> ControlOK /\ ProseOK /\ ToolsOK /\ ClientOK
  BY DEF TypeOK, ControlOK, ProseOK, ToolsOK, ClientOK

Basics == ControlOK /\ ProseOK /\ ToolsOK /\ ClientOK /\ PartsMatch /\ HasIndices

\* A merged tool name is a name.
LEMMA NameTypes ==
    ASSUME NEW old \in Seq(Letters \cup {"tool_call"}), NEW new \in Seq(Letters)
    PROVE  Merged(old, new) \in Seq(Letters \cup {"tool_call"})
<1>1. new \in Seq(Letters \cup {"tool_call"})
  BY SeqMonotonic
<1>. QED  BY <1>1, ConcatProperties DEF Merged

\* Basics holds in the beginning.
LEMMA BasicsInit == Init => Basics
<1>. SUFFICES ASSUME Init  PROVE Basics
  OBVIOUS
<1>1. NoTool \in Tool
  BY EmptySeq DEF NoTool, Tool
<1>2. NoCall \in ToolCall
  BY DEF NoCall, ToolCall
<1>3. tools \in [ToolIndices -> Tool] /\ call \in ToolCall
  BY <1>1, <1>2 DEF Init
<1>4. blocks \in Seq(Protocol!BlockKinds) /\ closed \subseteq Nat
  BY EmptySeq DEF Init, Protocol!Init
<1>5. received \in 0..MaxParts
  BY BoundAssumption DEF Init
<1>8. /\ provider \in Providers /\ pc = "start" /\ part \in Parts /\ step = "open"
      /\ errorOccurred \in BOOLEAN /\ toClose \subseteq ToolIndices
      /\ thinkingStarted \in BOOLEAN /\ textStarted \in BOOLEAN
  BY DEF Init, Parts
<1>9. /\ relayed = 0 /\ nextIndex = 0 /\ inline = -1 /\ thinkingIndex = -1 /\ textIndex = -1
  BY DEF Init
<1>7. TypeOK
  BY <1>3, <1>4, <1>5, <1>8, <1>9 DEF TypeOK
<1>6. PartsMatch /\ HasIndices
  BY DEF Init, PartsMatch, HasIndices, NoTool
<1>. QED  BY <1>6, <1>7, TypeParts DEF Basics

\* No event of the builder breaks the types of what the client has.
LEMMA ClientTypes ==
    ASSUME ClientOK
    PROVE  /\ \A kind \in Protocol!BlockKinds : StartsBlock(kind) => ClientOK'
           /\ \A kind, i : SendsDelta(kind, i) => ClientOK'
           /\ \A i \in Nat : StopsBlock(i) => ClientOK'
           /\ \A type : SendsMessage(type) => ClientOK'
           /\ UNCHANGED client => ClientOK'
<1>1. ASSUME NEW kind \in Protocol!BlockKinds, StartsBlock(kind)  PROVE ClientOK'
  BY <1>1, AppendProperties DEF ClientOK, StartsBlock
<1>. QED  BY <1>1 DEF ClientOK, SendsDelta, StopsBlock, SendsMessage, client

\* One turn of the handling of a part, up to the next yield.
LEMMA ProseBasics ==
    ASSUME Basics,
           \/ StopThinkingBlock \/ StopTextBlock \/ StartThinkingBlock \/ StartTextBlock
           \/ EmitThinkingDelta \/ EmitTextDelta
    PROVE  Basics'
<1>1. ControlOK /\ ProseOK /\ ToolsOK /\ ClientOK /\ PartsMatch /\ HasIndices
  BY DEF Basics
<1>2. "thinking" \in Protocol!BlockKinds /\ "text" \in Protocol!BlockKinds
  BY DEF Protocol!BlockKinds, Protocol!Prose
<1>3. ASSUME StopThinkingBlock \/ StopTextBlock \/ StartThinkingBlock \/ StartTextBlock
      PROVE  Basics'
  <2>1. ClientOK'
    BY <1>1, <1>2, <1>3, ClientTypes
    DEF StopThinkingBlock, StopTextBlock, StartThinkingBlock, StartTextBlock, HasIndices
  <2>2. UNCHANGED <<control, tools>>
    BY <1>3 DEF StopThinkingBlock, StopTextBlock, StartThinkingBlock, StartTextBlock
  <2>3. ControlOK' /\ ToolsOK' /\ PartsMatch'
    BY <1>1, <2>2 DEF control, ControlOK, ToolsOK, PartsMatch, ToolIndex, Known
  <2>4. ProseOK' /\ HasIndices'
    <3>1. toClose' = toClose
      BY <2>2 DEF control
    <3>2. CASE StopThinkingBlock
      BY <1>1, <2>2, <3>1, <3>2 DEF StopThinkingBlock, ProseOK, HasIndices
    <3>3. CASE StopTextBlock
      BY <1>1, <2>2, <3>1, <3>3 DEF StopTextBlock, ProseOK, HasIndices
    <3>4. CASE StartThinkingBlock
      BY <1>1, <2>2, <3>1, <3>4 DEF StartThinkingBlock, StartsBlock, ProseOK, HasIndices
    <3>5. CASE StartTextBlock
      BY <1>1, <2>2, <3>1, <3>5 DEF StartTextBlock, StartsBlock, ProseOK, HasIndices
    <3>. QED  BY <1>3, <3>2, <3>3, <3>4, <3>5
  <2>. QED  BY <2>1, <2>3, <2>4 DEF Basics
<1>4. ASSUME EmitThinkingDelta \/ EmitTextDelta  PROVE Basics'
  <2>1. ClientOK'
    BY <1>1, <1>4, ClientTypes DEF EmitThinkingDelta, EmitTextDelta
  <2>2. PartDone /\ UNCHANGED builder
    BY <1>4 DEF EmitThinkingDelta, EmitTextDelta
  <2>3. ControlOK' /\ PartsMatch'
    BY <1>1, <2>2 DEF PartDone, ControlOK, PartsMatch, Parts
  <2>4. ToolsOK' /\ ProseOK' /\ HasIndices'
    BY <1>1, <2>2 DEF PartDone, builder, ToolsOK, ProseOK, HasIndices
  <2>. QED  BY <2>1, <2>3, <2>4 DEF Basics
<1>. QED  BY <1>3, <1>4

\* A block that is written in one go keeps Basics.
LEMMA InlineBasics ==
    ASSUME Basics, StartInlineBlock \/ FillInlineBlock \/ StopInlineBlock
    PROVE  Basics'
<1>1. ControlOK /\ ProseOK /\ ToolsOK /\ ClientOK /\ PartsMatch /\ HasIndices
  BY DEF Basics
<1>2. InlineKind \in Protocol!BlockKinds
  BY DEF InlineKind, Protocol!BlockKinds, Protocol!Prose
<1>3. CASE StartInlineBlock
  <2>1. ClientOK'
    BY <1>1, <1>2, <1>3, ClientTypes DEF StartInlineBlock
  <2>2. ControlOK' /\ PartsMatch'
    BY <1>1, <1>3 DEF StartInlineBlock, ControlOK, ProseOK, PartsMatch
  <2>3. ProseOK' /\ ToolsOK' /\ HasIndices'
    BY <1>1, <1>3 DEF StartInlineBlock, StartsBlock, ProseOK, ToolsOK, HasIndices
  <2>. QED  BY <2>1, <2>2, <2>3 DEF Basics
<1>4. CASE FillInlineBlock
  <2>1. ClientOK'
    BY <1>1, <1>4, ClientTypes DEF FillInlineBlock
  <2>2. ControlOK' /\ PartsMatch'
    BY <1>1, <1>4 DEF FillInlineBlock, ControlOK, PartsMatch
  <2>3. ProseOK' /\ ToolsOK' /\ HasIndices'
    BY <1>1, <1>4 DEF FillInlineBlock, builder, ProseOK, ToolsOK, HasIndices
  <2>. QED  BY <2>1, <2>2, <2>3 DEF Basics
<1>5. CASE StopInlineBlock
  <2>1. ClientOK'
    BY <1>1, <1>5, ClientTypes DEF StopInlineBlock, PartsMatch
  <2>2. ControlOK' /\ PartsMatch'
    BY <1>1, <1>5 DEF StopInlineBlock, PartDone, ControlOK, PartsMatch, Parts
  <2>3. ProseOK' /\ ToolsOK' /\ HasIndices'
    BY <1>1, <1>5 DEF StopInlineBlock, PartDone, builder, ProseOK, ToolsOK, HasIndices
  <2>. QED  BY <2>1, <2>2, <2>3 DEF Basics
<1>. QED  BY <1>3, <1>4, <1>5

\* A call whose name is registered keeps its tool, whatever becomes of the
\* others.
LEMMA NamedKeepsTool ==
    ASSUME PartsMatch, step = "named", UNCHANGED control
    PROVE  PartsMatch'
<1>1. call.index \in ToolIndices /\ call.index \in Nat
  BY IndicesAssumption DEF PartsMatch
<1>2. ToolIndex(call)' = call.index
  BY <1>1 DEF ToolIndex, control
<1>. QED  BY <1>1, <1>2 DEF PartsMatch, control

\* The buffering of arguments moves no tool to another block.
LEMMA BufferTypes ==
    ASSUME NEW tool \in Tool
    PROVE  /\ Buffered(tool) \in Tool /\ Sent(tool) \in Tool
           /\ Buffered(tool).started = tool.started /\ Sent(tool).started = tool.started
           /\ Buffered(tool).index = tool.index /\ Sent(tool).index = tool.index
           /\ Buffered(tool).known = tool.known /\ Sent(tool).known = tool.known
  BY DEF Tool, Buffered, Sent

\* A native tool call keeps Basics.
LEMMA CallBasics ==
    ASSUME Basics,
           \/ RegisterToolName \/ StartToolBlock \/ EmitToolDelta \/ BufferTaskArgs
           \/ FinishToolCall
    PROVE  Basics'
<1>1. ControlOK /\ ProseOK /\ ToolsOK /\ ClientOK /\ PartsMatch /\ HasIndices
  BY DEF Basics
<1>2. "tool_use" \in Protocol!BlockKinds
  BY DEF Protocol!BlockKinds
<1>3. CASE RegisterToolName
  <2> DEFINE t == ToolIndex(call)
             tool == Named(tools[t], call)
  <2>1. t \in ToolIndices /\ t \in Nat
    BY <1>1, <1>3, IndicesAssumption DEF RegisterToolName, PartsMatch
  <2>8. tools' = [tools EXCEPT ![t] = tool]
    BY <1>3, <2>1 DEF RegisterToolName
  <2>2. /\ call' = [call EXCEPT !.index = t] /\ step' = "named" /\ part' = part /\ part = "call"
        /\ UNCHANGED <<provider, pc, inline, received, errorOccurred, toClose, relayed,
                       nextIndex, thinkingIndex, textIndex, thinkingStarted, textStarted, client>>
    BY <1>3 DEF RegisterToolName
  <2>3. tool \in Tool /\ tool.started = tools[t].started /\ tool.index = tools[t].index
    <3>1. tools[t] \in Tool
      BY <1>1, <2>1 DEF ToolsOK
    <3>2. CASE call.name = NoName
      BY <3>1, <3>2 DEF Named
    <3>3. CASE call.name # NoName
      <4>1. tools[t].name \in Seq(Letters \cup {"tool_call"}) /\ call.name \in Seq(Letters)
        BY <1>1, <3>1, <3>3 DEF ControlOK, ToolCall, Tool
      <4>2. Merged(tools[t].name, call.name) \in Seq(Letters \cup {"tool_call"})
        BY <4>1, NameTypes
      <4>. QED  BY <3>1, <3>3, <4>2 DEF Tool, Named
    <3>. QED  BY <3>2, <3>3
  <2>. HIDE DEF t, tool
  <2>4. call' \in ToolCall /\ call'.index = t
    BY <1>1, <2>1, <2>2 DEF ControlOK, ToolCall
  <2>5. ToolIndex(call)' = t
    BY <2>1, <2>4 DEF ToolIndex
  <2>6. ControlOK' /\ PartsMatch'
    BY <1>1, <2>1, <2>2, <2>4, <2>5 DEF ControlOK, PartsMatch
  <2>7. ToolsOK' /\ HasIndices'
    BY <1>1, <2>1, <2>2, <2>3, <2>8 DEF ToolsOK, HasIndices
  <2>. QED  BY <1>1, <2>2, <2>6, <2>7 DEF Basics, ProseOK, ClientOK, client
<1>4. CASE StartToolBlock
  <2> DEFINE t == call.index
             tool == Opened(tools[t], call)
  <2>1. t \in ToolIndices /\ step = "named"
    BY <1>1, <1>4 DEF StartToolBlock, PartsMatch
  <2>7. tools' = [tools EXCEPT ![t] = tool]
    BY <1>4, <2>1 DEF StartToolBlock
  <2>2. /\ nextIndex' = nextIndex + 1
        /\ UNCHANGED <<control, thinkingIndex, textIndex, thinkingStarted, textStarted>>
    BY <1>4 DEF StartToolBlock, StartsBlock
  <2>3. tool \in Tool /\ tool.started /\ tool.index = nextIndex
    <3>1. tools[t] \in Tool
      BY <1>1, <2>1 DEF ToolsOK
    <3>2. DefaultName \in Seq(Letters \cup {"tool_call"})
      BY DEF DefaultName
    <3>3. nextIndex \in Int
      BY <1>1 DEF ProseOK
    <3>. QED  BY <3>1, <3>2, <3>3 DEF Tool, Opened
  <2>. HIDE DEF t, tool
  <2>4. ClientOK'
    BY <1>1, <1>2, <1>4, ClientTypes DEF StartToolBlock
  <2>5. PartsMatch' /\ ControlOK'
    BY <1>1, <2>1, <2>2, NamedKeepsTool DEF ControlOK, control
  <2>6. ToolsOK' /\ HasIndices'
    BY <1>1, <2>1, <2>2, <2>3, <2>7 DEF ToolsOK, HasIndices, ProseOK, control
  <2>. QED  BY <1>1, <2>2, <2>4, <2>5, <2>6 DEF Basics, ProseOK
<1>5. CASE EmitToolDelta \/ FinishToolCall
  <2>1. ClientOK'
    BY <1>1, <1>5, ClientTypes DEF EmitToolDelta, FinishToolCall
  <2>2. PartDone /\ UNCHANGED builder
    BY <1>5 DEF EmitToolDelta, FinishToolCall
  <2>3. ControlOK' /\ PartsMatch'
    BY <1>1, <2>2 DEF PartDone, ControlOK, PartsMatch, Parts
  <2>4. ToolsOK' /\ ProseOK' /\ HasIndices'
    BY <1>1, <2>2 DEF PartDone, builder, ToolsOK, ProseOK, HasIndices
  <2>. QED  BY <2>1, <2>3, <2>4 DEF Basics
<1>6. CASE BufferTaskArgs
  <2>1. ClientOK'
    BY <1>1, <1>6, ClientTypes DEF BufferTaskArgs
  <2>2. PartDone /\ UNCHANGED <<nextIndex, thinkingIndex, textIndex, thinkingStarted, textStarted>>
    BY <1>6 DEF BufferTaskArgs
  <2>3. ControlOK' /\ PartsMatch'
    BY <1>1, <2>2 DEF PartDone, ControlOK, PartsMatch, Parts
  <2>4. call.index \in ToolIndices
    BY <1>1, <1>6 DEF BufferTaskArgs, PartsMatch
  <2>5. \/ tools' = tools
        \/ tools' = [tools EXCEPT ![call.index] = Buffered(@)]
        \/ tools' = [tools EXCEPT ![call.index] = Sent(@)]
    BY <1>6 DEF BufferTaskArgs
  <2>6. ToolsOK' /\ \A t \in ToolIndices : /\ tools'[t].started = tools[t].started
                                          /\ tools'[t].index = tools[t].index
    BY <1>1, <2>4, <2>5, BufferTypes DEF ToolsOK
  <2>. QED  BY <1>1, <2>1, <2>2, <2>3, <2>6 DEF Basics, ProseOK, HasIndices, PartDone
<1>. QED  BY <1>3, <1>4, <1>5, <1>6

\* A failure of the stream, the fallback or a tool call keeps Basics.
LEMMA FailBasics ==
    ASSUME Basics, StreamBreaks \/ RelayBreaks \/ TaskArgsRaise
    PROVE  Basics'
<1>1. ControlOK /\ ProseOK /\ ToolsOK /\ ClientOK /\ PartsMatch /\ HasIndices
  BY DEF Basics
<1>2. Fails /\ UNCHANGED <<nextIndex, thinkingIndex, textIndex, thinkingStarted, textStarted>>
  BY DEF StreamBreaks, RelayBreaks, TaskArgsRaise, builder
<1>3. ControlOK' /\ PartsMatch'
  BY <1>1, <1>2 DEF Fails, ControlOK, PartsMatch, Parts
<1>4. ToolsOK' /\ \A t \in ToolIndices : /\ tools'[t].started = tools[t].started
                                        /\ tools'[t].index = tools[t].index
  <2>1. CASE TaskArgsRaise
    <3>1. call.index \in ToolIndices /\ tools' = [tools EXCEPT ![call.index] = Buffered(@)]
      BY <1>1, <2>1 DEF TaskArgsRaise, PartsMatch
    <3>. QED  BY <1>1, <3>1, BufferTypes DEF ToolsOK
  <2>2. CASE tools' = tools
    BY <1>1, <2>2 DEF ToolsOK
  <2>. QED  BY <2>1, <2>2 DEF StreamBreaks, RelayBreaks, builder
<1>5. ClientOK'
  BY <1>1, <1>2, ClientTypes DEF Fails, client, ClientOK
<1>. QED  BY <1>1, <1>2, <1>3, <1>4, <1>5 DEF Basics, ProseOK, HasIndices, Fails

\* The course of _stream_response_impl keeps Basics.
LEMMA FlowBasics ==
    ASSUME Basics,
           \/ Begin \/ StreamEnds \/ (\E p \in Parts, c \in Calls \cup {NoCall} : Receive(p, c))
           \/ FlushThinkTags \/ FlushHeuristicTools \/ EnsureBlock \/ CloseAllBlocks
           \/ MessageDelta \/ MessageStop \/ Fallback \/ RelayEnds
    PROVE  Basics'
<1>1. ControlOK /\ ProseOK /\ ToolsOK /\ ClientOK /\ PartsMatch /\ HasIndices
  BY DEF Basics
<1>2. UNCHANGED builder
  BY DEF Begin, StreamEnds, Receive, FlushThinkTags, FlushHeuristicTools, EnsureBlock,
         CloseAllBlocks, MessageDelta, MessageStop, Fallback, RelayEnds
<1>3. ClientOK'
  BY <1>1, ClientTypes
  DEF Begin, StreamEnds, Receive, FlushThinkTags, FlushHeuristicTools, EnsureBlock,
      CloseAllBlocks, MessageDelta, MessageStop, Fallback, RelayEnds
<1>4. ProseOK' /\ ToolsOK'
  BY <1>1, <1>2 DEF builder, ProseOK, ToolsOK
<1>5. ASSUME toClose' \subseteq {t \in ToolIndices : tools[t].started}  PROVE HasIndices'
  BY <1>1, <1>2, <1>5 DEF builder, HasIndices
<1>6. ASSUME NEW to \in {"stream", "remaining", "delta", "done", "relay"}, Goes(to), part = "none"
      PROVE  Basics'
  <2>1. ControlOK' /\ PartsMatch'
    BY <1>1, <1>6 DEF Goes, ControlOK, PartsMatch
  <2>. QED  BY <1>1, <1>3, <1>4, <1>5, <1>6, <2>1 DEF Goes, Basics, HasIndices
<1>7. ASSUME NEW to \in {"leftover", "ensure", "buffers"},
             NEW p \in {"none", "thinking", "text", "tool_use"},
             GoesWith(to, p), part = "none"
      PROVE  Basics'
  <2>1. ControlOK' /\ PartsMatch'
    BY <1>1, <1>7 DEF GoesWith, ControlOK, PartsMatch, Parts
  <2>. QED  BY <1>1, <1>3, <1>4, <1>5, <1>7, <2>1 DEF GoesWith, Basics, HasIndices
<1>8. CASE Begin \/ StreamEnds \/ MessageDelta \/ MessageStop \/ Fallback \/ RelayEnds
  <2>1. part = "none"
    BY <1>1, <1>8
    DEF Begin, StreamEnds, MessageDelta, MessageStop, Fallback, RelayEnds, PartsMatch
  <2>. QED  BY <1>6, <1>8, <2>1 DEF Begin, StreamEnds, MessageDelta, MessageStop, Fallback, RelayEnds
<1>9. CASE FlushThinkTags \/ FlushHeuristicTools \/ EnsureBlock
  BY <1>7, <1>9 DEF FlushThinkTags, FlushHeuristicTools, EnsureBlock
<1>10. CASE CloseAllBlocks
  <2>1. ControlOK' /\ PartsMatch'
    BY <1>1, <1>10 DEF CloseAllBlocks, ControlOK, PartsMatch
  <2>. QED  BY <1>3, <1>4, <1>5, <1>10, <2>1 DEF CloseAllBlocks, Basics
<1>11. ASSUME NEW p \in Parts, NEW c \in Calls \cup {NoCall}, Receive(p, c)  PROVE Basics'
  <2>1. c \in ToolCall
    <3>1. NoCall \in ToolCall
      BY DEF NoCall, ToolCall
    <3>. QED  BY <3>1, CallsAssumption
  <2>2. /\ p \in {"thinking", "text", "tool_use", "call"} /\ pc = "stream" /\ part = "none"
        /\ part' = p /\ call' = c /\ received < MaxParts /\ received' = received + 1
        /\ UNCHANGED <<provider, pc, step, inline, errorOccurred, toClose, relayed, builder>>
        /\ p = "call" => ToolIndex(c) \in ToolIndices
    BY <1>11 DEF Receive
  <2>3. received' \in 0..MaxParts
    BY <1>1, <2>2, BoundAssumption DEF ControlOK
  <2>4. ToolIndex(call)' = ToolIndex(c)
    BY <2>2 DEF ToolIndex, Known, builder
  <2>5. ControlOK' /\ PartsMatch'
    BY <1>1, <2>1, <2>2, <2>3, <2>4 DEF ControlOK, PartsMatch
  <2>. QED  BY <1>1, <1>3, <1>4, <1>5, <2>2, <2>5 DEF Basics, HasIndices
<1>. QED  BY <1>8, <1>9, <1>10, <1>11

\* The end of the tools, and a line of the fallback, keep Basics.
LEMMA ToolEndBasics ==
    ASSUME Basics,
           RelayLine \/ \E t \in ToolIndices : FlushTaskArgs(t) \/ StopToolBlock(t)
    PROVE  Basics'
<1>1. ControlOK /\ ProseOK /\ ToolsOK /\ ClientOK /\ PartsMatch /\ HasIndices
  BY DEF Basics
<1>2. ASSUME NEW t \in ToolIndices, FlushTaskArgs(t)  PROVE Basics'
  <2>1. tools' = [tools EXCEPT ![t] = Sent(@)] /\ part = "none"
        /\ UNCHANGED <<control, nextIndex, thinkingIndex, textIndex, thinkingStarted, textStarted>>
    BY <1>2 DEF FlushTaskArgs
  <2>2. ToolsOK' /\ \A u \in ToolIndices : /\ tools'[u].started = tools[u].started
                                          /\ tools'[u].index = tools[u].index
    BY <1>1, <2>1, BufferTypes DEF ToolsOK
  <2>3. ClientOK'
    BY <1>1, <1>2, ClientTypes DEF FlushTaskArgs
  <2>4. ControlOK' /\ PartsMatch'
    BY <1>1, <2>1 DEF control, ControlOK, PartsMatch
  <2>. QED  BY <1>1, <2>1, <2>2, <2>3, <2>4 DEF Basics, ProseOK, HasIndices, control
<1>3. ASSUME NEW t \in ToolIndices, StopToolBlock(t)  PROVE Basics'
  <2>1. tools[t].index \in Nat
    BY <1>1, <1>3 DEF StopToolBlock, HasIndices
  <2>2. ClientOK'
    BY <1>1, <1>3, <2>1, ClientTypes DEF StopToolBlock
  <2>3. ControlOK' /\ PartsMatch'
    BY <1>1, <1>3 DEF StopToolBlock, ControlOK, PartsMatch, builder, ToolIndex, Known
  <2>4. ProseOK' /\ ToolsOK' /\ HasIndices'
    BY <1>1, <1>3 DEF StopToolBlock, builder, ProseOK, ToolsOK, HasIndices
  <2>. QED  BY <2>2, <2>3, <2>4 DEF Basics
<1>4. CASE RelayLine
  <2>1. blocks' \in Seq(Protocol!BlockKinds)
    <3>1. "text" \in Protocol!BlockKinds
      BY DEF Protocol!BlockKinds, Protocol!Prose
    <3>. QED  BY <1>1, <1>4, <3>1, AppendProperties DEF RelayLine, ClientOK
  <2>2. ClientOK'
    BY <1>1, <1>4, <2>1 DEF RelayLine, ClientOK
  <2>3. ControlOK' /\ PartsMatch'
    BY <1>1, <1>4 DEF RelayLine, ControlOK, PartsMatch
  <2>4. ProseOK' /\ ToolsOK' /\ HasIndices'
    BY <1>1, <1>4 DEF RelayLine, builder, ProseOK, ToolsOK, HasIndices
  <2>. QED  BY <2>2, <2>3, <2>4 DEF Basics
<1>. QED  BY <1>2, <1>3, <1>4

\* Basics is inductive.
LEMMA BasicsStep == Basics /\ [Next]_vars => Basics'
<1>1. ASSUME Basics, UNCHANGED vars  PROVE Basics'
  <2>1. UNCHANGED <<control, builder, blocks, closed>>
    BY <1>1 DEF vars, client
  <2>2. ControlOK' /\ PartsMatch'
    BY <1>1, <2>1 DEF Basics, control, builder, ControlOK, PartsMatch, ToolIndex, Known
  <2>3. ProseOK' /\ ToolsOK' /\ ClientOK' /\ HasIndices'
    BY <1>1, <2>1 DEF Basics, control, builder, ProseOK, ToolsOK, ClientOK, HasIndices
  <2>. QED  BY <2>2, <2>3 DEF Basics
<1>2. ASSUME Basics, Next  PROVE Basics'
  <2>1. CASE Begin \/ StreamEnds \/ \E p \in Parts, c \in Calls \cup {NoCall} : Receive(p, c)
    BY <1>2, <2>1, FlowBasics
  <2>2. CASE StreamBreaks \/ Relay
    BY <1>2, <2>2, FailBasics, FlowBasics, ToolEndBasics DEF Relay
  <2>3. CASE HandlePart
    BY <1>2, <2>3, ProseBasics, InlineBasics, CallBasics, FailBasics DEF HandlePart
  <2>4. CASE Finish
    BY <1>2, <2>4, FlowBasics, ToolEndBasics DEF Finish
  <2>. QED  BY <1>2, <2>1, <2>2, <2>3, <2>4 DEF Next
<1>. QED  BY <1>1, <1>2

-----------------------------------------------------------------------------
(***************************************************************************)
(* The builder and the client agree about the blocks.                      *)
(***************************************************************************)

Indices == 0..(nextIndex - 1)

CountsMatch == nextIndex = Len(blocks) /\ closed \subseteq Indices

OpenMatch == \A i \in Indices : i \notin closed <=> OpenProse(i) \/ OpenTool(i) \/ OpenInline(i)

HasKind(i, kind) == i \in Indices /\ blocks[i + 1] = kind

KindsHold ==
    /\ thinkingStarted => HasKind(thinkingIndex, "thinking")
    /\ textStarted => HasKind(textIndex, "text")
    /\ \A t \in ToolIndices : tools[t].started => HasKind(tools[t].index, "tool_use")
    /\ step \in {"fill", "stop"} => HasKind(inline, InlineKind)

Match == CountsMatch /\ OpenMatch /\ KindsHold /\ IndicesDistinct

\* What changes when a block begins.
LEMMA IndicesGrow ==
    ASSUME NEW kind, ClientOK, CountsMatch, StartsBlock(kind)
    PROVE  /\ CountsMatch'
           /\ Indices' = Indices \cup {nextIndex} /\ nextIndex \notin Indices
           /\ nextIndex \notin closed /\ closed' = closed
           /\ blocks'[nextIndex + 1] = kind
           /\ \A i \in Indices : blocks'[i + 1] = blocks[i + 1]
<1>1. /\ blocks \in Seq(Protocol!BlockKinds) /\ nextIndex = Len(blocks) /\ nextIndex \in Nat
      /\ nextIndex' = nextIndex + 1 /\ blocks' = Append(blocks, kind) /\ closed' = closed
      /\ closed \subseteq Indices
  BY DEF ClientOK, CountsMatch, StartsBlock
<1>2. /\ Len(blocks') = nextIndex + 1
      /\ \A i \in 1..nextIndex : blocks'[i] = blocks[i]
      /\ blocks'[nextIndex + 1] = kind
  BY <1>1
<1>3. Indices' = Indices \cup {nextIndex} /\ nextIndex \notin Indices
  BY <1>1 DEF Indices
<1>4. \A i \in Indices : i + 1 \in 1..nextIndex
  BY <1>1 DEF Indices
<1>5. \A i \in Indices : blocks'[i + 1] = blocks[i + 1]
  BY <1>2, <1>4
<1>6. CountsMatch'
  BY <1>1, <1>2, <1>3 DEF CountsMatch
<1>. QED  BY <1>1, <1>2, <1>3, <1>5, <1>6

\* A thinking block gets an index of its own.
LEMMA MatchStartsThinking ==
    ASSUME ClientOK, Match, PartsMatch, StartThinkingBlock
    PROVE  Match'
<1>1. /\ CountsMatch /\ OpenMatch /\ KindsHold /\ IndicesDistinct /\ ContentClosed
      /\ step \notin {"fill", "stop"} /\ UNCHANGED <<control, tools, textStarted, textIndex>>
      /\ StartsBlock("thinking") /\ thinkingIndex' = nextIndex /\ thinkingStarted'
  BY DEF Match, StartThinkingBlock, PartsMatch, ContentClosed
<1>2. \A i : OpenTool(i)' <=> OpenTool(i)
  BY <1>1 DEF control, OpenTool
<1>3. /\ CountsMatch'
      /\ Indices' = Indices \cup {nextIndex} /\ nextIndex \notin Indices
      /\ nextIndex \notin closed /\ closed' = closed
      /\ blocks'[nextIndex + 1] = "thinking"
      /\ \A i \in Indices : blocks'[i + 1] = blocks[i + 1]
  BY <1>1, IndicesGrow
<1>4. OpenMatch'
  BY <1>1, <1>2, <1>3 DEF OpenMatch, OpenProse, OpenInline, ContentClosed, control
<1>5. KindsHold'
  BY <1>1, <1>3 DEF KindsHold, HasKind, ContentClosed, control
<1>6. IndicesDistinct'
  BY <1>1 DEF IndicesDistinct, ContentClosed, control
<1>. QED  BY <1>3, <1>4, <1>5, <1>6 DEF Match

\* A text block gets an index of its own.
LEMMA MatchStartsText ==
    ASSUME ClientOK, Match, PartsMatch, StartTextBlock
    PROVE  Match'
<1>1. /\ CountsMatch /\ OpenMatch /\ KindsHold /\ IndicesDistinct /\ ContentClosed
      /\ step \notin {"fill", "stop"} /\ UNCHANGED <<control, tools, thinkingStarted, thinkingIndex>>
      /\ StartsBlock("text") /\ textIndex' = nextIndex /\ textStarted'
  BY DEF Match, StartTextBlock, PartsMatch, ContentClosed
<1>2. \A i : OpenTool(i)' <=> OpenTool(i)
  BY <1>1 DEF control, OpenTool
<1>3. /\ CountsMatch'
      /\ Indices' = Indices \cup {nextIndex} /\ nextIndex \notin Indices
      /\ nextIndex \notin closed /\ closed' = closed
      /\ blocks'[nextIndex + 1] = "text"
      /\ \A i \in Indices : blocks'[i + 1] = blocks[i + 1]
  BY <1>1, IndicesGrow
<1>4. OpenMatch'
  BY <1>1, <1>2, <1>3 DEF OpenMatch, OpenProse, OpenInline, ContentClosed, control
<1>5. KindsHold'
  BY <1>1, <1>3 DEF KindsHold, HasKind, ContentClosed, control
<1>6. IndicesDistinct'
  BY <1>1 DEF IndicesDistinct, ContentClosed, control
<1>. QED  BY <1>3, <1>4, <1>5, <1>6 DEF Match

\* A block written in one go gets an index of its own.
LEMMA MatchStartsInline ==
    ASSUME ClientOK, Match, StartInlineBlock
    PROVE  Match'
<1>1. /\ CountsMatch /\ OpenMatch /\ KindsHold /\ IndicesDistinct /\ ContentClosed
      /\ step = "open" /\ step' = "fill" /\ inline' = nextIndex
      /\ UNCHANGED <<pc, part, toClose, tools, thinkingIndex, textIndex, thinkingStarted, textStarted>>
      /\ StartsBlock(InlineKind)
  BY DEF Match, StartInlineBlock
<1>2. (\A i : OpenTool(i)' <=> OpenTool(i)) /\ InlineKind' = InlineKind
  BY <1>1 DEF OpenTool, InlineKind
<1>3. /\ CountsMatch'
      /\ Indices' = Indices \cup {nextIndex} /\ nextIndex \notin Indices
      /\ nextIndex \notin closed /\ closed' = closed
      /\ blocks'[nextIndex + 1] = InlineKind
      /\ \A i \in Indices : blocks'[i + 1] = blocks[i + 1]
  BY <1>1, IndicesGrow
<1>4. OpenMatch'
  BY <1>1, <1>2, <1>3 DEF OpenMatch, OpenProse, OpenInline, ContentClosed
<1>5. KindsHold'
  BY <1>1, <1>2, <1>3 DEF KindsHold, HasKind, ContentClosed
<1>6. IndicesDistinct'
  BY <1>1, <1>3 DEF IndicesDistinct, ContentClosed, KindsHold, HasKind
<1>. QED  BY <1>3, <1>4, <1>5, <1>6 DEF Match

\* A tool gets an index that no other tool has.
LEMMA MatchStartsTool ==
    ASSUME ClientOK, ToolsOK, Match, PartsMatch, StartToolBlock
    PROVE  Match'
<1>1. /\ CountsMatch /\ OpenMatch /\ KindsHold /\ IndicesDistinct
      /\ step = "named" /\ call.index \in ToolIndices /\ ~tools[call.index].started
      /\ tools' = [tools EXCEPT ![call.index] = Opened(@, call)] /\ pc \notin {"close", "delta", "done"}
      /\ UNCHANGED <<control, thinkingIndex, textIndex, thinkingStarted, textStarted>>
      /\ StartsBlock("tool_use")
  BY DEF Match, StartToolBlock, PartsMatch, This
<1>2. /\ CountsMatch'
      /\ Indices' = Indices \cup {nextIndex} /\ nextIndex \notin Indices
      /\ nextIndex \notin closed /\ closed' = closed
      /\ blocks'[nextIndex + 1] = "tool_use"
      /\ \A i \in Indices : blocks'[i + 1] = blocks[i + 1]
  BY <1>1, IndicesGrow
<1>3. /\ \A t \in ToolIndices \ {call.index} : tools'[t] = tools[t]
      /\ tools'[call.index].started /\ tools'[call.index].index = nextIndex
  BY <1>1 DEF ToolsOK, Tool, Opened
<1>4. \A i : OpenTool(i)' <=> OpenTool(i) \/ i = nextIndex
  BY <1>1, <1>3 DEF control, OpenTool
<1>5. OpenMatch'
  BY <1>1, <1>2, <1>4 DEF OpenMatch, OpenProse, OpenInline, control
<1>6. KindsHold'
  BY <1>1, <1>2, <1>3 DEF KindsHold, HasKind, InlineKind, control
<1>7. IndicesDistinct'
  BY <1>1, <1>2, <1>3 DEF IndicesDistinct, ContentClosed, KindsHold, HasKind, control
<1>. QED  BY <1>2, <1>5, <1>6, <1>7 DEF Match

\* What changes when a block ends.
LEMMA MatchStops ==
    ASSUME Match,
           NEW index \in Indices, StopsBlock(index),
           UNCHANGED <<nextIndex, thinkingIndex, textIndex, inline, tools>>,
           UNCHANGED thinkingStarted \/ ~thinkingStarted', UNCHANGED textStarted \/ ~textStarted',
           step' = step \/ step' = "open", step \in {"fill", "stop"} /\ step' # "open" => part' = part,
           \A i \in Indices : OpenProse(i)' \/ OpenTool(i)' \/ OpenInline(i)' <=>
              i # index /\ (OpenProse(i) \/ OpenTool(i) \/ OpenInline(i))
    PROVE  Match'
<1>1. CountsMatch /\ OpenMatch /\ KindsHold /\ IndicesDistinct /\ Indices' = Indices
  BY DEF Match, Indices
<1>2. closed' = closed \cup {index} /\ blocks' = blocks
  BY DEF StopsBlock
<1>3. CountsMatch'
  BY <1>1, <1>2 DEF CountsMatch
<1>4. OpenMatch'
  BY <1>1, <1>2 DEF OpenMatch
<1>5. KindsHold'
  BY <1>1, <1>2 DEF KindsHold, HasKind, InlineKind
<1>6. IndicesDistinct'
  BY <1>1 DEF IndicesDistinct, ContentClosed
<1>. QED  BY <1>3, <1>4, <1>5, <1>6 DEF Match

\* The thinking or text block that ends is no tool's.
LEMMA MatchStopsProse ==
    ASSUME Match, PartsMatch, StopThinkingBlock \/ StopTextBlock
    PROVE  Match'
<1>1. CountsMatch /\ OpenMatch /\ KindsHold /\ IndicesDistinct
      /\ UNCHANGED <<control, nextIndex, thinkingIndex, textIndex, tools>>
  BY DEF Match, StopThinkingBlock, StopTextBlock
<1>2. \A i : OpenTool(i)' <=> OpenTool(i)
  BY <1>1 DEF control, OpenTool
<1>3. CASE StopThinkingBlock
  <2>1. /\ thinkingStarted /\ ~thinkingStarted' /\ UNCHANGED textStarted /\ ~textStarted
        /\ step \notin {"fill", "stop"} /\ StopsBlock(thinkingIndex)
        /\ thinkingIndex \in Indices /\ blocks[thinkingIndex + 1] = "thinking"
    BY <1>1, <1>3 DEF StopThinkingBlock, IndicesDistinct, KindsHold, HasKind, ContentClosed
  <2>2. ~OpenTool(thinkingIndex)
    BY <1>1, <2>1 DEF KindsHold, HasKind, OpenTool
  <2>3. \A i \in Indices : OpenProse(i)' \/ OpenTool(i)' \/ OpenInline(i)' <=>
              i # thinkingIndex /\ (OpenProse(i) \/ OpenTool(i) \/ OpenInline(i))
    BY <1>1, <1>2, <2>1, <2>2 DEF OpenProse, OpenInline, control
  <2>. QED  BY <1>1, <2>1, <2>3, MatchStops DEF control
<1>4. CASE StopTextBlock
  <2>1. /\ textStarted /\ ~textStarted' /\ UNCHANGED thinkingStarted /\ ~thinkingStarted
        /\ step \notin {"fill", "stop"} /\ StopsBlock(textIndex)
        /\ textIndex \in Indices /\ blocks[textIndex + 1] = "text"
    BY <1>1, <1>4 DEF StopTextBlock, IndicesDistinct, KindsHold, HasKind, ContentClosed
  <2>2. ~OpenTool(textIndex)
    BY <1>1, <2>1 DEF KindsHold, HasKind, OpenTool
  <2>3. \A i \in Indices : OpenProse(i)' \/ OpenTool(i)' \/ OpenInline(i)' <=>
              i # textIndex /\ (OpenProse(i) \/ OpenTool(i) \/ OpenInline(i))
    BY <1>1, <1>2, <2>1, <2>2 DEF OpenProse, OpenInline, control
  <2>. QED  BY <1>1, <2>1, <2>3, MatchStops DEF control
<1>. QED  BY <1>3, <1>4

\* The block written in one go ends alone.
LEMMA MatchStopsInline ==
    ASSUME Match, StopInlineBlock
    PROVE  Match'
<1>1. /\ CountsMatch /\ OpenMatch /\ KindsHold /\ IndicesDistinct
      /\ UNCHANGED <<pc, toClose, inline, nextIndex, thinkingIndex, textIndex, thinkingStarted,
                     textStarted, tools>>
      /\ step = "stop" /\ step' = "open" /\ StopsBlock(inline) /\ inline \in Indices
  BY DEF Match, StopInlineBlock, PartDone, builder, KindsHold, HasKind
<1>2. (\A i : OpenTool(i)' <=> OpenTool(i)) /\ ~OpenTool(inline)
  BY <1>1 DEF OpenTool, IndicesDistinct
<1>3. \A i \in Indices : OpenProse(i)' \/ OpenTool(i)' \/ OpenInline(i)' <=>
              i # inline /\ (OpenProse(i) \/ OpenTool(i) \/ OpenInline(i))
  BY <1>1, <1>2 DEF OpenProse, OpenInline, IndicesDistinct, ContentClosed
<1>. QED  BY <1>1, <1>3, MatchStops

\* A tool's block ends alone.
LEMMA MatchStopsTool ==
    ASSUME Match, PartsMatch, HasIndices, NEW t \in ToolIndices, StopToolBlock(t)
    PROVE  Match'
<1>1. /\ CountsMatch /\ OpenMatch /\ KindsHold /\ IndicesDistinct
      /\ UNCHANGED <<pc, part, step, inline, nextIndex, thinkingIndex, textIndex, thinkingStarted,
                     textStarted, tools>>
      /\ pc = "close" /\ step = "open" /\ ContentClosed
      /\ t \in toClose /\ toClose' = toClose \ {t} /\ StopsBlock(tools[t].index)
      /\ tools[t].started /\ tools[t].index \in Indices
  BY DEF Match, StopToolBlock, builder, PartsMatch, HasIndices, KindsHold, HasKind
<1>2. \A i : OpenTool(i)' <=> OpenTool(i) /\ i # tools[t].index
  BY <1>1 DEF OpenTool, IndicesDistinct
<1>3. \A i \in Indices : OpenProse(i)' \/ OpenTool(i)' \/ OpenInline(i)' <=>
              i # tools[t].index /\ (OpenProse(i) \/ OpenTool(i) \/ OpenInline(i))
  BY <1>1, <1>2 DEF OpenProse, OpenInline, ContentClosed
<1>. QED  BY <1>1, <1>3, MatchStops

\* Steps that begin and end no block.
LEMMA MatchStays ==
    ASSUME Match,
           UNCHANGED <<nextIndex, thinkingIndex, textIndex, thinkingStarted, textStarted,
                       blocks, closed>>,
           \A u \in ToolIndices : /\ tools'[u].started = tools[u].started
                                  /\ tools'[u].index = tools[u].index,
           \A i : OpenTool(i)' <=> OpenTool(i),
           \/ step \notin {"fill", "stop"} /\ step' \notin {"fill", "stop"}
           \/ step \in {"fill", "stop"} /\ step' \in {"fill", "stop"} /\ UNCHANGED <<part, inline>>
    PROVE  Match'
<1>1. CountsMatch /\ OpenMatch /\ KindsHold /\ IndicesDistinct /\ Indices' = Indices
  BY DEF Match, Indices
<1>2. CountsMatch'
  BY <1>1 DEF CountsMatch
<1>3. OpenMatch'
  BY <1>1 DEF OpenMatch, OpenProse, OpenInline
<1>4. KindsHold'
  BY <1>1 DEF KindsHold, HasKind, InlineKind
<1>5. IndicesDistinct'
  BY <1>1 DEF IndicesDistinct, ContentClosed
<1>. QED  BY <1>2, <1>3, <1>4, <1>5 DEF Match

\* Whoever has passed on the whole answer has passed on a line of it.
LEMMA RelayIsLong == relayed = 0 => ~RelayEnds
  BY DEF RelayEnds, Upstream

\* The agreement about the blocks survives every step but a relayed line.
LEMMA MatchStep ==
    ASSUME Basics, Match, Next, relayed = 0, ~RelayLine
    PROVE  Match'
<1>1. ControlOK /\ ProseOK /\ ToolsOK /\ ClientOK /\ PartsMatch /\ HasIndices
  BY DEF Basics
<1>2. CASE StopThinkingBlock \/ StopTextBlock
  BY <1>1, <1>2, MatchStopsProse
<1>3. CASE StartThinkingBlock
  BY <1>1, <1>3, MatchStartsThinking
<1>4. CASE StartTextBlock
  BY <1>1, <1>4, MatchStartsText
<1>5. CASE StartInlineBlock
  BY <1>1, <1>5, MatchStartsInline
<1>6. CASE StopInlineBlock
  BY <1>6, MatchStopsInline
<1>7. CASE StartToolBlock
  BY <1>1, <1>7, MatchStartsTool
<1>8. CASE \E t \in ToolIndices : StopToolBlock(t)
  BY <1>1, <1>8, MatchStopsTool
<1>9. CASE EmitThinkingDelta \/ EmitTextDelta \/ EmitToolDelta \/ FinishToolCall
  <2>1. /\ PartDone /\ UNCHANGED <<builder, blocks, closed>> /\ step \notin {"fill", "stop"}
    BY <1>1, <1>9
    DEF EmitThinkingDelta, EmitTextDelta, EmitToolDelta, FinishToolCall, SendsDelta, client, PartsMatch
  <2>. QED  BY <2>1, MatchStays DEF PartDone, builder, OpenTool
<1>10. CASE FillInlineBlock
  <2>1. /\ UNCHANGED <<pc, part, inline, toClose, builder, blocks, closed>>
        /\ step = "fill" /\ step' = "stop"
    BY <1>10 DEF FillInlineBlock, SendsDelta
  <2>. QED  BY <2>1, MatchStays DEF builder, OpenTool
<1>11. CASE RegisterToolName
  <2>1. \A u \in ToolIndices : /\ tools'[u].started = tools[u].started
                               /\ tools'[u].index = tools[u].index
    <3>1. ToolIndex(call) \in ToolIndices
      BY <1>1, <1>11 DEF RegisterToolName, PartsMatch
    <3>2. tools' = [tools EXCEPT ![ToolIndex(call)] = Named(@, call)]
      BY <1>11 DEF RegisterToolName
    <3>3. ASSUME NEW u \in ToolIndices  PROVE Named(tools[u], call).started = tools[u].started
                                           /\ Named(tools[u], call).index = tools[u].index
      BY <1>1, <3>3 DEF ToolsOK, Tool, Named
    <3>. QED  BY <1>1, <3>1, <3>2, <3>3 DEF ToolsOK
  <2>2. /\ UNCHANGED <<pc, toClose, nextIndex, thinkingIndex, textIndex, thinkingStarted,
                       textStarted, blocks, closed>>
        /\ step = "open" /\ step' = "named"
    BY <1>11 DEF RegisterToolName, client
  <2>. QED  BY <2>1, <2>2, MatchStays DEF OpenTool
<1>12. CASE BufferTaskArgs \/ TaskArgsRaise \/ \E t \in ToolIndices : FlushTaskArgs(t)
  <2>1. PICK t \in ToolIndices : \/ tools' = tools
                                 \/ tools' = [tools EXCEPT ![t] = Buffered(@)]
                                 \/ tools' = [tools EXCEPT ![t] = Sent(@)]
    BY <1>1, <1>12 DEF BufferTaskArgs, TaskArgsRaise, FlushTaskArgs, PartsMatch
  <2>2. \A u \in ToolIndices : /\ tools'[u].started = tools[u].started
                               /\ tools'[u].index = tools[u].index
    BY <1>1, <2>1, BufferTypes DEF ToolsOK
  <2>3. /\ UNCHANGED <<toClose, nextIndex, thinkingIndex, textIndex, thinkingStarted,
                       textStarted, blocks, closed>>
        /\ step \notin {"fill", "stop"} /\ step' \notin {"fill", "stop"}
        /\ pc \notin {"close", "delta", "done"} /\ pc' \notin {"close", "delta", "done"}
    BY <1>1, <1>12
    DEF BufferTaskArgs, TaskArgsRaise, FlushTaskArgs, PartDone, Fails, SendsDelta, client, control,
        PartsMatch
  <2>. QED  BY <2>2, <2>3, MatchStays DEF OpenTool
<1>13. CASE Begin \/ StreamEnds \/ StreamBreaks \/ FlushThinkTags \/ FlushHeuristicTools
            \/ EnsureBlock \/ Fallback \/ RelayBreaks \/ MessageDelta \/ MessageStop
            \/ \E p \in Parts, c \in Calls \cup {NoCall} : Receive(p, c)
  <2>1. /\ UNCHANGED <<builder, toClose, blocks, closed>>
        /\ step = "open" /\ step' = "open"
        /\ pc \in {"close", "delta", "done"} <=> pc' \in {"close", "delta", "done"}
    BY <1>1, <1>13
    DEF Begin, StreamEnds, StreamBreaks, FlushThinkTags, FlushHeuristicTools, EnsureBlock, Fallback,
        RelayBreaks, MessageDelta, MessageStop, Receive, Goes, GoesWith, Fails,
        SendsMessage, client, PartsMatch
  <2>. QED  BY <2>1, MatchStays DEF builder, OpenTool
<1>14. CASE CloseAllBlocks
  <2>1. /\ UNCHANGED <<builder, blocks, closed>> /\ step = "open" /\ step' = "open"
        /\ pc = "buffers" /\ toClose' = {t \in ToolIndices : tools[t].started}
    BY <1>1, <1>14 DEF CloseAllBlocks, client, PartsMatch
  <2>. QED  BY <2>1, MatchStays DEF builder, OpenTool
<1>. QED
  BY <1>2, <1>3, <1>4, <1>5, <1>6, <1>7, <1>8, <1>9, <1>10, <1>11, <1>12, <1>13, <1>14,
     RelayIsLong
  DEF Next, HandlePart, Finish, Relay
-----------------------------------------------------------------------------
(***************************************************************************)
(* What was sent last, and what may be open then.                          *)
(***************************************************************************)

EventsMatch ==
    /\ pc = "start" <=> event.type = "none"
    /\ pc = "delta" <=> event.type = "message_delta"
    /\ pc = "done" <=> event.type = "message_stop"

EndsEmpty == pc \in {"delta", "done"} => ContentClosed /\ toClose = {}

BuffersOpen == \A t \in ToolIndices : tools[t].buffered => tools[t].started

NamedClosed == step = "named" => ContentClosed

Core == Match /\ EventsMatch /\ EndsEmpty /\ BuffersOpen /\ NamedClosed

\* A block event is none of those that begin or end a message.
LEMMA BlockEvents ==
    ASSUME EventsMatch, PartsMatch, pc \notin {"start", "delta", "done"},
           \/ \E kind : StartsBlock(kind)
           \/ \E i : \E kind \in Protocol!BlockKinds : SendsDelta(kind, i)
           \/ \E i : StopsBlock(i)
           \/ UNCHANGED client,
           pc' \notin {"start", "delta", "done"}
    PROVE  EventsMatch'
  BY DEF EventsMatch, StartsBlock, SendsDelta, StopsBlock, client, Protocol!Event,
         Protocol!BlockKinds, Protocol!Prose

\* What was sent last still says where the loop is.
LEMMA EventsStep ==
    ASSUME Basics, EventsMatch, Next, relayed = 0, ~RelayLine
    PROVE  EventsMatch'
<1>1. ControlOK /\ PartsMatch
  BY DEF Basics
<1>2. "thinking" \in Protocol!BlockKinds /\ "text" \in Protocol!BlockKinds
      /\ "tool_use" \in Protocol!BlockKinds
  BY DEF Protocol!BlockKinds, Protocol!Prose
<1>3. CASE Begin \/ MessageDelta \/ MessageStop
  BY <1>1, <1>3
  DEF Begin, MessageDelta, MessageStop, SendsMessage, Goes, EventsMatch, Protocol!Event
<1>4. CASE StreamEnds \/ StreamBreaks \/ FlushThinkTags \/ FlushHeuristicTools \/ EnsureBlock
           \/ CloseAllBlocks \/ Fallback \/ RelayBreaks
           \/ \E p \in Parts, c \in Calls \cup {NoCall} : Receive(p, c)
  <2>1. /\ UNCHANGED client /\ pc \notin {"start", "delta", "done"}
        /\ pc' \notin {"start", "delta", "done"}
    BY <1>4
    DEF StreamEnds, StreamBreaks, FlushThinkTags, FlushHeuristicTools, EnsureBlock, CloseAllBlocks,
        Fallback, RelayBreaks, Receive, Goes, GoesWith, Fails
  <2>. QED  BY <1>1, <2>1, BlockEvents
<1>5. CASE HandlePart \/ \E t \in ToolIndices : FlushTaskArgs(t) \/ StopToolBlock(t)
  <2>1. pc \notin {"start", "delta", "done"} /\ pc' \notin {"start", "delta", "done"}
    BY <1>1, <1>5
    DEF HandlePart, StopThinkingBlock, StopTextBlock, StartThinkingBlock, StartTextBlock,
        EmitThinkingDelta, EmitTextDelta, StartInlineBlock, FillInlineBlock, StopInlineBlock,
        RegisterToolName, StartToolBlock, EmitToolDelta, BufferTaskArgs, FinishToolCall,
        TaskArgsRaise, FlushTaskArgs, StopToolBlock, PartDone, Fails, control, PartsMatch,
        ClosesContent
  <2>2. InlineKind \in Protocol!BlockKinds
    BY <1>2 DEF InlineKind
  <2>3. \/ \E kind : StartsBlock(kind)
        \/ \E i : \E kind \in Protocol!BlockKinds : SendsDelta(kind, i)
        \/ \E i : StopsBlock(i)
        \/ UNCHANGED client
    BY <1>2, <1>5, <2>2
    DEF HandlePart, StopThinkingBlock, StopTextBlock, StartThinkingBlock, StartTextBlock,
        EmitThinkingDelta, EmitTextDelta, StartInlineBlock, FillInlineBlock, StopInlineBlock,
        RegisterToolName, StartToolBlock, EmitToolDelta, BufferTaskArgs, FinishToolCall,
        TaskArgsRaise, FlushTaskArgs, StopToolBlock, Fails
  <2>. QED  BY <1>1, <2>1, <2>3, BlockEvents
<1>. QED  BY <1>3, <1>4, <1>5, RelayIsLong DEF Next, Finish, Relay

\* Only a tool with a block buffers arguments.
LEMMA BuffersStep ==
    ASSUME Basics, BuffersOpen, Next
    PROVE  BuffersOpen'
<1>1. ToolsOK /\ PartsMatch
  BY DEF Basics
<1>2. CASE RegisterToolName
  <2>1. ToolIndex(call) \in ToolIndices /\ tools' = [tools EXCEPT ![ToolIndex(call)] = Named(@, call)]
    BY <1>1, <1>2 DEF RegisterToolName, PartsMatch
  <2>2. ASSUME NEW t \in ToolIndices  PROVE /\ Named(tools[t], call).buffered = tools[t].buffered
                                            /\ Named(tools[t], call).started = tools[t].started
    BY <1>1, <2>2 DEF ToolsOK, Tool, Named
  <2>. QED  BY <1>1, <2>1, <2>2 DEF ToolsOK, BuffersOpen
<1>3. CASE StartToolBlock
  <2>1. call.index \in ToolIndices /\ tools' = [tools EXCEPT ![call.index] = Opened(@, call)]
    BY <1>1, <1>3 DEF StartToolBlock, PartsMatch
  <2>2. ASSUME NEW t \in ToolIndices  PROVE Opened(tools[t], call).started
    BY <1>1, <2>2 DEF ToolsOK, Tool, Opened
  <2>. QED  BY <1>1, <2>1, <2>2 DEF ToolsOK, BuffersOpen
<1>4. CASE BufferTaskArgs \/ TaskArgsRaise
  <2>1. /\ call.index \in ToolIndices /\ tools[call.index].started
        /\ \/ tools' = tools
           \/ tools' = [tools EXCEPT ![call.index] = Buffered(@)]
           \/ tools' = [tools EXCEPT ![call.index] = Sent(@)]
    BY <1>1, <1>4 DEF BufferTaskArgs, TaskArgsRaise, PartsMatch, This
  <2>. QED  BY <1>1, <2>1, BufferTypes DEF ToolsOK, BuffersOpen
<1>5. CASE \E t \in ToolIndices : FlushTaskArgs(t)
  <2>1. PICK t \in ToolIndices : /\ tools[t].buffered
                                 /\ tools' = [tools EXCEPT ![t] = Sent(@)]
    BY <1>5 DEF FlushTaskArgs
  <2>. QED  BY <1>1, <2>1, BufferTypes DEF ToolsOK, BuffersOpen
<1>6. CASE UNCHANGED tools
  BY <1>6 DEF BuffersOpen
<1>7. CASE \E t \in ToolIndices : StopToolBlock(t)
  BY <1>6, <1>7 DEF StopToolBlock, builder
<1>8. CASE CloseAllBlocks \/ MessageDelta \/ MessageStop \/ FlushThinkTags \/ FlushHeuristicTools
           \/ EnsureBlock \/ Begin \/ StreamEnds \/ StreamBreaks \/ Relay
           \/ \E p \in Parts, c \in Calls \cup {NoCall} : Receive(p, c)
  BY <1>6, <1>8
  DEF CloseAllBlocks, MessageDelta, MessageStop, FlushThinkTags, FlushHeuristicTools, EnsureBlock,
      Begin, StreamEnds, StreamBreaks, Relay, Fallback, RelayLine, RelayEnds, RelayBreaks, Receive,
      builder
<1>9. CASE StopThinkingBlock \/ StopTextBlock \/ StartThinkingBlock \/ StartTextBlock
           \/ EmitThinkingDelta \/ EmitTextDelta \/ StartInlineBlock \/ FillInlineBlock
           \/ StopInlineBlock \/ EmitToolDelta \/ FinishToolCall
  BY <1>6, <1>9
  DEF StopThinkingBlock, StopTextBlock, StartThinkingBlock, StartTextBlock, EmitThinkingDelta,
      EmitTextDelta, StartInlineBlock, FillInlineBlock, StopInlineBlock, EmitToolDelta,
      FinishToolCall, builder
<1>. QED
  BY <1>2, <1>3, <1>4, <1>5, <1>7, <1>8, <1>9 DEF Next, HandlePart, Finish

\* No prose is open when a tool call is handled or the message has ended.
LEMMA ClosedStep ==
    ASSUME Basics, EndsEmpty, NamedClosed, Next, relayed = 0, ~RelayLine
    PROVE  EndsEmpty' /\ NamedClosed'
<1>1. PartsMatch
  BY DEF Basics
<1>2. CASE StopThinkingBlock \/ StopTextBlock
  <2>1. UNCHANGED control /\ ~(part = "call" /\ step = "named") /\ pc \notin {"delta", "done"}
    BY <1>1, <1>2 DEF StopThinkingBlock, StopTextBlock, ClosesContent, PartsMatch
  <2>. QED  BY <1>1, <2>1 DEF EndsEmpty, NamedClosed, PartsMatch, control
<1>3. CASE StartThinkingBlock \/ StartTextBlock
  <2>1. UNCHANGED control /\ part # "call" /\ pc \notin {"delta", "done"}
    BY <1>1, <1>3 DEF StartThinkingBlock, StartTextBlock, PartsMatch
  <2>. QED  BY <1>1, <2>1 DEF EndsEmpty, NamedClosed, PartsMatch, control
<1>4. CASE RegisterToolName
  <2>1. ContentClosed' /\ pc' = pc /\ pc \notin {"delta", "done"}
    BY <1>1, <1>4 DEF RegisterToolName, PartsMatch, ContentClosed
  <2>. QED  BY <2>1 DEF EndsEmpty, NamedClosed
<1>5. CASE \/ EmitThinkingDelta \/ EmitTextDelta \/ StartInlineBlock \/ FillInlineBlock
           \/ StopInlineBlock \/ EmitToolDelta \/ BufferTaskArgs \/ FinishToolCall \/ TaskArgsRaise
           \/ StartToolBlock
  <2>1. /\ pc \notin {"delta", "done"} /\ pc' \notin {"delta", "done"}
        /\ step' \in {"open", "fill", "stop"} \/ step' = step
        /\ UNCHANGED <<thinkingStarted, textStarted>>
    BY <1>1, <1>5
    DEF EmitThinkingDelta, EmitTextDelta, StartInlineBlock, FillInlineBlock, StopInlineBlock,
        EmitToolDelta, BufferTaskArgs, FinishToolCall, TaskArgsRaise, StartToolBlock, PartDone,
        Fails, control, builder, PartsMatch
  <2>. QED  BY <2>1 DEF EndsEmpty, NamedClosed, ContentClosed
<1>6. CASE \/ Begin \/ StreamEnds \/ StreamBreaks \/ FlushThinkTags \/ FlushHeuristicTools
           \/ EnsureBlock \/ CloseAllBlocks \/ Fallback \/ RelayBreaks
           \/ (\E p \in Parts, c \in Calls \cup {NoCall} : Receive(p, c))
           \/ \E t \in ToolIndices : FlushTaskArgs(t) \/ StopToolBlock(t)
  <2>1. pc' \notin {"delta", "done"} /\ step' = "open"
    BY <1>1, <1>6
    DEF Begin, StreamEnds, StreamBreaks, FlushThinkTags, FlushHeuristicTools, EnsureBlock,
        CloseAllBlocks, Fallback, RelayBreaks, Receive, FlushTaskArgs, StopToolBlock, Goes, GoesWith,
        Fails, control, PartsMatch
  <2>. QED  BY <2>1 DEF EndsEmpty, NamedClosed
<1>7. CASE MessageDelta \/ MessageStop
  <2>1. ContentClosed' /\ toClose' = {}
    BY <1>7 DEF MessageDelta, MessageStop, Goes, builder, EndsEmpty, ContentClosed
  <2>. QED  BY <2>1 DEF EndsEmpty, NamedClosed
<1>. QED
  BY <1>2, <1>3, <1>4, <1>5, <1>6, <1>7, RelayIsLong DEF Next, HandlePart, Finish, Relay

\* All that relates the builder to the client survives.
LEMMA CoreStep ==
    ASSUME Basics, Core, Next, relayed = 0, ~RelayLine
    PROVE  Core'
  BY MatchStep, EventsStep, BuffersStep, ClosedStep DEF Core

IInv == Basics /\ (relayed = 0 => Core)

\* Builder and client agree in the beginning.
LEMMA CoreInit == Init => Core
<1>. SUFFICES ASSUME Init  PROVE Core
  OBVIOUS
<1>1. /\ pc = "start" /\ step = "open" /\ toClose = {} /\ ~thinkingStarted /\ ~textStarted
      /\ nextIndex = 0 /\ blocks = <<>> /\ closed = {}
      /\ event = Protocol!Event("none", -1)
      /\ \A t \in ToolIndices : ~tools[t].started /\ ~tools[t].buffered
  BY DEF Init, NoTool, Protocol!Init
<1>2. event.type = "none"
  BY <1>1 DEF Protocol!Event
<1>3. Indices = {}
  BY <1>1 DEF Indices
<1>4. Match
  BY <1>1, <1>3
  DEF Match, CountsMatch, OpenMatch, KindsHold, IndicesDistinct, ContentClosed
<1>. QED  BY <1>1, <1>2, <1>4 DEF Core, EventsMatch, EndsEmpty, BuffersOpen, NamedClosed

\* Only the fallback counts lines.
LEMMA RelayedStep ==
    ASSUME Basics, [Next]_vars
    PROVE  relayed \in Nat /\ (relayed' = relayed \/ RelayLine)
<1>1. relayed \in Nat
  BY DEF Basics, ControlOK
<1>2. CASE UNCHANGED vars
  BY <1>1, <1>2 DEF vars, control
<1>3. CASE Begin \/ StreamEnds \/ StreamBreaks \/ Relay
           \/ \E p \in Parts, c \in Calls \cup {NoCall} : Receive(p, c)
  BY <1>1, <1>3
  DEF Begin, StreamEnds, StreamBreaks, Relay, Fallback, RelayEnds, RelayBreaks, Receive, Goes, Fails
<1>4. CASE HandlePart
  BY <1>1, <1>4
  DEF HandlePart, StopThinkingBlock, StopTextBlock, StartThinkingBlock, StartTextBlock,
      EmitThinkingDelta, EmitTextDelta, StartInlineBlock, FillInlineBlock, StopInlineBlock,
      RegisterToolName, StartToolBlock, EmitToolDelta, BufferTaskArgs, FinishToolCall,
      TaskArgsRaise, PartDone, Fails, control
<1>5. CASE Finish
  BY <1>1, <1>5
  DEF Finish, FlushThinkTags, FlushHeuristicTools, EnsureBlock, CloseAllBlocks, MessageDelta,
      MessageStop, FlushTaskArgs, StopToolBlock, Goes, GoesWith, control
<1>. QED  BY <1>1, <1>2, <1>3, <1>4, <1>5 DEF Next

\* The invariant is inductive: once a line is relayed, only types are claimed.
LEMMA IInvStep == IInv /\ [Next]_vars => IInv'
<1>. SUFFICES ASSUME IInv, [Next]_vars  PROVE IInv'
  OBVIOUS
<1>1. Basics'
  BY BasicsStep DEF IInv
<1>2. relayed \in Nat /\ (relayed' = relayed \/ RelayLine)
  BY RelayedStep DEF IInv
<1>3. CASE RelayLine
  <2>1. relayed' # 0
    BY <1>2, <1>3 DEF RelayLine
  <2>. QED  BY <1>1, <2>1 DEF IInv
<1>4. CASE ~RelayLine /\ Next
  BY <1>1, <1>2, <1>4, CoreStep DEF IInv
<1>5. CASE UNCHANGED vars
  <2>1. UNCHANGED <<control, builder, client>>
    BY <1>5 DEF vars
  <2>2. Core => Core'
    <3>1. Match => Match'
      BY <2>1
      DEF Match, CountsMatch, OpenMatch, KindsHold, IndicesDistinct, Indices, HasKind, InlineKind,
          OpenProse, OpenTool, OpenInline, ContentClosed, control, builder, client
    <3>. QED
      BY <2>1, <3>1
      DEF Core, EventsMatch, EndsEmpty, BuffersOpen, NamedClosed, ContentClosed, control, builder,
          client
  <2>. QED  BY <1>1, <2>1, <2>2 DEF IInv, control
<1>. QED  BY <1>3, <1>4, <1>5

\* The inductive invariant holds in every state of every answer.
THEOREM Inductive == Spec => []IInv
<1>1. Init => IInv
  BY BasicsInit, CoreInit DEF IInv
<1>. QED  BY <1>1, IInvStep, PTL DEF Spec

\* The inductive invariant is stronger than StreamInv.
LEMMA CoreIsStreamInv == IInv => StreamInv
<1>. SUFFICES ASSUME IInv  PROVE StreamInv
  OBVIOUS
<1>1. TypeOK
  BY TypeParts DEF IInv, Basics
<1>2. ASSUME ~FallenBack  PROVE BuilderMatchesClient /\ KindsMatch /\ IndicesDistinct /\ PhasesMatch
  <2>1. Basics /\ Core
    BY <1>2 DEF IInv, FallenBack, Basics, ControlOK
  <2>2. CountsMatch /\ OpenMatch /\ KindsHold /\ IndicesDistinct
    BY <2>1 DEF Core, Match
  <2>3. BuilderMatchesClient
    BY <2>2 DEF CountsMatch, OpenMatch, Indices, BuilderMatchesClient
  <2>4. KindsMatch
    BY <2>2 DEF CountsMatch, KindsHold, HasKind, Indices, KindsMatch
  <2>5. PhasesMatch
    BY <2>1
    DEF Core, Basics, PartsMatch, HasIndices, EventsMatch, EndsEmpty, BuffersOpen, PhasesMatch
  <2>. QED  BY <2>2, <2>3, <2>4, <2>5
<1>. QED  BY <1>1, <1>2 DEF StreamInv

\* The flags and indices that sse_builder.py keeps in six places mean the
\* same open blocks as the events that the client has received.
THEOREM BuilderAgrees == Spec => []StreamInv
  BY Inductive, CoreIsStreamInv, PTL
-----------------------------------------------------------------------------
(***************************************************************************)
(* Every event that the proxy sends is one that the protocol allows.       *)
(***************************************************************************)

\* Between message_start and message_delta the client is in a message.
LEMMA InMessages == ASSUME EventsMatch, pc \notin {"start", "delta", "done"}
                    PROVE  Protocol!InMessage
  BY DEF EventsMatch, Protocol!InMessage

\* While no prose and no inline block is open, only tool calls are.
LEMMA StartFollows ==
    ASSUME Match, Protocol!InMessage, ContentClosed, step \notin {"fill", "stop"},
           NEW kind \in Protocol!BlockKinds, StartsBlock(kind)
    PROVE  Protocol!Next
<1>1. nextIndex = Len(blocks)
  BY DEF Match, CountsMatch
<1>2. ASSUME NEW i \in 0..(Len(blocks) - 1), Protocol!IsOpen(i)
      PROVE  blocks[i + 1] \notin Protocol!Prose
  <2>1. i \in Indices /\ i \notin closed
    BY <1>1, <1>2 DEF Indices, Protocol!IsOpen
  <2>2. OpenTool(i)
    BY <2>1 DEF Match, OpenMatch, OpenProse, OpenInline, ContentClosed
  <2>3. blocks[i + 1] = "tool_use"
    BY <2>2 DEF Match, KindsHold, HasKind, OpenTool
  <2>. QED  BY <2>3 DEF Protocol!Prose
<1>3. Protocol!BlockStart(kind)
  BY <1>1, <1>2 DEF StartsBlock, Protocol!BlockStart
<1>. QED  BY <1>3 DEF Protocol!Next

\* An index that the builder holds is that of an open block.
LEMMA HeldIsOpen ==
    ASSUME Match, NEW i, NEW kind, HasKind(i, kind), OpenProse(i) \/ OpenTool(i) \/ OpenInline(i)
    PROVE  i \in 0..(Len(blocks) - 1) /\ Protocol!IsOpen(i) /\ blocks[i + 1] = kind
<1>1. i \in Indices /\ blocks[i + 1] = kind /\ i \notin closed
  BY DEF HasKind, Match, OpenMatch
<1>2. Indices = 0..(Len(blocks) - 1)
  BY DEF Match, CountsMatch, Indices
<1>. QED  BY <1>1, <1>2 DEF Protocol!IsOpen

\* A delta to a held index goes into an open block of its kind.
LEMMA DeltaFollows ==
    ASSUME Match, Protocol!InMessage, NEW i, NEW kind \in Protocol!BlockKinds, HasKind(i, kind),
           OpenProse(i) \/ OpenTool(i) \/ OpenInline(i), SendsDelta(kind, i)
    PROVE  Protocol!Next
<1>1. i \in 0..(Len(blocks) - 1) /\ Protocol!IsOpen(i) /\ blocks[i + 1] = kind
  BY HeldIsOpen
<1>2. Protocol!BlockDelta(i, kind)
  BY <1>1 DEF SendsDelta, Protocol!BlockDelta
<1>. QED  BY <1>1, <1>2 DEF Protocol!Next

\* A stop for a held index ends an open block.
LEMMA StopFollows ==
    ASSUME Match, Protocol!InMessage, NEW i, NEW kind, HasKind(i, kind),
           OpenProse(i) \/ OpenTool(i) \/ OpenInline(i), StopsBlock(i)
    PROVE  Protocol!Next
<1>1. i \in 0..(Len(blocks) - 1) /\ Protocol!IsOpen(i)
  BY HeldIsOpen
<1>2. Protocol!BlockStop(i)
  BY <1>1 DEF StopsBlock, Protocol!BlockStop
<1>. QED  BY <1>1, <1>2 DEF Protocol!Next

\* The message begins and ends as it may.
LEMMA MessageFollows ==
    ASSUME Basics, Core, Begin \/ MessageDelta \/ MessageStop
    PROVE  Protocol!Next
<1>1. CASE Begin
  BY <1>1 DEF Begin, Core, EventsMatch, SendsMessage, Protocol!Next, Protocol!MessageStart
<1>2. CASE MessageDelta
  <2>1. pc = "close" /\ ContentClosed /\ toClose = {} /\ step = "open" /\ SendsMessage("message_delta")
    BY <1>2 DEF MessageDelta, Basics, PartsMatch
  <2>2. Indices \subseteq closed
    BY <2>1 DEF Core, Match, OpenMatch, OpenProse, OpenTool, OpenInline, ContentClosed
  <2>3. Indices = 0..(Len(blocks) - 1)
    BY DEF Core, Match, CountsMatch, Indices
  <2>4. Protocol!InMessage
    BY <2>1, InMessages DEF Core
  <2>5. Protocol!MessageDelta
    BY <2>1, <2>2, <2>3, <2>4 DEF SendsMessage, Protocol!MessageDelta
  <2>. QED  BY <2>5 DEF Protocol!Next
<1>3. CASE MessageStop
  BY <1>3 DEF MessageStop, Core, EventsMatch, SendsMessage, Protocol!Next, Protocol!MessageStop
<1>. QED  BY <1>1, <1>2, <1>3

\* Each event of a part is allowed.
LEMMA PartFollows ==
    ASSUME Basics, Core, HandlePart
    PROVE  Protocol!Next \/ UNCHANGED client
<1>1. /\ ControlOK /\ PartsMatch /\ Match /\ EventsMatch /\ NamedClosed /\ KindsHold
      /\ IndicesDistinct
  BY DEF Basics, Core, Match
<1>2. "thinking" \in Protocol!BlockKinds /\ "text" \in Protocol!BlockKinds
      /\ "tool_use" \in Protocol!BlockKinds /\ InlineKind \in Protocol!BlockKinds
  BY DEF Protocol!BlockKinds, Protocol!Prose, InlineKind
<1>3. pc \notin {"start", "delta", "done"}
  BY <1>1
  DEF HandlePart, StopThinkingBlock, StopTextBlock, StartThinkingBlock, StartTextBlock,
      EmitThinkingDelta, EmitTextDelta, StartInlineBlock, FillInlineBlock, StopInlineBlock,
      RegisterToolName, StartToolBlock, EmitToolDelta, BufferTaskArgs, FinishToolCall,
      TaskArgsRaise, PartsMatch, ClosesContent
<1>4. Protocol!InMessage
  BY <1>1, <1>3, InMessages
<1>5. CASE StopThinkingBlock
  BY <1>1, <1>4, <1>5, StopFollows DEF StopThinkingBlock, KindsHold, OpenProse
<1>6. CASE StopTextBlock
  BY <1>1, <1>4, <1>6, StopFollows DEF StopTextBlock, KindsHold, OpenProse
<1>7. CASE StartThinkingBlock
  BY <1>1, <1>2, <1>4, <1>7, StartFollows DEF StartThinkingBlock, PartsMatch
<1>8. CASE StartTextBlock
  BY <1>1, <1>2, <1>4, <1>8, StartFollows DEF StartTextBlock, PartsMatch
<1>9. CASE EmitThinkingDelta
  BY <1>1, <1>2, <1>4, <1>9, DeltaFollows DEF EmitThinkingDelta, KindsHold, OpenProse
<1>10. CASE EmitTextDelta
  BY <1>1, <1>2, <1>4, <1>10, DeltaFollows DEF EmitTextDelta, KindsHold, OpenProse
<1>11. CASE StartInlineBlock
  BY <1>2, <1>1, <1>4, <1>11, StartFollows DEF StartInlineBlock
<1>12. CASE FillInlineBlock
  BY <1>1, <1>2, <1>4, <1>12, DeltaFollows DEF FillInlineBlock, KindsHold, OpenInline
<1>13. CASE StopInlineBlock
  BY <1>1, <1>4, <1>13, StopFollows DEF StopInlineBlock, KindsHold, OpenInline
<1>14. CASE RegisterToolName \/ FinishToolCall \/ TaskArgsRaise
  BY <1>14 DEF RegisterToolName, FinishToolCall, TaskArgsRaise, Fails, client
<1>15. CASE StartToolBlock
  BY <1>1, <1>2, <1>4, <1>15, StartFollows DEF StartToolBlock, NamedClosed
<1>16. ASSUME part = "call", step = "named", This.started
       PROVE  HasKind(This.index, "tool_use") /\ OpenTool(This.index)
  BY <1>1, <1>16 DEF KindsHold, This, OpenTool, PartsMatch
<1>17. CASE EmitToolDelta
  BY <1>1, <1>2, <1>4, <1>16, <1>17, DeltaFollows DEF EmitToolDelta
<1>18. CASE BufferTaskArgs
  BY <1>1, <1>2, <1>4, <1>16, <1>18, DeltaFollows DEF BufferTaskArgs
<1>. QED
  BY <1>5, <1>6, <1>7, <1>8, <1>9, <1>10, <1>11, <1>12, <1>13, <1>14, <1>15, <1>17, <1>18
  DEF HandlePart

\* The last events of the tools are allowed.
LEMMA ToolFollows ==
    ASSUME Basics, Core, NEW t \in ToolIndices, FlushTaskArgs(t) \/ StopToolBlock(t)
    PROVE  Protocol!Next
<1>1. PartsMatch /\ HasIndices /\ Match /\ EventsMatch /\ BuffersOpen /\ KindsHold
  BY DEF Basics, Core, Match
<1>2. "tool_use" \in Protocol!BlockKinds
  BY DEF Protocol!BlockKinds
<1>3. Protocol!InMessage
  BY <1>1, InMessages DEF FlushTaskArgs, StopToolBlock
<1>4. HasKind(tools[t].index, "tool_use") /\ OpenTool(tools[t].index)
  BY <1>1 DEF FlushTaskArgs, StopToolBlock, BuffersOpen, HasIndices, KindsHold, OpenTool
<1>. QED
  BY <1>1, <1>2, <1>3, <1>4, DeltaFollows, StopFollows DEF FlushTaskArgs, StopToolBlock

\* Every step of the stream is one of the protocol or hidden from it.
LEMMA ProtocolStep ==
    ASSUME IInv, [Next]_vars
    PROVE  [FallenBack' \/ Protocol!Next]_client
<1>1. Basics /\ relayed \in Nat /\ (relayed' = relayed \/ RelayLine)
  BY RelayedStep DEF IInv
<1>2. CASE RelayLine \/ relayed # 0
  BY <1>1, <1>2 DEF FallenBack, RelayLine
<1>3. CASE UNCHANGED vars
  BY <1>3 DEF vars
<1>4. CASE Next /\ relayed = 0 /\ ~RelayLine
  <2>1. Core
    BY <1>4 DEF IInv
  <2>2. CASE Begin \/ MessageDelta \/ MessageStop
    BY <1>1, <2>1, <2>2, MessageFollows
  <2>3. CASE HandlePart
    BY <1>1, <2>1, <2>3, PartFollows
  <2>4. CASE \E t \in ToolIndices : FlushTaskArgs(t) \/ StopToolBlock(t)
    BY <1>1, <2>1, <2>4, ToolFollows
  <2>5. CASE StreamEnds \/ StreamBreaks \/ FlushThinkTags \/ FlushHeuristicTools \/ EnsureBlock
             \/ CloseAllBlocks \/ Fallback \/ RelayBreaks
             \/ \E p \in Parts, c \in Calls \cup {NoCall} : Receive(p, c)
    BY <2>5
    DEF StreamEnds, StreamBreaks, FlushThinkTags, FlushHeuristicTools, EnsureBlock, CloseAllBlocks,
        Fallback, RelayBreaks, Receive, Fails
  <2>. QED  BY <1>4, <2>2, <2>3, <2>4, <2>5, RelayIsLong DEF Next, Finish, Relay
<1>. QED  BY <1>2, <1>3, <1>4

\* As long as the proxy writes the answer itself, the client receives what
\* the protocol of the Messages API allows, wherever the provider breaks off.
THEOREM StreamImplementsProtocol == Spec => FollowsProtocol
<1>1. Init => Protocol!Init
  BY DEF Init
<1>2. IInv /\ [Next]_vars => [FallenBack' \/ Protocol!Next]_client
  BY ProtocolStep
<1>. QED  BY <1>1, <1>2, Inductive, PTL DEF Spec, FollowsProtocol
-----------------------------------------------------------------------------
(***************************************************************************)
(* A message is not empty.                                                 *)
(***************************************************************************)

HasBlock == blocks # <<>>

\* The client has a block, or all that came was the empty name of a tool.
Shown == HasBlock \/ \E t \in Known : ~tools[t].started

\* What _stream_response_impl looks at before it ensures a block, and what
\* its flags say of the blocks there are.
ShownInv ==
    /\ textIndex # -1 => HasBlock
    /\ \A t \in ToolIndices : tools[t].started => HasBlock
    /\ errorOccurred => HasBlock \/ (part = "error" /\ step = "open")
    /\ relayed >= 2 => HasBlock
    /\ pc = "buffers" => Shown \/ part = "text"
    /\ pc \in {"close", "delta"} \/ event.type = "message_delta" => Shown

\* Whatever begins a block leaves one.
LEMMA StartsLeaveBlock ==
    ASSUME ClientOK
    PROVE  \A kind \in Protocol!BlockKinds : blocks' = Append(blocks, kind) => HasBlock'
<1>. SUFFICES ASSUME NEW kind \in Protocol!BlockKinds, blocks' = Append(blocks, kind)
              PROVE  HasBlock'
  OBVIOUS
<1>1. Len(blocks') = Len(blocks) + 1 /\ Len(blocks) \in Nat
  BY AppendProperties DEF ClientOK
<1>2. Len(<<>>) = 0
  OBVIOUS
<1>. QED  BY <1>1, <1>2 DEF HasBlock

\* Blocks, and what is known of tools, only become more; a tool that starts
\* gets a block.
MoreShown ==
    /\ HasBlock => HasBlock'
    /\ \A t \in ToolIndices : /\ tools[t].known => tools'[t].known
                              /\ tools'[t].started => tools[t].started \/ HasBlock'

\* What is shown stays shown.
LEMMA ShownStays ==
    ASSUME MoreShown
    PROVE  Shown => Shown'
  BY DEF MoreShown, Shown, Known

\* Prose, and what is written in one go, leaves the tools alone.
LEMMA ProseShown ==
    ASSUME Basics, ShownInv,
           \/ StopThinkingBlock \/ StopTextBlock \/ StartThinkingBlock \/ StartTextBlock
           \/ EmitThinkingDelta \/ EmitTextDelta
           \/ StartInlineBlock \/ FillInlineBlock \/ StopInlineBlock
    PROVE  ShownInv'
<1>1. ControlOK /\ ProseOK /\ ClientOK /\ PartsMatch /\ HasIndices
  BY DEF Basics
<1>2. tools' = tools
  BY DEF StopThinkingBlock, StopTextBlock, StartThinkingBlock, StartTextBlock,
         EmitThinkingDelta, EmitTextDelta, StartInlineBlock, FillInlineBlock, StopInlineBlock,
         builder
<1>3. event'.type # "message_delta"
  BY DEF StopThinkingBlock, StopTextBlock, StartThinkingBlock, StartTextBlock,
         EmitThinkingDelta, EmitTextDelta, StartInlineBlock, FillInlineBlock, StopInlineBlock,
         StartsBlock, StopsBlock, SendsDelta, InlineKind, Protocol!Event
<1>4. CASE StartThinkingBlock \/ StartTextBlock \/ StartInlineBlock
  <2>1. HasBlock'
    BY <1>1, <1>4, StartsLeaveBlock
    DEF StartThinkingBlock, StartTextBlock, StartInlineBlock, StartsBlock, InlineKind,
        Protocol!BlockKinds, Protocol!Prose
  <2>. QED  BY <2>1 DEF ShownInv, Shown
<1>5. CASE \/ StopThinkingBlock \/ StopTextBlock
           \/ EmitThinkingDelta \/ EmitTextDelta \/ FillInlineBlock \/ StopInlineBlock
  <2>1. UNCHANGED <<blocks, textIndex, errorOccurred, relayed, pc>>
    BY <1>5
    DEF StopThinkingBlock, StopTextBlock, EmitThinkingDelta, EmitTextDelta, FillInlineBlock,
        StopInlineBlock, StopsBlock, SendsDelta, PartDone, builder, control
  <2>2. (HasBlock' <=> HasBlock) /\ (Shown' <=> Shown)
    BY <1>2, <2>1 DEF HasBlock, Shown, Known
  <2>3. \/ UNCHANGED <<part, step>>
        \/ EmitTextDelta \/ (EmitThinkingDelta /\ part = "thinking") \/ step \in {"fill", "stop"}
    BY <1>5
    DEF StopThinkingBlock, StopTextBlock, EmitThinkingDelta, FillInlineBlock, StopInlineBlock,
        control
  <2>4. CASE EmitTextDelta
    <3>1. HasBlock
      BY <1>1, <2>4 DEF EmitTextDelta, HasIndices, ShownInv
    <3>. QED  BY <2>2, <3>1 DEF ShownInv, Shown
  <2>5. CASE UNCHANGED <<part, step>>
    BY <1>2, <1>3, <2>1, <2>2, <2>5 DEF ShownInv
  <2>6. CASE EmitThinkingDelta /\ part = "thinking"
    BY <1>2, <1>3, <2>1, <2>2, <2>6 DEF ShownInv
  <2>7. CASE step \in {"fill", "stop"}
    BY <1>1, <1>2, <1>3, <2>1, <2>2, <2>7 DEF ShownInv, PartsMatch
  <2>. QED  BY <2>3, <2>4, <2>5, <2>6, <2>7
<1>. QED  BY <1>4, <1>5

\* A call makes tools known, and gives those that start a block.
LEMMA CallShows ==
    ASSUME Basics,
           \/ RegisterToolName \/ StartToolBlock \/ EmitToolDelta \/ BufferTaskArgs
           \/ FinishToolCall \/ TaskArgsRaise \/ \E t \in ToolIndices : FlushTaskArgs(t)
    PROVE  MoreShown
<1>1. ToolsOK /\ ClientOK /\ PartsMatch /\ ControlOK
  BY DEF Basics
<1>2. CASE StartToolBlock
  <2>1. HasBlock'
    BY <1>1, <1>2, StartsLeaveBlock DEF StartToolBlock, StartsBlock, Protocol!BlockKinds
  <2>2. call.index \in ToolIndices
    BY <1>1, <1>2 DEF StartToolBlock, PartsMatch
  <2>3. tools' = [tools EXCEPT ![call.index] = Opened(@, call)]
    BY <1>2 DEF StartToolBlock
  <2>4. \A tool \in Tool : Opened(tool, call).known
    BY DEF Opened, Tool
  <2>. QED  BY <1>1, <2>1, <2>2, <2>3, <2>4 DEF MoreShown, ToolsOK
<1>3. CASE RegisterToolName
  <2>1. ToolIndex(call) \in ToolIndices
    BY <1>1, <1>3 DEF RegisterToolName, PartsMatch
  <2>2. tools' = [tools EXCEPT ![ToolIndex(call)] = Named(@, call)] /\ UNCHANGED blocks
    BY <1>3 DEF RegisterToolName, client
  <2>3. \A tool \in Tool : /\ tool.known => Named(tool, call).known
                          /\ Named(tool, call).started = tool.started
    BY DEF Named, Tool
  <2>. QED  BY <1>1, <2>1, <2>2, <2>3 DEF MoreShown, ToolsOK, HasBlock
<1>4. CASE EmitToolDelta \/ FinishToolCall
  <2>1. UNCHANGED <<tools, blocks>>
    BY <1>4 DEF EmitToolDelta, FinishToolCall, builder, client, SendsDelta
  <2>. QED  BY <2>1 DEF MoreShown, HasBlock
<1>5. CASE BufferTaskArgs \/ TaskArgsRaise \/ \E t \in ToolIndices : FlushTaskArgs(t)
  <2>1. PICK t \in ToolIndices : \/ tools' = tools
                                 \/ tools' = [tools EXCEPT ![t] = Buffered(@)]
                                 \/ tools' = [tools EXCEPT ![t] = Sent(@)]
    BY <1>1, <1>5 DEF BufferTaskArgs, TaskArgsRaise, FlushTaskArgs, PartsMatch
  <2>2. UNCHANGED blocks
    BY <1>5 DEF BufferTaskArgs, TaskArgsRaise, FlushTaskArgs, Fails, SendsDelta, client
  <2>. QED  BY <1>1, <2>1, <2>2, BufferTypes DEF MoreShown, ToolsOK, HasBlock
<1>. QED  BY <1>2, <1>3, <1>4, <1>5

\* No part of a call is the text that is still to come, or an error.
LEMMA CallShown ==
    ASSUME Basics, ShownInv,
           \/ RegisterToolName \/ StartToolBlock \/ EmitToolDelta \/ BufferTaskArgs
           \/ FinishToolCall \/ TaskArgsRaise \/ \E t \in ToolIndices : FlushTaskArgs(t)
    PROVE  ShownInv'
<1>1. ControlOK /\ PartsMatch
  BY DEF Basics
<1>2. MoreShown /\ (Shown => Shown')
  BY CallShows, ShownStays
<1>3. textIndex' = textIndex /\ relayed' = relayed
  BY DEF RegisterToolName, StartToolBlock, EmitToolDelta, BufferTaskArgs, FinishToolCall,
         TaskArgsRaise, FlushTaskArgs, PartDone, Fails, builder, control
<1>4. event'.type = "message_delta" => event.type = "message_delta"
  BY DEF RegisterToolName, StartToolBlock, EmitToolDelta, BufferTaskArgs, FinishToolCall,
         TaskArgsRaise, FlushTaskArgs, Fails, client, StartsBlock, SendsDelta, Protocol!Event
<1>5. CASE TaskArgsRaise
  <2>1. pc' = "remaining" /\ part' = "error" /\ step' = "open"
    BY <1>5 DEF TaskArgsRaise, Fails
  <2>. QED  BY <1>2, <1>3, <1>4, <2>1 DEF ShownInv, MoreShown
<1>6. CASE ~TaskArgsRaise
  <2>1. part \in {"call", "none"} /\ UNCHANGED <<pc, errorOccurred>>
    BY <1>6
    DEF RegisterToolName, StartToolBlock, EmitToolDelta, BufferTaskArgs, FinishToolCall,
        FlushTaskArgs, PartDone, control
  <2>. QED  BY <1>2, <1>3, <1>4, <2>1 DEF ShownInv, MoreShown
<1>. QED  BY <1>5, <1>6

\* "Ensure at least one content block exists": it is, or a text will begin.
LEMMA EnsureShows ==
    ASSUME Basics, ShownInv, EnsureBlock
    PROVE  ShownInv'
<1>1. /\ part = "none" /\ pc' = "buffers" /\ part' \in {"none", "text"}
      /\ part' = "text" <=> ~errorOccurred /\ textIndex = -1 /\ Known = {}
      /\ UNCHANGED <<step, errorOccurred, relayed, builder, client>>
  BY DEF EnsureBlock, GoesWith
<1>2. Known # {} => Shown
  BY DEF Known, Shown, ShownInv
<1>3. Shown \/ part' = "text"
  BY <1>1, <1>2 DEF ShownInv, Shown
<1>4. (HasBlock' <=> HasBlock) /\ (Shown' <=> Shown)
  BY <1>1 DEF HasBlock, Shown, Known, builder, client
<1>. QED  BY <1>1, <1>3, <1>4 DEF ShownInv, builder, client

\* The lines of another answer begin a block before they end the message.
LEMMA RelayShown ==
    ASSUME Basics, ShownInv, RelayLine
    PROVE  ShownInv'
<1>1. /\ relayed \in Nat /\ relayed < Len(Upstream) /\ relayed' = relayed + 1 /\ pc = "relay"
      /\ event' = Upstream[relayed + 1]
      /\ blocks' = IF event'.type = "content_block_start" THEN Append(blocks, "text") ELSE blocks
      /\ UNCHANGED <<pc, part, step, errorOccurred, builder>>
  BY DEF RelayLine, Basics, ControlOK
<1>2. Len(Upstream) = 6 /\ Upstream[1].type = "message_start"
      /\ Upstream[2].type = "content_block_start"
  BY DEF Upstream, Protocol!Event
<1>3. "text" \in Protocol!BlockKinds /\ ClientOK
  BY DEF Protocol!BlockKinds, Protocol!Prose, Basics
<1>4. HasBlock => HasBlock'
  BY <1>1, <1>3, StartsLeaveBlock DEF HasBlock
<1>5. CASE relayed = 0
  <2>1. event'.type = "message_start" /\ blocks' = blocks
    BY <1>1, <1>2, <1>5
  <2>. QED  BY <1>1, <1>5, <2>1 DEF ShownInv, HasBlock, builder
<1>6. CASE relayed # 0
  <2>1. HasBlock'
    <3>1. CASE relayed = 1
      <4>1. event'.type = "content_block_start"
        BY <1>1, <1>2, <3>1
      <4>. QED  BY <1>1, <1>3, <4>1, StartsLeaveBlock
    <3>2. CASE relayed # 1
      BY <1>1, <1>4, <1>6, <3>2 DEF ShownInv
    <3>. QED  BY <3>1, <3>2
  <2>. QED  BY <2>1 DEF ShownInv, Shown
<1>. QED  BY <1>5, <1>6

\* The course of _stream_response_impl ends a message only after the ensuring.
LEMMA FlowShown ==
    ASSUME Basics, ShownInv,
           \/ Begin \/ StreamEnds \/ (\E p \in Parts, c \in Calls \cup {NoCall} : Receive(p, c))
           \/ FlushThinkTags \/ FlushHeuristicTools \/ CloseAllBlocks
           \/ MessageDelta \/ MessageStop \/ Fallback \/ RelayEnds
           \/ StreamBreaks \/ RelayBreaks \/ (\E t \in ToolIndices : StopToolBlock(t))
    PROVE  ShownInv'
<1>1. ControlOK /\ PartsMatch
  BY DEF Basics
<1>2. UNCHANGED <<builder, blocks, relayed>>
  BY DEF Begin, StreamEnds, Receive, FlushThinkTags, FlushHeuristicTools, CloseAllBlocks,
         MessageDelta, MessageStop, Fallback, RelayEnds, StreamBreaks, RelayBreaks, StopToolBlock,
         Goes, GoesWith, Fails, SendsMessage, StopsBlock, client
<1>3. UNCHANGED <<textIndex, tools>> /\ (HasBlock' <=> HasBlock) /\ (Shown' <=> Shown)
  BY <1>2 DEF HasBlock, Shown, Known, builder
<1>4. CASE StreamBreaks \/ RelayBreaks
  <2>1. pc' = "remaining" /\ part' = "error" /\ step' = "open" /\ event' = event
    BY <1>4 DEF StreamBreaks, RelayBreaks, Fails, client
  <2>. QED  BY <1>2, <1>3, <2>1 DEF ShownInv
<1>5. CASE MessageDelta
  <2>1. pc = "close" /\ pc' = "delta" /\ UNCHANGED <<part, step, errorOccurred>>
    BY <1>5 DEF MessageDelta, Goes
  <2>. QED  BY <1>2, <1>3, <2>1 DEF ShownInv
<1>6. CASE CloseAllBlocks
  <2>1. /\ pc = "buffers" /\ part = "none" /\ pc' = "close"
        /\ UNCHANGED <<part, step, errorOccurred, event>>
    BY <1>6 DEF CloseAllBlocks, client
  <2>. QED  BY <1>2, <1>3, <2>1 DEF ShownInv
<1>7. CASE \E t \in ToolIndices : StopToolBlock(t)
  <2>1. /\ event'.type # "message_delta" /\ UNCHANGED <<pc, part, step, errorOccurred>>
    BY <1>7 DEF StopToolBlock, StopsBlock, Protocol!Event
  <2>. QED  BY <1>2, <1>3, <2>1 DEF ShownInv
<1>8. CASE \/ Begin \/ StreamEnds \/ (\E p \in Parts, c \in Calls \cup {NoCall} : Receive(p, c))
           \/ FlushThinkTags \/ FlushHeuristicTools \/ MessageStop \/ Fallback \/ RelayEnds
  <2>1. part # "error" /\ UNCHANGED errorOccurred
    BY <1>1, <1>8
    DEF Begin, StreamEnds, Receive, FlushThinkTags, FlushHeuristicTools, MessageStop, Fallback,
        RelayEnds, Goes, GoesWith, PartsMatch
  <2>2. pc' \notin {"buffers", "close", "delta"}
    BY <1>8
    DEF Begin, StreamEnds, Receive, FlushThinkTags, FlushHeuristicTools, MessageStop, Fallback,
        RelayEnds, Goes, GoesWith
  <2>3. event'.type = "message_delta" => event.type = "message_delta"
    BY <1>8
    DEF Begin, StreamEnds, Receive, FlushThinkTags, FlushHeuristicTools, MessageStop, Fallback,
        RelayEnds, SendsMessage, client, Protocol!Event
  <2>. QED  BY <1>2, <1>3, <2>1, <2>2, <2>3 DEF ShownInv
<1>. QED  BY <1>4, <1>5, <1>6, <1>7, <1>8

\* Every step keeps what is known of what is shown.
LEMMA ShownStep == Basics /\ ShownInv /\ [Next]_vars => ShownInv'
<1>. SUFFICES ASSUME Basics, ShownInv, [Next]_vars  PROVE ShownInv'
  OBVIOUS
<1>1. CASE UNCHANGED vars
  <2>1. UNCHANGED <<control, builder, client>>
    BY <1>1 DEF vars
  <2>2. (HasBlock' <=> HasBlock) /\ (Shown' <=> Shown)
    BY <2>1 DEF HasBlock, Shown, Known, builder, client
  <2>. QED  BY <2>1, <2>2 DEF ShownInv, control, builder, client
<1>2. CASE Next
  BY <1>2, ProseShown, CallShown, EnsureShows, RelayShown, FlowShown
  DEF Next, HandlePart, Finish, Relay
<1>. QED  BY <1>1, <1>2

\* Whatever the provider sends, wherever it breaks and whether or not the
\* fallback takes over, a message that ends has a block, unless all that came
\* was the empty name of a tool.
THEOREM SomethingIsShown == Spec => []SomethingShown
<1>1. Init => ShownInv
  <2>. SUFFICES ASSUME Init  PROVE ShownInv
    OBVIOUS
  <2>1. /\ textIndex = -1 /\ ~errorOccurred /\ relayed = 0 /\ pc = "start"
        /\ event = Protocol!Event("none", -1) /\ \A t \in ToolIndices : ~tools[t].started
    BY DEF Init, NoTool, Protocol!Init
  <2>2. event.type = "none"
    BY <2>1 DEF Protocol!Event
  <2>. QED  BY <2>1, <2>2 DEF ShownInv
<1>2. IInv /\ ShownInv /\ [Next]_vars => ShownInv'
  BY ShownStep DEF IInv
<1>3. ShownInv => SomethingShown
  BY DEF ShownInv, Shown, HasBlock, SomethingShown
<1>. QED  BY <1>1, <1>2, <1>3, Inductive, PTL DEF Spec
=============================================================================

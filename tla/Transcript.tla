----------------------------- MODULE Transcript ------------------------------
(* The transcript of a run: parse_cli_event (messaging/event_parser.py),     *)
(* which turns an event of the CLI into small events, TranscriptBuffer.apply *)
(* and render (messaging/transcript.py), which keep the segments a user is to*)
(* see and cut them to the size of a message.                                *)
(*                                                                           *)
(* A piece of text is a number, an id a value of Ids (or none), and of the   *)
(* formatting only the sizes are kept.                                       *)
EXTENDS Integers, Sequences, FiniteSets, SequencesExt

CONSTANTS
    Ids,          \* tool_use ids
    Alike,        \* pairs of ids one of which is the beginning of the other
    TaskLike,     \* ids with "task" in them
    Indexes,      \* indexes of content blocks
    NoId,         \* the empty id
    Limit,        \* limit_chars
    TailMax,      \* the longest tail shown of a text
    StatusSize,   \* the length of a status with its empty line
    MinBudget     \* how much room makes the tail of a segment worth showing

NoIndex == -1
Synthetic == "__task_"        \* stands on the stack for a Task without an id

ASSUME TranscriptAssumption ==
    /\ NoId \notin Ids /\ Synthetic \notin Ids
    /\ TaskLike \subseteq Ids /\ Alike \subseteq Ids \X Ids
    /\ Indexes \subseteq Nat
    /\ {Limit, TailMax, StatusSize, MinBudget} \subseteq Nat
    /\ StatusSize <= Limit

-----------------------------------------------------------------------------
(* parse_cli_event.                                                          *)

Parsed(type, i, id, name, text) ==
    [type |-> type, index |-> i, id |-> id, name |-> name, text |-> text]
Just(type) == Parsed(type, NoIndex, NoId, "", 0)

(* A block of a full message.                                                *)
ParsedBlock(b) ==
    CASE b.type = "text"        -> <<Parsed("text_chunk", NoIndex, NoId, "", b.text)>>
      [] b.type = "thinking"    -> <<Parsed("thinking_chunk", NoIndex, NoId, "", b.text)>>
      [] b.type = "tool_use"    -> <<Parsed("tool_use", NoIndex, b.id, b.name, 0)>>
      [] b.type = "tool_result" -> <<Parsed("tool_result", NoIndex, b.id, "", 0)>>
      [] OTHER                  -> <<>>

(* The start of a streamed block.                                            *)
ParsedStart(i, b) ==
    CASE b.type = "text"     -> <<Parsed("text_start", i, NoId, "", 0)>>
      [] b.type = "thinking" -> <<Parsed("thinking_start", i, NoId, "", 0)>>
      [] b.type = "tool_use" -> <<Parsed("tool_use_start", i, b.id, b.name, 0)>>
      [] OTHER               -> <<>>

ParsedDelta(i, b) ==
    CASE b.type = "text"     -> <<Parsed("text_delta", i, NoId, "", b.text)>>
      [] b.type = "thinking" -> <<Parsed("thinking_delta", i, NoId, "", b.text)>>
      [] b.type = "tool_use" -> <<Parsed("tool_use_delta", i, NoId, "", 0)>>
      [] OTHER               -> <<>>

ParseCliEvent(event) ==
    CASE event.type = "message"             -> ParsedBlock(event.block)
      [] event.type = "content_block_start" -> ParsedStart(event.index, event.block)
      [] event.type = "content_block_delta" -> ParsedDelta(event.index, event.block)
      [] event.type = "content_block_stop"  ->
            <<Parsed("block_stop", event.index, NoId, "", 0)>>
      [] event.type = "error"               -> <<Just("error")>>
      [] event.type = "exit"                ->
            IF event.code = 0 THEN <<Just("complete")>>
                              ELSE <<Just("error"), Just("complete")>>
      [] OTHER                              -> <<>>

-----------------------------------------------------------------------------
(* The buffer.  An open block is known by the position of its segment (0 is  *)
(* none); stack holds the ids of the Tasks that are under way and agents the *)
(* positions of their segments.                                              *)

NewTranscript ==
    [segs     |-> <<>>,
     thinking |-> [i \in Indexes |-> 0],
     text     |-> [i \in Indexes |-> 0],
     tools    |-> {},
     names    |-> [x \in Ids |-> ""],
     stack    |-> <<>>,
     agents   |-> <<>>]

Adds(t, kind, parts) == [t EXCEPT !.segs = Append(@, [kind |-> kind, parts |-> parts])]
InSubagent(t) == t.stack # <<>>

(* block_stop, and what a new block does first to an index in use: the first *)
(* of the three that knows the index forgets it.                             *)
BlockStop(t, i) ==
    IF i \notin Indexes THEN t
    ELSE IF i \in t.tools       THEN [t EXCEPT !.tools = @ \ {i}]
    ELSE IF t.thinking[i] # 0   THEN [t EXCEPT !.thinking[i] = 0]
    ELSE                             [t EXCEPT !.text[i] = 0]

(* A new segment for a block of thinking or text.                            *)
Opens(t, kind, i) ==
    LET u == Adds(BlockStop(t, i), kind, <<>>) IN
    IF i \notin Indexes THEN u
    ELSE IF kind = "thinking" THEN [u EXCEPT !.thinking[i] = Len(u.segs)]
                              ELSE [u EXCEPT !.text[i] = Len(u.segs)]

OpenAt(t, kind, i) == IF i \notin Indexes THEN 0
                      ELSE IF kind = "thinking" THEN t.thinking[i] ELSE t.text[i]

(* A delta goes to the open segment of its index, a chunk and a delta that   *)
(* finds none to a new one.                                                  *)
Grows(t, kind, i, piece) ==
    IF OpenAt(t, kind, i) # 0
      THEN [t EXCEPT !.segs[OpenAt(t, kind, i)].parts = Append(@, piece)]
      ELSE LET u == Adds(t, kind, <<piece>>) IN
           IF i \notin Indexes THEN u
           ELSE IF kind = "thinking" THEN [u EXCEPT !.thinking[i] = Len(u.segs)]
                                     ELSE [u EXCEPT !.text[i] = Len(u.segs)]

(* The ids of a Task and of its result are compared roughly.                 *)
RoughlyMatch(a, b) == a = b \/ <<a, b>> \in Alike \/ <<b, a>> \in Alike

(* The stacks cut down to the first n.                                       *)
CutTo(t, n) == [t EXCEPT !.stack = SubSeq(@, 1, n), !.agents = SubSeq(@, 1, n)]

\* Mutant of SubagentPop: the ids have to be the same.
SubagentPopExact(t, id) ==
    IF \E n \in DOMAIN t.stack : id # NoId /\ t.stack[n] = id
      THEN CutTo(t, (CHOOSE n \in DOMAIN t.stack : t.stack[n] = id) - 1)
    ELSE IF id = NoId /\ Last(t.stack) = Synthetic THEN CutTo(t, Len(t.stack) - 1)
    ELSE t

(* The last entry that matches goes, with all above it; a result without an  *)
(* id closes a Task without one.                                             *)
SubagentPop(t, id) ==
    LET matching == {n \in DOMAIN t.stack : RoughlyMatch(t.stack[n], id)} IN
    IF id # NoId /\ matching # {}
      THEN CutTo(t, (CHOOSE n \in matching : \A k \in matching : k <= n) - 1)
    ELSE IF id = NoId /\ Last(t.stack) = Synthetic THEN CutTo(t, Len(t.stack) - 1)
    ELSE t

SubagentPush(t, id) ==
    [t EXCEPT !.stack = Append(@, IF id = NoId THEN Synthetic ELSE id),
              !.agents = Append(@, Len(t.segs))]

(* A Task is a subagent; any other tool is a segment of its own, or the      *)
(* current tool of the subagent it is called in.                             *)
ToolUse(t, ev) ==
    LET u == IF ev.id = NoId THEN t ELSE [t EXCEPT !.names[ev.id] = ev.name] IN
    IF ev.name = "Task" THEN SubagentPush(Adds(u, "subagent", <<>>), ev.id)
    ELSE IF InSubagent(u) THEN [u EXCEPT !.segs[Last(u.agents)].parts = Append(@, ev.id)]
    ELSE Adds(u, "tool_call", <<ev.id>>)

ToolUseStart(t, ev) ==
    LET u == ToolUse(BlockStop(t, ev.index), ev) IN
    IF ev.name # "Task" /\ ev.index \in Indexes
      THEN [u EXCEPT !.tools = @ \cup {ev.index}] ELSE u

(* The result of a Task closes its subagent, also when its id was left out   *)
(* at the start and is one of a Task now.  Results are not shown.            *)
ToolResult(t, id) ==
    IF ~InSubagent(t) THEN t
    ELSE LET u == SubagentPop(t, id) IN
         IF /\ u = t /\ id \in TaskLike
            /\ Last(t.stack) = Synthetic /\ t.names[id] \in {"", "Task"}
           THEN SubagentPop(t, NoId) ELSE u

HiddenInSubagent == {"thinking_start", "thinking_delta", "thinking_chunk",
                     "text_start", "text_delta", "text_chunk"}

Apply(t, ev) ==
    IF InSubagent(t) /\ ev.type \in HiddenInSubagent THEN t
    ELSE CASE ev.type = "thinking_start" -> Opens(t, "thinking", ev.index)
           [] ev.type = "text_start"     -> Opens(t, "text", ev.index)
           [] ev.type \in {"thinking_delta", "thinking_chunk"} ->
                 Grows(t, "thinking", ev.index, ev.text)
           [] ev.type \in {"text_delta", "text_chunk"} ->
                 Grows(t, "text", ev.index, ev.text)
           [] ev.type = "tool_use_start" -> ToolUseStart(t, ev)
           [] ev.type = "tool_use"       -> ToolUse(t, ev)
           [] ev.type = "block_stop"     -> BlockStop(t, ev.index)
           [] ev.type = "tool_result"    -> ToolResult(t, ev.id)
           [] ev.type = "error"          -> Adds(t, "error", <<>>)
           [] OTHER                      -> t

-----------------------------------------------------------------------------
(* render.                                                                   *)

(* A segment of thinking or text shows its last TailMax pieces; an empty text*)
(* shows nothing and is left out.                                            *)
SizeOf(seg) ==
    CASE seg.kind = "thinking" -> 1 + (IF Len(seg.parts) > TailMax THEN TailMax
                                                                 ELSE Len(seg.parts))
      [] seg.kind = "text"     -> IF Len(seg.parts) > TailMax THEN TailMax
                                                              ELSE Len(seg.parts)
      [] seg.kind = "subagent" -> 2
      [] OTHER                 -> 1

MarkerSize == 1               \* "... (truncated)"

(* What is shown: a function that gives some positions their segments; first *)
(* all of the segments that are not empty.                                   *)
Rendered(t) == Restrict(t.segs, {n \in DOMAIN t.segs : SizeOf(t.segs[n]) > 0})

(* Its size, joined by line ends: a segment fills as many cells as it has    *)
(* pieces, and all but one end a line.                                       *)
Cells(shown) == UNION {{n} \X (0..SizeOf(shown[n])) : n \in DOMAIN shown}
SizeOfAll(shown) == IF DOMAIN shown = {} THEN 0 ELSE Cardinality(Cells(shown)) - 1

StatusLength(status) == IF status = "" THEN 0 ELSE StatusSize

(* What is sent: some segments, perhaps after a marker, or only the tail of  *)
(* the newest one, then the status.                                          *)
Display(shown, marker, tail, status) ==
    [shown |-> shown, marker |-> marker, tail |-> tail, status |-> status]

\* Mutant of Render: the newest segments are dropped first.
RenderHead(t, status) ==
    LET all  == Rendered(t)
        room == Limit - StatusLength(status)
        To(k) == Restrict(all, {n \in DOMAIN all : n <= k})
        fit  == {k \in 0..Len(t.segs) : SizeOfAll(To(k)) <= room}
    IN  IF SizeOfAll(all) <= room THEN Display(all, FALSE, 0, status)
        ELSE Display(To(CHOOSE k \in fit : \A j \in fit : j <= k), TRUE, 0, status)

From(shown, k) == Restrict(shown, {n \in DOMAIN shown : k <= n})
Newest(shown)  == Restrict(shown, {n \in DOMAIN shown : \A k \in DOMAIN shown : k <= n})

(* Everything if it fits; otherwise the oldest segments go, one by one, and  *)
(* at last the beginning of the newest.                                      *)
Render(t, status) ==
    LET all  == Rendered(t)
        room == Limit - StatusLength(status)
        fit  == {k \in DOMAIN all : SizeOfAll(From(all, k)) + MarkerSize <= room}
        budget == room - MarkerSize
    IN  IF SizeOfAll(all) <= room THEN Display(all, FALSE, 0, status)
        ELSE IF fit # {}
               THEN Display(From(all, CHOOSE k \in fit : \A j \in fit : k <= j),
                            TRUE, 0, status)
        ELSE IF budget > MinBudget THEN Display(Newest(all), TRUE, budget, status)
        ELSE IF MarkerSize <= room THEN Display(<<>>, TRUE, 0, status)
        ELSE Display(<<>>, FALSE, 0, status)
=============================================================================

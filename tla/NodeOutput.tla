----------------------------- MODULE NodeOutput ------------------------------
(* What a run of a node writes: the loop of _process_node_impl over the      *)
(* events of the CLI with _process_parsed_event and update_ui                *)
(* (messaging/handler.py), on top of the transcript.  The CLI is the         *)
(* environment: it tells with ghosts which text belongs to the conversation  *)
(* and which to a subagent.                                                  *)
EXTENDS Transcript

CONSTANT MaxEvents    \* how many events the CLI sends

ASSUME OutputAssumption == MaxEvents \in Nat

VARIABLES
    transcript,   \* the TranscriptBuffer
    parsed,       \* parsed events of the current event still to be handled
    await,        \* what the handler does after the edit it awaits
    node,         \* state of the node, the session id known, had_transcript_events
    ui,           \* last_displayed_text, last_status; events come slowly
    cli,          \* the CLI: subagents, tools under way, open block, what it said
    cancelled     \* the task has been cancelled

vars == <<transcript, parsed, await, node, ui, cli, cancelled>>

Nothing == Display(<<>>, FALSE, 0, "nothing yet")
NoBlock == [type |-> "none"]

Init ==
    /\ transcript = NewTranscript
    /\ parsed = <<>>
    /\ await = "event"
    /\ node = [state |-> "in_progress", session |-> FALSE, had |-> FALSE]
    /\ ui \in [display : {Nothing}, status : {""}, slow : BOOLEAN]
    /\ \E streams \in BOOLEAN :
          cli = [agents |-> <<>>, calls |-> {}, block |-> NoBlock, said |-> <<>>,
                 sent |-> 0, exit |-> "running", streams |-> streams]
    /\ cancelled = FALSE

-----------------------------------------------------------------------------
(* update_ui: what the message shows after it.                               *)

(* Not within a second of the last one unless it is forced; an edit that     *)
(* changes nothing is not sent.                                              *)
UpdateUi(t, status, force) ==
    IF force \/ ui.slow \/ ui.display = Nothing THEN Render(t, status) ELSE ui.display

-----------------------------------------------------------------------------
(* _process_parsed_event.                                                    *)

TranscriptEventTypes ==
    {"thinking_start", "thinking_delta", "thinking_chunk", "text_start", "text_delta",
     "text_chunk", "tool_use_start", "tool_use_delta", "tool_use", "tool_result",
     "block_stop", "error"}

StatusForEvent(ev) ==
    CASE ev.type \in {"thinking_start", "thinking_delta", "thinking_chunk"} -> "thinking"
      [] ev.type \in {"text_start", "text_delta", "text_chunk"}             -> "working"
      [] ev.type \in {"tool_use_start", "tool_use_delta", "tool_use"}       ->
            IF ev.name = "Task" THEN "subagent" ELSE "tools"
      [] ev.type = "tool_result"                                            -> "tools"
      [] OTHER                                                              -> ""

(* What is left to do when the edit of an event has been sent.               *)
AfterEdit(ev) == IF ev.type \in {"complete", "error"} THEN ev.type ELSE "event"

Done == Parsed("text_chunk", NoIndex, NoId, "", 0)

(* The transcript takes the event, then the message is updated; a task that  *)
(* said nothing says Done.  last_status is that of the latest event that has *)
(* one, whether it was shown or not.                                         *)
HandleParsed ==
    /\ await = "event" /\ parsed # <<>>
    /\ LET ev == Head(parsed)
           t  == IF ev.type \in TranscriptEventTypes THEN Apply(transcript, ev)
                 ELSE IF ev.type = "complete" /\ ~node.had THEN Apply(transcript, Done)
                 ELSE transcript
           status == StatusForEvent(ev)
       IN  /\ transcript' = t
           /\ node' = [node EXCEPT !.had = @ \/ ev.type \in TranscriptEventTypes]
           /\ await' = AfterEdit(ev)
           /\ ui' = [ui EXCEPT
                 !.display = CASE status # ""           -> UpdateUi(t, status, FALSE)
                               [] ev.type = "block_stop" -> UpdateUi(t, ui.status, TRUE)
                               [] ev.type = "complete"   -> UpdateUi(t, "complete", TRUE)
                               [] ev.type = "error"      -> UpdateUi(t, "error", TRUE)
                               [] OTHER                  -> @,
                 !.status = IF status = "" THEN @ ELSE status]
    /\ parsed' = Tail(parsed)
    /\ UNCHANGED <<cli, cancelled>>

(* The edit has been sent: COMPLETED if the session is known, or ERROR.      *)
Edited ==
    /\ await \in {"complete", "error"}
    /\ node' = [node EXCEPT !.state =
                  IF await = "error" THEN "error"
                  ELSE IF node.session THEN "completed" ELSE @]
    /\ await' = "event"
    /\ UNCHANGED <<transcript, parsed, ui, cli, cancelled>>

(* The events are exhausted.                                                 *)
RunEnds ==
    /\ await = "event" /\ parsed = <<>> /\ cli.exit \in {"clean", "failed"}
    /\ await' = "over"
    /\ UNCHANGED <<transcript, parsed, node, ui, cli, cancelled>>

(* The generator raises: the process could not be spawned, or a line of its  *)
(* output is JSON but no object (session.py:135, 155).                       *)
RunFails ==
    /\ await = "event" /\ parsed = <<>> /\ cli.exit = "running"
    /\ transcript' = Apply(transcript, Just("error"))
    /\ ui' = [ui EXCEPT !.display = UpdateUi(transcript', "failed", TRUE)]
    /\ node' = [node EXCEPT !.state = "error"]
    /\ await' = "over"
    /\ UNCHANGED <<parsed, cli, cancelled>>

(* The task is cancelled at an await, by /stop or otherwise, and handles it. *)
Cancelled ==
    /\ await # "over"
    /\ await = "event" => parsed = <<>>
    /\ cancelled' = TRUE
    /\ \/ /\ transcript' = transcript
          /\ ui' = [ui EXCEPT !.display = UpdateUi(transcript, "stopped", TRUE)]
       \/ /\ transcript' = Apply(transcript, Just("error"))
          /\ ui' = [ui EXCEPT !.display = UpdateUi(transcript', "cancelled", TRUE)]
    /\ node' = [node EXCEPT !.state = "error"]
    /\ await' = "over"
    /\ UNCHANGED <<parsed, cli>>

-----------------------------------------------------------------------------
(* The CLI.  It sends full messages or streams blocks, whichever it was begun*)
(* with, runs subagents (one in another) and says which text is the          *)
(* conversation's own.                                                       *)

Reading == await = "event" /\ parsed = <<>> /\ cli.exit = "running"
Sends(event, c) ==
    /\ Reading /\ cli.sent < MaxEvents
    /\ parsed' = ParseCliEvent(event)
    /\ cli' = [c EXCEPT !.sent = @ + 1]
    /\ UNCHANGED <<transcript, await, node, ui, cancelled>>

Message(b) == [type |-> "message", block |-> b]
TextBlock(kind, piece) == [type |-> kind, text |-> piece]
Main == cli.agents = <<>>

(* The piece that is sent next is its own number; said lists the blocks of   *)
(* the conversation.                                                         *)
Piece == cli.sent + 1
Says(kind, parts) ==
    [cli EXCEPT !.said = IF Main THEN Append(@, [kind |-> kind, parts |-> parts]) ELSE @,
                !.block = NoBlock]

SaysText ==
    ~cli.streams /\ \E kind \in {"text", "thinking"} :
       Sends(Message(TextBlock(kind, Piece)), Says(kind, <<Piece>>))

(* A streamed block; its stop may be left out, as its index may be reused.   *)
StartsBlock ==
    cli.streams /\ \E kind \in {"text", "thinking"}, i \in Indexes :
       Sends([type |-> "content_block_start", index |-> i, block |-> TextBlock(kind, 0)],
             [Says(kind, <<>>) EXCEPT !.block = [type |-> kind, index |-> i]])

StreamsText ==
    /\ cli.block # NoBlock
    /\ Sends([type |-> "content_block_delta", index |-> cli.block.index,
              block |-> TextBlock(cli.block.type, Piece)],
             IF Main THEN [cli EXCEPT !.said[Len(cli.said)].parts = Append(@, Piece)]
                     ELSE cli)

StopsBlock ==
    /\ cli.block # NoBlock
    /\ Sends([type |-> "content_block_stop", index |-> cli.block.index],
             [cli EXCEPT !.block = NoBlock])

(* The ids in use are known to the environment; a new one is not alike any.  *)
Used == {x \in Ids : \/ transcript.names[x] # ""
                      \/ \E n \in DOMAIN cli.agents : cli.agents[n].result = x}
Unused == {x \in Ids \ Used : \A y \in Used : ~RoughlyMatch(x, y)}

(* The result of a Task comes with its id, with a variant, or, when there was*)
(* none, with none or one that has "task" in it.                             *)
ResultIds(id) == IF id = NoId THEN {NoId} \cup (TaskLike \cap Unused)
                              ELSE {x \in Ids : RoughlyMatch(id, x)}

UseBlock(id, name) == [type |-> "tool_use", id |-> id, name |-> name]
SendsUse(b, c) ==
    IF cli.streams
      THEN \E i \in Indexes :
              Sends([type |-> "content_block_start", index |-> i, block |-> b], c)
      ELSE Sends(Message(b), c)

CallsTask ==
    \E id \in Unused \cup {NoId} : \E result \in ResultIds(id) :
          LET c == [cli EXCEPT !.agents = Append(@, [id |-> id, result |-> result]),
                               !.block = NoBlock]
          IN  SendsUse(UseBlock(id, "Task"), c)

(* Other tools have ids.                                                     *)
CallsTool ==
    \E id \in Unused :
       SendsUse(UseBlock(id, "other"),
                [cli EXCEPT !.calls = @ \cup {id}, !.block = NoBlock])

Result(id) == Message([type |-> "tool_result", id |-> id])

ToolAnswers ==
    \E id \in cli.calls : Sends(Result(id), [cli EXCEPT !.calls = @ \ {id}, !.block = NoBlock])

(* The innermost Task is over.                                               *)
TaskAnswers ==
    /\ cli.agents # <<>>
    /\ Sends(Result(Last(cli.agents).result),
             [cli EXCEPT !.agents = Front(@), !.block = NoBlock])

(* The session id comes with the first event that has one.                   *)
ReportsSession ==
    /\ Reading /\ ~node.session
    /\ node' = [node EXCEPT !.session = TRUE, !.state = "in_progress"]
    /\ UNCHANGED <<transcript, parsed, await, ui, cli, cancelled>>

ReportsError == Sends([type |-> "error"], cli)

ProcessExits ==
    /\ Reading
    /\ \E code \in {0, 1} :
          /\ parsed' = ParseCliEvent([type |-> "exit", code |-> code])
          /\ cli' = [cli EXCEPT !.exit = IF code = 0 THEN "clean" ELSE "failed"]
    /\ UNCHANGED <<transcript, await, node, ui, cancelled>>

Environment ==
    \/ SaysText \/ StartsBlock \/ StreamsText \/ StopsBlock \/ CallsTask \/ CallsTool
    \/ ToolAnswers \/ TaskAnswers \/ ReportsSession \/ ReportsError \/ ProcessExits

Next == HandleParsed \/ Edited \/ RunEnds \/ RunFails \/ Cancelled \/ Environment

Spec == Init /\ [][Next]_vars

-----------------------------------------------------------------------------
(* Properties.                                                               *)

Kinds == {"thinking", "text", "tool_call", "subagent", "error"}

TypeOK ==
    /\ \A n \in DOMAIN transcript.segs : transcript.segs[n].kind \in Kinds
    /\ transcript.tools \subseteq Indexes
    /\ \A i \in Indexes : {transcript.thinking[i], transcript.text[i]}
                             \subseteq 0..Len(transcript.segs)
    /\ node \in [state : {"in_progress", "completed", "error"},
                 session : BOOLEAN, had : BOOLEAN]
    /\ await \in {"event", "complete", "error", "over"}

(* An index names at most one open block, and the segment of its kind.       *)
OpenBlocksAgree ==
    \A i \in Indexes :
       LET th == transcript.thinking[i]
           tx == transcript.text[i]
       IN  /\ th = 0 \/ tx = 0
           /\ i \in transcript.tools => th = 0 /\ tx = 0
           /\ th # 0 => transcript.segs[th].kind = "thinking"
           /\ tx # 0 => transcript.segs[tx].kind = "text"

(* While nothing waits to be handled, as many subagents are open as the CLI  *)
(* runs.                                                                     *)
DepthIsRight ==
    await = "event" /\ parsed = <<>> /\ cli.exit = "running"
       => Len(transcript.stack) = Len(cli.agents) /\ Len(transcript.agents) = Len(cli.agents)

IsText(seg) == seg.kind \in {"text", "thinking"}

(* The texts among segs are those in said, in order: f gives their positions.*)
TextsAre(segs, said) ==
    \E f \in [DOMAIN said -> DOMAIN segs] :
       /\ \A k \in DOMAIN said : segs[f[k]] = said[k] /\ IsText(said[k])
       /\ \A k, l \in DOMAIN said : k < l => f[k] < f[l]
       /\ \A n \in DOMAIN segs : IsText(segs[n]) => \E k \in DOMAIN said : f[k] = n

(* What the conversation says is in the transcript, in order and undivided,  *)
(* and what subagents say is not.                                            *)
MainTextShown ==
    await = "event" /\ parsed = <<>> /\ cli.exit = "running"
       => TextsAre(transcript.segs, cli.said)

(* The buffer of open blocks and subagents stays in step with the CLI.       *)
TranscriptInv == TypeOK /\ OpenBlocksAgree /\ DepthIsRight /\ MainTextShown

DisplaySize(d) ==
    (IF d.tail > 0 THEN d.tail ELSE SizeOfAll(d.shown))
      + (IF d.marker THEN MarkerSize ELSE 0) + StatusLength(d.status)

FinalStatus == {"complete", "failed", "stopped", "cancelled"}

(* When the run is over the message shows a final status and the newest of   *)
(* the transcript, within the limit, and a node whose session is known, or   *)
(* which was cancelled or failed, is COMPLETED or ERROR.                     *)
EndIsShown ==
    await = "over" =>
       /\ ui.display.status \in FinalStatus
       /\ DisplaySize(ui.display) <= Limit
       /\ Limit > StatusSize + MarkerSize + MinBudget
             => Newest(ui.display.shown) = Newest(Rendered(transcript))
       /\ node.session \/ cancelled => node.state # "in_progress"

(* event_parser.py:152 says of an exit code that is not zero that it "is an  *)
(* error"; this says that the node of such a run does not end COMPLETED.     *)
FailedRunsFail == ~(await = "over" /\ cli.exit = "failed" /\ node.state = "completed")
=============================================================================

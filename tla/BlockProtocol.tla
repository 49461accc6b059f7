--------------------------- MODULE BlockProtocol ---------------------------
(***************************************************************************)
(* What a client of the Anthropic Messages API may receive: a message      *)
(* begins, its blocks are opened with consecutive indices, filled with     *)
(* deltas of their own kind and closed once, and it ends when all of them  *)
(* are closed.  Prose (thinking and text) comes one block at a time; a     *)
(* tool call may stay open while other blocks come and go.                 *)
(***************************************************************************)
EXTENDS Integers, Sequences

VARIABLES
    event,   \* the last event received
    blocks,  \* the kinds of the blocks begun so far; block i is blocks[i + 1]
    closed   \* indices of the blocks that have ended

Prose == {"thinking", "text"}
BlockKinds == Prose \cup {"tool_use"}

Event(type, index) == [type |-> type, index |-> index]

InMessage == event.type \notin {"none", "message_delta", "message_stop"}

IsOpen(i) == i \in 0..(Len(blocks) - 1) /\ i \notin closed

Init ==
    /\ event = Event("none", -1)
    /\ blocks = <<>>
    /\ closed = {}

MessageStart ==
    /\ event.type = "none"
    /\ event' = Event("message_start", -1)
    /\ UNCHANGED <<blocks, closed>>

BlockStart(kind) ==
    /\ InMessage
    /\ \A i \in 0..(Len(blocks) - 1) : IsOpen(i) => blocks[i + 1] \notin Prose
    /\ event' = Event("content_block_start", Len(blocks))
    /\ blocks' = Append(blocks, kind)
    /\ UNCHANGED closed

\* A delta of some kind goes into an open block of this kind.
BlockDelta(i, kind) ==
    /\ InMessage
    /\ IsOpen(i)
    /\ blocks[i + 1] = kind
    /\ event' = Event(kind, i)
    /\ UNCHANGED <<blocks, closed>>

BlockStop(i) ==
    /\ InMessage
    /\ IsOpen(i)
    /\ event' = Event("content_block_stop", i)
    /\ closed' = closed \cup {i}
    /\ UNCHANGED blocks

MessageDelta ==
    /\ InMessage
    /\ \A i \in 0..(Len(blocks) - 1) : i \in closed
    /\ event' = Event("message_delta", -1)
    /\ UNCHANGED <<blocks, closed>>

MessageStop ==
    /\ event.type = "message_delta"
    /\ event' = Event("message_stop", -1)
    /\ UNCHANGED <<blocks, closed>>

Next ==
    \/ MessageStart \/ MessageDelta \/ MessageStop
    \/ \E kind \in BlockKinds : BlockStart(kind)
    \/ \E i \in 0..(Len(blocks) - 1), kind \in BlockKinds : BlockDelta(i, kind)
    \/ \E i \in 0..(Len(blocks) - 1) : BlockStop(i)

Spec == Init /\ [][Next]_<<event, blocks, closed>>
=============================================================================

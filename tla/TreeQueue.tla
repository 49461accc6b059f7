----------------------------- MODULE TreeQueue -----------------------------
(***************************************************************************)
(* One conversation: a MessageTree, its queue, the asyncio tasks that run  *)
(* its nodes, and the commands that cancel them (messaging/trees/*,        *)
(* messaging/handler.py, messaging/commands.py).                           *)
(*                                                                         *)
(* Everything runs on one event loop, so a step of this module is the code *)
(* between two places where a coroutine really suspends.  The tree's and   *)
(* the manager's asyncio locks are only ever held over code that does not  *)
(* suspend, so they are never contended and every critical section is part *)
(* of one step.  What does suspend: the send of the initial status, the    *)
(* deletes of /clear, reading the CLI subprocess, stopping it (up to 5 s), *)
(* the session manager's lock, and a new task before its first step.       *)
(*                                                                         *)
(* A node is enqueued once, by the handle_message that added it, so a task *)
(* is named by its node.                                                   *)
(***************************************************************************)
EXTENDS MessageTree

CONSTANTS
    Nodes,      \* ids of the messages users may send to this conversation
    Root,       \* the message that opens it
    NoNode,     \* Python's None
    Commands,   \* the commands users issue, of AllCommands
    MaxCommands \* how many commands they issue

AllCommands == {"stop", "stop_all", "clear_branch", "clear_tree", "clear_all"}

ASSUME RootAssumption == Root \in Nodes
ASSUME NoNodeAssumption == NoNode \notin Nodes
ASSUME CommandsAssumption == Commands \subseteq AllCommands
ASSUME MaxCommandsAssumption == MaxCommands \in Nat

VARIABLES
    nodes,        \* MessageTree._nodes (its keys)
    parent,       \* MessageNode.parent_id
    children,     \* MessageNode.children_ids
    state,        \* MessageNode.state; kept when the node leaves the tree
    session,      \* nodes whose MessageNode.session_id is set
    queue,        \* MessageTree._queue
    isProcessing, \* MessageTree._is_processing
    currentNode,  \* MessageTree._current_node_id
    currentTask,  \* MessageTree._current_task
    known,        \* the handler's TreeQueueManager has the tree
    pc,           \* where the task of a node is
    cancelled,    \* tasks on which cancel() was called
    hasTree,      \* tasks whose _process_node_impl found the tree
    captured,     \* tasks whose captured_session_id is set
    msg,          \* where handle_message is for a message
    clearing,     \* branch roots whose /clear is deleting messages
    wiping,       \* a standalone /clear is deleting messages
    issued,       \* how many commands were issued (bound: MaxCommands)
    \* Auxiliary variables: what happened, read by properties only.
    stamp,        \* order in which nodes joined the tree, 0 before
    arrivals,     \* how many have joined
    lastStarted,  \* stamp of the node whose task was created last
    stopped       \* nodes a command reported to the user as cancelled

treeVars  == <<nodes, parent, children, state, session>>
queueVars == <<queue, isProcessing, currentNode, currentTask>>
taskVars  == <<pc, cancelled, hasTree, captured>>
chatVars  == <<known, msg, clearing, wiping, issued>>
auxVars   == <<stamp, arrivals, lastStarted, stopped>>
vars      == <<treeVars, queueVars, taskVars, chatVars, auxVars>>

MessageState == {"pending", "in_progress", "completed", "error"}
Terminal     == {"completed", "error"}

\* none: no task; created: asyncio.create_task, first step not run yet;
\* running: reading the CLI; stopping: CancelledError caught, waiting for
\* the subprocess to die; closing: in remove_session; done: returned.
TaskState == {"none", "created", "running", "stopping", "closing", "done"}
Alive     == {n \in Nodes : pc[n] \in {"created", "running", "stopping", "closing"}}

\* new: not sent yet; sending: waiting for its status message to be sent;
\* added: in the tree; dropped: handle_message ended without adding it.
MessageStep == {"new", "sending", "added", "dropped"}

TypeOK ==
    /\ nodes \subseteq Nodes
    /\ parent \in [Nodes -> Nodes \cup {NoNode}]
    /\ children \in [Nodes -> SUBSET Nodes]
    /\ state \in [Nodes -> MessageState]
    /\ session \subseteq Nodes
    /\ queue \in Seq(Nodes)
    /\ isProcessing \in BOOLEAN
    /\ currentNode \in Nodes \cup {NoNode}
    /\ currentTask \in Nodes \cup {NoNode}
    /\ known \in BOOLEAN
    /\ pc \in [Nodes -> TaskState]
    /\ cancelled \subseteq Nodes
    /\ hasTree \subseteq Nodes
    /\ captured \subseteq Nodes
    /\ msg \in [Nodes -> MessageStep]
    /\ clearing \subseteq Nodes
    /\ wiping \in BOOLEAN
    /\ issued \in 0..MaxCommands
    /\ stamp \in [Nodes -> Nat]
    /\ arrivals \in Nat
    /\ lastStarted \in Nat
    /\ stopped \subseteq Nodes

Init ==
    /\ nodes = {}
    /\ parent = [n \in Nodes |-> NoNode]
    /\ children = [n \in Nodes |-> {}]
    /\ state = [n \in Nodes |-> "pending"]
    /\ session = {}
    /\ queue = <<>>
    /\ isProcessing = FALSE
    /\ currentNode = NoNode
    /\ currentTask = NoNode
    /\ known = FALSE
    /\ pc = [n \in Nodes |-> "none"]
    /\ cancelled = {}
    /\ hasTree = {}
    /\ captured = {}
    /\ msg = [n \in Nodes |-> "new"]
    /\ clearing = {}
    /\ wiping = FALSE
    /\ issued = 0
    /\ stamp = [n \in Nodes |-> 0]
    /\ arrivals = 0
    /\ lastStarted = 0
    /\ stopped = {}
-----------------------------------------------------------------------------
(***************************************************************************)
(* Helpers of the steps below.                                             *)
(***************************************************************************)

\* The manager finds the tree and the tree finds the node.
Found(n) == known /\ n \in nodes

\* The ids of S get state ERROR.
WithError(S) == [x \in Nodes |-> IF x \in S THEN "error" ELSE state[x]]

\* MessageTree.cancel_current_task
CancelCurrent ==
    IF currentTask # NoNode /\ pc[currentTask] # "done"
    THEN cancelled \cup {currentTask}
    ELSE cancelled

\* Mutant of Launch: the tree is not marked busy.
LaunchIdle(n, ids, tasks) ==
    /\ n \in ids
    /\ currentNode' = n
    /\ currentTask' = n
    /\ pc' = [tasks EXCEPT ![n] = "created"]
    /\ lastStarted' = stamp'[n]
    /\ UNCHANGED isProcessing

\* Mark the tree busy with n and create its task, if the tree (ids) has n.
Launch(n, ids, tasks) ==
    /\ isProcessing' = TRUE
    /\ currentNode' = n
    /\ \/ /\ n \in ids
          /\ currentTask' = n
          /\ pc' = [tasks EXCEPT ![n] = "created"]
          /\ lastStarted' = stamp'[n]
       \/ /\ n \notin ids
          /\ pc' = tasks
          /\ UNCHANGED <<currentTask, lastStarted>>

\* TreeQueueProcessor._process_next
ProcessNext(tasks) ==
    \/ /\ queue = <<>>
       /\ isProcessing' = FALSE
       /\ currentNode' = NoNode
       /\ pc' = tasks
       /\ UNCHANGED <<queue, currentTask, lastStarted>>
    \/ /\ queue # <<>>
       /\ queue' = GetNowait(queue).rest
       /\ Launch(GetNowait(queue).item, nodes, tasks)

\* TreeQueueManager.cancel_tree
CancelTree ==
    LET Active == {x \in nodes : state[x] \notin Terminal}
        Queued == QueueIds(queue) \cap nodes
    IN  /\ cancelled' = CancelCurrent
        /\ state' = WithError(Active \cup Queued)
        /\ queue' = <<>>
        /\ isProcessing' = FALSE
        /\ currentNode' = NoNode
        /\ UNCHANGED currentTask
-----------------------------------------------------------------------------
(***************************************************************************)
(* handle_message: up to the send of the status message, and after it.     *)
(***************************************************************************)

\* A message that replies to nothing known opens the conversation.
ArriveRoot ==
    /\ msg[Root] = "new"
    /\ msg' = [msg EXCEPT ![Root] = "sending"]
    /\ UNCHANGED <<treeVars, queueVars, taskVars, known, clearing, wiping, issued, auxVars>>

\* A reply to node p, or to its status message, is resolved to p now.
ArriveReply(n, p) ==
    /\ n # Root
    /\ msg[n] = "new"
    /\ Found(p)
    /\ msg' = [msg EXCEPT ![n] = "sending"]
    /\ parent' = [parent EXCEPT ![n] = p]
    /\ UNCHANGED <<nodes, children, state, session, queueVars, taskVars,
                   known, clearing, wiping, issued, auxVars>>

\* The send raises, or add_to_tree does because the parent is gone by now.
DropMessage(n) ==
    /\ msg[n] = "sending"
    /\ msg' = [msg EXCEPT ![n] = "dropped"]
    /\ UNCHANGED <<treeVars, queueVars, taskVars, known, clearing, wiping, issued, auxVars>>

\* create_tree or add_to_tree, then enqueue, without a suspension between.
AddAndEnqueue(n) ==
    /\ msg[n] = "sending"
    /\ n = Root \/ Found(parent[n])
    /\ msg' = [msg EXCEPT ![n] = "added"]
    /\ known' = TRUE
    /\ nodes' = nodes \cup {n}
    /\ children' = [p \in Nodes |->
                      IF p = parent[n] THEN children[p] \cup {n} ELSE children[p]]
    /\ arrivals' = arrivals + 1
    /\ stamp' = [stamp EXCEPT ![n] = arrivals + 1]
    /\ \/ /\ isProcessing
          /\ queue' = Append(queue, n)
          /\ UNCHANGED <<isProcessing, currentNode, currentTask, pc, lastStarted>>
       \/ /\ ~isProcessing
          /\ Launch(n, nodes', pc)
          /\ UNCHANGED queue
    /\ UNCHANGED <<parent, state, session, cancelled, hasTree, captured,
                   clearing, wiping, issued, stopped>>
-----------------------------------------------------------------------------
(***************************************************************************)
(* The task of a node: TreeQueueProcessor.process_node around              *)
(* ClaudeMessageHandler._process_node_impl.                                *)
(***************************************************************************)

\* cancel() before the first step: the coroutine's body never runs, and
\* neither does its finally clause.
CancelledBeforeStart(n) ==
    /\ pc[n] = "created"
    /\ n \in cancelled
    /\ pc' = [pc EXCEPT ![n] = "done"]
    /\ UNCHANGED <<treeVars, queueVars, cancelled, hasTree, captured, chatVars, auxVars>>

\* Mutant of SkipNode: returns without looking at the queue.
SkipNodeReturns(n) ==
    /\ pc[n] = "created"
    /\ n \notin cancelled
    /\ state[n] = "error"
    /\ pc' = [pc EXCEPT ![n] = "done"]
    /\ UNCHANGED <<treeVars, queueVars, cancelled, hasTree, captured, chatVars, auxVars>>

\* The node failed while it waited: skip it and look at the queue.
SkipNode(n) ==
    /\ pc[n] = "created"
    /\ n \notin cancelled
    /\ state[n] = "error"
    /\ UNCHANGED <<treeVars, cancelled, hasTree, captured, chatVars,
                   stamp, arrivals, stopped>>
    /\ ProcessNext([pc EXCEPT ![n] = "done"])

BeginNode(n) ==
    /\ pc[n] = "created"
    /\ n \notin cancelled
    /\ state[n] # "error"
    /\ pc' = [pc EXCEPT ![n] = "running"]
    /\ \/ /\ Found(n)
          /\ hasTree' = hasTree \cup {n}
          /\ state' = [state EXCEPT ![n] = "in_progress"]
       \/ /\ ~Found(n)
          /\ UNCHANGED <<hasTree, state>>
    /\ UNCHANGED <<nodes, parent, children, session, queueVars, cancelled,
                   captured, chatVars, auxVars>>

\* Mutant of Reading: a cancelled task goes on reading.
ReadingOn(n) == pc[n] = "running"

\* A running task that nobody has cancelled gets an event from its CLI.
Reading(n) == pc[n] = "running" /\ n \notin cancelled

\* MessageTree.update_state as the task of n calls it.
CanUpdate(n) == n \in hasTree /\ n \in nodes

\* The first session_info event; later ones find temp_session_id None.
SessionInfo(n) ==
    /\ Reading(n)
    /\ n \notin captured
    /\ captured' = captured \cup {n}
    /\ \/ /\ CanUpdate(n)
          /\ state' = [state EXCEPT ![n] = "in_progress"]
          /\ session' = session \cup {n}
       \/ /\ ~CanUpdate(n)
          /\ UNCHANGED <<state, session>>
    /\ UNCHANGED <<nodes, parent, children, queueVars, pc, cancelled, hasTree,
                   chatVars, auxVars>>

\* _propagate_error_to_children: the ids mark_node_error sets to ERROR.
ErrorMarks(n) ==
    IF n \in hasTree /\ Found(n)
    THEN {n} \cup PendingChildren(nodes, children, state, n)
    ELSE {}

\* An error event: from the stream, or the stderr the CLI left.
CliError(n) ==
    /\ Reading(n)
    /\ state' = WithError(ErrorMarks(n))
    /\ UNCHANGED <<nodes, parent, children, session, queueVars, taskVars, chatVars,
                   auxVars>>

\* The complete event moves the node to COMPLETED if a session was captured.
Completes(n) == CanUpdate(n) /\ n \in captured

\* Exit code 0: one complete event, and the stream ends.
CliExit(n) ==
    /\ Reading(n)
    /\ pc' = [pc EXCEPT ![n] = "closing"]
    /\ \/ /\ Completes(n)
          /\ state' = [state EXCEPT ![n] = "completed"]
          /\ session' = session \cup {n}
       \/ /\ ~Completes(n)
          /\ UNCHANGED <<state, session>>
    /\ UNCHANGED <<nodes, parent, children, queueVars, cancelled, hasTree, captured,
                   chatVars, auxVars>>

\* Another exit code: parse_cli_event returns an error event and then a
\* complete event, and both are handled before the task suspends again.
CliFail(n) ==
    /\ Reading(n)
    /\ pc' = [pc EXCEPT ![n] = "closing"]
    /\ \/ /\ Completes(n)
          /\ state' = [WithError(ErrorMarks(n)) EXCEPT ![n] = "completed"]
          /\ session' = session \cup {n}
       \/ /\ ~Completes(n)
          /\ state' = WithError(ErrorMarks(n))
          /\ UNCHANGED session
    /\ UNCHANGED <<nodes, parent, children, queueVars, cancelled, hasTree, captured,
                   chatVars, auxVars>>

\* _process_node_impl's "except Exception": the generator of events raises.
TaskFails(n) ==
    /\ Reading(n)
    /\ pc' = [pc EXCEPT ![n] = "closing"]
    /\ state' = WithError(ErrorMarks(n))
    /\ UNCHANGED <<nodes, parent, children, session, queueVars, cancelled, hasTree,
                   captured, chatVars, auxVars>>

\* Mutant of CancelDelivered: the exception is swallowed by the read loop.
CancelSwallowed(n) ==
    /\ pc[n] = "running"
    /\ n \in cancelled
    /\ cancelled' = cancelled \ {n}
    /\ UNCHANGED <<treeVars, queueVars, pc, hasTree, captured, chatVars, auxVars>>

\* CancelledError reaches the task: CLISession waits for the process to die.
CancelDelivered(n) ==
    /\ pc[n] = "running"
    /\ n \in cancelled
    /\ pc' = [pc EXCEPT ![n] = "stopping"]
    /\ UNCHANGED <<treeVars, queueVars, cancelled, hasTree, captured, chatVars, auxVars>>

\* _process_node_impl's "except CancelledError".
CancelHandled(n) ==
    /\ pc[n] = "stopping"
    /\ pc' = [pc EXCEPT ![n] = "closing"]
    /\ state' = WithError(IF CanUpdate(n) THEN {n} ELSE {})
    /\ UNCHANGED <<nodes, parent, children, session, queueVars, cancelled, hasTree,
                   captured, chatVars, auxVars>>

\* remove_session returns; process_node's finally clause runs.
FinishNode(n) ==
    /\ pc[n] = "closing"
    /\ UNCHANGED <<treeVars, cancelled, hasTree, captured, chatVars,
                   stamp, arrivals, stopped>>
    /\ ProcessNext([pc EXCEPT ![n] = "done"])
-----------------------------------------------------------------------------
(***************************************************************************)
(* Commands.                                                               *)
(***************************************************************************)

Issue(command) ==
    /\ command \in Commands
    /\ issued < MaxCommands
    /\ issued' = issued + 1

\* "/stop" in reply to n: stop_task, cancel_node.
StopNode(n) ==
    /\ Issue("stop")
    /\ Found(n)
    /\ state[n] \notin Terminal
    /\ cancelled' = IF currentNode = n THEN CancelCurrent ELSE cancelled
    /\ queue' = Without(queue, {n})
    /\ state' = [state EXCEPT ![n] = "error"]
    /\ stopped' = stopped \cup {n}
    /\ UNCHANGED <<nodes, parent, children, session, isProcessing, currentNode,
                   currentTask, pc, hasTree, captured, known, msg, clearing, wiping,
                   stamp, arrivals, lastStarted>>

\* A standalone "/stop" or the HTTP route: stop_all_tasks, cancel_all.
StopAll ==
    /\ Issue("stop_all")
    /\ known
    /\ CancelTree
    /\ UNCHANGED <<nodes, parent, children, session, pc, hasTree, captured,
                   known, msg, clearing, wiping, auxVars>>

\* "/clear" in reply to n, up to the deletes: cancel_branch.
ClearBegin(n) ==
    LET Branch == {x \in Descendants(nodes, children, n) : state[x] \notin Terminal}
    IN  /\ Issue(IF n = Root THEN "clear_tree" ELSE "clear_branch")
        /\ Found(n)
        /\ cancelled' = IF currentNode \in Branch THEN CancelCurrent ELSE cancelled
        /\ queue' = Without(queue, Branch \ {currentNode})
        /\ state' = WithError(Branch)
        /\ stopped' = stopped \cup Branch
        /\ clearing' = clearing \cup {n}
        /\ UNCHANGED <<nodes, parent, children, session, isProcessing, currentNode,
                       currentTask, pc, hasTree, captured, known, msg, wiping,
                       stamp, arrivals, lastStarted>>

\* ... and after them: remove_branch, if the branch is still there.
ClearEnd(n) ==
    /\ n \in clearing
    /\ clearing' = clearing \ {n}
    /\ \/ /\ ~Found(n)
          /\ UNCHANGED <<treeVars, queueVars, cancelled, known>>
       \/ /\ Found(n)
          /\ n = Root
          /\ CancelTree
          /\ known' = FALSE
          /\ UNCHANGED <<nodes, parent, children, session>>
       \/ /\ Found(n)
          /\ n # Root
          /\ nodes' = nodes \ Descendants(nodes, children, n)
          /\ children' = [children EXCEPT ![parent[n]] = @ \ {n}]
          /\ UNCHANGED <<parent, state, session, queueVars, cancelled, known>>
    /\ UNCHANGED <<pc, hasTree, captured, msg, wiping, issued, auxVars>>

\* A standalone "/clear", up to the deletes: stop_all_tasks.
WipeBegin ==
    /\ Issue("clear_all")
    /\ known
    /\ ~wiping
    /\ CancelTree
    /\ wiping' = TRUE
    /\ UNCHANGED <<nodes, parent, children, session, pc, hasTree, captured,
                   known, msg, clearing, auxVars>>

\* ... and after them: the handler gets a new, empty TreeQueueManager.
WipeEnd ==
    /\ wiping
    /\ wiping' = FALSE
    /\ known' = FALSE
    /\ UNCHANGED <<treeVars, queueVars, taskVars, msg, clearing, issued, auxVars>>
-----------------------------------------------------------------------------
Message(n) ==
    \/ n = Root /\ ArriveRoot
    \/ \E p \in Nodes : ArriveReply(n, p)
    \/ DropMessage(n)
    \/ AddAndEnqueue(n)

CliEvent(n) == SessionInfo(n) \/ CliError(n) \/ CliExit(n) \/ CliFail(n) \/ TaskFails(n)

Task(n) ==
    \/ CancelledBeforeStart(n)
    \/ SkipNode(n)
    \/ BeginNode(n)
    \/ CancelDelivered(n)
    \/ CancelHandled(n)
    \/ FinishNode(n)

Command ==
    \/ \E n \in Nodes : StopNode(n) \/ ClearBegin(n) \/ ClearEnd(n)
    \/ StopAll
    \/ WipeBegin
    \/ WipeEnd

Next ==
    \/ \E n \in Nodes : Message(n) \/ CliEvent(n) \/ Task(n)
    \/ Command

Spec == Init /\ [][Next]_vars

(***************************************************************************)
(* Fairness.  The event loop runs every ready task and the send of a       *)
(* status message ends; stopping a process ends because stop() kills it    *)
(* after 5 s.  That a CLI run ends by itself is an assumption about the    *)
(* CLI, kept apart.                                                        *)
(***************************************************************************)
LoopFairness == \A n \in Nodes : /\ WF_vars(Task(n))
                                 /\ WF_vars(AddAndEnqueue(n) \/ DropMessage(n))
CliFairness  == \A n \in Nodes : WF_vars(CliExit(n) \/ CliFail(n) \/ TaskFails(n))

FairSpec == Spec /\ LoopFairness
-----------------------------------------------------------------------------
(***************************************************************************)
(* Properties that hold whatever commands are issued.                      *)
(***************************************************************************)

\* A queued node has never had a task, is queued once and has not run:
\* _process_next may hand it to process_node without looking.
QueueFresh ==
    /\ \A i, j \in DOMAIN queue : queue[i] = queue[j] => i = j
    /\ \A i \in DOMAIN queue : /\ pc[queue[i]] = "none"
                               /\ state[queue[i]] \in {"pending", "error"}

\* enqueue_and_start starts a node at once when the tree is idle: that
\* overtakes nobody only if an idle tree never has a queue.
IdleMeansEmpty == ~isProcessing => queue = <<>>

\* No message is forgotten: a node that waits is queued or its task is
\* about to take its first step.
PendingAccounted ==
    known => \A n \in nodes :
                state[n] = "pending" => n \in QueueIds(queue) \/ pc[n] = "created"

\* Once cancel() was called on the task of a node that is in ERROR, no late
\* CLI event brings the node back.
CancelSticks ==
    [][\A n \in Nodes : n \in cancelled /\ state[n] = "error" => state'[n] = "error"]_vars

\* A reply's parent stays in the tree as long as the reply does, and lists it.
TreeLinked ==
    \A n \in nodes : n # Root => parent[n] \in nodes /\ n \in children[parent[n]]

\* Messages start in the order in which they joined, each at most once.
Order == INSTANCE OrderedService WITH last <- lastStarted
StartsInOrder == Order!Spec

(***************************************************************************)
(* The inductive invariant behind the safety properties above.             *)
(***************************************************************************)

\* Nothing is known of a message before handle_message adds it.
NotJoined ==
    \A n \in Nodes : msg[n] # "added" =>
        n \notin nodes /\ n \notin QueueIds(queue) /\ pc[n] = "none" /\ stamp[n] = 0

\* The root message made the tree.
RootFirst == nodes # {} => msg[Root] = "added"

\* What is queued joined after everything that was started, in queue order.
QueueInOrder ==
    /\ lastStarted <= arrivals
    /\ \A n \in Nodes : stamp[n] <= arrivals
    /\ \A n \in QueueIds(queue) : lastStarted < stamp[n] /\ pc[n] = "none"
    /\ Increasing(queue, stamp)

\* A node whose task has not begun is pending, unless something failed it.
FreshState == \A n \in Nodes : pc[n] \in {"none", "created"} => state[n] \in {"pending", "error"}

\* What the tree calls current: cancel_current_task reaches the task of the
\* current node, and a task it caught before its first step is in ERROR.
CurrentIsTask ==
    /\ currentNode # NoNode => msg[currentNode] = "added"
    /\ currentNode \in nodes => currentTask = currentNode
    /\ currentTask # NoNode => pc[currentTask] # "none"
    /\ \A n \in cancelled : /\ pc[n] # "none"
                            /\ n \in nodes /\ pc[n] = "created" => state[n] = "error"

\* The queue's bookkeeping, in a form that every step preserves.
QueueInv ==
    /\ TypeOK
    /\ NotJoined
    /\ RootFirst
    /\ QueueInOrder
    /\ FreshState
    /\ CurrentIsTask
    /\ IdleMeansEmpty
    /\ PendingAccounted

(***************************************************************************)
(* Properties that hold as long as no command cancels the whole tree.      *)
(***************************************************************************)

\* The tree has at most one task that has not returned.
OneTaskAtATime == \A m, n \in Alive : m = n

\* A reply runs after the message it replies to has finished, or was
\* cancelled or failed while it waited: its session id is final by then.
ParentSettledFirst ==
    \A n \in nodes : pc[n] \in {"running", "stopping", "closing"} /\ parent[n] \in Nodes
        => \/ pc[parent[n]] = "done"
           \/ pc[parent[n]] = "none" /\ state[parent[n]] = "error"

\* A reply forks the session its parent has when the reply begins: that is
\* read once, so the parent may neither get nor lose one afterwards.
ForkIsFinal ==
    [][\A n \in nodes :
         (pc[n] \in {"running", "stopping", "closing"} /\ parent[n] \in nodes)
           => (parent[n] \in session' <=> parent[n] \in session)]_vars

\* What /stop or /clear reported as cancelled does not finish as completed.
StoppedIsError == \A n \in stopped : state[n] = "error"

(***************************************************************************)
(* Liveness.                                                               *)
(***************************************************************************)

\* A queued message gets its turn, or is cancelled, if CLI runs end.
QueueDrains ==
    CliFairness => \A n \in Nodes : n \in QueueIds(queue) ~> n \notin QueueIds(queue)

\* A cancelled task ends without any help from the CLI.
CancelledEnds == \A n \in Nodes : n \in cancelled ~> pc[n] = "done"
=============================================================================

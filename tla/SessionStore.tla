---------------------------- MODULE SessionStore ----------------------------
(***************************************************************************)
(* messaging/session.py: conversations and logged message ids in memory,   *)
(* written to one JSON file by debounce timers on threads of their own and *)
(* by the caller of clear_all and flush_pending_save.                      *)
(*                                                                         *)
(* Code under self._lock is one step; so is a call of the loop thread that *)
(* only touches memory.  _write_data runs without the lock: the open that  *)
(* truncates the file and the write that fills it are separate steps.  All *)
(* methods are called by the event loop's thread, Loop.                    *)
(***************************************************************************)
EXTENDS Integers, Sequences, FiniteSets

CONSTANTS
    Nodes,      \* ids of nodes; a tree has the id of its root
    Messages,   \* ids of messages that are logged for /clear
    NoRoot,     \* a node that node_to_tree does not have
    Timers,     \* threading.Timer objects the store may create
    Loop,       \* the thread of the event loop
    NoTimer,    \* Python's None in _save_timer
    Calls,      \* the methods the bot calls, of AllCalls
    Cap,        \* MAX_MESSAGE_LOG_ENTRIES_PER_CHAT; 0: no cap
    MaxCrashes  \* how often the process may die

AllCalls == {"save_tree", "register_node", "remove_node_mappings", "remove_tree",
             "sync_from_tree_data", "record_message_id", "clear_all", "flush_pending_save"}

ASSUME CallsAssumption == Calls \subseteq AllCalls
ASSUME NoRootAssumption == NoRoot \notin Nodes
ASSUME ThreadsAssumption == Loop \notin Timers /\ NoTimer \notin Timers
ASSUME CapAssumption == Cap \in Nat /\ MaxCrashes \in Nat

VARIABLES
    trees,      \* _trees: node ids of a stored tree; {} if it is not stored
    nodeToTree, \* _node_to_tree
    log,        \* _message_log of one chat
    logIds,     \* _message_log_ids of that chat
    dirty,      \* _dirty
    saveTimer,  \* _save_timer
    timer,      \* what each timer's thread does
    loopPc,     \* what the loop's thread does
    snapshot,   \* what a writing thread took under the lock
    file,       \* the file on disk
    lastOpen,   \* the thread that truncated the file last
    crashes,    \* how often the process died (bound: MaxCrashes)
    \* Auxiliary variables, read by properties only.
    overlap,    \* the last thread to take a snapshot was not alone with the file
    failed      \* a write has failed since a save was last scheduled or begun

memory == <<trees, nodeToTree, log, logIds>>
saving == <<dirty, saveTimer, timer, loopPc, snapshot>>
vars   == <<memory, saving, file, lastOpen, crashes, overlap, failed>>

Threads == Timers \cup {Loop}

\* unused: not created; armed: counting down; cancelled; fired: waiting for
\* the lock; writing: has a snapshot; open: has truncated the file; done.
TimerStep == {"unused", "armed", "cancelled", "fired", "writing", "open", "done"}
LoopStep  == {"idle", "writing", "open"}

Data == [trees : [Nodes -> SUBSET Nodes],
         nodeToTree : [Nodes -> Nodes \cup {NoRoot}],
         log : Seq(Messages)]

NoTrees   == [r \in Nodes |-> {}]
NoMapping == [n \in Nodes |-> NoRoot]
NoData    == [trees |-> NoTrees, nodeToTree |-> NoMapping, log |-> <<>>]

\* The file: JSON with data, or without data because it is missing, empty
\* (after a truncation) or torn (no JSON).
Files     == [kind : {"json", "missing", "empty", "torn"}, data : Data]
Json(d)   == [kind |-> "json", data |-> d]
NoJson(k) == [kind |-> k, data |-> NoData]

\* _snapshot
Snapshot == [trees |-> trees, nodeToTree |-> nodeToTree, log |-> log]

Ids(l) == {l[i] : i \in DOMAIN l}

TypeOK ==
    /\ Snapshot \in Data
    /\ logIds \subseteq Messages
    /\ dirty \in BOOLEAN
    /\ saveTimer \in Timers \cup {NoTimer}
    /\ timer \in [Timers -> TimerStep]
    /\ loopPc \in LoopStep
    /\ snapshot \in [Threads -> Data]
    /\ file \in Files
    /\ lastOpen \in Threads
    /\ crashes \in 0..MaxCrashes
    /\ overlap \in BOOLEAN
    /\ failed \in BOOLEAN

Init ==
    /\ trees = NoTrees
    /\ nodeToTree = NoMapping
    /\ log = <<>>
    /\ logIds = {}
    /\ dirty = FALSE
    /\ saveTimer = NoTimer
    /\ timer = [t \in Timers |-> "unused"]
    /\ loopPc = "idle"
    /\ snapshot = [t \in Threads |-> NoData]
    /\ file = NoJson("missing")
    /\ lastOpen = Loop
    /\ crashes = 0
    /\ overlap = FALSE
    /\ failed = FALSE
-----------------------------------------------------------------------------
(***************************************************************************)
(* Saving.                                                                 *)
(***************************************************************************)

\* Timer.cancel of the timer in _save_timer: too late once it has fired.
CancelTimer ==
    [t \in Timers |-> IF t = saveTimer /\ timer[t] = "armed" THEN "cancelled" ELSE timer[t]]

\* Mutant of ScheduleSave: cancels after it has armed the new timer.
ScheduleSaveCancelled ==
    /\ dirty' = TRUE
    /\ failed' = FALSE
    /\ \E t \in Timers : /\ timer[t] = "unused"
                         /\ timer' = [CancelTimer EXCEPT ![t] = "cancelled"]
                         /\ saveTimer' = t

\* _schedule_save
ScheduleSave ==
    /\ dirty' = TRUE
    /\ failed' = FALSE
    /\ \E t \in Timers : /\ timer[t] = "unused"
                         /\ timer' = [CancelTimer EXCEPT ![t] = "armed"]
                         /\ saveTimer' = t

\* The half second is over.
TimerFires(t) ==
    /\ timer[t] = "armed"
    /\ timer' = [timer EXCEPT ![t] = "fired"]
    /\ UNCHANGED <<memory, dirty, saveTimer, loopPc, snapshot, file, lastOpen, crashes,
                   overlap, failed>>

\* Some thread has the file to write.
Writing == \/ loopPc # "idle"
           \/ \E t \in Timers : timer[t] \in {"writing", "open"}

\* _save_from_timer, under the lock.
TimerSnapshots(t) ==
    /\ timer[t] = "fired"
    /\ saveTimer' = NoTimer
    /\ \/ /\ dirty
          /\ timer' = [timer EXCEPT ![t] = "writing"]
          /\ snapshot' = [snapshot EXCEPT ![t] = Snapshot]
          /\ dirty' = FALSE
          /\ overlap' = Writing
          /\ failed' = FALSE
       \/ /\ ~dirty
          /\ timer' = [timer EXCEPT ![t] = "done"]
          /\ UNCHANGED <<snapshot, dirty, overlap, failed>>
    /\ UNCHANGED <<memory, loopPc, file, lastOpen, crashes>>

\* _flush_save of what memory is then, by the loop's thread.
FlushSave(data) ==
    /\ timer' = CancelTimer
    /\ saveTimer' = NoTimer
    /\ dirty' = FALSE
    /\ snapshot' = [snapshot EXCEPT ![Loop] = data]
    /\ loopPc' = "writing"
    /\ overlap' = Writing
    /\ failed' = FALSE
    /\ UNCHANGED <<file, lastOpen, crashes>>

\* Where thread w is with _write_data, and what it is when it gets to step.
At(w, step) == IF w = Loop THEN loopPc = step ELSE timer[w] = step
GoTo(w, step) ==
    IF w = Loop
    THEN loopPc' = step /\ UNCHANGED timer
    ELSE timer' = [timer EXCEPT ![w] = step] /\ UNCHANGED loopPc

\* The thread goes back to its caller, or ends.
Leave(w) ==
    /\ GoTo(w, IF w = Loop THEN "idle" ELSE "done")
    /\ snapshot' = [snapshot EXCEPT ![w] = NoData]

\* _write_data: open(path, "w") truncates the file.
OpenFile(w) ==
    /\ At(w, "writing")
    /\ GoTo(w, "open")
    /\ file' = NoJson("empty")
    /\ lastOpen' = w
    /\ UNCHANGED <<memory, dirty, saveTimer, snapshot, crashes, overlap, failed>>

\* Mutant of CloseFile: the flag is reset after the write.
CloseFileResets(w) ==
    /\ At(w, "open")
    /\ Leave(w)
    /\ file' = Json(snapshot[w])
    /\ dirty' = FALSE
    /\ UNCHANGED <<memory, saveTimer, lastOpen, crashes, overlap, failed>>

\* _write_data: json.dump and close.  Each open file has a position of its
\* own: over what another thread has written since, the text of the longer
\* one sticks out.
CloseFile(w) ==
    /\ At(w, "open")
    /\ Leave(w)
    /\ \/ file' = Json(snapshot[w])
       \/ /\ file.kind # "empty" \/ lastOpen # w
          /\ file' = NoJson("torn")
    /\ UNCHANGED <<memory, dirty, saveTimer, lastOpen, crashes, overlap, failed>>

\* The open, the dump or the close raises: the flag is set, nothing else is.
WriteFails(w) ==
    /\ \/ At(w, "writing") /\ UNCHANGED file
       \/ At(w, "open") /\ file' \in {file, NoJson("torn")}
    /\ Leave(w)
    /\ dirty' = TRUE
    /\ failed' = TRUE
    /\ UNCHANGED <<memory, saveTimer, lastOpen, crashes, overlap>>
-----------------------------------------------------------------------------
(***************************************************************************)
(* Calls from the event loop.                                              *)
(***************************************************************************)

Called(method) == method \in Calls /\ loopPc = "idle"

\* A call that changes memory and schedules a save.
Change(method) ==
    /\ Called(method)
    /\ ScheduleSave
    /\ UNCHANGED <<loopPc, snapshot, file, lastOpen, crashes, overlap>>

\* Mutant of SaveTree: nodes are mapped to the tree's data, not to its root.
SaveTreeData(r, S) ==
    /\ Change("save_tree")
    /\ r \in S
    /\ trees' = [trees EXCEPT ![r] = S]
    /\ nodeToTree' = [n \in Nodes |-> IF n \in S THEN S ELSE nodeToTree[n]]
    /\ UNCHANGED <<log, logIds>>

SaveTree(r, S) ==
    /\ Change("save_tree")
    /\ r \in S
    /\ trees' = [trees EXCEPT ![r] = S]
    /\ nodeToTree' = [n \in Nodes |-> IF n \in S THEN r ELSE nodeToTree[n]]
    /\ UNCHANGED <<log, logIds>>

RegisterNode(n, r) ==
    /\ Change("register_node")
    /\ nodeToTree' = [nodeToTree EXCEPT ![n] = r]
    /\ UNCHANGED <<trees, log, logIds>>

RemoveNodeMappings(S) ==
    /\ Change("remove_node_mappings")
    /\ nodeToTree' = [n \in Nodes |-> IF n \in S THEN NoRoot ELSE nodeToTree[n]]
    /\ UNCHANGED <<trees, log, logIds>>

RemoveTree(r) ==
    /\ Change("remove_tree")
    /\ trees[r] # {}
    /\ trees' = [trees EXCEPT ![r] = {}]
    /\ nodeToTree' = [n \in Nodes |-> IF n \in trees[r] THEN NoRoot ELSE nodeToTree[n]]
    /\ UNCHANGED <<log, logIds>>

\* sync_from_tree_data at startup: the same trees, with other states.
SyncFromTreeData ==
    /\ Change("sync_from_tree_data")
    /\ UNCHANGED memory

\* Mutant of Capped: the ids of the entries that fall out stay known.
CappedLog(l, ids) ==
    IF Cap > 0 /\ Len(l) > Cap
    THEN [log |-> SubSeq(l, Len(l) - Cap + 1, Len(l)), ids |-> ids]
    ELSE [log |-> l, ids |-> ids]

\* record_message_id: what the cap leaves of the log, and its ids.
Capped(l, ids) ==
    IF Cap > 0 /\ Len(l) > Cap
    THEN LET last == SubSeq(l, Len(l) - Cap + 1, Len(l))
         IN  [log |-> last, ids |-> Ids(last)]
    ELSE [log |-> l, ids |-> ids]

RecordMessageId(m) ==
    /\ Change("record_message_id")
    /\ m \notin logIds
    /\ LET next == Capped(Append(log, m), logIds \cup {m})
       IN  log' = next.log /\ logIds' = next.ids
    /\ UNCHANGED <<trees, nodeToTree>>

ClearAll ==
    /\ Called("clear_all")
    /\ trees' = NoTrees
    /\ nodeToTree' = NoMapping
    /\ log' = <<>>
    /\ logIds' = {}
    /\ FlushSave(NoData)

FlushPendingSave ==
    /\ Called("flush_pending_save")
    /\ FlushSave(Snapshot)
    /\ UNCHANGED memory

\* _load: an error in reading the file is logged and ignored.
Loaded == file.data

\* The process dies and starts again: what its threads held is gone.
Crash ==
    /\ crashes < MaxCrashes
    /\ crashes' = crashes + 1
    /\ trees' = Loaded.trees
    /\ nodeToTree' = Loaded.nodeToTree
    /\ log' = Loaded.log
    /\ logIds' = Ids(Loaded.log)
    /\ dirty' = FALSE
    /\ saveTimer' = NoTimer
    /\ timer' = [t \in Timers |-> "unused"]
    /\ loopPc' = "idle"
    /\ overlap' = FALSE
    /\ failed' = FALSE
    /\ snapshot' = [t \in Threads |-> NoData]
    /\ lastOpen' = Loop
    /\ UNCHANGED file
-----------------------------------------------------------------------------
Write(w) == OpenFile(w) \/ CloseFile(w) \/ WriteFails(w)

Call ==
    \/ \E r \in Nodes : \E S \in SUBSET Nodes : SaveTree(r, S)
    \/ \E n, r \in Nodes : RegisterNode(n, r)
    \/ \E S \in SUBSET Nodes : RemoveNodeMappings(S)
    \/ \E r \in Nodes : RemoveTree(r)
    \/ SyncFromTreeData
    \/ \E m \in Messages : RecordMessageId(m)
    \/ ClearAll
    \/ FlushPendingSave

Next ==
    \/ Call
    \/ \E t \in Timers : TimerFires(t) \/ TimerSnapshots(t)
    \/ \E w \in Threads : Write(w)
    \/ Crash

Spec == Init /\ [][Next]_vars

\* Threads run: a timer fires, takes the lock and finishes its write.
FairSpec ==
    /\ Spec
    /\ \A t \in Timers : WF_vars(TimerFires(t)) /\ WF_vars(TimerSnapshots(t))
    /\ \A w \in Threads : WF_vars(Write(w))
-----------------------------------------------------------------------------
(***************************************************************************)
(* Properties.                                                             *)
(***************************************************************************)

\* An unsaved change is never without a timer, unless a write failed: no
\* order of cancelling, firing and flushing drops it.
DirtyHasTimer ==
    dirty => failed \/ \E t \in Timers : timer[t] \in {"armed", "fired"}

\* When nothing is left to do and the last thread that wrote was alone with
\* the file, a restart finds what memory has: no change was lost between the
\* flag, the snapshot and the write.
SettledIsSaved ==
    ~dirty /\ ~Writing /\ ~overlap => Loaded = Snapshot

\* The log has every id once, and the set that keeps it so has the same ids,
\* also after the cap, a clear and a restart.
LogMatchesIds ==
    /\ logIds = Ids(log)
    /\ \A i, j \in DOMAIN log : log[i] = log[j] => i = j

\* A change is saved, or its write fails.
SavesEventually == dirty ~> (~dirty \/ failed)
=============================================================================

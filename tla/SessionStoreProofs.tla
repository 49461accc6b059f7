------------------------- MODULE SessionStoreProofs -------------------------
(***************************************************************************)
(* Theorems about SessionStore, for any nodes, messages and timers, any    *)
(* cap, any calls and any number of crashes.                               *)
(***************************************************************************)
EXTENDS SessionStore, SequenceTheorems, TLAPS

-----------------------------------------------------------------------------
(***************************************************************************)
(* Types.                                                                  *)
(***************************************************************************)

\* An empty store is one of the things a file can hold.
LEMMA NoDataIsData == NoData \in Data
  BY NoRootAssumption, EmptySeq DEF NoData, NoTrees, NoMapping, Data

\* What is written is something that a file can hold.
LEMMA FilesOfData ==
    ASSUME NEW d \in Data
    PROVE  /\ Json(d) \in Files
           /\ \A k \in {"missing", "empty", "torn"} : NoJson(k) \in Files
  BY NoDataIsData DEF Json, NoJson, Files

\* What Timer.cancel and a new timer make of the timers.
LEMMA CancelledTimers ==
    ASSUME timer \in [Timers -> TimerStep]
    PROVE  /\ CancelTimer \in [Timers -> TimerStep]
           /\ \A t \in Timers : [CancelTimer EXCEPT ![t] = "armed"] \in [Timers -> TimerStep]
  BY DEF CancelTimer, TimerStep

\* What the cap leaves of the log.
LEMMA CappedType ==
    ASSUME NEW l \in Seq(Messages), NEW ids \in SUBSET Messages
    PROVE  Capped(l, ids).log \in Seq(Messages) /\ Capped(l, ids).ids \subseteq Messages
<1>1. CASE Cap > 0 /\ Len(l) > Cap
  <2> DEFINE last == SubSeq(l, Len(l) - Cap + 1, Len(l))
  <2>1. Len(l) \in Nat /\ Cap \in Nat
    BY CapAssumption
  <2>2. last \in Seq(Messages)
    BY <1>1, <2>1, SubSeqProperties
  <2>3. Ids(last) \subseteq Messages
    BY <2>2, ElementOfSeq, LenProperties DEF Ids
  <2>. QED  BY <1>1, <2>2, <2>3 DEF Capped
<1>2. CASE ~(Cap > 0 /\ Len(l) > Cap)
  BY <1>2 DEF Capped
<1>. QED  BY <1>1, <1>2

\* Scheduling, flushing and saving keep the types.
LEMMA SavingTypes ==
    ASSUME TypeOK, NEW d \in Data
    PROVE  /\ ScheduleSave => /\ dirty' \in BOOLEAN /\ failed' \in BOOLEAN
                              /\ saveTimer' \in Timers \cup {NoTimer}
                              /\ timer' \in [Timers -> TimerStep]
           /\ FlushSave(d) => /\ dirty' \in BOOLEAN /\ failed' \in BOOLEAN
                              /\ overlap' \in BOOLEAN
                              /\ saveTimer' \in Timers \cup {NoTimer}
                              /\ timer' \in [Timers -> TimerStep]
                              /\ snapshot' \in [Threads -> Data]
                              /\ loopPc' \in LoopStep
<1>1. timer \in [Timers -> TimerStep] /\ snapshot \in [Threads -> Data]
  BY DEF TypeOK
<1>2. ScheduleSave => /\ dirty' \in BOOLEAN /\ failed' \in BOOLEAN
                      /\ saveTimer' \in Timers \cup {NoTimer}
                      /\ timer' \in [Timers -> TimerStep]
  BY <1>1, CancelledTimers DEF ScheduleSave
<1>3. FlushSave(d) => /\ dirty' \in BOOLEAN /\ failed' \in BOOLEAN
                      /\ overlap' \in BOOLEAN
                      /\ saveTimer' \in Timers \cup {NoTimer}
                      /\ timer' \in [Timers -> TimerStep]
                      /\ loopPc' \in LoopStep
  BY <1>1, CancelledTimers DEF FlushSave, LoopStep, Writing
<1>4. FlushSave(d) => snapshot' \in [Threads -> Data]
  BY <1>1 DEF FlushSave
<1>. QED  BY <1>2, <1>3, <1>4

\* The parts of TypeOK that calls change.
MemoryOK == Snapshot \in Data /\ logIds \subseteq Messages

\* The parts of TypeOK that writing changes.
WritingOK ==
    /\ timer \in [Timers -> TimerStep]
    /\ loopPc \in LoopStep
    /\ snapshot \in [Threads -> Data]
    /\ file \in Files
    /\ lastOpen \in Threads

\* The calls of the event loop keep the types.
LEMMA CallTypes ==
    ASSUME TypeOK, Call
    PROVE  TypeOK'
<1>. USE DEF MemoryOK
<1>1. /\ trees \in [Nodes -> SUBSET Nodes]
      /\ nodeToTree \in [Nodes -> Nodes \cup {NoRoot}]
      /\ log \in Seq(Messages)
      /\ logIds \subseteq Messages
      /\ Snapshot \in Data
  BY DEF TypeOK, Snapshot, Data
<1>2. ASSUME trees' \in [Nodes -> SUBSET Nodes], nodeToTree' \in [Nodes -> Nodes \cup {NoRoot}],
             log' \in Seq(Messages), logIds' \subseteq Messages
      PROVE  MemoryOK'
  BY <1>2 DEF Snapshot, Data
<1>3. ASSUME NEW method, Change(method), MemoryOK'  PROVE TypeOK'
  BY <1>3, SavingTypes, NoDataIsData DEF Change, TypeOK
<1>4. ASSUME NEW d \in Data, FlushSave(d), MemoryOK'  PROVE TypeOK'
  BY <1>4, SavingTypes DEF FlushSave, TypeOK
<1>5. ASSUME NEW r \in Nodes, NEW S \in SUBSET Nodes, SaveTree(r, S)  PROVE TypeOK'
  BY <1>1, <1>2, <1>3, <1>5 DEF SaveTree
<1>6. ASSUME NEW n \in Nodes, NEW r \in Nodes, RegisterNode(n, r)  PROVE TypeOK'
  BY <1>1, <1>2, <1>3, <1>6 DEF RegisterNode
<1>7. ASSUME NEW S \in SUBSET Nodes, RemoveNodeMappings(S)  PROVE TypeOK'
  BY <1>1, <1>2, <1>3, <1>7 DEF RemoveNodeMappings
<1>8. ASSUME NEW r \in Nodes, RemoveTree(r)  PROVE TypeOK'
  BY <1>1, <1>2, <1>3, <1>8 DEF RemoveTree
<1>9. ASSUME SyncFromTreeData  PROVE TypeOK'
  BY <1>1, <1>2, <1>3, <1>9 DEF SyncFromTreeData, memory
<1>10. ASSUME NEW m \in Messages, RecordMessageId(m)  PROVE TypeOK'
  <2>1. Append(log, m) \in Seq(Messages) /\ logIds \cup {m} \subseteq Messages
    BY <1>1, AppendProperties
  <2>2. log' \in Seq(Messages) /\ logIds' \subseteq Messages
    BY <1>10, <2>1, CappedType DEF RecordMessageId
  <2>. QED  BY <1>1, <1>2, <1>3, <1>10, <2>2 DEF RecordMessageId
<1>11. ASSUME ClearAll  PROVE TypeOK'
  <2>1. MemoryOK'
    BY <1>2, <1>11, NoDataIsData DEF ClearAll, NoData, Data
  <2>. QED  BY <1>4, <1>11, <2>1, NoDataIsData DEF ClearAll
<1>12. ASSUME FlushPendingSave  PROVE TypeOK'
  BY <1>1, <1>2, <1>4, <1>12 DEF FlushPendingSave, memory
<1>. QED  BY <1>5, <1>6, <1>7, <1>8, <1>9, <1>10, <1>11, <1>12 DEF Call

\* A thread that takes a step with the file is where it may be next.
LEMMA MovesType ==
    ASSUME TypeOK, NEW w \in Threads, NEW step \in {"idle", "open", "done"}, GoTo(w, step),
           w = Loop => step \in LoopStep, w # Loop => step \in TimerStep
    PROVE  timer' \in [Timers -> TimerStep] /\ loopPc' \in LoopStep
  BY DEF GoTo, TypeOK

\* A thread that has written or failed is idle again.
LEMMA LeaveType ==
    ASSUME TypeOK, NEW w \in Threads, Leave(w)
    PROVE  /\ timer' \in [Timers -> TimerStep] /\ loopPc' \in LoopStep
           /\ snapshot' \in [Threads -> Data]
<1>1. timer' \in [Timers -> TimerStep] /\ loopPc' \in LoopStep
  <2>1. CASE w = Loop
    BY <2>1, MovesType DEF Leave, LoopStep
  <2>2. CASE w # Loop
    BY <2>2, MovesType DEF Leave, TimerStep
  <2>. QED  BY <2>1, <2>2
<1>2. snapshot' \in [Threads -> Data]
  BY NoDataIsData DEF Leave, TypeOK
<1>. QED  BY <1>1, <1>2

\* Timers and writers keep the types.
LEMMA ThreadTypes ==
    ASSUME TypeOK,
           \/ \E t \in Timers : TimerFires(t) \/ TimerSnapshots(t)
           \/ \E w \in Threads : Write(w)
           \/ Crash
    PROVE  TypeOK'
<1>1. ASSUME NEW t \in Timers, TimerFires(t)  PROVE TypeOK'
  BY <1>1 DEF TimerFires, TypeOK, TimerStep, memory, Snapshot
<1>2. ASSUME NEW t \in Timers, TimerSnapshots(t)  PROVE TypeOK'
  <2>1. timer' \in [Timers -> TimerStep]
    BY <1>2 DEF TimerSnapshots, TypeOK, TimerStep
  <2>2. snapshot' \in [Threads -> Data]
    BY <1>2 DEF TimerSnapshots, TypeOK, Threads
  <2>. QED  BY <1>2, <2>1, <2>2 DEF TimerSnapshots, TypeOK, memory, Snapshot, Writing
<1>3. ASSUME NEW w \in Threads, OpenFile(w)  PROVE TypeOK'
  <2>1. timer' \in [Timers -> TimerStep] /\ loopPc' \in LoopStep
    BY <1>3, MovesType DEF OpenFile, LoopStep, TimerStep
  <2>2. file' \in Files /\ lastOpen' \in Threads
    BY <1>3, FilesOfData, NoDataIsData DEF OpenFile
  <2>. QED  BY <1>3, <2>1, <2>2 DEF OpenFile, TypeOK, memory, Snapshot
<1>4. ASSUME NEW w \in Threads, CloseFile(w)  PROVE TypeOK'
  <2>1. file' \in Files
    BY <1>4, FilesOfData, NoDataIsData DEF CloseFile, TypeOK
  <2>. QED  BY <1>4, <2>1, LeaveType DEF CloseFile, TypeOK, memory, Snapshot
<1>5. ASSUME NEW w \in Threads, WriteFails(w)  PROVE TypeOK'
  <2>1. file' \in Files
    BY <1>5, FilesOfData, NoDataIsData DEF WriteFails, TypeOK
  <2>. QED  BY <1>5, <2>1, LeaveType DEF WriteFails, TypeOK, memory, Snapshot
<1>6. ASSUME Crash  PROVE TypeOK'
  <2>1. Loaded \in Data
    BY DEF Loaded, TypeOK, Files
  <2>2. Snapshot' \in Data /\ logIds' \subseteq Messages
    <3>1. Snapshot' = Loaded
      BY <1>6, <2>1 DEF Crash, Snapshot, Data
    <3>2. \A i \in DOMAIN Loaded.log : Loaded.log[i] \in Messages
      BY <2>1 DEF Data
    <3>. QED  BY <1>6, <2>1, <3>1, <3>2 DEF Crash, Ids
  <2>3. timer' \in [Timers -> TimerStep] /\ snapshot' \in [Threads -> Data] /\ loopPc' \in LoopStep
    BY <1>6, NoDataIsData DEF Crash, TimerStep, LoopStep
  <2>4. crashes' \in 0..MaxCrashes
    BY <1>6, CapAssumption DEF Crash, TypeOK
  <2>. QED  BY <1>6, <2>2, <2>3, <2>4 DEF Crash, TypeOK, Threads
<1>. QED  BY <1>1, <1>2, <1>3, <1>4, <1>5, <1>6 DEF Write

\* session.py: the fields keep their types, also after a restart from a file
\* that is missing, empty or torn.
THEOREM TypeCorrect == Spec => []TypeOK
<1>1. Init => TypeOK
  <2> SUFFICES ASSUME Init  PROVE TypeOK
    OBVIOUS
  <2>1. Snapshot = NoData
    BY DEF Init, Snapshot, NoData
  <2>2. timer \in [Timers -> TimerStep] /\ loopPc \in LoopStep
    BY DEF Init, TimerStep, LoopStep
  <2>3. snapshot \in [Threads -> Data] /\ file \in Files
    BY NoDataIsData, FilesOfData DEF Init
  <2>4. crashes \in 0..MaxCrashes
    BY CapAssumption DEF Init
  <2>5. Snapshot \in Data /\ logIds \subseteq Messages
    BY <2>1, NoDataIsData DEF Init
  <2>6. /\ dirty \in BOOLEAN /\ overlap \in BOOLEAN /\ failed \in BOOLEAN
        /\ saveTimer \in Timers \cup {NoTimer} /\ lastOpen \in Threads
    BY DEF Init, Threads
  <2>. QED  BY <2>2, <2>3, <2>4, <2>5, <2>6 DEF TypeOK
<1>2. TypeOK /\ [Next]_vars => TypeOK'
  <2> SUFFICES ASSUME TypeOK, [Next]_vars  PROVE TypeOK'
    OBVIOUS
  <2>1. CASE UNCHANGED vars
    BY <2>1 DEF vars, memory, saving, TypeOK, Snapshot
  <2>. QED  BY <2>1, CallTypes, ThreadTypes DEF Next
<1>. QED  BY <1>1, <1>2, PTL DEF Spec
-----------------------------------------------------------------------------
(***************************************************************************)
(* The dirty flag.                                                         *)
(***************************************************************************)

\* Every step that sets the flag arms a timer, and every one that uses a
\* timer up resets the flag.
TimerInv == DOMAIN timer = Timers /\ DirtyHasTimer

\* A timer is armed, or on its way to the lock, while changes are unsaved.
LEMMA FlagStep ==
    ASSUME TimerInv, [Next]_vars
    PROVE  TimerInv'
<1>. USE DEF TimerInv, DirtyHasTimer
<1>1. ASSUME ScheduleSave  PROVE TimerInv'
  <2>1. PICK t \in Timers : timer' = [CancelTimer EXCEPT ![t] = "armed"]
    BY <1>1 DEF ScheduleSave
  <2>. QED  BY <2>1 DEF CancelTimer
<1>2. ASSUME NEW d, FlushSave(d)  PROVE TimerInv'
  BY <1>2 DEF FlushSave, CancelTimer
<1>3. CASE Call
  BY <1>1, <1>2, <1>3 DEF Call, SaveTree, RegisterNode, RemoveNodeMappings, RemoveTree,
     SyncFromTreeData, RecordMessageId, ClearAll, FlushPendingSave, Change
<1>4. ASSUME NEW t \in Timers, TimerFires(t)  PROVE TimerInv'
  BY <1>4 DEF TimerFires
<1>5. ASSUME NEW t \in Timers, TimerSnapshots(t)  PROVE TimerInv'
  <2>1. dirty' = FALSE /\ DOMAIN timer' = Timers
    BY <1>5 DEF TimerSnapshots
  <2>. QED  BY <2>1
<1>6. ASSUME NEW w \in Threads, OpenFile(w)  PROVE TimerInv'
  BY <1>6 DEF OpenFile, GoTo, At
<1>7. ASSUME NEW w \in Threads, CloseFile(w)  PROVE TimerInv'
  BY <1>7 DEF CloseFile, Leave, GoTo, At
<1>8. ASSUME NEW w \in Threads, WriteFails(w)  PROVE TimerInv'
  BY <1>8 DEF WriteFails, Leave, GoTo
<1>9. CASE Crash
  BY <1>9 DEF Crash
<1>10. CASE UNCHANGED vars
  BY <1>10 DEF vars, saving
<1>. QED  BY <1>3, <1>4, <1>5, <1>6, <1>7, <1>8, <1>9, <1>10 DEF Next, Write

\* _schedule_save, _flush_save and _save_from_timer: no order of cancelling,
\* firing and flushing leaves an unsaved change without a timer.
THEOREM DirtyIsSaved == Spec => []DirtyHasTimer
<1>1. Init => TimerInv
  BY DEF Init, TimerInv, DirtyHasTimer
<1>2. TimerInv /\ [Next]_vars => TimerInv'
  BY FlagStep
<1>3. TimerInv => DirtyHasTimer
  BY DEF TimerInv
<1>. QED  BY <1>1, <1>2, <1>3, PTL DEF Spec
-----------------------------------------------------------------------------
(***************************************************************************)
(* The message log.                                                        *)
(***************************************************************************)

NoRepeats(l) == \A i, j \in DOMAIN l : l[i] = l[j] => i = j

\* A log without repetitions is one wherever it is kept.
LogInv ==
    /\ LogMatchesIds
    /\ NoRepeats(file.data.log)
    /\ \A w \in Threads : NoRepeats(snapshot[w].log)

\* A new id at the end of a log repeats none.
LEMMA AppendedLog ==
    ASSUME NEW l \in Seq(Messages), NEW m \in Messages, NoRepeats(l), m \notin Ids(l)
    PROVE  /\ NoRepeats(Append(l, m))
           /\ Ids(Append(l, m)) = Ids(l) \cup {m}
<1>1. /\ DOMAIN Append(l, m) = 1..(Len(l) + 1)
      /\ \A i \in 1..Len(l) : Append(l, m)[i] = l[i]
      /\ Append(l, m)[Len(l) + 1] = m
  BY AppendProperties
<1>2. DOMAIN l = 1..Len(l) /\ Len(l) \in Nat
  BY LenProperties
<1>3. NoRepeats(Append(l, m))
  BY <1>1, <1>2 DEF NoRepeats, Ids
<1>4. Ids(Append(l, m)) \subseteq Ids(l) \cup {m}
  BY <1>1, <1>2 DEF Ids
<1>5. Ids(l) \cup {m} \subseteq Ids(Append(l, m))
  <2>1. m \in Ids(Append(l, m))
    BY <1>1, <1>2 DEF Ids
  <2>2. Ids(l) \subseteq Ids(Append(l, m))
    BY <1>1, <1>2 DEF Ids
  <2>. QED  BY <2>1, <2>2
<1>. QED  BY <1>3, <1>4, <1>5

\* The cap keeps the log free of repetitions, and its set in step.
LEMMA CappedLogs ==
    ASSUME NEW l \in Seq(Messages), NoRepeats(l)
    PROVE  /\ NoRepeats(Capped(l, Ids(l)).log)
           /\ Capped(l, Ids(l)).ids = Ids(Capped(l, Ids(l)).log)
<1>1. CASE Cap > 0 /\ Len(l) > Cap
  <2> DEFINE k == Len(l) - Cap + 1
             last == SubSeq(l, k, Len(l))
  <2>1. Len(l) \in Nat /\ Cap \in Nat /\ DOMAIN l = 1..Len(l)
    BY CapAssumption, LenProperties
  <2>2. k \in 1..Len(l) /\ k \in Int
    BY <1>1, <2>1
  <2>3. DOMAIN last = 1..(Len(l) - k + 1) /\ \A i \in DOMAIN last : last[i] = l[k + i - 1]
    BY <2>1, <2>2, SubSeqProperties
  <2>4. \A i \in DOMAIN last : k + i - 1 \in DOMAIN l
    BY <2>1, <2>2, <2>3
  <2>5. NoRepeats(last)
    BY <2>2, <2>3, <2>4 DEF NoRepeats
  <2>. QED  BY <1>1, <2>5 DEF Capped
<1>2. CASE ~(Cap > 0 /\ Len(l) > Cap)
  BY <1>2 DEF Capped
<1>. QED  BY <1>1, <1>2

\* The log and its set stay in step.
LEMMA LogStep ==
    ASSUME TypeOK, LogInv, [Next]_vars
    PROVE  LogInv'
<1>. USE DEF LogInv
<1>1. /\ log \in Seq(Messages) /\ logIds = Ids(log) /\ NoRepeats(log)
      /\ DOMAIN snapshot = Threads
  BY DEF TypeOK, LogMatchesIds, NoRepeats, Snapshot, Data
<1>2. NoRepeats(NoData.log) /\ NoRepeats(<<>>) /\ Ids(<<>>) = {}
  BY DEF NoRepeats, NoData, Ids
<1>3. ASSUME logIds' = Ids(log'), NoRepeats(log')  PROVE LogMatchesIds'
  BY <1>3 DEF LogMatchesIds, NoRepeats
<1>4. ASSUME UNCHANGED <<log, logIds>>  PROVE LogMatchesIds'
  BY <1>4 DEF LogMatchesIds
<1>5. ASSUME NEW w \in Threads, Leave(w)  PROVE \A v \in Threads : NoRepeats(snapshot'[v].log)
  BY <1>1, <1>2, <1>5 DEF Leave
<1>6. ASSUME NEW method, Change(method), LogMatchesIds'  PROVE LogInv'
  BY <1>6 DEF Change
<1>7. ASSUME NEW d, FlushSave(d), NoRepeats(d.log), LogMatchesIds'  PROVE LogInv'
  BY <1>1, <1>7 DEF FlushSave
<1>8. CASE Call
  <2>1. ASSUME NEW m \in Messages, RecordMessageId(m)  PROVE LogMatchesIds'
    <3>1. Append(log, m) \in Seq(Messages) /\ NoRepeats(Append(log, m))
          /\ logIds \cup {m} = Ids(Append(log, m))
      BY <1>1, <2>1, AppendedLog, AppendProperties DEF RecordMessageId
    <3>. QED  BY <1>3, <2>1, <3>1, CappedLogs DEF RecordMessageId
  <2>2. ASSUME ClearAll  PROVE LogInv'
    BY <1>2, <1>3, <1>7, <2>2 DEF ClearAll
  <2>3. ASSUME FlushPendingSave  PROVE LogInv'
    <3>1. NoRepeats(Snapshot.log)
      BY <1>1 DEF Snapshot
    <3>. QED  BY <1>4, <1>7, <2>3, <3>1 DEF FlushPendingSave, memory
  <2>4. ASSUME NEW r \in Nodes, NEW S \in SUBSET Nodes, SaveTree(r, S)  PROVE LogInv'
    BY <1>4, <1>6, <2>4 DEF SaveTree
  <2>5. ASSUME NEW n \in Nodes, NEW r \in Nodes, RegisterNode(n, r)  PROVE LogInv'
    BY <1>4, <1>6, <2>5 DEF RegisterNode
  <2>6. ASSUME NEW S \in SUBSET Nodes, RemoveNodeMappings(S)  PROVE LogInv'
    BY <1>4, <1>6, <2>6 DEF RemoveNodeMappings
  <2>7. ASSUME NEW r \in Nodes, RemoveTree(r)  PROVE LogInv'
    BY <1>4, <1>6, <2>7 DEF RemoveTree
  <2>8. ASSUME SyncFromTreeData  PROVE LogInv'
    BY <1>4, <1>6, <2>8 DEF SyncFromTreeData, memory
  <2>9. ASSUME NEW m \in Messages, RecordMessageId(m)  PROVE LogInv'
    BY <1>6, <2>1, <2>9 DEF RecordMessageId
  <2>. QED  BY <1>8, <2>2, <2>3, <2>4, <2>5, <2>6, <2>7, <2>8, <2>9 DEF Call
<1>9. ASSUME NEW t \in Timers, TimerFires(t)  PROVE LogInv'
  BY <1>4, <1>9 DEF TimerFires, memory
<1>10. ASSUME NEW t \in Timers, TimerSnapshots(t)  PROVE LogInv'
  <2>1. NoRepeats(Snapshot.log)
    BY <1>1 DEF Snapshot
  <2>. QED  BY <1>1, <1>4, <1>10, <2>1 DEF TimerSnapshots, memory
<1>11. ASSUME NEW w \in Threads, OpenFile(w)  PROVE LogInv'
  BY <1>2, <1>4, <1>11 DEF OpenFile, memory, NoJson
<1>12. ASSUME NEW w \in Threads, CloseFile(w)  PROVE LogInv'
  BY <1>2, <1>4, <1>5, <1>12 DEF CloseFile, memory, NoJson, Json
<1>13. ASSUME NEW w \in Threads, WriteFails(w)  PROVE LogInv'
  BY <1>2, <1>4, <1>5, <1>13 DEF WriteFails, memory, NoJson
<1>14. CASE Crash
  BY <1>2, <1>3, <1>14 DEF Crash, Loaded
<1>15. CASE UNCHANGED vars
  BY <1>4, <1>15 DEF vars, memory, saving
<1>. QED  BY <1>8, <1>9, <1>10, <1>11, <1>12, <1>13, <1>14, <1>15 DEF Next, Write

\* record_message_id, its cap, clear_all and _load: an id is logged once, and
\* the set that sees to it has the ids of the log.
THEOREM LogIsKept == Spec => []LogMatchesIds
<1>1. Init => LogInv
  BY DEF Init, LogInv, LogMatchesIds, NoRepeats, Ids, NoJson, NoData
<1>2. TypeOK /\ LogInv /\ [Next]_vars => LogInv'
  BY LogStep
<1>3. LogInv => LogMatchesIds
  BY DEF LogInv
<1>. QED  BY <1>1, <1>2, <1>3, TypeCorrect, PTL DEF Spec
-----------------------------------------------------------------------------
(***************************************************************************)
(* The file.                                                               *)
(***************************************************************************)

HasFile(w) == At(w, "writing") \/ At(w, "open")

\* While no other thread has the file, the one that writes it holds what
\* memory has, unless memory changed and the flag says so.
SavedInv ==
    ~overlap =>
        /\ \A v, w \in Threads : HasFile(v) /\ HasFile(w) => v = w
        /\ \A w \in Threads : At(w, "open") => file.kind = "empty" /\ lastOpen = w
        /\ ~dirty => \A w \in Threads : HasFile(w) => snapshot[w] = Snapshot
        /\ ~dirty /\ (\A w \in Threads : ~HasFile(w)) => Loaded = Snapshot

\* Somebody writes when some thread has the file.
LEMMA WritersHaveFile ==
    ASSUME TypeOK
    PROVE  Writing <=> \E w \in Threads : HasFile(w)
<1>1. loopPc \in LoopStep
  BY DEF TypeOK
<1>2. ASSUME Writing  PROVE \E w \in Threads : HasFile(w)
  <2>1. CASE loopPc # "idle"
    BY <1>1, <2>1 DEF HasFile, At, LoopStep, Threads
  <2>2. ASSUME NEW t \in Timers, timer[t] \in {"writing", "open"}  PROVE HasFile(t)
    BY <2>2, ThreadsAssumption DEF HasFile, At
  <2>. QED  BY <1>2, <2>1, <2>2 DEF Writing, Threads
<1>3. ASSUME NEW w \in Threads, HasFile(w)  PROVE Writing
  BY <1>3 DEF HasFile, At, Writing, Threads
<1>. QED  BY <1>2, <1>3

\* Nobody takes or leaves the file, and what is unsaved is marked.
LEMMA WritersStay ==
    ASSUME SavedInv, UNCHANGED <<overlap, file, lastOpen, snapshot>>,
           \A w \in Threads : (HasFile(w)' <=> HasFile(w)) /\ (At(w, "open")' => At(w, "open")),
           dirty' \/ UNCHANGED <<dirty, trees, nodeToTree, log>>
    PROVE  SavedInv'
  BY DEF SavedInv, Loaded, Snapshot

\* A thread takes what memory then is: alone, or overlap is set.
LEMMA WriterTakes ==
    ASSUME TypeOK, NEW w \in Threads, overlap' = Writing,
           ~dirty', HasFile(w)', ~At(w, "open")', snapshot'[w] = Snapshot',
           \A v \in Threads \ {w} : HasFile(v)' => HasFile(v)
    PROVE  SavedInv'
<1>. SUFFICES ASSUME ~Writing  PROVE SavedInv'
  BY DEF SavedInv
<1>1. \A v \in Threads : ~HasFile(v)
  BY WritersHaveFile
<1>2. \A v \in Threads : HasFile(v)' => v = w
  BY <1>1
<1>3. \A v \in Threads : At(v, "open")' => HasFile(v)'
  BY DEF HasFile
<1>. QED  BY <1>2, <1>3 DEF SavedInv

\* A thread is done with the file; another that has it is known to overlap.
LEMMA WriterLeaves ==
    ASSUME SavedInv, NEW w \in Threads, HasFile(w), UNCHANGED overlap,
           \A v \in Threads : HasFile(v)' => HasFile(v) /\ v # w,
           ~overlap => dirty' \/ Loaded' = Snapshot'
    PROVE  SavedInv'
<1>. SUFFICES ASSUME ~overlap  PROVE SavedInv'
  BY DEF SavedInv
<1>1. \A v \in Threads : ~HasFile(v)'
  BY DEF SavedInv
<1>2. \A v \in Threads : ~At(v, "open")'
  BY <1>1 DEF HasFile
<1>. QED  BY <1>1, <1>2 DEF SavedInv

\* The same for the effect of Leave.
LEMMA LeaverLeaves ==
    ASSUME TypeOK, NEW w \in Threads, Leave(w)
    PROVE  \A v \in Threads : HasFile(v)' => HasFile(v) /\ v # w
<1>1. CASE w = Loop
  <2>1. loopPc' = "idle" /\ timer' = timer
    BY <1>1 DEF Leave, GoTo
  <2>. QED  BY <1>1, <2>1 DEF HasFile, At
<1>2. CASE w # Loop
  <2>1. loopPc' = loopPc /\ timer' = [timer EXCEPT ![w] = "done"]
    BY <1>2 DEF Leave, GoTo
  <2>2. w \in DOMAIN timer
    BY <1>2 DEF TypeOK, Threads
  <2>. QED  BY <1>2, <2>1, <2>2 DEF HasFile, At
<1>. QED  BY <1>1, <1>2

\* Memory, the snapshots and the file stay in step.
LEMMA SavedStep ==
    ASSUME TypeOK, SavedInv, [Next]_vars
    PROVE  SavedInv'
<1>1. /\ DOMAIN timer = Timers /\ DOMAIN snapshot = Threads
      /\ Loop \in Threads /\ Timers \subseteq Threads /\ Loop \notin Timers
  BY ThreadsAssumption DEF TypeOK, Threads
<1>2. ASSUME NEW method, Change(method)  PROVE SavedInv'
  <2>1. dirty' = TRUE /\ UNCHANGED <<loopPc, snapshot, file, lastOpen, overlap>>
    BY <1>2 DEF Change, ScheduleSave
  <2>2. PICK t \in Timers : timer[t] = "unused" /\ timer' = [CancelTimer EXCEPT ![t] = "armed"]
    BY <1>2 DEF Change, ScheduleSave
  <2>3. \A u \in Timers : \A step \in {"writing", "open"} : timer'[u] = step <=> timer[u] = step
    BY <2>2 DEF CancelTimer
  <2>4. \A w \in Threads : (HasFile(w)' <=> HasFile(w)) /\ (At(w, "open")' => At(w, "open"))
    BY <2>1, <2>3 DEF HasFile, At, Threads
  <2>. QED  BY <2>1, <2>4, WritersStay
<1>3. ASSUME FlushSave(Snapshot')  PROVE SavedInv'
  <2>1. timer' = CancelTimer /\ loopPc' = "writing" /\ dirty' = FALSE /\ overlap' = Writing
        /\ snapshot'[Loop] = Snapshot'
    BY <1>1, <1>3 DEF FlushSave
  <2>2. \A v \in Threads \ {Loop} : HasFile(v)' => HasFile(v)
    BY <2>1 DEF HasFile, At, CancelTimer, Threads
  <2>3. HasFile(Loop)' /\ ~At(Loop, "open")'
    BY <2>1 DEF HasFile, At
  <2>. QED  BY <1>1, <2>1, <2>2, <2>3, WriterTakes
<1>4. CASE Call
  <2>1. ASSUME ClearAll  PROVE SavedInv'
    <3>1. Snapshot' = NoData
      BY <2>1 DEF ClearAll, Snapshot, NoData
    <3>. QED  BY <1>3, <2>1, <3>1 DEF ClearAll
  <2>2. ASSUME FlushPendingSave  PROVE SavedInv'
    <3>1. Snapshot' = Snapshot
      BY <2>2 DEF FlushPendingSave, memory, Snapshot
    <3>. QED  BY <1>3, <2>2, <3>1 DEF FlushPendingSave
  <2>. QED  BY <1>2, <1>4, <2>1, <2>2 DEF Call, SaveTree, RegisterNode, RemoveNodeMappings,
            RemoveTree, SyncFromTreeData, RecordMessageId
<1>5. ASSUME NEW t \in Timers, TimerFires(t)  PROVE SavedInv'
  <2>1. timer[t] = "armed" /\ timer' = [timer EXCEPT ![t] = "fired"]
        /\ UNCHANGED <<memory, dirty, loopPc, snapshot, file, lastOpen, overlap>>
    BY <1>5 DEF TimerFires
  <2>2. \A w \in Threads : (HasFile(w)' <=> HasFile(w)) /\ (At(w, "open")' => At(w, "open"))
    BY <1>1, <2>1 DEF HasFile, At, Threads
  <2>. QED  BY <2>1, <2>2, WritersStay DEF memory
<1>6. ASSUME NEW t \in Timers, TimerSnapshots(t), dirty  PROVE SavedInv'
  <2>1. /\ timer[t] = "fired" /\ timer' = [timer EXCEPT ![t] = "writing"]
        /\ UNCHANGED loopPc
        /\ dirty' = FALSE /\ overlap' = Writing
        /\ snapshot' = [snapshot EXCEPT ![t] = Snapshot] /\ Snapshot' = Snapshot
    BY <1>6 DEF TimerSnapshots, memory, Snapshot
  <2>2. \A v \in Threads \ {t} : HasFile(v)' => HasFile(v)
    BY <1>1, <2>1 DEF HasFile, At, Threads
  <2>3. HasFile(t)' /\ ~At(t, "open")' /\ snapshot'[t] = Snapshot'
    BY <1>1, <2>1 DEF HasFile, At
  <2>. QED  BY <1>1, <2>1, <2>2, <2>3, WriterTakes
<1>7. ASSUME NEW t \in Timers, TimerSnapshots(t), ~dirty  PROVE SavedInv'
  <2>1. /\ timer[t] = "fired" /\ timer' = [timer EXCEPT ![t] = "done"]
        /\ UNCHANGED <<memory, dirty, loopPc, snapshot, file, lastOpen, overlap>>
    BY <1>7 DEF TimerSnapshots
  <2>2. \A w \in Threads : (HasFile(w)' <=> HasFile(w)) /\ (At(w, "open")' => At(w, "open"))
    BY <1>1, <2>1 DEF HasFile, At, Threads
  <2>. QED  BY <2>1, <2>2, WritersStay DEF memory
<1>8. ASSUME NEW w \in Threads, OpenFile(w)  PROVE SavedInv'
  <2>1. \A v \in Threads : (HasFile(v)' <=> HasFile(v)) /\ (At(v, "open")' => v = w \/ At(v, "open"))
    <3>1. CASE w = Loop
      <4>1. loopPc = "writing" /\ loopPc' = "open" /\ timer' = timer
        BY <1>8, <3>1 DEF OpenFile, GoTo, At
      <4>. QED  BY <3>1, <4>1 DEF HasFile, At
    <3>2. CASE w # Loop
      <4>1. timer[w] = "writing" /\ timer' = [timer EXCEPT ![w] = "open"] /\ loopPc' = loopPc
        BY <1>8, <3>2 DEF OpenFile, GoTo, At
      <4>. QED  BY <1>1, <3>2, <4>1 DEF HasFile, At, Threads
    <3>. QED  BY <3>1, <3>2
  <2>2. HasFile(w) /\ \A v \in Threads : At(v, "open") => HasFile(v)
    BY <1>8 DEF OpenFile, HasFile
  <2>3. /\ file'.kind = "empty" /\ lastOpen' = w
        /\ UNCHANGED <<overlap, dirty, snapshot, trees, nodeToTree, log>>
    BY <1>8 DEF OpenFile, NoJson, memory
  <2>. QED  BY <2>1, <2>2, <2>3 DEF SavedInv, Snapshot
<1>9. ASSUME NEW w \in Threads, CloseFile(w)  PROVE SavedInv'
  <2>1. HasFile(w) /\ At(w, "open") /\ UNCHANGED <<overlap, dirty>> /\ Snapshot' = Snapshot
    BY <1>9 DEF CloseFile, HasFile, memory, Snapshot
  <2>2. ASSUME ~overlap, ~dirty  PROVE Loaded' = Snapshot'
    <3>1. file.kind = "empty" /\ lastOpen = w /\ snapshot[w] = Snapshot
      BY <2>1, <2>2 DEF SavedInv
    <3>2. file' = Json(snapshot[w])
      BY <1>9, <3>1 DEF CloseFile
    <3>. QED  BY <2>1, <3>1, <3>2 DEF Loaded, Json
  <2>3. \A v \in Threads : HasFile(v)' => HasFile(v) /\ v # w
    BY <1>9, LeaverLeaves DEF CloseFile
  <2>. QED  BY <2>1, <2>2, <2>3, WriterLeaves
<1>10. ASSUME NEW w \in Threads, WriteFails(w)  PROVE SavedInv'
  <2>1. HasFile(w) /\ UNCHANGED overlap /\ dirty' = TRUE
    BY <1>10 DEF WriteFails, HasFile
  <2>2. \A v \in Threads : HasFile(v)' => HasFile(v) /\ v # w
    BY <1>10, LeaverLeaves DEF WriteFails
  <2>. QED  BY <2>1, <2>2, WriterLeaves
<1>11. CASE Crash
  <2>1. \A w \in Threads : ~HasFile(w)' /\ ~At(w, "open")'
    BY <1>11 DEF Crash, HasFile, At, Threads
  <2>2. Loaded \in Data /\ Loaded' = Loaded
    BY <1>11 DEF Crash, Loaded, TypeOK, Files
  <2>3. Snapshot' = Loaded
    BY <1>11, <2>2 DEF Crash, Snapshot, Data
  <2>. QED  BY <2>1, <2>2, <2>3 DEF SavedInv
<1>12. CASE UNCHANGED vars
  <2>1. \A w \in Threads : (HasFile(w)' <=> HasFile(w)) /\ (At(w, "open")' => At(w, "open"))
    BY <1>12 DEF vars, saving, HasFile, At
  <2>. QED  BY <1>12, <2>1, WritersStay DEF vars, saving, memory
<1>. QED  BY <1>4, <1>5, <1>6, <1>7, <1>8, <1>9, <1>10, <1>11, <1>12 DEF Next, Write

\* The lock, the flag and the timers: when nothing is left to do, a restart
\* finds in the file what memory has.
THEOREM SettledStoreIsSaved == Spec => []SettledIsSaved
<1>1. Init => SavedInv
  <2> SUFFICES ASSUME Init  PROVE SavedInv
    OBVIOUS
  <2>1. \A w \in Threads : ~HasFile(w) /\ ~At(w, "open")
    BY DEF Init, HasFile, At, Threads
  <2>2. Loaded = Snapshot
    BY DEF Init, Loaded, Snapshot, NoJson, NoData
  <2>. QED  BY <2>1, <2>2 DEF SavedInv
<1>2. TypeOK /\ SavedInv /\ [Next]_vars => SavedInv'
  BY SavedStep
<1>3. TypeOK /\ SavedInv => SettledIsSaved
  BY WritersHaveFile DEF SavedInv, SettledIsSaved
<1>. QED  BY <1>1, <1>2, <1>3, TypeCorrect, PTL DEF Spec
=============================================================================

------------------------- MODULE CliSessionsProofs -------------------------
(***************************************************************************)
(* Theorems about CliSessions, for any set of runs and any number of       *)
(* cancellations and of calls of stop_all.                                 *)
(***************************************************************************)
EXTENDS CliSessions, TLAPS

-----------------------------------------------------------------------------
(***************************************************************************)
(* Types.                                                                  *)
(***************************************************************************)

\* The lemmas below split the steps by what they belong to.
Starts(r) == Begin(r) \/ GetsLock(r) \/ Spawned(r) \/ SpawnFails(r)
Reads(r) == \/ SessionInfo(r) \/ GetsLockToRegister(r) \/ Event(r) \/ Handled(r)
            \/ HandlingFails(r) \/ OutputEnds(r) \/ Exited(r) \/ Finalize(r)
Dies(r) == ProcessEnds(r) \/ Kill(r) \/ Stopped(r)
Leaves(r) == RemoveSession(r) \/ GetsLockToRemove(r) \/ Removed(r)
Stops == StopAll \/ StopAllGetsLock \/ StopAllEnds \/ ShutdownTimesOut

\* A task that gets its session keeps the types.
LEMMA StartTypes ==
    ASSUME TypeOK, NEW r \in Runs, Starts(r)
    PROVE  TypeOK'
<1>1. ASSUME Creates(r)  PROVE TypeOK'
  BY <1>1 DEF TypeOK, Creates, Goes, Pcs, Asleep, control
<1>2. CASE Begin(r)
  BY <1>1, <1>2 DEF TypeOK, Begin, Goes, Pcs, Asleep, os, control
<1>3. CASE GetsLock(r)
  BY <1>1, <1>3 DEF GetsLock
<1>4. CASE Spawned(r)
  BY <1>4 DEF TypeOK, Spawned, Goes, Pcs, Asleep, control
<1>5. CASE SpawnFails(r)
  BY <1>5 DEF TypeOK, SpawnFails, Goes, Pcs, Asleep, control
<1>. QED  BY <1>2, <1>3, <1>4, <1>5 DEF Starts

\* A task that reads its process keeps the types.
LEMMA ReadTypes ==
    ASSUME TypeOK, NEW r \in Runs, Reads(r)
    PROVE  TypeOK'
<1>1. ASSUME Registers(r)  PROVE TypeOK'
  <2>1. manager' \in [pending : SUBSET Runs, sessions : SUBSET Runs, tempToReal : SUBSET Runs]
    BY <1>1 DEF TypeOK, Registers
  <2>. QED  BY <1>1, <2>1 DEF TypeOK, Registers, Goes, Pcs, Asleep, os, control
<1>2. CASE SessionInfo(r)
  BY <1>1, <1>2 DEF TypeOK, SessionInfo, Goes, Pcs, Asleep, os, control
<1>3. CASE GetsLockToRegister(r)
  BY <1>1, <1>3 DEF GetsLockToRegister
<1>4. CASE Event(r) \/ Handled(r) \/ HandlingFails(r) \/ OutputEnds(r)
  BY <1>4 DEF TypeOK, Event, Handled, HandlingFails, OutputEnds, Goes, Pcs, Asleep, os, control
<1>5. CASE Exited(r) \/ Finalize(r)
  BY <1>5 DEF TypeOK, Exited, Finalize, Goes, Pcs, Asleep, control
<1>. QED  BY <1>2, <1>3, <1>4, <1>5 DEF Reads

\* A task that cleans up keeps the types.
LEMMA LeaveTypes ==
    ASSUME TypeOK, NEW r \in Runs, Leaves(r)
    PROVE  TypeOK'
<1>. DEFINE Managers == [pending : SUBSET Runs, sessions : SUBSET Runs, tempToReal : SUBSET Runs]
<1>1. manager \in Managers /\ Forgets(r) \in Managers
  BY DEF TypeOK, Forgets
<1>2. ASSUME NEW m \in Managers, Drops(r, m)
      PROVE  manager' \in Managers /\ pc' \in [Runs -> Pcs]
  BY <1>2 DEF TypeOK, Drops, Goes, Pcs
<1>3. ASSUME Removes(r)  PROVE TypeOK'
  <2>1. manager' \in Managers /\ pc' \in [Runs -> Pcs] /\ lock' \in Runs \cup {"free", "stop_all"}
    BY <1>1, <1>2, <1>3 DEF Removes, TypeOK, Goes, Pcs, Asleep
  <2>. QED  BY <1>3, <2>1 DEF TypeOK, Removes, os, control
<1>4. CASE RemoveSession(r)
  BY <1>3, <1>4 DEF TypeOK, RemoveSession, Goes, Pcs, Asleep, os, control
<1>5. CASE GetsLockToRemove(r)
  BY <1>3, <1>5 DEF GetsLockToRemove
<1>6. CASE Removed(r)
  BY <1>1, <1>2, <1>6 DEF TypeOK, Removed, control
<1>. QED  BY <1>4, <1>5, <1>6 DEF Leaves

\* A cancellation keeps the types.
LEMMA CancelTypes ==
    ASSUME TypeOK, NEW S \in SUBSET Runs, Cancelled(S),
           UNCHANGED <<holds, manager, stopper, stops>>,
           server' \in {"up", "stopping", "cancelled", "down"}
    PROVE  TypeOK'
<1>1. pc' \in [Runs -> Pcs]
  BY DEF TypeOK, Cancelled, CancelledTo, Pcs, Asleep
<1>. QED  BY <1>1 DEF TypeOK, Cancelled

\* A process that dies, a command and the shutdown keep the types.
LEMMA OtherTypes ==
    ASSUME TypeOK,
           \/ \E r \in Runs : Dies(r) \/ Cancel(r) \/ StopsOne(r)
           \/ Stops \/ LoopEnds \/ Exit \/ Interrupt
    PROVE  TypeOK'
<1>1. ASSUME NEW r \in Runs, Dies(r)  PROVE TypeOK'
  BY <1>1 DEF TypeOK, Dies, ProcessEnds, Kill, Stopped, Goes, Pcs, Asleep, task, control
<1>2. ASSUME NEW r \in Runs, Cancel(r)  PROVE TypeOK'
  BY <1>2, CancelTypes DEF Cancel, TypeOK
<1>3. ASSUME NEW r \in Runs, StopsOne(r)  PROVE TypeOK'
  BY <1>3 DEF TypeOK, StopsOne, task
<1>4. ASSUME TakesAll, stops' \in Nat, server' \in {"up", "stopping", "cancelled", "down"}
      PROVE  TypeOK'
  BY <1>4 DEF TypeOK, TakesAll, Known, Empty, NoStop, task, os
<1>5. CASE StopAll
  BY <1>4, <1>5 DEF TypeOK, StopAll, task, os
<1>6. CASE StopAllGetsLock
  BY <1>4, <1>6 DEF TypeOK, StopAllGetsLock
<1>7. CASE StopAllEnds \/ ShutdownTimesOut
  BY <1>7 DEF TypeOK, StopAllEnds, ShutdownTimesOut, NoStop, Empty, task, os
<1>8. CASE LoopEnds
  BY <1>8, CancelTypes DEF LoopEnds, TypeOK
<1>9. CASE Exit \/ Interrupt
  BY <1>9 DEF TypeOK, Exit, Interrupt, KillAll, task
<1>. QED  BY <1>1, <1>2, <1>3, <1>5, <1>6, <1>7, <1>8, <1>9 DEF Stops

\* The types are inductive.
LEMMA TypeStep == TypeOK /\ [Next]_vars => TypeOK'
<1>. SUFFICES ASSUME TypeOK, [Next]_vars  PROVE TypeOK'
  OBVIOUS
<1>1. CASE UNCHANGED vars
  BY <1>1 DEF vars, TypeOK
<1>2. CASE Next
  BY <1>2, StartTypes, ReadTypes, LeaveTypes, OtherTypes
  DEF Next, Starts, Reads, Dies, Leaves, Stops
<1>. QED  BY <1>1, <1>2
-----------------------------------------------------------------------------
(***************************************************************************)
(* The inductive invariant.                                                *)
(***************************************************************************)

\* Where a session is listed under the id its handler holds, it is nowhere
\* else.
HeldId(r) ==
    /\ holds[r] = "none" => r \notin Known \cup manager.tempToReal /\ proc[r] # "alive"
    /\ holds[r] = "temp" => r \notin manager.sessions \cup manager.tempToReal
    /\ holds[r] = "real" => r \notin manager.pending

\* A task that has not asked for a session holds none.
Fresh(r) == pc[r] \in {"new", "waiting"} => holds[r] = "none"

\* What is left of a generator belongs to a task on its way out.
LeftBehind(r) == r \in suspended => pc[r] \in {"ending", "leaving", "removing", "done"}

\* A session that is being removed is in no dictionary any more.
Gone(r) == pc[r] = "removing" => r \notin Known

\* A process that is alive has a task that will find its session, or that is
\* stopping it.
Accounted(r) ==
    proc[r] = "alive" /\ r \notin abandoned => pc[r] = "removing" \/ Listed(r)

\* stop_all has on its list every session it is about to drop.
StopperKnows(r) ==
    stopper.pc = "stopping" /\ r \in Known /\ proc[r] = "alive"
        => r \in stopper.todo \cup abandoned

RunInv(r) == /\ HeldId(r) /\ Fresh(r) /\ LeftBehind(r) /\ Gone(r)
             /\ Accounted(r) /\ StopperKnows(r)

\* The parts of SessionsInv and NothingRunsOn that are about one run.
RegisteredRun(r) ==
    pc[r] \in {"reading", "handling", "registering", "stopping"} /\ Running
        => (proc[r] = "alive" => r \in pids)
ListedRun(r) ==
    /\ ~(r \in manager.pending /\ r \in manager.sessions)
    /\ r \in manager.sessions => r \in manager.tempToReal
    /\ r \in manager.tempToReal \ manager.sessions => pc[r] = "removing" \/ r \in abandoned
    /\ r \in Known \cup manager.tempToReal =>
          pc[r] \notin {"new", "waiting"} /\ (pc[r] = "done" => r \in abandoned)
EndedRun(r) == pc[r] = "done" /\ r \notin abandoned => proc[r] # "alive"

Inv(r) == RunInv(r) /\ RegisteredRun(r) /\ ListedRun(r) /\ EndedRun(r)

IInv == TypeOK /\ LockIsHeld /\ \A r \in Runs : Inv(r)

\* The inductive invariant is stronger than the two that are checked.
LEMMA InvParts ==
    ASSUME IInv
    PROVE  SessionsInv /\ NothingRunsOn
<1>1. Registered
  BY DEF IInv, Inv, RegisteredRun, Registered
<1>2. manager.pending \subseteq Runs /\ manager.sessions \subseteq Runs
      /\ manager.tempToReal \subseteq Runs
  BY DEF IInv, TypeOK
<1>3. DictionariesAgree
  BY <1>2 DEF IInv, Inv, ListedRun, DictionariesAgree, Known
<1>4. NothingRunsOn
  BY DEF IInv, Inv, EndedRun, NothingRunsOn
<1>. QED  BY <1>1, <1>3, <1>4 DEF SessionsInv, IInv

\* What a step of one run leaves alone in the others.
OthersStay(r) ==
    \A q \in Runs \ {r} :
        /\ pc'[q] = pc[q] /\ holds'[q] = holds[q] /\ proc'[q] = proc[q]
        /\ q \in pids' <=> q \in pids
        /\ q \in suspended' <=> q \in suspended
        /\ q \in manager'.pending <=> q \in manager.pending
        /\ q \in manager'.sessions <=> q \in manager.sessions
        /\ q \in manager'.tempToReal <=> q \in manager.tempToReal
        /\ q \in abandoned' <=> q \in abandoned

\* What one run does leaves the others as they are.
LEMMA StaysInvariant ==
    ASSUME IInv, NEW r \in Runs, OthersStay(r), server' = server,
           stopper'.pc = "stopping" => stopper.pc = "stopping" /\ stopper.todo \ {r} \subseteq stopper'.todo
    PROVE  \A q \in Runs \ {r} : Inv(q)'
<1>. TAKE q \in Runs \ {r}
<1>1. Inv(q)
  BY DEF IInv
<1>. DEFINE Same == /\ pc'[q] = pc[q] /\ holds'[q] = holds[q] /\ proc'[q] = proc[q]
                    /\ q \in pids' <=> q \in pids
                    /\ q \in suspended' <=> q \in suspended
                    /\ q \in manager'.pending <=> q \in manager.pending
                    /\ q \in manager'.sessions <=> q \in manager.sessions
                    /\ q \in manager'.tempToReal <=> q \in manager.tempToReal
                    /\ q \in abandoned' <=> q \in abandoned
<1>2. Same
  BY DEF OthersStay
<1>3. RunInv(q)'
  BY <1>1, <1>2 DEF Inv, RunInv, HeldId, Fresh, LeftBehind, Gone, Accounted, StopperKnows,
                    Listed, Known
<1>4. RegisteredRun(q)' /\ ListedRun(q)' /\ EndedRun(q)'
  BY <1>1, <1>2 DEF Inv, RegisteredRun, ListedRun, EndedRun, Known, Running
<1>. QED  BY <1>3, <1>4 DEF Inv
-----------------------------------------------------------------------------
(***************************************************************************)
(* The steps of one run.                                                   *)
(***************************************************************************)

\* A step of r, by which stop_all loses at most r from its list.
Confined(r) ==
    /\ OthersStay(r)
    /\ server' = server
    /\ stopper'.pc = stopper.pc
    /\ stopper.todo \ {r} \subseteq stopper'.todo

\* A step of one run keeps the invariant when it keeps that run's part.
LEMMA RunStep ==
    ASSUME IInv, TypeOK', NEW r \in Runs, Confined(r), RunInv(r)', RegisteredRun(r)',
           ListedRun(r)', EndedRun(r)', LockIsHeld'
    PROVE  IInv'
<1>1. \A q \in Runs \ {r} : Inv(q)'
  BY StaysInvariant DEF Confined
<1>2. Inv(r)'
  BY DEF Inv
<1>. QED  BY <1>1, <1>2 DEF IInv

\* The lock changes hands in remove_session and stop_all only.
LEMMA LockStays ==
    ASSUME TypeOK, LockIsHeld, NEW r \in Runs, NEW to \in Pcs, Goes(r, to), UNCHANGED <<lock, stopper>>,
           pc[r] # "removing", to # "removing"
    PROVE  LockIsHeld'
  BY DEF TypeOK, LockIsHeld, Goes

\* The way to a process: session, handler and spawn.
LEMMA StartInv ==
    ASSUME IInv, TypeOK', NEW r \in Runs, Starts(r)
    PROVE  IInv'
<1>1. TypeOK /\ LockIsHeld /\ RunInv(r) /\ RegisteredRun(r) /\ ListedRun(r) /\ EndedRun(r)
  BY DEF IInv, Inv
<1>2. ASSUME Creates(r), pc[r] \in {"new", "waiting"}  PROVE IInv'
  <2>1. /\ pc'[r] = "spawning" /\ holds'[r] = "temp" /\ proc'[r] = "alive"
        /\ r \in manager'.pending
        /\ manager'.sessions = manager.sessions /\ manager'.tempToReal = manager.tempToReal
        /\ UNCHANGED <<pids, suspended, stopper, abandoned, server>>
    BY <1>1, <1>2 DEF Creates, Goes, TypeOK, control
  <2>2. Confined(r)
    BY <1>1, <1>2 DEF Confined, OthersStay, Creates, Goes, TypeOK, control
  <2>3. LockIsHeld'
    BY <1>1, <1>2, LockStays DEF Creates, control, Pcs, Asleep
  <2>4. stopper.pc # "stopping"
    BY <1>1, <1>2, RunsAssumption DEF LockIsHeld, Creates
  <2>5. holds[r] = "none" /\ r \notin manager.sessions \cup manager.tempToReal /\ r \notin suspended
    BY <1>1, <1>2 DEF RunInv, Fresh, HeldId, LeftBehind, Known
  <2>6. RunInv(r)'
    BY <1>2, <2>1, <2>4, <2>5 DEF RunInv, HeldId, Fresh, LeftBehind, Gone, Accounted, StopperKnows,
                                  Listed
  <2>7. RegisteredRun(r)' /\ ListedRun(r)' /\ EndedRun(r)'
    BY <2>1, <2>5 DEF RegisteredRun, ListedRun, EndedRun, Known
  <2>. QED  BY <2>2, <2>3, <2>6, <2>7, RunStep
<1>3. CASE Begin(r)
  <2>1. CASE Creates(r)
    BY <1>2, <1>3, <2>1 DEF Begin
  <2>2. CASE Goes(r, "waiting") /\ UNCHANGED <<holds, cancels, suspended, os, manager, lock, control>>
    <3>1. Confined(r)
      BY <1>1, <2>2 DEF Confined, OthersStay, Goes, TypeOK, os, control
    <3>2. LockIsHeld'
      BY <1>1, <1>3, <2>2, LockStays DEF Begin, control, Pcs, Asleep
    <3>3. pc[r] = "new" /\ pc'[r] = "waiting"
      BY <1>1, <1>3, <2>2 DEF Begin, Goes, TypeOK
    <3>4. RunInv(r)' /\ RegisteredRun(r)' /\ ListedRun(r)' /\ EndedRun(r)'
      BY <1>1, <2>2, <3>3 DEF RunInv, HeldId, Fresh, LeftBehind, Gone, Accounted, StopperKnows,
         Listed, Known, RegisteredRun, ListedRun, EndedRun, os, control
    <3>. QED  BY <3>1, <3>2, <3>4, RunStep
  <2>. QED  BY <1>3, <2>1, <2>2 DEF Begin
<1>4. CASE GetsLock(r)
  BY <1>2, <1>4 DEF GetsLock
<1>5. CASE Spawned(r) \/ SpawnFails(r)
  <2>1. Confined(r)
    BY <1>1, <1>5 DEF Confined, OthersStay, Spawned, SpawnFails, Goes, TypeOK, control
  <2>2. LockIsHeld'
    BY <1>1, <1>5, LockStays DEF Spawned, SpawnFails, control, Pcs, Asleep
  <2>3. /\ pc[r] = "spawning" /\ UNCHANGED <<holds, suspended, manager, stopper, abandoned>>
        /\ \/ pc'[r] = "reading" /\ proc' = proc /\ r \in pids'
           \/ pc'[r] = "ending" /\ proc'[r] = "none"
    BY <1>1, <1>5 DEF Spawned, SpawnFails, Goes, TypeOK, control
  <2>4. RunInv(r)' /\ RegisteredRun(r)' /\ ListedRun(r)' /\ EndedRun(r)'
    BY <1>1, <2>3 DEF RunInv, HeldId, Fresh, LeftBehind, Gone, Accounted, StopperKnows,
       Listed, Known, RegisteredRun, ListedRun, EndedRun
  <2>. QED  BY <2>1, <2>2, <2>4, RunStep
<1>. QED  BY <1>3, <1>4, <1>5 DEF Starts

\* The way through the events of the CLI, to the end of its output.
LEMMA ReadInv ==
    ASSUME IInv, TypeOK', NEW r \in Runs, Reads(r)
    PROVE  IInv'
<1>1. TypeOK /\ LockIsHeld /\ RunInv(r) /\ RegisteredRun(r) /\ ListedRun(r) /\ EndedRun(r)
  BY DEF IInv, Inv
<1>2. ASSUME Registers(r), pc[r] \in {"reading", "registering"}  PROVE IInv'
  <2>1. /\ pc'[r] = "reading" /\ holds'[r] = "real"
        /\ UNCHANGED <<proc, pids, suspended, stopper, abandoned, server>>
    BY <1>1, <1>2 DEF Registers, Goes, TypeOK, os, control
  <2>2. /\ r \notin manager'.pending
        /\ r \in manager'.sessions <=> r \in manager.pending \cup manager.sessions
        /\ r \in manager'.tempToReal <=> r \in manager.pending \cup manager.tempToReal
    BY <1>2 DEF Registers
  <2>3. \A q \in Runs \ {r} :
           /\ q \in manager'.pending <=> q \in manager.pending
           /\ q \in manager'.sessions <=> q \in manager.sessions
           /\ q \in manager'.tempToReal <=> q \in manager.tempToReal
    BY <1>2 DEF Registers
  <2>4. Confined(r)
    BY <1>1, <1>2, <2>1, <2>3 DEF Confined, OthersStay, Registers, Goes, TypeOK
  <2>5. LockIsHeld'
    BY <1>1, <1>2, LockStays DEF Registers, control, Pcs, Asleep
  <2>6. RunInv(r)' /\ RegisteredRun(r)' /\ ListedRun(r)' /\ EndedRun(r)'
    BY <1>1, <1>2, <2>1, <2>2 DEF RunInv, HeldId, Fresh, LeftBehind, Gone, Accounted, StopperKnows,
       Listed, Known, RegisteredRun, ListedRun, EndedRun, Running
  <2>. QED  BY <2>4, <2>5, <2>6, RunStep
<1>3. CASE SessionInfo(r) /\ ~Registers(r)
  <2>1. /\ pc[r] = "reading" /\ pc'[r] = "registering"
        /\ UNCHANGED <<holds, suspended, proc, pids, manager, lock, stopper, abandoned, server>>
    BY <1>1, <1>3 DEF SessionInfo, Goes, TypeOK, os, control
  <2>2. Confined(r)
    BY <1>1, <1>3, <2>1 DEF Confined, OthersStay, SessionInfo, Goes, TypeOK
  <2>3. LockIsHeld'
    BY <1>1, <1>3, <2>1, LockStays DEF SessionInfo, Pcs, Asleep
  <2>4. RunInv(r)' /\ RegisteredRun(r)' /\ ListedRun(r)' /\ EndedRun(r)'
    BY <1>1, <2>1 DEF RunInv, HeldId, Fresh, LeftBehind, Gone, Accounted, StopperKnows,
       Listed, Known, RegisteredRun, ListedRun, EndedRun, Running
  <2>. QED  BY <2>2, <2>3, <2>4, RunStep
<1>4. CASE SessionInfo(r) /\ Registers(r)
  BY <1>2, <1>4 DEF SessionInfo
<1>5. CASE GetsLockToRegister(r)
  BY <1>2, <1>5 DEF GetsLockToRegister
<1>6. CASE Event(r) \/ Handled(r) \/ HandlingFails(r) \/ OutputEnds(r)
  <2>1. /\ UNCHANGED <<holds, proc, pids, manager, lock, stopper, abandoned, server>>
        /\ pc[r] \in {"reading", "handling"}
        /\ \/ pc'[r] \in {"reading", "handling", "tail"} /\ suspended' = suspended
           \/ pc'[r] = "ending"
        /\ \A q \in Runs \ {r} : pc'[q] = pc[q] /\ (q \in suspended' <=> q \in suspended)
    BY <1>1, <1>6 DEF Event, Handled, HandlingFails, OutputEnds, Goes, TypeOK, os, control
  <2>2. Confined(r)
    BY <2>1 DEF Confined, OthersStay
  <2>3. LockIsHeld'
    BY <1>1, <1>6, <2>1, LockStays DEF Event, Handled, HandlingFails, OutputEnds, Pcs, Asleep
  <2>4. RunInv(r)' /\ RegisteredRun(r)' /\ ListedRun(r)' /\ EndedRun(r)'
    BY <1>1, <2>1 DEF RunInv, HeldId, Fresh, LeftBehind, Gone, Accounted, StopperKnows,
       Listed, Known, RegisteredRun, ListedRun, EndedRun, Running
  <2>. QED  BY <2>2, <2>3, <2>4, RunStep
<1>7. CASE Exited(r)
  <2>1. /\ UNCHANGED <<holds, proc, suspended, manager, lock, stopper, abandoned, server>>
        /\ pc[r] = "tail" /\ pc'[r] = "ending"
        /\ \A q \in Runs \ {r} : pc'[q] = pc[q] /\ (q \in pids' <=> q \in pids)
    BY <1>1, <1>7 DEF Exited, Goes, TypeOK, control
  <2>2. Confined(r)
    BY <2>1 DEF Confined, OthersStay
  <2>3. LockIsHeld'
    BY <1>1, <1>7, <2>1, LockStays DEF Exited, Pcs, Asleep
  <2>4. RunInv(r)' /\ RegisteredRun(r)' /\ ListedRun(r)' /\ EndedRun(r)'
    BY <1>1, <2>1 DEF RunInv, HeldId, Fresh, LeftBehind, Gone, Accounted, StopperKnows,
       Listed, Known, RegisteredRun, ListedRun, EndedRun, Running
  <2>. QED  BY <2>2, <2>3, <2>4, RunStep
<1>8. CASE Finalize(r)
  <2>1. /\ UNCHANGED <<pc, holds, proc, manager, lock, stopper, abandoned, server>>
        /\ r \in suspended /\ suspended' = suspended \ {r} /\ pids' = pids \ {r}
    BY <1>8 DEF Finalize, control
  <2>2. Confined(r)
    BY <2>1 DEF Confined, OthersStay
  <2>3. LockIsHeld'
    BY <1>1, <2>1 DEF LockIsHeld
  <2>4. RunInv(r)' /\ RegisteredRun(r)' /\ ListedRun(r)' /\ EndedRun(r)'
    BY <1>1, <2>1 DEF RunInv, HeldId, Fresh, LeftBehind, Gone, Accounted, StopperKnows,
       Listed, Known, RegisteredRun, ListedRun, EndedRun, Running
  <2>. QED  BY <2>2, <2>3, <2>4, RunStep
<1>. QED  BY <1>3, <1>4, <1>5, <1>6, <1>7, <1>8 DEF Reads

\* A process may end at any time, also when another stops it.
LEMMA DieInv ==
    ASSUME IInv, TypeOK', NEW r \in Runs, Dies(r) \/ StopsOne(r)
    PROVE  IInv'
<1>1. TypeOK /\ LockIsHeld /\ RunInv(r) /\ RegisteredRun(r) /\ ListedRun(r) /\ EndedRun(r)
  BY DEF IInv, Inv
<1>2. CASE ProcessEnds(r) \/ Kill(r)
  <2>1. /\ UNCHANGED <<pc, holds, pids, suspended, manager, lock, stopper, abandoned, server>>
        /\ proc[r] = "alive" /\ proc'[r] = "ended"
        /\ \A q \in Runs \ {r} : proc'[q] = proc[q]
    BY <1>1, <1>2 DEF ProcessEnds, Kill, Stoppable, TypeOK, task, control
  <2>2. Confined(r)
    BY <2>1 DEF Confined, OthersStay
  <2>3. LockIsHeld'
    BY <1>1, <2>1 DEF LockIsHeld
  <2>4. RunInv(r)' /\ RegisteredRun(r)' /\ ListedRun(r)' /\ EndedRun(r)'
    BY <1>1, <2>1 DEF RunInv, HeldId, Fresh, LeftBehind, Gone, Accounted, StopperKnows,
       Listed, Known, RegisteredRun, ListedRun, EndedRun, Running
  <2>. QED  BY <2>2, <2>3, <2>4, RunStep
<1>3. CASE Stopped(r)
  <2>1. /\ UNCHANGED <<holds, proc, suspended, manager, lock, stopper, abandoned, server>>
        /\ pc[r] = "stopping" /\ pc'[r] = "ending"
        /\ \A q \in Runs \ {r} : pc'[q] = pc[q] /\ (q \in pids' <=> q \in pids)
    BY <1>1, <1>3 DEF Stopped, Goes, TypeOK, control
  <2>2. Confined(r)
    BY <2>1 DEF Confined, OthersStay
  <2>3. LockIsHeld'
    BY <1>1, <1>3, <2>1, LockStays DEF Stopped, Pcs, Asleep
  <2>4. RunInv(r)' /\ RegisteredRun(r)' /\ ListedRun(r)' /\ EndedRun(r)'
    BY <1>1, <2>1 DEF RunInv, HeldId, Fresh, LeftBehind, Gone, Accounted, StopperKnows,
       Listed, Known, RegisteredRun, ListedRun, EndedRun, Running
  <2>. QED  BY <2>2, <2>3, <2>4, RunStep
<1>4. CASE StopsOne(r)
  <2>1. /\ UNCHANGED <<pc, holds, proc, suspended, manager, lock, abandoned, server>>
        /\ proc[r] # "alive" /\ pids' = pids \ {r}
        /\ stopper'.pc = stopper.pc /\ stopper'.todo = stopper.todo \ {r}
    BY <1>1, <1>4 DEF StopsOne, TypeOK, task
  <2>2. Confined(r)
    BY <2>1 DEF Confined, OthersStay
  <2>3. LockIsHeld'
    BY <1>1, <2>1 DEF LockIsHeld
  <2>4. RunInv(r)' /\ RegisteredRun(r)' /\ ListedRun(r)' /\ EndedRun(r)'
    BY <1>1, <2>1 DEF RunInv, HeldId, Fresh, LeftBehind, Gone, Accounted, StopperKnows,
       Listed, Known, RegisteredRun, ListedRun, EndedRun, Running
  <2>. QED  BY <2>2, <2>3, <2>4, RunStep
<1>. QED  BY <1>2, <1>3, <1>4 DEF Dies

\* The clean-up of a task: remove_session, with its lock and its stop.
LEMMA LeaveInv ==
    ASSUME IInv, TypeOK', NEW r \in Runs, Leaves(r)
    PROVE  IInv'
<1>1. TypeOK /\ LockIsHeld /\ RunInv(r) /\ RegisteredRun(r) /\ ListedRun(r) /\ EndedRun(r)
  BY DEF IInv, Inv
<1>2. ASSUME NEW m, Drops(r, m)
      PROVE  /\ manager'.pending = m.pending /\ manager'.sessions = m.sessions
             /\ \A q \in Runs \ {r} : q \in manager'.tempToReal <=> q \in m.tempToReal
             /\ r \in manager'.tempToReal <=> r \in m.tempToReal /\ holds[r] # "real"
             /\ pc' = [pc EXCEPT ![r] = "done"]
  BY <1>2 DEF Drops, Goes
<1>3. ASSUME Removes(r), pc[r] \in {"ending", "leaving"}  PROVE IInv'
  <2>1. UNCHANGED <<holds, proc, pids, suspended, stopper, abandoned, server>>
    BY <1>3 DEF Removes, os, control
  <2>2. CASE Listed(r) /\ Stoppable(r)
    <3>1. /\ lock = "free" /\ lock' = r /\ manager' = Forgets(r)
          /\ pc' = [pc EXCEPT ![r] = "removing"]
      BY <1>3, <2>2 DEF Removes, Goes
    <3>2. Confined(r)
      BY <1>1, <2>1, <3>1 DEF Confined, OthersStay, Forgets, TypeOK
    <3>3. LockIsHeld'
      BY <1>1, <2>1, <3>1, RunsAssumption DEF LockIsHeld, TypeOK
    <3>4. pc'[r] = "removing" /\ r \notin manager'.pending /\ r \notin manager'.sessions
          /\ manager'.tempToReal = manager.tempToReal
      BY <1>1, <3>1 DEF TypeOK, Forgets
    <3>5. RunInv(r)' /\ RegisteredRun(r)' /\ ListedRun(r)' /\ EndedRun(r)'
      BY <1>1, <1>3, <2>1, <3>4 DEF RunInv, HeldId, Fresh, LeftBehind, Gone, Accounted,
         StopperKnows, Listed, Known, RegisteredRun, ListedRun, EndedRun, Running
    <3>. QED  BY <3>2, <3>3, <3>5, RunStep
  <2>3. CASE Listed(r) /\ ~Stoppable(r)
    <3>1. lock' = lock /\ Drops(r, Forgets(r))
      BY <1>3, <2>3 DEF Removes
    <3> DEFINE left == Forgets(r)
    <3>8. /\ left.pending = manager.pending \ {r} /\ left.sessions = manager.sessions \ {r}
          /\ left.tempToReal = manager.tempToReal
      BY <1>1 DEF Forgets, TypeOK
    <3>9. /\ manager'.pending = left.pending /\ manager'.sessions = left.sessions
          /\ \A q \in Runs \ {r} : q \in manager'.tempToReal <=> q \in left.tempToReal
          /\ r \in manager'.tempToReal <=> r \in left.tempToReal /\ holds[r] # "real"
          /\ pc' = [pc EXCEPT ![r] = "done"]
      <4> HIDE DEF left
      <4>1. Drops(r, left)
        BY <3>1 DEF left
      <4>. QED  BY <1>2, <4>1
    <3>2. Confined(r)
      BY <1>1, <2>1, <3>8, <3>9 DEF Confined, OthersStay, TypeOK
    <3>3. LockIsHeld'
      BY <1>1, <1>3, <2>1, <3>1, LockStays DEF Drops, Pcs, Asleep
    <3>4. pc'[r] = "done" /\ r \notin manager'.pending /\ r \notin manager'.sessions
          /\ (r \in manager'.tempToReal <=> r \in manager.tempToReal /\ holds[r] # "real")
      BY <1>1, <3>8, <3>9 DEF TypeOK
    <3>5. proc[r] # "alive" /\ (holds[r] = "temp" \/ holds[r] = "real")
      BY <1>3, <2>3 DEF Stoppable, HasProcess, Listed
    <3>6. r \notin manager'.tempToReal
      BY <1>1, <3>4, <3>5 DEF RunInv, HeldId
    <3>7. RunInv(r)' /\ RegisteredRun(r)' /\ ListedRun(r)' /\ EndedRun(r)'
      BY <1>1, <2>1, <3>4, <3>5, <3>6 DEF RunInv, HeldId, Fresh, LeftBehind, Gone, Accounted,
         StopperKnows, Listed, Known, RegisteredRun, ListedRun, EndedRun, Running
    <3>. QED  BY <3>2, <3>3, <3>7, RunStep
  <2>4. CASE ~Listed(r)
    <3>1. lock' = lock /\ manager' = manager /\ Goes(r, "done")
      BY <1>3, <2>4 DEF Removes
    <3>2. Confined(r)
      BY <1>1, <2>1, <3>1 DEF Confined, OthersStay, Goes, TypeOK
    <3>3. LockIsHeld'
      BY <1>1, <1>3, <2>1, <3>1, LockStays DEF Pcs, Asleep
    <3>4. pc'[r] = "done"
      BY <1>1, <3>1 DEF TypeOK, Goes
    <3>5. holds[r] \in {"none", "temp", "real"}
      BY <1>1 DEF TypeOK
    <3>6. r \in Known \cup manager.tempToReal => r \in abandoned
      BY <1>1, <1>3, <2>4, <3>5 DEF RunInv, HeldId, ListedRun, Listed, Known
    <3>7. RunInv(r)' /\ RegisteredRun(r)' /\ ListedRun(r)' /\ EndedRun(r)'
      BY <1>1, <1>3, <2>1, <2>4, <3>1, <3>4, <3>6 DEF RunInv, HeldId, Fresh, LeftBehind, Gone,
         Accounted, StopperKnows, Listed, Known, RegisteredRun, ListedRun, EndedRun, Running
    <3>. QED  BY <3>2, <3>3, <3>7, RunStep
  <2>. QED  BY <2>2, <2>3, <2>4
<1>4. CASE RemoveSession(r) /\ ~Removes(r)
  <2>1. /\ UNCHANGED <<holds, proc, pids, suspended, manager, lock, stopper, abandoned, server>>
        /\ pc[r] = "ending"
        /\ pc' = [pc EXCEPT ![r] = IF holds[r] = "none" THEN "done" ELSE "leaving"]
    BY <1>4 DEF RemoveSession, Goes, os, control
  <2>2. Confined(r)
    BY <1>1, <2>1 DEF Confined, OthersStay, TypeOK
  <2>3. LockIsHeld'
    BY <1>1, <2>1, LockStays DEF Goes, Pcs, Asleep
  <2>4. pc'[r] = IF holds[r] = "none" THEN "done" ELSE "leaving"
    BY <1>1, <2>1 DEF TypeOK
  <2>5. RunInv(r)' /\ RegisteredRun(r)' /\ ListedRun(r)' /\ EndedRun(r)'
    BY <1>1, <2>1, <2>4 DEF RunInv, HeldId, Fresh, LeftBehind, Gone, Accounted, StopperKnows,
       Listed, Known, RegisteredRun, ListedRun, EndedRun, Running
  <2>. QED  BY <2>2, <2>3, <2>5, RunStep
<1>5. CASE RemoveSession(r) /\ Removes(r)
  BY <1>3, <1>5 DEF RemoveSession
<1>6. CASE GetsLockToRemove(r)
  BY <1>3, <1>6 DEF GetsLockToRemove
<1>7. CASE Removed(r)
  <2>1. /\ UNCHANGED <<holds, proc, suspended, stopper, abandoned, server>>
        /\ pc[r] = "removing" /\ proc[r] = "ended" /\ pids' = pids \ {r}
        /\ Drops(r, manager) /\ lock' = "free"
    BY <1>7 DEF Removed, control
  <2>2. Confined(r)
    BY <1>1, <1>2, <2>1 DEF Confined, OthersStay, TypeOK
  <2>3. LockIsHeld'
    BY <1>1, <1>2, <2>1, RunsAssumption DEF LockIsHeld, TypeOK
  <2>4. pc'[r] = "done" /\ r \notin manager'.pending /\ r \notin manager'.sessions
        /\ (r \in manager'.tempToReal => holds[r] # "real" /\ r \in manager.tempToReal)
    BY <1>1, <1>2, <2>1 DEF TypeOK, RunInv, Gone, Known
  <2>5. holds[r] \in {"none", "temp", "real"}
    BY <1>1 DEF TypeOK
  <2>6. r \notin manager'.tempToReal
    BY <1>1, <2>4, <2>5 DEF RunInv, HeldId
  <2>7. RunInv(r)' /\ RegisteredRun(r)' /\ ListedRun(r)' /\ EndedRun(r)'
    BY <1>1, <2>1, <2>4, <2>6 DEF RunInv, HeldId, Fresh, LeftBehind, Gone, Accounted, StopperKnows,
       Listed, Known, RegisteredRun, ListedRun, EndedRun, Running
  <2>. QED  BY <2>2, <2>3, <2>7, RunStep
<1>. QED  BY <1>4, <1>5, <1>6, <1>7 DEF Leaves
-----------------------------------------------------------------------------
(***************************************************************************)
(* Cancellation, stop_all and the end.                                     *)
(***************************************************************************)

\* What CancelledError does to each of the tasks in S.
LEMMA CancelInv ==
    ASSUME IInv, TypeOK', NEW S \in SUBSET Runs, \A r \in S : pc[r] \in Asleep, Cancelled(S),
           UNCHANGED <<holds, manager, stopper>>, Running' => Running
    PROVE  IInv'
<1>. TypeOK /\ LockIsHeld
  BY DEF IInv
<1>1. \A r \in Runs : /\ pc'[r] = IF r \in S THEN CancelledTo(r) ELSE pc[r]
                      /\ proc'[r] = IF r \in S /\ pc[r] = "spawning" THEN "none" ELSE proc[r]
                      /\ r \in pids' => r \in pids
                      /\ r \in pids /\ ~(r \in S /\ UnregistersOnCancel(r)) => r \in pids'
                      /\ r \in suspended' <=> \/ r \in suspended
                                              \/ r \in S /\ pc[r] \in {"handling", "registering"}
                      /\ r \in abandoned' <=> \/ r \in abandoned
                                              \/ r \in S /\ pc[r] \in {"leaving", "removing"}
  BY DEF Cancelled, TypeOK
<1>2. \A r \in S : /\ CancelledTo(r) \in {"stopping", "ending", "done"}
                   /\ CancelledTo(r) = "stopping" => pc[r] = "reading" /\ ~UnregistersOnCancel(r)
                   /\ CancelledTo(r) = "done" <=> pc[r] \in {"leaving", "removing"}
  BY DEF CancelledTo, UnregistersOnCancel
<1>3. LockIsHeld'
  <2>1. lock' = IF lock \in S THEN "free" ELSE lock
    BY DEF Cancelled
  <2>2. \A r \in Runs : pc'[r] = "removing" <=> pc[r] = "removing" /\ r \notin S
    BY <1>1, <1>2
  <2>. QED  BY <2>1, <2>2, RunsAssumption DEF LockIsHeld
<1>4. ASSUME NEW r \in Runs  PROVE Inv(r)'
  <2>1. RunInv(r) /\ RegisteredRun(r) /\ ListedRun(r) /\ EndedRun(r)
    BY DEF IInv, Inv
  <2>2. CASE r \in S
    <3>1. pc[r] \notin {"new", "done"} /\ pc'[r] \in {"stopping", "ending", "done"}
      BY <1>1, <1>2, <2>2 DEF Asleep
    <3>2. RunInv(r)'
      <4>1. HeldId(r)' /\ Fresh(r)' /\ Gone(r)'
        BY <1>1, <2>1, <2>2, <3>1 DEF RunInv, HeldId, Fresh, Gone, Known
      <4>2. LeftBehind(r)'
        BY <1>1, <1>2, <2>1, <2>2, <3>1 DEF RunInv, LeftBehind
      <4>3. Accounted(r)' /\ StopperKnows(r)'
        BY <1>1, <1>2, <2>1, <2>2, <3>1 DEF RunInv, Accounted, StopperKnows, Listed, Known
      <4>. QED  BY <4>1, <4>2, <4>3 DEF RunInv
    <3>3. RegisteredRun(r)'
      BY <1>1, <1>2, <2>1, <2>2, <3>1 DEF RegisteredRun
    <3>4. ListedRun(r)' /\ EndedRun(r)'
      BY <1>1, <1>2, <2>1, <2>2, <3>1 DEF ListedRun, EndedRun, Known
    <3>. QED  BY <3>2, <3>3, <3>4 DEF Inv
  <2>3. CASE r \notin S
    BY <1>1, <2>1, <2>3 DEF Inv, RunInv, HeldId, Fresh, LeftBehind, Gone, Accounted, StopperKnows,
       Listed, Known, RegisteredRun, ListedRun, EndedRun
  <2>. QED  BY <2>2, <2>3
<1>. QED  BY <1>3, <1>4 DEF IInv

\* When stop_all drops what there is, no process loses its session.
LEMMA DropAllInv ==
    ASSUME IInv, TypeOK', LockIsHeld', manager' = Empty, stopper'.pc # "stopping",
           UNCHANGED <<pc, holds, proc, suspended>>,
           \A r \in Runs : (r \in abandoned => r \in abandoned')
                         /\ (r \in pids => r \in pids')
                         /\ (r \in Known /\ proc[r] = "alive" => r \in abandoned'),
           Running' => Running
    PROVE  IInv'
<1>1. ASSUME NEW r \in Runs  PROVE Inv(r)'
  <2>1. RunInv(r) /\ RegisteredRun(r) /\ ListedRun(r) /\ EndedRun(r)
    BY DEF IInv, Inv
  <2>2. r \notin manager'.pending /\ r \notin manager'.sessions /\ r \notin manager'.tempToReal
    BY DEF Empty
  <2>3. RunInv(r)'
    BY <2>1, <2>2 DEF RunInv, HeldId, Fresh, LeftBehind, Gone, Accounted, StopperKnows, Listed, Known
  <2>4. RegisteredRun(r)' /\ ListedRun(r)' /\ EndedRun(r)'
    BY <2>1, <2>2 DEF RegisteredRun, ListedRun, EndedRun, Known
  <2>. QED  BY <2>3, <2>4 DEF Inv
<1>. QED  BY <1>1 DEF IInv

\* stop_all, which drops the sessions that it has stopped.
LEMMA StopInv ==
    ASSUME IInv, TypeOK', Stops
    PROVE  IInv'
<1>. /\ TypeOK /\ LockIsHeld
     /\ \A r \in Runs : RunInv(r) /\ RegisteredRun(r) /\ ListedRun(r) /\ EndedRun(r)
  BY DEF IInv, Inv
<1>1. ASSUME TakesAll, Running' => Running  PROVE IInv'
  <2>1. /\ lock = "free" /\ UNCHANGED <<pc, holds, suspended, proc, pids>>
        /\ abandoned' = abandoned \cup {r \in Known : ~HasProcess(r)}
    BY <1>1 DEF TakesAll, task, os
  <2>2. CASE \E r \in Known : Stoppable(r)
    <3>1. /\ lock' = "stop_all" /\ manager' = manager
          /\ stopper' = [pc |-> "stopping", todo |-> {r \in Known : Stoppable(r)}]
      BY <1>1, <2>2 DEF TakesAll
    <3>2. LockIsHeld'
      BY <2>1, <3>1, RunsAssumption DEF LockIsHeld
    <3>3. ASSUME NEW r \in Runs  PROVE Inv(r)'
      <4>1. r \in Known /\ proc[r] = "alive" => r \in stopper'.todo \cup abandoned'
        BY <2>1, <3>1 DEF Stoppable
      <4>2. /\ r \in manager'.pending <=> r \in manager.pending
            /\ r \in manager'.sessions <=> r \in manager.sessions
            /\ r \in manager'.tempToReal <=> r \in manager.tempToReal
            /\ r \in abandoned => r \in abandoned'
        BY <2>1, <3>1
      <4>3. RunInv(r)'
        BY <2>1, <4>1, <4>2 DEF RunInv, HeldId, Fresh, LeftBehind, Gone, Accounted, StopperKnows,
                                Listed, Known
      <4>4. RegisteredRun(r)' /\ ListedRun(r)' /\ EndedRun(r)'
        BY <1>1, <2>1, <4>2 DEF RegisteredRun, ListedRun, EndedRun, Known
      <4>. QED  BY <4>3, <4>4 DEF Inv
    <3>. QED  BY <3>2, <3>3 DEF IInv
  <2>3. CASE ~\E r \in Known : Stoppable(r)
    <3>1. lock' = lock /\ stopper' = NoStop /\ manager' = Empty
      BY <1>1, <2>3 DEF TakesAll
    <3>2. LockIsHeld'
      BY <2>1, <3>1, RunsAssumption DEF LockIsHeld, NoStop
    <3>3. \A r \in Runs : r \in Known /\ proc[r] = "alive" => r \in abandoned'
      BY <2>1, <2>3 DEF Stoppable
    <3>. QED  BY <1>1, <2>1, <3>1, <3>2, <3>3, DropAllInv DEF NoStop
  <2>. QED  BY <2>2, <2>3
\* stop_all waits, or is given up.
<1>2. ASSUME LockIsHeld', UNCHANGED <<task, os, manager, abandoned>>, stopper'.pc # "stopping",
             Running' => Running
      PROVE  IInv'
  <2>1. ASSUME NEW r \in Runs  PROVE Inv(r)'
    BY <1>2, <2>1 DEF Inv, RunInv, HeldId, Fresh, LeftBehind, Gone, Accounted, StopperKnows, Listed,
       Known, RegisteredRun, ListedRun, EndedRun, task, os
  <2>. QED  BY <1>2, <2>1 DEF IInv
<1>3. CASE StopAll
  <2>1. Running' => Running
    BY <1>3 DEF StopAll, Running
  <2>2. CASE TakesAll
    BY <1>1, <2>1, <2>2
  <2>3. CASE stopper' = [pc |-> "waiting", todo |-> {}]
             /\ UNCHANGED <<task, cancels, os, manager, lock, abandoned>>
    <3>1. LockIsHeld'
      BY <1>3, <2>3, RunsAssumption DEF LockIsHeld, StopAll, task
    <3>. QED  BY <1>2, <2>1, <2>3, <3>1
  <2>. QED  BY <1>3, <2>2, <2>3 DEF StopAll
<1>4. CASE StopAllGetsLock
  BY <1>1, <1>4 DEF StopAllGetsLock, Running
<1>5. CASE StopAllEnds
  <2>1. /\ stopper.pc = "stopping" /\ stopper.todo = {} /\ manager' = Empty
        /\ stopper' = NoStop /\ lock' = "free"
        /\ UNCHANGED <<pc, holds, suspended, proc, pids, abandoned, server>>
    BY <1>5 DEF StopAllEnds, task, os
  <2>2. LockIsHeld'
    BY <2>1, RunsAssumption DEF LockIsHeld, NoStop
  <2>3. \A r \in Runs : r \in Known /\ proc[r] = "alive" => r \in abandoned
    BY <2>1 DEF RunInv, StopperKnows
  <2>. QED  BY <2>1, <2>2, <2>3, DropAllInv DEF NoStop, Running
<1>6. CASE ShutdownTimesOut
  <2>1. /\ stopper' = NoStop /\ lock' = IF lock = "stop_all" THEN "free" ELSE lock
        /\ UNCHANGED <<task, os, manager, abandoned, server>>
    BY <1>6 DEF ShutdownTimesOut, os
  <2>2. LockIsHeld'
    BY <2>1, RunsAssumption DEF LockIsHeld, NoStop, task
  <2>. QED  BY <1>2, <2>1, <2>2 DEF NoStop, Running
<1>. QED  BY <1>3, <1>4, <1>5, <1>6 DEF Stops

\* The end of the server, by a shutdown or by an interrupt.
LEMMA ExitInv ==
    ASSUME IInv, TypeOK', Exit \/ Interrupt
    PROVE  IInv'
<1>1. /\ UNCHANGED <<pc, holds, suspended, manager, lock, stopper, abandoned>>
      /\ ~Running'
      /\ \A r \in Runs : proc'[r] = "alive" => proc[r] = "alive"
  BY DEF Exit, Interrupt, KillAll, task, Running, IInv, TypeOK
<1>2. LockIsHeld'
  BY <1>1 DEF IInv, LockIsHeld
<1>3. ASSUME NEW r \in Runs  PROVE Inv(r)'
  <2>1. RunInv(r) /\ RegisteredRun(r) /\ ListedRun(r) /\ EndedRun(r)
    BY DEF IInv, Inv
  <2>2. RunInv(r)'
    BY <1>1, <2>1 DEF RunInv, HeldId, Fresh, LeftBehind, Gone, Accounted, StopperKnows, Listed, Known
  <2>3. RegisteredRun(r)' /\ ListedRun(r)' /\ EndedRun(r)'
    BY <1>1, <2>1 DEF RegisteredRun, ListedRun, EndedRun, Known
  <2>. QED  BY <2>2, <2>3 DEF Inv
<1>. QED  BY <1>2, <1>3 DEF IInv

\* Every step keeps the invariant.
LEMMA InvStep == IInv /\ [Next]_vars => IInv'
<1>. SUFFICES ASSUME IInv, [Next]_vars  PROVE IInv'
  OBVIOUS
<1>1. TypeOK'
  BY TypeStep DEF IInv
<1>2. CASE UNCHANGED vars
  <2>1. LockIsHeld'
    BY <1>2 DEF vars, IInv, LockIsHeld
  <2>2. ASSUME NEW r \in Runs  PROVE Inv(r)'
    BY <1>2 DEF vars, IInv, Inv, RunInv, HeldId, Fresh, LeftBehind, Gone, Accounted, StopperKnows,
       Listed, Known, RegisteredRun, ListedRun, EndedRun, Running
  <2>. QED  BY <1>1, <2>1, <2>2 DEF IInv
<1>3. ASSUME NEW r \in Runs, Cancel(r)  PROVE IInv'
  <2>1. /\ {r} \in SUBSET Runs /\ \A q \in {r} : pc[q] \in Asleep
        /\ Cancelled({r}) /\ UNCHANGED <<holds, manager, stopper, server>>
    BY <1>3 DEF Cancel
  <2>. QED  BY <1>1, <2>1, CancelInv DEF Running
<1>4. CASE LoopEnds
  <2> DEFINE S == {r \in Runs : pc[r] \in Asleep}
  <2>1. /\ S \in SUBSET Runs /\ \A q \in S : pc[q] \in Asleep
        /\ Cancelled(S) /\ UNCHANGED <<holds, manager, stopper>> /\ Running
    BY <1>4 DEF LoopEnds, Running
  <2>. HIDE DEF S
  <2>. QED  BY <1>1, <2>1, CancelInv
<1>5. CASE \E r \in Runs : Starts(r) \/ Reads(r) \/ Dies(r) \/ StopsOne(r) \/ Leaves(r)
  BY <1>1, <1>5, StartInv, ReadInv, DieInv, LeaveInv
<1>6. CASE Stops
  BY <1>1, <1>6, StopInv
<1>7. CASE Exit \/ Interrupt
  BY <1>1, <1>7, ExitInv
<1>. QED
  BY <1>2, <1>3, <1>4, <1>5, <1>6, <1>7 DEF Next, Starts, Reads, Dies, Leaves, Stops

\* No session and no process: the invariant holds in the beginning.
LEMMA InvInit == Init => IInv
<1>. SUFFICES ASSUME Init  PROVE IInv
  OBVIOUS
<1>1. TypeOK
  BY DEF Init, TypeOK, Pcs, Asleep, Empty, NoStop
<1>2. LockIsHeld
  BY RunsAssumption DEF Init, LockIsHeld, NoStop
<1>3. ASSUME NEW r \in Runs  PROVE Inv(r)
  BY DEF Init, Empty, NoStop, Inv, RunInv, HeldId, Fresh, LeftBehind, Gone, Accounted, StopperKnows,
     Listed, Known, RegisteredRun, ListedRun, EndedRun
<1>. QED  BY <1>1, <1>2, <1>3 DEF IInv

\* The invariant holds in every reachable state.
LEMMA Invariance == Spec => []IInv
  BY InvInit, InvStep, PTL DEF Spec

\* manager.py, session.py and process_registry.py: whatever is cancelled,
\* stopped or interrupted, the dictionaries, the registry and the lock
\* describe the tasks that exist.
THEOREM SessionsAgree == Spec => []SessionsInv
<1>1. IInv => SessionsInv
  BY InvParts
<1>. QED  BY <1>1, Invariance, PTL

\* remove_session in the handler's finally: no process outlives the task of
\* its node, but for the two ways that the code loses one.
THEOREM NoProcessRunsOn == Spec => []NothingRunsOn
<1>1. IInv => NothingRunsOn
  BY InvParts
<1>. QED  BY <1>1, Invariance, PTL
=============================================================================

----------------------------- MODULE CliSessions -----------------------------
(* The Claude CLI processes of the messaging server, from the creation of a  *)
(* session to its removal: CLISessionManager (cli/manager.py), CLISession    *)
(* (cli/session.py), the registry of process ids (cli/process_registry.py),  *)
(* the part of the handler that runs a node (messaging/handler.py) and the   *)
(* end of the server (api/app.py).                                           *)
(*                                                                           *)
(* The handler asks for a session with session_id=None for every node, so a  *)
(* session, its process and the task that runs the node are one to one: a    *)
(* run stands for the three, for its temporary id and for the real id its    *)
(* process reports (the CLI forks a resumed session, so it invents one).     *)
EXTENDS Naturals, FiniteSets

CONSTANTS
    Runs,         \* the nodes that are run
    MaxCancels,   \* how often the task of a run is cancelled
    MaxStops      \* how often the handler calls stop_all

ASSUME RunsAssumption == "free" \notin Runs /\ "stop_all" \notin Runs
ASSUME BoundsAssumption == MaxCancels \in Nat /\ MaxStops \in Nat

VARIABLES
    pc,           \* where the task of each run is
    holds,        \* the id its handler would remove: "none", "temp" or "real"
    cancels,      \* how often it has been cancelled
    proc,         \* its process: "none", "alive" or "ended"
    pids,         \* process_registry._pids
    suspended,    \* runs whose generator was left suspended at a yield
    manager,      \* _pending_sessions, _sessions and _temp_to_real
    lock,         \* the run that holds the manager's lock, "stop_all" or "free"
    stopper,      \* the call of stop_all under way
    stops,        \* how many there were
    abandoned,    \* runs whose process nobody is left to stop (see NothingRunsOn)
    server        \* "up", "stopping", "cancelled" or "down"

vars == <<pc, holds, cancels, proc, pids, suspended, manager, lock, stopper, stops,
          abandoned, server>>
task == <<pc, holds, suspended>>
os == <<proc, pids>>
control == <<stopper, stops, abandoned, server>>

(* The states of a task.  "ending" is what the handler does after the loop   *)
(* over the events and before it calls remove_session.                       *)
Asleep == {"waiting", "spawning", "reading", "handling", "registering", "tail",
           "stopping", "ending", "leaving", "removing"}
Pcs == Asleep \cup {"new", "done"}

NoStop == [pc |-> "idle", todo |-> {}]
Empty == [pending |-> {}, sessions |-> {}, tempToReal |-> {}]

Init ==
    /\ pc = [r \in Runs |-> "new"]
    /\ holds = [r \in Runs |-> "none"]
    /\ cancels = [r \in Runs |-> 0]
    /\ proc = [r \in Runs |-> "none"]
    /\ pids = {}
    /\ suspended = {}
    /\ manager = Empty
    /\ lock = "free"
    /\ stopper = NoStop
    /\ stops = 0
    /\ abandoned = {}
    /\ server = "up"

Goes(r, where) == pc' = [pc EXCEPT ![r] = where]
Running == server # "down"

-----------------------------------------------------------------------------
(* A run begins: get_or_create_session, which waits while the lock is taken. *)

HasProcess(r) == proc[r] # "none" /\ pc[r] # "spawning"
Stoppable(r) == HasProcess(r) /\ proc[r] = "alive"

(* The new session is pending; the handler goes on into start_task without a *)
(* pause, and the process exists before create_subprocess_exec returns.      *)
Creates(r) ==
    /\ lock = "free"
    /\ manager' = [manager EXCEPT !.pending = @ \cup {r}]
    /\ holds' = [holds EXCEPT ![r] = "temp"]
    /\ proc' = [proc EXCEPT ![r] = "alive"]
    /\ Goes(r, "spawning")
    /\ UNCHANGED <<cancels, pids, suspended, lock, control>>

Begin(r) ==
    /\ pc[r] = "new" /\ Running
    /\ \/ Creates(r)
       \/ /\ lock # "free"
          /\ Goes(r, "waiting")
          /\ UNCHANGED <<holds, cancels, suspended, os, manager, lock, control>>

GetsLock(r) == pc[r] = "waiting" /\ Running /\ Creates(r)

(* create_subprocess_exec returns: the process id is registered.             *)
Spawned(r) ==
    /\ pc[r] = "spawning" /\ Running
    /\ pids' = pids \cup {r}
    /\ Goes(r, "reading")
    /\ UNCHANGED <<holds, cancels, proc, suspended, manager, lock, control>>

(* It fails (no claude to run): the exception goes to the handler.           *)
SpawnFails(r) ==
    /\ pc[r] = "spawning" /\ Running
    /\ proc' = [proc EXCEPT ![r] = "none"]
    /\ Goes(r, "ending")
    /\ UNCHANGED <<holds, cancels, pids, suspended, manager, lock, control>>

-----------------------------------------------------------------------------
(* The output of the process.                                                *)

\* Mutant of Registers: the handler keeps the temporary id.
RegistersQuietly(r) ==
    /\ lock = "free"
    /\ manager' = IF r \in manager.pending
                    THEN [pending |-> manager.pending \ {r},
                          sessions |-> manager.sessions \cup {r},
                          tempToReal |-> manager.tempToReal \cup {r}]
                    ELSE manager
    /\ Goes(r, "reading")
    /\ UNCHANGED <<holds, cancels, suspended, os, lock, control>>

(* register_real_session_id and what follows it in the handler: a session    *)
(* that is no longer pending is not moved, the handler takes the id anyway.  *)
Registers(r) ==
    /\ lock = "free"
    /\ manager' = IF r \in manager.pending
                    THEN [pending |-> manager.pending \ {r},
                          sessions |-> manager.sessions \cup {r},
                          tempToReal |-> manager.tempToReal \cup {r}]
                    ELSE manager
    /\ holds' = [holds EXCEPT ![r] = "real"]
    /\ Goes(r, "reading")
    /\ UNCHANGED <<cancels, suspended, os, lock, control>>

(* The first event with a session id.                                        *)
SessionInfo(r) ==
    /\ pc[r] = "reading" /\ Running /\ holds[r] = "temp"
    /\ \/ Registers(r)
       \/ /\ lock # "free"
          /\ Goes(r, "registering")
          /\ UNCHANGED <<holds, cancels, suspended, os, manager, lock, control>>

GetsLockToRegister(r) == pc[r] = "registering" /\ Running /\ Registers(r)

(* Any other event: the generator is suspended while the handler awaits the  *)
(* platform and the store.                                                   *)
Event(r) ==
    /\ pc[r] = "reading" /\ Running
    /\ Goes(r, "handling")
    /\ UNCHANGED <<holds, cancels, suspended, os, manager, lock, control>>

Handled(r) ==
    /\ pc[r] = "handling" /\ Running
    /\ Goes(r, "reading")
    /\ UNCHANGED <<holds, cancels, suspended, os, manager, lock, control>>

(* The handling fails, and the loop over the events is left for good.        *)
HandlingFails(r) ==
    /\ pc[r] = "handling" /\ Running
    /\ suspended' = suspended \cup {r}
    /\ Goes(r, "ending")
    /\ UNCHANGED <<holds, cancels, os, manager, lock, control>>

(* stdout is at its end; what is on stderr and the exit code are awaited.    *)
OutputEnds(r) ==
    /\ pc[r] = "reading" /\ Running
    /\ Goes(r, "tail")
    /\ UNCHANGED <<holds, cancels, suspended, os, manager, lock, control>>

(* The exit event has been handled; finally: unregister_pid.                 *)
Exited(r) ==
    /\ pc[r] = "tail" /\ Running
    /\ proc[r] = "ended"
    /\ pids' = pids \ {r}
    /\ Goes(r, "ending")
    /\ UNCHANGED <<holds, cancels, proc, suspended, manager, lock, control>>

(* The event loop closes a generator that was left suspended: GeneratorExit  *)
(* is not CancelledError, so only its finally runs.                          *)
Finalize(r) ==
    /\ r \in suspended /\ Running
    /\ suspended' = suspended \ {r}
    /\ pids' = pids \ {r}
    /\ UNCHANGED <<pc, holds, cancels, proc, manager, lock, control>>

-----------------------------------------------------------------------------
(* The processes.                                                            *)

(* A process ends by itself or because of a SIGTERM.                         *)
ProcessEnds(r) ==
    /\ Stoppable(r) /\ Running
    /\ proc' = [proc EXCEPT ![r] = "ended"]
    /\ UNCHANGED <<task, cancels, pids, manager, lock, control>>

\* Mutant of BeingStopped: the timeout of stop only covers the generator's own.
StoppedByReader(r) == pc[r] = "stopping"

(* CLISession.stop has sent SIGTERM to the process and waits for it.         *)
BeingStopped(r) ==
    \/ pc[r] \in {"stopping", "removing"}
    \/ stopper.pc = "stopping" /\ r \in stopper.todo

(* Five seconds later it is killed.  (stop_all stops its sessions in turn; a *)
(* process may end at any time, so the order is of no consequence here.)     *)
Kill(r) ==
    /\ Stoppable(r) /\ BeingStopped(r) /\ Running
    /\ proc' = [proc EXCEPT ![r] = "ended"]
    /\ UNCHANGED <<task, cancels, pids, manager, lock, control>>

(* The generator's own stop, in its handler of CancelledError, has returned; *)
(* its finally runs and the exception goes on to the handler.                *)
Stopped(r) ==
    /\ pc[r] = "stopping" /\ Running
    /\ proc[r] = "ended"
    /\ pids' = pids \ {r}
    /\ Goes(r, "ending")
    /\ UNCHANGED <<holds, cancels, proc, suspended, manager, lock, control>>

-----------------------------------------------------------------------------
(* The handler's finally: remove_session with the real id or the temporary   *)
(* one.  The session leaves the dictionaries before its process is stopped.  *)

Listed(r) == \/ holds[r] = "temp" /\ r \in manager.pending
             \/ holds[r] = "real" /\ r \in manager.sessions

Forgets(r) == [manager EXCEPT !.pending = @ \ {r}, !.sessions = @ \ {r}]

\* Mutant of Drops: the translation of the temporary id stays.
DropsSession(r, sessions) == manager' = sessions /\ Goes(r, "done")

(* Removed, at once or when the process has ended.                           *)
Drops(r, sessions) ==
    /\ manager' = [sessions EXCEPT !.tempToReal = IF holds[r] = "real" THEN @ \ {r} ELSE @]
    /\ Goes(r, "done")

Removes(r) ==
    /\ lock = "free"
    /\ IF Listed(r) /\ Stoppable(r)
         THEN /\ manager' = Forgets(r)
              /\ lock' = r
              /\ Goes(r, "removing")
         ELSE /\ IF Listed(r) THEN Drops(r, Forgets(r))
                              ELSE Goes(r, "done") /\ UNCHANGED manager
              /\ UNCHANGED lock
    /\ UNCHANGED <<holds, cancels, suspended, os, control>>

RemoveSession(r) ==
    /\ pc[r] = "ending" /\ Running
    /\ \/ holds[r] # "none" /\ Removes(r)
       \/ /\ holds[r] = "none" \/ lock # "free"
          /\ Goes(r, IF holds[r] = "none" THEN "done" ELSE "leaving")
          /\ UNCHANGED <<holds, cancels, suspended, os, manager, lock, control>>

GetsLockToRemove(r) == pc[r] = "leaving" /\ Running /\ Removes(r)

Removed(r) ==
    /\ pc[r] = "removing" /\ Running
    /\ proc[r] = "ended"
    /\ pids' = pids \ {r}
    /\ Drops(r, manager)
    /\ lock' = "free"
    /\ UNCHANGED <<holds, cancels, proc, suspended, control>>

-----------------------------------------------------------------------------
(* Cancellation.                                                             *)

(* What CancelledError does to a task at its awaits: a reader stops its      *)
(* process first, unless that has ended; a handler leaves the generator      *)
(* suspended, the process of a spawn is killed, a message to the platform is *)
(* given up; remove_session is left where it is.                             *)
CancelledTo(r) ==
    IF pc[r] = "reading" /\ proc[r] # "ended" THEN "stopping"
    ELSE IF pc[r] \in {"leaving", "removing"} THEN "done"
    ELSE "ending"

(* The ones that run the generator's finally on the way.                     *)
UnregistersOnCancel(r) == \/ pc[r] \in {"tail", "stopping"}
                          \/ pc[r] = "reading" /\ proc[r] = "ended"

Cancelled(S) ==
    /\ pc' = [r \in Runs |-> IF r \in S THEN CancelledTo(r) ELSE pc[r]]
    /\ proc' = [r \in Runs |->
                  IF r \in S /\ pc[r] = "spawning" THEN "none" ELSE proc[r]]
    /\ pids' = pids \ {r \in S : UnregistersOnCancel(r)}
    /\ suspended' = suspended \cup {r \in S : pc[r] \in {"handling", "registering"}}
    /\ cancels' = [r \in Runs |-> IF r \in S THEN cancels[r] + 1 ELSE cancels[r]]
    /\ abandoned' = abandoned \cup {r \in S : pc[r] \in {"leaving", "removing"}}
    /\ lock' = IF lock \in S THEN "free" ELSE lock

(* The tree queue cancels the task of a node.                                *)
Cancel(r) ==
    /\ pc[r] \in Asleep /\ Running
    /\ cancels[r] < MaxCancels
    /\ Cancelled({r})
    /\ UNCHANGED <<holds, manager, stopper, stops, server>>

-----------------------------------------------------------------------------
(* stop_all.                                                                 *)

Known == manager.pending \cup manager.sessions

(* Its list is made when it has the lock; a session without a process is not *)
(* stopped, and one whose process has ended costs nothing.                   *)
TakesAll ==
    /\ lock = "free"
    /\ abandoned' = abandoned \cup {r \in Known : ~HasProcess(r)}
    /\ IF \E r \in Known : Stoppable(r)
         THEN /\ lock' = "stop_all"
              /\ stopper' = [pc |-> "stopping", todo |-> {r \in Known : Stoppable(r)}]
              /\ UNCHANGED manager
         ELSE /\ stopper' = NoStop
              /\ manager' = Empty
              /\ UNCHANGED lock
    /\ UNCHANGED <<task, cancels, os>>

(* Called by the handler, which has cancelled tasks before, or by the        *)
(* shutdown of the server, which has not.                                    *)
StopAll ==
    /\ stopper.pc = "idle" /\ server = "up"
    /\ \/ stops < MaxStops /\ stops' = stops + 1 /\ UNCHANGED server
       \/ server' = "stopping" /\ UNCHANGED stops
    /\ \/ TakesAll
       \/ /\ lock # "free"
          /\ stopper' = [pc |-> "waiting", todo |-> {}]
          /\ UNCHANGED <<task, cancels, os, manager, lock, abandoned>>

StopAllGetsLock ==
    /\ stopper.pc = "waiting" /\ Running
    /\ TakesAll
    /\ UNCHANGED <<stops, server>>

(* One session after the other; the process has ended when its stop returns. *)
StopsOne(r) ==
    /\ stopper.pc = "stopping" /\ Running
    /\ r \in stopper.todo
    /\ proc[r] # "alive"
    /\ pids' = pids \ {r}
    /\ stopper' = [stopper EXCEPT !.todo = @ \ {r}]
    /\ UNCHANGED <<task, cancels, proc, manager, lock, stops, abandoned, server>>

StopAllEnds ==
    /\ stopper.pc = "stopping" /\ Running
    /\ stopper.todo = {}
    /\ stopper' = NoStop
    /\ manager' = Empty
    /\ lock' = "free"
    /\ UNCHANGED <<task, cancels, os, stops, abandoned, server>>

-----------------------------------------------------------------------------
(* The end of the server.                                                    *)

(* _best_effort gives stop_all five seconds and cancels it.                  *)
ShutdownTimesOut ==
    /\ server = "stopping" /\ stopper.pc # "idle"
    /\ stopper' = NoStop
    /\ lock' = IF lock = "stop_all" THEN "free" ELSE lock
    /\ UNCHANGED <<task, cancels, os, manager, stops, abandoned, server>>

(* The event loop ends: what still runs is cancelled and awaited.            *)
LoopEnds ==
    /\ server = "stopping" /\ stopper.pc = "idle"
    /\ server' = "cancelled"
    /\ Cancelled({r \in Runs : pc[r] \in Asleep})
    /\ UNCHANGED <<holds, manager, stopper, stops>>

(* kill_all_best_effort, at the exit of the interpreter.                     *)
KillAll ==
    /\ proc' = [r \in Runs |-> IF r \in pids THEN "ended" ELSE proc[r]]
    /\ pids' = {}
    /\ server' = "down"
    /\ UNCHANGED <<task, cancels, manager, lock, stopper, stops, abandoned>>

(* A task that the queue began meanwhile is not awaited.                     *)
Exit ==
    /\ server = "cancelled" /\ suspended = {}
    /\ \A r \in Runs : cancels[r] > 0 => pc[r] = "done"
    /\ KillAll

(* Interrupted: the cleaning up does not run to completion.                  *)
Interrupt == Running /\ KillAll

Next ==
    \/ \E r \in Runs :
          \/ Begin(r) \/ GetsLock(r) \/ Spawned(r) \/ SpawnFails(r)
          \/ SessionInfo(r) \/ GetsLockToRegister(r)
          \/ Event(r) \/ Handled(r) \/ HandlingFails(r)
          \/ OutputEnds(r) \/ Exited(r) \/ Finalize(r)
          \/ ProcessEnds(r) \/ Kill(r) \/ Stopped(r)
          \/ RemoveSession(r) \/ GetsLockToRemove(r) \/ Removed(r)
          \/ Cancel(r) \/ StopsOne(r)
    \/ StopAll \/ StopAllGetsLock \/ StopAllEnds
    \/ ShutdownTimesOut \/ LoopEnds \/ Exit \/ Interrupt

(* The event loop resumes what can be resumed, timeouts fire, and the lock is*)
(* handed out in turn; a process need not do anything by itself, and neither *)
(* the user nor the shutdown need come.                                      *)
Fairness ==
    /\ \A r \in Runs :
          /\ WF_vars(Spawned(r) \/ SpawnFails(r)) /\ WF_vars(Handled(r))
          /\ WF_vars(Exited(r)) /\ WF_vars(Finalize(r)) /\ WF_vars(Stopped(r))
          /\ WF_vars(Kill(r)) /\ WF_vars(Removed(r)) /\ WF_vars(StopsOne(r))
          /\ WF_vars(GetsLock(r)) /\ WF_vars(GetsLockToRegister(r))
          /\ WF_vars(RemoveSession(r)) /\ WF_vars(GetsLockToRemove(r))
    /\ WF_vars(StopAllGetsLock)
    /\ WF_vars(StopAllEnds) /\ WF_vars(LoopEnds) /\ WF_vars(Exit)

Spec == Init /\ [][Next]_vars /\ Fairness

-----------------------------------------------------------------------------
(* Properties.                                                               *)

TypeOK ==
    /\ pc \in [Runs -> Pcs]
    /\ holds \in [Runs -> {"none", "temp", "real"}]
    /\ cancels \in [Runs -> Nat]
    /\ proc \in [Runs -> {"none", "alive", "ended"}]
    /\ pids \in SUBSET Runs
    /\ suspended \in SUBSET Runs
    /\ manager \in [pending : SUBSET Runs, sessions : SUBSET Runs, tempToReal : SUBSET Runs]
    /\ lock \in Runs \cup {"free", "stop_all"}
    /\ stopper \in [pc : {"idle", "waiting", "stopping"}, todo : SUBSET Runs]
    /\ stops \in Nat
    /\ abandoned \in SUBSET Runs
    /\ server \in {"up", "stopping", "cancelled", "down"}

(* The lock belongs to the one that is between taking and releasing it.      *)
LockIsHeld ==
    /\ \A r \in Runs : lock = r <=> pc[r] = "removing"
    /\ lock = "stop_all" <=> stopper.pc = "stopping"

(* A process that is alive outside its spawn is in the registry, so that an  *)
(* interrupted server kills it, unless its generator has been closed.        *)
Registered ==
    \A r \in Runs :
       pc[r] \in {"reading", "handling", "registering", "stopping"} /\ Running
          => (proc[r] = "alive" => r \in pids)

(* A session is in at most one dictionary, and in none once its run is over, *)
(* and an id is translated only for a session, until it is removed.          *)
DictionariesAgree ==
    /\ manager.pending \cap manager.sessions = {}
    /\ manager.sessions \subseteq manager.tempToReal
    /\ \A r \in manager.tempToReal \ manager.sessions :
          pc[r] = "removing" \/ r \in abandoned
    /\ \A r \in Known \cup manager.tempToReal :
          pc[r] \notin {"new", "waiting"} /\ (pc[r] = "done" => r \in abandoned)

(* The manager, the registry and the lock describe the tasks that exist.     *)
SessionsInv == TypeOK /\ LockIsHeld /\ Registered /\ DictionariesAgree

(* The process of a node whose task is over has ended, except when stop_all  *)
(* dropped the session during its spawn or the task was cancelled inside     *)
(* remove_session.                                                           *)
NothingRunsOn ==
    \A r \in Runs : pc[r] = "done" /\ r \notin abandoned => proc[r] # "alive"

(* A task that was cancelled ends, whatever its process, stop_all and the    *)
(* other tasks that clean up do.                                             *)
CancelledRunsEnd ==
    \A r \in Runs : cancels[r] > 0 ~> (pc[r] = "done" \/ server = "down")
=============================================================================

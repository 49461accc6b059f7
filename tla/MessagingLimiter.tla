-------------------------- MODULE MessagingLimiter --------------------------
(***************************************************************************)
(* messaging/limiter.py: MessagingRateLimiter, the queue through which all *)
(* sends, edits and deletes go to the chat platform.                       *)
(*                                                                         *)
(* A call of enqueue or fire_and_forget is numbered when it first reaches  *)
(* the queue: a higher number is a newer version of the message that its   *)
(* key stands for.  A step is the code between two suspensions; the        *)
(* critical sections of _condition never suspend, so the lock needs no     *)
(* variable.  Time passes in ticks of a second, at any moment.             *)
(***************************************************************************)
EXTENDS SlidingWindow, FiniteSets

CONSTANTS
    Keys,      \* dedup keys
    MaxCalls,  \* how many calls are made
    Errors,    \* errors of the platform, of AllErrors
    Floods     \* seconds that a flood error may ask for

\* transient: fire_and_forget tries again; flood: the worker pauses.
AllErrors == {"transient", "flood", "other"}

ASSUME KeysAssumption == Keys # {}
ASSUME ErrorsAssumption == Errors \subseteq AllErrors
ASSUME FloodsAssumption == Floods \subseteq Nat
ASSUME MaxCallsAssumption == MaxCalls \in Nat

Tasks      == 1..MaxCalls
NoTask     == 0
MaxRetries == 2

VARIABLES
    queueList,   \* _queue_list
    func,        \* _queue_map: the call whose function is queued, or NoTask
    futures,     \* _queue_map: the calls whose futures wait for it
    step,        \* where the worker is
    job,         \* what the worker has taken
    pausedUntil, \* seconds left of _paused_until
    times,       \* SlidingWindowLimiter._times
    shutdown,    \* _shutdown
    pc,          \* where each call is
    key,         \* its dedup key
    forgotten,   \* the calls made with fire_and_forget
    attempt,     \* _wrapped: attempt
    backoff,     \* _wrapped: seconds left to sleep
    \* Auxiliary variables, read by properties only.
    granted,     \* ages of all slots that were ever granted
    shown,       \* the call of each key that succeeded last, or NoTask
    retried      \* keys that fire_and_forget has queued again

queueVars == <<queueList, func, futures>>
callVars  == <<pc, key, forgotten, attempt, backoff>>
auxVars   == <<granted, shown, retried>>
vars      == <<queueVars, step, job, pausedUntil, times, shutdown, callVars, auxVars>>

\* taken: has a job and may have to pause; calling: awaits func().
WorkerStep == {"idle", "taken", "calling", "stopped"}

\* waiting: for its future; asleep: before it tries again.
CallStep == {"new", "waiting", "asleep", "done", "failed"}

Issued == {t \in Tasks : pc[t] # "new"}

TypeOK ==
    /\ queueList \in Seq(Keys)
    /\ func \in [Keys -> Tasks \cup {NoTask}]
    /\ futures \in [Keys -> SUBSET Tasks]
    /\ step \in WorkerStep
    /\ job \in [key : Keys, func : Tasks \cup {NoTask}, futures : SUBSET Tasks]
    /\ pausedUntil \in Nat
    /\ times \in Seq(Age)
    /\ shutdown \in BOOLEAN
    /\ pc \in [Tasks -> CallStep]
    /\ key \in [Tasks -> Keys]
    /\ forgotten \subseteq Tasks
    /\ attempt \in [Tasks -> 0..MaxRetries]
    /\ backoff \in [Tasks -> Nat]
    /\ granted \in Seq(Age)
    /\ shown \in [Keys -> Tasks \cup {NoTask}]
    /\ retried \subseteq Keys

AnyKey == CHOOSE k \in Keys : TRUE
NoJob  == [key |-> AnyKey, func |-> NoTask, futures |-> {}]

Init ==
    /\ queueList = <<>>
    /\ func = [k \in Keys |-> NoTask]
    /\ futures = [k \in Keys |-> {}]
    /\ step = "idle"
    /\ job = NoJob
    /\ pausedUntil = 0
    /\ times = <<>>
    /\ shutdown = FALSE
    /\ pc = [t \in Tasks |-> "new"]
    /\ key = [t \in Tasks |-> AnyKey]
    /\ forgotten = {}
    /\ attempt = [t \in Tasks |-> 0]
    /\ backoff = [t \in Tasks |-> 0]
    /\ granted = <<>>
    /\ shown = [k \in Keys |-> NoTask]
    /\ retried = {}
-----------------------------------------------------------------------------
(***************************************************************************)
(* Callers.                                                                *)
(***************************************************************************)

\* Mutants of Enqueue: no compaction in the list; the futures that wait are
\* replaced; the function that is queued stays.
EnqueueAgain(t, k) ==
    /\ func' = [func EXCEPT ![k] = t]
    /\ futures' = [futures EXCEPT ![k] = @ \cup {t}]
    /\ queueList' = Append(queueList, k)
EnqueueAlone(t, k) ==
    /\ func' = [func EXCEPT ![k] = t]
    /\ futures' = [futures EXCEPT ![k] = {t}]
    /\ queueList' = IF func[k] = NoTask THEN Append(queueList, k) ELSE queueList
EnqueueFirst(t, k) ==
    /\ func' = [func EXCEPT ![k] = IF @ = NoTask THEN t ELSE @]
    /\ futures' = [futures EXCEPT ![k] = @ \cup {t}]
    /\ queueList' = IF func[k] = NoTask THEN Append(queueList, k) ELSE queueList

\* _enqueue_internal_multi: a queued key keeps its place and its futures, and
\* gets the function of the latest call.
Enqueue(t, k) ==
    /\ func' = [func EXCEPT ![k] = t]
    /\ futures' = [futures EXCEPT ![k] = @ \cup {t}]
    /\ queueList' = IF func[k] = NoTask THEN Append(queueList, k) ELSE queueList

\* enqueue, or fire_and_forget, is called.
Call(t, k) ==
    /\ Issued = 1..(t - 1)
    /\ key' = [key EXCEPT ![t] = k]
    /\ forgotten' \in {forgotten, forgotten \cup {t}}
    /\ pc' = [pc EXCEPT ![t] = "waiting"]
    /\ Enqueue(t, k)
    /\ UNCHANGED <<step, job, pausedUntil, times, shutdown, attempt, backoff, auxVars>>

\* fire_and_forget's _wrapped, after its sleep.
Retry(t) ==
    /\ pc[t] = "asleep"
    /\ backoff[t] = 0
    /\ pc' = [pc EXCEPT ![t] = "waiting"]
    /\ Enqueue(t, key[t])
    /\ retried' = retried \cup {key[t]}
    /\ UNCHANGED <<step, job, pausedUntil, times, shutdown, key, forgotten, attempt,
                   backoff, granted, shown>>
-----------------------------------------------------------------------------
(***************************************************************************)
(* The worker.                                                             *)
(***************************************************************************)

\* The first key of the queue, with what is queued under it now.
Take ==
    /\ step = "idle"
    /\ ~shutdown
    /\ queueList # <<>>
    /\ LET k == Head(queueList)
       IN  /\ job' = [key |-> k, func |-> func[k], futures |-> futures[k]]
           /\ func' = [func EXCEPT ![k] = NoTask]
           /\ futures' = [futures EXCEPT ![k] = {}]
    /\ queueList' = Tail(queueList)
    /\ step' = "taken"
    /\ UNCHANGED <<pausedUntil, times, shutdown, callVars, auxVars>>

\* Only the worker sets _paused_until, so the pause it sleeps for is over
\* when nothing is left of it; then it waits for its slot.
Acquire ==
    /\ step = "taken"
    /\ pausedUntil = 0
    /\ HasRoom(times)
    /\ times' = WithGrant(times)
    /\ granted' = Append(granted, 0)
    /\ step' = "calling"
    /\ UNCHANGED <<queueVars, job, pausedUntil, shutdown, callVars, shown, retried>>

\* func() returns: every future has its result.
CallReturns ==
    /\ step = "calling"
    /\ step' = "idle"
    /\ job' = NoJob
    /\ pc' = [t \in Tasks |-> IF t \in job.futures THEN "done" ELSE pc[t]]
    /\ shown' = [shown EXCEPT ![job.key] = job.func]
    /\ UNCHANGED <<queueVars, pausedUntil, times, shutdown, key, forgotten, attempt,
                   backoff, granted, retried>>

\* Mutant of TriesAgain: one retry too many.
TriesTooOften(t, error) ==
    t \in forgotten /\ error = "transient" /\ attempt[t] <= MaxRetries

\* What fire_and_forget's _wrapped does with the exception.
TriesAgain(t, error) ==
    t \in forgotten /\ error = "transient" /\ attempt[t] < MaxRetries

\* 2**attempt: with two retries the attempts that sleep are 0 and 1.
Delay(n) == IF n = 0 THEN 1 ELSE 2

\* Mutant of CallRaises: nobody is told.
CallRaisesQuietly(error) ==
    /\ step = "calling"
    /\ step' = "idle"
    /\ job' = NoJob
    /\ pausedUntil' \in IF error = "flood" THEN Floods ELSE {pausedUntil}
    /\ UNCHANGED <<queueVars, times, shutdown, callVars, auxVars>>

\* func() raises: every future has the exception, and each caller looks at
\* it; the caller sleeps 2**attempt seconds before it tries again.
CallRaises(error) ==
    /\ step = "calling"
    /\ step' = "idle"
    /\ job' = NoJob
    /\ pausedUntil' \in IF error = "flood" THEN Floods ELSE {pausedUntil}
    /\ LET again == {t \in job.futures : TriesAgain(t, error)}
       IN  /\ pc' = [t \in Tasks |-> IF t \in again THEN "asleep"
                                     ELSE IF t \in job.futures THEN "failed" ELSE pc[t]]
           /\ backoff' = [t \in Tasks |-> IF t \in again THEN Delay(attempt[t]) ELSE backoff[t]]
           /\ attempt' = [t \in Tasks |-> IF t \in again THEN attempt[t] + 1 ELSE attempt[t]]
    /\ UNCHANGED <<queueVars, times, shutdown, key, forgotten, auxVars>>

\* shutdown cancels the worker wherever it waits; no future is resolved.
Shutdown ==
    /\ ~shutdown
    /\ shutdown' = TRUE
    /\ step' = "stopped"
    /\ UNCHANGED <<queueVars, job, pausedUntil, times, callVars, auxVars>>

Passed(seconds) == IF seconds > 0 THEN seconds - 1 ELSE 0

Tick ==
    /\ pausedUntil' = Passed(pausedUntil)
    /\ times' = Older(times)
    /\ granted' = Older(granted)
    /\ backoff' = [t \in Tasks |-> Passed(backoff[t])]
    /\ UNCHANGED <<queueVars, step, job, shutdown, pc, key, forgotten, attempt, shown, retried>>
-----------------------------------------------------------------------------
CallEnds == CallReturns \/ \E error \in Errors : CallRaises(error)

Next ==
    \/ \E t \in Tasks : Retry(t) \/ \E k \in Keys : Call(t, k)
    \/ Take
    \/ Acquire
    \/ CallEnds
    \/ Shutdown
    \/ Tick

Spec == Init /\ [][Next]_vars

\* Time passes, the loop runs what is ready, and the platform answers: its
\* clients give up on a request after a timeout.
FairSpec ==
    /\ Spec
    /\ WF_vars(Tick) /\ WF_vars(Take) /\ WF_vars(Acquire) /\ WF_vars(CallEnds)
    /\ WF_vars(\E t \in Tasks : Retry(t))
-----------------------------------------------------------------------------
(***************************************************************************)
(* Properties.                                                             *)
(***************************************************************************)

\* The worker finds each key it pops in the map, however calls are compacted:
\* a KeyError would lose the job and stop the queue for a second.
ListMatchesMap ==
    /\ \A i, j \in DOMAIN queueList : queueList[i] = queueList[j] => i = j
    /\ \A k \in Keys : (\E i \in DOMAIN queueList : queueList[i] = k) <=> func[k] # NoTask
    /\ \A k \in Keys : IF func[k] = NoTask THEN futures[k] = {} ELSE func[k] \in futures[k]

\* Nobody waits for a future that nothing will resolve, or that is to be
\* resolved twice.
WaitsOnce ==
    \A t \in Tasks :
        LET places == {k \in Keys : t \in futures[k]}
        IN  IF pc[t] # "waiting" THEN places = {} /\ t \notin job.futures
            ELSE IF t \in job.futures THEN places = {} ELSE places = {key[t]}

\* test_limiter.py states it of timestamps: no RateLimit + 1 calls of the
\* platform begin within less than a window.
WindowHolds == WithinLimit(granted)

Settled(k) == \A t \in Issued : key[t] = k => pc[t] \in {"done", "failed"}
Newest(k)  == CHOOSE t \in Issued : key[t] = k /\ \A u \in Issued : key[u] = k => u <= t

\* When all calls for a key have ended and the newest succeeded, its message
\* shows the newest, as long as nothing was tried again.
NewestShown ==
    \A k \in Keys \ retried :
        Settled(k) /\ (\E t \in Issued : key[t] = k) /\ pc[Newest(k)] = "done"
            => shown[k] = Newest(k)

\* Every call ends, unless the limiter is shut down.  Calls are finitely many
\* and stay ended, so this says it of each of them.
CallsEnd ==
    <>[](shutdown \/ \A t \in Tasks : pc[t] \notin {"waiting", "asleep"})
=============================================================================

-------------------------- MODULE ProviderLimiter --------------------------
(***************************************************************************)
(* providers/rate_limit.py: GlobalRateLimiter as openai_compat.py uses it. *)
(* A request takes a concurrency slot, opens its stream through            *)
(* execute_with_retry and keeps the slot until the stream is over.         *)
(*                                                                         *)
(* A step is the code between two suspensions; _lock is never held over    *)
(* one.  Time passes in ticks, at any moment; a client may go away while   *)
(* its request waits for anything.                                         *)
(***************************************************************************)
EXTENDS SlidingWindow, FiniteSets

CONSTANTS
    Requests,
    MaxConcurrency,  \* max_concurrency
    MaxRetries,      \* max_retries of execute_with_retry
    BaseDelay,       \* base_delay, in ticks
    MaxDelay,        \* max_delay
    Jitter,          \* jitter
    Cooldown         \* seconds that map_error blocks for

ASSUME RequestsAssumption == IsFiniteSet(Requests)
ASSUME ConcurrencyAssumption == MaxConcurrency \in Nat \ {0}
ASSUME RetriesAssumption == MaxRetries \in Nat
ASSUME DelayAssumption ==
    BaseDelay \in Nat /\ MaxDelay \in Nat /\ Jitter \in Nat /\ Cooldown \in Nat

VARIABLES
    pc,       \* where each request is
    attempt,  \* execute_with_retry: attempt
    sleep,    \* ticks that it sleeps yet
    free,     \* free slots of _concurrency_sem
    line,     \* who waits for one, in order
    blocked,  \* ticks left of _blocked_until
    times,    \* _request_times
    \* Auxiliary variables, read by properties only.
    granted,  \* ages of all grants of _acquire_proactive_slot
    informed  \* requests that looked at the block since it was set last

vars == <<pc, attempt, sleep, free, line, blocked, times, granted, informed>>

\* line: for a slot; admitted: has one, to go on; held: sleeps for the block;
\* window: waits for room; calling: fn(); backoff: sleeps after a 429;
\* streaming; closing: sends the error to its client.
RequestStep == {"new", "line", "admitted", "held", "window", "calling", "backoff",
                "streaming", "closing", "done"}

InSlot == {r \in Requests : pc[r] \notin {"new", "line", "done"}}

TypeOK ==
    /\ pc \in [Requests -> RequestStep]
    /\ attempt \in [Requests -> 0..MaxRetries]
    /\ sleep \in [Requests -> Nat]
    /\ free \in 0..MaxConcurrency
    /\ line \in Seq(Requests)
    /\ blocked \in Nat
    /\ times \in Seq(Age)
    /\ granted \in Seq(Age)
    /\ informed \subseteq Requests

Init ==
    /\ pc = [r \in Requests |-> "new"]
    /\ attempt = [r \in Requests |-> 0]
    /\ sleep = [r \in Requests |-> 0]
    /\ free = MaxConcurrency
    /\ line = <<>>
    /\ blocked = 0
    /\ times = <<>>
    /\ granted = <<>>
    /\ informed = {}
-----------------------------------------------------------------------------
(***************************************************************************)
(* The two waits of wait_if_blocked.                                       *)
(***************************************************************************)

\* One round of _acquire_proactive_slot.
TryWindow(r) ==
    \/ /\ HasRoom(times)
       /\ times' = WithGrant(times)
       /\ granted' = Append(granted, 0)
       /\ pc' = [pc EXCEPT ![r] = "calling"]
    \/ /\ ~HasRoom(times)
       /\ pc' = [pc EXCEPT ![r] = "window"]
       /\ UNCHANGED <<times, granted>>

\* Mutant of WaitIfBlocked: sleeps one tick less.
WaitTooShort(r) ==
    /\ informed' = informed \cup {r}
    /\ \/ /\ blocked > 0
          /\ pc' = [pc EXCEPT ![r] = "held"]
          /\ sleep' = [sleep EXCEPT ![r] = blocked - 1]
          /\ UNCHANGED <<times, granted>>
       \/ /\ blocked = 0
          /\ TryWindow(r)
          /\ UNCHANGED sleep

\* wait_if_blocked: the block is looked at once.
WaitIfBlocked(r) ==
    /\ informed' = informed \cup {r}
    /\ \/ /\ blocked > 0
          /\ pc' = [pc EXCEPT ![r] = "held"]
          /\ sleep' = [sleep EXCEPT ![r] = blocked]
          /\ UNCHANGED <<times, granted>>
       \/ /\ blocked = 0
          /\ TryWindow(r)
          /\ UNCHANGED sleep

\* set_blocked: whatever the block was before.
SetBlocked(ticks) ==
    /\ blocked' = ticks
    /\ informed' = {}
-----------------------------------------------------------------------------
(***************************************************************************)
(* A request.                                                              *)
(***************************************************************************)

\* concurrency_slot, on the way in.
Enter(r) ==
    /\ pc[r] = "new"
    /\ \/ /\ free > 0 /\ line = <<>>
          /\ free' = free - 1
          /\ WaitIfBlocked(r)
          /\ UNCHANGED line
       \/ /\ free = 0 \/ line # <<>>
          /\ line' = Append(line, r)
          /\ pc' = [pc EXCEPT ![r] = "line"]
          /\ UNCHANGED <<sleep, free, times, granted, informed>>
    /\ UNCHANGED <<attempt, blocked>>

\* It has its slot, or its backoff is over: the next attempt.
Attempt(r) ==
    /\ \/ pc[r] = "admitted"
       \/ pc[r] = "backoff" /\ sleep[r] = 0
    /\ WaitIfBlocked(r)
    /\ UNCHANGED <<attempt, free, line, blocked>>

\* The sleep for the block is over; or it looks for room again.
TakeGrant(r) ==
    /\ \/ pc[r] = "held" /\ sleep[r] = 0
       \/ pc[r] = "window" /\ HasRoom(times)
    /\ TryWindow(r)
    /\ UNCHANGED <<attempt, sleep, free, line, blocked, informed>>

\* fn() returns the stream.
CallReturns(r) ==
    /\ pc[r] = "calling"
    /\ pc' = [pc EXCEPT ![r] = "streaming"]
    /\ UNCHANGED <<attempt, sleep, free, line, blocked, times, granted, informed>>

\* base_delay * 2**attempt, at most max_delay, and some jitter.
Delays(n) ==
    LET delay == BaseDelay * 2 ^ n
    IN  {(IF delay \in 0..MaxDelay THEN delay ELSE MaxDelay) + j : j \in 0..Jitter}

\* fn() raises RateLimitError, and there is an attempt left.
RateLimited(r) ==
    /\ pc[r] = "calling"
    /\ attempt[r] < MaxRetries
    /\ \E delay \in Delays(attempt[r]) :
          /\ SetBlocked(delay)
          /\ sleep' = [sleep EXCEPT ![r] = delay]
    /\ attempt' = [attempt EXCEPT ![r] = @ + 1]
    /\ pc' = [pc EXCEPT ![r] = "backoff"]
    /\ UNCHANGED <<free, line, times, granted>>

\* An error gets to the handler of _stream_response_impl, where map_error
\* blocks everybody if it is another RateLimitError.
Raises(r) ==
    /\ \/ /\ pc[r] = "streaming" \/ (pc[r] = "calling" /\ attempt[r] = MaxRetries)
          /\ SetBlocked(Cooldown)
       \/ /\ pc[r] \in {"calling", "streaming"}
          /\ UNCHANGED <<blocked, informed>>
    /\ pc' = [pc EXCEPT ![r] = "closing"]
    /\ UNCHANGED <<attempt, sleep, free, line, times, granted>>

\* concurrency_slot, on the way out: Semaphore.release hands the slot to the
\* first in line.
Release(r) ==
    \/ /\ line = <<>>
       /\ free' = free + 1
       /\ pc' = [pc EXCEPT ![r] = "done"]
       /\ UNCHANGED line
    \/ /\ line # <<>>
       /\ line' = Tail(line)
       /\ pc' = [pc EXCEPT ![r] = "done", ![Head(line)] = "admitted"]
       /\ UNCHANGED free

\* The stream, or the error, has been sent.
Leave(r) ==
    /\ pc[r] \in {"streaming", "closing"}
    /\ Release(r)
    /\ UNCHANGED <<attempt, sleep, blocked, times, granted, informed>>

\* Semaphore.acquire is cancelled: its entry is removed.
LeavesLine(r) ==
    \E i \in DOMAIN line :
        /\ line[i] = r
        /\ line' = SubSeq(line, 1, i - 1) \o SubSeq(line, i + 1, Len(line))

\* Mutant of Cancel: the slot of a cancelled request is not returned.
CancelLeaks(r) ==
    /\ \/ /\ pc[r] = "line"
          /\ LeavesLine(r)
       \/ /\ r \in InSlot
          /\ UNCHANGED line
    /\ pc' = [pc EXCEPT ![r] = "done"]
    /\ UNCHANGED <<attempt, sleep, free, blocked, times, granted, informed>>

\* The client goes away: CancelledError wherever the request waits.
Cancel(r) ==
    /\ \/ /\ pc[r] = "line"
          /\ LeavesLine(r)
          /\ pc' = [pc EXCEPT ![r] = "done"]
          /\ UNCHANGED free
       \/ /\ r \in InSlot
          /\ Release(r)
    /\ UNCHANGED <<attempt, sleep, blocked, times, granted, informed>>

Passed(ticks) == IF ticks > 0 THEN ticks - 1 ELSE 0

Tick ==
    /\ blocked' = Passed(blocked)
    /\ sleep' = [r \in Requests |-> Passed(sleep[r])]
    /\ times' = Older(times)
    /\ granted' = Older(granted)
    /\ UNCHANGED <<pc, attempt, free, line, informed>>
-----------------------------------------------------------------------------
\* What the request does by itself, and what depends on its provider.
Proceeds(r) == Attempt(r) \/ TakeGrant(r)
Answered(r) == CallReturns(r) \/ RateLimited(r) \/ Raises(r) \/ Leave(r)

Next ==
    \/ \E r \in Requests : Enter(r) \/ Proceeds(r) \/ Answered(r) \/ Cancel(r)
    \/ Tick

Spec == Init /\ [][Next]_vars

\* Time passes, the loop runs what is ready, and each provider call and each
\* stream ends: the HTTP client has timeouts.
FairSpec ==
    /\ Spec
    /\ WF_vars(Tick)
    /\ \A r \in Requests : WF_vars(Proceeds(r)) /\ WF_vars(Answered(r))
-----------------------------------------------------------------------------
(***************************************************************************)
(* Properties.                                                             *)
(***************************************************************************)

\* _acquire_proactive_slot: at most RateLimit calls begin in any window,
\* first attempts and retries of all requests together.
WindowHolds == WithinLimit(granted)

\* However a request ends, its slot is returned once, and nobody stands in
\* line next to a free one; no request makes more attempts than it has.
SlotsAccounted ==
    /\ TypeOK
    /\ free + Cardinality(InSlot) = MaxConcurrency
    /\ line # <<>> => free = 0
    /\ {line[i] : i \in DOMAIN line} = {r \in Requests : pc[r] = "line"}
    /\ \A i, j \in DOMAIN line : line[i] = line[j] => i = j

\* A request that looked at the block after it was set last makes no call
\* before the block is over.
BlockRespected ==
    [][\A r \in informed :
         pc[r] # "calling" /\ pc'[r] = "calling" => blocked = 0]_vars

\* Every request ends, whatever others are told to wait.
RequestsEnd == \A r \in Requests : pc[r] # "new" ~> pc[r] = "done"
=============================================================================

--------------------------- MODULE SlidingWindow ---------------------------
(***************************************************************************)
(* The strict sliding window of SlidingWindowLimiter.acquire               *)
(* (messaging/limiter.py) and GlobalRateLimiter._acquire_proactive_slot    *)
(* (providers/rate_limit.py): both keep the times of the latest grants,    *)
(* oldest first.  Here a grant is known by its age in ticks, which stops   *)
(* at Window: nothing looks at an older grant's age.                       *)
(***************************************************************************)
EXTENDS Naturals, Sequences

CONSTANTS
    RateLimit,  \* _rate_limit
    Window      \* _rate_window, in ticks

\* Both constructors refuse other values.
ASSUME WindowAssumption == RateLimit \in Nat \ {0} /\ Window \in Nat \ {0}

Age == 0..Window

\* A tick passes.
Older(ages) == [i \in DOMAIN ages |-> IF ages[i] < Window THEN ages[i] + 1 ELSE Window]

\* How many grants at the front are out of the window: times[0] <= cutoff.
Expired(ages) ==
    CHOOSE n \in 0..Len(ages) :
        /\ \A i \in 1..n : ages[i] = Window
        /\ n < Len(ages) => ages[n + 1] # Window

\* The loop of popleft.
Unexpired(ages) == SubSeq(ages, Expired(ages) + 1, Len(ages))

\* Mutant of HasRoom: an off-by-one.
HasRoomForOneMore(ages) == Len(Unexpired(ages)) <= RateLimit

\* A caller of acquire that looks now gets a slot; any other goes on waiting.
HasRoom(ages) == Len(Unexpired(ages)) < RateLimit

\* It leaves the time of its own grant.
WithGrant(ages) == Append(Unexpired(ages), 0)

\* What both promise, of the ages of all grants ever made: no RateLimit + 1
\* of them lie within less than a window.
WithinLimit(ages) ==
    \A i \in DOMAIN ages : i + RateLimit <= Len(ages) => ages[i] = Window

\* Why it holds: times are the latest of all grants, and every grant that is
\* not among them is out of the window.
LatestGrants(times, granted) ==
    LET before == Len(granted) - Len(times)
    IN  /\ Len(times) <= Len(granted)
        /\ \A i \in 1..Len(times) : times[i] = granted[before + i]
        /\ \A i \in 1..before : granted[i] = Window
=============================================================================

----------------------- MODULE MessagingLimiterProofs -----------------------
(***************************************************************************)
(* Theorems about MessagingLimiter, for any keys, any number of calls, any *)
(* errors and any limits.                                                  *)
(***************************************************************************)
EXTENDS MessagingLimiter, WellFoundedInduction, TLAPS

-----------------------------------------------------------------------------
(***************************************************************************)
(* The operators of SlidingWindow, of which ProviderLimiterProofs          *)
(* proves the same.                                                        *)
(***************************************************************************)

\* A set of natural numbers that is not empty has a least element.
LEMMA LeastElement ==
    ASSUME NEW S \in SUBSET Nat, S # {}
    PROVE  \E m \in S : \A k \in S : m <= k
<1> DEFINE R == OpToRel(<, Nat)
<1>1. IsWellFoundedOn(R, Nat)
  BY NatLessThanWellFounded
<1>2. \A x, y \in Nat : <<x, y>> \in R <=> x < y
  BY DEF OpToRel
<1> HIDE DEF R
<1>3. \E x \in S : \A y \in S : ~(<<y, x>> \in R)
  BY <1>1, WFMin
<1>4. PICK x \in S : \A y \in S : ~(<<y, x>> \in R)
  BY <1>3
<1>5. \A y \in S : ~(y < x)
  BY <1>2, <1>4
<1>6. \A y \in S : x <= y
  BY <1>5
<1>. QED  BY <1>6

\* The loop of popleft stops at the first grant that is still in the window.
LEMMA ExpiredStops ==
    ASSUME NEW ages \in Seq(Age)
    PROVE  /\ Expired(ages) \in 0..Len(ages)
           /\ \A i \in 1..Expired(ages) : ages[i] = Window
           /\ Expired(ages) < Len(ages) => ages[Expired(ages) + 1] # Window
<1> DEFINE Young == {i \in 1..Len(ages) : ages[i] # Window}
           Stops(n) == /\ \A i \in 1..n : ages[i] = Window
                       /\ n < Len(ages) => ages[n + 1] # Window
<1>1. Len(ages) \in Nat
  OBVIOUS
<1>2. \E n \in 0..Len(ages) : Stops(n)
  <2>1. CASE Young = {}
    <3>1. Len(ages) \in 0..Len(ages) /\ Stops(Len(ages))
      BY <1>1, <2>1
    <3>. QED  BY <3>1
  <2>2. CASE Young # {}
    <3>1. Young \in SUBSET Nat
      BY <1>1
    <3>2. PICK m \in Young : \A k \in Young : m <= k
      BY <2>2, <3>1, LeastElement
    <3>3. m - 1 \in 0..Len(ages) /\ ages[(m - 1) + 1] # Window
      BY <1>1, <3>2
    <3>4. ASSUME NEW i \in 1..(m - 1)  PROVE ages[i] = Window
      <4>1. i \in 1..Len(ages) /\ ~(m <= i)
        BY <1>1, <3>2
      <4>. QED  BY <3>2, <4>1
    <3>. QED  BY <3>3, <3>4
  <2>. QED  BY <2>1, <2>2
<1>. QED  BY <1>2 DEF Expired

\* What is left after the loop, counted from the end.
LEMMA UnexpiredSuffix ==
    ASSUME NEW ages \in Seq(Age)
    PROVE  /\ Unexpired(ages) \in Seq(Age)
           /\ Len(Unexpired(ages)) = Len(ages) - Expired(ages)
           /\ \A i \in 1..Len(Unexpired(ages)) : Unexpired(ages)[i] = ages[Expired(ages) + i]
<1> DEFINE n == Expired(ages)
<1>1. n \in 0..Len(ages) /\ Len(ages) \in Nat
  BY ExpiredStops
<1> HIDE DEF n
<1>2. Unexpired(ages) = SubSeq(ages, n + 1, Len(ages))
  BY DEF Unexpired, n
<1>3. /\ SubSeq(ages, n + 1, Len(ages)) \in Seq(Age)
      /\ Len(SubSeq(ages, n + 1, Len(ages))) = Len(ages) - n
      /\ \A i \in 1..(Len(ages) - n) : SubSeq(ages, n + 1, Len(ages))[i] = ages[n + i]
  BY <1>1
<1>. QED  BY <1>2, <1>3 DEF n

\* At first.
LEMMA WindowInit == LatestGrants(<<>>, <<>>) /\ WithinLimit(<<>>)
  BY DEF LatestGrants, WithinLimit

\* While time passes.
LEMMA WindowTick ==
    ASSUME NEW kept \in Seq(Age), NEW given \in Seq(Age),
           LatestGrants(kept, given), WithinLimit(given)
    PROVE  /\ Older(kept) \in Seq(Age) /\ Older(given) \in Seq(Age)
           /\ LatestGrants(Older(kept), Older(given))
           /\ WithinLimit(Older(given))
<1> USE WindowAssumption
<1>1. ASSUME NEW ages \in Seq(Age)
      PROVE  /\ Older(ages) \in Seq(Age)
             /\ Len(Older(ages)) = Len(ages)
             /\ \A i \in 1..Len(ages) :
                   Older(ages)[i] = IF ages[i] < Window THEN ages[i] + 1 ELSE Window
  <2>1. \A i \in DOMAIN ages : (IF ages[i] < Window THEN ages[i] + 1 ELSE Window) \in Age
    BY DEF Age
  <2>2. Older(ages) \in [1..Len(ages) -> Age]
    BY <2>1 DEF Older
  <2>. QED  BY <2>2 DEF Older
<1>2. LatestGrants(Older(kept), Older(given))
  <2>1. Len(kept) \in Nat /\ Len(given) \in Nat
    OBVIOUS
  <2>2. \A i \in 1..Len(kept) : Older(kept)[i] = Older(given)[Len(given) - Len(kept) + i]
    <3>1. ASSUME NEW i \in 1..Len(kept)
          PROVE  Older(kept)[i] = Older(given)[Len(given) - Len(kept) + i]
      <4>1. /\ Len(given) - Len(kept) + i \in 1..Len(given)
            /\ kept[i] = given[Len(given) - Len(kept) + i]
        BY <2>1 DEF LatestGrants
      <4>. QED  BY <1>1, <4>1
    <3>. QED  BY <3>1
  <2>3. \A i \in 1..(Len(given) - Len(kept)) : Older(given)[i] = Window
    BY <1>1, <2>1 DEF LatestGrants
  <2>. QED  BY <1>1, <2>1, <2>2, <2>3 DEF LatestGrants
<1>3. WithinLimit(Older(given))
  <2>1. \A i \in 1..Len(given) : i + RateLimit <= Len(given) => Older(given)[i] = Window
    BY <1>1 DEF WithinLimit
  <2>. QED  BY <1>1, <2>1 DEF WithinLimit
<1>. QED  BY <1>1, <1>2, <1>3

\* When a caller gets a slot: its grant is one more of the latest, and there
\* were fewer than RateLimit of them in the window.
LEMMA WindowGrant ==
    ASSUME NEW kept \in Seq(Age), NEW given \in Seq(Age),
           LatestGrants(kept, given), HasRoom(kept)
    PROVE  /\ WithGrant(kept) \in Seq(Age) /\ Append(given, 0) \in Seq(Age)
           /\ LatestGrants(WithGrant(kept), Append(given, 0))
           /\ WithinLimit(Append(given, 0))
<1> DEFINE rest == Unexpired(kept)
           n    == Expired(kept)
<1>1. 0 \in Age /\ RateLimit \in Nat
  BY WindowAssumption DEF Age
<1>2. /\ rest \in Seq(Age)
      /\ n \in 0..Len(kept)
      /\ Len(rest) = Len(kept) - n
      /\ \A i \in 1..Len(rest) : rest[i] = kept[n + i]
      /\ \A i \in 1..n : kept[i] = Window
  BY ExpiredStops, UnexpiredSuffix
<1>3. Len(rest) < RateLimit /\ WithGrant(kept) = Append(rest, 0)
  BY DEF HasRoom, WithGrant
<1> HIDE DEF rest, n
<1> DEFINE before == Len(given) - Len(rest)
<1>4. /\ Len(kept) \in Nat /\ Len(given) \in Nat /\ Len(rest) \in Nat /\ n \in Nat
      /\ Len(kept) <= Len(given)
      /\ before = (Len(given) - Len(kept)) + n
  BY <1>2 DEF LatestGrants
<1>5. \A i \in 1..Len(rest) : rest[i] = given[before + i]
  <2>1. ASSUME NEW i \in 1..Len(rest)  PROVE rest[i] = given[before + i]
    <3>1. n + i \in 1..Len(kept) /\ rest[i] = kept[n + i]
      BY <1>2, <1>4
    <3>2. kept[n + i] = given[(Len(given) - Len(kept)) + (n + i)]
      BY <3>1 DEF LatestGrants
    <3>. QED  BY <1>4, <3>1, <3>2
  <2>. QED  BY <2>1
<1>6. \A i \in 1..before : given[i] = Window
  <2>1. ASSUME NEW i \in 1..before  PROVE given[i] = Window
    <3>1. CASE i <= Len(given) - Len(kept)
      BY <1>4, <3>1 DEF LatestGrants
    <3>2. CASE i > Len(given) - Len(kept)
      <4> DEFINE j == i - (Len(given) - Len(kept))
      <4>1. j \in 1..n /\ j \in 1..Len(kept) /\ (Len(given) - Len(kept)) + j = i
        BY <1>2, <1>4, <3>2
      <4>2. kept[j] = given[(Len(given) - Len(kept)) + j]
        BY <4>1 DEF LatestGrants
      <4>. QED  BY <1>2, <4>1, <4>2
    <3>. QED  BY <1>4, <3>1, <3>2
  <2>. QED  BY <2>1
<1>7. /\ Append(rest, 0) \in Seq(Age) /\ Append(given, 0) \in Seq(Age)
      /\ Len(Append(rest, 0)) = Len(rest) + 1
      /\ Len(Append(given, 0)) = Len(given) + 1
      /\ \A i \in 1..Len(rest) : Append(rest, 0)[i] = rest[i]
      /\ \A i \in 1..Len(given) : Append(given, 0)[i] = given[i]
      /\ Append(rest, 0)[Len(rest) + 1] = 0
      /\ Append(given, 0)[Len(given) + 1] = 0
  BY <1>1, <1>2
<1> DEFINE newTimes == Append(rest, 0)
           newGranted == Append(given, 0)
<1> HIDE DEF newTimes, newGranted
<1>8. LatestGrants(newTimes, newGranted)
  <2>1. Len(newGranted) - Len(newTimes) = before /\ Len(newTimes) <= Len(newGranted)
    <3>1. Len(newTimes) = Len(rest) + 1 /\ Len(newGranted) = Len(given) + 1
      BY <1>7 DEF newTimes, newGranted
    <3>2. Len(rest) <= Len(given)
      BY <1>2, <1>4
    <3>. QED  BY <1>4, <3>1, <3>2
  <2>2. ASSUME NEW i \in 1..Len(newTimes)  PROVE newTimes[i] = newGranted[before + i]
    <3>1. CASE i \in 1..Len(rest)
      <4>1. before + i \in 1..Len(given)
        BY <1>2, <1>4, <3>1
      <4>. QED  BY <1>5, <1>7, <3>1, <4>1 DEF newTimes, newGranted
    <3>2. CASE i = Len(rest) + 1
      <4>1. before + i = Len(given) + 1
        BY <1>4, <3>2
      <4>. QED  BY <1>7, <3>2, <4>1 DEF newTimes, newGranted
    <3>. QED  BY <1>4, <1>7, <3>1, <3>2 DEF newTimes
  <2>3. ASSUME NEW i \in 1..before  PROVE newGranted[i] = Window
    <3>1. i \in 1..Len(given)
      BY <1>2, <1>4
    <3>. QED  BY <1>6, <1>7, <3>1 DEF newGranted
  <2>. QED  BY <2>1, <2>2, <2>3 DEF LatestGrants
<1>9. WithinLimit(newGranted)
  <2>1. ASSUME NEW i \in DOMAIN newGranted, i + RateLimit <= Len(newGranted)
        PROVE  newGranted[i] = Window
    <3>1. i \in 1..before /\ i \in 1..Len(given)
      BY <1>1, <1>2, <1>3, <1>4, <1>7, <2>1 DEF newGranted
    <3>. QED  BY <1>6, <1>7, <3>1 DEF newGranted
  <2>. QED  BY <2>1 DEF WithinLimit
<1>. QED  BY <1>3, <1>7, <1>8, <1>9 DEF newTimes, newGranted
-----------------------------------------------------------------------------
(***************************************************************************)
(* The window.                                                             *)
(***************************************************************************)

GrantInv ==
    /\ times \in Seq(Age)
    /\ granted \in Seq(Age)
    /\ LatestGrants(times, granted)
    /\ WithinLimit(granted)

\* Only Acquire grants a slot, and only Tick lets the grants age.
LEMMA GrantCases ==
    ASSUME [Next]_vars
    PROVE  \/ UNCHANGED <<times, granted>>
           \/ /\ HasRoom(times)
              /\ times' = WithGrant(times)
              /\ granted' = Append(granted, 0)
           \/ /\ times' = Older(times)
              /\ granted' = Older(granted)
<1>1. ASSUME NEW t \in Tasks, Retry(t) \/ \E k \in Keys : Call(t, k)
      PROVE  UNCHANGED <<times, granted>>
  BY <1>1 DEF Retry, Call, auxVars
<1>2. CASE Take \/ CallReturns \/ Shutdown
  BY <1>2 DEF Take, CallReturns, Shutdown, auxVars
<1>3. ASSUME NEW error \in Errors, CallRaises(error)
      PROVE  UNCHANGED <<times, granted>>
  BY <1>3 DEF CallRaises, auxVars
<1>4. CASE Acquire
  BY <1>4 DEF Acquire
<1>5. CASE Tick
  BY <1>5 DEF Tick
<1>6. CASE UNCHANGED vars
  BY <1>6 DEF vars, auxVars
<1>. QED  BY <1>1, <1>2, <1>3, <1>4, <1>5, <1>6 DEF Next, CallEnds

\* The grants are as they should be in every reachable state.
LEMMA GrantsAreKept == Spec => []GrantInv
<1>1. Init => GrantInv
  BY WindowInit DEF Init, GrantInv
<1>2. GrantInv /\ [Next]_vars => GrantInv'
  <2> SUFFICES ASSUME GrantInv, [Next]_vars  PROVE GrantInv'
    OBVIOUS
  <2>1. CASE UNCHANGED <<times, granted>>
    BY <2>1 DEF GrantInv
  <2>2. CASE HasRoom(times) /\ times' = WithGrant(times) /\ granted' = Append(granted, 0)
    BY <2>2, WindowGrant DEF GrantInv
  <2>3. CASE times' = Older(times) /\ granted' = Older(granted)
    BY <2>3, WindowTick DEF GrantInv
  <2>. QED  BY <2>1, <2>2, <2>3, GrantCases
<1>. QED  BY <1>1, <1>2, PTL DEF Spec

\* SlidingWindowLimiter.acquire keeps the window for every limit and window.
THEOREM WindowIsKept == Spec => []WindowHolds
<1>1. GrantInv => WindowHolds
  BY DEF GrantInv, WindowHolds
<1>. QED  BY <1>1, GrantsAreKept, PTL
-----------------------------------------------------------------------------
(***************************************************************************)
(* The queue.                                                              *)
(***************************************************************************)

Holds(s, x) == \E i \in DOMAIN s : s[i] = x
Unique(s)   == \A i, j \in DOMAIN s : s[i] = s[j] => i = j

\* What is left of a sequence without repetitions.
LEMMA TailOfUnique ==
    ASSUME NEW S, NEW s \in Seq(S), s # <<>>, Unique(s)
    PROVE  /\ Tail(s) \in Seq(S) /\ Head(s) \in S /\ Unique(Tail(s))
           /\ \A x : Holds(Tail(s), x) <=> Holds(s, x) /\ x # Head(s)
<1> DEFINE u == Tail(s)
<1>1. /\ DOMAIN s = 1..Len(s) /\ Len(s) \in Nat \ {0} /\ Head(s) = s[1] /\ Head(s) \in S
      /\ u \in Seq(S) /\ DOMAIN u = 1..(Len(s) - 1)
      /\ \A i \in DOMAIN u : u[i] = s[i + 1] /\ i + 1 \in DOMAIN s
  OBVIOUS
<1>. HIDE DEF u
<1>2. Unique(u)
  <2> SUFFICES ASSUME NEW i \in DOMAIN u, NEW j \in DOMAIN u, u[i] = u[j]  PROVE i = j
    BY DEF Unique
  <2>1. i + 1 = j + 1
    BY <1>1 DEF Unique
  <2>. QED  BY <1>1, <2>1
<1>3. ASSUME NEW x, Holds(u, x)  PROVE Holds(s, x) /\ x # Head(s)
  <2>1. PICK i \in DOMAIN u : u[i] = x
    BY <1>3 DEF Holds
  <2>2. s[i + 1] = x /\ i + 1 \in DOMAIN s /\ i + 1 # 1 /\ 1 \in DOMAIN s
    BY <1>1, <2>1
  <2>. QED  BY <1>1, <2>2 DEF Holds, Unique
<1>4. ASSUME NEW x, Holds(s, x), x # Head(s)  PROVE Holds(u, x)
  <2>1. PICK i \in DOMAIN s : s[i] = x
    BY <1>4 DEF Holds
  <2>2. i - 1 \in DOMAIN u /\ u[i - 1] = x
    BY <1>1, <1>4, <2>1
  <2>. QED  BY <2>2 DEF Holds
<1>. QED  BY <1>1, <1>2, <1>3, <1>4 DEF u

\* A new element makes no repetition.
LEMMA AppendNew ==
    ASSUME NEW S, NEW s \in Seq(S), NEW e \in S, Unique(s), ~Holds(s, e)
    PROVE  /\ Append(s, e) \in Seq(S) /\ Unique(Append(s, e))
           /\ \A x : Holds(Append(s, e), x) <=> Holds(s, x) \/ x = e
<1> DEFINE u == Append(s, e)
<1>1. /\ DOMAIN s = 1..Len(s) /\ Len(s) \in Nat
      /\ u \in Seq(S) /\ DOMAIN u = 1..(Len(s) + 1) /\ u[Len(s) + 1] = e
      /\ \A i \in DOMAIN s : u[i] = s[i]
  OBVIOUS
<1>2. \A i \in DOMAIN u : i \in DOMAIN s \/ i = Len(s) + 1
  BY <1>1
<1>3. DOMAIN s \subseteq DOMAIN u /\ Len(s) + 1 \in DOMAIN u
  BY <1>1
<1>. HIDE DEF u
<1>4. Unique(u)
  BY <1>1, <1>2 DEF Unique, Holds
<1>5. ASSUME NEW x  PROVE Holds(u, x) <=> Holds(s, x) \/ x = e
  BY <1>1, <1>2, <1>3 DEF Holds
<1>. QED  BY <1>1, <1>4, <1>5 DEF u

\* ListMatchesMap, and the types it needs.
ListInv ==
    /\ queueList \in Seq(Keys)
    /\ func \in [Keys -> Tasks \cup {NoTask}]
    /\ futures \in [Keys -> SUBSET Tasks]
    /\ Unique(queueList)
    /\ \A k \in Keys : Holds(queueList, k) <=> func[k] # NoTask
    /\ \A k \in Keys : IF func[k] = NoTask THEN futures[k] = {} ELSE func[k] \in futures[k]

\* WaitsOnce, call by call.  A worker that is about to take a job has none.
WaitInv ==
    /\ pc \in [Tasks -> CallStep]
    /\ DOMAIN key = Tasks
    /\ job.futures \subseteq Tasks
    /\ step = "idle" => job.futures = {}
    /\ \A t \in Tasks : pc[t] # "new" => key[t] \in Keys
    /\ \A t \in job.futures : pc[t] = "waiting"
    /\ \A k \in Keys : \A t \in futures[k] :
           pc[t] = "waiting" /\ key[t] = k /\ t \notin job.futures
    /\ \A t \in Tasks : pc[t] = "waiting" => t \in job.futures \/ t \in futures[key[t]]

QueueInv == ListInv /\ WaitInv

\* _enqueue_internal_multi, of a key that is queued or not.
LEMMA EnqueueKeepsList ==
    ASSUME ListInv, NEW t \in Tasks, NEW k \in Keys, Enqueue(t, k)
    PROVE  ListInv'
<1>1. t # NoTask /\ t \in Tasks
  BY MaxCallsAssumption DEF Tasks, NoTask
<1>2. /\ func' \in [Keys -> Tasks \cup {NoTask}]
      /\ futures' \in [Keys -> SUBSET Tasks]
      /\ \A q \in Keys : func'[q] = (IF q = k THEN t ELSE func[q])
      /\ \A q \in Keys : futures'[q] = (IF q = k THEN futures[q] \cup {t} ELSE futures[q])
  BY DEF Enqueue, ListInv
<1>3. \A q \in Keys : IF func'[q] = NoTask THEN futures'[q] = {} ELSE func'[q] \in futures'[q]
  BY <1>1, <1>2 DEF ListInv
<1>4. CASE func[k] = NoTask
  <2>1. queueList' = Append(queueList, k) /\ ~Holds(queueList, k)
    BY <1>4 DEF Enqueue, ListInv
  <2>2. /\ queueList' \in Seq(Keys) /\ Unique(queueList')
        /\ \A x : Holds(queueList', x) <=> Holds(queueList, x) \/ x = k
    BY <2>1, AppendNew DEF ListInv
  <2>3. \A q \in Keys : Holds(queueList', q) <=> func'[q] # NoTask
    BY <1>1, <1>2, <2>2 DEF ListInv
  <2>. QED  BY <1>2, <1>3, <2>2, <2>3 DEF ListInv
<1>5. CASE func[k] # NoTask
  <2>1. queueList' = queueList
    BY <1>5 DEF Enqueue
  <2>2. \A q \in Keys : Holds(queueList, q) <=> func'[q] # NoTask
    BY <1>1, <1>2, <1>5 DEF ListInv
  <2>. QED  BY <1>2, <1>3, <2>1, <2>2 DEF ListInv
<1>. QED  BY <1>4, <1>5

\* The future of the new call waits under its key, and only there.
LEMMA EnqueueWaits ==
    ASSUME QueueInv, NEW t \in Tasks, NEW k \in Keys, Enqueue(t, k),
           pc[t] # "waiting", pc' = [pc EXCEPT ![t] = "waiting"],
           DOMAIN key' = Tasks, \A u \in Tasks : key'[u] = (IF u = t THEN k ELSE key[u]),
           UNCHANGED <<step, job>>
    PROVE  QueueInv'
<1>1. ListInv'
  BY EnqueueKeepsList DEF QueueInv
<1>2. \A q \in Keys : futures'[q] = (IF q = k THEN futures[q] \cup {t} ELSE futures[q])
  BY DEF Enqueue, QueueInv, ListInv
<1>3. /\ pc' \in [Tasks -> CallStep]
      /\ \A u \in Tasks : pc'[u] = (IF u = t THEN "waiting" ELSE pc[u])
  BY DEF QueueInv, WaitInv, CallStep
<1>4. \A q \in Keys : t \notin futures[q] /\ futures[q] \subseteq Tasks
  BY DEF QueueInv, ListInv, WaitInv
<1>5. t \notin job.futures
  BY DEF QueueInv, WaitInv
<1>6. \A q \in Keys : \A u \in futures'[q] :
          pc'[u] = "waiting" /\ key'[u] = q /\ u \notin job'.futures
  <2> SUFFICES ASSUME NEW q \in Keys, NEW u \in futures'[q]
               PROVE  pc'[u] = "waiting" /\ key'[u] = q /\ u \notin job'.futures
    OBVIOUS
  <2>1. CASE u = t
    <3>1. q = k
      BY <1>2, <1>4, <2>1
    <3>. QED  BY <1>3, <1>5, <2>1, <3>1
  <2>2. CASE u # t
    <3>1. u \in futures[q] /\ u \in Tasks
      BY <1>2, <1>4, <2>2
    <3>2. pc[u] = "waiting" /\ key[u] = q /\ u \notin job.futures
      BY <3>1 DEF QueueInv, WaitInv
    <3>. QED  BY <1>3, <2>2, <3>1, <3>2
  <2>. QED  BY <2>1, <2>2
<1>7. \A u \in Tasks : pc'[u] = "waiting" => u \in job'.futures \/ u \in futures'[key'[u]]
  <2>1. ASSUME NEW u \in Tasks, u # t, pc[u] = "waiting"
        PROVE  u \in job.futures \/ u \in futures'[key[u]]
    <3>1. key[u] \in Keys /\ (u \in job.futures \/ u \in futures[key[u]])
      BY <2>1 DEF QueueInv, WaitInv
    <3>. QED  BY <1>2, <3>1
  <2>2. t \in futures'[k]
    BY <1>2
  <2>. QED  BY <1>3, <2>1, <2>2
<1>8. \A u \in Tasks : pc'[u] # "new" => key'[u] \in Keys
  BY <1>3 DEF QueueInv, WaitInv
<1>9. \A u \in job'.futures : pc'[u] = "waiting"
  BY <1>3 DEF QueueInv, WaitInv
<1>. QED  BY <1>1, <1>3, <1>6, <1>7, <1>8, <1>9 DEF QueueInv, WaitInv

\* The worker takes the first key, with all futures that wait for it.
LEMMA TakeKeepsQueue ==
    ASSUME QueueInv, Take
    PROVE  QueueInv'
<1> DEFINE k == Head(queueList)
<1>1. /\ k \in Keys /\ queueList' \in Seq(Keys) /\ Unique(queueList')
      /\ \A x : Holds(queueList', x) <=> Holds(queueList, x) /\ x # k
  BY TailOfUnique DEF Take, QueueInv, ListInv
<1>2. /\ job'.futures = futures[k]
      /\ func' = [func EXCEPT ![k] = NoTask] /\ futures' = [futures EXCEPT ![k] = {}]
      /\ step = "idle" /\ step' = "taken" /\ UNCHANGED <<pc, key>>
  BY DEF Take, callVars
<1>. HIDE DEF k
<1>3. /\ func' \in [Keys -> Tasks \cup {NoTask}] /\ futures' \in [Keys -> SUBSET Tasks]
      /\ \A q \in Keys : func'[q] = (IF q = k THEN NoTask ELSE func[q])
      /\ \A q \in Keys : futures'[q] = (IF q = k THEN {} ELSE futures[q])
  BY <1>2 DEF QueueInv, ListInv
<1>4. ListInv'
  <2>1. \A q \in Keys : Holds(queueList', q) <=> func'[q] # NoTask
    BY <1>1, <1>3 DEF QueueInv, ListInv
  <2>2. \A q \in Keys : IF func'[q] = NoTask THEN futures'[q] = {} ELSE func'[q] \in futures'[q]
    BY <1>3 DEF QueueInv, ListInv
  <2>. QED  BY <1>1, <1>3, <2>1, <2>2 DEF ListInv
<1>5. job.futures = {}
  BY <1>2 DEF QueueInv, WaitInv
<1>6. job'.futures \subseteq Tasks
  BY <1>1, <1>2 DEF QueueInv, ListInv
<1>7. \A t \in job'.futures : pc[t] = "waiting" /\ key[t] = k
  BY <1>1, <1>2 DEF QueueInv, WaitInv
<1>8. \A q \in Keys : \A t \in futures'[q] :
          pc[t] = "waiting" /\ key[t] = q /\ t \notin job'.futures
  BY <1>3, <1>7 DEF QueueInv, WaitInv
<1>9. ASSUME NEW t \in Tasks, pc[t] = "waiting"
      PROVE  t \in job'.futures \/ t \in futures'[key[t]]
  <2>1. key[t] \in Keys /\ t \in futures[key[t]]
    BY <1>5, <1>9 DEF QueueInv, WaitInv
  <2>. QED  BY <1>2, <1>3, <2>1
<1>. QED  BY <1>2, <1>4, <1>6, <1>7, <1>8, <1>9 DEF QueueInv, WaitInv

\* However func() ends, nobody waits for its job any more.
LEMMA CallEndsOnce ==
    ASSUME QueueInv, job' = NoJob, UNCHANGED <<queueVars, key>>,
           NEW ends \in [Tasks -> {"asleep", "failed", "done"}],
           pc' = [t \in Tasks |-> IF t \in job.futures THEN ends[t] ELSE pc[t]]
    PROVE  QueueInv'
<1>1. job'.futures = {}
  BY DEF NoJob
<1>2. ListInv'
  BY DEF QueueInv, ListInv, queueVars
<1>3. pc' \in [Tasks -> CallStep]
  BY DEF QueueInv, WaitInv, CallStep
<1>4. \A t \in Tasks : pc'[t] # "new" => pc[t] # "new"
  BY DEF QueueInv, WaitInv
<1>5. \A t \in Tasks : pc'[t] = "waiting" <=> pc[t] = "waiting" /\ t \notin job.futures
  BY DEF QueueInv, WaitInv
<1>6. \A k \in Keys : futures[k] \subseteq Tasks
  BY DEF QueueInv, ListInv
<1>7. UNCHANGED <<futures, key>>
  BY DEF queueVars
<1>. QED  BY <1>1, <1>2, <1>3, <1>4, <1>5, <1>6, <1>7 DEF QueueInv, WaitInv

\* Every step keeps the queue's invariant.
LEMMA QueueStep ==
    ASSUME QueueInv, [Next]_vars
    PROVE  QueueInv'
<1>1. ASSUME NEW t \in Tasks, NEW k \in Keys, Call(t, k)  PROVE QueueInv'
  <2>1. pc[t] # "waiting"
    <3>1. t \notin 1..(t - 1)
      BY MaxCallsAssumption DEF Tasks
    <3>. QED  BY <1>1, <3>1 DEF Call, Issued
  <2>2. DOMAIN key' = Tasks /\ \A u \in Tasks : key'[u] = (IF u = t THEN k ELSE key[u])
    BY <1>1 DEF Call, QueueInv, WaitInv
  <2>. QED  BY <1>1, <2>1, <2>2, EnqueueWaits DEF Call
<1>2. ASSUME NEW t \in Tasks, Retry(t)  PROVE QueueInv'
  <2>1. pc[t] = "asleep" /\ key[t] \in Keys /\ key' = key /\ DOMAIN key = Tasks
    BY <1>2 DEF Retry, QueueInv, WaitInv
  <2>. QED  BY <1>2, <2>1, EnqueueWaits DEF Retry
<1>3. CASE Take
  BY <1>3, TakeKeepsQueue
<1>4. CASE CallReturns
  <2>1. [t \in Tasks |-> "done"] \in [Tasks -> {"asleep", "failed", "done"}]
    OBVIOUS
  <2>2. pc' = [t \in Tasks |-> IF t \in job.futures THEN [u \in Tasks |-> "done"][t] ELSE pc[t]]
    BY <1>4 DEF CallReturns
  <2>. QED  BY <1>4, <2>1, <2>2, CallEndsOnce DEF CallReturns
<1>5. ASSUME NEW error \in Errors, CallRaises(error)  PROVE QueueInv'
  <2> DEFINE again == {t \in job.futures : TriesAgain(t, error)}
             ends  == [t \in Tasks |-> IF t \in again THEN "asleep" ELSE "failed"]
  <2>1. ends \in [Tasks -> {"asleep", "failed", "done"}]
    OBVIOUS
  <2>2. pc' = [t \in Tasks |-> IF t \in again THEN "asleep"
                               ELSE IF t \in job.futures THEN "failed" ELSE pc[t]]
    BY <1>5 DEF CallRaises
  <2>3. pc' = [t \in Tasks |-> IF t \in job.futures THEN ends[t] ELSE pc[t]]
    BY <2>2
  <2>. QED  BY <1>5, <2>1, <2>3, CallEndsOnce DEF CallRaises
<1>6. CASE Acquire \/ Shutdown
  BY <1>6 DEF Acquire, Shutdown, queueVars, callVars, QueueInv, ListInv, WaitInv
<1>7. CASE Tick \/ UNCHANGED vars
  BY <1>7 DEF Tick, vars, queueVars, callVars, QueueInv, ListInv, WaitInv
<1>. QED  BY <1>1, <1>2, <1>3, <1>4, <1>5, <1>6, <1>7 DEF Next, CallEnds

\* The queue's invariant holds in every reachable state.
LEMMA QueueIsKept == Spec => []QueueInv
<1>1. Init => QueueInv
  BY DEF Init, QueueInv, ListInv, WaitInv, Unique, Holds, NoJob, CallStep
<1>2. QueueInv /\ [Next]_vars => QueueInv'
  BY QueueStep
<1>. QED  BY <1>1, <1>2, PTL DEF Spec

\* _worker: _queue_map always has the key that _queue_list pops, however the
\* calls are compacted.
THEOREM QueueMatches == Spec => []ListMatchesMap
<1>1. QueueInv => ListMatchesMap
  BY DEF QueueInv, ListInv, Unique, Holds, ListMatchesMap
<1>. QED  BY <1>1, QueueIsKept, PTL

\* enqueue, the compaction and the retries: a call waits for a future that is
\* in one place, so the worker resolves it once.
THEOREM EveryoneWaitsOnce == Spec => []WaitsOnce
<1>1. QueueInv => WaitsOnce
  BY DEF QueueInv, ListInv, WaitInv, WaitsOnce
<1>. QED  BY <1>1, QueueIsKept, PTL
-----------------------------------------------------------------------------
(***************************************************************************)
(* The types.                                                              *)
(***************************************************************************)

Jobs == [key : Keys, func : Tasks \cup {NoTask}, futures : SUBSET Tasks]

\* What TypeOK says of the variables that are not about grants or the queue.
RestInv ==
    /\ step \in WorkerStep
    /\ job \in Jobs
    /\ pausedUntil \in Nat
    /\ shutdown \in BOOLEAN
    /\ key \in [Tasks -> Keys]
    /\ forgotten \subseteq Tasks
    /\ attempt \in [Tasks -> 0..MaxRetries]
    /\ backoff \in [Tasks -> Nat]
    /\ shown \in [Keys -> Tasks \cup {NoTask}]
    /\ retried \subseteq Keys

\* A worker without a job has one of the right type all the same.
LEMMA NoJobIsJob == NoJob \in Jobs /\ AnyKey \in Keys
  BY KeysAssumption DEF NoJob, AnyKey, Jobs

\* An exception of func() counts an attempt of those who try again only.
LEMMA RaiseKeepsRest ==
    ASSUME RestInv, NEW error \in Errors, CallRaises(error)
    PROVE  RestInv'
<1> DEFINE again == {t \in job.futures : TriesAgain(t, error)}
<1>1. /\ backoff' = [t \in Tasks |-> IF t \in again THEN Delay(attempt[t]) ELSE backoff[t]]
      /\ attempt' = [t \in Tasks |-> IF t \in again THEN attempt[t] + 1 ELSE attempt[t]]
  BY DEF CallRaises
<1>2. \A t \in again : attempt[t] < MaxRetries
  BY DEF TriesAgain
<1>. HIDE DEF again
<1>3. attempt' \in [Tasks -> 0..MaxRetries]
  BY <1>1, <1>2 DEF RestInv, MaxRetries
<1>4. backoff' \in [Tasks -> Nat]
  BY <1>1 DEF RestInv, Delay
<1>5. pausedUntil' \in Nat
  BY FloodsAssumption DEF CallRaises, RestInv
<1>6. step' = "idle" /\ job' = NoJob /\ UNCHANGED <<shutdown, key, forgotten, shown, retried>>
  BY DEF CallRaises, auxVars
<1>. QED  BY <1>3, <1>4, <1>5, <1>6, NoJobIsJob DEF RestInv, WorkerStep

\* Every step keeps the types of the rest.
LEMMA RestStep ==
    ASSUME RestInv, QueueInv, [Next]_vars
    PROVE  RestInv'
<1>1. ASSUME NEW t \in Tasks, NEW k \in Keys, Call(t, k)  PROVE RestInv'
  BY <1>1 DEF Call, RestInv, auxVars
<1>2. ASSUME NEW t \in Tasks, Retry(t)  PROVE RestInv'
  BY <1>2 DEF Retry, RestInv
<1>3. CASE Take
  <2>1. Head(queueList) \in Keys
    BY <1>3, TailOfUnique DEF Take, QueueInv, ListInv
  <2>2. job' \in Jobs
    BY <1>3, <2>1 DEF Take, QueueInv, ListInv, Jobs
  <2>. QED  BY <1>3, <2>2 DEF Take, RestInv, WorkerStep, callVars, auxVars
<1>4. CASE Acquire
  BY <1>4 DEF Acquire, RestInv, WorkerStep, callVars
<1>5. CASE CallReturns
  <2>1. job.key \in Keys /\ job.func \in Tasks \cup {NoTask}
    BY DEF RestInv, Jobs
  <2>. QED  BY <1>5, <2>1, NoJobIsJob DEF CallReturns, RestInv, WorkerStep
<1>6. ASSUME NEW error \in Errors, CallRaises(error)  PROVE RestInv'
  BY <1>6, RaiseKeepsRest
<1>7. CASE Shutdown
  BY <1>7 DEF Shutdown, RestInv, WorkerStep, callVars, auxVars
<1>8. CASE Tick
  <2>1. \A n \in Nat : Passed(n) \in Nat
    BY DEF Passed
  <2>. QED  BY <1>8, <2>1 DEF Tick, RestInv
<1>9. CASE UNCHANGED vars
  BY <1>9 DEF vars, callVars, auxVars, RestInv
<1>. QED  BY <1>1, <1>2, <1>3, <1>4, <1>5, <1>6, <1>7, <1>8, <1>9 DEF Next, CallEnds

\* The types of the rest hold in every reachable state.
LEMMA RestIsKept == Spec => []RestInv
<1>1. Init => RestInv
  <2> SUFFICES ASSUME Init  PROVE RestInv
    OBVIOUS
  <2>1. job \in Jobs /\ key \in [Tasks -> Keys]
    BY NoJobIsJob DEF Init
  <2>2. attempt \in [Tasks -> 0..MaxRetries] /\ backoff \in [Tasks -> Nat]
    BY DEF Init, MaxRetries
  <2>3. step \in WorkerStep /\ pausedUntil \in Nat /\ shutdown \in BOOLEAN
    BY DEF Init, WorkerStep
  <2>4. shown \in [Keys -> Tasks \cup {NoTask}] /\ forgotten \subseteq Tasks /\ retried \subseteq Keys
    BY DEF Init
  <2>. QED  BY <2>1, <2>2, <2>3, <2>4 DEF RestInv
<1>2. RestInv /\ QueueInv /\ [Next]_vars => RestInv'
  BY RestStep
<1>. QED  BY <1>1, <1>2, QueueIsKept, PTL DEF Spec

\* MessagingRateLimiter and fire_and_forget: for any number of calls, nobody
\* tries more than max_retries times, and the worker always holds a job whose
\* key, function and futures are of calls that were made.
THEOREM TypesAreKept == Spec => []TypeOK
<1>1. GrantInv /\ QueueInv /\ RestInv => TypeOK
  BY DEF GrantInv, QueueInv, ListInv, WaitInv, RestInv, Jobs, TypeOK
<1>. QED  BY <1>1, GrantsAreKept, QueueIsKept, RestIsKept, PTL
-----------------------------------------------------------------------------
(***************************************************************************)
(* What is shown.                                                          *)
(***************************************************************************)

IsCall(t, k) == t \in Issued /\ key[t] = k
IsNewest(t, k) == IsCall(t, k) /\ \A u \in Tasks : IsCall(u, k) => u <= t

\* What is queued under a key is its newest call, unless one was tried again.
QueuedIsNewest(k) == func[k] # NoTask => \A t \in Tasks : IsCall(t, k) => t <= func[k]

\* All calls that are newer than the one the worker holds are still queued.
NewerAreQueued(k) ==
    step \in {"taken", "calling"} /\ job.key = k =>
        \A t \in Tasks : IsCall(t, k) /\ t > job.func => t \in futures[k]

\* The newest call is shown once it has succeeded.
NewestIsShown(k) ==
    \A t \in Tasks : IsNewest(t, k) /\ pc[t] = "done" => shown[k] = t

\* The worker works on a call that waits for it.
JobInv ==
    step \in {"taken", "calling"} =>
        /\ job.key \in Keys
        /\ job.func \in job.futures
        /\ \A t \in job.futures : key[t] = job.key

\* NewestShown, while the calls for the key may not have ended yet.
ShownInv ==
    /\ JobInv
    /\ \A k \in Keys \ retried : QueuedIsNewest(k) /\ NewerAreQueued(k) /\ NewestIsShown(k)

\* Who has called does not change but by a call.
LEMMA CallsStay ==
    ASSUME QueueInv, UNCHANGED key,
           \A t \in Tasks : pc'[t] = "new" <=> pc[t] = "new",
           NEW k \in Keys
    PROVE  /\ \A t \in Tasks : IsCall(t, k)' <=> IsCall(t, k)
           /\ \A t \in Tasks : IsNewest(t, k)' <=> IsNewest(t, k)
  BY DEF IsCall, IsNewest, Issued

\* A call of a key that was not tried again is the newest of its key, and of
\* no other.
LEMMA CallIsNewest ==
    ASSUME QueueInv, ShownInv, RestInv, NEW t \in Tasks, NEW k \in Keys, Call(t, k)
    PROVE  ShownInv'
<1>1. /\ pc[t] = "new" /\ pc \in [Tasks -> CallStep] /\ Tasks \subseteq Nat
      /\ \A u \in Tasks : u \in Issued <=> u < t
  <2>1. t \notin 1..(t - 1) /\ Tasks \subseteq Nat /\ \A u \in Tasks : u \in 1..(t - 1) <=> u < t
    BY MaxCallsAssumption DEF Tasks
  <2>. QED  BY <2>1 DEF Call, Issued, QueueInv, WaitInv
<1>2. /\ \A u \in Tasks : pc'[u] = (IF u = t THEN "waiting" ELSE pc[u])
      /\ \A u \in Tasks : key'[u] = (IF u = t THEN k ELSE key[u])
      /\ UNCHANGED <<step, job, shown, retried>>
  BY <1>1 DEF Call, RestInv, auxVars
<1>3. /\ \A q \in Keys : func'[q] = (IF q = k THEN t ELSE func[q])
      /\ \A q \in Keys : futures'[q] = (IF q = k THEN futures[q] \cup {t} ELSE futures[q])
  BY DEF Call, Enqueue, QueueInv, ListInv
<1>4. \A u \in Tasks, q \in Keys : IsCall(u, q)' <=> IsCall(u, q) \/ (u = t /\ q = k)
  BY <1>1, <1>2 DEF IsCall, Issued
<1>5. JobInv'
  <2>1. t \notin job.futures /\ job.futures \subseteq Tasks
    BY <1>1 DEF QueueInv, WaitInv
  <2>. QED  BY <1>2, <2>1 DEF ShownInv, JobInv
<1>6. ASSUME NEW q \in Keys \ retried
      PROVE  QueuedIsNewest(q)' /\ NewerAreQueued(q)' /\ NewestIsShown(q)'
  <2>1. QueuedIsNewest(q) /\ NewerAreQueued(q) /\ NewestIsShown(q)
    BY <1>6 DEF ShownInv
  <2>2. CASE q = k
    <3>1. \A u \in Tasks : IsCall(u, q)' => u <= t
      BY <1>1, <1>4 DEF IsCall
    <3>2. QueuedIsNewest(q)'
      BY <1>3, <2>2, <3>1 DEF QueuedIsNewest
    <3>3. NewerAreQueued(q)'
      BY <1>2, <1>3, <1>4, <2>1, <2>2 DEF NewerAreQueued
    <3>4. ASSUME NEW u \in Tasks, IsNewest(u, q)'  PROVE u = t
      <4>1. t <= u /\ u <= t
        BY <1>4, <2>2, <3>1, <3>4 DEF IsNewest
      <4>. QED  BY <1>1, <4>1
    <3>5. NewestIsShown(q)'
      BY <1>2, <3>4 DEF NewestIsShown
    <3>. QED  BY <3>2, <3>3, <3>5
  <2>3. CASE q # k
    <3>1. \A u \in Tasks : IsCall(u, q)' <=> IsCall(u, q)
      BY <1>4, <2>3
    <3>2. \A u \in Tasks : IsNewest(u, q)' <=> IsNewest(u, q)
      BY <3>1 DEF IsNewest
    <3>3. QueuedIsNewest(q)'
      BY <1>3, <2>1, <2>3, <3>1 DEF QueuedIsNewest
    <3>4. NewerAreQueued(q)'
      BY <1>2, <1>3, <2>1, <2>3, <3>1 DEF NewerAreQueued
    <3>5. NewestIsShown(q)'
      BY <1>2, <2>1, <3>2 DEF NewestIsShown
    <3>. QED  BY <3>3, <3>4, <3>5
  <2>. QED  BY <2>2, <2>3
<1>. QED  BY <1>2, <1>5, <1>6 DEF ShownInv

\* A call that is tried again matters to its own key only.
LEMMA RetryOfOthers ==
    ASSUME QueueInv, ShownInv, RestInv, NEW t \in Tasks, Retry(t)
    PROVE  ShownInv'
<1>1. /\ key[t] \in Keys /\ pc[t] = "asleep" /\ pc \in [Tasks -> CallStep]
      /\ \A u \in Tasks : pc'[u] = (IF u = t THEN "waiting" ELSE pc[u])
      /\ UNCHANGED <<step, job, key, shown>> /\ retried' = retried \cup {key[t]}
  BY DEF Retry, RestInv, QueueInv, WaitInv
<1>2. \A q \in Keys : q # key[t] => func'[q] = func[q] /\ futures'[q] = futures[q]
  BY <1>1 DEF Retry, Enqueue, QueueInv, ListInv
<1>3. \A q \in Keys : /\ \A u \in Tasks : IsCall(u, q)' <=> IsCall(u, q)
                     /\ \A u \in Tasks : IsNewest(u, q)' <=> IsNewest(u, q)
  BY <1>1, CallsStay
<1>4. JobInv'
  BY <1>1 DEF ShownInv, JobInv
<1>5. ASSUME NEW q \in Keys \ retried'
      PROVE  QueuedIsNewest(q)' /\ NewerAreQueued(q)' /\ NewestIsShown(q)'
  <2>1. q \in Keys \ retried /\ q # key[t]
    BY <1>1
  <2>2. QueuedIsNewest(q) /\ NewerAreQueued(q) /\ NewestIsShown(q)
    BY <2>1 DEF ShownInv
  <2>3. QueuedIsNewest(q)'
    BY <1>2, <1>3, <2>1, <2>2 DEF QueuedIsNewest
  <2>4. NewerAreQueued(q)'
    BY <1>1, <1>2, <1>3, <2>1, <2>2 DEF NewerAreQueued
  <2>5. NewestIsShown(q)'
    BY <1>1, <1>3, <2>1, <2>2 DEF NewestIsShown
  <2>. QED  BY <2>3, <2>4, <2>5
<1>. QED  BY <1>4, <1>5 DEF ShownInv

\* What is taken was the newest, so nothing newer has been passed over.
LEMMA TakeOfNewest ==
    ASSUME QueueInv, ShownInv, RestInv, Take
    PROVE  ShownInv'
<1> DEFINE k == Head(queueList)
<1>1. k \in Keys /\ Holds(queueList, k)
  <2>1. queueList \in Seq(Keys) /\ queueList # <<>>
    BY DEF Take, QueueInv, ListInv
  <2>2. k \in Keys /\ 1 \in DOMAIN queueList /\ queueList[1] = k
    BY <2>1
  <2>. QED  BY <2>2 DEF Holds
<1>2. /\ job'.key = k /\ job'.func = func[k] /\ job'.futures = futures[k] /\ step' = "taken"
      /\ func' = [func EXCEPT ![k] = NoTask] /\ futures' = [futures EXCEPT ![k] = {}]
      /\ UNCHANGED <<pc, key, shown, retried>>
  BY DEF Take, callVars, auxVars
<1>. HIDE DEF k
<1>3. func[k] # NoTask /\ func[k] \in futures[k] /\ \A t \in futures[k] : key[t] = k
  BY <1>1 DEF QueueInv, ListInv, WaitInv
<1>4. /\ \A q \in Keys : func'[q] = (IF q = k THEN NoTask ELSE func[q])
      /\ \A q \in Keys : futures'[q] = (IF q = k THEN {} ELSE futures[q])
  BY <1>2 DEF QueueInv, ListInv
<1>5. \A q \in Keys : /\ \A u \in Tasks : IsCall(u, q)' <=> IsCall(u, q)
                     /\ \A u \in Tasks : IsNewest(u, q)' <=> IsNewest(u, q)
  BY <1>2, CallsStay
<1>6. JobInv'
  BY <1>1, <1>2, <1>3 DEF JobInv
<1>7. ASSUME NEW q \in Keys \ retried
      PROVE  QueuedIsNewest(q)' /\ NewerAreQueued(q)' /\ NewestIsShown(q)'
  <2>1. QueuedIsNewest(q) /\ NewestIsShown(q)
    BY <1>7 DEF ShownInv
  <2>2. QueuedIsNewest(q)'
    BY <1>4, <1>5, <2>1 DEF QueuedIsNewest
  <2>3. ASSUME q = k, NEW t \in Tasks, IsCall(t, q), t > func[k]  PROVE FALSE
    <3>1. t <= func[k]
      BY <1>3, <2>1, <2>3 DEF QueuedIsNewest
    <3>2. func[k] \in Nat /\ t \in Nat
      BY <1>1, MaxCallsAssumption DEF QueueInv, ListInv, Tasks, NoTask
    <3>. QED  BY <2>3, <3>1, <3>2
  <2>4. NewerAreQueued(q)'
    BY <1>2, <1>5, <2>3 DEF NewerAreQueued
  <2>5. NewestIsShown(q)'
    BY <1>2, <1>5, <2>1 DEF NewestIsShown
  <2>. QED  BY <2>2, <2>4, <2>5
<1>. QED  BY <1>2, <1>6, <1>7 DEF ShownInv

\* When the newest call succeeds it is the one that the worker holds, and
\* when another succeeds the newest has not ended yet.
LEMMA ReturnShowsNewest ==
    ASSUME QueueInv, ShownInv, RestInv, CallReturns
    PROVE  ShownInv'
<1>1. /\ step = "calling" /\ step' = "idle" /\ UNCHANGED <<func, futures, key, retried>>
      /\ \A t \in Tasks : pc'[t] = (IF t \in job.futures THEN "done" ELSE pc[t])
  BY DEF CallReturns, queueVars
<1>2. /\ job.key \in Keys /\ job.func \in job.futures /\ job.futures \subseteq Tasks
      /\ \A t \in job.futures : key[t] = job.key /\ pc[t] = "waiting"
      /\ Tasks \subseteq Nat
  BY <1>1, MaxCallsAssumption DEF QueueInv, WaitInv, ShownInv, JobInv, Tasks
<1>3. \A q \in Keys : shown'[q] = IF q = job.key THEN job.func ELSE shown[q]
  BY DEF CallReturns, RestInv
<1>4. \A q \in Keys : /\ \A u \in Tasks : IsCall(u, q)' <=> IsCall(u, q)
                     /\ \A u \in Tasks : IsNewest(u, q)' <=> IsNewest(u, q)
  BY <1>1, <1>2, CallsStay
<1>5. IsCall(job.func, job.key)
  BY <1>2 DEF IsCall, Issued
<1>6. ASSUME NEW q \in Keys \ retried
      PROVE  QueuedIsNewest(q)' /\ NewerAreQueued(q)' /\ NewestIsShown(q)'
  <2>1. QueuedIsNewest(q) /\ NewerAreQueued(q) /\ NewestIsShown(q)
    BY <1>6 DEF ShownInv
  <2>2. QueuedIsNewest(q)' /\ NewerAreQueued(q)'
    BY <1>1, <1>4, <2>1 DEF QueuedIsNewest, NewerAreQueued
  <2>3. ASSUME NEW t \in Tasks, IsNewest(t, q), pc'[t] = "done"  PROVE shown'[q] = t
    <3>1. ASSUME q = job.key  PROVE ~(t > job.func)
      <4> SUFFICES ASSUME t > job.func  PROVE FALSE
        OBVIOUS
      <4>1. t \in futures[q]
        BY <1>1, <2>1, <2>3, <3>1 DEF NewerAreQueued, IsNewest
      <4>2. pc[t] = "waiting" /\ t \notin job.futures
        BY <4>1 DEF QueueInv, WaitInv
      <4>. QED  BY <1>1, <2>3, <4>2
    <3>2. ASSUME q = job.key  PROVE t = job.func
      <4>1. job.func <= t
        BY <1>2, <1>5, <2>3, <3>2 DEF IsNewest
      <4>. QED  BY <1>2, <3>1, <3>2, <4>1
    <3>3. ASSUME q # job.key  PROVE shown[q] = t
      <4>1. t \notin job.futures
        BY <1>2, <2>3, <3>3 DEF IsNewest, IsCall
      <4>. QED  BY <1>1, <2>1, <2>3, <4>1 DEF NewestIsShown
    <3>. QED  BY <1>3, <3>2, <3>3
  <2>4. NewestIsShown(q)'
    BY <1>4, <2>3 DEF NewestIsShown
  <2>. QED  BY <2>2, <2>4
<1>7. JobInv'
  BY <1>1 DEF JobInv
<1>. QED  BY <1>1, <1>6, <1>7 DEF ShownInv

\* Nothing is shown and nothing succeeds when func() raises.
LEMMA RaiseShowsNothing ==
    ASSUME QueueInv, ShownInv, RestInv, NEW error \in Errors, CallRaises(error)
    PROVE  ShownInv'
<1>1. /\ step' = "idle" /\ UNCHANGED <<func, futures, key, shown, retried>>
      /\ \A t \in Tasks : \/ t \in job.futures /\ pc'[t] \in {"asleep", "failed"}
                         \/ pc'[t] = pc[t]
  BY DEF CallRaises, queueVars, auxVars
<1>2. \A t \in Tasks : pc'[t] = "done" => pc[t] = "done"
  BY <1>1 DEF QueueInv, WaitInv
<1>3. UNCHANGED key /\ \A t \in Tasks : pc'[t] = "new" <=> pc[t] = "new"
  BY <1>1 DEF QueueInv, WaitInv
<1>4. \A q \in Keys : /\ \A u \in Tasks : IsCall(u, q)' <=> IsCall(u, q)
                     /\ \A u \in Tasks : IsNewest(u, q)' <=> IsNewest(u, q)
  BY <1>3, CallsStay
<1>5. ASSUME NEW q \in Keys \ retried
      PROVE  QueuedIsNewest(q)' /\ NewerAreQueued(q)' /\ NewestIsShown(q)'
  BY <1>1, <1>2, <1>4 DEF ShownInv, QueuedIsNewest, NewerAreQueued, NewestIsShown
<1>6. JobInv'
  BY <1>1 DEF JobInv
<1>. QED  BY <1>1, <1>5, <1>6 DEF ShownInv

\* Every other step leaves calls, queue and what is shown alone.
LEMMA NothingShown ==
    ASSUME QueueInv, ShownInv, UNCHANGED <<func, futures, job, pc, key, shown, retried>>,
           step' \in {"taken", "calling"} => step \in {"taken", "calling"}
    PROVE  ShownInv'
<1>1. \A q \in Keys : /\ \A u \in Tasks : IsCall(u, q)' <=> IsCall(u, q)
                     /\ \A u \in Tasks : IsNewest(u, q)' <=> IsNewest(u, q)
  BY CallsStay
<1>2. JobInv'
  BY DEF ShownInv, JobInv
<1>3. ASSUME NEW q \in Keys \ retried
      PROVE  QueuedIsNewest(q)' /\ NewerAreQueued(q)' /\ NewestIsShown(q)'
  BY <1>1 DEF ShownInv, QueuedIsNewest, NewerAreQueued, NewestIsShown
<1>. QED  BY <1>2, <1>3 DEF ShownInv

\* Every step keeps what is known of what is shown.
LEMMA ShownStep ==
    ASSUME QueueInv, RestInv, ShownInv, [Next]_vars
    PROVE  ShownInv'
<1>1. CASE Acquire
  BY <1>1, NothingShown DEF Acquire, queueVars, callVars
<1>2. CASE Shutdown
  BY <1>2, NothingShown DEF Shutdown, queueVars, callVars, auxVars
<1>3. CASE Tick
  BY <1>3, NothingShown DEF Tick, queueVars
<1>4. CASE UNCHANGED vars
  BY <1>4, NothingShown DEF vars, queueVars, callVars, auxVars
<1>. QED
  BY <1>1, <1>2, <1>3, <1>4, CallIsNewest, RetryOfOthers, TakeOfNewest, ReturnShowsNewest,
     RaiseShowsNothing DEF Next, CallEnds

\* Some call for a key is the newest, as calls are numbered up to MaxCalls.
LEMMA LargestCall ==
    ASSUME NEW S \in SUBSET Tasks, S # {}
    PROVE  \E t \in S : \A u \in S : u <= t
<1> DEFINE Below == {MaxCalls - t : t \in S}
<1>1. S \subseteq Nat /\ \A t \in S : MaxCalls - t \in Nat
  BY MaxCallsAssumption DEF Tasks
<1>2. Below \in SUBSET Nat /\ Below # {}
  BY <1>1
<1>3. PICK m \in Below : \A n \in Below : m <= n
  BY <1>2, LeastElement
<1>4. PICK t \in S : m = MaxCalls - t
  BY <1>3
<1>5. \A u \in S : MaxCalls - t <= MaxCalls - u
  BY <1>3, <1>4
<1>. QED  BY <1>1, <1>4, <1>5, MaxCallsAssumption

\* The queue keeps the newest version of a message, whatever is compacted,
\* fails or pauses: when all calls for a key have ended and the newest has
\* succeeded, it is shown, as long as no call for the key was tried again.
THEOREM NewestIsKept == Spec => []NewestShown
<1>1. Init => ShownInv
  BY DEF Init, ShownInv, JobInv, QueuedIsNewest, NewerAreQueued, NewestIsShown, IsNewest,
         IsCall, Issued
<1>2. QueueInv /\ RestInv /\ ShownInv /\ [Next]_vars => ShownInv'
  BY ShownStep
<1>3. ShownInv => NewestShown
  <2> SUFFICES ASSUME ShownInv, NEW k \in Keys \ retried, Settled(k),
                      \E t \in Issued : key[t] = k, pc[Newest(k)] = "done"
               PROVE  shown[k] = Newest(k)
    BY DEF NewestShown
  <2> DEFINE Calls == {t \in Issued : key[t] = k}
  <2>1. Newest(k) \in Issued /\ IsNewest(Newest(k), k)
    <3>1. \E t \in Issued : key[t] = k /\ \A u \in Issued : key[u] = k => u <= t
      <4>1. Calls \in SUBSET Tasks /\ Calls # {}
        BY DEF Issued
      <4>2. PICK t \in Calls : \A u \in Calls : u <= t
        BY <4>1, LargestCall
      <4>. QED  BY <4>2
    <3>2. /\ Newest(k) \in Issued /\ key[Newest(k)] = k
          /\ \A u \in Issued : key[u] = k => u <= Newest(k)
      BY <3>1 DEF Newest
    <3>. QED  BY <3>2 DEF IsNewest, IsCall
  <2>2. Newest(k) \in Tasks /\ NewestIsShown(k)
    BY <2>1 DEF Issued, ShownInv
  <2>. QED  BY <2>1, <2>2 DEF NewestIsShown
<1>. QED  BY <1>1, <1>2, <1>3, QueueIsKept, RestIsKept, PTL DEF Spec
=============================================================================

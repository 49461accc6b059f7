----------------------- MODULE ProviderLimiterProofs -----------------------
(***************************************************************************)
(* Theorems about ProviderLimiter, for any set of requests, any limits and *)
(* any delays.                                                             *)
(***************************************************************************)
EXTENDS ProviderLimiter, FiniteSetTheorems, SequenceTheorems, WellFoundedInduction,
        TLAPS

-----------------------------------------------------------------------------
(***************************************************************************)
(* The operators of SlidingWindow, of which MessagingLimiterProofs         *)
(* proves the same.                                                        *)
(***************************************************************************)

\* A set of natural numbers that is not empty has a least element.
LEMMA LeastElement ==
    ASSUME NEW S \in SUBSET Nat, S # {}
    PROVE  \E m \in S : \A k \in S : m <= k
<1> DEFINE R == OpToRel(<, Nat)
<1>1. IsWellFoundedOn(R, Nat)
  BY NatLessThanWellFounded
<1>2. \A x, y \in Nat : <<x, y>> \in R <=> x < y
  BY DEF OpToRel
<1> HIDE DEF R
<1>3. \E x \in S : \A y \in S : ~(<<y, x>> \in R)
  BY <1>1, WFMin
<1>4. PICK x \in S : \A y \in S : ~(<<y, x>> \in R)
  BY <1>3
<1>5. \A y \in S : ~(y < x)
  BY <1>2, <1>4
<1>6. \A y \in S : x <= y
  BY <1>5
<1>. QED  BY <1>6

\* The loop of popleft stops at the first grant that is still in the window.
LEMMA ExpiredStops ==
    ASSUME NEW ages \in Seq(Age)
    PROVE  /\ Expired(ages) \in 0..Len(ages)
           /\ \A i \in 1..Expired(ages) : ages[i] = Window
           /\ Expired(ages) < Len(ages) => ages[Expired(ages) + 1] # Window
<1> DEFINE Young == {i \in 1..Len(ages) : ages[i] # Window}
           Stops(n) == /\ \A i \in 1..n : ages[i] = Window
                       /\ n < Len(ages) => ages[n + 1] # Window
<1>1. Len(ages) \in Nat
  OBVIOUS
<1>2. \E n \in 0..Len(ages) : Stops(n)
  <2>1. CASE Young = {}
    <3>1. Len(ages) \in 0..Len(ages) /\ Stops(Len(ages))
      BY <1>1, <2>1
    <3>. QED  BY <3>1
  <2>2. CASE Young # {}
    <3>1. Young \in SUBSET Nat
      BY <1>1
    <3>2. PICK m \in Young : \A k \in Young : m <= k
      BY <2>2, <3>1, LeastElement
    <3>3. m - 1 \in 0..Len(ages) /\ ages[(m - 1) + 1] # Window
      BY <1>1, <3>2
    <3>4. ASSUME NEW i \in 1..(m - 1)  PROVE ages[i] = Window
      <4>1. i \in 1..Len(ages) /\ ~(m <= i)
        BY <1>1, <3>2
      <4>. QED  BY <3>2, <4>1
    <3>. QED  BY <3>3, <3>4
  <2>. QED  BY <2>1, <2>2
<1>. QED  BY <1>2 DEF Expired

\* What is left after the loop, counted from the end.
LEMMA UnexpiredSuffix ==
    ASSUME NEW ages \in Seq(Age)
    PROVE  /\ Unexpired(ages) \in Seq(Age)
           /\ Len(Unexpired(ages)) = Len(ages) - Expired(ages)
           /\ \A i \in 1..Len(Unexpired(ages)) : Unexpired(ages)[i] = ages[Expired(ages) + i]
<1> DEFINE n == Expired(ages)
<1>1. n \in 0..Len(ages) /\ Len(ages) \in Nat
  BY ExpiredStops
<1> HIDE DEF n
<1>2. Unexpired(ages) = SubSeq(ages, n + 1, Len(ages))
  BY DEF Unexpired, n
<1>3. /\ SubSeq(ages, n + 1, Len(ages)) \in Seq(Age)
      /\ Len(SubSeq(ages, n + 1, Len(ages))) = Len(ages) - n
      /\ \A i \in 1..(Len(ages) - n) : SubSeq(ages, n + 1, Len(ages))[i] = ages[n + i]
  BY <1>1
<1>. QED  BY <1>2, <1>3 DEF n

\* At first.
LEMMA WindowInit == LatestGrants(<<>>, <<>>) /\ WithinLimit(<<>>)
  BY DEF LatestGrants, WithinLimit

\* While time passes.
LEMMA WindowTick ==
    ASSUME NEW kept \in Seq(Age), NEW given \in Seq(Age),
           LatestGrants(kept, given), WithinLimit(given)
    PROVE  /\ Older(kept) \in Seq(Age) /\ Older(given) \in Seq(Age)
           /\ LatestGrants(Older(kept), Older(given))
           /\ WithinLimit(Older(given))
<1> USE WindowAssumption
<1>1. ASSUME NEW ages \in Seq(Age)
      PROVE  /\ Older(ages) \in Seq(Age)
             /\ Len(Older(ages)) = Len(ages)
             /\ \A i \in 1..Len(ages) :
                   Older(ages)[i] = IF ages[i] < Window THEN ages[i] + 1 ELSE Window
  <2>1. \A i \in DOMAIN ages : (IF ages[i] < Window THEN ages[i] + 1 ELSE Window) \in Age
    BY DEF Age
  <2>2. Older(ages) \in [1..Len(ages) -> Age]
    BY <2>1 DEF Older
  <2>. QED  BY <2>2 DEF Older
<1>2. LatestGrants(Older(kept), Older(given))
  <2>1. Len(kept) \in Nat /\ Len(given) \in Nat
    OBVIOUS
  <2>2. \A i \in 1..Len(kept) : Older(kept)[i] = Older(given)[Len(given) - Len(kept) + i]
    <3>1. ASSUME NEW i \in 1..Len(kept)
          PROVE  Older(kept)[i] = Older(given)[Len(given) - Len(kept) + i]
      <4>1. /\ Len(given) - Len(kept) + i \in 1..Len(given)
            /\ kept[i] = given[Len(given) - Len(kept) + i]
        BY <2>1 DEF LatestGrants
      <4>. QED  BY <1>1, <4>1
    <3>. QED  BY <3>1
  <2>3. \A i \in 1..(Len(given) - Len(kept)) : Older(given)[i] = Window
    BY <1>1, <2>1 DEF LatestGrants
  <2>. QED  BY <1>1, <2>1, <2>2, <2>3 DEF LatestGrants
<1>3. WithinLimit(Older(given))
  <2>1. \A i \in 1..Len(given) : i + RateLimit <= Len(given) => Older(given)[i] = Window
    BY <1>1 DEF WithinLimit
  <2>. QED  BY <1>1, <2>1 DEF WithinLimit
<1>. QED  BY <1>1, <1>2, <1>3

\* When a caller gets a slot: its grant is one more of the latest, and there
\* were fewer than RateLimit of them in the window.
LEMMA WindowGrant ==
    ASSUME NEW kept \in Seq(Age), NEW given \in Seq(Age),
           LatestGrants(kept, given), HasRoom(kept)
    PROVE  /\ WithGrant(kept) \in Seq(Age) /\ Append(given, 0) \in Seq(Age)
           /\ LatestGrants(WithGrant(kept), Append(given, 0))
           /\ WithinLimit(Append(given, 0))
<1> DEFINE rest == Unexpired(kept)
           n    == Expired(kept)
<1>1. 0 \in Age /\ RateLimit \in Nat
  BY WindowAssumption DEF Age
<1>2. /\ rest \in Seq(Age)
      /\ n \in 0..Len(kept)
      /\ Len(rest) = Len(kept) - n
      /\ \A i \in 1..Len(rest) : rest[i] = kept[n + i]
      /\ \A i \in 1..n : kept[i] = Window
  BY ExpiredStops, UnexpiredSuffix
<1>3. Len(rest) < RateLimit /\ WithGrant(kept) = Append(rest, 0)
  BY DEF HasRoom, WithGrant
<1> HIDE DEF rest, n
<1> DEFINE before == Len(given) - Len(rest)
<1>4. /\ Len(kept) \in Nat /\ Len(given) \in Nat /\ Len(rest) \in Nat /\ n \in Nat
      /\ Len(kept) <= Len(given)
      /\ before = (Len(given) - Len(kept)) + n
  BY <1>2 DEF LatestGrants
<1>5. \A i \in 1..Len(rest) : rest[i] = given[before + i]
  <2>1. ASSUME NEW i \in 1..Len(rest)  PROVE rest[i] = given[before + i]
    <3>1. n + i \in 1..Len(kept) /\ rest[i] = kept[n + i]
      BY <1>2, <1>4
    <3>2. kept[n + i] = given[(Len(given) - Len(kept)) + (n + i)]
      BY <3>1 DEF LatestGrants
    <3>. QED  BY <1>4, <3>1, <3>2
  <2>. QED  BY <2>1
<1>6. \A i \in 1..before : given[i] = Window
  <2>1. ASSUME NEW i \in 1..before  PROVE given[i] = Window
    <3>1. CASE i <= Len(given) - Len(kept)
      BY <1>4, <3>1 DEF LatestGrants
    <3>2. CASE i > Len(given) - Len(kept)
      <4> DEFINE j == i - (Len(given) - Len(kept))
      <4>1. j \in 1..n /\ j \in 1..Len(kept) /\ (Len(given) - Len(kept)) + j = i
        BY <1>2, <1>4, <3>2
      <4>2. kept[j] = given[(Len(given) - Len(kept)) + j]
        BY <4>1 DEF LatestGrants
      <4>. QED  BY <1>2, <4>1, <4>2
    <3>. QED  BY <1>4, <3>1, <3>2
  <2>. QED  BY <2>1
<1>7. /\ Append(rest, 0) \in Seq(Age) /\ Append(given, 0) \in Seq(Age)
      /\ Len(Append(rest, 0)) = Len(rest) + 1
      /\ Len(Append(given, 0)) = Len(given) + 1
      /\ \A i \in 1..Len(rest) : Append(rest, 0)[i] = rest[i]
      /\ \A i \in 1..Len(given) : Append(given, 0)[i] = given[i]
      /\ Append(rest, 0)[Len(rest) + 1] = 0
      /\ Append(given, 0)[Len(given) + 1] = 0
  BY <1>1, <1>2
<1> DEFINE newTimes == Append(rest, 0)
           newGranted == Append(given, 0)
<1> HIDE DEF newTimes, newGranted
<1>8. LatestGrants(newTimes, newGranted)
  <2>1. Len(newGranted) - Len(newTimes) = before /\ Len(newTimes) <= Len(newGranted)
    <3>1. Len(newTimes) = Len(rest) + 1 /\ Len(newGranted) = Len(given) + 1
      BY <1>7 DEF newTimes, newGranted
    <3>2. Len(rest) <= Len(given)
      BY <1>2, <1>4
    <3>. QED  BY <1>4, <3>1, <3>2
  <2>2. ASSUME NEW i \in 1..Len(newTimes)  PROVE newTimes[i] = newGranted[before + i]
    <3>1. CASE i \in 1..Len(rest)
      <4>1. before + i \in 1..Len(given)
        BY <1>2, <1>4, <3>1
      <4>. QED  BY <1>5, <1>7, <3>1, <4>1 DEF newTimes, newGranted
    <3>2. CASE i = Len(rest) + 1
      <4>1. before + i = Len(given) + 1
        BY <1>4, <3>2
      <4>. QED  BY <1>7, <3>2, <4>1 DEF newTimes, newGranted
    <3>. QED  BY <1>4, <1>7, <3>1, <3>2 DEF newTimes
  <2>3. ASSUME NEW i \in 1..before  PROVE newGranted[i] = Window
    <3>1. i \in 1..Len(given)
      BY <1>2, <1>4
    <3>. QED  BY <1>6, <1>7, <3>1 DEF newGranted
  <2>. QED  BY <2>1, <2>2, <2>3 DEF LatestGrants
<1>9. WithinLimit(newGranted)
  <2>1. ASSUME NEW i \in DOMAIN newGranted, i + RateLimit <= Len(newGranted)
        PROVE  newGranted[i] = Window
    <3>1. i \in 1..before /\ i \in 1..Len(given)
      BY <1>1, <1>2, <1>3, <1>4, <1>7, <2>1 DEF newGranted
    <3>. QED  BY <1>6, <1>7, <3>1 DEF newGranted
  <2>. QED  BY <2>1 DEF WithinLimit
<1>. QED  BY <1>3, <1>7, <1>8, <1>9 DEF newTimes, newGranted
-----------------------------------------------------------------------------
(***************************************************************************)
(* The window.                                                             *)
(***************************************************************************)

GrantInv ==
    /\ times \in Seq(Age)
    /\ granted \in Seq(Age)
    /\ LatestGrants(times, granted)
    /\ WithinLimit(granted)

\* Every step leaves the grants alone, adds one where there is room, or lets
\* them age.
LEMMA GrantCases ==
    ASSUME [Next]_vars
    PROVE  \/ UNCHANGED <<times, granted>>
           \/ /\ HasRoom(times)
              /\ times' = WithGrant(times)
              /\ granted' = Append(granted, 0)
           \/ /\ times' = Older(times)
              /\ granted' = Older(granted)
<1>1. ASSUME NEW r \in Requests, Enter(r) \/ Proceeds(r)
      PROVE  \/ UNCHANGED <<times, granted>>
             \/ HasRoom(times) /\ times' = WithGrant(times) /\ granted' = Append(granted, 0)
  BY <1>1 DEF Enter, Proceeds, Attempt, TakeGrant, WaitIfBlocked, TryWindow
<1>2. ASSUME NEW r \in Requests, Answered(r) \/ Cancel(r)
      PROVE  UNCHANGED <<times, granted>>
  BY <1>2 DEF Answered, CallReturns, RateLimited, Raises, Leave, Cancel
<1>3. CASE Tick
  BY <1>3 DEF Tick
<1>4. CASE UNCHANGED vars
  BY <1>4 DEF vars
<1>. QED  BY <1>1, <1>2, <1>3, <1>4 DEF Next

\* The grants are as they should be in every reachable state.
LEMMA GrantsAreKept == Spec => []GrantInv
<1>1. Init => GrantInv
  BY WindowInit DEF Init, GrantInv
<1>2. GrantInv /\ [Next]_vars => GrantInv'
  <2> SUFFICES ASSUME GrantInv, [Next]_vars  PROVE GrantInv'
    OBVIOUS
  <2>1. CASE UNCHANGED <<times, granted>>
    BY <2>1 DEF GrantInv
  <2>2. CASE HasRoom(times) /\ times' = WithGrant(times) /\ granted' = Append(granted, 0)
    BY <2>2, WindowGrant DEF GrantInv
  <2>3. CASE times' = Older(times) /\ granted' = Older(granted)
    BY <2>3, WindowTick DEF GrantInv
  <2>. QED  BY <2>1, <2>2, <2>3, GrantCases
<1>. QED  BY <1>1, <1>2, PTL DEF Spec

\* _acquire_proactive_slot keeps the window for every limit and window.
THEOREM WindowIsKept == Spec => []WindowHolds
<1>1. GrantInv => WindowHolds
  BY DEF GrantInv, WindowHolds
<1>. QED  BY <1>1, GrantsAreKept, PTL
-----------------------------------------------------------------------------
(***************************************************************************)
(* The block.                                                              *)
(***************************************************************************)

\* What a request knows of a block that was not set again since it looked.
BlockInv ==
    /\ pc \in [Requests -> RequestStep]
    /\ DOMAIN sleep = Requests
    /\ informed \subseteq Requests
    /\ \A r \in informed : /\ pc[r] = "held" => sleep[r] = blocked
                           /\ pc[r] = "window" => blocked = 0

\* What a step of wait_if_blocked leaves behind.
LEMMA LookedAtBlock ==
    ASSUME BlockInv, NEW r \in Requests, WaitIfBlocked(r), UNCHANGED blocked
    PROVE  BlockInv'
<1>1. CASE blocked > 0
  BY <1>1 DEF WaitIfBlocked, BlockInv, RequestStep
<1>2. CASE blocked = 0
  BY <1>2 DEF WaitIfBlocked, TryWindow, BlockInv, RequestStep
<1>. QED  BY <1>1, <1>2 DEF WaitIfBlocked

\* A request that leaves moves nobody into held or window.
LEMMA ReleaseMoves ==
    ASSUME NEW r \in Requests, Release(r), pc \in [Requests -> RequestStep]
    PROVE  /\ pc' \in [Requests -> RequestStep]
           /\ \A q \in Requests : pc'[q] \in {pc[q], "done", "admitted"}
  BY DEF Release, RequestStep

\* Every step keeps what requests know of the block.
LEMMA BlockStep ==
    ASSUME BlockInv, [Next]_vars
    PROVE  BlockInv'
<1>1. ASSUME NEW r \in Requests, Enter(r)  PROVE BlockInv'
  <2>1. CASE WaitIfBlocked(r)
    BY <1>1, <2>1, LookedAtBlock DEF Enter
  <2>2. CASE pc' = [pc EXCEPT ![r] = "line"] /\ UNCHANGED <<sleep, informed>>
    BY <1>1, <2>2 DEF Enter, BlockInv, RequestStep
  <2>. QED  BY <1>1, <2>1, <2>2 DEF Enter
<1>2. ASSUME NEW r \in Requests, Attempt(r)  PROVE BlockInv'
  BY <1>2, LookedAtBlock DEF Attempt
<1>3. ASSUME NEW r \in Requests, TakeGrant(r)  PROVE BlockInv'
  <2>1. UNCHANGED <<sleep, blocked, informed>>
    BY <1>3 DEF TakeGrant
  <2>2. pc' = [pc EXCEPT ![r] = "calling"] \/ pc' = [pc EXCEPT ![r] = "window"]
    BY <1>3 DEF TakeGrant, TryWindow
  <2>3. r \in informed => blocked = 0
    BY <1>3 DEF TakeGrant, BlockInv
  <2>. QED  BY <2>1, <2>2, <2>3 DEF BlockInv, RequestStep
<1>4. ASSUME NEW r \in Requests, CallReturns(r)  PROVE BlockInv'
  BY <1>4 DEF CallReturns, BlockInv, RequestStep
<1>5. ASSUME NEW r \in Requests, RateLimited(r)  PROVE BlockInv'
  <2>1. PICK delay : sleep' = [sleep EXCEPT ![r] = delay]
    BY <1>5 DEF RateLimited
  <2>. QED  BY <1>5, <2>1 DEF RateLimited, SetBlocked, BlockInv, RequestStep
<1>6. ASSUME NEW r \in Requests, Raises(r)  PROVE BlockInv'
  <2>1. pc' = [pc EXCEPT ![r] = "closing"] /\ UNCHANGED sleep
    BY <1>6 DEF Raises
  <2>2. UNCHANGED <<blocked, informed>> \/ informed' = {}
    BY <1>6 DEF Raises, SetBlocked
  <2>. QED  BY <2>1, <2>2 DEF BlockInv, RequestStep
<1>7. ASSUME NEW r \in Requests, Leave(r) \/ Cancel(r)  PROVE BlockInv'
  <2>1. UNCHANGED <<sleep, blocked, informed>>
    BY <1>7 DEF Leave, Cancel
  <2>2. CASE Release(r)
    BY <2>1, <2>2, ReleaseMoves DEF BlockInv
  <2>3. CASE pc' = [pc EXCEPT ![r] = "done"]
    BY <2>1, <2>3 DEF BlockInv, RequestStep
  <2>. QED  BY <1>7, <2>2, <2>3 DEF Leave, Cancel
<1>8. CASE Tick
  BY <1>8 DEF Tick, Passed, BlockInv
<1>9. CASE UNCHANGED vars
  BY <1>9 DEF vars, BlockInv
<1>. QED
  BY <1>1, <1>2, <1>3, <1>4, <1>5, <1>6, <1>7, <1>8, <1>9 DEF Next, Proceeds, Answered

\* Only a request that finds no block, or has slept for all of it, calls.
LEMMA CallNeedsNoBlock ==
    ASSUME BlockInv, [Next]_vars,
           NEW r \in informed, pc[r] # "calling", pc'[r] = "calling"
    PROVE  blocked = 0
<1>1. r \in Requests
  BY DEF BlockInv
<1>2. ASSUME NEW q \in Requests, Enter(q) \/ Attempt(q)  PROVE blocked = 0
  BY <1>1, <1>2 DEF Enter, Attempt, WaitIfBlocked, BlockInv
<1>3. ASSUME NEW q \in Requests, TakeGrant(q)  PROVE blocked = 0
  BY <1>1, <1>3 DEF TakeGrant, TryWindow, BlockInv
<1>4. ASSUME NEW q \in Requests, CallReturns(q) \/ RateLimited(q) \/ Raises(q)
      PROVE  FALSE
  BY <1>1, <1>4 DEF CallReturns, RateLimited, Raises, BlockInv
<1>5. ASSUME NEW q \in Requests, Leave(q) \/ Cancel(q)  PROVE FALSE
  <2>1. CASE Release(q)
    BY <1>1, <2>1, ReleaseMoves DEF BlockInv
  <2>2. CASE pc' = [pc EXCEPT ![q] = "done"]
    BY <1>1, <2>2 DEF BlockInv
  <2>. QED  BY <1>5, <2>1, <2>2 DEF Leave, Cancel
<1>6. CASE Tick \/ UNCHANGED vars
  BY <1>6 DEF Tick, vars
<1>. QED  BY <1>2, <1>3, <1>4, <1>5, <1>6 DEF Next, Proceeds, Answered

\* What requests know of the block is right in every reachable state.
LEMMA BlockIsKnown == Spec => []BlockInv
<1>1. Init => BlockInv
  BY DEF Init, BlockInv, RequestStep
<1>2. BlockInv /\ [Next]_vars => BlockInv'
  BY BlockStep
<1>. QED  BY <1>1, <1>2, PTL DEF Spec

\* wait_if_blocked: for any delays and any number of requests, nobody who has
\* looked at the latest block calls the provider before it is over.
THEOREM BlockIsKept == Spec => BlockRespected
<1> DEFINE Waits == \A r \in informed :
                        pc[r] # "calling" /\ pc'[r] = "calling" => blocked = 0
<1>1. BlockInv /\ [Next]_vars => [Waits]_vars
  BY CallNeedsNoBlock
<1>. QED  BY <1>1, BlockIsKnown, PTL DEF Spec, BlockRespected
-----------------------------------------------------------------------------
(***************************************************************************)
(* The slots.                                                              *)
(***************************************************************************)

\* SlotsAccounted, with the line taken entry by entry.
LineInv ==
    /\ \A i \in DOMAIN line : pc[line[i]] = "line"
    /\ \A r \in Requests : pc[r] = "line" => \E i \in DOMAIN line : line[i] = r
    /\ \A i, j \in DOMAIN line : line[i] = line[j] => i = j

SlotInv ==
    /\ pc \in [Requests -> RequestStep]
    /\ free \in Nat
    /\ line \in Seq(Requests)
    /\ free + Cardinality(InSlot) = MaxConcurrency
    /\ line # <<>> => free = 0
    /\ LineInv

\* Finitely many requests hold a slot.
LEMMA InSlotFinite == IsFiniteSet(InSlot) /\ Cardinality(InSlot) \in Nat
<1>1. InSlot \in SUBSET Requests
  BY DEF InSlot
<1>2. IsFiniteSet(InSlot)
  BY <1>1, FS_Subset, RequestsAssumption
<1>. QED  BY <1>2, FS_CardinalityType

\* A request takes a free slot.
LEMMA TakesSlot ==
    ASSUME SlotInv, NEW r \in Requests, pc[r] = "new",
           NEW x \in RequestStep \ {"new", "line", "done"}, pc' = [pc EXCEPT ![r] = x],
           free > 0, line = <<>>, free' = free - 1, UNCHANGED line
    PROVE  SlotInv'
<1>1. r \notin InSlot /\ InSlot' = InSlot \cup {r}
  BY DEF SlotInv, InSlot, RequestStep
<1>2. Cardinality(InSlot') = Cardinality(InSlot) + 1
  BY <1>1, InSlotFinite, FS_AddElement
<1>3. free' \in Nat /\ free' + Cardinality(InSlot') = MaxConcurrency
  BY <1>2, InSlotFinite, ConcurrencyAssumption DEF SlotInv
<1>4. pc' \in [Requests -> RequestStep] /\ LineInv'
  BY DEF SlotInv, LineInv, RequestStep
<1>. QED  BY <1>3, <1>4 DEF SlotInv

\* A request joins the line.
LEMMA JoinsLine ==
    ASSUME SlotInv, NEW r \in Requests, pc[r] = "new", pc' = [pc EXCEPT ![r] = "line"],
           free = 0 \/ line # <<>>, line' = Append(line, r), UNCHANGED free
    PROVE  SlotInv'
<1>1. InSlot' = InSlot
  BY DEF SlotInv, InSlot, RequestStep
<1>2. pc' \in [Requests -> RequestStep] /\ line' \in Seq(Requests)
  BY DEF SlotInv, RequestStep
<1>3. free' = 0
  BY DEF SlotInv
<1>4. LineInv'
  <2>1. line \in Seq(Requests) /\ LineInv /\ pc \in [Requests -> RequestStep]
    BY DEF SlotInv
  <2>2. DOMAIN line' = 1..(Len(line) + 1) /\ DOMAIN line = 1..Len(line) /\ Len(line) \in Nat
    BY <2>1
  <2>3. line'[Len(line) + 1] = r /\ \A i \in DOMAIN line : line'[i] = line[i] /\ line[i] # r
    BY <2>1, <2>2 DEF LineInv
  <2>4. \A i \in DOMAIN line' : i \in DOMAIN line \/ i = Len(line) + 1
    BY <2>2
  <2>5. \A i \in DOMAIN line' : pc'[line'[i]] = "line"
    BY <2>1, <2>2, <2>3, <2>4 DEF LineInv
  <2>6. ASSUME NEW q \in Requests, pc'[q] = "line"
        PROVE  \E i \in DOMAIN line' : line'[i] = q
    BY <2>1, <2>2, <2>3, <2>6 DEF LineInv
  <2>7. \A i, j \in DOMAIN line' : line'[i] = line'[j] => i = j
    BY <2>1, <2>3, <2>4 DEF LineInv
  <2>. QED  BY <2>5, <2>6, <2>7 DEF LineInv
<1>. QED  BY <1>1, <1>2, <1>3, <1>4 DEF SlotInv

\* A request goes on within its slot.
LEMMA KeepsSlot ==
    ASSUME SlotInv, NEW r \in InSlot,
           NEW x \in RequestStep \ {"new", "line", "done"}, pc' = [pc EXCEPT ![r] = x],
           UNCHANGED <<free, line>>
    PROVE  SlotInv'
<1>1. InSlot' = InSlot
  BY DEF SlotInv, InSlot, RequestStep
<1>2. \A q \in Requests : pc'[q] = "line" <=> pc[q] = "line"
  BY DEF SlotInv, InSlot, RequestStep
<1>3. LineInv'
  BY <1>2 DEF SlotInv, LineInv
<1>4. pc' \in [Requests -> RequestStep]
  BY DEF SlotInv, InSlot
<1>. QED  BY <1>1, <1>3, <1>4 DEF SlotInv

\* A request gives its slot back, or to the first in line.
LEMMA ReturnsSlot ==
    ASSUME SlotInv, NEW r \in InSlot, Release(r)
    PROVE  SlotInv'
<1>1. pc \in [Requests -> RequestStep] /\ line \in Seq(Requests) /\ LineInv
  BY DEF SlotInv
<1>2. r \in Requests /\ pc[r] # "line"
  BY DEF InSlot
<1>3. CASE line = <<>>
  <2>1. free' = free + 1 /\ pc' = [pc EXCEPT ![r] = "done"] /\ line' = line
    BY <1>3 DEF Release
  <2>2. InSlot' = InSlot \ {r}
    BY <1>1, <1>2, <2>1 DEF InSlot, RequestStep
  <2>3. Cardinality(InSlot') = Cardinality(InSlot) - 1
    BY <2>2, InSlotFinite, FS_RemoveElement
  <2>4. free' \in Nat /\ free' + Cardinality(InSlot') = MaxConcurrency
    BY <2>1, <2>3, InSlotFinite, ConcurrencyAssumption DEF SlotInv
  <2>5. pc' \in [Requests -> RequestStep]
    BY <1>1, <1>2, <2>1 DEF RequestStep
  <2>6. LineInv'
    BY <1>1, <1>2, <1>3, <2>1 DEF LineInv
  <2>. QED  BY <1>1, <1>3, <2>1, <2>4, <2>5, <2>6 DEF SlotInv
<1>4. CASE line # <<>>
  <2> DEFINE h == Head(line)
  <2>1. line' = Tail(line) /\ free' = free
        /\ pc' = [pc EXCEPT ![r] = "done", ![h] = "admitted"]
    BY <1>4 DEF Release
  <2>2. /\ h = line[1] /\ h \in Requests /\ 1 \in DOMAIN line
        /\ DOMAIN line = 1..Len(line) /\ Len(line) \in Nat \ {0}
    BY <1>1, <1>4
  <2>3. pc[h] = "line" /\ h # r
    BY <1>1, <1>2, <2>2 DEF LineInv
  <2>. HIDE DEF h
  <2>4. \A q \in Requests : pc'[q] = IF q = h THEN "admitted"
                                     ELSE IF q = r THEN "done" ELSE pc[q]
    BY <1>1, <1>2, <2>1, <2>2
  <2>5. pc' \in [Requests -> RequestStep]
    BY <1>1, <1>2, <2>1, <2>2 DEF RequestStep
  <2>6. h \notin InSlot \ {r} /\ InSlot' = (InSlot \ {r}) \cup {h}
    BY <1>2, <2>2, <2>3, <2>4 DEF InSlot
  <2>7. IsFiniteSet(InSlot \ {r}) /\ Cardinality(InSlot \ {r}) = Cardinality(InSlot) - 1
    BY InSlotFinite, FS_RemoveElement
  <2>8. Cardinality(InSlot') = Cardinality(InSlot)
    <3>1. Cardinality((InSlot \ {r}) \cup {h}) = Cardinality(InSlot \ {r}) + 1
      BY <2>6, <2>7, FS_AddElement
    <3>. QED  BY <2>6, <2>7, <3>1, InSlotFinite
  <2>9. /\ line' \in Seq(Requests) /\ DOMAIN line' = 1..(Len(line) - 1)
        /\ \A i \in DOMAIN line' : line'[i] = line[i + 1] /\ i + 1 \in DOMAIN line
    BY <1>1, <1>4, <2>1, <2>2
  <2>10. \A i \in DOMAIN line' : line'[i] # h /\ line'[i] # r /\ line'[i] \in Requests
    BY <1>1, <1>2, <2>2, <2>9 DEF LineInv
  <2>11. \A i \in DOMAIN line' : pc'[line'[i]] = "line"
    BY <1>1, <2>4, <2>9, <2>10 DEF LineInv
  <2>12. ASSUME NEW q \in Requests, pc'[q] = "line"
         PROVE  \E i \in DOMAIN line' : line'[i] = q
    <3>1. q # h /\ pc[q] = "line"
      BY <2>4, <2>12
    <3>2. PICK i \in DOMAIN line : line[i] = q
      BY <1>1, <3>1 DEF LineInv
    <3>3. i # 1 /\ i - 1 \in DOMAIN line' /\ line'[i - 1] = q
      BY <2>2, <2>9, <3>1, <3>2
    <3>. QED  BY <3>3
  <2>13. \A i, j \in DOMAIN line' : line'[i] = line'[j] => i = j
    <3> SUFFICES ASSUME NEW i \in DOMAIN line', NEW j \in DOMAIN line', line'[i] = line'[j]
                 PROVE  i = j
      OBVIOUS
    <3>1. i + 1 = j + 1
      BY <1>1, <2>9 DEF LineInv
    <3>. QED  BY <2>2, <2>9, <3>1
  <2>14. LineInv'
    BY <2>11, <2>12, <2>13 DEF LineInv
  <2>. QED  BY <1>4, <2>1, <2>5, <2>8, <2>9, <2>14 DEF SlotInv
<1>. QED  BY <1>3, <1>4

\* A request that waits for a slot gives up.
LEMMA GivesUp ==
    ASSUME SlotInv, NEW r \in Requests, pc[r] = "line", LeavesLine(r),
           pc' = [pc EXCEPT ![r] = "done"], UNCHANGED free
    PROVE  SlotInv'
<1>1. pc \in [Requests -> RequestStep] /\ line \in Seq(Requests) /\ LineInv
  BY DEF SlotInv
<1>2. PICK k \in DOMAIN line :
          line[k] = r /\ line' = SubSeq(line, 1, k - 1) \o SubSeq(line, k + 1, Len(line))
  BY DEF LeavesLine
<1> DEFINE From(i) == IF i < k THEN i ELSE i + 1
<1>3. /\ DOMAIN line = 1..Len(line) /\ Len(line) \in Nat /\ k \in 1..Len(line)
      /\ line' \in Seq(Requests) /\ DOMAIN line' = 1..(Len(line) - 1)
      /\ \A i \in DOMAIN line' : line'[i] = line[From(i)]
  <2> DEFINE front == SubSeq(line, 1, k - 1)
             back  == SubSeq(line, k + 1, Len(line))
  <2>1. DOMAIN line = 1..Len(line) /\ Len(line) \in Nat /\ k \in 1..Len(line)
    BY <1>1
  <2>2. front \in Seq(Requests) /\ Len(front) = k - 1 /\ \A i \in 1..(k - 1) : front[i] = line[i]
    BY <1>1, <2>1
  <2>3. /\ back \in Seq(Requests) /\ Len(back) = Len(line) - k
        /\ \A i \in 1..(Len(line) - k) : back[i] = line[k + i]
    BY <1>1, <2>1
  <2>4. line' = front \o back
    BY <1>2
  <2>. HIDE DEF front, back
  <2>5. line' \in Seq(Requests) /\ Len(line') = Len(line) - 1
    <3>1. front \o back \in Seq(Requests) /\ Len(front \o back) = Len(front) + Len(back)
      BY <2>2, <2>3, ConcatProperties
    <3>2. Len(front) + Len(back) = Len(line) - 1
      BY <2>1, <2>2, <2>3
    <3>. QED  BY <2>4, <3>1, <3>2
  <2>6. ASSUME NEW i \in 1..(Len(line) - 1)  PROVE line'[i] = line[From(i)]
    <3>1. CASE i < k
      BY <2>1, <2>2, <2>3, <2>4, <3>1
    <3>2. CASE i >= k
      <4>1. line'[i] = back[i - (k - 1)] /\ i - (k - 1) \in 1..(Len(line) - k)
        BY <2>1, <2>2, <2>3, <2>4, <3>2
      <4>2. back[i - (k - 1)] = line[k + (i - (k - 1))] /\ k + (i - (k - 1)) = i + 1
        BY <2>1, <2>3, <4>1
      <4>. QED  BY <2>1, <3>2, <4>1, <4>2
    <3>. QED  BY <2>1, <3>1, <3>2
  <2>. QED  BY <2>1, <2>5, <2>6
<1>4. \A i \in DOMAIN line' : From(i) \in DOMAIN line /\ From(i) # k
  BY <1>3
<1>5. InSlot' = InSlot
  BY <1>1 DEF InSlot, RequestStep
<1>6. pc' \in [Requests -> RequestStep]
  BY <1>1 DEF RequestStep
<1>7. line' # <<>> => free' = 0
  BY <1>2 DEF SlotInv
<1>8. \A i, j \in DOMAIN line' : line'[i] = line'[j] => i = j
  <2> SUFFICES ASSUME NEW i \in DOMAIN line', NEW j \in DOMAIN line', line'[i] = line'[j]
               PROVE  i = j
    OBVIOUS
  <2>1. From(i) = From(j)
    BY <1>1, <1>3, <1>4 DEF LineInv
  <2>. QED  BY <1>3, <2>1
<1>9. \A i \in DOMAIN line' : pc'[line'[i]] = "line"
  <2> SUFFICES ASSUME NEW i \in DOMAIN line'  PROVE pc'[line'[i]] = "line"
    OBVIOUS
  <2>1. PICK n \in DOMAIN line : line'[i] = line[n] /\ n # k
    BY <1>3, <1>4
  <2>2. line[n] # r /\ pc[line[n]] = "line"
    BY <1>1, <1>2, <2>1 DEF LineInv
  <2>3. line[n] \in Requests
    BY <1>1, <2>1
  <2>. QED  BY <1>1, <2>1, <2>2, <2>3
<1>10. ASSUME NEW q \in Requests, pc'[q] = "line"
       PROVE  \E i \in DOMAIN line' : line'[i] = q
  <2>1. q # r /\ pc[q] = "line"
    BY <1>1, <1>10
  <2>2. PICK m \in DOMAIN line : line[m] = q
    BY <1>1, <2>1 DEF LineInv
  <2>3. CASE m < k
    <3>1. m \in DOMAIN line' /\ line'[m] = q
      BY <1>3, <2>2, <2>3
    <3>. QED  BY <3>1
  <2>4. CASE m > k
    <3>1. m - 1 \in DOMAIN line' /\ From(m - 1) = m
      BY <1>3, <2>4
    <3>2. line'[m - 1] = q
      BY <1>3, <2>2, <3>1
    <3>. QED  BY <3>1, <3>2
  <2>5. m # k /\ m \in Nat /\ k \in Nat
    BY <1>2, <1>3, <2>1, <2>2
  <2>. QED  BY <2>3, <2>4, <2>5
<1>11. LineInv'
  BY <1>8, <1>9, <1>10 DEF LineInv
<1>. QED  BY <1>3, <1>5, <1>6, <1>7, <1>11 DEF SlotInv

\* wait_if_blocked holds the request, lets it call or makes it look again.
LEMMA WaitMoves ==
    ASSUME NEW r \in Requests, WaitIfBlocked(r) \/ TryWindow(r)
    PROVE  \E x \in {"held", "window", "calling"} : pc' = [pc EXCEPT ![r] = x]
  BY DEF WaitIfBlocked, TryWindow

\* Every step keeps the account of the slots.
LEMMA SlotStep ==
    ASSUME SlotInv, [Next]_vars
    PROVE  SlotInv'
<1>1. ASSUME NEW r \in Requests, Enter(r)  PROVE SlotInv'
  <2>1. CASE free > 0 /\ line = <<>> /\ free' = free - 1 /\ WaitIfBlocked(r) /\ UNCHANGED line
    <3>1. PICK x \in {"held", "window", "calling"} : pc' = [pc EXCEPT ![r] = x]
      BY <2>1, WaitMoves
    <3>. QED  BY <1>1, <2>1, <3>1, TakesSlot DEF Enter, RequestStep
  <2>2. CASE /\ free = 0 \/ line # <<>>
             /\ line' = Append(line, r) /\ pc' = [pc EXCEPT ![r] = "line"] /\ UNCHANGED free
    BY <1>1, <2>2, JoinsLine DEF Enter
  <2>. QED  BY <1>1, <2>1, <2>2 DEF Enter
<1>2. ASSUME NEW r \in Requests, Proceeds(r)  PROVE SlotInv'
  <2>1. r \in InSlot /\ UNCHANGED <<free, line>>
    BY <1>2 DEF Proceeds, Attempt, TakeGrant, InSlot
  <2>2. PICK x \in {"held", "window", "calling"} : pc' = [pc EXCEPT ![r] = x]
    BY <1>2, WaitMoves DEF Proceeds, Attempt, TakeGrant
  <2>. QED  BY <2>1, <2>2, KeepsSlot DEF RequestStep
<1>3. ASSUME NEW r \in Requests, CallReturns(r) \/ RateLimited(r) \/ Raises(r)
      PROVE  SlotInv'
  <2>1. r \in InSlot /\ UNCHANGED <<free, line>>
    BY <1>3 DEF CallReturns, RateLimited, Raises, InSlot
  <2>2. PICK x \in {"streaming", "backoff", "closing"} : pc' = [pc EXCEPT ![r] = x]
    BY <1>3 DEF CallReturns, RateLimited, Raises
  <2>. QED  BY <2>1, <2>2, KeepsSlot DEF RequestStep
<1>4. ASSUME NEW r \in Requests, Leave(r)  PROVE SlotInv'
  <2>1. r \in InSlot
    BY <1>4 DEF Leave, InSlot
  <2>. QED  BY <1>4, <2>1, ReturnsSlot DEF Leave
<1>5. ASSUME NEW r \in Requests, Cancel(r)  PROVE SlotInv'
  BY <1>5, ReturnsSlot, GivesUp DEF Cancel
<1>6. CASE Tick \/ UNCHANGED vars
  BY <1>6 DEF Tick, vars, SlotInv, LineInv, InSlot
<1>. QED  BY <1>1, <1>2, <1>3, <1>4, <1>5, <1>6 DEF Next, Answered

\* The account of the slots is right in every reachable state.
LEMMA SlotsAreKept == Spec => []SlotInv
<1>1. Init => SlotInv
  <2> SUFFICES ASSUME Init PROVE SlotInv
    OBVIOUS
  <2>1. InSlot = {}
    BY DEF Init, InSlot
  <2>2. Cardinality(InSlot) = 0
    BY <2>1, FS_EmptySet
  <2>. QED  BY <2>2, ConcurrencyAssumption DEF Init, SlotInv, LineInv, RequestStep
<1>2. SlotInv /\ [Next]_vars => SlotInv'
  BY SlotStep
<1>. QED  BY <1>1, <1>2, PTL DEF Spec

-----------------------------------------------------------------------------
(***************************************************************************)
(* The types.                                                              *)
(***************************************************************************)

\* Attempts are counted up to the limit only, and sleeps end.
NumberInv ==
    /\ attempt \in [Requests -> 0..MaxRetries]
    /\ sleep \in [Requests -> Nat]
    /\ blocked \in Nat

\* Whatever the power of two is, a delay is a number of ticks.
LEMMA DelayIsNumber ==
    ASSUME NEW n, NEW delay \in Delays(n)
    PROVE  delay \in Nat
<1> DEFINE product == BaseDelay * 2 ^ n
           capped == IF product \in 0..MaxDelay THEN product ELSE MaxDelay
<1>1. PICK j \in 0..Jitter : delay = capped + j
  BY DEF Delays
<1>. HIDE DEF product
<1>2. capped \in Nat
  BY DelayAssumption
<1>. QED  BY <1>1, <1>2, DelayAssumption

\* A wait sleeps for as long as the block, if at all.
LEMMA WaitKeepsNumbers ==
    ASSUME NumberInv, NEW r \in Requests, WaitIfBlocked(r), UNCHANGED <<attempt, blocked>>
    PROVE  NumberInv'
<1>1. CASE sleep' = [sleep EXCEPT ![r] = blocked]
  BY <1>1 DEF NumberInv
<1>2. CASE UNCHANGED sleep
  BY <1>2 DEF NumberInv
<1>. QED  BY <1>1, <1>2 DEF WaitIfBlocked

\* Every step keeps the numbers.
LEMMA NumberStep ==
    ASSUME NumberInv, [Next]_vars
    PROVE  NumberInv'
<1>1. ASSUME NEW r \in Requests, Enter(r)  PROVE NumberInv'
  <2>1. CASE WaitIfBlocked(r)
    BY <1>1, <2>1, WaitKeepsNumbers DEF Enter
  <2>2. CASE UNCHANGED sleep
    BY <1>1, <2>2 DEF Enter, NumberInv
  <2>. QED  BY <1>1, <2>1, <2>2 DEF Enter
<1>2. ASSUME NEW r \in Requests, Attempt(r)  PROVE NumberInv'
  BY <1>2, WaitKeepsNumbers DEF Attempt
<1>3. ASSUME NEW r \in Requests, TakeGrant(r) \/ CallReturns(r) \/ Leave(r) \/ Cancel(r)
      PROVE  NumberInv'
  BY <1>3 DEF TakeGrant, CallReturns, Leave, Cancel, NumberInv
<1>4. ASSUME NEW r \in Requests, RateLimited(r)  PROVE NumberInv'
  <2>1. PICK delay \in Delays(attempt[r]) :
            blocked' = delay /\ sleep' = [sleep EXCEPT ![r] = delay]
    BY <1>4 DEF RateLimited, SetBlocked
  <2>2. delay \in Nat
    BY DelayIsNumber
  <2>3. attempt[r] + 1 \in 0..MaxRetries
    BY <1>4, RetriesAssumption DEF RateLimited, NumberInv
  <2>. QED  BY <1>4, <2>1, <2>2, <2>3 DEF RateLimited, NumberInv
<1>5. ASSUME NEW r \in Requests, Raises(r)  PROVE NumberInv'
  <2>1. blocked' \in {blocked, Cooldown} /\ UNCHANGED <<attempt, sleep>>
    BY <1>5 DEF Raises, SetBlocked
  <2>. QED  BY <2>1, DelayAssumption DEF NumberInv
<1>6. CASE Tick
  <2>1. \A n \in Nat : Passed(n) \in Nat
    BY DEF Passed
  <2>. QED  BY <1>6, <2>1 DEF Tick, NumberInv
<1>7. CASE UNCHANGED vars
  BY <1>7 DEF vars, NumberInv
<1>. QED  BY <1>1, <1>2, <1>3, <1>4, <1>5, <1>6, <1>7 DEF Next, Proceeds, Answered

\* GlobalRateLimiter: for any limits and delays a request makes at most
\* max_retries + 1 attempts, and there are never more free slots than
\* max_concurrency.
THEOREM TypesAreKept == Spec => []TypeOK
<1>1. Init => NumberInv
  BY RetriesAssumption DEF Init, NumberInv
<1>2. NumberInv /\ [Next]_vars => NumberInv'
  BY NumberStep
<1>3. GrantInv /\ BlockInv /\ SlotInv /\ NumberInv => TypeOK
  <2> SUFFICES ASSUME GrantInv, BlockInv, SlotInv, NumberInv  PROVE TypeOK
    OBVIOUS
  <2>1. free \in 0..MaxConcurrency
    BY InSlotFinite, ConcurrencyAssumption DEF SlotInv
  <2>. QED  BY <2>1 DEF GrantInv, BlockInv, SlotInv, NumberInv, TypeOK
<1>. QED  BY <1>1, <1>2, <1>3, GrantsAreKept, BlockIsKnown, SlotsAreKept, PTL DEF Spec

\* concurrency_slot: for any number of requests and slots, and wherever a
\* client goes away, a slot is returned once and handed to the first in line.
THEOREM SlotsAreReturned == Spec => []SlotsAccounted
<1>1. TypeOK /\ SlotInv => SlotsAccounted
  <2> SUFFICES ASSUME TypeOK, SlotInv PROVE SlotsAccounted
    OBVIOUS
  <2>1. line \in Seq(Requests) /\ LineInv
    BY DEF SlotInv
  <2>2. \A i \in DOMAIN line : line[i] \in Requests
    BY <2>1
  <2>3. {line[i] : i \in DOMAIN line} = {r \in Requests : pc[r] = "line"}
    BY <2>1, <2>2 DEF LineInv
  <2>. QED  BY <2>1, <2>3 DEF SlotInv, LineInv, SlotsAccounted
<1>. QED  BY <1>1, TypesAreKept, SlotsAreKept, PTL
=============================================================================

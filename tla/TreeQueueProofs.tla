--------------------------- MODULE TreeQueueProofs ---------------------------
(***************************************************************************)
(* Theorems about TreeQueue, for every set of messages, every choice of    *)
(* commands and any number of them.                                        *)
(***************************************************************************)
EXTENDS TreeQueue, FiniteSetTheorems, FunctionTheorems, TLAPS

(***************************************************************************)
(* The operators of MessageTree, for every queue and tree.                 *)
(***************************************************************************)

\* The survivors of a queue, ranked by how many survivors stand up to them,
\* are numbered 1 to their number: the ranks are distinct and leave no gap.
LEMMA RankEnumerates ==
    ASSUME NEW N \in Nat, NEW K \in SUBSET (1..N)
    PROVE  LET Rank(i) == Cardinality({k \in K : k <= i})
           IN  /\ IsFiniteSet(K)
               /\ Cardinality(K) \in Nat
               /\ \A i \in K : Rank(i) \in 1..Cardinality(K)
               /\ \A i, j \in K : i < j => Rank(i) < Rank(j)
               /\ \A r \in 1..Cardinality(K) : \E i \in K : Rank(i) = r
<1> DEFINE Upto(i) == {k \in K : k <= i}
           Rank(i) == Cardinality(Upto(i))
<1>1. IsFiniteSet(K) /\ Cardinality(K) \in Nat
  <2>1. IsFiniteSet(1..N)
    BY FS_Interval
  <2>. QED  BY <2>1, FS_Subset, FS_CardinalityType
<1>2. ASSUME NEW i \in K
      PROVE  Rank(i) \in 1..Cardinality(K)
  <2>1. Upto(i) \in SUBSET K
    OBVIOUS
  <2>2. IsFiniteSet(Upto(i)) /\ Rank(i) \in Nat /\ Rank(i) <= Cardinality(K)
    BY <1>1, <2>1, FS_Subset, FS_CardinalityType
  <2>3. i \in Upto(i)
    OBVIOUS
  <2>4. Rank(i) # 0
    BY <2>2, <2>3, FS_EmptySet
  <2>. QED  BY <1>1, <2>2, <2>4
<1>3. ASSUME NEW i \in K, NEW j \in K, i < j
      PROVE  Rank(i) < Rank(j)
  <2>1. IsFiniteSet(Upto(j))
    <3>1. Upto(j) \in SUBSET K
      OBVIOUS
    <3>. QED  BY <1>1, <3>1, FS_Subset
  <2>0. i \in Int /\ j \in Int /\ \A k \in K : k \in Int
    OBVIOUS
  <2>2. Upto(i) \in SUBSET Upto(j)
    <3>1. \A k \in K : k <= i => k <= j
      BY <1>3, <2>0
    <3>. QED  BY <3>1
  <2>3. Rank(i) <= Rank(j) /\ (Rank(j) = Rank(i) => Upto(j) = Upto(i))
    BY <2>1, <2>2, FS_Subset
  <2>4. j \in Upto(j) /\ j \notin Upto(i)
    BY <1>3
  <2>5. Rank(i) \in Nat /\ Rank(j) \in Nat
    BY <1>2
  <2>. QED  BY <2>3, <2>4, <2>5
<1>4. \A r \in 1..Cardinality(K) : \E i \in K : Rank(i) = r
  <2> DEFINE f == [i \in K |-> Rank(i)]
             R == 1..Cardinality(K)
  <2>1. f \in [K -> R]
    BY <1>2
  <2>2. \A i, j \in K : f[i] = f[j] => i = j
    <3>1. SUFFICES ASSUME NEW i \in K, NEW j \in K, f[i] = f[j], i # j
                   PROVE  FALSE
      OBVIOUS
    <3>2. i < j \/ j < i
      BY <3>1
    <3>3. Rank(i) \in Nat /\ Rank(j) \in Nat /\ Rank(i) = Rank(j)
      BY <1>2, <3>1
    <3>. QED  BY <1>3, <3>2, <3>3
  <2>3. f \in Injection(K, R)
    BY <2>1, <2>2 DEF Injection, IsInjective
  <2>4. IsFiniteSet(R) /\ Cardinality(R) = Cardinality(K)
    BY <1>1, FS_Interval
  <2>5. f \in Surjection(K, R)
    BY <2>3, <2>4, FS_Injection
  <2>. QED  BY <2>5 DEF Surjection
<1>. QED  BY <1>1, <1>2, <1>3, <1>4

\* w is q read through an increasing function that skips B and nothing else.
Filters(w, q, B) ==
    \E f \in [DOMAIN w -> DOMAIN q] :
        /\ \A i \in DOMAIN w : w[i] = q[f[i]] /\ w[i] \notin B
        /\ \A i, j \in DOMAIN w : i < j => f[i] < f[j]
        /\ \A k \in DOMAIN q : q[k] \notin B => \E i \in DOMAIN w : f[i] = k

\* remove_if_present drops the ids of B and keeps the order of the others.
LEMMA WithoutFacts ==
    ASSUME NEW S, NEW q \in Seq(S), NEW B
    PROVE  Without(q, B) \in Seq(S) /\ Filters(Without(q, B), q, B)
<1> DEFINE K == {i \in DOMAIN q : q[i] \notin B}
           Rank(i) == Cardinality({k \in K : k <= i})
           f == [j \in 1..Cardinality(K) |-> CHOOSE i \in K : Rank(i) = j]
           w == Without(q, B)
<1>1. Len(q) \in Nat /\ DOMAIN q = 1..Len(q) /\ K \in SUBSET (1..Len(q))
  OBVIOUS
<1>2. /\ Cardinality(K) \in Nat
      /\ \A i \in K : Rank(i) \in 1..Cardinality(K)
      /\ \A i, j \in K : i < j => Rank(i) < Rank(j)
      /\ \A r \in 1..Cardinality(K) : \E i \in K : Rank(i) = r
  BY <1>1, RankEnumerates
<1>3. w = [j \in 1..Cardinality(K) |-> q[CHOOSE i \in K : Rank(i) = j]]
  BY DEF Without
<1> HIDE DEF Rank, K, w
<1>4. \A j \in 1..Cardinality(K) : f[j] \in K /\ Rank(f[j]) = j
  BY <1>2
<1>5. /\ DOMAIN w = 1..Cardinality(K)
      /\ \A j \in DOMAIN w : w[j] = q[f[j]]
  BY <1>3
<1> HIDE DEF f
<1>6. /\ f \in [DOMAIN w -> DOMAIN q]
      /\ \A j \in DOMAIN w : w[j] = q[f[j]] /\ w[j] \notin B /\ w[j] \in S
  <2>1. f = [j \in DOMAIN w |-> f[j]]
    BY <1>5 DEF f
  <2>2. \A j \in DOMAIN w : f[j] \in DOMAIN q /\ q[f[j]] \notin B
    BY <1>4, <1>5 DEF K
  <2>. QED  BY <1>1, <1>5, <2>1, <2>2
<1>7. w \in Seq(S)
  <2>1. w = [j \in 1..Cardinality(K) |-> w[j]]
    BY <1>3, <1>5
  <2>2. w \in [1..Cardinality(K) -> S]
    BY <1>5, <1>6, <2>1
  <2>. QED  BY <1>2, <2>2
<1>8. ASSUME NEW i \in DOMAIN w, NEW j \in DOMAIN w, i < j
      PROVE  f[i] < f[j]
  <2>1. f[i] \in K /\ f[j] \in K /\ Rank(f[i]) = i /\ Rank(f[j]) = j
    BY <1>4, <1>5
  <2>2. f[i] \in Int /\ f[j] \in Int /\ i \in Int /\ j \in Int
    <3>1. f[i] \in 1..Len(q) /\ f[j] \in 1..Len(q)
      BY <1>1, <2>1
    <3>2. i \in 1..Cardinality(K) /\ j \in 1..Cardinality(K)
      BY <1>5
    <3>. QED  BY <1>1, <1>2, <3>1, <3>2
  <2>3. CASE f[j] < f[i]
    BY <1>2, <1>8, <2>1, <2>2, <2>3
  <2>. QED  BY <1>8, <2>1, <2>2, <2>3
<1>9. ASSUME NEW k \in DOMAIN q, q[k] \notin B
      PROVE  \E i \in DOMAIN w : f[i] = k
  <2>1. k \in K
    BY <1>9 DEF K
  <2>2. Rank(k) \in DOMAIN w
    BY <1>2, <1>5, <2>1
  <2>3. f[Rank(k)] \in K /\ Rank(f[Rank(k)]) = Rank(k)
    BY <1>4, <1>5, <2>2
  <2>4. f[Rank(k)] = k
    <3>1. f[Rank(k)] \in Int /\ k \in Int
      BY <1>1, <2>1, <2>3
    <3>2. f[Rank(k)] < k \/ k < f[Rank(k)] \/ f[Rank(k)] = k
      BY <3>1
    <3>3. Rank(k) \in Int
      BY <1>2, <2>1
    <3>. QED  BY <1>2, <2>1, <2>3, <3>2, <3>3
  <2>. QED  BY <2>2, <2>4
<1>10. Filters(w, q, B)
  BY <1>6, <1>8, <1>9 DEF Filters
<1>. QED  BY <1>7, <1>10 DEF w

\* The same in terms of the ids in the queue.
LEMMA WithoutIds ==
    ASSUME NEW S, NEW q \in Seq(S), NEW B, NEW rank \in [S -> Nat], Increasing(q, rank)
    PROVE  /\ Without(q, B) \in Seq(S)
           /\ QueueIds(Without(q, B)) = QueueIds(q) \ B
           /\ Increasing(Without(q, B), rank)
<1> DEFINE w == Without(q, B)
<1>1. w \in Seq(S) /\ Filters(w, q, B)
  BY WithoutFacts
<1> HIDE DEF w
<1>2. PICK f \in [DOMAIN w -> DOMAIN q] :
          /\ \A i \in DOMAIN w : w[i] = q[f[i]] /\ w[i] \notin B
          /\ \A i, j \in DOMAIN w : i < j => f[i] < f[j]
          /\ \A k \in DOMAIN q : q[k] \notin B => \E i \in DOMAIN w : f[i] = k
  BY <1>1 DEF Filters
<1>3. QueueIds(w) = QueueIds(q) \ B
  <2>1. ASSUME NEW x \in QueueIds(w)
        PROVE  x \in QueueIds(q) \ B
    BY <1>2 DEF QueueIds
  <2>2. ASSUME NEW x \in QueueIds(q), x \notin B
        PROVE  x \in QueueIds(w)
    BY <1>2, <2>2 DEF QueueIds
  <2>. QED  BY <2>1, <2>2
<1>4. Increasing(w, rank)
  BY <1>2 DEF Increasing
<1>. QED  BY <1>1, <1>3, <1>4 DEF w

\* remove_if_present of an empty queue.
LEMMA WithoutEmpty ==
    ASSUME NEW B
    PROVE  Without(<<>>, B) = <<>>
<1> DEFINE S == {}
           q == <<>>
           w == Without(q, B)
<1>1. q \in Seq(S)
  OBVIOUS
<1>2. w \in Seq(S) /\ Filters(w, q, B)
  BY <1>1, WithoutFacts
<1> HIDE DEF w
<1>3. DOMAIN w = {}
  BY <1>2 DEF Filters
<1>. QED  BY <1>2, <1>3 DEF w

\* put_nowait at the end of a queue whose ids all rank lower.
LEMMA AppendIds ==
    ASSUME NEW S, NEW q \in Seq(S), NEW x \in S, NEW rank \in [S -> Nat],
           Increasing(q, rank), \A y \in QueueIds(q) : rank[y] < rank[x]
    PROVE  /\ Append(q, x) \in Seq(S)
           /\ QueueIds(Append(q, x)) = QueueIds(q) \cup {x}
           /\ Increasing(Append(q, x), rank)
<1> DEFINE a == Append(q, x)
<1>1. /\ a \in Seq(S) /\ Len(q) \in Nat
      /\ DOMAIN q = 1..Len(q) /\ DOMAIN a = 1..(Len(q) + 1)
      /\ \A i \in 1..Len(q) : a[i] = q[i]
      /\ a[Len(q) + 1] = x
  OBVIOUS
<1> HIDE DEF a
<1>2. QueueIds(a) = QueueIds(q) \cup {x}
  <2>1. \A i \in DOMAIN a : i \in DOMAIN q \/ i = Len(q) + 1
    BY <1>1
  <2>2. Len(q) + 1 \in DOMAIN a /\ \A i \in DOMAIN q : i \in DOMAIN a
    BY <1>1
  <2>. QED  BY <1>1, <2>1, <2>2 DEF QueueIds
<1>3. ASSUME NEW i \in DOMAIN a, NEW j \in DOMAIN a, i < j
      PROVE  rank[a[i]] < rank[a[j]]
  <2>1. i \in DOMAIN q /\ a[i] = q[i] /\ q[i] \in QueueIds(q)
    BY <1>1, <1>3 DEF QueueIds
  <2>2. CASE j \in DOMAIN q
    BY <1>1, <1>3, <2>1, <2>2 DEF Increasing
  <2>3. CASE j = Len(q) + 1
    BY <1>1, <2>1, <2>3
  <2>. QED  BY <1>1, <2>2, <2>3
<1>. QED  BY <1>1, <1>2, <1>3 DEF a, Increasing

\* get_nowait of a queue that is not empty: the item ranks below the rest.
LEMMA GetNowaitIds ==
    ASSUME NEW S, NEW q \in Seq(S), q # <<>>, NEW rank \in [S -> Nat], Increasing(q, rank)
    PROVE  LET item == GetNowait(q).item
               rest == GetNowait(q).rest
           IN  /\ item \in S
               /\ rest \in Seq(S)
               /\ Increasing(rest, rank)
               /\ QueueIds(q) = QueueIds(rest) \cup {item}
               /\ item \notin QueueIds(rest)
               /\ \A y \in QueueIds(rest) : rank[item] < rank[y]
<1> DEFINE item == q[1]
           rest == Tail(q)
<1>1. GetNowait(q).item = item /\ GetNowait(q).rest = rest
  BY DEF GetNowait
<1>2. /\ item \in S /\ rest \in Seq(S) /\ Len(q) \in Nat \ {0}
      /\ DOMAIN q = 1..Len(q) /\ DOMAIN rest = 1..(Len(q) - 1)
      /\ \A i \in DOMAIN rest : rest[i] = q[i + 1] /\ i + 1 \in DOMAIN q
      /\ 1 \in DOMAIN q
  OBVIOUS
<1> HIDE DEF item, rest
<1>3. ASSUME NEW i \in DOMAIN rest, NEW j \in DOMAIN rest, i < j
      PROVE  rank[rest[i]] < rank[rest[j]]
  <2>1. /\ i + 1 \in DOMAIN q /\ j + 1 \in DOMAIN q /\ i + 1 < j + 1
        /\ rest[i] = q[i + 1] /\ rest[j] = q[j + 1]
    BY <1>2, <1>3
  <2>. QED  BY <2>1 DEF Increasing
<1>4. ASSUME NEW y \in QueueIds(rest)
      PROVE  y \in S /\ rank[item] < rank[y]
  <2>1. PICK i \in DOMAIN rest : y = rest[i]
    BY DEF QueueIds
  <2>2. y = q[i + 1] /\ i + 1 \in DOMAIN q /\ 1 < i + 1 /\ item = q[1]
    BY <1>2, <2>1 DEF item
  <2>3. rank[q[1]] < rank[q[i + 1]]
    BY <1>2, <2>2 DEF Increasing
  <2>. QED  BY <1>2, <2>2, <2>3
<1>5. item \notin QueueIds(rest)
  BY <1>2, <1>4
<1>6. QueueIds(q) = QueueIds(rest) \cup {item}
  <2>1. ASSUME NEW x \in QueueIds(q)
        PROVE  x \in QueueIds(rest) \cup {item}
    <3>1. PICK i \in DOMAIN q : x = q[i]
      BY DEF QueueIds
    <3>2. CASE i = 1
      BY <3>1, <3>2 DEF item
    <3>3. CASE i # 1
      <4>1. i - 1 \in DOMAIN rest /\ i = (i - 1) + 1
        BY <1>2, <3>3
      <4>2. rest[i - 1] = q[i]
        BY <1>2, <4>1
      <4>. QED  BY <3>1, <4>1, <4>2 DEF QueueIds
    <3>. QED  BY <3>2, <3>3
  <2>2. QueueIds(rest) \subseteq QueueIds(q)
    BY <1>2 DEF QueueIds
  <2>3. item \in QueueIds(q)
    BY <1>2 DEF QueueIds, item
  <2>. QED  BY <2>1, <2>2, <2>3
<1>. QED  BY <1>1, <1>2, <1>3, <1>4, <1>5, <1>6 DEF Increasing
-----------------------------------------------------------------------------
(***************************************************************************)
(* The queue and its tasks.                                                *)
(***************************************************************************)

\* Types of what _process_next and a direct start assign.
LEMMA ProcessNextType ==
    ASSUME TypeOK, UNCHANGED stamp, NEW tasks \in [Nodes -> TaskState], ProcessNext(tasks)
    PROVE  /\ queue' \in Seq(Nodes)
           /\ isProcessing' \in BOOLEAN
           /\ currentNode' \in Nodes \cup {NoNode}
           /\ currentTask' \in Nodes \cup {NoNode}
           /\ pc' \in [Nodes -> TaskState]
           /\ lastStarted' \in Nat
<1> USE DEF TypeOK, TaskState
<1>1. CASE queue = <<>>
  BY <1>1 DEF ProcessNext
<1>2. CASE queue # <<>>
  <2>1. GetNowait(queue).item \in Nodes /\ GetNowait(queue).rest \in Seq(Nodes)
    BY <1>2 DEF GetNowait
  <2>2. /\ queue' = GetNowait(queue).rest
        /\ Launch(GetNowait(queue).item, nodes, tasks)
    BY <1>2 DEF ProcessNext
  <2>3. stamp'[GetNowait(queue).item] \in Nat
    BY <2>1
  <2> DEFINE item == GetNowait(queue).item
             rest == GetNowait(queue).rest
  <2> HIDE DEF item, rest
  <2>4. item \in Nodes /\ rest \in Seq(Nodes) /\ stamp'[item] \in Nat
        /\ queue' = rest /\ Launch(item, nodes, tasks)
    BY <2>1, <2>2, <2>3 DEF item, rest
  <2>. QED  BY <2>4 DEF Launch
<1>. QED  BY <1>1, <1>2

\* Types of what cancel_tree assigns.
LEMMA CancelTreeType ==
    ASSUME TypeOK, CancelTree
    PROVE  /\ cancelled' \subseteq Nodes
           /\ state' \in [Nodes -> MessageState]
           /\ queue' = <<>> /\ queue' \in Seq(Nodes)
           /\ isProcessing' = FALSE
           /\ currentNode' = NoNode
           /\ currentTask' = currentTask
  BY NoNodeAssumption DEF TypeOK, CancelTree, CancelCurrent, WithError, MessageState

\* Every step keeps the types.
LEMMA TypeStep ==
    ASSUME TypeOK, [Next]_vars
    PROVE  TypeOK'
<1> USE RootAssumption, NoNodeAssumption, MaxCommandsAssumption
<1> USE DEF MessageState, Terminal, TaskState, MessageStep
<1>1. ASSUME ArriveRoot  PROVE TypeOK'
  BY <1>1 DEF TypeOK, ArriveRoot, treeVars, queueVars, taskVars, auxVars
<1>2. ASSUME NEW n \in Nodes, NEW p \in Nodes, ArriveReply(n, p)  PROVE TypeOK'
  BY <1>2 DEF TypeOK, ArriveReply, queueVars, taskVars, auxVars
<1>3. ASSUME NEW n \in Nodes, DropMessage(n)  PROVE TypeOK'
  BY <1>3 DEF TypeOK, DropMessage, treeVars, queueVars, taskVars, auxVars
<1>4. ASSUME NEW n \in Nodes, AddAndEnqueue(n)  PROVE TypeOK'
  <2> DEFINE kids == [p \in Nodes |-> IF p = parent[n] THEN children[p] \cup {n} ELSE children[p]]
  <2>1. kids \in [Nodes -> SUBSET Nodes]
    BY DEF TypeOK
  <2> HIDE DEF kids
  <2>2. stamp' \in [Nodes -> Nat] /\ arrivals' \in Nat /\ msg' \in [Nodes -> MessageStep]
    BY <1>4 DEF TypeOK, AddAndEnqueue
  <2>3. CASE isProcessing
    <3>1. queue' \in Seq(Nodes)
      <4>1. queue' = Append(queue, n) /\ queue \in Seq(Nodes)
        BY <1>4, <2>3 DEF TypeOK, AddAndEnqueue
      <4>. QED  BY <4>1
    <3>. QED  BY <1>4, <2>1, <2>2, <2>3, <3>1 DEF TypeOK, AddAndEnqueue, kids
  <2>4. CASE ~isProcessing
    <3>1. /\ Launch(n, nodes', pc)
          /\ n \in nodes'
          /\ queue' = queue
      BY <1>4, <2>4 DEF AddAndEnqueue
    <3>2. /\ isProcessing' \in BOOLEAN
          /\ currentNode' \in Nodes
          /\ currentTask' \in Nodes
          /\ pc' \in [Nodes -> TaskState]
          /\ lastStarted' \in Nat
      <4>1. pc \in [Nodes -> TaskState] /\ stamp'[n] \in Nat
        BY <2>2 DEF TypeOK
      <4>. QED  BY <3>1, <4>1 DEF Launch
    <3>. QED  BY <1>4, <2>1, <2>2, <3>1, <3>2 DEF TypeOK, AddAndEnqueue, kids
  <2>. QED  BY <2>3, <2>4
<1>5. ASSUME NEW n \in Nodes, CancelledBeforeStart(n)  PROVE TypeOK'
  BY <1>5 DEF TypeOK, CancelledBeforeStart, treeVars, queueVars, chatVars, auxVars
<1>6. ASSUME NEW n \in Nodes, SkipNode(n)  PROVE TypeOK'
  <2>1. [pc EXCEPT ![n] = "done"] \in [Nodes -> TaskState]
    BY DEF TypeOK
  <2>2. ProcessNext([pc EXCEPT ![n] = "done"]) /\ UNCHANGED stamp
    BY <1>6 DEF SkipNode
  <2>3. /\ queue' \in Seq(Nodes)
        /\ isProcessing' \in BOOLEAN
        /\ currentNode' \in Nodes \cup {NoNode}
        /\ currentTask' \in Nodes \cup {NoNode}
        /\ pc' \in [Nodes -> TaskState]
        /\ lastStarted' \in Nat
    BY <2>1, <2>2, ProcessNextType
  <2>. QED  BY <1>6, <2>3 DEF TypeOK, SkipNode, treeVars, chatVars
<1>7. ASSUME NEW n \in Nodes, BeginNode(n)  PROVE TypeOK'
  <2>1. /\ pc \in [Nodes -> TaskState]
        /\ state \in [Nodes -> MessageState]
        /\ hasTree \subseteq Nodes
    BY DEF TypeOK
  <2>2. /\ pc' \in [Nodes -> TaskState]
        /\ state' \in [Nodes -> MessageState]
        /\ hasTree' \subseteq Nodes
    BY <1>7, <2>1 DEF BeginNode
  <2>. QED  BY <1>7, <2>2 DEF TypeOK, BeginNode, queueVars, chatVars, auxVars
<1>8. ASSUME NEW n \in Nodes, SessionInfo(n)  PROVE TypeOK'
  <2>1. state \in [Nodes -> MessageState] /\ session \subseteq Nodes /\ captured \subseteq Nodes
    BY DEF TypeOK
  <2>2. state' \in [Nodes -> MessageState] /\ session' \subseteq Nodes /\ captured' \subseteq Nodes
    BY <1>8, <2>1 DEF SessionInfo
  <2>. QED  BY <1>8, <2>2 DEF TypeOK, SessionInfo, queueVars, chatVars, auxVars
<1>9. ASSUME NEW n \in Nodes, CliError(n)  PROVE TypeOK'
  BY <1>9 DEF TypeOK, CliError, WithError, queueVars, taskVars, chatVars, auxVars
<1>10. ASSUME NEW n \in Nodes, CliExit(n)  PROVE TypeOK'
  <2>1. /\ pc \in [Nodes -> TaskState]
        /\ state \in [Nodes -> MessageState]
        /\ session \subseteq Nodes
    BY DEF TypeOK
  <2>2. /\ pc' \in [Nodes -> TaskState]
        /\ state' \in [Nodes -> MessageState]
        /\ session' \subseteq Nodes
    BY <1>10, <2>1 DEF CliExit
  <2>. QED  BY <1>10, <2>2 DEF TypeOK, CliExit, queueVars, chatVars, auxVars
<1>11. ASSUME NEW n \in Nodes, CliFail(n)  PROVE TypeOK'
  BY <1>11 DEF TypeOK, CliFail, WithError, queueVars, chatVars, auxVars
<1>12. ASSUME NEW n \in Nodes, TaskFails(n)  PROVE TypeOK'
  BY <1>12 DEF TypeOK, TaskFails, WithError, queueVars, chatVars, auxVars
<1>13. ASSUME NEW n \in Nodes, CancelDelivered(n)  PROVE TypeOK'
  BY <1>13 DEF TypeOK, CancelDelivered, treeVars, queueVars, chatVars, auxVars
<1>14. ASSUME NEW n \in Nodes, CancelHandled(n)  PROVE TypeOK'
  BY <1>14 DEF TypeOK, CancelHandled, WithError, queueVars, chatVars, auxVars
<1>15. ASSUME NEW n \in Nodes, FinishNode(n)  PROVE TypeOK'
  <2>1. [pc EXCEPT ![n] = "done"] \in [Nodes -> TaskState]
    BY DEF TypeOK
  <2>2. ProcessNext([pc EXCEPT ![n] = "done"]) /\ UNCHANGED stamp
    BY <1>15 DEF FinishNode
  <2>3. /\ queue' \in Seq(Nodes)
        /\ isProcessing' \in BOOLEAN
        /\ currentNode' \in Nodes \cup {NoNode}
        /\ currentTask' \in Nodes \cup {NoNode}
        /\ pc' \in [Nodes -> TaskState]
        /\ lastStarted' \in Nat
    BY <2>1, <2>2, ProcessNextType
  <2>. QED  BY <1>15, <2>3 DEF TypeOK, FinishNode, treeVars, chatVars
<1>16. ASSUME NEW n \in Nodes, StopNode(n)  PROVE TypeOK'
  <2>1. Without(queue, {n}) \in Seq(Nodes)
    BY WithoutFacts DEF TypeOK
  <2>. QED  BY <1>16, <2>1 DEF TypeOK, StopNode, Issue, CancelCurrent
<1>17. ASSUME NEW n \in Nodes, ClearBegin(n)  PROVE TypeOK'
  <2> DEFINE Branch == {x \in Descendants(nodes, children, n) : state[x] \notin Terminal}
  <2>1. Branch \subseteq Nodes /\ Without(queue, Branch \ {currentNode}) \in Seq(Nodes)
    BY WithoutFacts DEF TypeOK, Descendants
  <2>. QED  BY <1>17, <2>1 DEF TypeOK, ClearBegin, Issue, CancelCurrent, WithError
<1>18. ASSUME NEW n \in Nodes, ClearEnd(n)  PROVE TypeOK'
  <2>1. CASE ~Found(n)
    BY <1>18, <2>1 DEF TypeOK, ClearEnd, treeVars, queueVars, auxVars
  <2>2. CASE Found(n) /\ n = Root
    BY <1>18, <2>2, CancelTreeType DEF TypeOK, ClearEnd, auxVars
  <2>3. CASE Found(n) /\ n # Root
    <3>1. children' \in [Nodes -> SUBSET Nodes]
      <4>1. children' = [children EXCEPT ![parent[n]] = @ \ {n}]
        BY <1>18, <2>3 DEF ClearEnd
      <4>. QED  BY <4>1 DEF TypeOK
    <3>. QED  BY <1>18, <2>3, <3>1 DEF TypeOK, ClearEnd, queueVars, auxVars
  <2>. QED  BY <2>1, <2>2, <2>3
<1>19. ASSUME StopAll  PROVE TypeOK'
  <2>1. CancelTree
    BY <1>19 DEF StopAll
  <2>2. issued' \in 0..MaxCommands
    BY <1>19 DEF TypeOK, StopAll, Issue
  <2>. QED  BY <1>19, <2>1, <2>2, CancelTreeType DEF TypeOK, StopAll, auxVars
<1>20. ASSUME WipeBegin  PROVE TypeOK'
  <2>1. CancelTree
    BY <1>20 DEF WipeBegin
  <2>2. issued' \in 0..MaxCommands
    BY <1>20 DEF TypeOK, WipeBegin, Issue
  <2>. QED  BY <1>20, <2>1, <2>2, CancelTreeType DEF TypeOK, WipeBegin, auxVars
<1>21. ASSUME WipeEnd  PROVE TypeOK'
  BY <1>21 DEF TypeOK, WipeEnd, treeVars, queueVars, taskVars, auxVars
<1>22. ASSUME UNCHANGED vars  PROVE TypeOK'
  BY <1>22 DEF TypeOK, vars, treeVars, queueVars, taskVars, chatVars, auxVars
<1>. QED
  BY <1>1, <1>2, <1>3, <1>4, <1>5, <1>6, <1>7, <1>8, <1>9, <1>10, <1>11, <1>12, <1>13,
     <1>14, <1>15, <1>16, <1>17, <1>18, <1>19, <1>20, <1>21, <1>22
     DEF Next, Message, CliEvent, Task, Command

\* So has a conversation that has not begun.
LEMMA TypeInit == Init => TypeOK
<1>. SUFFICES ASSUME Init  PROVE TypeOK
  OBVIOUS
<1>1. queue \in Seq(Nodes) /\ issued \in 0..MaxCommands
  BY MaxCommandsAssumption DEF Init
<1>. QED  BY <1>1 DEF Init, TypeOK, MessageState, TaskState, MessageStep

\* Type correctness of every state of the conversation.
THEOREM TypeCorrect == Spec => []TypeOK
  BY TypeInit, TypeStep, PTL DEF Spec
-----------------------------------------------------------------------------
(***************************************************************************)
(* QueueInv is inductive.  The actions fall into six groups by what they   *)
(* do to the queue; each group has a lemma.                                *)
(***************************************************************************)

\* Nothing happens to the queue; messages do not join, nodes may leave.
LEMMA QuietStep ==
    ASSUME QueueInv, TypeOK',
           nodes' \subseteq nodes, known' => known,
           \A n \in Nodes : msg[n] = "added" <=> msg'[n] = "added",
           UNCHANGED <<state, queueVars, pc, cancelled, stamp, arrivals, lastStarted>>
    PROVE  QueueInv'
<1> USE DEF QueueInv, queueVars
<1>1. NotJoined' /\ QueueInOrder'
  BY DEF NotJoined, QueueInOrder, QueueIds, Increasing, TypeOK
<1>2. RootFirst' /\ IdleMeansEmpty' /\ FreshState'
  BY RootAssumption DEF RootFirst, IdleMeansEmpty, FreshState
<1>3. CurrentIsTask'
  BY DEF CurrentIsTask, TypeOK
<1>4. PendingAccounted'
  BY DEF PendingAccounted, QueueIds
<1>. QED  BY <1>1, <1>2, <1>3, <1>4

\* The task of n takes a step of its own and does not look at the queue.
LEMMA TaskStep ==
    ASSUME QueueInv, TypeOK', NEW n \in Nodes, pc[n] # "none",
           NEW t \in TaskState \ {"none", "created"}, pc' = [pc EXCEPT ![n] = t],
           \A x \in Nodes : \/ state'[x] = state[x]
                            \/ state'[x] = "error"
                            \/ x = n /\ state'[x] # "pending",
           pc[n] = "created" => n \in cancelled \/ ~known \/ n \notin nodes \/ state'[n] # "pending",
           UNCHANGED <<nodes, queueVars, known, msg, cancelled, stamp, arrivals, lastStarted>>
    PROVE  QueueInv'
<1> USE DEF QueueInv, queueVars, TaskState
<1>1. /\ pc \in [Nodes -> TaskState] /\ pc' \in [Nodes -> TaskState]
      /\ \A x \in Nodes \ {n} : pc'[x] = pc[x]
      /\ pc'[n] = t
  BY DEF TypeOK
<1>2. QueueIds(queue) \subseteq Nodes
  BY DEF TypeOK, QueueIds
<1>3. NotJoined' /\ QueueInOrder'
  <2>1. NotJoined'
    BY <1>1 DEF NotJoined, QueueIds
  <2>2. n \notin QueueIds(queue)
    BY DEF QueueInOrder
  <2>. QED  BY <1>1, <1>2, <2>1, <2>2 DEF QueueInOrder, QueueIds, Increasing
<1>4. RootFirst' /\ IdleMeansEmpty'
  BY DEF RootFirst, IdleMeansEmpty
<1>5. FreshState'
  BY <1>1 DEF FreshState
<1>6. CurrentIsTask'
  BY <1>1 DEF CurrentIsTask, TypeOK
<1>7. PendingAccounted'
  <2>1. SUFFICES ASSUME known, NEW x \in nodes, state'[x] = "pending"
                 PROVE  x \in QueueIds(queue) \/ pc'[x] = "created"
    BY DEF PendingAccounted, QueueIds
  <2>2. x \in Nodes /\ state[x] = "pending"
    BY <2>1 DEF TypeOK
  <2>3. x \in QueueIds(queue) \/ pc[x] = "created"
    BY <2>1, <2>2 DEF PendingAccounted
  <2>4. CASE x = n /\ pc[x] = "created"
    BY <2>1, <2>2, <2>4 DEF CurrentIsTask
  <2>. QED  BY <1>1, <2>2, <2>3, <2>4
<1>. QED  BY <1>3, <1>4, <1>5, <1>6, <1>7

\* The head of the queue joined before the rest of it.
LEMMA HeadOfQueue ==
    ASSUME QueueInv, queue # <<>>,
           NEW item, item = GetNowait(queue).item,
           NEW rest, rest = GetNowait(queue).rest
    PROVE  /\ item \in Nodes
           /\ rest \in Seq(Nodes)
           /\ Increasing(rest, stamp)
           /\ QueueIds(queue) = QueueIds(rest) \cup {item}
           /\ item \notin QueueIds(rest)
           /\ \A y \in QueueIds(rest) : stamp[item] < stamp[y]
<1>1. queue \in Seq(Nodes) /\ stamp \in [Nodes -> Nat] /\ Increasing(queue, stamp)
  BY DEF QueueInv, TypeOK, QueueInOrder
<1>. QED  BY <1>1, GetNowaitIds

\* The task of n ends and _process_next looks at the queue.
LEMMA NextFromQueue ==
    ASSUME QueueInv, TypeOK', NEW n \in Nodes, pc[n] # "none",
           pc[n] = "created" => state[n] = "error",
           ProcessNext([pc EXCEPT ![n] = "done"]),
           UNCHANGED <<treeVars, known, msg, cancelled, stamp, arrivals>>
    PROVE  QueueInv'
<1> USE DEF QueueInv, treeVars
<1> DEFINE tasks == [pc EXCEPT ![n] = "done"]
<1>1. /\ tasks \in [Nodes -> TaskState] /\ tasks[n] = "done"
      /\ \A x \in Nodes \ {n} : tasks[x] = pc[x]
      /\ \A x \in Nodes : tasks[x] = "none" <=> pc[x] = "none"
      /\ \A x \in Nodes : tasks[x] \in {"none", "created"} => tasks[x] = pc[x]
  BY DEF TypeOK, TaskState
<1>2. ProcessNext(tasks)
  OBVIOUS
<1> HIDE DEF tasks
<1>3. CASE queue = <<>>
  <2>1. /\ queue' = queue /\ isProcessing' = FALSE /\ currentNode' = NoNode
        /\ pc' = tasks /\ currentTask' = currentTask /\ lastStarted' = lastStarted
    BY <1>2, <1>3 DEF ProcessNext
  <2>2. QueueIds(queue) = {}
    BY <1>3 DEF QueueIds
  <2>3. NotJoined' /\ QueueInOrder'
    BY <1>1, <1>3, <2>1, <2>2 DEF NotJoined, QueueInOrder, QueueIds, Increasing
  <2>4. RootFirst' /\ IdleMeansEmpty' /\ FreshState'
    BY <1>1, <1>3, <2>1 DEF RootFirst, IdleMeansEmpty, FreshState
  <2>5. CurrentIsTask'
    BY <1>1, <2>1, NoNodeAssumption DEF CurrentIsTask, TypeOK
  <2>6. PendingAccounted'
    <3>1. SUFFICES ASSUME known, NEW x \in nodes, state[x] = "pending"
                   PROVE  tasks[x] = "created"
      BY <2>1 DEF PendingAccounted
    <3>2. x \in Nodes /\ pc[x] = "created"
      BY <2>2, <3>1 DEF PendingAccounted, TypeOK
    <3>. QED  BY <1>1, <3>1, <3>2
  <2>. QED  BY <2>3, <2>4, <2>5, <2>6
<1>4. CASE queue # <<>>
  <2> DEFINE item == GetNowait(queue).item
             rest == GetNowait(queue).rest
  <2>1. /\ item \in Nodes
        /\ rest \in Seq(Nodes)
        /\ Increasing(rest, stamp)
        /\ QueueIds(queue) = QueueIds(rest) \cup {item}
        /\ item \notin QueueIds(rest)
        /\ \A y \in QueueIds(rest) : stamp[item] < stamp[y]
    BY <1>4, HeadOfQueue
  <2>2. queue' = rest /\ Launch(item, nodes, tasks)
    BY <1>2, <1>4 DEF ProcessNext
  <2> HIDE DEF item, rest
  <2>3. /\ msg[item] = "added" /\ pc[item] = "none" /\ tasks[item] = "none"
        /\ lastStarted < stamp[item] /\ item # n
    BY <1>1, <2>1 DEF NotJoined, QueueInOrder
  <2>4. /\ isProcessing' = TRUE /\ currentNode' = item
        /\ \/ /\ item \in nodes
              /\ currentTask' = item
              /\ pc' = [tasks EXCEPT ![item] = "created"]
              /\ lastStarted' = stamp[item]
           \/ item \notin nodes /\ pc' = tasks /\ currentTask' = currentTask
              /\ lastStarted' = lastStarted
    BY <2>2 DEF Launch
  <2>5. /\ \A x \in Nodes \ {item} : pc'[x] = tasks[x]
        /\ item \in nodes => pc'[item] = "created"
        /\ item \notin nodes => pc'[item] = "none"
    BY <1>1, <2>1, <2>3, <2>4
  <2>6. NotJoined'
    BY <1>1, <2>1, <2>2, <2>3, <2>5 DEF NotJoined
  <2>7. QueueInOrder'
    <3>1. lastStarted' \in {stamp[item], lastStarted} /\ lastStarted' <= arrivals
      BY <2>1, <2>4 DEF QueueInOrder
    <3>2. ASSUME NEW y \in QueueIds(rest)
          PROVE  lastStarted' < stamp[y] /\ pc'[y] = "none"
      <4>1. y \in QueueIds(queue) /\ y # item /\ stamp[item] < stamp[y]
        BY <2>1
      <4>2. y \in Nodes
        BY <4>1 DEF TypeOK, QueueIds
      <4>3. lastStarted < stamp[y] /\ pc[y] = "none"
        BY <4>1 DEF QueueInOrder
      <4>. QED  BY <1>1, <2>5, <3>1, <4>1, <4>2, <4>3
    <3>. QED  BY <2>1, <2>2, <3>1, <3>2 DEF QueueInOrder
  <2>8. FreshState'
    BY <1>1, <2>1, <2>3, <2>5 DEF FreshState
  <2>9. CurrentIsTask'
    <3>1. item \notin cancelled
      BY <2>3 DEF CurrentIsTask
    <3>2. currentTask \in Nodes \cup {NoNode} /\ cancelled \subseteq Nodes
      BY DEF TypeOK
    <3>3. CASE item \in nodes
      BY <1>1, <2>1, <2>3, <2>4, <2>5, <3>1, <3>2, <3>3 DEF CurrentIsTask
    <3>4. CASE item \notin nodes
      BY <1>1, <2>1, <2>3, <2>4, <2>5, <3>1, <3>2, <3>4 DEF CurrentIsTask
    <3>. QED  BY <3>3, <3>4
  <2>10. PendingAccounted'
    <3>1. SUFFICES ASSUME known, NEW x \in nodes, state[x] = "pending"
                   PROVE  x \in QueueIds(rest) \/ pc'[x] = "created"
      BY <2>2 DEF PendingAccounted
    <3>2. x \in Nodes /\ (x \in QueueIds(queue) \/ pc[x] = "created")
      BY <3>1 DEF PendingAccounted, TypeOK
    <3>. QED  BY <1>1, <2>1, <2>5, <3>1, <3>2
  <2>11. RootFirst' /\ IdleMeansEmpty'
    BY <2>4 DEF RootFirst, IdleMeansEmpty
  <2>. QED  BY <2>6, <2>7, <2>8, <2>9, <2>10, <2>11
<1>. QED  BY <1>3, <1>4

\* cancel_tree, whether or not the manager then forgets the tree.
LEMMA CancelTreeStep ==
    ASSUME QueueInv, TypeOK', CancelTree, known' => known,
           UNCHANGED <<nodes, pc, msg, stamp, arrivals, lastStarted>>
    PROVE  QueueInv'
<1> USE DEF QueueInv
<1> DEFINE Active == {x \in nodes : state[x] \notin Terminal}
           Queued == QueueIds(queue) \cap nodes
<1>1. /\ queue' = <<>> /\ QueueIds(queue') = {}
      /\ isProcessing' = FALSE /\ currentNode' = NoNode /\ currentTask' = currentTask
  BY DEF CancelTree, QueueIds
<1>2. \A x \in Nodes : /\ state'[x] = state[x] \/ state'[x] = "error"
                       /\ x \in nodes => state'[x] \in Terminal
  <2>1. state' = WithError(Active \cup Queued)
    BY DEF CancelTree
  <2>. QED  BY <2>1 DEF WithError, Terminal
<1>3. cancelled' \subseteq cancelled \cup ({currentTask} \ {NoNode})
  BY DEF CancelTree, CancelCurrent
<1>4. NotJoined' /\ QueueInOrder'
  BY <1>1 DEF NotJoined, QueueInOrder, Increasing
<1>5. RootFirst' /\ IdleMeansEmpty'
  BY <1>1 DEF RootFirst, IdleMeansEmpty
<1>6. FreshState'
  BY <1>2 DEF FreshState
<1>7. PendingAccounted'
  BY <1>2 DEF PendingAccounted, TypeOK, Terminal
<1>8. CurrentIsTask'
  <2>1. \A x \in cancelled' : x \in Nodes /\ pc[x] # "none"
    BY <1>3 DEF CurrentIsTask, TypeOK
  <2>2. \A x \in cancelled' : x \in nodes /\ pc[x] = "created" => state'[x] = "error"
    BY <1>2, <1>6, <2>1 DEF FreshState, Terminal
  <2>. QED  BY <1>1, <2>1, <2>2, NoNodeAssumption DEF CurrentIsTask, TypeOK
<1>. QED  BY <1>4, <1>5, <1>6, <1>7, <1>8

\* cancel_node and cancel_branch: the nodes of S fail, those of B leave the
\* queue, and the current task is cancelled if its node is one of S.
LEMMA CancelSomeStep ==
    ASSUME QueueInv, TypeOK', NEW S \in SUBSET nodes, NEW B \in SUBSET S,
           cancelled' = IF currentNode \in S THEN CancelCurrent ELSE cancelled,
           queue' = Without(queue, B),
           state' = WithError(S),
           UNCHANGED <<nodes, isProcessing, currentNode, currentTask, pc, known, msg,
                       stamp, arrivals, lastStarted>>
    PROVE  QueueInv'
<1> USE DEF QueueInv
<1>1. /\ QueueIds(queue') = QueueIds(queue) \ B
      /\ Increasing(queue', stamp)
  <2>1. queue \in Seq(Nodes) /\ stamp \in [Nodes -> Nat] /\ Increasing(queue, stamp)
    BY DEF TypeOK, QueueInOrder
  <2>. QED  BY <2>1, WithoutIds
<1>2. /\ \A x \in Nodes : state'[x] = IF x \in S THEN "error" ELSE state[x]
      /\ S \subseteq Nodes
  BY DEF WithError, TypeOK
<1>3. NotJoined' /\ QueueInOrder'
  BY <1>1 DEF NotJoined, QueueInOrder
<1>4. RootFirst' /\ FreshState'
  BY <1>2 DEF RootFirst, FreshState
<1>5. IdleMeansEmpty'
  BY WithoutEmpty DEF IdleMeansEmpty
<1>6. PendingAccounted'
  BY <1>1, <1>2 DEF PendingAccounted, TypeOK
<1>7. CurrentIsTask'
  <2>1. \A x \in cancelled' : x \in cancelled \/ (x = currentNode /\ x \in S /\ pc[x] # "none")
    <3>1. CASE currentNode \in S
      <4>1. currentNode \in nodes /\ currentTask = currentNode
        BY <3>1 DEF CurrentIsTask
      <4>2. currentTask # NoNode => pc[currentTask] # "none"
        BY DEF CurrentIsTask
      <4>3. cancelled' = CancelCurrent
        BY <3>1
      <4>4. CancelCurrent \subseteq cancelled \cup ({currentTask} \ {NoNode})
        BY DEF CancelCurrent
      <4>. QED  BY <3>1, <4>1, <4>2, <4>3, <4>4
    <3>2. CASE currentNode \notin S
      BY <3>2
    <3>. QED  BY <3>1, <3>2
  <2>2. \A x \in cancelled' : x \in Nodes /\ pc[x] # "none"
    BY <1>2, <2>1 DEF CurrentIsTask, TypeOK
  <2>3. \A x \in cancelled' : x \in nodes /\ pc[x] = "created" => state'[x] = "error"
    BY <1>2, <2>1, <2>2 DEF CurrentIsTask
  <2>. QED  BY <2>2, <2>3 DEF CurrentIsTask, TypeOK
<1>. QED  BY <1>3, <1>4, <1>5, <1>6, <1>7

\* create_tree or add_to_tree, and enqueue.
LEMMA JoinStep ==
    ASSUME QueueInv, TypeOK', NEW n \in Nodes, AddAndEnqueue(n)
    PROVE  QueueInv'
<1> USE DEF QueueInv
<1>1. /\ msg[n] = "sending" /\ pc[n] = "none" /\ stamp[n] = 0
      /\ n \notin nodes /\ n \notin QueueIds(queue) /\ n \notin cancelled
      /\ n # currentNode
  <2>1. msg[n] = "sending"
    BY DEF AddAndEnqueue
  <2>2. n # currentNode
    BY <2>1, NoNodeAssumption DEF CurrentIsTask
  <2>. QED  BY <2>1, <2>2 DEF NotJoined, CurrentIsTask
<1>2. /\ nodes' = nodes \cup {n} /\ known' = TRUE
      /\ state' = state /\ cancelled' = cancelled
      /\ arrivals' = arrivals + 1 /\ stamp'[n] = arrivals + 1
      /\ msg'[n] = "added"
      /\ \A x \in Nodes \ {n} : stamp'[x] = stamp[x] /\ msg'[x] = msg[x]
      /\ stamp' \in [Nodes -> Nat] /\ arrivals \in Nat /\ lastStarted \in Nat
  BY DEF AddAndEnqueue, TypeOK
<1>3. known \/ nodes = {}
  BY <1>1 DEF AddAndEnqueue, Found, RootFirst
<1>4. QueueIds(queue) \subseteq Nodes \ {n}
  BY <1>1 DEF TypeOK, QueueIds
<1>5. /\ Increasing(queue, stamp')
      /\ \A y \in QueueIds(queue) : /\ stamp'[y] = stamp[y] /\ stamp[y] <= arrivals
                                    /\ lastStarted < stamp[y] /\ pc[y] = "none"
  <2>1. \A y \in QueueIds(queue) : y \in Nodes \ {n}
    BY <1>4
  <2>2. \A i \in DOMAIN queue : stamp'[queue[i]] = stamp[queue[i]]
    BY <1>2, <2>1 DEF QueueIds
  <2>3. Increasing(queue, stamp')
    BY <2>2 DEF QueueInOrder, Increasing
  <2>. QED  BY <1>2, <2>1, <2>3 DEF QueueInOrder
<1>9. \A x \in Nodes : stamp'[x] <= arrivals'
  <2>1. \A x \in Nodes : stamp[x] \in Nat /\ stamp[x] <= arrivals
    BY DEF TypeOK, QueueInOrder
  <2>. QED  BY <1>2, <2>1
<1>6. FreshState' /\ RootFirst'
  <2>1. RootFirst'
    BY <1>2, <1>3, RootAssumption DEF RootFirst, AddAndEnqueue, Found
  <2>2. \A x \in Nodes : pc'[x] = pc[x] \/ x = n
    BY DEF AddAndEnqueue, Launch, TypeOK
  <2>. QED  BY <1>1, <1>2, <2>1, <2>2 DEF FreshState
<1>7. CASE isProcessing
  <2>1. /\ queue' = Append(queue, n)
        /\ UNCHANGED <<isProcessing, currentNode, currentTask, pc, lastStarted>>
    BY <1>7 DEF AddAndEnqueue
  <2>2. /\ QueueIds(queue') = QueueIds(queue) \cup {n}
        /\ Increasing(queue', stamp')
    <3>1. \A y \in QueueIds(queue) : stamp'[y] < stamp'[n]
      <4>1. \A y \in QueueIds(queue) : stamp[y] \in Nat
        BY <1>4 DEF TypeOK
      <4>. QED  BY <1>2, <1>5, <4>1
    <3>2. queue \in Seq(Nodes)
      BY DEF TypeOK
    <3>. QED  BY <1>2, <1>5, <2>1, <3>1, <3>2, AppendIds
  <2>3. NotJoined'
    BY <1>2, <2>1, <2>2 DEF NotJoined
  <2>4. QueueInOrder'
    <3>1. lastStarted' <= arrivals' /\ lastStarted' < stamp'[n]
      BY <1>2, <2>1 DEF QueueInOrder
    <3>2. \A y \in QueueIds(queue') : lastStarted' < stamp'[y] /\ pc'[y] = "none"
      BY <1>1, <1>5, <2>1, <2>2, <3>1
    <3>. QED  BY <1>9, <2>2, <3>1, <3>2 DEF QueueInOrder
  <2>5. CurrentIsTask'
    BY <1>1, <1>2, <2>1 DEF CurrentIsTask, TypeOK
  <2>6. IdleMeansEmpty' /\ PendingAccounted'
    BY <1>2, <1>3, <1>7, <2>1, <2>2 DEF IdleMeansEmpty, PendingAccounted
  <2>. QED  BY <1>6, <2>3, <2>4, <2>5, <2>6
<1>8. CASE ~isProcessing
  <2>1. /\ queue' = queue /\ queue = <<>> /\ QueueIds(queue') = {}
        /\ Launch(n, nodes', pc)
    BY <1>8 DEF AddAndEnqueue, IdleMeansEmpty, QueueIds
  <2>2. /\ isProcessing' = TRUE /\ currentNode' = n /\ currentTask' = n
        /\ lastStarted' = arrivals + 1
        /\ pc'[n] = "created" /\ \A x \in Nodes \ {n} : pc'[x] = pc[x]
    BY <1>2, <2>1 DEF Launch, TypeOK, TaskState
  <2>3. NotJoined'
    BY <1>2, <2>1, <2>2 DEF NotJoined
  <2>4. QueueInOrder'
    <3>1. lastStarted' <= arrivals'
      BY <1>2, <2>2
    <3>2. Increasing(queue', stamp')
      BY <2>1 DEF Increasing
    <3>. QED  BY <1>9, <2>1, <3>1, <3>2 DEF QueueInOrder
  <2>5. CurrentIsTask'
    BY <1>1, <1>2, <2>2 DEF CurrentIsTask, TypeOK
  <2>6. IdleMeansEmpty'
    BY <2>2 DEF IdleMeansEmpty
  <2>7. PendingAccounted'
    BY <1>2, <1>3, <2>1, <2>2 DEF PendingAccounted, QueueIds, TypeOK
  <2>. QED  BY <1>6, <2>3, <2>4, <2>5, <2>6, <2>7
<1>. QED  BY <1>7, <1>8

\* Every step of the conversation preserves QueueInv.
LEMMA QueueInvStep ==
    ASSUME QueueInv, [Next]_vars
    PROVE  QueueInv'
<1>. TypeOK /\ TypeOK'
  BY TypeStep DEF QueueInv
<1> USE DEF treeVars, queueVars, taskVars, chatVars, auxVars
<1>1. ASSUME ArriveRoot  PROVE QueueInv'
  BY <1>1, QuietStep, RootAssumption DEF ArriveRoot, TypeOK
<1>2. ASSUME NEW n \in Nodes, NEW p \in Nodes, ArriveReply(n, p)  PROVE QueueInv'
  BY <1>2, QuietStep DEF ArriveReply, TypeOK
<1>3. ASSUME NEW n \in Nodes, DropMessage(n)  PROVE QueueInv'
  BY <1>3, QuietStep DEF DropMessage, TypeOK
<1>4. ASSUME NEW n \in Nodes, AddAndEnqueue(n)  PROVE QueueInv'
  BY <1>4, JoinStep
<1>5. ASSUME NEW n \in Nodes, CancelledBeforeStart(n)  PROVE QueueInv'
  BY <1>5, TaskStep DEF CancelledBeforeStart, TaskState
<1>6. ASSUME NEW n \in Nodes, SkipNode(n)  PROVE QueueInv'
  BY <1>6, NextFromQueue DEF SkipNode
<1>7. ASSUME NEW n \in Nodes, BeginNode(n)  PROVE QueueInv'
  <2>1. pc[n] = "created" /\ pc' = [pc EXCEPT ![n] = "running"]
    BY <1>7 DEF BeginNode
  <2>2. \A x \in Nodes : state'[x] = state[x] \/ (x = n /\ state'[x] = "in_progress")
    BY <1>7 DEF BeginNode, TypeOK
  <2>3. ~known \/ n \notin nodes \/ state'[n] = "in_progress"
    BY <1>7 DEF BeginNode, Found, TypeOK
  <2>. QED  BY <1>7, <2>1, <2>2, <2>3, TaskStep DEF BeginNode, TaskState
<1>8. ASSUME NEW n \in Nodes, SessionInfo(n)  PROVE QueueInv'
  <2>1. pc[n] = "running" /\ pc' = [pc EXCEPT ![n] = "running"]
    BY <1>8 DEF SessionInfo, Reading, TypeOK
  <2>2. \A x \in Nodes : state'[x] = state[x] \/ (x = n /\ state'[x] = "in_progress")
    BY <1>8 DEF SessionInfo, TypeOK
  <2>. QED  BY <1>8, <2>1, <2>2, TaskStep DEF SessionInfo, TaskState
<1>9. ASSUME NEW n \in Nodes, CliError(n)  PROVE QueueInv'
  <2>1. pc[n] = "running" /\ pc' = [pc EXCEPT ![n] = "running"]
    BY <1>9 DEF CliError, Reading, TypeOK
  <2>2. \A x \in Nodes : state'[x] = state[x] \/ state'[x] = "error"
    BY <1>9 DEF CliError, WithError
  <2>. QED  BY <1>9, <2>1, <2>2, TaskStep DEF CliError, TaskState
<1>10. ASSUME NEW n \in Nodes, CliExit(n)  PROVE QueueInv'
  <2>1. pc[n] = "running" /\ pc' = [pc EXCEPT ![n] = "closing"]
    BY <1>10 DEF CliExit, Reading
  <2>2. \A x \in Nodes : state'[x] = state[x] \/ (x = n /\ state'[x] = "completed")
    BY <1>10 DEF CliExit, TypeOK
  <2>. QED  BY <1>10, <2>1, <2>2, TaskStep DEF CliExit, TaskState
<1>11. ASSUME NEW n \in Nodes, CliFail(n)  PROVE QueueInv'
  <2>1. pc[n] = "running" /\ pc' = [pc EXCEPT ![n] = "closing"]
    BY <1>11 DEF CliFail, Reading
  <2>2. \A x \in Nodes : \/ state'[x] = state[x] \/ state'[x] = "error"
                         \/ x = n /\ state'[x] = "completed"
    BY <1>11 DEF CliFail, WithError
  <2>. QED  BY <1>11, <2>1, <2>2, TaskStep DEF CliFail, TaskState
<1>12. ASSUME NEW n \in Nodes, TaskFails(n)  PROVE QueueInv'
  <2>1. pc[n] = "running" /\ pc' = [pc EXCEPT ![n] = "closing"]
    BY <1>12 DEF TaskFails, Reading
  <2>2. \A x \in Nodes : state'[x] = state[x] \/ state'[x] = "error"
    BY <1>12 DEF TaskFails, WithError
  <2>. QED  BY <1>12, <2>1, <2>2, TaskStep DEF TaskFails, TaskState
<1>13. ASSUME NEW n \in Nodes, CancelDelivered(n)  PROVE QueueInv'
  BY <1>13, TaskStep DEF CancelDelivered, TaskState
<1>14. ASSUME NEW n \in Nodes, CancelHandled(n)  PROVE QueueInv'
  <2>1. \A x \in Nodes : state'[x] = state[x] \/ state'[x] = "error"
    BY <1>14 DEF CancelHandled, WithError
  <2>. QED  BY <1>14, <2>1, TaskStep DEF CancelHandled, TaskState
<1>15. ASSUME NEW n \in Nodes, FinishNode(n)  PROVE QueueInv'
  BY <1>15, NextFromQueue DEF FinishNode
<1>16. ASSUME NEW n \in Nodes, StopNode(n)  PROVE QueueInv'
  <2>1. {n} \in SUBSET nodes /\ {n} \in SUBSET {n}
    BY <1>16 DEF StopNode, Found
  <2>2. cancelled' = IF currentNode \in {n} THEN CancelCurrent ELSE cancelled
    BY <1>16 DEF StopNode
  <2>3. state' = WithError({n})
    BY <1>16 DEF StopNode, WithError, TypeOK
  <2>. QED  BY <1>16, <2>1, <2>2, <2>3, CancelSomeStep DEF StopNode
<1>17. ASSUME NEW n \in Nodes, ClearBegin(n)  PROVE QueueInv'
  <2> DEFINE Branch == {x \in Descendants(nodes, children, n) : state[x] \notin Terminal}
  <2>1. Branch \in SUBSET nodes /\ Branch \ {currentNode} \in SUBSET Branch
    BY DEF Descendants
  <2>2. /\ cancelled' = IF currentNode \in Branch THEN CancelCurrent ELSE cancelled
        /\ queue' = Without(queue, Branch \ {currentNode})
        /\ state' = WithError(Branch)
        /\ UNCHANGED <<nodes, isProcessing, currentNode, currentTask, pc, known, msg,
                       stamp, arrivals, lastStarted>>
    BY <1>17 DEF ClearBegin
  <2> HIDE DEF Branch
  <2>. QED  BY <2>1, <2>2, CancelSomeStep
<1>18. ASSUME NEW n \in Nodes, ClearEnd(n)  PROVE QueueInv'
  <2>1. CASE Found(n) /\ n = Root
    BY <1>18, <2>1, CancelTreeStep DEF ClearEnd
  <2>2. CASE ~(Found(n) /\ n = Root)
    BY <1>18, <2>2, QuietStep DEF ClearEnd
  <2>. QED  BY <2>1, <2>2
<1>19. ASSUME StopAll  PROVE QueueInv'
  BY <1>19, CancelTreeStep DEF StopAll
<1>20. ASSUME WipeBegin  PROVE QueueInv'
  BY <1>20, CancelTreeStep DEF WipeBegin
<1>21. ASSUME WipeEnd  PROVE QueueInv'
  BY <1>21, QuietStep DEF WipeEnd
<1>22. ASSUME UNCHANGED vars  PROVE QueueInv'
  BY <1>22, QuietStep DEF vars
<1>. QED
  BY <1>1, <1>2, <1>3, <1>4, <1>5, <1>6, <1>7, <1>8, <1>9, <1>10, <1>11, <1>12, <1>13,
     <1>14, <1>15, <1>16, <1>17, <1>18, <1>19, <1>20, <1>21, <1>22
     DEF Next, Message, CliEvent, Task, Command

\* The bookkeeping of the queue is right in every state.
THEOREM QueueInvariant == Spec => []QueueInv
<1>1. ASSUME Init  PROVE QueueInv
  <2>1. TypeOK
    BY <1>1, TypeInit
  <2>2. QueueIds(queue) = {} /\ Increasing(queue, stamp)
    BY <1>1 DEF Init, QueueIds, Increasing
  <2>3. NotJoined /\ RootFirst /\ QueueInOrder
    BY <1>1, <2>2 DEF Init, NotJoined, RootFirst, QueueInOrder
  <2>4. FreshState /\ CurrentIsTask /\ IdleMeansEmpty /\ PendingAccounted
    BY <1>1, NoNodeAssumption
       DEF Init, FreshState, CurrentIsTask, IdleMeansEmpty, PendingAccounted
  <2>. QED  BY <2>1, <2>3, <2>4 DEF QueueInv
<1>. QED  BY <1>1, QueueInvStep, PTL DEF Spec

\* An idle tree never has a queue: enqueue_and_start overtakes nobody.
THEOREM IdleIsEmpty == Spec => []IdleMeansEmpty
<1>1. QueueInv => IdleMeansEmpty
  BY DEF QueueInv
<1>. QED  BY <1>1, QueueInvariant, PTL

\* No message is forgotten by the queue.
THEOREM NothingForgotten == Spec => []PendingAccounted
<1>1. QueueInv => PendingAccounted
  BY DEF QueueInv
<1>. QED  BY <1>1, QueueInvariant, PTL

\* _process_next may hand what it dequeues to process_node without looking.
THEOREM QueueIsFresh == Spec => []QueueFresh
<1>1. ASSUME QueueInv  PROVE QueueFresh
  <2>1. queue \in Seq(Nodes) /\ stamp \in [Nodes -> Nat]
    BY <1>1 DEF QueueInv, TypeOK
  <2>2. ASSUME NEW i \in DOMAIN queue, NEW j \in DOMAIN queue, queue[i] = queue[j]
        PROVE  i = j
    <3>1. i \in Nat /\ j \in Nat /\ stamp[queue[i]] \in Nat
      BY <2>1
    <3>2. i < j => stamp[queue[i]] < stamp[queue[j]]
      BY <1>1 DEF QueueInv, QueueInOrder, Increasing
    <3>3. j < i => stamp[queue[j]] < stamp[queue[i]]
      BY <1>1 DEF QueueInv, QueueInOrder, Increasing
    <3>. QED  BY <2>2, <3>1, <3>2, <3>3
  <2>3. ASSUME NEW i \in DOMAIN queue
        PROVE  pc[queue[i]] = "none" /\ state[queue[i]] \in {"pending", "error"}
    <3>1. queue[i] \in Nodes /\ queue[i] \in QueueIds(queue)
      BY <2>1 DEF QueueIds
    <3>2. pc[queue[i]] = "none"
      BY <1>1, <3>1 DEF QueueInv, QueueInOrder
    <3>. QED  BY <1>1, <3>1, <3>2 DEF QueueInv, FreshState
  <2>. QED  BY <2>2, <2>3 DEF QueueFresh
<1>. QED  BY <1>1, QueueInvariant, PTL
-----------------------------------------------------------------------------
(***************************************************************************)
(* The queue implements OrderedService.                                    *)
(***************************************************************************)

\* What _process_next starts joined after everything started before.
LEMMA StartFromQueue ==
    ASSUME QueueInv, NEW tasks, ProcessNext(tasks), UNCHANGED <<stamp, arrivals>>
    PROVE  [Order!Next]_<<stamp, arrivals, lastStarted>>
<1>1. CASE queue = <<>>
  BY <1>1 DEF ProcessNext
<1>2. CASE queue # <<>>
  <2> DEFINE item == GetNowait(queue).item
             rest == GetNowait(queue).rest
  <2>1. item \in Nodes /\ QueueIds(queue) = QueueIds(rest) \cup {item}
    BY <1>2, HeadOfQueue
  <2>2. Launch(item, nodes, tasks)
    BY <1>2 DEF ProcessNext
  <2> HIDE DEF item
  <2>3. lastStarted < stamp'[item]
    BY <2>1 DEF QueueInv, QueueInOrder
  <2>4. lastStarted' = stamp'[item] \/ lastStarted' = lastStarted
    BY <2>2 DEF Launch
  <2>. QED  BY <2>1, <2>3, <2>4 DEF Order!Next, Order!Start
<1>. QED  BY <1>1, <1>2

\* A message that joins is stamped once, and started at once or not yet.
LEMMA StartOnArrival ==
    ASSUME QueueInv, NEW n \in Nodes, AddAndEnqueue(n)
    PROVE  Order!Next
<1>1. /\ stamp[n] = 0 /\ arrivals \in Nat /\ lastStarted \in Nat /\ lastStarted <= arrivals
      /\ stamp \in [Nodes -> Nat]
  BY DEF QueueInv, AddAndEnqueue, NotJoined, QueueInOrder, TypeOK
<1>2. Order!Join(n)
  BY <1>1 DEF Order!Join, AddAndEnqueue
<1>3. stamp'[n] = arrivals + 1
  BY <1>1 DEF AddAndEnqueue
<1>4. lastStarted' = lastStarted \/ lastStarted' = stamp'[n]
  BY DEF AddAndEnqueue, Launch
<1>. QED  BY <1>1, <1>2, <1>3, <1>4 DEF Order!Next, Order!Start

\* Messages of a conversation start in the order in which they joined it,
\* each at most once.
THEOREM OrderedStarts == Spec => StartsInOrder
<1>1. Init => Order!Init
  BY DEF Init, Order!Init
<1>2. ASSUME QueueInv, [Next]_vars
      PROVE  [Order!Next]_<<stamp, arrivals, lastStarted>>
  <2> USE <1>2 DEF auxVars
  <2>1. ASSUME NEW n \in Nodes, Message(n)
        PROVE  [Order!Next]_<<stamp, arrivals, lastStarted>>
    BY <2>1, StartOnArrival DEF Message, ArriveRoot, ArriveReply, DropMessage
  <2>2. ASSUME NEW n \in Nodes, CliEvent(n)
        PROVE  UNCHANGED <<stamp, arrivals, lastStarted>>
    BY <2>2 DEF CliEvent, SessionInfo, CliError, CliExit, CliFail, TaskFails
  <2>3. ASSUME NEW n \in Nodes, Task(n)
        PROVE  [Order!Next]_<<stamp, arrivals, lastStarted>>
    <3>1. CASE SkipNode(n)
      BY <3>1, StartFromQueue DEF SkipNode
    <3>2. CASE FinishNode(n)
      BY <3>2, StartFromQueue DEF FinishNode
    <3>. QED
      BY <2>3, <3>1, <3>2 DEF Task, CancelledBeforeStart, BeginNode, CancelDelivered, CancelHandled
  <2>4. ASSUME Command
        PROVE  UNCHANGED <<stamp, arrivals, lastStarted>>
    BY <2>4 DEF Command, StopNode, ClearBegin, ClearEnd, StopAll, WipeBegin, WipeEnd
  <2>. QED  BY <2>1, <2>2, <2>3, <2>4 DEF Next, vars
<1>. QED  BY <1>1, <1>2, QueueInvariant, PTL DEF Spec, StartsInOrder, Order!Spec
-----------------------------------------------------------------------------
(***************************************************************************)
(* Late CLI events.                                                        *)
(***************************************************************************)

\* Once cancel() was called on the task of a node that is in ERROR, no event
\* its CLI has already printed brings the node back.
THEOREM CancellationSticks == Spec => CancelSticks
<1>1. ASSUME TypeOK, [Next]_vars
      PROVE  \A n \in Nodes : n \in cancelled /\ state[n] = "error" => state'[n] = "error"
  <2> SUFFICES ASSUME NEW n \in Nodes, n \in cancelled, state[n] = "error"
               PROVE  state'[n] = "error"
    OBVIOUS
  <2> USE <1>1 DEF treeVars
  <2>1. ASSUME NEW m \in Nodes, Message(m)  PROVE state'[n] = "error"
    BY <2>1 DEF Message, ArriveRoot, ArriveReply, DropMessage, AddAndEnqueue
  <2>2. ASSUME NEW m \in Nodes, CliEvent(m)  PROVE state'[n] = "error"
    <3>1. m # n
      BY <2>2 DEF CliEvent, SessionInfo, CliError, CliExit, CliFail, TaskFails, Reading
    <3>. QED
      BY <2>2, <3>1 DEF CliEvent, SessionInfo, CliError, CliExit, CliFail, TaskFails,
                        WithError, TypeOK
  <2>3. ASSUME NEW m \in Nodes, Task(m)  PROVE state'[n] = "error"
    BY <2>3 DEF Task, CancelledBeforeStart, SkipNode, BeginNode, CancelDelivered,
                CancelHandled, FinishNode, WithError, TypeOK
  <2>4. ASSUME Command  PROVE state'[n] = "error"
    BY <2>4 DEF Command, StopNode, ClearBegin, ClearEnd, StopAll, WipeBegin, WipeEnd,
                CancelTree, WithError, TypeOK
  <2>. QED  BY <2>1, <2>2, <2>3, <2>4 DEF Next, vars
<1>. QED  BY <1>1, TypeCorrect, PTL DEF Spec, CancelSticks
-----------------------------------------------------------------------------
(***************************************************************************)
(* One task at a time, as long as no command cancels the whole tree.       *)
(***************************************************************************)

BranchCommandsOnly == Commands \cap {"stop_all", "clear_tree", "clear_all"} = {}

\* A task that has not returned is the current one, and the tree is busy.
AliveIsCurrent ==
    /\ Root \notin clearing
    /\ ~wiping
    /\ \A n \in Alive : n = currentTask /\ n = currentNode /\ isProcessing

\* What starts when the task of n, the only one alive, has returned.
LEMMA HandOver ==
    ASSUME QueueInv, AliveIsCurrent, NEW n \in Alive, UNCHANGED <<clearing, wiping>>,
           ProcessNext([pc EXCEPT ![n] = "done"])
    PROVE  AliveIsCurrent'
<1>1. pc \in [Nodes -> TaskState] /\ n \in Nodes /\ \A x \in Nodes \ {n} : x \notin Alive
  BY DEF QueueInv, TypeOK, AliveIsCurrent, Alive
<1> DEFINE tasks == [pc EXCEPT ![n] = "done"]
           item == GetNowait(queue).item
<1>2. tasks \in [Nodes -> TaskState]
      /\ \A x \in Nodes : tasks[x] \notin {"created", "running", "stopping", "closing"}
  BY <1>1 DEF Alive, TaskState
<1> HIDE DEF tasks, item
<1>3. CASE queue = <<>>
  <2>1. pc' = tasks
    BY <1>3 DEF ProcessNext, tasks
  <2>. QED  BY <1>2, <2>1 DEF AliveIsCurrent, Alive
<1>4. CASE queue # <<>>
  <2>1. Launch(item, nodes, tasks)
    BY <1>4 DEF ProcessNext, tasks, item
  <2>. QED  BY <1>2, <2>1 DEF AliveIsCurrent, Alive, Launch
<1>. QED  BY <1>3, <1>4

\* Only cancelling the whole tree makes a tree forget a task that is alive.
LEMMA AliveInvariant ==
    ASSUME BranchCommandsOnly
    PROVE  Spec => []AliveIsCurrent
<1>1. Init => AliveIsCurrent
  BY DEF Init, AliveIsCurrent, Alive
<1>2. ASSUME QueueInv, QueueInv', AliveIsCurrent, [Next]_vars
      PROVE  AliveIsCurrent'
  <2> USE <1>2 DEF queueVars, taskVars, chatVars
  <2>1. TypeOK
    BY DEF QueueInv
  <2>2. ASSUME NEW n \in Nodes, ArriveRoot \/ (\E p \in Nodes : ArriveReply(n, p)) \/ DropMessage(n)
        PROVE  AliveIsCurrent'
    BY <2>2 DEF ArriveRoot, ArriveReply, DropMessage, AliveIsCurrent, Alive
  <2>3. ASSUME NEW n \in Nodes, AddAndEnqueue(n)  PROVE AliveIsCurrent'
    BY <2>1, <2>3 DEF AddAndEnqueue, Launch, AliveIsCurrent, Alive, TypeOK
  <2>4. ASSUME NEW n \in Nodes, CliEvent(n)  PROVE AliveIsCurrent'
    BY <2>1, <2>4 DEF CliEvent, SessionInfo, CliError, CliExit, CliFail, TaskFails, Reading,
                      AliveIsCurrent, Alive, TypeOK
  <2>5. ASSUME NEW n \in Nodes, SkipNode(n) \/ FinishNode(n)  PROVE AliveIsCurrent'
    BY <2>5, HandOver DEF SkipNode, FinishNode, Alive
  <2>6. ASSUME NEW n \in Nodes,
               CancelledBeforeStart(n) \/ BeginNode(n) \/ CancelDelivered(n) \/ CancelHandled(n)
        PROVE  AliveIsCurrent'
    BY <2>1, <2>6 DEF CancelledBeforeStart, BeginNode, CancelDelivered, CancelHandled,
                      AliveIsCurrent, Alive, TypeOK
  <2>7. ASSUME NEW n \in Nodes, StopNode(n)  PROVE AliveIsCurrent'
    BY <2>7 DEF StopNode, AliveIsCurrent, Alive
  <2>8. ASSUME NEW n \in Nodes, ClearBegin(n)  PROVE AliveIsCurrent'
    BY <2>8 DEF ClearBegin, Issue, BranchCommandsOnly, AliveIsCurrent, Alive
  <2>9. ASSUME NEW n \in Nodes, ClearEnd(n)  PROVE AliveIsCurrent'
    BY <2>9 DEF ClearEnd, AliveIsCurrent, Alive
  <2>10. ASSUME StopAll \/ WipeBegin  PROVE FALSE
    BY <2>10 DEF StopAll, WipeBegin, Issue, BranchCommandsOnly
  <2>11. ASSUME WipeEnd \/ UNCHANGED vars  PROVE AliveIsCurrent'
    BY <2>11 DEF WipeEnd, vars, AliveIsCurrent, Alive
  <2>. QED
    BY <2>2, <2>3, <2>4, <2>5, <2>6, <2>7, <2>8, <2>9, <2>10, <2>11
       DEF Next, Message, Task, Command
<1>. QED  BY <1>1, <1>2, QueueInvariant, PTL DEF Spec

\* The tree never has two tasks that have not returned, unless a command
\* cancels the whole tree: that resets the tree while its task is still
\* cleaning up.
THEOREM OneTask ==
    ASSUME BranchCommandsOnly
    PROVE  Spec => []OneTaskAtATime
<1>1. AliveIsCurrent => OneTaskAtATime
  BY DEF AliveIsCurrent, OneTaskAtATime
<1>. QED  BY <1>1, AliveInvariant, PTL

\* What was stopped has failed, and its task, if it runs, is cancelled.
StopReaches == \A n \in stopped : /\ state[n] = "error"
                                  /\ pc[n] = "running" => n \in cancelled

\* What /stop or /clear reported as cancelled stays in ERROR.
THEOREM StoppedStaysError ==
    ASSUME BranchCommandsOnly
    PROVE  Spec => []StoppedIsError
<1>1. Init => StopReaches
  BY DEF Init, StopReaches
<1>2. ASSUME TypeOK, TypeOK', AliveIsCurrent, AliveIsCurrent', StopReaches, [Next]_vars
      PROVE  StopReaches'
  <2> USE <1>2 DEF StopReaches, queueVars, taskVars, chatVars, treeVars, auxVars
  <2>1. ASSUME NEW n \in Nodes, Message(n)  PROVE StopReaches'
    BY <2>1 DEF Message, ArriveRoot, ArriveReply, DropMessage, AddAndEnqueue, Launch, TypeOK
  <2>2. ASSUME NEW n \in Nodes, CliEvent(n)  PROVE StopReaches'
    <3>1. /\ pc[n] = "running" /\ n \notin cancelled
          /\ pc' = pc \/ pc' = [pc EXCEPT ![n] = "closing"]
          /\ UNCHANGED <<cancelled, stopped>>
      BY <2>2 DEF CliEvent, SessionInfo, CliError, CliExit, CliFail, TaskFails, Reading
    <3>2. \A x \in Nodes \ {n} : state[x] = "error" => state'[x] = "error"
      <4>1. CASE SessionInfo(n) \/ CliExit(n)
        BY <4>1 DEF SessionInfo, CliExit, TypeOK
      <4>2. CASE CliError(n) \/ CliFail(n) \/ TaskFails(n)
        BY <4>2 DEF CliError, CliFail, TaskFails, WithError
      <4>. QED  BY <2>2, <4>1, <4>2 DEF CliEvent
    <3>3. stopped \subseteq Nodes \ {n} /\ \A x \in Nodes \ {n} : pc'[x] = pc[x]
      BY <3>1 DEF TypeOK
    <3>. QED  BY <3>1, <3>2, <3>3
  <2>3. ASSUME NEW n \in Nodes, ProcessNext([pc EXCEPT ![n] = "done"]),
               UNCHANGED <<stopped, state, cancelled>>
        PROVE  StopReaches'
    BY <2>3 DEF ProcessNext, Launch, TypeOK
  <2>4. ASSUME NEW n \in Nodes, SkipNode(n) \/ FinishNode(n)  PROVE StopReaches'
    BY <2>3, <2>4 DEF SkipNode, FinishNode
  <2>5. ASSUME NEW n \in Nodes,
               CancelledBeforeStart(n) \/ BeginNode(n) \/ CancelDelivered(n) \/ CancelHandled(n)
        PROVE  StopReaches'
    BY <2>5 DEF CancelledBeforeStart, BeginNode, CancelDelivered, CancelHandled,
                WithError, TypeOK
  <2>6. ASSUME NEW S \in SUBSET nodes, NEW n \in S, currentNode \in S
        PROVE  pc[n] = "running" => n \in CancelCurrent
    BY <2>6, NoNodeAssumption DEF CancelCurrent, AliveIsCurrent, Alive, TypeOK
  <2>7. ASSUME NEW S \in SUBSET nodes, UNCHANGED pc,
               state' = WithError(S), stopped' = stopped \cup S,
               cancelled' = IF currentNode \in S THEN CancelCurrent ELSE cancelled
        PROVE  StopReaches'
    <3>1. cancelled \subseteq cancelled'
      BY <2>7 DEF CancelCurrent
    <3>2. ASSUME NEW n \in S, pc[n] = "running"  PROVE n \in cancelled'
      <4>1. n \in Alive
        BY <3>2 DEF Alive, TypeOK
      <4>2. currentNode \in S
        BY <4>1 DEF AliveIsCurrent
      <4>. QED  BY <2>6, <2>7, <3>2, <4>2
    <3>. QED  BY <2>7, <3>1, <3>2 DEF WithError, TypeOK
  <2>8. ASSUME NEW n \in Nodes, StopNode(n)  PROVE StopReaches'
    <3>1. /\ {n} \in SUBSET nodes /\ stopped' = stopped \cup {n} /\ UNCHANGED pc
          /\ cancelled' = IF currentNode \in {n} THEN CancelCurrent ELSE cancelled
      BY <2>8 DEF StopNode, Found
    <3>2. state' = WithError({n})
      BY <2>8 DEF StopNode, WithError, TypeOK
    <3>. QED  BY <2>7, <3>1, <3>2
  <2>9. ASSUME NEW n \in Nodes, ClearBegin(n)  PROVE StopReaches'
    <3> DEFINE Branch == {x \in Descendants(nodes, children, n) : state[x] \notin Terminal}
    <3>1. Branch \in SUBSET nodes
      BY DEF Descendants
    <3>2. /\ stopped' = stopped \cup Branch /\ UNCHANGED pc /\ state' = WithError(Branch)
          /\ cancelled' = IF currentNode \in Branch THEN CancelCurrent ELSE cancelled
      BY <2>9 DEF ClearBegin
    <3> HIDE DEF Branch
    <3>. QED  BY <2>7, <3>1, <3>2
  <2>10. ASSUME NEW n \in Nodes, ClearEnd(n)  PROVE StopReaches'
    BY <2>10 DEF ClearEnd, AliveIsCurrent
  <2>11. ASSUME StopAll \/ WipeBegin \/ WipeEnd  PROVE FALSE
    BY <2>11 DEF StopAll, WipeBegin, WipeEnd, Issue, BranchCommandsOnly, AliveIsCurrent
  <2>12. ASSUME UNCHANGED vars  PROVE StopReaches'
    BY <2>12 DEF vars
  <2>. QED
    BY <2>1, <2>2, <2>4, <2>5, <2>8, <2>9, <2>10, <2>11, <2>12 DEF Next, Task, Command
<1>3. StopReaches => StoppedIsError
  BY DEF StopReaches, StoppedIsError
<1>. QED  BY <1>1, <1>2, <1>3, TypeCorrect, AliveInvariant, PTL DEF Spec
-----------------------------------------------------------------------------
(***************************************************************************)
(* The shape of the tree, and a reply and its parent.                      *)
(***************************************************************************)

\* What a removed branch leaves behind is not below it.
LEMMA DescendantsClosed ==
    ASSUME NEW x \in nodes, NEW y \in nodes, NEW n, x \in Descendants(nodes, children, n),
           y \in children[x]
    PROVE  y \in Descendants(nodes, children, n)
  BY DEF Descendants

\* The branch of a node of the tree has the node itself.
LEMMA DescendantsSelf ==
    ASSUME NEW n \in nodes
    PROVE  n \in Descendants(nodes, children, n)
  BY DEF Descendants

\* A reply joined after its parent; what has a task joined before what waits.
TreeShape ==
    /\ TreeLinked
    /\ parent[Root] = NoNode
    /\ \A n \in nodes : n # Root => stamp[parent[n]] < stamp[n]
    /\ \A n \in Nodes : pc[n] # "none" => stamp[n] <= lastStarted

\* Steps that do not change the tree.
LEMMA ShapeKept ==
    ASSUME TypeOK, TypeOK', TreeShape,
           UNCHANGED <<nodes, parent, children, stamp, lastStarted>>,
           \A x \in Nodes : pc'[x] # "none" => pc[x] # "none"
    PROVE  TreeShape'
  BY RootAssumption DEF TreeShape, TreeLinked, TypeOK

\* Replies never lose their parents, whatever is cleared.
LEMMA ShapeInvariant == Spec => []TreeShape
<1>1. Init => TreeShape
  BY RootAssumption DEF Init, TreeShape, TreeLinked
<1>2. ASSUME QueueInv, QueueInv', TreeShape, [Next]_vars
      PROVE  TreeShape'
  <2> USE <1>2, RootAssumption, NoNodeAssumption DEF queueVars, taskVars, chatVars, treeVars, auxVars
  <2>0. TypeOK /\ TypeOK'
    BY DEF QueueInv
  <2>1. ASSUME NEW n \in Nodes, ArriveRoot \/ DropMessage(n)  PROVE TreeShape'
    BY <2>0, <2>1, ShapeKept DEF ArriveRoot, DropMessage
  <2>2. ASSUME NEW n \in Nodes, NEW p \in Nodes, ArriveReply(n, p)  PROVE TreeShape'
    <3>1. n \notin nodes /\ n # Root
      BY <2>2 DEF ArriveReply, QueueInv, NotJoined
    <3>2. \A x \in Nodes \ {n} : parent'[x] = parent[x]
      BY <2>0, <2>2 DEF ArriveReply, TypeOK
    <3>. QED  BY <2>0, <2>2, <3>1, <3>2 DEF ArriveReply, TreeShape, TreeLinked, TypeOK
  <2>3. ASSUME NEW n \in Nodes, AddAndEnqueue(n)  PROVE TreeShape'
    <3>1. /\ n \notin nodes /\ nodes' = nodes \cup {n} /\ parent' = parent
          /\ n # Root => parent[n] \in nodes
          /\ n \in Nodes /\ nodes \subseteq Nodes
      BY <2>0, <2>3 DEF AddAndEnqueue, Found, QueueInv, NotJoined, TypeOK
    <3>2. \A x \in Nodes : children'[x] = IF x = parent[n] THEN children[x] \cup {n} ELSE children[x]
      BY <2>3 DEF AddAndEnqueue
    <3>3. /\ stamp'[n] = arrivals + 1 /\ \A x \in Nodes \ {n} : stamp'[x] = stamp[x]
          /\ \A x \in Nodes : stamp[x] \in Nat /\ stamp[x] <= arrivals
          /\ arrivals \in Nat /\ lastStarted \in Nat /\ lastStarted <= arrivals
      BY <2>0, <2>3 DEF AddAndEnqueue, TypeOK, QueueInv, QueueInOrder
    <3>4. TreeLinked'
      BY <3>1, <3>2 DEF TreeShape, TreeLinked
    <3>5. \A x \in nodes' : x # Root => stamp'[parent'[x]] < stamp'[x]
      <4>1. SUFFICES ASSUME NEW x \in nodes', x # Root  PROVE stamp'[parent[x]] < stamp'[x]
        BY <3>1
      <4>2. CASE x = n
        <5>1. parent[n] \in Nodes \ {n} /\ stamp'[parent[n]] = stamp[parent[n]]
          BY <3>1, <3>3, <4>1, <4>2
        <5>. QED  BY <3>3, <4>2, <5>1
      <4>3. CASE x # n
        <5>1. x \in nodes /\ parent[x] \in nodes /\ n \notin nodes
          BY <3>1, <4>1, <4>3 DEF TreeShape, TreeLinked
        <5>2. stamp'[x] = stamp[x] /\ stamp'[parent[x]] = stamp[parent[x]]
          BY <3>1, <3>3, <5>1
        <5>. QED  BY <4>1, <5>1, <5>2 DEF TreeShape
      <4>. QED  BY <4>2, <4>3
    <3>6. \A x \in Nodes : pc'[x] # "none" => stamp'[x] <= lastStarted'
      <4>1. CASE isProcessing
        <5>1. pc' = pc /\ lastStarted' = lastStarted /\ pc[n] = "none"
          BY <2>3, <4>1 DEF AddAndEnqueue, QueueInv, NotJoined
        <5>. QED  BY <3>3, <5>1 DEF TreeShape
      <4>2. CASE ~isProcessing
        <5>1. lastStarted' = stamp'[n] /\ \A x \in Nodes \ {n} : pc'[x] = pc[x]
          BY <2>0, <2>3, <4>2 DEF AddAndEnqueue, Launch, TypeOK
        <5>2. \A x \in Nodes \ {n} : stamp'[x] <= arrivals
          BY <3>3
        <5>. QED  BY <3>3, <5>1, <5>2
      <4>. QED  BY <4>1, <4>2
    <3>. QED  BY <3>1, <3>4, <3>5, <3>6 DEF TreeShape
  <2>4. ASSUME NEW n \in Nodes, CliEvent(n)  PROVE TreeShape'
    <3>1. \A x \in Nodes : pc'[x] # "none" => pc[x] # "none"
      <4>1. pc[n] = "running" /\ (pc' = pc \/ pc' = [pc EXCEPT ![n] = "closing"])
        BY <2>4 DEF CliEvent, SessionInfo, CliError, CliExit, CliFail, TaskFails, Reading
      <4>. QED  BY <2>0, <4>1 DEF TypeOK
    <3>. QED  BY <2>0, <2>4, <3>1, ShapeKept DEF CliEvent, SessionInfo, CliError, CliExit, CliFail, TaskFails
  <2>5. ASSUME NEW n \in Nodes, SkipNode(n) \/ FinishNode(n)  PROVE TreeShape'
    <3>1. /\ pc[n] # "none" /\ ProcessNext([pc EXCEPT ![n] = "done"])
          /\ UNCHANGED <<nodes, parent, children, stamp, arrivals>>
      BY <2>5 DEF SkipNode, FinishNode
    <3>2. \A x \in Nodes : pc'[x] # "none" => stamp[x] <= lastStarted'
      <4>1. CASE queue = <<>>
        BY <2>0, <3>1, <4>1 DEF ProcessNext, TreeShape, TypeOK
      <4>2. CASE queue # <<>>
        <5> DEFINE item == GetNowait(queue).item
                   rest == GetNowait(queue).rest
        <5>1. item \in Nodes /\ QueueIds(queue) = QueueIds(rest) \cup {item}
          BY <4>2, HeadOfQueue
        <5>2. Launch(item, nodes, [pc EXCEPT ![n] = "done"])
          BY <3>1, <4>2 DEF ProcessNext
        <5> HIDE DEF item
        <5>3. lastStarted < stamp[item] /\ stamp \in [Nodes -> Nat] /\ lastStarted \in Nat
          BY <2>0, <5>1 DEF QueueInv, QueueInOrder, TypeOK
        <5>4. /\ \A x \in Nodes : pc'[x] # "none" => pc[x] # "none" \/ (x = item /\ lastStarted' = stamp[x])
              /\ lastStarted' \in {lastStarted, stamp[item]}
          BY <2>0, <3>1, <5>1, <5>2 DEF Launch, TypeOK
        <5>. QED  BY <5>1, <5>3, <5>4 DEF TreeShape
      <4>. QED  BY <4>1, <4>2
    <3>. QED  BY <3>1, <3>2 DEF TreeShape, TreeLinked
  <2>6. ASSUME NEW n \in Nodes,
               CancelledBeforeStart(n) \/ BeginNode(n) \/ CancelDelivered(n) \/ CancelHandled(n)
        PROVE  TreeShape'
    <3>1. \A x \in Nodes : pc'[x] # "none" => pc[x] # "none"
      BY <2>0, <2>6 DEF CancelledBeforeStart, BeginNode, CancelDelivered, CancelHandled, TypeOK
    <3>. QED  BY <2>0, <2>6, <3>1, ShapeKept DEF CancelledBeforeStart, BeginNode, CancelDelivered, CancelHandled
  <2>7. ASSUME NEW n \in Nodes, StopNode(n) \/ ClearBegin(n)  PROVE TreeShape'
    BY <2>0, <2>7, ShapeKept DEF StopNode, ClearBegin
  <2>8. ASSUME NEW n \in Nodes, ClearEnd(n)  PROVE TreeShape'
    <3>1. CASE ~(Found(n) /\ n # Root)
      BY <2>0, <2>8, <3>1, ShapeKept DEF ClearEnd
    <3>2. CASE Found(n) /\ n # Root
      <4> DEFINE D == Descendants(nodes, children, n)
      <4>1. /\ nodes' = nodes \ D
            /\ children' = [children EXCEPT ![parent[n]] = @ \ {n}]
            /\ UNCHANGED <<parent, stamp, lastStarted, pc>>
        BY <2>8, <3>2 DEF ClearEnd
      <4>2. n \in D
        BY <3>2, DescendantsSelf DEF Found
      <4>3. ASSUME NEW x \in nodes', x # Root
            PROVE  parent[x] \in nodes' /\ x \in children'[parent[x]]
        <5>1. x \in nodes /\ x \notin D /\ parent[x] \in nodes /\ x \in children[parent[x]]
          BY <4>1, <4>3 DEF TreeShape, TreeLinked
        <5>2. parent[x] \notin D
          BY <5>1, DescendantsClosed
        <5>. QED  BY <2>0, <4>1, <4>2, <5>1, <5>2 DEF TypeOK
      <4>. QED  BY <4>1, <4>3 DEF TreeShape, TreeLinked
    <3>. QED  BY <3>1, <3>2
  <2>9. ASSUME StopAll \/ WipeBegin \/ WipeEnd \/ UNCHANGED vars  PROVE TreeShape'
    BY <2>0, <2>9, ShapeKept DEF StopAll, WipeBegin, WipeEnd, CancelTree, vars
  <2>. QED
    BY <2>1, <2>2, <2>3, <2>4, <2>5, <2>6, <2>7, <2>8, <2>9 DEF Next, Message, Task, Command
<1>. QED  BY <1>1, <1>2, QueueInvariant, PTL DEF Spec

\* A reply's parent stays in the tree as long as the reply does, and lists it.
THEOREM RepliesStayLinked == Spec => []TreeLinked
<1>1. TreeShape => TreeLinked
  BY DEF TreeShape
<1>. QED  BY <1>1, ShapeInvariant, PTL

\* The manager knows the tree while nothing clears it as a whole.
TreeKnown == nodes # {} => known

\* A tree that has nodes is known to the manager.
LEMMA KnownInvariant ==
    ASSUME BranchCommandsOnly
    PROVE  Spec => []TreeKnown
<1>1. Init => TreeKnown
  BY DEF Init, TreeKnown
<1>2. ASSUME AliveIsCurrent, TreeKnown, [Next]_vars
      PROVE  TreeKnown'
  <2> USE <1>2 DEF TreeKnown, treeVars, chatVars
  <2>1. ASSUME NEW n \in Nodes, Message(n)  PROVE TreeKnown'
    BY <2>1 DEF Message, ArriveRoot, ArriveReply, DropMessage, AddAndEnqueue
  <2>2. ASSUME NEW n \in Nodes, CliEvent(n) \/ Task(n)  PROVE TreeKnown'
    BY <2>2 DEF CliEvent, SessionInfo, CliError, CliExit, CliFail, TaskFails,
                Task, CancelledBeforeStart, SkipNode, BeginNode, CancelDelivered,
                CancelHandled, FinishNode
  <2>3. ASSUME NEW n \in Nodes, ClearEnd(n)  PROVE TreeKnown'
    BY <2>3 DEF ClearEnd, AliveIsCurrent
  <2>4. ASSUME NEW n \in Nodes, StopNode(n) \/ ClearBegin(n)  PROVE TreeKnown'
    BY <2>4 DEF StopNode, ClearBegin
  <2>5. ASSUME StopAll \/ WipeBegin \/ WipeEnd \/ UNCHANGED vars  PROVE TreeKnown'
    BY <2>5 DEF StopAll, WipeBegin, WipeEnd, AliveIsCurrent, vars
  <2>. QED  BY <2>1, <2>2, <2>3, <2>4, <2>5 DEF Next, Command
<1>. QED  BY <1>1, <1>2, AliveInvariant, PTL DEF Spec

\* A node whose task is at work has a parent that joined before it and whose
\* own task has ended, or never began because the parent failed in the queue.
LEMMA ParentSettled ==
    ASSUME QueueInv, AliveIsCurrent, TreeShape, TreeKnown,
           NEW n \in nodes, pc[n] \in {"running", "stopping", "closing"}, parent[n] \in Nodes
    PROVE  /\ parent[n] # n
           /\ \/ pc[parent[n]] = "done"
              \/ pc[parent[n]] = "none" /\ state[parent[n]] = "error"
<1> DEFINE p == parent[n]
<1>1. n \in Nodes /\ n # Root /\ p \in nodes /\ p \in Nodes
  BY NoNodeAssumption DEF QueueInv, TypeOK, TreeShape, TreeLinked
<1>2. /\ stamp[p] < stamp[n] /\ stamp[n] <= lastStarted
      /\ stamp[p] \in Nat /\ stamp[n] \in Nat /\ lastStarted \in Nat
  BY <1>1 DEF QueueInv, TypeOK, TreeShape
<1> HIDE DEF p
<1>3. p # n
  BY <1>2
<1>4. p \notin Alive
  BY <1>1, <1>3 DEF AliveIsCurrent, Alive
<1>5. p \notin QueueIds(queue)
  <2>1. p \in QueueIds(queue) => lastStarted < stamp[p]
    BY DEF QueueInv, QueueInOrder
  <2>. QED  BY <1>2, <2>1
<1>6. CASE pc[p] = "none"
  <2>1. state[p] # "pending"
    BY <1>1, <1>5, <1>6 DEF QueueInv, PendingAccounted, TreeKnown
  <2>2. state[p] \in {"pending", "error"}
    BY <1>1, <1>6 DEF QueueInv, FreshState
  <2>. QED  BY <1>3, <1>6, <2>1, <2>2 DEF p
<1>7. CASE pc[p] # "none"
  <2>1. pc[p] = "done"
    BY <1>1, <1>4, <1>7 DEF QueueInv, TypeOK, Alive, TaskState
  <2>. QED  BY <1>3, <2>1 DEF p
<1>. QED  BY <1>6, <1>7

\* A reply runs after the message it replies to has ended or has failed.
THEOREM ParentsFirst ==
    ASSUME BranchCommandsOnly
    PROVE  Spec => []ParentSettledFirst
<1>1. QueueInv /\ AliveIsCurrent /\ TreeShape /\ TreeKnown => ParentSettledFirst
  BY ParentSettled DEF ParentSettledFirst
<1>. QED  BY <1>1, QueueInvariant, AliveInvariant, ShapeInvariant, KnownInvariant, PTL

\* The session a reply forks neither appears nor disappears while it runs.
THEOREM ForksAreFinal ==
    ASSUME BranchCommandsOnly
    PROVE  Spec => ForkIsFinal
<1>1. ASSUME QueueInv, AliveIsCurrent, TreeShape, TreeKnown, [Next]_vars
      PROVE  \A n \in nodes :
               (pc[n] \in {"running", "stopping", "closing"} /\ parent[n] \in nodes)
                 => (parent[n] \in session' <=> parent[n] \in session)
  <2> USE <1>1 DEF treeVars
  <2> SUFFICES ASSUME NEW n \in nodes, pc[n] \in {"running", "stopping", "closing"},
                      parent[n] \in nodes
               PROVE  parent[n] \in session' <=> parent[n] \in session
    OBVIOUS
  <2>1. parent[n] # n /\ n \in Alive /\ parent[n] \in Nodes
    BY ParentSettled DEF QueueInv, TypeOK, Alive
  <2>2. ASSUME NEW m \in Nodes, CliEvent(m)
        PROVE  session' = session \/ session' = session \cup {n}
    <3>1. m = n
      BY <2>1, <2>2 DEF CliEvent, SessionInfo, CliError, CliExit, CliFail, TaskFails, Reading,
                        AliveIsCurrent, Alive
    <3>. QED
      BY <2>2, <3>1 DEF CliEvent, SessionInfo, CliError, CliExit, CliFail, TaskFails
  <2>3. ASSUME NEW m \in Nodes, Message(m) \/ Task(m)  PROVE session' = session
    BY <2>3 DEF Message, ArriveRoot, ArriveReply, DropMessage, AddAndEnqueue,
                Task, CancelledBeforeStart, SkipNode, BeginNode, CancelDelivered,
                CancelHandled, FinishNode
  <2>4. ASSUME Command \/ UNCHANGED vars  PROVE session' = session
    BY <2>4 DEF Command, StopNode, ClearBegin, ClearEnd, StopAll, WipeBegin, WipeEnd, vars
  <2>. QED  BY <2>1, <2>2, <2>3, <2>4 DEF Next
<1>. QED
  BY <1>1, QueueInvariant, AliveInvariant, ShapeInvariant, KnownInvariant, PTL
     DEF Spec, ForkIsFinal
=============================================================================

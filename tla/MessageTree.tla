---------------------------- MODULE MessageTree ----------------------------
(***************************************************************************)
(* The pure part of messaging/trees: what the helpers of MessageTree,      *)
(* TreeRepository and _SnapshotQueue return for a given tree and queue.    *)
(* A tree is given by the set nodes of the ids in MessageTree._nodes and   *)
(* the function children from an id to the set of its children_ids; the    *)
(* order of children_ids only decides the order of log lines and edits.    *)
(*                                                                         *)
(* The transitive helpers are least fixed points and Without is a closed   *)
(* form, so that facts about them can be proved without a recursion.       *)
(***************************************************************************)
EXTENDS Integers, Sequences, FiniteSets

QueueIds(q) == {q[i] : i \in DOMAIN q}

\* The ranks of the ids of q under rank grow along q: no id is there twice.
Increasing(q, rank) == \A i, j \in DOMAIN q : i < j => rank[q[i]] < rank[q[j]]

\* Mutants of GetNowait: the item stays in the queue; the newest item goes first.
GetNowaitPeeks(q) == [item |-> Head(q), rest |-> q]
GetNowaitLast(q) == [item |-> q[Len(q)], rest |-> SubSeq(q, 1, Len(q) - 1)]

\* _SnapshotQueue.get_nowait of a queue that is not empty.
GetNowait(q) == [item |-> Head(q), rest |-> Tail(q)]

(***************************************************************************)
(* _SnapshotQueue.remove_if_present for every id of B: what is left keeps  *)
(* its order.  The j-th survivor is the one with j survivors up to it.     *)
(***************************************************************************)
Without(q, B) ==
    LET Kept == {i \in DOMAIN q : q[i] \notin B}
        Rank(i) == Cardinality({k \in Kept : k <= i})
    IN  [j \in 1..Cardinality(Kept) |->
            q[CHOOSE i \in Kept : Rank(i) = j]]

\* Mutant of Descendants: the node without what is below it.
DescendantsShallow(nodes, children, n) == {n} \cap nodes

(***************************************************************************)
(* MessageTree.get_descendants: the node and everything below it, [] for   *)
(* an id that is not in the tree.                                          *)
(***************************************************************************)
Descendants(nodes, children, n) ==
    {x \in nodes : /\ n \in nodes
                   /\ \A S \in SUBSET nodes :
                        (n \in S /\ \A y \in S : children[y] \cap nodes \subseteq S)
                          => x \in S}

(***************************************************************************)
(* TreeRepository.get_pending_children: the pending nodes reached from n   *)
(* through pending nodes only; a settled child hides what is below it.     *)
(***************************************************************************)
PendingChildren(nodes, children, state, n) ==
    LET PendingBelow(y) == {c \in children[y] \cap nodes : state[c] = "pending"}
    IN  {x \in nodes : /\ n \in nodes
                       /\ \A S \in SUBSET nodes :
                            (PendingBelow(n) \subseteq S
                               /\ \A y \in S : PendingBelow(y) \subseteq S)
                              => x \in S}
=============================================================================

---------------------------- MODULE MCTreeQueue ----------------------------
(***************************************************************************)
(* Instances of TreeQueue for TLC.                                         *)
(***************************************************************************)
EXTENDS TreeQueue, SequencesExt

CONSTANTS r, a, b, c, none

ThreeNodes == {r, a, b}
FourNodes  == {r, a, b, c}

StopAllOnly    == {"stop_all"}
BranchCommands == {"stop", "clear_branch"}

\* Without against the filter of the standard modules.
ASSUME \A q \in SeqOf({r, a, b}, 4) : \A B \in SUBSET {r, a, b} :
          Without(q, B) = SelectSeq(q, LAMBDA x : x \notin B)

\* The messages other than the root are interchangeable.
Replies == Permutations(FourNodes \ {r})
Replies3 == Permutations(ThreeNodes \ {r})
=============================================================================

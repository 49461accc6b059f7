------------------------- MODULE MCAccountRotation -------------------------
(***************************************************************************)
(* An instance of AccountRotation for TLC: two accounts that Google knows. *)
(***************************************************************************)
EXTENDS AccountRotation

CONSTANTS ann, bob, r1, r2, model

TwoEmails == {ann, bob}
OnlyAnn == {ann}
TwoAccounts == <<[email |-> ann, token |-> 1], [email |-> bob, token |-> 1]>>
TwoRequests == {r1, r2}
OneModel == {model}
SameModel == [r \in TwoRequests |-> model]
OneTick == {1}

Interchangeable == Permutations(TwoRequests)

\* A crash before the first request would only begin the run again, with the
\* accounts in the file and one crash less: it is not followed up.
CrashesMatter == crashes > 0 => \E r \in Requests : req[r].pc # "idle"
=============================================================================

--------------------------- MODULE MCSessionStore ---------------------------
(***************************************************************************)
(* Instances of SessionStore for TLC.                                      *)
(***************************************************************************)
EXTENDS SessionStore

CONSTANTS r, s, t1, t2, loop, none

OneNode     == {r}
TwoMessages == {r, s}
TwoTimers   == {t1, t2}
=============================================================================

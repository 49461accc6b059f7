------------------------- MODULE MCMessagingLimiter -------------------------
(***************************************************************************)
(* Instances of MessagingLimiter for TLC.                                  *)
(***************************************************************************)
EXTENDS MessagingLimiter

CONSTANTS a, b

TwoKeys   == {a, b}
OneFlood  == {2}
=============================================================================

------------------------- MODULE MCProviderLimiter -------------------------
(***************************************************************************)
(* Instances of ProviderLimiter for TLC.                                   *)
(***************************************************************************)
EXTENDS ProviderLimiter

CONSTANTS a, b, c

ThreeRequests == {a, b, c}
=============================================================================

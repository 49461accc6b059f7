---------------------------- MODULE MCCliSessions ----------------------------
(* Runs of CliSessions; a run is a model value, and none is special.         *)
EXTENDS CliSessions, TLC

=============================================================================

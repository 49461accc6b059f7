---------------------------- MODULE MCSSEStream ----------------------------
(***************************************************************************)
(* Instances of SSEStream for TLC.  The name of the Task tool has two      *)
(* letters, so it can come whole or in two pieces.                         *)
(***************************************************************************)
EXTENDS SSEStream

BothProviders == {"openai_compat", "antigravity"}
TwoIndices == {0, 1}
SomeLetters == {"a", "b", "c"}
TaskName == <<"a", "b">>
\* A Task call at either index, in pieces; another tool; a name in two
\* pieces; an empty name; calls without index, name or id.
SomeCalls ==
    [index : {0}, id : {TRUE}, name : {TaskName}, args : {"none", "partial", "object"}]
    \cup [index : {0, 1}, id : {FALSE}, name : {NoName}, args : {"partial", "object", "other"}]
    \cup [index : {1}, id : {TRUE}, name : {<<"a">>, <<"c">>}, args : {"none"}]
    \cup [index : {1}, id : {FALSE}, name : {<<"b">>, <<>>}, args : {"none"}]
    \cup [index : {-1}, id : {FALSE}, name : {TaskName}, args : {"partial"}]
=============================================================================

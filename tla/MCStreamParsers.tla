-------------------------- MODULE MCStreamParsers --------------------------
(***************************************************************************)
(* Instances of StreamParsers for TLC.  A function tag is as long as the   *)
(* buffer gets before a bullet is taken for text.                          *)
(***************************************************************************)
EXTENDS StreamParsers

Segment(kind, body) == [kind |-> kind, body |-> body]

Long == <<"*", "x", "<", "x", "x", "x", "x">>

Plain == {Segment("text", <<"x", "<", "x">>), Segment("text", <<"x", " ", ">">>)}
Bulleted == {Segment("text", Long)}
Thinking == {Segment("think", <<"x", "<", "/">>), Segment("think", <<>>)}
Odd == {Segment("stray", <<>>)}
Control == {Segment("control", <<>>)}
Unclosed == {Segment("open", <<"x", "<">>)}
ToolCalls == {Segment("call", <<>>), Segment("call", <<<<"x">>, <<"x", "<", " ", "x">>>>)}

\* A tag that is never closed takes all that follows.
WellFormed(a) == \A i \in DOMAIN a : a[i] \in Unclosed => i = Len(a)

Segments == Plain \cup Bulleted \cup Thinking \cup Odd \cup Control \cup Unclosed \cup ToolCalls

SomeAnswers == {a \in UNION {[1..n -> Segments] : n \in 1..3} : WellFormed(a)}
=============================================================================

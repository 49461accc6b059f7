--------------------------- MODULE StreamParsers ---------------------------
(***************************************************************************)
(* The text of a streamed answer on its way through the two parsers that   *)
(* openai_compat.py feeds it to: ThinkTagParser splits off what stands     *)
(* between think tags, HeuristicToolParser finds tool calls written as     *)
(* text and strips control tokens from the rest.                           *)
(*                                                                         *)
(* Text is a sequence of tokens, of which tags have several, so that the   *)
(* provider can cut a tag in two: the next chunk may end anywhere.         *)
(***************************************************************************)
EXTENDS Integers, SequencesExt, FiniteSetsExt

CONSTANTS
    Answers,  \* the answers providers give: sequences of segments
    MaxMatch  \* the buffer length at which a bullet is taken for text

VARIABLES
    answer,   \* what the provider says
    unread,   \* the tokens of it that have not arrived
    think,    \* ThinkTagParser
    tool,     \* HeuristicToolParser
    flushed,  \* the stream is over
    \* What has been made of it: prose for the user, thinking, tool calls.
    shown, thought, found,
    cuts      \* auxiliary: which of the cuts below the provider has made

vars == <<answer, unread, think, tool, flushed, shown, thought, found, cuts>>
-----------------------------------------------------------------------------
(***************************************************************************)
(* Strings.                                                                *)
(***************************************************************************)

OccursAt(t, i, s) == i + Len(s) - 1 <= Len(t) /\ SubSeq(t, i, i + Len(s) - 1) = s

\* str.find and str.rfind, counting from 1: 0 if s does not occur.
Find(t, s, from) ==
    LET at == {i \in from..Len(t) : OccursAt(t, i, s)} IN IF at = {} THEN 0 ELSE Min(at)
FindLast(t, s) ==
    LET at == {i \in 1..Len(t) : OccursAt(t, i, s)} IN IF at = {} THEN 0 ELSE Max(at)

Before(t, i) == SubSeq(t, 1, i - 1)
From(t, i) == SubSeq(t, i, Len(t))

\* str.strip.
Strip(t) ==
    LET ink == {i \in 1..Len(t) : t[i] # " "}
    IN IF ink = {} THEN <<>> ELSE SubSeq(t, Min(ink), Max(ink))
-----------------------------------------------------------------------------
(***************************************************************************)
(* ThinkTagParser.                                                         *)
(***************************************************************************)

OpenTag == <<"<", "think", ">">>
CloseTag == <<"<", "/", "think", ">">>

NewThinkParser == [buffer |-> <<>>, inThink |-> FALSE, chunks |-> <<>>]

\* A chunk is yielded only if it has content.
Yields(p, type, content, rest) ==
    [p EXCEPT !.buffer = rest,
              !.chunks = IF content = <<>> THEN @ ELSE Append(@, [type |-> type, content |-> content])]

\* The buffer ends with the beginning of one of the tags.
PartialTag(t, tags) ==
    LET last == FindLast(t, <<"<">>)
    IN IF last > 0 /\ \E tag \in tags : IsStrictPrefix(From(t, last), tag) THEN last ELSE 0

\* Mutant of ParseOutsideThink: looks only for the opening tag.
ParseOpenOnly(p) ==
    LET open == Find(p.buffer, OpenTag, 1)
        partial == PartialTag(p.buffer, {OpenTag})
    IN IF open > 0
       THEN [Yields(p, "text", Before(p.buffer, open), From(p.buffer, open + Len(OpenTag)))
                EXCEPT !.inThink = TRUE]
       ELSE IF partial > 0
       THEN Yields(p, "text", Before(p.buffer, partial), From(p.buffer, partial))
       ELSE Yields(p, "text", p.buffer, <<>>)

\* _parse_outside_think; a closing tag without an opening one is dropped.
ParseOutsideThink(p) ==
    LET open == Find(p.buffer, OpenTag, 1)
        close == Find(p.buffer, CloseTag, 1)
        partial == PartialTag(p.buffer, {OpenTag, CloseTag})
    IN IF close > 0 /\ (open = 0 \/ close < open)
       THEN Yields(p, "text", Before(p.buffer, close), From(p.buffer, close + Len(CloseTag)))
       ELSE IF open > 0
       THEN [Yields(p, "text", Before(p.buffer, open), From(p.buffer, open + Len(OpenTag)))
                EXCEPT !.inThink = TRUE]
       ELSE IF partial > 0
       THEN Yields(p, "text", Before(p.buffer, partial), From(p.buffer, partial))
       ELSE Yields(p, "text", p.buffer, <<>>)

\* _parse_inside_think.
ParseInsideThink(p) ==
    LET close == Find(p.buffer, CloseTag, 1)
        partial == PartialTag(p.buffer, {CloseTag})
    IN IF close > 0
       THEN [Yields(p, "thinking", Before(p.buffer, close), From(p.buffer, close + Len(CloseTag)))
                EXCEPT !.inThink = FALSE]
       ELSE IF partial > 0
       THEN Yields(p, "thinking", Before(p.buffer, partial), From(p.buffer, partial))
       ELSE Yields(p, "thinking", p.buffer, <<>>)

\* The loop of feed, which stops when nothing is left or nothing moves.
ThinkTurn(p) == IF p.inThink THEN ParseInsideThink(p) ELSE ParseOutsideThink(p)

RECURSIVE ThinkLoop(_, _)
ThinkLoop(p, next) ==
    IF p.buffer = <<>> \/ next = p THEN p ELSE ThinkLoop(next, ThinkTurn(next))

ThinkFeed(p, content) ==
    LET q == [p EXCEPT !.buffer = @ \o content, !.chunks = <<>>]
    IN ThinkLoop(q, ThinkTurn(q))
-----------------------------------------------------------------------------
(***************************************************************************)
(* HeuristicToolParser.                                                    *)
(***************************************************************************)

NewToolParser ==
    [state |-> "TEXT", buffer |-> <<>>, name |-> <<>>, params |-> <<>>,
     text |-> <<>>, tools |-> <<>>, again |-> FALSE]

\* The end of the first control token that begins at i: "<|", something, "|>".
ControlEnd(t, i) ==
    LET bar == Find(t, <<"|">>, i + 2)
    IN IF OccursAt(t, i, <<"<", "|">>) /\ bar > i + 2 /\ OccursAt(t, bar, <<"|", ">">>)
          /\ \A j \in (i + 2)..bar : t[j] # ">"
       THEN bar + 1 ELSE 0

\* _strip_control_tokens.
RECURSIVE StripControl(_)
StripControl(t) ==
    LET at == {i \in 1..Len(t) : ControlEnd(t, i) > 0}
    IN IF at = {} THEN t
       ELSE Before(t, Min(at)) \o StripControl(From(t, ControlEnd(t, Min(at)) + 1))

\* Where the tail begins that _split_incomplete_control_token_tail keeps.
ControlTail(t) ==
    LET start == FindLast(t, <<"<", "|">>)
    IN IF start > 0 /\ Find(t, <<"|", ">">>, start) = 0 THEN start ELSE 0

\* A tag at i: its first tokens, a name, ">".  The end of it, or 0.
TagEnd(t, i, first) ==
    LET end == Find(t, <<">">>, i + Len(first))
    IN IF OccursAt(t, i, first) /\ end > i + Len(first) THEN end ELSE 0

FirstTag(t, first) ==
    LET at == {i \in 1..Len(t) : TagEnd(t, i, first) > 0} IN IF at = {} THEN 0 ELSE Min(at)

Bullet == <<"*">>
FunctionTag == <<"<", "function=">>
ParameterTag == <<"<", "parameter=">>
ParameterEnd == <<"<", "/parameter", ">">>

NameOf(t, i, first) == Strip(SubSeq(t, i + Len(first), TagEnd(t, i, first) - 1))

\* _FUNC_START_PATTERN: a function tag with nothing but blanks after a bullet.
FunctionAt(t) ==
    LET at == {i \in 1..Len(t) : TagEnd(t, i, FunctionTag) > 0
                 /\ \E b \in 1..(i - 1) : /\ OccursAt(t, b, Bullet)
                                          /\ \A j \in (b + 1)..(i - 1) : t[j] = " "}
    IN IF at = {} THEN 0 ELSE Min(at)

\* The parameters that are complete; text before one is shown.
RECURSIVE EatParameters(_)
EatParameters(p) ==
    LET at == FirstTag(p.buffer, ParameterTag)
        end == IF at = 0 THEN 0 ELSE Find(p.buffer, ParameterEnd, TagEnd(p.buffer, at, ParameterTag) + 1)
    IN IF end = 0 THEN p
       ELSE EatParameters(
              [p EXCEPT !.text = @ \o Before(p.buffer, at),
                        !.params = Append(@, <<NameOf(p.buffer, at, ParameterTag),
                                     Strip(SubSeq(p.buffer, TagEnd(p.buffer, at, ParameterTag) + 1,
                                                  end - 1))>>),
                        !.buffer = From(p.buffer, end + Len(ParameterEnd))])

\* The tool call is emitted.
ToolFound(p) ==
    [p EXCEPT !.tools = Append(@, [name |-> p.name, params |-> p.params]), !.state = "TEXT"]

\* The turns of the loop of feed, from each of the parser's states.
Waits(p) == [p EXCEPT !.again = FALSE]

\* A tail that is the whole buffer is not kept.
InText(p) ==
    LET bullet == Find(p.buffer, Bullet, 1)
        tail == ControlTail(p.buffer)
        cut == IF bullet > 0 THEN bullet ELSE IF tail > 1 THEN tail ELSE Len(p.buffer) + 1
    IN [p EXCEPT !.text = @ \o Before(p.buffer, cut),
                 !.buffer = From(p.buffer, cut),
                 !.state = IF bullet > 0 THEN "MATCHING_FUNCTION" ELSE @,
                 !.again = bullet > 0]

InFunction(p) ==
    LET at == FunctionAt(p.buffer)
    IN IF at > 0
       THEN [p EXCEPT !.name = NameOf(p.buffer, at, FunctionTag), !.params = <<>>,
                      !.buffer = From(p.buffer, TagEnd(p.buffer, at, FunctionTag) + 1),
                      !.state = "PARSING_PARAMETERS"]
       ELSE IF Len(p.buffer) > MaxMatch
       THEN [p EXCEPT !.text = Append(@, Head(p.buffer)), !.buffer = Tail(p.buffer),
                      !.state = "TEXT"]
       ELSE Waits(p)

\* The call is complete when another bullet comes, or text that is no tag.
EndsCall(p, bullet) ==
    IF bullet > 0
    THEN ToolFound([p EXCEPT !.text = @ \o Before(p.buffer, bullet),
                             !.buffer = From(p.buffer, bullet)])
    ELSE IF /\ p.buffer # <<>>
            /\ ~OccursAt(Strip(p.buffer), 1, <<"<">>)
            /\ Find(p.buffer, ParameterTag, 1) = 0
    THEN ToolFound([p EXCEPT !.text = @ \o p.buffer, !.buffer = <<>>])
    ELSE Waits(p)

InParameters(p) ==
    LET q == EatParameters(p)
    IN EndsCall(q, Find(q.buffer, Bullet, 1))

RECURSIVE ToolLoop(_)
ToolLoop(p) ==
    IF ~p.again THEN p
    ELSE ToolLoop(CASE p.state = "TEXT" -> InText(p)
                    [] p.state = "MATCHING_FUNCTION" -> InFunction(p)
                    [] p.state = "PARSING_PARAMETERS" -> InParameters(p))

ToolFeed(p, content) ==
    ToolLoop([p EXCEPT !.buffer = StripControl(@ \o content), !.text = <<>>, !.tools = <<>>,
                       !.again = TRUE])

\* flush: a call that is open ends here, and its last parameter with it.
\* What the buffer holds in another state is dropped.
ToolFlush(p) ==
    LET rest == StripControl(p.buffer)
        at == FirstTag(rest, ParameterTag)
        q == [p EXCEPT !.buffer = <<>>, !.text = <<>>, !.tools = <<>>]
    IN IF p.state # "PARSING_PARAMETERS" THEN q
       ELSE IF at = 0 THEN ToolFound(q)
       ELSE ToolFound([q EXCEPT !.params = Append(@, <<NameOf(rest, at, ParameterTag),
                          Strip(From(rest, TagEnd(rest, at, ParameterTag) + 1))>>)])
-----------------------------------------------------------------------------
(***************************************************************************)
(* The answers, and what a reader of the whole text would make of them.    *)
(***************************************************************************)

\* Segments: text, thinking, a stray closing tag, a control token, a call
\* with named parameters, an opened tag with all that follows.
Render(s) ==
    CASE s.kind = "text" -> s.body
      [] s.kind = "think" -> OpenTag \o s.body \o CloseTag
      [] s.kind = "open" -> OpenTag \o s.body
      [] s.kind = "stray" -> CloseTag
      [] s.kind = "control" -> <<"<", "|", "end", "|", ">">>
      [] s.kind = "call" ->
            Bullet \o <<" ">> \o FunctionTag \o <<"f", ">">>
                \o FlattenSeq([i \in DOMAIN s.body |->
                      ParameterTag \o <<"k", ">">> \o s.body[i] \o ParameterEnd])

Tokens(a) == FlattenSeq([i \in DOMAIN a |-> Render(a[i])])

Bodies(a, kinds) ==
    LET Of(s) == s.kind \in kinds
        picked == SelectSeq(a, Of)
    IN FlattenSeq([i \in DOMAIN picked |-> picked[i].body])

ExpectedText(a) == Bodies(a, {"text"})
ExpectedThought(a) == Bodies(a, {"think", "open"})
ExpectedCalls(a) ==
    LET Of(s) == s.kind = "call"
        calls == SelectSeq(a, Of)
    IN [i \in DOMAIN calls |-> [name |-> <<"f">>,
            params |-> [j \in DOMAIN calls[i].body |-> <<<<"k">>, calls[i].body[j]>>]]]
-----------------------------------------------------------------------------
(***************************************************************************)
(* The cuts that HeuristicToolParser does not cope with.  A chunk brings   *)
(* the tokens of the answer after the first `from` of them, up to `to`.    *)
(***************************************************************************)

\* The tokens before a segment, and the bullet, blank and tag of a call.
Start(a, i) == Len(Tokens(SubSeq(a, 1, i - 1)))
FunctionEnd(a, i) == Start(a, i) + Len(Render([kind |-> "call", body |-> <<>>]))
FirstParameterEnd(a, i) ==
    Start(a, i) + Len(Render([kind |-> "call", body |-> <<Head(a[i].body)>>]))

\* A call finds the parser still with the call before it, or with text.
OpensAt(a, i) ==
    LET before == {j \in 1..(i - 1) : a[j].kind \in {"call", "text"}}
    IN IF before = {} THEN 0 ELSE Max(before)
CallOpen(a, i) == OpensAt(a, i) > 0 /\ a[OpensAt(a, i)].kind = "call"

\* Tags of the think parser end what it gives the tool parser at once.
Together(a, i, j) == \A k \in i..j : a[k].kind \in {"text", "call", "control"}

\* A control token in prose is cut in two.  What has come of it is kept only
\* behind a text that came with it, and not behind one that ends a call.
CutsControl(a, from, to) ==
    \E i \in DOMAIN a :
        /\ a[i].kind = "control" /\ ~CallOpen(a, i)
        /\ Start(a, i) + 2 <= to /\ to < Start(a, i) + Len(Render(a[i]))
        /\ LET k == OpensAt(a, i)
           IN \/ k = 0 \/ from >= Start(a, k + 1) \/ ~Together(a, k, i)
              \/ CallOpen(a, k) /\ from <= Start(a, k) /\ Head(a[k].body) # "*"

\* A call's first parameter comes with what closes the call before it.
JoinsCalls(a, from, to) ==
    \E i, j \in DOMAIN a :
        /\ i < j /\ a[i].kind = "call" /\ a[j].kind = "call" /\ a[j].body # <<>>
        /\ \A k \in (i + 1)..(j - 1) : a[k].kind # "call"
        /\ FirstParameterEnd(a, j) <= to
        /\ LET text == {k \in (i + 1)..(j - 1) : a[k].kind = "text"}
           IN IF text = {} THEN from <= Start(a, j)
              ELSE from <= Start(a, Min(text)) /\ Together(a, Min(text), j)

\* A function tag comes before the bullet of a text is given up.
SkipsBullet(a, from, to) ==
    \E i, j \in DOMAIN a :
        /\ i < j /\ Together(a, i, j)
        /\ a[i].kind = "text" /\ Head(a[i].body) = "*" /\ a[j].kind = "call"
        /\ from <= Start(a, i) + MaxMatch /\ FunctionEnd(a, j) <= to

Noted(from, to) ==
    LET made == [control |-> CutsControl(answer, from, to),
                 calls |-> JoinsCalls(answer, from, to),
                 bullet |-> SkipsBullet(answer, from, to)]
    IN cuts \cup {c \in DOMAIN made : made[c]}
-----------------------------------------------------------------------------
(***************************************************************************)
(* The stream, as openai_compat.py handles delta.content.                  *)
(***************************************************************************)

Init ==
    /\ answer \in Answers
    /\ unread = Tokens(answer)
    /\ think = NewThinkParser
    /\ tool = NewToolParser
    /\ flushed = FALSE
    /\ shown = <<>> /\ thought = <<>> /\ found = <<>>
    /\ cuts = {}

\* The chunks of the think parser, one after the other: prose goes through
\* the tool parser, whose text comes before its tools.
Handle(s, chunk) ==
    IF chunk.type = "thinking"
    THEN [s EXCEPT !.thought = @ \o chunk.content]
    ELSE LET q == ToolFeed(s.tool, chunk.content)
         IN [s EXCEPT !.tool = q, !.shown = @ \o q.text, !.found = @ \o q.tools]

Results(s) ==
    /\ tool' = [s.tool EXCEPT !.text = <<>>, !.tools = <<>>]
    /\ shown' = s.shown /\ thought' = s.thought /\ found' = s.found

Handles(p) ==
    /\ think' = [p EXCEPT !.chunks = <<>>]
    /\ Results(FoldLeft(Handle, [tool |-> tool, shown |-> shown, thought |-> thought,
                                 found |-> found], p.chunks))

Chunk(n) ==
    /\ ~flushed
    /\ Handles(ThinkFeed(think, SubSeq(unread, 1, n)))
    /\ unread' = From(unread, n + 1)
    /\ LET from == Len(Tokens(answer)) - Len(unread) IN cuts' = Noted(from, from + n)
    /\ UNCHANGED <<answer, flushed>>

\* After the stream: what the think parser holds is sent as it is, then the
\* call that is open.
Flush ==
    /\ unread = <<>> /\ ~flushed
    /\ thought' = IF think.inThink THEN thought \o think.buffer ELSE thought
    /\ shown' = IF think.inThink THEN shown ELSE shown \o think.buffer
    /\ found' = found \o ToolFlush(tool).tools
    /\ think' = [think EXCEPT !.buffer = <<>>]
    /\ tool' = [ToolFlush(tool) EXCEPT !.tools = <<>>, !.state = "TEXT"]
    /\ flushed' = TRUE
    /\ UNCHANGED <<answer, unread, cuts>>

Next == Flush \/ \E n \in 1..Len(unread) : Chunk(n)

Spec == Init /\ [][Next]_vars
-----------------------------------------------------------------------------
(***************************************************************************)
(* Properties.                                                             *)
(***************************************************************************)

\* The thinking is always told from the rest.  The tool calls and the prose
\* that the user gets are those of the whole answer for exactly the cuts that
\* are none of the above: a control token cut where nothing is held back
\* before it is shown in pieces (heuristic_tool_parser.py:89-97), a later call
\* that comes with what closes the one before is merged into it (:133-149),
\* and a text between a bullet and a call that came with it is lost (:103-113).
SplitDoesNotMatter ==
    flushed => /\ thought = ExpectedThought(answer)
               /\ found = ExpectedCalls(answer) <=> "calls" \notin cuts
               /\ shown = ExpectedText(answer) <=> cuts = {}
=============================================================================

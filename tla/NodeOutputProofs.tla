-------------------------- MODULE NodeOutputProofs --------------------------
(***************************************************************************)
(* Theorems about NodeOutput, for any ids, indexes, sizes and any number   *)
(* of events.                                                              *)
(***************************************************************************)
EXTENDS NodeOutput, FiniteSetTheorems, SequenceTheorems, TLAPS

-----------------------------------------------------------------------------
(***************************************************************************)
(* The inductive invariant.                                                *)
(***************************************************************************)

Segment == [kind : Kinds, parts : Seq(Nat \cup Ids)]

Buffer == [segs     : Seq(Segment),
           thinking : [Indexes -> Nat],
           text     : [Indexes -> Nat],
           tools    : SUBSET Indexes,
           names    : [Ids -> {"", "Task", "other"}],
           stack    : Seq(Ids \cup {Synthetic}),
           agents   : Seq(Nat)]

\* An open block is known under one index, and its segment is of its kind.
BlocksOK(t) ==
    \A i \in Indexes :
        /\ t.thinking[i] # 0 => /\ t.thinking[i] \in DOMAIN t.segs
                                /\ t.segs[t.thinking[i]].kind = "thinking"
        /\ t.text[i] # 0 => /\ t.text[i] \in DOMAIN t.segs
                            /\ t.segs[t.text[i]].kind = "text"
        /\ t.thinking[i] = 0 \/ t.text[i] = 0
        /\ i \in t.tools => t.thinking[i] = 0 /\ t.text[i] = 0

\* Every entry of the stack has the segment of a subagent.
AgentsOK(t) ==
    /\ Len(t.agents) = Len(t.stack)
    /\ \A n \in DOMAIN t.agents : /\ t.agents[n] \in DOMAIN t.segs
                                  /\ t.segs[t.agents[n]].kind = "subagent"

BufferOK(t) == t \in Buffer /\ BlocksOK(t) /\ AgentsOK(t)

AnyId == Ids \cup {NoId}
Cli == [agents  : Seq([id : AnyId, result : AnyId]),
        calls   : SUBSET Ids,
        block   : {NoBlock} \cup [type : {"text", "thinking"}, index : Indexes],
        said    : Seq(Segment),
        sent    : Nat,
        exit    : {"running", "clean", "failed"},
        streams : BOOLEAN]

\* A Task on the stack and what the CLI knows of it.  The result that the CLI
\* sends for it finds this entry, and no older one.
TaskAgrees(t, c, n) ==
    LET id     == c.agents[n].id
        result == c.agents[n].result
    IN  /\ t.stack[n] = IF id = NoId THEN Synthetic ELSE id
        /\ id # NoId => /\ t.names[id] = "Task"
                        /\ result \in Ids /\ RoughlyMatch(id, result)
        /\ id = NoId /\ result # NoId =>
              /\ result \in TaskLike /\ t.names[result] = ""
              /\ \A k \in 1..(n - 1) :
                    c.agents[k].id # NoId => ~RoughlyMatch(c.agents[k].id, result)

\* The result of another tool finds no Task.
CallAgrees(t, c, id) ==
    /\ t.names[id] = "other"
    /\ \A n \in DOMAIN c.agents :
          c.agents[n].id # NoId => ~RoughlyMatch(c.agents[n].id, id)

\* The open block of the conversation is the last text of the transcript.
BlockAgrees(t, c) ==
    c.block # NoBlock /\ c.agents = <<>> =>
        LET n == OpenAt(t, c.block.type, c.block.index)
        IN  /\ n \in DOMAIN t.segs
            /\ \A k \in DOMAIN t.segs : k > n => ~IsText(t.segs[k])

SubagentsAgree(t, c) ==
    /\ Len(t.stack) = Len(c.agents)
    /\ \A n \in DOMAIN c.agents : TaskAgrees(t, c, n)
    /\ \A id \in c.calls : CallAgrees(t, c, id)

InStep(t, c) ==
    /\ SubagentsAgree(t, c)
    /\ TextsAre(t.segs, c.said)
    /\ BlockAgrees(t, c)

\* While the process runs, transcript and CLI are in step, or will be when
\* the one event that waits has been applied.
SyncInv ==
    cli.exit = "running" =>
        \/ parsed = <<>> /\ InStep(transcript, cli)
        \/ /\ await = "event"
           /\ \E ev : /\ parsed = <<ev>> /\ ev.type \in TranscriptEventTypes
                      /\ BufferOK(Apply(transcript, ev))
                      /\ InStep(Apply(transcript, ev), cli)

ControlInv ==
    /\ cli \in Cli
    /\ node \in [state : {"in_progress", "completed", "error"},
                 session : BOOLEAN, had : BOOLEAN]
    /\ await \in {"event", "complete", "error", "over"}
    /\ cli.exit # "running" => parsed \in Seq({Just("error"), Just("complete")})

Inv == BufferOK(transcript) /\ ControlInv /\ SyncInv
-----------------------------------------------------------------------------
(***************************************************************************)
(* What the operations of the buffer do.                                   *)
(***************************************************************************)

\* Segments that are kept where they are, with their kinds, keep the open
\* blocks and the subagents.
KeepsKinds(t, u) ==
    /\ Len(t.segs) <= Len(u.segs)
    /\ \A n \in DOMAIN t.segs : u.segs[n].kind = t.segs[n].kind

LEMMA KindsKept ==
    ASSUME NEW t, BufferOK(t), NEW u \in Buffer, KeepsKinds(t, u),
           u.thinking = t.thinking, u.text = t.text, u.tools = t.tools,
           u.stack = t.stack, u.agents = t.agents
    PROVE  BufferOK(u)
<1>1. t \in Buffer /\ BlocksOK(t) /\ AgentsOK(t)
  BY DEF BufferOK
<1>2. \A n \in DOMAIN t.segs : n \in DOMAIN u.segs /\ u.segs[n].kind = t.segs[n].kind
  <2>1. t.segs \in Seq(Segment) /\ u.segs \in Seq(Segment)
    BY <1>1 DEF Buffer
  <2>. QED  BY <2>1 DEF KeepsKinds
<1>3. BlocksOK(u)
  BY <1>1, <1>2 DEF BlocksOK
<1>4. AgentsOK(u)
  BY <1>1, <1>2 DEF AgentsOK
<1>. QED  BY <1>3, <1>4 DEF BufferOK

\* A new segment.
LEMMA AddsSegment ==
    ASSUME NEW t, BufferOK(t), NEW kind \in Kinds, NEW parts \in Seq(Nat \cup Ids)
    PROVE  /\ BufferOK(Adds(t, kind, parts))
           /\ Adds(t, kind, parts).segs = Append(t.segs, [kind |-> kind, parts |-> parts])
           /\ Adds(t, kind, parts).thinking = t.thinking
           /\ Adds(t, kind, parts).text = t.text
           /\ Adds(t, kind, parts).tools = t.tools
           /\ Adds(t, kind, parts).names = t.names
           /\ Adds(t, kind, parts).stack = t.stack
           /\ Adds(t, kind, parts).agents = t.agents
<1> DEFINE seg == [kind |-> kind, parts |-> parts]
           u == Adds(t, kind, parts)
<1>1. t \in Buffer
  BY DEF BufferOK
<1>2. seg \in Segment
  BY DEF Segment
<1>3. t.segs \in Seq(Segment)
  BY <1>1 DEF Buffer
<1>4. Append(t.segs, seg) \in Seq(Segment) /\ Len(Append(t.segs, seg)) = Len(t.segs) + 1
      /\ \A n \in DOMAIN t.segs : Append(t.segs, seg)[n] = t.segs[n]
  BY <1>2, <1>3, AppendProperties
<1>5. u = [t EXCEPT !.segs = Append(@, seg)]
  BY DEF Adds
<1> HIDE DEF seg
<1>6. /\ u \in Buffer
      /\ u.segs = Append(t.segs, seg) /\ u.thinking = t.thinking /\ u.text = t.text
      /\ u.tools = t.tools /\ u.names = t.names /\ u.stack = t.stack /\ u.agents = t.agents
  BY <1>1, <1>4, <1>5 DEF Buffer
<1>7. KeepsKinds(t, u)
  BY <1>3, <1>4, <1>6 DEF KeepsKinds
<1>. HIDE DEF u
<1>8. BufferOK(u)
  BY <1>6, <1>7, KindsKept
<1>. QED  BY <1>6, <1>8 DEF u, seg

\* A segment, a segment of a transcript, and the last of a list with another
\* part.
WithPart(seg, part) == [seg EXCEPT !.parts = Append(@, part)]
PartTo(t, n, part) == [t EXCEPT !.segs[n].parts = Append(@, part)]
PartToLast(said, part) == [said EXCEPT ![Len(said)].parts = Append(@, part)]

LEMMA PartAdded ==
    ASSUME NEW t, BufferOK(t), NEW n \in DOMAIN t.segs, NEW part \in Nat \cup Ids,
           NEW u, u = PartTo(t, n, part)
    PROVE  /\ BufferOK(u)
           /\ u.segs \in Seq(Segment) /\ Len(u.segs) = Len(t.segs)
           /\ \A k \in DOMAIN t.segs :
                 u.segs[k] = IF k = n THEN WithPart(t.segs[n], part) ELSE t.segs[k]
           /\ u.thinking = t.thinking /\ u.text = t.text /\ u.tools = t.tools
           /\ u.names = t.names /\ u.stack = t.stack /\ u.agents = t.agents
<1> DEFINE seg == WithPart(t.segs[n], part)
<1>1. t \in Buffer
  BY DEF BufferOK
<1>2. t.segs \in Seq(Segment)
  BY <1>1 DEF Buffer
<1>3. t.segs[n] \in Segment
  BY <1>2
<1>4. seg \in Segment /\ seg.kind = t.segs[n].kind
  <2>1. t.segs[n].parts \in Seq(Nat \cup Ids)
    BY <1>3 DEF Segment
  <2>2. Append(t.segs[n].parts, part) \in Seq(Nat \cup Ids)
    BY <2>1
  <2>. QED  BY <1>3, <2>2 DEF Segment, WithPart
<1>5. u = [t EXCEPT !.segs = [t.segs EXCEPT ![n] = seg]]
  BY <1>1 DEF Buffer, WithPart, PartTo
<1> HIDE DEF seg
<1>6. /\ [t.segs EXCEPT ![n] = seg] \in Seq(Segment)
      /\ Len([t.segs EXCEPT ![n] = seg]) = Len(t.segs)
      /\ \A k \in 1..Len(t.segs) :
            [t.segs EXCEPT ![n] = seg][k] = IF k = n THEN seg ELSE t.segs[k]
  BY <1>2, <1>4, ExceptSeq
<1>7. /\ u \in Buffer /\ u.segs = [t.segs EXCEPT ![n] = seg]
      /\ u.thinking = t.thinking /\ u.text = t.text
      /\ u.tools = t.tools /\ u.names = t.names /\ u.stack = t.stack /\ u.agents = t.agents
  BY <1>1, <1>5, <1>6 DEF Buffer
<1>8. KeepsKinds(t, u)
  BY <1>2, <1>4, <1>6, <1>7 DEF KeepsKinds
<1>9. BufferOK(u)
  BY <1>7, <1>8, KindsKept
<1>10. \A k \in DOMAIN t.segs : u.segs[k] = IF k = n THEN seg ELSE t.segs[k]
  BY <1>2, <1>6, <1>7
<1>11. u.segs \in Seq(Segment) /\ Len(u.segs) = Len(t.segs)
  BY <1>6, <1>7
<1>. QED  BY <1>7, <1>9, <1>10, <1>11 DEF seg

\* An index that is forgotten is in no use, and nothing else changes.
LEMMA BlockStopped ==
    ASSUME NEW t, BufferOK(t), NEW i
    PROVE  /\ BufferOK(BlockStop(t, i))
           /\ BlockStop(t, i).segs = t.segs /\ BlockStop(t, i).names = t.names
           /\ BlockStop(t, i).stack = t.stack /\ BlockStop(t, i).agents = t.agents
           /\ i \in Indexes => /\ BlockStop(t, i).thinking[i] = 0
                               /\ BlockStop(t, i).text[i] = 0
                               /\ i \notin BlockStop(t, i).tools
<1> DEFINE u == BlockStop(t, i)
<1>1. t \in Buffer /\ BlocksOK(t) /\ AgentsOK(t)
  BY DEF BufferOK
<1>2. u \in Buffer /\ u.segs = t.segs /\ u.names = t.names
      /\ u.stack = t.stack /\ u.agents = t.agents
  BY <1>1 DEF BlockStop, Buffer
<1>3. AgentsOK(u)
  BY <1>1, <1>2 DEF AgentsOK
<1>4. CASE i \notin Indexes
  <2>1. u = t
    BY <1>4 DEF BlockStop
  <2>. QED  BY <1>4, <2>1
<1>5. CASE i \in Indexes
  <2>1. /\ \A k \in Indexes : k # i => u.thinking[k] = t.thinking[k] /\ u.text[k] = t.text[k]
        /\ u.tools \subseteq t.tools
        /\ u.thinking[i] = 0 /\ u.text[i] = 0 /\ i \notin u.tools
    <3>1. CASE i \in t.tools
      <4>1. u = [t EXCEPT !.tools = @ \ {i}]
        BY <1>5, <3>1 DEF BlockStop
      <4>2. t.thinking[i] = 0 /\ t.text[i] = 0
        BY <1>1, <1>5, <3>1 DEF BlocksOK
      <4>. QED  BY <1>1, <4>1, <4>2 DEF Buffer
    <3>2. CASE i \notin t.tools /\ t.thinking[i] # 0
      <4>1. u = [t EXCEPT !.thinking[i] = 0]
        BY <1>5, <3>2 DEF BlockStop
      <4>2. t.text[i] = 0
        BY <1>1, <1>5, <3>2 DEF BlocksOK
      <4> HIDE DEF u
      <4>3. u.thinking = [t.thinking EXCEPT ![i] = 0] /\ u.text = t.text /\ u.tools = t.tools
        BY <1>1, <4>1 DEF Buffer
      <4>4. t.thinking \in [Indexes -> Nat]
        BY <1>1 DEF Buffer
      <4>. QED  BY <1>5, <3>2, <4>2, <4>3, <4>4
    <3>3. CASE i \notin t.tools /\ t.thinking[i] = 0
      <4>1. u = [t EXCEPT !.text[i] = 0]
        BY <1>5, <3>3 DEF BlockStop
      <4>. QED  BY <1>1, <1>5, <3>3, <4>1 DEF Buffer
    <3>. QED  BY <3>1, <3>2, <3>3
  <2> HIDE DEF u
  <2>2. BlocksOK(u)
    BY <1>1, <1>2, <2>1 DEF BlocksOK
  <2>3. BufferOK(u)
    BY <1>2, <1>3, <2>2 DEF BufferOK
  <2>. QED  BY <1>2, <2>1, <2>3 DEF u
<1>. QED  BY <1>4, <1>5
-----------------------------------------------------------------------------
(***************************************************************************)
(* What happens to the texts.                                              *)
(***************************************************************************)

\* Segments that keep their places and are no texts, and texts that keep
\* theirs, show what they showed.
LEMMA TextsStay ==
    ASSUME NEW segs \in Seq(Segment), NEW said \in Seq(Segment), TextsAre(segs, said),
           NEW new \in Seq(Segment), Len(segs) <= Len(new),
           \A n \in DOMAIN segs : IsText(segs[n]) => new[n] = segs[n],
           \A n \in DOMAIN new : IsText(new[n]) => n \in DOMAIN segs /\ IsText(segs[n])
    PROVE  TextsAre(new, said)
<1>1. PICK f \in [DOMAIN said -> DOMAIN segs] :
        /\ \A k \in DOMAIN said : segs[f[k]] = said[k] /\ IsText(said[k])
        /\ \A k, l \in DOMAIN said : k < l => f[k] < f[l]
        /\ \A n \in DOMAIN segs : IsText(segs[n]) => \E k \in DOMAIN said : f[k] = n
  BY DEF TextsAre
<1>2. DOMAIN segs \subseteq DOMAIN new
  OBVIOUS
<1>3. f \in [DOMAIN said -> DOMAIN new]
  BY <1>2
<1>4. \A k \in DOMAIN said : new[f[k]] = said[k] /\ IsText(said[k])
  BY <1>1
<1>5. \A n \in DOMAIN new : IsText(new[n]) => \E k \in DOMAIN said : f[k] = n
  BY <1>1
<1>. QED  BY <1>1, <1>3, <1>4, <1>5 DEF TextsAre

\* A new segment that is a text, and the conversation says it.
LEMMA TextAdded ==
    ASSUME NEW segs \in Seq(Segment), NEW said \in Seq(Segment), TextsAre(segs, said),
           NEW seg \in Segment, IsText(seg)
    PROVE  TextsAre(Append(segs, seg), Append(said, seg))
<1> DEFINE new == Append(segs, seg)
           now == Append(said, seg)
<1>1. PICK f \in [DOMAIN said -> DOMAIN segs] :
        /\ \A k \in DOMAIN said : segs[f[k]] = said[k] /\ IsText(said[k])
        /\ \A k, l \in DOMAIN said : k < l => f[k] < f[l]
        /\ \A n \in DOMAIN segs : IsText(segs[n]) => \E k \in DOMAIN said : f[k] = n
  BY DEF TextsAre
<1>2. /\ Len(segs) \in Nat /\ DOMAIN segs = 1..Len(segs)
      /\ Len(said) \in Nat /\ DOMAIN said = 1..Len(said)
  OBVIOUS
<1>3. /\ DOMAIN new = 1..(Len(segs) + 1) /\ new[Len(segs) + 1] = seg
      /\ \A n \in 1..Len(segs) : new[n] = segs[n]
  BY <1>2, AppendProperties
<1>4. /\ DOMAIN now = 1..(Len(said) + 1) /\ now[Len(said) + 1] = seg
      /\ \A n \in 1..Len(said) : now[n] = said[n]
  BY <1>2, AppendProperties
<1> DEFINE g == [k \in DOMAIN now |-> IF k \in DOMAIN said THEN f[k] ELSE Len(segs) + 1]
<1> HIDE DEF new, now
<1>5. g \in [DOMAIN now -> DOMAIN new]
  BY <1>2, <1>3, <1>4
<1>6. \A k \in DOMAIN now : new[g[k]] = now[k] /\ IsText(now[k])
  <2> SUFFICES ASSUME NEW k \in DOMAIN now  PROVE new[g[k]] = now[k] /\ IsText(now[k])
    OBVIOUS
  <2>1. CASE k \in DOMAIN said
    <3>1. g[k] = f[k] /\ f[k] \in 1..Len(segs)
      BY <1>2, <2>1
    <3>. QED  BY <1>1, <1>2, <1>3, <1>4, <2>1, <3>1
  <2>2. CASE k \notin DOMAIN said
    <3>1. k = Len(said) + 1 /\ g[k] = Len(segs) + 1
      BY <1>2, <1>4, <2>2
    <3>. QED  BY <1>3, <1>4, <3>1
  <2>. QED  BY <2>1, <2>2
<1>7. \A k, l \in DOMAIN now : k < l => g[k] < g[l]
  <2> SUFFICES ASSUME NEW k \in DOMAIN now, NEW l \in DOMAIN now, k < l
               PROVE  g[k] < g[l]
    OBVIOUS
  <2>1. k \in DOMAIN said
    BY <1>2, <1>4
  <2>2. g[k] = f[k] /\ f[k] \in 1..Len(segs)
    BY <1>2, <2>1
  <2>3. CASE l \in DOMAIN said
    BY <1>1, <2>1, <2>2, <2>3
  <2>4. CASE l \notin DOMAIN said
    BY <1>2, <2>2, <2>4
  <2>. QED  BY <2>3, <2>4
<1>8. \A n \in DOMAIN new : IsText(new[n]) => \E k \in DOMAIN now : g[k] = n
  <2> SUFFICES ASSUME NEW n \in DOMAIN new, IsText(new[n])
               PROVE  \E k \in DOMAIN now : g[k] = n
    OBVIOUS
  <2>1. CASE n \in DOMAIN segs
    <3>1. PICK k \in DOMAIN said : f[k] = n
      BY <1>1, <1>2, <1>3, <2>1
    <3>2. k \in DOMAIN now /\ g[k] = n
      BY <1>2, <1>4, <3>1
    <3>. QED  BY <3>2
  <2>2. CASE n \notin DOMAIN segs
    <3>1. n = Len(segs) + 1
      BY <1>2, <1>3, <2>2
    <3>2. Len(said) + 1 \in DOMAIN now /\ Len(said) + 1 \notin DOMAIN said
      BY <1>2, <1>4
    <3>. QED  BY <3>1, <3>2
  <2>. QED  BY <2>1, <2>2
<1> HIDE DEF g
<1>9. TextsAre(new, now)
  BY <1>5, <1>6, <1>7, <1>8 DEF TextsAre
<1>. QED  BY <1>9 DEF new, now

\* What shows a text was said.
LEMMA SaidNotEmpty ==
    ASSUME NEW segs, NEW said \in Seq(Segment), TextsAre(segs, said),
           NEW n \in DOMAIN segs, IsText(segs[n])
    PROVE  Len(said) \in DOMAIN said
<1>1. \E k \in DOMAIN said : TRUE
  BY DEF TextsAre
<1>. QED  BY <1>1

\* The last text grows, and the last of what the conversation says.
LEMMA TextGrown ==
    ASSUME NEW segs \in Seq(Segment), NEW said \in Seq(Segment), TextsAre(segs, said),
           NEW n \in DOMAIN segs, IsText(segs[n]),
           \A k \in DOMAIN segs : k > n => ~IsText(segs[k]),
           NEW part,
           NEW new \in Seq(Segment), Len(new) = Len(segs),
           \A k \in DOMAIN segs :
              new[k] = IF k = n THEN WithPart(segs[n], part) ELSE segs[k]
    PROVE  Len(said) \in DOMAIN said /\ TextsAre(new, PartToLast(said, part))
<1> DEFINE last == Len(said)
           now == PartToLast(said, part)
<1>1. PICK f \in [DOMAIN said -> DOMAIN segs] :
        /\ \A k \in DOMAIN said : segs[f[k]] = said[k] /\ IsText(said[k])
        /\ \A k, l \in DOMAIN said : k < l => f[k] < f[l]
        /\ \A k \in DOMAIN segs : IsText(segs[k]) => \E l \in DOMAIN said : f[l] = k
  BY DEF TextsAre
<1>2. /\ Len(segs) \in Nat /\ DOMAIN segs = 1..Len(segs) /\ DOMAIN new = DOMAIN segs
      /\ Len(said) \in Nat /\ DOMAIN said = 1..Len(said)
  OBVIOUS
<1>3. last \in DOMAIN said /\ f[last] = n
  <2>1. PICK k \in DOMAIN said : f[k] = n
    BY <1>1
  <2>2. last \in DOMAIN said
    BY <1>2, <2>1
  <2>3. ~(k < last)
    <3> SUFFICES ASSUME k < last PROVE FALSE
      OBVIOUS
    <3>1. f[last] \in DOMAIN segs /\ f[last] > n
      BY <1>1, <1>2, <2>1, <2>2
    <3>2. IsText(segs[f[last]])
      BY <1>1, <2>2
    <3>. QED  BY <3>1, <3>2
  <2>. QED  BY <1>2, <2>1, <2>2, <2>3
<1>4. /\ DOMAIN now = DOMAIN said
      /\ \A k \in DOMAIN said : k # last => now[k] = said[k]
      /\ now[last] = WithPart(said[last], part)
  BY <1>3 DEF PartToLast, WithPart
<1>5. \A k \in DOMAIN said : IsText(now[k])
  <2>1. IsText(said[last]) /\ said[last] \in Segment
    BY <1>1, <1>3
  <2>2. now[last].kind = said[last].kind
    BY <1>4, <2>1 DEF Segment, WithPart
  <2>3. IsText(now[last])
    BY <2>1, <2>2 DEF IsText
  <2>. QED  BY <1>1, <1>4, <2>3
<1> HIDE DEF now, last
<1>6. \A k \in DOMAIN said : new[f[k]] = now[k]
  <2> SUFFICES ASSUME NEW k \in DOMAIN said  PROVE new[f[k]] = now[k]
    OBVIOUS
  <2>1. f[k] \in DOMAIN segs /\ segs[f[k]] = said[k]
    BY <1>1
  <2>2. CASE k = last
    BY <1>3, <1>4, <2>1, <2>2
  <2>3. CASE k # last
    <3>1. f[k] # n
      BY <1>1, <1>2, <1>3, <2>3
    <3>. QED  BY <1>4, <2>1, <2>3, <3>1
  <2>. QED  BY <2>2, <2>3
<1>7. \A k \in DOMAIN new : IsText(new[k]) => \E l \in DOMAIN said : f[l] = k
  BY <1>1, <1>2
<1>8. f \in [DOMAIN now -> DOMAIN new]
  BY <1>2, <1>4
<1>9. /\ \A k \in DOMAIN now : new[f[k]] = now[k] /\ IsText(now[k])
      /\ \A k, l \in DOMAIN now : k < l => f[k] < f[l]
      /\ \A k \in DOMAIN new : IsText(new[k]) => \E l \in DOMAIN now : f[l] = k
  BY <1>1, <1>4, <1>5, <1>6, <1>7
<1>10. TextsAre(new, now)
  BY <1>8, <1>9 DEF TextsAre
<1>. QED  BY <1>3, <1>10 DEF now, last
-----------------------------------------------------------------------------
(***************************************************************************)
(* What an event does to a transcript that is in step with the CLI.        *)
(***************************************************************************)

\* What was shown of the types.
LEMMA TypesOf ==
    ASSUME NEW t, BufferOK(t), NEW c \in Cli, InStep(t, c)
    PROVE  /\ t.segs \in Seq(Segment) /\ c.said \in Seq(Segment)
           /\ t.stack \in Seq(Ids \cup {Synthetic}) /\ Len(t.stack) = Len(c.agents)
           /\ c.agents \in Seq([id : AnyId, result : AnyId])
           /\ DOMAIN t.stack = DOMAIN c.agents
           /\ InSubagent(t) <=> c.agents # <<>>
<1>1. t.segs \in Seq(Segment) /\ t.stack \in Seq(Ids \cup {Synthetic})
  BY DEF BufferOK, Buffer
<1>2. c.said \in Seq(Segment) /\ c.agents \in Seq([id : AnyId, result : AnyId])
  BY DEF Cli
<1>3. Len(t.stack) = Len(c.agents)
  BY DEF InStep, SubagentsAgree
<1>. QED  BY <1>1, <1>2, <1>3 DEF InSubagent

\* Who leaves names and stack alone leaves the subagents in step.
LEMMA SubagentsStay ==
    ASSUME NEW t, NEW c, SubagentsAgree(t, c),
           NEW u, u.names = t.names, u.stack = t.stack,
           NEW d, d.agents = c.agents, d.calls \subseteq c.calls
    PROVE  SubagentsAgree(u, d)
<1>1. Len(u.stack) = Len(d.agents)
  BY DEF SubagentsAgree
<1>2. ASSUME NEW n \in DOMAIN d.agents  PROVE TaskAgrees(u, d, n)
  <2>1. TaskAgrees(t, c, n)
    BY DEF SubagentsAgree
  <2>. QED  BY <2>1 DEF TaskAgrees
<1>3. ASSUME NEW id \in d.calls  PROVE CallAgrees(u, d, id)
  <2>1. CallAgrees(t, c, id)
    BY DEF SubagentsAgree
  <2>. QED  BY <2>1 DEF CallAgrees
<1>. QED  BY <1>1, <1>2, <1>3 DEF SubagentsAgree

\* A segment without text is added, or an event is not shown at all.
LEMMA NoTextAdded ==
    ASSUME NEW segs \in Seq(Segment), NEW said \in Seq(Segment), TextsAre(segs, said),
           NEW seg \in Segment, ~IsText(seg)
    PROVE  TextsAre(Append(segs, seg), said)
<1>1. /\ Append(segs, seg) \in Seq(Segment) /\ Len(Append(segs, seg)) = Len(segs) + 1
      /\ \A n \in 1..Len(segs) : Append(segs, seg)[n] = segs[n]
      /\ Append(segs, seg)[Len(segs) + 1] = seg
      /\ Len(segs) \in Nat
  BY AppendProperties
<1> DEFINE new == Append(segs, seg)
<1> HIDE DEF new
<1>2. new \in Seq(Segment) /\ Len(segs) <= Len(new)
  BY <1>1 DEF new
<1>3. \A n \in DOMAIN segs : IsText(segs[n]) => new[n] = segs[n]
  BY <1>1 DEF new
<1>4. \A n \in DOMAIN new : IsText(new[n]) => n \in DOMAIN segs /\ IsText(segs[n])
  <2> SUFFICES ASSUME NEW n \in DOMAIN new, IsText(new[n])
               PROVE  n \in DOMAIN segs /\ IsText(segs[n])
    OBVIOUS
  <2>1. n \in 1..(Len(segs) + 1)
    BY <1>1, <1>2 DEF new
  <2>2. n # Len(segs) + 1
    BY <1>1 DEF new
  <2>. QED  BY <1>1, <2>1, <2>2 DEF new
<1>5. TextsAre(new, said)
  BY <1>2, <1>3, <1>4, TextsStay
<1>. QED  BY <1>5 DEF new

\* An error.
LEMMA ErrorApplied ==
    ASSUME NEW t, BufferOK(t)
    PROVE  /\ BufferOK(Apply(t, Just("error")))
           /\ \A c \in Cli : InStep(t, c) => InStep(Apply(t, Just("error")), c)
<1> DEFINE u == Apply(t, Just("error"))
           seg == [kind |-> "error", parts |-> <<>>]
<1>1. u = Adds(t, "error", <<>>)
  BY DEF Apply, Just, Parsed, HiddenInSubagent
<1> HIDE DEF u
<1>2. <<>> \in Seq(Nat \cup Ids) /\ "error" \in Kinds
  BY DEF Kinds
<1>3. /\ BufferOK(u) /\ u.segs = Append(t.segs, seg)
      /\ u.thinking = t.thinking /\ u.text = t.text /\ u.tools = t.tools
      /\ u.names = t.names /\ u.stack = t.stack /\ u.agents = t.agents
  BY <1>1, <1>2, AddsSegment
<1>4. seg \in Segment /\ ~IsText(seg)
  BY <1>2 DEF Segment, IsText
<1> HIDE DEF seg
<1>5. ASSUME NEW c \in Cli, InStep(t, c)  PROVE InStep(u, c)
  <2>1. t.segs \in Seq(Segment) /\ c.said \in Seq(Segment)
    BY <1>5, TypesOf
  <2>2. TextsAre(u.segs, c.said)
    BY <1>3, <1>4, <1>5, <2>1, NoTextAdded DEF InStep
  <2>3. SubagentsAgree(u, c)
    BY <1>3, <1>5, SubagentsStay DEF InStep
  <2>4. BlockAgrees(u, c)
    <3> SUFFICES ASSUME c.block # NoBlock, c.agents = <<>>  PROVE BlockAgrees(u, c)
      BY DEF BlockAgrees
    <3> DEFINE n == OpenAt(t, c.block.type, c.block.index)
    <3>1. n \in DOMAIN t.segs /\ \A k \in DOMAIN t.segs : k > n => ~IsText(t.segs[k])
      BY <1>5 DEF InStep, BlockAgrees
    <3>2. OpenAt(u, c.block.type, c.block.index) = n
      BY <1>3 DEF OpenAt
    <3> HIDE DEF n
    <3>3. /\ DOMAIN u.segs = 1..(Len(t.segs) + 1) /\ DOMAIN t.segs = 1..Len(t.segs)
          /\ \A k \in DOMAIN t.segs : u.segs[k] = t.segs[k]
          /\ u.segs[Len(t.segs) + 1] = seg /\ Len(t.segs) \in Nat
      BY <1>3, <1>4, <2>1, AppendProperties
    <3>4. n \in DOMAIN u.segs /\ \A k \in DOMAIN u.segs : k > n => ~IsText(u.segs[k])
      BY <1>4, <3>1, <3>3
    <3>. QED  BY <3>2, <3>4 DEF BlockAgrees
  <2>. QED  BY <2>2, <2>3, <2>4 DEF InStep
<1>. QED  BY <1>3, <1>5 DEF u

\* What a subagent says is hidden.
LEMMA HiddenApplied ==
    ASSUME NEW t, BufferOK(t), NEW c \in Cli, InStep(t, c), c.agents # <<>>,
           NEW d, d.agents = c.agents, d.calls = c.calls, d.said = c.said,
           NEW ev, ev.type \in HiddenInSubagent
    PROVE  BufferOK(Apply(t, ev)) /\ InStep(Apply(t, ev), d)
<1>1. InSubagent(t)
  BY TypesOf
<1>2. Apply(t, ev) = t
  BY <1>1 DEF Apply
<1>3. SubagentsAgree(t, d)
  BY SubagentsStay DEF InStep
<1>4. TextsAre(t.segs, d.said) /\ BlockAgrees(t, d)
  BY DEF InStep, BlockAgrees
<1>. QED  BY <1>2, <1>3, <1>4 DEF InStep

\* What apply does with each event, outside a subagent or with what is not
\* hidden in one.
LEMMA ApplyCases ==
    ASSUME NEW t, NEW ev
    PROVE  /\ ~InSubagent(t) =>
                 /\ ev.type = "thinking_start" => Apply(t, ev) = Opens(t, "thinking", ev.index)
                 /\ ev.type = "text_start"     => Apply(t, ev) = Opens(t, "text", ev.index)
                 /\ ev.type \in {"thinking_delta", "thinking_chunk"} =>
                       Apply(t, ev) = Grows(t, "thinking", ev.index, ev.text)
                 /\ ev.type \in {"text_delta", "text_chunk"} =>
                       Apply(t, ev) = Grows(t, "text", ev.index, ev.text)
           /\ ev.type = "tool_use_start" => Apply(t, ev) = ToolUseStart(t, ev)
           /\ ev.type = "tool_use"       => Apply(t, ev) = ToolUse(t, ev)
           /\ ev.type = "block_stop"     => Apply(t, ev) = BlockStop(t, ev.index)
           /\ ev.type = "tool_result"    => Apply(t, ev) = ToolResult(t, ev.id)
  BY DEF Apply, HiddenInSubagent

\* A block of text in a full message.
LEMMA ChunkApplied ==
    ASSUME NEW t, BufferOK(t), NEW c \in Cli, InStep(t, c),
           NEW kind \in {"thinking", "text"}, NEW piece \in Nat,
           NEW ev, ev.type = IF kind = "text" THEN "text_chunk" ELSE "thinking_chunk",
           ev.index = NoIndex, ev.text = piece,
           NEW d, d.agents = c.agents, d.calls = c.calls, d.block = NoBlock,
           d.said = IF c.agents = <<>>
                      THEN Append(c.said, [kind |-> kind, parts |-> <<piece>>]) ELSE c.said
    PROVE  BufferOK(Apply(t, ev)) /\ InStep(Apply(t, ev), d)
<1> DEFINE u == Apply(t, ev)
           seg == [kind |-> kind, parts |-> <<piece>>]
<1>1. CASE c.agents # <<>>
  <2>1. ev.type \in HiddenInSubagent /\ d.said = c.said
    BY <1>1 DEF HiddenInSubagent
  <2>. QED  BY <1>1, <2>1, HiddenApplied
<1>2. CASE c.agents = <<>>
  <2>1. ~InSubagent(t)
    BY <1>2, TypesOf
  <2>2. u = Grows(t, kind, NoIndex, piece)
    BY <2>1, ApplyCases
  <2>3. NoIndex \notin Indexes
    BY TranscriptAssumption DEF NoIndex
  <2>4. u = Adds(t, kind, <<piece>>)
    BY <2>2, <2>3 DEF Grows, OpenAt
  <2>. HIDE DEF u
  <2>5. kind \in Kinds /\ <<piece>> \in Seq(Nat \cup Ids)
    BY DEF Kinds
  <2>6. /\ BufferOK(u) /\ u.segs = Append(t.segs, seg)
        /\ u.names = t.names /\ u.stack = t.stack
    BY <2>4, <2>5, AddsSegment
  <2>7. seg \in Segment /\ IsText(seg)
    BY <2>5 DEF Segment, IsText
  <2>8. TextsAre(u.segs, d.said)
    BY <1>2, <2>6, <2>7, TypesOf, TextAdded DEF InStep
  <2>9. SubagentsAgree(u, d)
    BY <2>6, SubagentsStay DEF InStep
  <2>10. BlockAgrees(u, d)
    BY DEF BlockAgrees
  <2>. QED  BY <2>6, <2>8, <2>9, <2>10 DEF InStep, u
<1>. QED  BY <1>1, <1>2

\* A new segment for a block, which is then known under its index.
LEMMA BlockOpened ==
    ASSUME NEW t, BufferOK(t), NEW kind \in {"thinking", "text"}, NEW i \in Indexes
    PROVE  LET u == Opens(t, kind, i)
           IN  /\ BufferOK(u)
               /\ u.segs = Append(t.segs, [kind |-> kind, parts |-> <<>>])
               /\ OpenAt(u, kind, i) = Len(t.segs) + 1
               /\ u.names = t.names /\ u.stack = t.stack
<1> DEFINE v == BlockStop(t, i)
           w == Adds(v, kind, <<>>)
           u == Opens(t, kind, i)
           seg == [kind |-> kind, parts |-> <<>>]
           new == Len(t.segs) + 1
<1>1. u = IF kind = "thinking" THEN [w EXCEPT !.thinking[i] = Len(w.segs)]
                               ELSE [w EXCEPT !.text[i] = Len(w.segs)]
  BY DEF Opens
<1> HIDE DEF u
<1>2. /\ BufferOK(v) /\ v.segs = t.segs /\ v.names = t.names /\ v.stack = t.stack
      /\ v.agents = t.agents
      /\ v.thinking[i] = 0 /\ v.text[i] = 0 /\ i \notin v.tools
  BY BlockStopped
<1> HIDE DEF v
<1>3. kind \in Kinds /\ <<>> \in Seq(Nat \cup Ids)
  BY DEF Kinds
<1>4. /\ BufferOK(w) /\ w.segs = Append(v.segs, seg)
      /\ w.thinking = v.thinking /\ w.text = v.text /\ w.tools = v.tools
      /\ w.names = v.names /\ w.stack = v.stack /\ w.agents = v.agents
  BY <1>2, <1>3, AddsSegment
<1> HIDE DEF w
<1>5. w \in Buffer /\ BlocksOK(w) /\ AgentsOK(w)
  BY <1>4 DEF BufferOK
<1>6. t.segs \in Seq(Segment) /\ seg \in Segment
  BY <1>3 DEF BufferOK, Buffer, Segment
<1>7. Len(w.segs) = new /\ new \in Nat \ {0} /\ new \in DOMAIN w.segs /\ w.segs[new] = seg
  BY <1>2, <1>4, <1>6, AppendProperties
<1> HIDE DEF new
<1>8. /\ u \in Buffer /\ u.segs = w.segs /\ u.tools = w.tools /\ u.names = w.names
      /\ u.stack = w.stack /\ u.agents = w.agents
      /\ u.thinking = IF kind = "thinking" THEN [w.thinking EXCEPT ![i] = new] ELSE w.thinking
      /\ u.text = IF kind = "thinking" THEN w.text ELSE [w.text EXCEPT ![i] = new]
  <2>1. CASE kind = "thinking"
    <3>1. [w.thinking EXCEPT ![i] = new] \in [Indexes -> Nat]
      BY <1>5, <1>7 DEF Buffer
    <3>. QED  BY <1>1, <1>5, <1>7, <2>1, <3>1 DEF Buffer
  <2>2. CASE kind = "text"
    <3>1. [w.text EXCEPT ![i] = new] \in [Indexes -> Nat]
      BY <1>5, <1>7 DEF Buffer
    <3>. QED  BY <1>1, <1>5, <1>7, <2>2, <3>1 DEF Buffer
  <2>. QED  BY <2>1, <2>2
<1>9. w.thinking \in [Indexes -> Nat] /\ w.text \in [Indexes -> Nat]
  BY <1>5 DEF Buffer
<1>10. BlocksOK(u)
  <2> SUFFICES ASSUME NEW k \in Indexes
               PROVE  /\ u.thinking[k] # 0 => /\ u.thinking[k] \in DOMAIN u.segs
                                              /\ u.segs[u.thinking[k]].kind = "thinking"
                      /\ u.text[k] # 0 => /\ u.text[k] \in DOMAIN u.segs
                                          /\ u.segs[u.text[k]].kind = "text"
                      /\ u.thinking[k] = 0 \/ u.text[k] = 0
                      /\ k \in u.tools => u.thinking[k] = 0 /\ u.text[k] = 0
    BY DEF BlocksOK
  <2>1. CASE k # i
    <3>1. u.thinking[k] = w.thinking[k] /\ u.text[k] = w.text[k]
      BY <1>8, <1>9, <2>1
    <3>. QED  BY <1>5, <1>8, <3>1 DEF BlocksOK
  <2>2. CASE k = i /\ kind = "thinking"
    <3>1. u.thinking[i] = new /\ u.text[i] = 0 /\ i \notin u.tools
      BY <1>2, <1>4, <1>8, <1>9, <2>2
    <3>. QED  BY <1>7, <1>8, <2>2, <3>1
  <2>3. CASE k = i /\ kind = "text"
    <3>1. u.text[i] = new /\ u.thinking[i] = 0 /\ i \notin u.tools
      BY <1>2, <1>4, <1>8, <1>9, <2>3
    <3>. QED  BY <1>7, <1>8, <2>3, <3>1
  <2>. QED  BY <2>1, <2>2, <2>3
<1>11. AgentsOK(u)
  BY <1>5, <1>8 DEF AgentsOK
<1>12. OpenAt(u, kind, i) = new
  BY <1>8, <1>9 DEF OpenAt
<1>. QED  BY <1>2, <1>4, <1>8, <1>10, <1>11, <1>12 DEF BufferOK, u, new

\* The start of a streamed block of text.
LEMMA StartApplied ==
    ASSUME NEW t, BufferOK(t), NEW c \in Cli, InStep(t, c),
           NEW kind \in {"thinking", "text"}, NEW i \in Indexes,
           NEW ev, ev.type = IF kind = "text" THEN "text_start" ELSE "thinking_start",
           ev.index = i,
           NEW d, d.agents = c.agents, d.calls = c.calls,
           d.block = [type |-> kind, index |-> i],
           d.said = IF c.agents = <<>>
                      THEN Append(c.said, [kind |-> kind, parts |-> <<>>]) ELSE c.said
    PROVE  BufferOK(Apply(t, ev)) /\ InStep(Apply(t, ev), d)
<1> DEFINE u == Apply(t, ev)
           seg == [kind |-> kind, parts |-> <<>>]
<1>1. CASE c.agents # <<>>
  <2>1. ev.type \in HiddenInSubagent /\ d.said = c.said
    BY <1>1 DEF HiddenInSubagent
  <2>. QED  BY <1>1, <2>1, HiddenApplied
<1>2. CASE c.agents = <<>>
  <2>1. ~InSubagent(t)
    BY <1>2, TypesOf
  <2>2. u = Opens(t, kind, i)
    BY <2>1, ApplyCases
  <2>. HIDE DEF u
  <2>3. /\ BufferOK(u) /\ u.segs = Append(t.segs, seg)
        /\ OpenAt(u, kind, i) = Len(t.segs) + 1
        /\ u.names = t.names /\ u.stack = t.stack
    BY <2>2, BlockOpened
  <2>4. seg \in Segment /\ IsText(seg)
    BY DEF Segment, IsText, Kinds
  <2>5. TextsAre(u.segs, d.said)
    BY <1>2, <2>3, <2>4, TypesOf, TextAdded DEF InStep
  <2>6. SubagentsAgree(u, d)
    BY <2>3, SubagentsStay DEF InStep
  <2>7. t.segs \in Seq(Segment)
    BY TypesOf
  <2> HIDE DEF seg
  <2>8. DOMAIN u.segs = 1..(Len(t.segs) + 1) /\ Len(t.segs) \in Nat
    BY <2>3, <2>4, <2>7, AppendProperties
  <2>9. BlockAgrees(u, d)
    BY <2>3, <2>8 DEF BlockAgrees
  <2>. QED  BY <2>3, <2>5, <2>6, <2>9 DEF InStep, u
<1>. QED  BY <1>1, <1>2

\* A piece of a streamed block.
LEMMA DeltaApplied ==
    ASSUME NEW t, BufferOK(t), NEW c \in Cli, InStep(t, c), c.block # NoBlock,
           NEW piece \in Nat,
           NEW ev,
           ev.type = IF c.block.type = "text" THEN "text_delta" ELSE "thinking_delta",
           ev.index = c.block.index, ev.text = piece,
           NEW d, d.agents = c.agents, d.calls = c.calls, d.block = c.block,
           d.said = IF c.agents = <<>>
                      THEN PartToLast(c.said, piece) ELSE c.said
    PROVE  BufferOK(Apply(t, ev)) /\ InStep(Apply(t, ev), d)
<1> DEFINE u == Apply(t, ev)
           kind == c.block.type
           i == c.block.index
<1>0. kind \in {"thinking", "text"} /\ i \in Indexes
  BY DEF Cli, NoBlock
<1>1. CASE c.agents # <<>>
  <2>1. ev.type \in HiddenInSubagent /\ d.said = c.said
    BY <1>1 DEF HiddenInSubagent
  <2>. QED  BY <1>1, <2>1, HiddenApplied
<1>2. CASE c.agents = <<>>
  <2> DEFINE n == OpenAt(t, kind, i)
  <2>1. ~InSubagent(t)
    BY <1>2, TypesOf
  <2>2. u = Grows(t, kind, i, piece)
    BY <1>0, <2>1, ApplyCases
  <2>3. n \in DOMAIN t.segs /\ \A k \in DOMAIN t.segs : k > n => ~IsText(t.segs[k])
    BY <1>2 DEF InStep, BlockAgrees
  <2>4. t.segs \in Seq(Segment) /\ c.said \in Seq(Segment)
    BY TypesOf
  <2>5. n # 0
    BY <2>3, <2>4
  <2>6. IsText(t.segs[n])
    BY <1>0, <2>5 DEF OpenAt, BufferOK, BlocksOK, IsText
  <2>7. u = PartTo(t, n, piece)
    BY <2>2, <2>5 DEF Grows, PartTo
  <2>8. OpenAt(u, kind, i) = n \/ u.thinking # t.thinking \/ u.text # t.text
    BY DEF OpenAt
  <2>. HIDE DEF u, n
  <2>9. /\ BufferOK(u)
        /\ u.segs \in Seq(Segment) /\ Len(u.segs) = Len(t.segs)
        /\ \A k \in DOMAIN t.segs :
              u.segs[k] = IF k = n THEN WithPart(t.segs[n], piece) ELSE t.segs[k]
        /\ u.thinking = t.thinking /\ u.text = t.text
        /\ u.names = t.names /\ u.stack = t.stack
    <3>1. piece \in Nat \cup Ids
      OBVIOUS
    <3>. QED  BY <2>3, <2>7, <3>1, PartAdded
  <2>10. TextsAre(u.segs, d.said)
    <3>1. TextsAre(t.segs, c.said)
      BY DEF InStep
    <3>2. TextsAre(u.segs, PartToLast(c.said, piece))
      BY <2>3, <2>4, <2>6, <2>9, <3>1, TextGrown
    <3>. QED  BY <1>2, <3>2
  <2>11. SubagentsAgree(u, d)
    BY <2>9, SubagentsStay DEF InStep
  <2>12. DOMAIN u.segs = DOMAIN t.segs /\ DOMAIN t.segs \subseteq Nat
    BY <2>4, <2>9
  <2>13. \A k \in DOMAIN u.segs : k > n => ~IsText(u.segs[k])
    BY <2>3, <2>9, <2>12
  <2>14. BlockAgrees(u, d)
    BY <2>3, <2>8, <2>9, <2>12, <2>13 DEF BlockAgrees
  <2>. QED  BY <2>9, <2>10, <2>11, <2>14 DEF InStep, u
<1>. QED  BY <1>1, <1>2

\* The end of a streamed block, or of whatever has its index.
LEMMA StopApplied ==
    ASSUME NEW t, BufferOK(t), NEW c \in Cli, InStep(t, c),
           NEW ev, ev.type = "block_stop",
           NEW d, d.agents = c.agents, d.calls = c.calls, d.block = NoBlock, d.said = c.said
    PROVE  BufferOK(Apply(t, ev)) /\ InStep(Apply(t, ev), d)
<1> DEFINE u == Apply(t, ev)
<1>1. u = BlockStop(t, ev.index)
  BY ApplyCases
<1>. HIDE DEF u
<1>2. BufferOK(u) /\ u.segs = t.segs /\ u.names = t.names /\ u.stack = t.stack
  BY <1>1, BlockStopped
<1>3. SubagentsAgree(u, d)
  BY <1>2, SubagentsStay DEF InStep
<1>4. TextsAre(u.segs, d.said) /\ BlockAgrees(u, d)
  BY <1>2 DEF InStep, BlockAgrees
<1>. QED  BY <1>2, <1>3, <1>4 DEF InStep, u
-----------------------------------------------------------------------------
(***************************************************************************)
(* Tools and subagents.                                                    *)
(***************************************************************************)

\* An id that is neither in use nor like one that is.
Fresh(t, c, x) ==
    /\ x \in Ids
    /\ \A y \in Ids :
          (t.names[y] # "" \/ \E n \in DOMAIN c.agents : c.agents[n].result = y)
             => x # y /\ ~RoughlyMatch(x, y)

LEMMA MatchIsSymmetric ==
    ASSUME NEW x, NEW y  PROVE RoughlyMatch(x, y) <=> RoughlyMatch(y, x)
  BY DEF RoughlyMatch

LEMMA SameSegments ==
    ASSUME NEW t, BufferOK(t), NEW u, u.segs = t.segs
    PROVE  KeepsKinds(t, u)
<1>1. t.segs \in Seq(Segment)
  BY DEF BufferOK, Buffer
<1>. QED  BY <1>1 DEF KeepsKinds

LEMMA EntryOf ==
    ASSUME NEW S, NEW s \in Seq(S), NEW n \in DOMAIN s
    PROVE  s[n] \in S
  OBVIOUS

LEMMA LastOfAppend ==
    ASSUME NEW S, NEW s \in Seq(S), NEW e \in S
    PROVE  Append(s, e) # <<>> /\ Append(s, e)[Len(Append(s, e))] = e
  BY AppendProperties

LEMMA FrontIsSeq ==
    ASSUME NEW S, NEW s \in Seq(S), s # <<>>
    PROVE  Front(s) \in Seq(S)
  BY SubSeqProperties DEF Front

LEMMA PairIsSeq ==
    ASSUME NEW x, NEW y
    PROVE  <<y>> \in Seq({x, y}) /\ <<x, y>> \in Seq({x, y})
  OBVIOUS

\* An id is given a name.
Named(t, id, name) == [t EXCEPT !.names[id] = name]

LEMMA NameSet ==
    ASSUME NEW t, BufferOK(t), NEW id \in Ids, NEW name \in {"", "Task", "other"}
    PROVE  /\ BufferOK(Named(t, id, name))
           /\ Named(t, id, name).names = [t.names EXCEPT ![id] = name]
           /\ Named(t, id, name).segs = t.segs
           /\ Named(t, id, name).thinking = t.thinking
           /\ Named(t, id, name).text = t.text
           /\ Named(t, id, name).stack = t.stack
           /\ Named(t, id, name).agents = t.agents
<1> DEFINE u == Named(t, id, name)
<1>1. t \in Buffer
  BY DEF BufferOK
<1>2. [t.names EXCEPT ![id] = name] \in [Ids -> {"", "Task", "other"}]
  BY <1>1 DEF Buffer
<1>3. /\ u \in Buffer /\ u.names = [t.names EXCEPT ![id] = name]
      /\ u.segs = t.segs /\ u.thinking = t.thinking /\ u.text = t.text
      /\ u.tools = t.tools /\ u.stack = t.stack /\ u.agents = t.agents
  BY <1>1, <1>2 DEF Buffer, Named
<1> HIDE DEF u
<1>4. KeepsKinds(t, u)
  <2>1. u.segs = t.segs
    BY <1>3
  <2>. QED  BY <2>1, SameSegments, Zenon
<1>5. BufferOK(u)
  BY <1>3, <1>4, KindsKept
<1>. QED  BY <1>3, <1>5 DEF u

LEMMA TaskNamed ==
    ASSUME NEW t, BufferOK(t), NEW id \in Ids
    PROVE  /\ BufferOK(Named(t, id, "Task"))
           /\ Named(t, id, "Task").names = [t.names EXCEPT ![id] = "Task"]
           /\ Named(t, id, "Task").segs = t.segs
           /\ Named(t, id, "Task").stack = t.stack
  BY NameSet

LEMMA OtherNamed ==
    ASSUME NEW t, BufferOK(t), NEW id \in Ids
    PROVE  /\ BufferOK(Named(t, id, "other"))
           /\ Named(t, id, "other").names = [t.names EXCEPT ![id] = "other"]
           /\ Named(t, id, "other").segs = t.segs
           /\ Named(t, id, "other").thinking = t.thinking
           /\ Named(t, id, "other").text = t.text
           /\ Named(t, id, "other").stack = t.stack
           /\ Named(t, id, "other").agents = t.agents
  BY NameSet

LEMMA TaskWithId ==
    ASSUME NEW t, NEW c, NEW n, c.agents[n].id # NoId,
           t.stack[n] = c.agents[n].id, t.names[c.agents[n].id] = "Task",
           c.agents[n].result \in Ids, RoughlyMatch(c.agents[n].id, c.agents[n].result)
    PROVE  TaskAgrees(t, c, n)
  BY DEF TaskAgrees

LEMMA TaskWithoutId ==
    ASSUME NEW t, NEW c, NEW n, c.agents[n].id = NoId, t.stack[n] = Synthetic,
           c.agents[n].result # NoId =>
              /\ c.agents[n].result \in TaskLike /\ t.names[c.agents[n].result] = ""
              /\ \A k \in 1..(n - 1) :
                    c.agents[k].id # NoId =>
                       ~RoughlyMatch(c.agents[k].id, c.agents[n].result)
    PROVE  TaskAgrees(t, c, n)
  BY DEF TaskAgrees

\* The stack gets another Task, whose segment is the last.
LEMMA Pushed ==
    ASSUME NEW t, BufferOK(t), t.segs # <<>>, t.segs[Len(t.segs)].kind = "subagent",
           NEW id \in AnyId
    PROVE  LET u == SubagentPush(t, id)
           IN  /\ BufferOK(u)
               /\ u.stack = Append(t.stack, IF id = NoId THEN Synthetic ELSE id)
               /\ u.segs = t.segs /\ u.names = t.names
<1> DEFINE u == SubagentPush(t, id)
           entry == IF id = NoId THEN Synthetic ELSE id
<1>1. t \in Buffer /\ BlocksOK(t) /\ AgentsOK(t)
  BY DEF BufferOK
<1>2. t.stack \in Seq(Ids \cup {Synthetic}) /\ t.agents \in Seq(Nat) /\ t.segs \in Seq(Segment)
  BY <1>1 DEF Buffer
<1>3. Len(t.segs) \in Nat /\ Len(t.segs) \in DOMAIN t.segs
  BY <1>2
<1>4. entry \in Ids \cup {Synthetic}
  BY DEF AnyId
<1>5. u = [t EXCEPT !.stack = Append(@, entry), !.agents = Append(@, Len(t.segs))]
  BY DEF SubagentPush
<1> HIDE DEF u, entry
<1>6. /\ Append(t.stack, entry) \in Seq(Ids \cup {Synthetic})
      /\ Append(t.agents, Len(t.segs)) \in Seq(Nat)
      /\ Len(Append(t.stack, entry)) = Len(t.stack) + 1
      /\ Len(Append(t.agents, Len(t.segs))) = Len(t.agents) + 1
      /\ \A n \in 1..Len(t.agents) : Append(t.agents, Len(t.segs))[n] = t.agents[n]
      /\ Append(t.agents, Len(t.segs))[Len(t.agents) + 1] = Len(t.segs)
  BY <1>2, <1>3, <1>4, AppendProperties
<1>7. /\ u \in Buffer /\ u.segs = t.segs /\ u.thinking = t.thinking /\ u.text = t.text
      /\ u.tools = t.tools /\ u.names = t.names
      /\ u.stack = Append(t.stack, entry) /\ u.agents = Append(t.agents, Len(t.segs))
  BY <1>1, <1>5, <1>6 DEF Buffer
<1>8. BlocksOK(u)
  BY <1>1, <1>7 DEF BlocksOK
<1>9. AgentsOK(u)
  <2>1. Len(u.agents) = Len(u.stack)
    BY <1>1, <1>2, <1>6, <1>7 DEF AgentsOK
  <2>2. ASSUME NEW n \in DOMAIN u.agents
        PROVE  u.agents[n] \in DOMAIN u.segs /\ u.segs[u.agents[n]].kind = "subagent"
    <3>1. n \in 1..(Len(t.agents) + 1) /\ Len(t.agents) \in Nat
      BY <1>2, <1>6, <1>7
    <3>2. CASE n \in 1..Len(t.agents)
      <4>1. u.agents[n] = t.agents[n]
        BY <1>6, <1>7, <3>2
      <4>2. n \in DOMAIN t.agents
        BY <1>2, <3>2
      <4>3. t.agents[n] \in DOMAIN t.segs /\ t.segs[t.agents[n]].kind = "subagent"
        BY <1>1, <4>2 DEF AgentsOK
      <4>. QED  BY <1>7, <4>1, <4>3
    <3>3. CASE n = Len(t.agents) + 1
      BY <1>3, <1>6, <1>7, <3>3
    <3>. QED  BY <3>1, <3>2, <3>3
  <2>. QED  BY <2>1, <2>2 DEF AgentsOK
<1>. QED  BY <1>7, <1>8, <1>9 DEF BufferOK, u, entry

\* A Task begins, with an id that is new or with none.
LEMMA TaskApplied ==
    ASSUME NEW t, BufferOK(t), NEW c \in Cli, InStep(t, c),
           NEW id \in AnyId, NEW result \in AnyId,
           id # NoId => Fresh(t, c, id) /\ result \in Ids /\ RoughlyMatch(id, result),
           id = NoId /\ result # NoId => Fresh(t, c, result) /\ result \in TaskLike,
           NEW ev, ev.type \in {"tool_use", "tool_use_start"},
           ev.name = "Task", ev.id = id,
           NEW d, d.agents = Append(c.agents, [id |-> id, result |-> result]),
           d.calls = c.calls, d.block = NoBlock, d.said = c.said
    PROVE  BufferOK(Apply(t, ev)) /\ InStep(Apply(t, ev), d)
<1> DEFINE u == Apply(t, ev)
           v == IF ev.type = "tool_use" THEN t ELSE BlockStop(t, ev.index)
           w == IF id = NoId THEN v ELSE Named(v, id, "Task")
           x == Adds(w, "subagent", <<>>)
           seg == [kind |-> "subagent", parts |-> <<>>]
           entry == IF id = NoId THEN Synthetic ELSE id
<1>1. u = SubagentPush(x, id)
  <2>1. u = ToolUse(v, ev)
    BY ApplyCases DEF ToolUseStart
  <2>. QED  BY <2>1 DEF ToolUse, Named
<1> HIDE DEF u
<1>2. /\ BufferOK(v) /\ v.segs = t.segs /\ v.names = t.names /\ v.stack = t.stack
  BY BlockStopped
<1> HIDE DEF v
<1>3. /\ BufferOK(w) /\ w.segs = v.segs /\ w.stack = v.stack
      /\ id = NoId => w.names = v.names
      /\ id # NoId => w.names = [v.names EXCEPT ![id] = "Task"]
  <2>1. CASE id = NoId
    BY <1>2, <2>1
  <2>2. CASE id # NoId
    <3>1. id \in Ids /\ w = Named(v, id, "Task")
      BY <2>2 DEF AnyId
    <3> HIDE DEF w
    <3>3. BufferOK(v) /\ id \in Ids
      BY <1>2, <3>1
    <3>4. /\ BufferOK(Named(v, id, "Task"))
          /\ Named(v, id, "Task").names = [v.names EXCEPT ![id] = "Task"]
          /\ Named(v, id, "Task").segs = v.segs /\ Named(v, id, "Task").stack = v.stack
      BY <3>3, TaskNamed, Zenon
    <3>. QED  BY <2>2, <3>1, <3>4, Zenon
  <2>. QED  BY <2>1, <2>2
<1> HIDE DEF w
<1>0. x = Adds(w, "subagent", <<>>)
  OBVIOUS
<1> HIDE DEF x
<1>4. "subagent" \in Kinds /\ <<>> \in Seq(Nat \cup Ids)
  BY DEF Kinds
<1>5. BufferOK(x) /\ x.segs = Append(w.segs, seg) /\ x.names = w.names /\ x.stack = w.stack
  <2>1. BufferOK(w)
    BY <1>3
  <2>. QED  BY <1>0, <1>4, <2>1, AddsSegment
<1>6. /\ t.segs \in Seq(Segment) /\ c.said \in Seq(Segment)
      /\ t.stack \in Seq(Ids \cup {Synthetic}) /\ Len(t.stack) = Len(c.agents)
      /\ c.agents \in Seq([id : AnyId, result : AnyId])
  BY TypesOf
<1>7. seg \in Segment /\ ~IsText(seg) /\ seg.kind = "subagent"
  BY <1>4 DEF Segment, IsText
<1> HIDE DEF seg
<1>8. x.segs # <<>> /\ x.segs[Len(x.segs)].kind = "subagent"
  <2>1. x.segs = Append(t.segs, seg)
    BY <1>2, <1>3, <1>5, Zenon
  <2>2. x.segs # <<>> /\ x.segs[Len(x.segs)] = seg
    <3>1. Append(t.segs, seg) # <<>> /\ Append(t.segs, seg)[Len(Append(t.segs, seg))] = seg
      BY <1>6, <1>7, LastOfAppend, Zenon
    <3>. QED  BY <2>1, <3>1, Zenon
  <2>. QED  BY <1>7, <2>2, Zenon
<1>9. /\ BufferOK(u) /\ u.stack = Append(x.stack, entry)
      /\ u.segs = x.segs /\ u.names = x.names
  BY <1>1, <1>5, <1>8, Pushed
<1>10. entry \in Ids \cup {Synthetic}
  BY DEF AnyId
<1> HIDE DEF entry
<1>11. /\ u.segs = Append(t.segs, seg) /\ u.stack = Append(t.stack, entry)
       /\ id = NoId => u.names = t.names
       /\ id # NoId => u.names = [t.names EXCEPT ![id] = "Task"]
  BY <1>2, <1>3, <1>5, <1>9
<1>12. TextsAre(u.segs, d.said)
  BY <1>6, <1>7, <1>11, NoTextAdded DEF InStep
<1> DEFINE agent == [id |-> id, result |-> result]
           N == Len(c.agents)
<1>13. /\ N \in Nat /\ DOMAIN c.agents = 1..N
       /\ DOMAIN d.agents = 1..(N + 1) /\ Len(d.agents) = N + 1
       /\ \A n \in 1..N : d.agents[n] = c.agents[n]
       /\ d.agents[N + 1] = agent
  <2>1. agent \in [id : AnyId, result : AnyId]
    OBVIOUS
  <2> HIDE DEF agent
  <2>2. d.agents = Append(c.agents, agent)
    BY DEF agent
  <2>. QED  BY <1>6, <2>1, <2>2, AppendProperties
<1>14. /\ Len(u.stack) = N + 1
       /\ \A n \in 1..N : u.stack[n] = t.stack[n]
       /\ u.stack[N + 1] = entry
  BY <1>6, <1>10, <1>11, AppendProperties
<1>15. agent.id = id /\ agent.result = result
  OBVIOUS
<1> HIDE DEF agent, N
<1>16. t.names \in [Ids -> {"", "Task", "other"}]
  BY DEF BufferOK, Buffer
<1>17. \A y \in Ids : y # id => u.names[y] = t.names[y]
  BY <1>11, <1>16
<1>18. id # NoId => u.names[id] = "Task"
  BY <1>11, <1>16 DEF Fresh
<1>19. \A n \in 1..N : TaskAgrees(t, c, n)
  BY <1>13 DEF InStep, SubagentsAgree
<1>20. ASSUME NEW n \in 1..N  PROVE TaskAgrees(u, d, n)
  <2>1. TaskAgrees(t, c, n)
    BY <1>19
  <2>2. c.agents[n].id \in AnyId /\ c.agents[n].result \in AnyId
    <3>1. n \in DOMAIN c.agents /\ c.agents \in Seq([id : AnyId, result : AnyId])
      BY <1>6, <1>13
    <3>2. c.agents[n] \in [id : AnyId, result : AnyId]
      BY <3>1, EntryOf, Zenon
    <3>. QED  BY <3>2
  <2>3. c.agents[n].id # NoId => u.names[c.agents[n].id] = "Task"
    BY <1>17, <1>18, <2>1, <2>2 DEF TaskAgrees, AnyId
  <2>4. c.agents[n].result # NoId =>
            u.names[c.agents[n].result] = t.names[c.agents[n].result]
    BY <1>13, <1>17, <2>2 DEF Fresh, AnyId
  <2>5. \A k \in 1..(n - 1) : d.agents[k] = c.agents[k]
    BY <1>13
  <2>. QED  BY <1>13, <1>14, <2>1, <2>3, <2>4, <2>5 DEF TaskAgrees
<1>21. TaskAgrees(u, d, N + 1)
  <2>1. ASSUME id = NoId, result # NoId, NEW k \in 1..N, c.agents[k].id # NoId
        PROVE  ~RoughlyMatch(c.agents[k].id, result)
    <3>0. k \in DOMAIN c.agents /\ c.agents \in Seq([id : AnyId, result : AnyId])
      BY <1>6, <1>13, <2>1
    <3>1. c.agents[k] \in [id : AnyId, result : AnyId]
      BY <3>0, EntryOf, Zenon
    <3>2. c.agents[k].id \in Ids
      BY <2>1, <3>1 DEF AnyId
    <3>3. t.names[c.agents[k].id] = "Task"
      BY <1>19, <2>1 DEF TaskAgrees
    <3>. QED  BY <2>1, <3>2, <3>3, MatchIsSymmetric DEF Fresh
  <2>2. id = NoId /\ result # NoId => result \in TaskLike /\ u.names[result] = ""
    <3>1. id = NoId /\ result # NoId => result \in Ids /\ t.names[result] = ""
      BY DEF Fresh
    <3>. QED  BY <1>17, <3>1
  <2>3. \A k \in 1..N : d.agents[k].id = c.agents[k].id
    BY <1>13
  <2>5. d.agents[N + 1].id = id /\ d.agents[N + 1].result = result
    BY <1>13, <1>15
  <2>6. u.stack[N + 1] = IF id = NoId THEN Synthetic ELSE id
    BY <1>14 DEF entry
  <2>7. ASSUME NEW n, n = N + 1  PROVE TaskAgrees(u, d, n)
    <3>1. d.agents[n].id = id /\ d.agents[n].result = result
      BY <2>5, <2>7, Zenon
    <3>2. /\ id = NoId => u.stack[n] = Synthetic
          /\ id # NoId => u.stack[n] = id
      BY <2>6, <2>7, Zenon
    <3>3. CASE id # NoId
      <4>1. d.agents[n].id # NoId /\ u.stack[n] = d.agents[n].id
        BY <3>1, <3>2, <3>3, Zenon
      <4>2. u.names[d.agents[n].id] = "Task"
        BY <1>18, <3>1, <3>3, Zenon
      <4>3. d.agents[n].result \in Ids
        BY <3>1, <3>3, Zenon
      <4>4. RoughlyMatch(d.agents[n].id, d.agents[n].result)
        BY <3>1, <3>3, Zenon
      <4>. QED  BY <4>1, <4>2, <4>3, <4>4, TaskWithId, Zenon
    <3>4. CASE id = NoId
      <4>1. d.agents[n].id = NoId /\ u.stack[n] = Synthetic
        BY <3>1, <3>2, <3>4, Zenon
      <4>2. ASSUME d.agents[n].result # NoId
            PROVE  /\ d.agents[n].result \in TaskLike /\ u.names[d.agents[n].result] = ""
                   /\ \A k \in 1..(n - 1) :
                         d.agents[k].id # NoId =>
                            ~RoughlyMatch(d.agents[k].id, d.agents[n].result)
        <5>1. result # NoId
          BY <3>1, <4>2, Zenon
        <5>2. result \in TaskLike /\ u.names[result] = ""
          BY <2>2, <3>4, <5>1, Zenon
        <5>3. ASSUME NEW k \in 1..(n - 1), d.agents[k].id # NoId
              PROVE  ~RoughlyMatch(d.agents[k].id, result)
          <6>1. k \in 1..N
            BY <1>13, <2>7, <5>3
          <6>2. d.agents[k].id = c.agents[k].id
            BY <2>3, <6>1, Zenon
          <6>. QED  BY <2>1, <3>4, <5>1, <5>3, <6>1, <6>2, Zenon
        <5>. QED  BY <3>1, <5>2, <5>3, Zenon
      <4>. QED  BY <4>1, <4>2, TaskWithoutId, Zenon
    <3>. QED  BY <3>3, <3>4
  <2>. QED  BY <2>7
<1>22. ASSUME NEW call \in d.calls  PROVE CallAgrees(u, d, call)
  <2>1. CallAgrees(t, c, call)
    BY <1>22 DEF InStep, SubagentsAgree
  <2>2. call \in Ids
    BY <1>22 DEF Cli
  <2>3. id # NoId => call # id /\ ~RoughlyMatch(id, call)
    BY <2>1, <2>2 DEF CallAgrees, Fresh
  <2>4. u.names[call] = "other"
    BY <1>11, <1>17, <2>1, <2>2, <2>3 DEF CallAgrees
  <2>5. \A n \in DOMAIN d.agents :
            d.agents[n].id # NoId => ~RoughlyMatch(d.agents[n].id, call)
    BY <1>13, <1>15, <2>1, <2>3 DEF CallAgrees
  <2>. QED  BY <2>4, <2>5 DEF CallAgrees
<1>23. SubagentsAgree(u, d)
  <2>1. \A n \in DOMAIN d.agents : n \in 1..N \/ n = N + 1
    BY <1>13
  <2>. QED  BY <1>13, <1>14, <1>20, <1>21, <1>22, <2>1 DEF SubagentsAgree
<1>24. BlockAgrees(u, d)
  BY DEF BlockAgrees
<1>. QED  BY <1>9, <1>12, <1>23, <1>24 DEF InStep, u

\* A streamed tool takes its index.
WithTool(t, i) == [t EXCEPT !.tools = @ \cup {i}]

LEMMA ToolOpened ==
    ASSUME NEW t, BufferOK(t), NEW i \in Indexes, t.thinking[i] = 0, t.text[i] = 0
    PROVE  /\ BufferOK(WithTool(t, i))
           /\ WithTool(t, i).segs = t.segs
           /\ WithTool(t, i).names = t.names /\ WithTool(t, i).stack = t.stack
<1> DEFINE u == WithTool(t, i)
<1>1. t \in Buffer /\ BlocksOK(t) /\ AgentsOK(t)
  BY DEF BufferOK
<1>2. /\ u \in Buffer /\ u.segs = t.segs /\ u.names = t.names /\ u.stack = t.stack
      /\ u.agents = t.agents /\ u.thinking = t.thinking /\ u.text = t.text
      /\ u.tools = t.tools \cup {i}
  BY <1>1 DEF Buffer, WithTool
<1> HIDE DEF u
<1>3. BlocksOK(u)
  BY <1>1, <1>2 DEF BlocksOK
<1>4. AgentsOK(u)
  BY <1>1, <1>2 DEF AgentsOK
<1>. QED  BY <1>2, <1>3, <1>4 DEF BufferOK, u

\* Outside a subagent a tool is a segment of its own, in one it is its
\* current tool; no text moves.
ToolShown(t, id) == IF InSubagent(t) THEN PartTo(t, Last(t.agents), id)
                                     ELSE Adds(t, "tool_call", <<id>>)

LEMMA ToolIsShown ==
    ASSUME NEW t, BufferOK(t), NEW id \in Ids, NEW said \in Seq(Segment),
           TextsAre(t.segs, said)
    PROVE  LET u == ToolShown(t, id)
           IN  /\ BufferOK(u) /\ TextsAre(u.segs, said)
               /\ u.thinking = t.thinking /\ u.text = t.text
               /\ u.names = t.names /\ u.stack = t.stack
<1> DEFINE u == ToolShown(t, id)
<1>1. t \in Buffer /\ AgentsOK(t)
  BY DEF BufferOK
<1>2. t.segs \in Seq(Segment) /\ t.agents \in Seq(Nat) /\ t.stack \in Seq(Ids \cup {Synthetic})
  BY <1>1 DEF Buffer
<1>3. CASE InSubagent(t)
  <2> DEFINE n == Last(t.agents)
  <2>1. Len(t.agents) = Len(t.stack)
    BY <1>1 DEF AgentsOK
  <2>2. Len(t.agents) \in DOMAIN t.agents
    BY <1>2, <1>3, <2>1 DEF InSubagent
  <2>3. n = t.agents[Len(t.agents)]
    BY DEF Last
  <2>4. n \in DOMAIN t.segs /\ t.segs[n].kind = "subagent"
    BY <1>1, <2>2, <2>3 DEF AgentsOK
  <2>5. id \in Nat \cup Ids
    OBVIOUS
  <2>6. u = PartTo(t, n, id)
    BY <1>3 DEF ToolShown
  <2> HIDE DEF u, n
  <2>7. /\ BufferOK(u)
        /\ u.segs \in Seq(Segment) /\ Len(u.segs) = Len(t.segs)
        /\ \A k \in DOMAIN t.segs :
              u.segs[k] = IF k = n THEN WithPart(t.segs[n], id) ELSE t.segs[k]
        /\ u.thinking = t.thinking /\ u.text = t.text
        /\ u.names = t.names /\ u.stack = t.stack
    BY <2>4, <2>5, <2>6, PartAdded
  <2>8. ~IsText(t.segs[n])
    BY <2>4 DEF IsText
  <2>9. ~IsText(u.segs[n])
    <3>1. t.segs[n] \in Segment
      BY <1>2, <2>4
    <3>2. WithPart(t.segs[n], id).kind = t.segs[n].kind
      BY <3>1 DEF Segment, WithPart
    <3>3. u.segs[n] = WithPart(t.segs[n], id)
      BY <2>4, <2>7
    <3>. QED  BY <2>8, <3>2, <3>3 DEF IsText
  <2>10. DOMAIN u.segs = DOMAIN t.segs /\ Len(t.segs) <= Len(u.segs)
    BY <1>2, <2>7
  <2>11. /\ \A k \in DOMAIN t.segs : IsText(t.segs[k]) => u.segs[k] = t.segs[k]
         /\ \A k \in DOMAIN u.segs : IsText(u.segs[k]) => k \in DOMAIN t.segs /\ IsText(t.segs[k])
    BY <2>7, <2>8, <2>9, <2>10
  <2>12. TextsAre(u.segs, said)
    BY <1>2, <2>7, <2>10, <2>11, TextsStay
  <2>. QED  BY <2>7, <2>12 DEF u
<1>4. CASE ~InSubagent(t)
  <2> DEFINE seg == [kind |-> "tool_call", parts |-> <<id>>]
  <2>1. u = Adds(t, "tool_call", <<id>>)
    BY <1>4 DEF ToolShown
  <2> HIDE DEF u
  <2>2. "tool_call" \in Kinds /\ <<id>> \in Seq(Nat \cup Ids)
    BY DEF Kinds
  <2>3. /\ BufferOK(u) /\ u.segs = Append(t.segs, seg)
        /\ u.thinking = t.thinking /\ u.text = t.text
        /\ u.names = t.names /\ u.stack = t.stack
    BY <2>1, <2>2, AddsSegment
  <2>4. seg \in Segment /\ ~IsText(seg)
    BY <2>2 DEF Segment, IsText
  <2> HIDE DEF seg
  <2>5. TextsAre(u.segs, said)
    BY <1>2, <2>3, <2>4, NoTextAdded
  <2>. QED  BY <2>3, <2>5 DEF u
<1>. QED  BY <1>3, <1>4

\* A new id becomes the name of a tool.
LEMMA CallBegins ==
    ASSUME NEW t, BufferOK(t), NEW c \in Cli, SubagentsAgree(t, c),
           NEW id, Fresh(t, c, id),
           NEW u, u.stack = t.stack, u.names = [t.names EXCEPT ![id] = "other"],
           NEW d, d.agents = c.agents, d.calls = c.calls \cup {id}
    PROVE  SubagentsAgree(u, d)
<1>1. t.names \in [Ids -> {"", "Task", "other"}] /\ id \in Ids
  BY DEF BufferOK, Buffer, Fresh
<1>2. /\ \A y \in Ids : y # id => u.names[y] = t.names[y]
      /\ u.names[id] = "other" /\ t.names[id] = ""
  BY <1>1 DEF Fresh
<1>3. c.agents \in Seq([id : AnyId, result : AnyId]) /\ c.calls \subseteq Ids
  BY DEF Cli
<1>4. ASSUME NEW n \in DOMAIN c.agents
      PROVE  /\ TaskAgrees(u, d, n)
             /\ c.agents[n].id # NoId => ~RoughlyMatch(c.agents[n].id, id)
  <2>1. c.agents[n] \in [id : AnyId, result : AnyId]
    BY <1>3, EntryOf, Zenon
  <2>2. c.agents[n].id \in AnyId /\ c.agents[n].result \in AnyId
    BY <2>1
  <2>3. TaskAgrees(t, c, n)
    BY DEF SubagentsAgree
  <2>4. c.agents[n].id # NoId => /\ c.agents[n].id \in Ids
                                 /\ t.names[c.agents[n].id] = "Task"
                                 /\ u.names[c.agents[n].id] = "Task"
    BY <1>2, <2>2, <2>3 DEF TaskAgrees, AnyId
  <2>5. c.agents[n].result # NoId =>
           u.names[c.agents[n].result] = t.names[c.agents[n].result]
    <3>1. c.agents[n].result \in Ids => c.agents[n].result # id
      BY Zenon DEF Fresh
    <3>. QED  BY <1>2, <2>2, <3>1 DEF AnyId
  <2>6. c.agents[n].id # NoId => ~RoughlyMatch(c.agents[n].id, id)
    <3>1. ASSUME NEW y \in Ids, t.names[y] = "Task"  PROVE ~RoughlyMatch(y, id)
      BY <3>1, MatchIsSymmetric DEF Fresh
    <3>. QED  BY <2>4, <3>1
  <2>7. TaskAgrees(u, d, n)
    BY <2>3, <2>4, <2>5 DEF TaskAgrees
  <2>. QED  BY <2>6, <2>7
<1>5. ASSUME NEW call \in d.calls  PROVE CallAgrees(u, d, call)
  <2>1. CASE call = id
    BY <1>2, <1>4, <2>1 DEF CallAgrees
  <2>2. CASE call # id
    <3>1. call \in c.calls /\ call \in Ids
      BY <1>3, <1>5, <2>2
    <3>2. CallAgrees(t, c, call)
      BY <3>1 DEF SubagentsAgree
    <3>. QED  BY <1>2, <2>2, <3>1, <3>2 DEF CallAgrees
  <2>. QED  BY <2>1, <2>2
<1>. QED  BY <1>4, <1>5 DEF SubagentsAgree

\* A tool begins.
LEMMA ToolApplied ==
    ASSUME NEW t, BufferOK(t), NEW c \in Cli, InStep(t, c),
           NEW id, Fresh(t, c, id),
           NEW ev, ev.name = "other", ev.id = id,
           \/ ev.type = "tool_use"
           \/ ev.type = "tool_use_start" /\ ev.index \in Indexes,
           NEW d, d.agents = c.agents, d.calls = c.calls \cup {id},
           d.block = NoBlock, d.said = c.said
    PROVE  BufferOK(Apply(t, ev)) /\ InStep(Apply(t, ev), d)
<1> DEFINE u == Apply(t, ev)
           v == IF ev.type = "tool_use" THEN t ELSE BlockStop(t, ev.index)
           w == Named(v, id, "other")
           x == ToolShown(w, id)
<1>1. id \in Ids /\ id # NoId
  BY TranscriptAssumption DEF Fresh
<1>2. u = IF ev.type = "tool_use" THEN x ELSE WithTool(x, ev.index)
  <2>1. ToolUse(v, ev) = x
    BY <1>1 DEF ToolUse, ToolShown, PartTo, Named
  <2>2. CASE ev.type = "tool_use"
    BY <2>1, <2>2, ApplyCases
  <2>3. CASE ev.type = "tool_use_start"
    <3>1. u = ToolUseStart(t, ev) /\ v = BlockStop(t, ev.index) /\ ev.index \in Indexes
      BY <2>3, ApplyCases
    <3> HIDE DEF u, v, x
    <3>. QED  BY <2>1, <2>3, <3>1 DEF ToolUseStart, WithTool
  <2>. QED  BY <2>2, <2>3
<1> HIDE DEF u
<1>3. /\ BufferOK(v) /\ v.segs = t.segs /\ v.names = t.names /\ v.stack = t.stack
      /\ ev.type # "tool_use" => v.thinking[ev.index] = 0 /\ v.text[ev.index] = 0
  BY BlockStopped
<1> HIDE DEF v
<1>4. /\ BufferOK(w) /\ w.names = [t.names EXCEPT ![id] = "other"]
      /\ w.segs = t.segs /\ w.stack = t.stack
      /\ w.thinking = v.thinking /\ w.text = v.text
  <2>1. BufferOK(v) /\ id \in Ids
    BY <1>1, <1>3
  <2>2. /\ BufferOK(w) /\ w.names = [v.names EXCEPT ![id] = "other"]
        /\ w.segs = v.segs /\ w.stack = v.stack
        /\ w.thinking = v.thinking /\ w.text = v.text
    BY <2>1, OtherNamed, Zenon
  <2>. HIDE DEF w
  <2>. QED  BY <1>3, <2>2, Zenon
<1> HIDE DEF w
<1>5. c.said \in Seq(Segment) /\ TextsAre(w.segs, c.said)
  BY <1>4, TypesOf DEF InStep
<1>6. /\ BufferOK(x) /\ TextsAre(x.segs, c.said)
      /\ x.thinking = v.thinking /\ x.text = v.text
      /\ x.names = w.names /\ x.stack = t.stack
  BY <1>1, <1>4, <1>5, ToolIsShown
<1> HIDE DEF x
<1>7. BufferOK(u) /\ u.segs = x.segs /\ u.names = x.names /\ u.stack = x.stack
  <2>1. CASE ev.type = "tool_use"
    BY <1>2, <1>6, <2>1
  <2>2. CASE ev.type # "tool_use"
    <3>1. u = WithTool(x, ev.index) /\ ev.index \in Indexes
          /\ x.thinking[ev.index] = 0 /\ x.text[ev.index] = 0
      BY <1>2, <1>3, <1>6, <2>2
    <3>. QED  BY <1>6, <3>1, ToolOpened
  <2>. QED  BY <2>1, <2>2
<1>8. u.stack = t.stack /\ u.names = [t.names EXCEPT ![id] = "other"]
  BY <1>4, <1>6, <1>7, Zenon
<1>9. SubagentsAgree(u, d)
  BY <1>8, CallBegins DEF InStep
<1>10. TextsAre(u.segs, d.said) /\ BlockAgrees(u, d)
  BY <1>6, <1>7 DEF BlockAgrees
<1>. QED  BY <1>7, <1>9, <1>10 DEF InStep, u

\* A Task without an id matches nothing.
LEMMA SyntheticMatchesNone ==
    ASSUME NEW id \in Ids  PROVE ~RoughlyMatch(Synthetic, id)
  BY TranscriptAssumption DEF RoughlyMatch

\* An id that is like none of the Tasks' closes none.
LEMMA PopsNone ==
    ASSUME NEW t, BufferOK(t), NEW c \in Cli, SubagentsAgree(t, c), NEW id \in Ids,
           \A n \in DOMAIN c.agents :
              c.agents[n].id # NoId => ~RoughlyMatch(c.agents[n].id, id)
    PROVE  SubagentPop(t, id) = t
<1>1. id # NoId
  BY TranscriptAssumption
<1>2. DOMAIN t.stack = DOMAIN c.agents
  <2>1. Len(t.stack) = Len(c.agents)
    BY DEF SubagentsAgree
  <2>2. t.stack \in Seq(Ids \cup {Synthetic})
    BY DEF BufferOK, Buffer
  <2>3. c.agents \in Seq([id : AnyId, result : AnyId])
    BY DEF Cli
  <2>. QED  BY <2>1, <2>2, <2>3
<1>3. ASSUME NEW n \in DOMAIN t.stack  PROVE ~RoughlyMatch(t.stack[n], id)
  <2>1. TaskAgrees(t, c, n)
    BY <1>2 DEF SubagentsAgree
  <2>2. CASE c.agents[n].id = NoId
    <3>1. t.stack[n] = Synthetic
      BY <2>1, <2>2 DEF TaskAgrees
    <3>. QED  BY <3>1, SyntheticMatchesNone
  <2>3. CASE c.agents[n].id # NoId
    <3>1. t.stack[n] = c.agents[n].id
      BY <2>1, <2>3 DEF TaskAgrees
    <3>. QED  BY <1>2, <2>3, <3>1
  <2>. QED  BY <2>2, <2>3
<1>. QED  BY <1>1, <1>3, Zenon DEF SubagentPop

\* The innermost entry goes when it matches.
Popped(t) == CutTo(t, Len(t.stack) - 1)

LEMMA PopsLast ==
    ASSUME NEW t, BufferOK(t), InSubagent(t), NEW id
    PROVE  /\ id # NoId /\ RoughlyMatch(t.stack[Len(t.stack)], id) =>
                 SubagentPop(t, id) = Popped(t)
           /\ t.stack[Len(t.stack)] = Synthetic =>
                 SubagentPop(t, NoId) = Popped(t)
<1> DEFINE N == Len(t.stack)
           matching == {n \in DOMAIN t.stack : RoughlyMatch(t.stack[n], id)}
<1>1. t.stack \in Seq(Ids \cup {Synthetic})
  BY DEF BufferOK, Buffer
<1>2. N \in DOMAIN t.stack /\ DOMAIN t.stack = 1..N /\ N \in Nat
  BY <1>1 DEF InSubagent
<1>3. Last(t.stack) = t.stack[N]
  BY DEF Last
<1>4. ASSUME id # NoId, RoughlyMatch(t.stack[N], id)
      PROVE  SubagentPop(t, id) = Popped(t)
  <2> DEFINE top == CHOOSE n \in matching : \A k \in matching : k <= n
  <2>1. N \in matching /\ \A k \in matching : k \in 1..N
    BY <1>2, <1>4
  <2>2. SubagentPop(t, id) = CutTo(t, top - 1)
    BY <1>4, <2>1 DEF SubagentPop
  <2> HIDE DEF matching, N
  <2>3. \E n \in matching : \A k \in matching : k <= n
    BY <1>2, <2>1
  <2>4. top \in matching /\ \A k \in matching : k <= top
    BY <2>3
  <2> HIDE DEF top
  <2>5. top = N
    BY <1>2, <2>1, <2>4
  <2>. QED  BY <2>2, <2>5 DEF Popped, N
<1>5. ASSUME t.stack[N] = Synthetic
      PROVE  SubagentPop(t, NoId) = Popped(t)
  BY <1>3, <1>5 DEF SubagentPop, Popped
<1>. QED  BY <1>4, <1>5

LEMMA LastCut ==
    ASSUME NEW t, BufferOK(t), InSubagent(t)
    PROVE  /\ BufferOK(Popped(t)) /\ Popped(t) # t
           /\ Popped(t).segs = t.segs /\ Popped(t).names = t.names
           /\ Len(Popped(t).stack) = Len(t.stack) - 1
           /\ \A n \in 1..(Len(t.stack) - 1) : Popped(t).stack[n] = t.stack[n]
<1> DEFINE u == Popped(t)
           N == Len(t.stack)
           stack == SubSeq(t.stack, 1, N - 1)
           agents == SubSeq(t.agents, 1, N - 1)
<1>1. t \in Buffer /\ BlocksOK(t) /\ AgentsOK(t)
  BY DEF BufferOK
<1>2. t.stack \in Seq(Ids \cup {Synthetic}) /\ t.agents \in Seq(Nat) /\ Len(t.agents) = N
  BY <1>1 DEF Buffer, AgentsOK
<1>3. N \in Nat \ {0}
  BY <1>2 DEF InSubagent
<1>4. /\ stack \in Seq(Ids \cup {Synthetic}) /\ Len(stack) = N - 1
      /\ \A n \in 1..(N - 1) : stack[n] = t.stack[n]
  BY <1>2, <1>3, SubSeqProperties
<1>5. /\ agents \in Seq(Nat) /\ Len(agents) = N - 1 /\ DOMAIN agents = 1..(N - 1)
      /\ \A n \in 1..(N - 1) : agents[n] = t.agents[n]
      /\ \A n \in 1..(N - 1) : n \in DOMAIN t.agents
  BY <1>2, <1>3, SubSeqProperties
<1>6. u = [t EXCEPT !.stack = stack, !.agents = agents]
  BY <1>1 DEF Popped, CutTo, Buffer
<1> HIDE DEF u, N, stack, agents
<1>7. /\ u \in Buffer /\ u.stack = stack /\ u.agents = agents
      /\ u.segs = t.segs /\ u.names = t.names
      /\ u.thinking = t.thinking /\ u.text = t.text /\ u.tools = t.tools
  BY <1>1, <1>4, <1>5, <1>6 DEF Buffer
<1>8. BlocksOK(u)
  BY <1>1, <1>7 DEF BlocksOK
<1>9. AgentsOK(u)
  BY <1>1, <1>4, <1>5, <1>7 DEF AgentsOK
<1>10. u # t
  BY <1>3, <1>4, <1>7 DEF N
<1>. QED  BY <1>1, <1>4, <1>7, <1>8, <1>9, <1>10 DEF BufferOK, u, N

\* The result of the innermost Task closes its subagent, and that alone.
LEMMA TaskResultApplied ==
    ASSUME NEW t, BufferOK(t), NEW c \in Cli, InStep(t, c), c.agents # <<>>,
           NEW ev, ev.type = "tool_result", ev.id = Last(c.agents).result,
           NEW d, d.agents = Front(c.agents), d.calls = c.calls,
           d.block = NoBlock, d.said = c.said
    PROVE  BufferOK(Apply(t, ev)) /\ InStep(Apply(t, ev), d)
<1> DEFINE u == Apply(t, ev)
           N == Len(c.agents)
           id == c.agents[N].id
           result == c.agents[N].result
<1>1. /\ Len(t.stack) = N /\ InSubagent(t)
      /\ c.agents \in Seq([id : AnyId, result : AnyId])
  BY TypesOf
<1>2. N \in Nat \ {0} /\ DOMAIN c.agents = 1..N
  BY <1>1
<1>3. TaskAgrees(t, c, N) /\ SubagentsAgree(t, c)
  BY <1>2 DEF InStep, SubagentsAgree
<1>4. c.agents[N] \in [id : AnyId, result : AnyId]
  <2>1. N \in DOMAIN c.agents
    BY <1>2
  <2>. QED  BY <1>1, <2>1, EntryOf, Zenon
<1>5. id \in AnyId /\ result \in AnyId
  BY <1>4
<1>6. ev.id = result /\ Last(t.stack) = t.stack[N]
  BY <1>1 DEF Last
<1>7. u = ToolResult(t, result)
  BY <1>6, ApplyCases
<1>8. /\ t.stack[N] = IF id = NoId THEN Synthetic ELSE id
      /\ id # NoId => /\ t.names[id] = "Task"
                      /\ result \in Ids /\ RoughlyMatch(id, result)
      /\ id = NoId /\ result # NoId =>
            /\ result \in TaskLike /\ t.names[result] = ""
            /\ \A k \in 1..(N - 1) :
                  c.agents[k].id # NoId => ~RoughlyMatch(c.agents[k].id, result)
  BY <1>3 DEF TaskAgrees
<1> DEFINE cut == Popped(t)
<1> HIDE DEF u, N, id, result, cut
<1>9. /\ BufferOK(cut) /\ cut # t
      /\ cut.segs = t.segs /\ cut.names = t.names
      /\ Len(cut.stack) = N - 1
      /\ \A n \in 1..(N - 1) : cut.stack[n] = t.stack[n]
  <2>1. /\ BufferOK(cut) /\ cut # t
        /\ cut.segs = t.segs /\ cut.names = t.names
        /\ Len(cut.stack) = Len(t.stack) - 1
        /\ \A n \in 1..(Len(t.stack) - 1) : cut.stack[n] = t.stack[n]
    BY <1>1, LastCut, Zenon DEF cut
  <2>2. Len(t.stack) = N
    BY <1>1
  <2>. QED  BY <2>1, <2>2
<1>10. u = cut
  <2>1. CASE id # NoId
    <3>1. result # NoId /\ RoughlyMatch(t.stack[N], result)
      BY <1>8, <2>1, TranscriptAssumption
    <3>2. SubagentPop(t, result) = cut
      BY <1>1, <3>1, PopsLast DEF cut
    <3>. QED  BY <1>1, <1>7, <1>9, <3>2 DEF ToolResult
  <2>2. CASE id = NoId /\ result = NoId
    <3>1. SubagentPop(t, result) = cut
      BY <1>1, <1>8, <2>2, PopsLast DEF cut
    <3>. QED  BY <1>1, <1>7, <1>9, <3>1 DEF ToolResult
  <2>3. CASE id = NoId /\ result # NoId
    <3>1. result \in Ids
      BY <1>5, <2>3 DEF AnyId
    <3>2. \A n \in DOMAIN c.agents :
              c.agents[n].id # NoId => ~RoughlyMatch(c.agents[n].id, result)
      <4> SUFFICES ASSUME NEW n \in DOMAIN c.agents, c.agents[n].id # NoId
                   PROVE  ~RoughlyMatch(c.agents[n].id, result)
        OBVIOUS
      <4>1. n # N
        BY <2>3 DEF id
      <4>2. n \in 1..(N - 1)
        BY <1>2, <4>1
      <4>. QED  BY <1>8, <2>3, <4>2
    <3>3. SubagentPop(t, result) = t
      BY <1>3, <3>1, <3>2, PopsNone
    <3>4. SubagentPop(t, NoId) = cut
      BY <1>1, <1>8, <2>3, PopsLast DEF cut
    <3>. QED  BY <1>1, <1>6, <1>7, <1>8, <2>3, <3>3, <3>4 DEF ToolResult
  <2>. QED  BY <2>1, <2>2, <2>3
<1>11. /\ Len(d.agents) = N - 1 /\ DOMAIN d.agents = 1..(N - 1)
       /\ \A n \in 1..(N - 1) : d.agents[n] = c.agents[n] /\ n \in DOMAIN c.agents
  <2>1. d.agents = SubSeq(c.agents, 1, N - 1)
    BY DEF Front, N
  <2>. QED  BY <1>1, <1>2, <2>1, SubSeqProperties DEF N
<1>12. ASSUME NEW n \in 1..(N - 1)  PROVE TaskAgrees(u, d, n)
  <2>1. TaskAgrees(t, c, n)
    BY <1>3, <1>11 DEF SubagentsAgree
  <2>2. \A k \in 1..(n - 1) : d.agents[k] = c.agents[k]
    BY <1>2, <1>11
  <2>3. d.agents[n] = c.agents[n] /\ u.stack[n] = t.stack[n] /\ u.names = t.names
    BY <1>9, <1>10, <1>11
  <2>. QED  BY <2>1, <2>2, <2>3 DEF TaskAgrees
<1>13. ASSUME NEW call \in d.calls  PROVE CallAgrees(u, d, call)
  <2>1. CallAgrees(t, c, call)
    BY <1>3, <1>13 DEF SubagentsAgree
  <2>. QED  BY <1>9, <1>10, <1>11, <2>1 DEF CallAgrees
<1>14. SubagentsAgree(u, d)
  BY <1>9, <1>10, <1>11, <1>12, <1>13 DEF SubagentsAgree
<1>15. TextsAre(u.segs, d.said) /\ BlockAgrees(u, d)
  BY <1>9, <1>10 DEF InStep, BlockAgrees
<1>. QED  BY <1>9, <1>10, <1>14, <1>15 DEF InStep, u

\* The result of another tool closes nothing.
LEMMA ToolResultApplied ==
    ASSUME NEW t, BufferOK(t), NEW c \in Cli, InStep(t, c), NEW id \in c.calls,
           NEW ev, ev.type = "tool_result", ev.id = id,
           NEW d, d.agents = c.agents, d.calls = c.calls \ {id},
           d.block = NoBlock, d.said = c.said
    PROVE  BufferOK(Apply(t, ev)) /\ InStep(Apply(t, ev), d)
<1>1. SubagentsAgree(t, c) /\ CallAgrees(t, c, id)
  BY DEF InStep, SubagentsAgree
<1>2. id \in Ids
  BY DEF Cli
<1>3. SubagentPop(t, id) = t
  BY <1>1, <1>2, PopsNone DEF CallAgrees
<1>4. Apply(t, ev) = t
  <2>1. Apply(t, ev) = ToolResult(t, id)
    BY ApplyCases
  <2>2. t.names[id] = "other"
    BY <1>1 DEF CallAgrees
  <2>. QED  BY <1>3, <2>1, <2>2 DEF ToolResult
<1>5. SubagentsAgree(t, d)
  BY <1>1, SubagentsStay
<1>. QED  BY <1>4, <1>5 DEF InStep, BlockAgrees
-----------------------------------------------------------------------------
(***************************************************************************)
(* The steps of the CLI.                                                   *)
(***************************************************************************)

\* Between two events transcript and CLI are in step.
LEMMA WasInStep ==
    ASSUME Inv, Reading
    PROVE  /\ BufferOK(transcript) /\ cli \in Cli /\ InStep(transcript, cli)
           /\ cli.exit = "running"
  BY DEF Inv, ControlInv, SyncInv, Reading

\* What InStep says of a CLI depends on four of its fields.
LEMMA InStepSame ==
    ASSUME NEW t, NEW c, InStep(t, c),
           NEW d, d.agents = c.agents, d.calls = c.calls, d.block = c.block, d.said = c.said
    PROVE  InStep(t, d)
<1>1. SubagentsAgree(t, d)
  BY SubagentsStay DEF InStep
<1>. QED  BY <1>1 DEF InStep, BlockAgrees

\* An event that will leave them in step may be sent.
LEMMA SentInStep ==
    ASSUME Inv, Reading, NEW ev, parsed' = <<ev>>, ev.type \in TranscriptEventTypes,
           cli' \in Cli, cli'.exit = "running",
           BufferOK(Apply(transcript, ev)), InStep(Apply(transcript, ev), cli'),
           UNCHANGED <<transcript, await, node, ui, cancelled>>
    PROVE  Inv'
<1>1. BufferOK(transcript)' /\ ControlInv'
  BY DEF Inv, ControlInv
<1>2. await' = "event"
  BY DEF Reading
<1>3. SyncInv'
  BY <1>2 DEF SyncInv
<1>. QED  BY <1>1, <1>3 DEF Inv

\* What Sends does, and the fields of the CLI it leaves alone.
LEMMA SendsEvent ==
    ASSUME Inv, NEW event, NEW c \in Cli, Sends(event, c), c.exit = cli.exit
    PROVE  /\ Reading /\ parsed' = ParseCliEvent(event)
           /\ UNCHANGED <<transcript, await, node, ui, cancelled>>
           /\ cli' \in Cli /\ cli'.exit = "running"
           /\ cli'.agents = c.agents /\ cli'.calls = c.calls
           /\ cli'.block = c.block /\ cli'.said = c.said
<1>1. cli' = [c EXCEPT !.sent = @ + 1]
  BY DEF Sends
<1>2. c.sent + 1 \in Nat
  BY DEF Cli
<1>3. /\ cli' \in Cli /\ cli'.exit = c.exit
      /\ cli'.agents = c.agents /\ cli'.calls = c.calls
      /\ cli'.block = c.block /\ cli'.said = c.said
  BY <1>1, <1>2 DEF Cli
<1>. QED  BY <1>3 DEF Sends, Reading

LEMMA ReportsErrorStep ==
    ASSUME Inv, ReportsError  PROVE Inv'
<1> DEFINE ev == Just("error")
<1>1. cli \in Cli
  BY DEF Inv, ControlInv
<1>2. /\ Reading /\ parsed' = ParseCliEvent([type |-> "error"])
      /\ UNCHANGED <<transcript, await, node, ui, cancelled>>
      /\ cli' \in Cli /\ cli'.exit = "running"
      /\ cli'.agents = cli.agents /\ cli'.calls = cli.calls
      /\ cli'.block = cli.block /\ cli'.said = cli.said
  BY <1>1, SendsEvent DEF ReportsError
<1>3. parsed' = <<ev>> /\ ev.type \in TranscriptEventTypes
  BY <1>2 DEF ParseCliEvent, Just, Parsed, TranscriptEventTypes
<1>4. BufferOK(transcript) /\ InStep(transcript, cli)
  BY <1>2, WasInStep
<1>5. InStep(transcript, cli')
  BY <1>2, <1>4, InStepSame
<1>6. BufferOK(Apply(transcript, ev)) /\ InStep(Apply(transcript, ev), cli')
  BY <1>2, <1>4, <1>5, ErrorApplied
<1> HIDE DEF ev
<1>. QED  BY <1>2, <1>3, <1>6, SentInStep

LEMMA StopsBlockStep ==
    ASSUME Inv, StopsBlock  PROVE Inv'
<1> DEFINE c == [cli EXCEPT !.block = NoBlock]
           event == [type |-> "content_block_stop", index |-> cli.block.index]
           ev == Parsed("block_stop", cli.block.index, NoId, "", 0)
<1>1. cli \in Cli
  BY DEF Inv, ControlInv
<1>2. /\ c \in Cli /\ c.exit = cli.exit /\ c.agents = cli.agents /\ c.calls = cli.calls
      /\ c.block = NoBlock /\ c.said = cli.said
  BY <1>1 DEF Cli
<1>3. Sends(event, c)
  BY DEF StopsBlock
<1>4. ParseCliEvent(event) = <<ev>>
  BY DEF ParseCliEvent
<1>5. ev.type = "block_stop" /\ ev.type \in TranscriptEventTypes
  BY DEF Parsed, TranscriptEventTypes
<1> HIDE DEF c, event, ev
<1>6. /\ Reading /\ parsed' = <<ev>>
      /\ UNCHANGED <<transcript, await, node, ui, cancelled>>
      /\ cli' \in Cli /\ cli'.exit = "running"
      /\ cli'.agents = cli.agents /\ cli'.calls = cli.calls
      /\ cli'.block = NoBlock /\ cli'.said = cli.said
  BY <1>2, <1>3, <1>4, SendsEvent
<1>7. BufferOK(transcript) /\ InStep(transcript, cli)
  BY <1>6, WasInStep
<1>8. BufferOK(Apply(transcript, ev)) /\ InStep(Apply(transcript, ev), cli')
  BY <1>1, <1>5, <1>6, <1>7, StopApplied
<1>. QED  BY <1>5, <1>6, <1>8, SentInStep

\* A full block of text.
LEMMA SaysTextStep ==
    ASSUME Inv, SaysText  PROVE Inv'
<1>1. PICK kind \in {"text", "thinking"} :
        Sends(Message(TextBlock(kind, Piece)), Says(kind, <<Piece>>))
  BY DEF SaysText
<1> DEFINE c == Says(kind, <<Piece>>)
           event == Message(TextBlock(kind, Piece))
           ev == Parsed(IF kind = "text" THEN "text_chunk" ELSE "thinking_chunk",
                        NoIndex, NoId, "", Piece)
<1>2. cli \in Cli
  BY DEF Inv, ControlInv
<1>3. Piece \in Nat /\ [kind |-> kind, parts |-> <<Piece>>] \in Segment
  <2>1. Piece \in Nat
    BY <1>2 DEF Piece, Cli
  <2>2. <<Piece>> \in Seq(Nat \cup Ids) /\ kind \in Kinds
    BY <2>1 DEF Kinds
  <2>. QED  BY <2>1, <2>2 DEF Segment
<1>4. /\ c \in Cli /\ c.exit = cli.exit /\ c.agents = cli.agents /\ c.calls = cli.calls
      /\ c.block = NoBlock
      /\ c.said = IF cli.agents = <<>>
                    THEN Append(cli.said, [kind |-> kind, parts |-> <<Piece>>]) ELSE cli.said
  <2> DEFINE seg == [kind |-> kind, parts |-> <<Piece>>]
             said == IF cli.agents = <<>> THEN Append(cli.said, seg) ELSE cli.said
  <2>1. c = [cli EXCEPT !.said = said, !.block = NoBlock]
    BY <1>2 DEF Says, Main, Cli
  <2> HIDE DEF seg, c
  <2>2. said \in Seq(Segment)
    BY <1>2, <1>3 DEF Cli, seg
  <2> HIDE DEF said
  <2>3. /\ c \in Cli /\ c.exit = cli.exit /\ c.agents = cli.agents /\ c.calls = cli.calls
        /\ c.block = NoBlock /\ c.said = said
    BY <1>2, <2>1, <2>2 DEF Cli
  <2>. QED  BY <2>3 DEF said, seg
<1>5. ParseCliEvent(event) = <<ev>>
  BY DEF ParseCliEvent, Message, TextBlock, ParsedBlock
<1>6. /\ ev.type = IF kind = "text" THEN "text_chunk" ELSE "thinking_chunk"
      /\ ev.index = NoIndex /\ ev.text = Piece
      /\ ev.type \in TranscriptEventTypes
  BY DEF Parsed, TranscriptEventTypes
<1>7. Sends(event, c)
  BY <1>1
<1> HIDE DEF c, event, ev
<1>8. /\ Reading /\ parsed' = <<ev>>
      /\ UNCHANGED <<transcript, await, node, ui, cancelled>>
      /\ cli' \in Cli /\ cli'.exit = "running"
      /\ cli'.agents = cli.agents /\ cli'.calls = cli.calls
      /\ cli'.block = NoBlock /\ cli'.said = c.said
  BY <1>4, <1>5, <1>7, SendsEvent
<1>9. BufferOK(transcript) /\ InStep(transcript, cli)
  BY <1>8, WasInStep
<1>10. BufferOK(Apply(transcript, ev)) /\ InStep(Apply(transcript, ev), cli')
  BY <1>2, <1>3, <1>4, <1>6, <1>8, <1>9, ChunkApplied
<1>. QED  BY <1>6, <1>8, <1>10, SentInStep

\* The start of a streamed block.
LEMMA StartsBlockStep ==
    ASSUME Inv, StartsBlock  PROVE Inv'
<1>1. PICK kind \in {"text", "thinking"}, i \in Indexes :
        Sends([type |-> "content_block_start", index |-> i, block |-> TextBlock(kind, 0)],
              [Says(kind, <<>>) EXCEPT !.block = [type |-> kind, index |-> i]])
  BY DEF StartsBlock
<1> DEFINE c == [Says(kind, <<>>) EXCEPT !.block = [type |-> kind, index |-> i]]
           event == [type |-> "content_block_start", index |-> i,
                     block |-> TextBlock(kind, 0)]
           ev == Parsed(IF kind = "text" THEN "text_start" ELSE "thinking_start",
                        i, NoId, "", 0)
           seg == [kind |-> kind, parts |-> <<>>]
<1>2. cli \in Cli
  BY DEF Inv, ControlInv
<1>3. seg \in Segment
  BY DEF Segment, Kinds
<1>4. /\ c \in Cli /\ c.exit = cli.exit /\ c.agents = cli.agents /\ c.calls = cli.calls
      /\ c.block = [type |-> kind, index |-> i]
      /\ c.said = IF cli.agents = <<>> THEN Append(cli.said, seg) ELSE cli.said
  <2> DEFINE said == IF cli.agents = <<>> THEN Append(cli.said, seg) ELSE cli.said
             block == [type |-> kind, index |-> i]
  <2>1. c = [cli EXCEPT !.said = said, !.block = block]
    BY <1>2 DEF Says, Main, Cli
  <2> HIDE DEF c
  <2>2. said \in Seq(Segment) /\ block \in [type : {"text", "thinking"}, index : Indexes]
    BY <1>2, <1>3 DEF Cli
  <2> HIDE DEF said, block
  <2>3. /\ c \in Cli /\ c.exit = cli.exit /\ c.agents = cli.agents /\ c.calls = cli.calls
        /\ c.block = block /\ c.said = said
    BY <1>2, <2>1, <2>2 DEF Cli
  <2>. QED  BY <2>3 DEF said, block
<1>5. ParseCliEvent(event) = <<ev>>
  BY DEF ParseCliEvent, TextBlock, ParsedStart
<1>6. /\ ev.type = IF kind = "text" THEN "text_start" ELSE "thinking_start"
      /\ ev.index = i /\ ev.type \in TranscriptEventTypes
  BY DEF Parsed, TranscriptEventTypes
<1>7. Sends(event, c)
  BY <1>1
<1> HIDE DEF c, event, ev
<1>8. /\ Reading /\ parsed' = <<ev>>
      /\ UNCHANGED <<transcript, await, node, ui, cancelled>>
      /\ cli' \in Cli /\ cli'.exit = "running"
      /\ cli'.agents = cli.agents /\ cli'.calls = cli.calls
      /\ cli'.block = c.block /\ cli'.said = c.said
  BY <1>4, <1>5, <1>7, SendsEvent
<1>9. BufferOK(transcript) /\ InStep(transcript, cli)
  BY <1>8, WasInStep
<1>10. BufferOK(Apply(transcript, ev)) /\ InStep(Apply(transcript, ev), cli')
  BY <1>2, <1>4, <1>6, <1>8, <1>9, StartApplied
<1>. QED  BY <1>6, <1>8, <1>10, SentInStep

\* A piece of it.  What is open is the last that the conversation said.
LEMMA StreamsTextStep ==
    ASSUME Inv, StreamsText  PROVE Inv'
<1> DEFINE said == IF cli.agents = <<>> THEN PartToLast(cli.said, Piece) ELSE cli.said
           c == IF Main THEN [cli EXCEPT !.said = PartToLast(cli.said, Piece)] ELSE cli
           event == [type |-> "content_block_delta", index |-> cli.block.index,
                     block |-> TextBlock(cli.block.type, Piece)]
           ev == Parsed(IF cli.block.type = "text" THEN "text_delta" ELSE "thinking_delta",
                        cli.block.index, NoId, "", Piece)
<1>1. cli \in Cli /\ cli.block # NoBlock
  BY DEF Inv, ControlInv, StreamsText
<1>2. cli.block.type \in {"text", "thinking"} /\ cli.block.index \in Indexes
  BY <1>1 DEF Cli
<1>3. Piece \in Nat
  BY <1>1 DEF Piece, Cli
<1>4. Sends(event, c)
  BY <1>1 DEF StreamsText, PartToLast, Cli
<1>5. Reading
  BY <1>4 DEF Sends
<1>6. BufferOK(transcript) /\ InStep(transcript, cli)
  BY <1>5, WasInStep
<1>7. said \in Seq(Segment)
  <2>1. cli.said \in Seq(Segment)
    BY <1>1 DEF Cli
  <2>2. CASE cli.agents = <<>>
    <3> DEFINE n == OpenAt(transcript, cli.block.type, cli.block.index)
    <3>1. n \in DOMAIN transcript.segs
          /\ \A k \in DOMAIN transcript.segs : k > n => ~IsText(transcript.segs[k])
      BY <1>1, <1>6, <2>2 DEF InStep, BlockAgrees
    <3>2. n # 0
      <4>1. transcript.segs \in Seq(Segment)
        BY <1>6 DEF BufferOK, Buffer
      <4>. QED  BY <3>1, <4>1
    <3>3. IsText(transcript.segs[n])
      BY <1>2, <1>6, <3>2 DEF OpenAt, BufferOK, BlocksOK, IsText
    <3>4. Len(cli.said) \in DOMAIN cli.said
      <4> HIDE DEF n
      <4>1. TextsAre(transcript.segs, cli.said)
        BY <1>6 DEF InStep
      <4>. QED  BY <2>1, <3>1, <3>3, <4>1, SaidNotEmpty
    <3>5. WithPart(cli.said[Len(cli.said)], Piece) \in Segment
      <4>1. cli.said[Len(cli.said)] \in Segment
        BY <2>1, <3>4, EntryOf, Zenon
      <4>2. Append(cli.said[Len(cli.said)].parts, Piece) \in Seq(Nat \cup Ids)
        BY <1>3, <4>1 DEF Segment
      <4>. QED  BY <4>1, <4>2 DEF Segment, WithPart
    <3>6. PartToLast(cli.said, Piece)
             = [cli.said EXCEPT ![Len(cli.said)] = WithPart(cli.said[Len(cli.said)], Piece)]
      BY DEF PartToLast, WithPart
    <3>. QED  BY <2>1, <2>2, <3>4, <3>5, <3>6, ExceptSeq
  <2>. QED  BY <2>1, <2>2
<1>8. /\ c \in Cli /\ c.exit = cli.exit /\ c.agents = cli.agents /\ c.calls = cli.calls
      /\ c.block = cli.block /\ c.said = said
  <2>1. CASE cli.agents = <<>>
    <3>1. c = [cli EXCEPT !.said = said]
      BY <2>1 DEF Main
    <3> HIDE DEF c, said
    <3>. QED  BY <1>1, <1>7, <3>1 DEF Cli
  <2>2. CASE cli.agents # <<>>
    BY <1>1, <2>2 DEF Main
  <2>. QED  BY <2>1, <2>2
<1>9. ParseCliEvent(event) = <<ev>>
  BY <1>2 DEF ParseCliEvent, TextBlock, ParsedDelta
<1>10. /\ ev.type = IF cli.block.type = "text" THEN "text_delta" ELSE "thinking_delta"
       /\ ev.index = cli.block.index /\ ev.text = Piece
       /\ ev.type \in TranscriptEventTypes
  BY DEF Parsed, TranscriptEventTypes
<1> HIDE DEF c, event, ev
<1>11. /\ Reading /\ parsed' = <<ev>>
       /\ UNCHANGED <<transcript, await, node, ui, cancelled>>
       /\ cli' \in Cli /\ cli'.exit = "running"
       /\ cli'.agents = cli.agents /\ cli'.calls = cli.calls
       /\ cli'.block = cli.block /\ cli'.said = said
  BY <1>4, <1>8, <1>9, SendsEvent
<1>12. BufferOK(Apply(transcript, ev)) /\ InStep(Apply(transcript, ev), cli')
  BY <1>1, <1>3, <1>6, <1>10, <1>11, DeltaApplied
<1>. QED  BY <1>10, <1>11, <1>12, SentInStep

\* A use of a tool, in a full message or streamed.
LEMMA UseIsSent ==
    ASSUME Inv, NEW id, NEW name, NEW c \in Cli, c.exit = cli.exit,
           SendsUse(UseBlock(id, name), c)
    PROVE  \E ev :
              /\ \/ ev.type = "tool_use"
                 \/ ev.type = "tool_use_start" /\ ev.index \in Indexes
              /\ ev.id = id /\ ev.name = name /\ ev.type \in TranscriptEventTypes
              /\ Reading /\ parsed' = <<ev>>
              /\ UNCHANGED <<transcript, await, node, ui, cancelled>>
              /\ cli' \in Cli /\ cli'.exit = "running"
              /\ cli'.agents = c.agents /\ cli'.calls = c.calls
              /\ cli'.block = c.block /\ cli'.said = c.said
<1> DEFINE b == UseBlock(id, name)
<1>1. b.type = "tool_use" /\ b.id = id /\ b.name = name
  BY DEF UseBlock
<1> HIDE DEF b
<1>2. CASE cli.streams
  <2> DEFINE event(i) == [type |-> "content_block_start", index |-> i, block |-> b]
  <2>1. PICK i \in Indexes : Sends(event(i), c)
    BY <1>2 DEF SendsUse, b
  <2> DEFINE ev == Parsed("tool_use_start", i, id, name, 0)
  <2>2. ParseCliEvent(event(i)) = <<ev>>
    BY <1>1 DEF ParseCliEvent, ParsedStart
  <2>3. /\ ev.type = "tool_use_start" /\ ev.index = i /\ ev.id = id /\ ev.name = name
        /\ ev.type \in TranscriptEventTypes
    BY DEF Parsed, TranscriptEventTypes
  <2> HIDE DEF event, ev
  <2>4. /\ Reading /\ parsed' = <<ev>>
        /\ UNCHANGED <<transcript, await, node, ui, cancelled>>
        /\ cli' \in Cli /\ cli'.exit = "running"
        /\ cli'.agents = c.agents /\ cli'.calls = c.calls
        /\ cli'.block = c.block /\ cli'.said = c.said
    BY <2>1, <2>2, SendsEvent
  <2>. QED  BY <2>3, <2>4
<1>3. CASE ~cli.streams
  <2> DEFINE event == Message(b)
             ev == Parsed("tool_use", NoIndex, id, name, 0)
  <2>1. Sends(event, c)
    BY <1>3 DEF SendsUse, b
  <2>2. ParseCliEvent(event) = <<ev>>
    BY <1>1 DEF ParseCliEvent, Message, ParsedBlock
  <2>3. /\ ev.type = "tool_use" /\ ev.id = id /\ ev.name = name
        /\ ev.type \in TranscriptEventTypes
    BY DEF Parsed, TranscriptEventTypes
  <2> HIDE DEF event, ev
  <2>4. /\ Reading /\ parsed' = <<ev>>
        /\ UNCHANGED <<transcript, await, node, ui, cancelled>>
        /\ cli' \in Cli /\ cli'.exit = "running"
        /\ cli'.agents = c.agents /\ cli'.calls = c.calls
        /\ cli'.block = c.block /\ cli'.said = c.said
    BY <2>1, <2>2, SendsEvent
  <2>. QED  BY <2>3, <2>4
<1>. QED  BY <1>2, <1>3

LEMMA UnusedIsFresh ==
    ASSUME NEW x \in Unused  PROVE Fresh(transcript, cli, x)
  BY DEF Unused, Used, Fresh

LEMMA CallsTaskStep ==
    ASSUME Inv, CallsTask  PROVE Inv'
<1>0. PICK id \in Unused \cup {NoId} : \E result \in ResultIds(id) :
        SendsUse(UseBlock(id, "Task"),
                 [cli EXCEPT !.agents = Append(@, [id |-> id, result |-> result]),
                             !.block = NoBlock])
  BY DEF CallsTask
<1>1. PICK result \in ResultIds(id) :
        SendsUse(UseBlock(id, "Task"),
                 [cli EXCEPT !.agents = Append(@, [id |-> id, result |-> result]),
                             !.block = NoBlock])
  BY <1>0
<1> DEFINE agent == [id |-> id, result |-> result]
           agents == Append(cli.agents, agent)
           c == [cli EXCEPT !.agents = agents, !.block = NoBlock]
<1>2. cli \in Cli
  BY DEF Inv, ControlInv
<1>3. /\ id \in AnyId /\ result \in AnyId
      /\ id # NoId => Fresh(transcript, cli, id) /\ result \in Ids /\ RoughlyMatch(id, result)
      /\ id = NoId /\ result # NoId => Fresh(transcript, cli, result) /\ result \in TaskLike
  <2>1. id # NoId => id \in Unused
    OBVIOUS
  <2>2. Unused \subseteq Ids
    BY DEF Unused
  <2>3. id # NoId => result \in Ids /\ RoughlyMatch(id, result)
    BY DEF ResultIds
  <2>4. id = NoId => result = NoId \/ (result \in TaskLike /\ result \in Unused)
    BY DEF ResultIds
  <2>. QED  BY <2>1, <2>2, <2>3, <2>4, UnusedIsFresh DEF AnyId
<1>4. agents \in Seq([id : AnyId, result : AnyId])
  <2>1. agent \in [id : AnyId, result : AnyId]
    BY <1>3
  <2>2. cli.agents \in Seq([id : AnyId, result : AnyId])
    BY <1>2 DEF Cli
  <2> HIDE DEF agent
  <2>. QED  BY <2>1, <2>2
<1>5. SendsUse(UseBlock(id, "Task"), c)
  BY <1>1
<1> HIDE DEF agents
<1>6. /\ c \in Cli /\ c.exit = cli.exit /\ c.agents = agents /\ c.calls = cli.calls
      /\ c.block = NoBlock /\ c.said = cli.said
  BY <1>2, <1>4 DEF Cli
<1> HIDE DEF c
<1>7. PICK ev :
        /\ \/ ev.type = "tool_use"
           \/ ev.type = "tool_use_start" /\ ev.index \in Indexes
        /\ ev.id = id /\ ev.name = "Task" /\ ev.type \in TranscriptEventTypes
        /\ Reading /\ parsed' = <<ev>>
        /\ UNCHANGED <<transcript, await, node, ui, cancelled>>
        /\ cli' \in Cli /\ cli'.exit = "running"
        /\ cli'.agents = c.agents /\ cli'.calls = c.calls
        /\ cli'.block = c.block /\ cli'.said = c.said
  BY <1>5, <1>6, UseIsSent
<1>8. BufferOK(transcript) /\ InStep(transcript, cli)
  BY <1>7, WasInStep
<1>9. cli'.agents = Append(cli.agents, [id |-> id, result |-> result])
  BY <1>6, <1>7 DEF agents
<1>10. /\ ev.type \in {"tool_use", "tool_use_start"}
       /\ cli'.calls = cli.calls /\ cli'.block = NoBlock /\ cli'.said = cli.said
  BY <1>6, <1>7
<1>11. BufferOK(Apply(transcript, ev)) /\ InStep(Apply(transcript, ev), cli')
  BY <1>2, <1>3, <1>7, <1>8, <1>9, <1>10, TaskApplied
<1>. QED  BY <1>7, <1>11, SentInStep

LEMMA CallsToolStep ==
    ASSUME Inv, CallsTool  PROVE Inv'
<1>1. PICK id \in Unused :
        SendsUse(UseBlock(id, "other"),
                 [cli EXCEPT !.calls = @ \cup {id}, !.block = NoBlock])
  BY DEF CallsTool
<1> DEFINE c == [cli EXCEPT !.calls = @ \cup {id}, !.block = NoBlock]
<1>2. cli \in Cli
  BY DEF Inv, ControlInv
<1>3. Fresh(transcript, cli, id) /\ id \in Ids
  BY UnusedIsFresh DEF Fresh
<1>4. SendsUse(UseBlock(id, "other"), c)
  BY <1>1
<1>5. /\ c \in Cli /\ c.exit = cli.exit /\ c.agents = cli.agents
      /\ c.calls = cli.calls \cup {id} /\ c.block = NoBlock /\ c.said = cli.said
  BY <1>2, <1>3 DEF Cli
<1> HIDE DEF c
<1>6. PICK ev :
        /\ \/ ev.type = "tool_use"
           \/ ev.type = "tool_use_start" /\ ev.index \in Indexes
        /\ ev.id = id /\ ev.name = "other" /\ ev.type \in TranscriptEventTypes
        /\ Reading /\ parsed' = <<ev>>
        /\ UNCHANGED <<transcript, await, node, ui, cancelled>>
        /\ cli' \in Cli /\ cli'.exit = "running"
        /\ cli'.agents = c.agents /\ cli'.calls = c.calls
        /\ cli'.block = c.block /\ cli'.said = c.said
  BY <1>4, <1>5, UseIsSent
<1>7. BufferOK(transcript) /\ InStep(transcript, cli)
  BY <1>6, WasInStep
<1>8. /\ cli'.agents = cli.agents /\ cli'.calls = cli.calls \cup {id}
      /\ cli'.block = NoBlock /\ cli'.said = cli.said
  BY <1>5, <1>6
<1>9. BufferOK(Apply(transcript, ev)) /\ InStep(Apply(transcript, ev), cli')
  BY <1>2, <1>3, <1>6, <1>7, <1>8, ToolApplied
<1>. QED  BY <1>6, <1>9, SentInStep

\* A result is sent in a full message.
LEMMA ResultIsSent ==
    ASSUME Inv, NEW id, NEW c \in Cli, c.exit = cli.exit, Sends(Result(id), c)
    PROVE  LET ev == Parsed("tool_result", NoIndex, id, "", 0)
           IN  /\ ev.type = "tool_result" /\ ev.id = id /\ ev.type \in TranscriptEventTypes
               /\ Reading /\ parsed' = <<ev>>
               /\ UNCHANGED <<transcript, await, node, ui, cancelled>>
               /\ cli' \in Cli /\ cli'.exit = "running"
               /\ cli'.agents = c.agents /\ cli'.calls = c.calls
               /\ cli'.block = c.block /\ cli'.said = c.said
<1> DEFINE ev == Parsed("tool_result", NoIndex, id, "", 0)
           event == Result(id)
<1>1. ParseCliEvent(event) = <<ev>>
  BY DEF ParseCliEvent, Result, Message, ParsedBlock
<1>2. ev.type = "tool_result" /\ ev.id = id /\ ev.type \in TranscriptEventTypes
  BY DEF Parsed, TranscriptEventTypes
<1> HIDE DEF event, ev
<1>3. Sends(event, c)
  BY DEF event
<1>4. /\ Reading /\ parsed' = <<ev>>
      /\ UNCHANGED <<transcript, await, node, ui, cancelled>>
      /\ cli' \in Cli /\ cli'.exit = "running"
      /\ cli'.agents = c.agents /\ cli'.calls = c.calls
      /\ cli'.block = c.block /\ cli'.said = c.said
  BY <1>1, <1>3, SendsEvent
<1>. QED  BY <1>2, <1>4 DEF ev

LEMMA ToolAnswersStep ==
    ASSUME Inv, ToolAnswers  PROVE Inv'
<1>1. PICK id \in cli.calls :
        Sends(Result(id), [cli EXCEPT !.calls = @ \ {id}, !.block = NoBlock])
  BY DEF ToolAnswers
<1> DEFINE c == [cli EXCEPT !.calls = @ \ {id}, !.block = NoBlock]
           ev == Parsed("tool_result", NoIndex, id, "", 0)
<1>2. cli \in Cli
  BY DEF Inv, ControlInv
<1>3. /\ c \in Cli /\ c.exit = cli.exit /\ c.agents = cli.agents
      /\ c.calls = cli.calls \ {id} /\ c.block = NoBlock /\ c.said = cli.said
  BY <1>2 DEF Cli
<1>4. Sends(Result(id), c)
  BY <1>1
<1> HIDE DEF c
<1>5. /\ ev.type = "tool_result" /\ ev.id = id /\ ev.type \in TranscriptEventTypes
      /\ Reading /\ parsed' = <<ev>>
      /\ UNCHANGED <<transcript, await, node, ui, cancelled>>
      /\ cli' \in Cli /\ cli'.exit = "running"
      /\ cli'.agents = c.agents /\ cli'.calls = c.calls
      /\ cli'.block = c.block /\ cli'.said = c.said
  BY <1>3, <1>4, ResultIsSent
<1> HIDE DEF ev
<1>6. BufferOK(transcript) /\ InStep(transcript, cli)
  BY <1>5, WasInStep
<1>7. /\ cli'.agents = cli.agents /\ cli'.calls = cli.calls \ {id}
      /\ cli'.block = NoBlock /\ cli'.said = cli.said
  BY <1>3, <1>5
<1>8. BufferOK(Apply(transcript, ev)) /\ InStep(Apply(transcript, ev), cli')
  BY <1>2, <1>5, <1>6, <1>7, ToolResultApplied
<1>. QED  BY <1>5, <1>8, SentInStep

LEMMA TaskAnswersStep ==
    ASSUME Inv, TaskAnswers  PROVE Inv'
<1> DEFINE id == Last(cli.agents).result
           agents == Front(cli.agents)
           c == [cli EXCEPT !.agents = agents, !.block = NoBlock]
           ev == Parsed("tool_result", NoIndex, id, "", 0)
<1>1. cli.agents # <<>> /\ Sends(Result(id), c)
  BY DEF TaskAnswers
<1>2. cli \in Cli
  BY DEF Inv, ControlInv
<1>3. agents \in Seq([id : AnyId, result : AnyId])
  <2>1. cli.agents \in Seq([id : AnyId, result : AnyId])
    BY <1>2 DEF Cli
  <2>. QED  BY <1>1, <2>1, FrontIsSeq, Zenon
<1> HIDE DEF agents, id
<1>4. /\ c \in Cli /\ c.exit = cli.exit /\ c.agents = agents
      /\ c.calls = cli.calls /\ c.block = NoBlock /\ c.said = cli.said
  BY <1>2, <1>3 DEF Cli
<1> HIDE DEF c
<1>5. /\ ev.type = "tool_result" /\ ev.id = id /\ ev.type \in TranscriptEventTypes
      /\ Reading /\ parsed' = <<ev>>
      /\ UNCHANGED <<transcript, await, node, ui, cancelled>>
      /\ cli' \in Cli /\ cli'.exit = "running"
      /\ cli'.agents = c.agents /\ cli'.calls = c.calls
      /\ cli'.block = c.block /\ cli'.said = c.said
  BY <1>1, <1>4, ResultIsSent
<1> HIDE DEF ev
<1>6. BufferOK(transcript) /\ InStep(transcript, cli)
  BY <1>5, WasInStep
<1>7. /\ cli'.agents = Front(cli.agents) /\ cli'.calls = cli.calls
      /\ cli'.block = NoBlock /\ cli'.said = cli.said
  BY <1>4, <1>5 DEF agents
<1>8. ev.id = Last(cli.agents).result
  BY <1>5 DEF id
<1>9. BufferOK(Apply(transcript, ev)) /\ InStep(Apply(transcript, ev), cli')
  BY <1>1, <1>2, <1>5, <1>6, <1>7, <1>8, TaskResultApplied
<1>. QED  BY <1>5, <1>9, SentInStep

LEMMA ReportsSessionStep ==
    ASSUME Inv, ReportsSession  PROVE Inv'
<1>1. BufferOK(transcript)' /\ SyncInv'
  BY DEF ReportsSession, Inv, SyncInv
<1>2. ControlInv'
  BY DEF ReportsSession, Inv, ControlInv
<1>. QED  BY <1>1, <1>2 DEF Inv

LEMMA ProcessExitsStep ==
    ASSUME Inv, ProcessExits  PROVE Inv'
<1>1. PICK code \in {0, 1} :
        /\ parsed' = ParseCliEvent([type |-> "exit", code |-> code])
        /\ cli' = [cli EXCEPT !.exit = IF code = 0 THEN "clean" ELSE "failed"]
  BY DEF ProcessExits
<1>2. parsed' \in Seq({Just("error"), Just("complete")})
  <2> DEFINE err == Just("error")
             end == Just("complete")
  <2>1. parsed' = <<end>> \/ parsed' = <<err, end>>
    BY <1>1 DEF ParseCliEvent
  <2> HIDE DEF err, end
  <2>2. parsed' \in Seq({err, end})
    BY <2>1, PairIsSeq, Zenon
  <2>. QED  BY <2>2 DEF err, end
<1>3. cli' \in Cli /\ cli'.exit # "running"
  BY <1>1 DEF Inv, ControlInv, Cli
<1>4. ControlInv'
  BY <1>2, <1>3 DEF ProcessExits, Inv, ControlInv
<1>. QED  BY <1>3, <1>4 DEF ProcessExits, Inv, SyncInv

LEMMA EnvironmentStep ==
    ASSUME Inv, Environment  PROVE Inv'
  BY SaysTextStep, StartsBlockStep, StreamsTextStep, StopsBlockStep, CallsTaskStep,
     CallsToolStep, ToolAnswersStep, TaskAnswersStep, ReportsSessionStep,
     ReportsErrorStep, ProcessExitsStep DEF Environment
-----------------------------------------------------------------------------
(***************************************************************************)
(* The steps of the handler.                                               *)
(***************************************************************************)

\* A task that said nothing says Done.
LEMMA DoneApplied ==
    ASSUME NEW t, BufferOK(t)
    PROVE  BufferOK(Apply(t, Done))
<1>1. Done.type = "text_chunk" /\ Done.index = NoIndex /\ Done.text = 0
  BY DEF Done, Parsed
<1>2. CASE InSubagent(t)
  BY <1>1, <1>2 DEF Apply, HiddenInSubagent
<1>3. CASE ~InSubagent(t)
  <2>1. NoIndex \notin Indexes
    BY TranscriptAssumption DEF NoIndex
  <2>2. Apply(t, Done) = Grows(t, "text", NoIndex, 0)
    BY <1>1, <1>3, ApplyCases
  <2>3. Apply(t, Done) = Adds(t, "text", <<0>>)
    BY <2>1, <2>2 DEF Grows, OpenAt
  <2>4. "text" \in Kinds /\ <<0>> \in Seq(Nat \cup Ids)
    BY DEF Kinds
  <2>. QED  BY <2>3, <2>4, AddsSegment
<1>. QED  BY <1>2, <1>3

LEMMA HandleParsedStep ==
    ASSUME Inv, HandleParsed  PROVE Inv'
<1> DEFINE ev == Head(parsed)
<1>1. /\ transcript' = IF ev.type \in TranscriptEventTypes THEN Apply(transcript, ev)
                       ELSE IF ev.type = "complete" /\ ~node.had
                              THEN Apply(transcript, Done)
                       ELSE transcript
      /\ node' = [node EXCEPT !.had = @ \/ ev.type \in TranscriptEventTypes]
      /\ await' = AfterEdit(ev)
      /\ parsed' = Tail(parsed) /\ cli' = cli /\ parsed # <<>>
  BY DEF HandleParsed
<1> HIDE DEF ev
<1>2. BufferOK(transcript) /\ ControlInv /\ SyncInv
  BY DEF Inv
<1>3. node' \in [state : {"in_progress", "completed", "error"},
                 session : BOOLEAN, had : BOOLEAN]
  <2>1. (node.had \/ ev.type \in TranscriptEventTypes) \in BOOLEAN
    OBVIOUS
  <2>. QED  BY <1>1, <1>2, <2>1 DEF ControlInv
<1>4. await' \in {"event", "complete", "error", "over"}
  BY <1>1 DEF AfterEdit
<1>5. CASE cli.exit = "running"
  <2>1. PICK e : /\ parsed = <<e>> /\ e.type \in TranscriptEventTypes
                 /\ BufferOK(Apply(transcript, e))
                 /\ InStep(Apply(transcript, e), cli)
    BY <1>1, <1>2, <1>5 DEF SyncInv
  <2>2. ev = e /\ Tail(parsed) = <<>>
    BY <2>1 DEF ev
  <2>3. transcript' = Apply(transcript, e) /\ parsed' = <<>>
    BY <1>1, <2>1, <2>2
  <2>4. BufferOK(transcript)' /\ SyncInv'
    BY <1>1, <2>1, <2>3 DEF SyncInv
  <2>5. ControlInv'
    BY <1>1, <1>2, <1>3, <1>4, <1>5 DEF ControlInv
  <2>. QED  BY <2>4, <2>5 DEF Inv
<1>6. CASE cli.exit # "running"
  <2> DEFINE err == Just("error")
             end == Just("complete")
  <2>1. err.type = "error" /\ end.type = "complete" /\ "complete" \notin TranscriptEventTypes
    BY DEF Just, Parsed, TranscriptEventTypes
  <2>2. parsed \in Seq({err, end})
    BY <1>2, <1>6 DEF ControlInv
  <2> HIDE DEF err, end
  <2>3. ev \in {err, end} /\ Tail(parsed) \in Seq({err, end})
    BY <1>1, <2>2, HeadTailProperties DEF ev
  <2>4. BufferOK(transcript')
    <3>1. CASE ev = err
      <4>1. BufferOK(Apply(transcript, err))
        BY <1>2, ErrorApplied DEF err
      <4>. QED  BY <1>1, <1>2, <2>1, <3>1, <4>1, DoneApplied
    <3>2. CASE ev = end
      BY <1>1, <1>2, <2>1, <3>2, DoneApplied
    <3>. QED  BY <2>3, <3>1, <3>2
  <2>5. parsed' \in Seq({Just("error"), Just("complete")})
    BY <1>1, <2>3 DEF err, end
  <2>6. ControlInv'
    BY <1>1, <1>2, <1>3, <1>4, <2>5 DEF ControlInv
  <2>7. SyncInv'
    BY <1>1, <1>6 DEF SyncInv
  <2>8. BufferOK(transcript)'
    BY <2>4
  <2>. QED  BY <2>6, <2>7, <2>8 DEF Inv
<1>. QED  BY <1>5, <1>6

\* An error that the handler adds, or a step that adds nothing, while no
\* event waits.
LEMMA HandlerKeepsStep ==
    ASSUME Inv, NEW t, t = transcript \/ t = Apply(transcript, Just("error")),
           transcript' = t, UNCHANGED <<parsed, cli>>,
           cli.exit = "running" /\ await = "event" => parsed = <<>>,
           node' \in [state : {"in_progress", "completed", "error"},
                      session : BOOLEAN, had : BOOLEAN],
           await' \in {"event", "complete", "error", "over"}
    PROVE  Inv'
<1>1. BufferOK(transcript) /\ ControlInv /\ SyncInv /\ cli \in Cli
  BY DEF Inv, ControlInv
<1>2. BufferOK(t) /\ (InStep(transcript, cli) => InStep(t, cli))
  BY <1>1, ErrorApplied
<1>3. BufferOK(transcript)'
  BY <1>2
<1>4. ControlInv'
  BY <1>1 DEF ControlInv
<1>5. cli.exit = "running" => parsed = <<>> /\ InStep(transcript, cli)
  BY <1>1 DEF SyncInv
<1>6. SyncInv'
  BY <1>2, <1>5 DEF SyncInv
<1>. QED  BY <1>3, <1>4, <1>6 DEF Inv

LEMMA NodeTyped ==
    ASSUME Inv
    PROVE  /\ node \in [state : {"in_progress", "completed", "error"},
                        session : BOOLEAN, had : BOOLEAN]
           /\ \A s \in {"in_progress", "completed", "error"} :
                 [node EXCEPT !.state = s]
                    \in [state : {"in_progress", "completed", "error"},
                         session : BOOLEAN, had : BOOLEAN]
  BY DEF Inv, ControlInv

LEMMA EditedStep ==
    ASSUME Inv, Edited  PROVE Inv'
<1>1. node' \in [state : {"in_progress", "completed", "error"},
                 session : BOOLEAN, had : BOOLEAN]
  BY NodeTyped DEF Edited
<1>2. /\ transcript' = transcript /\ UNCHANGED <<parsed, cli>>
      /\ await # "event" /\ await' = "event"
  BY DEF Edited
<1>. QED  BY <1>1, <1>2, HandlerKeepsStep

LEMMA RunEndsStep ==
    ASSUME Inv, RunEnds  PROVE Inv'
<1>1. node' \in [state : {"in_progress", "completed", "error"},
                 session : BOOLEAN, had : BOOLEAN]
  BY NodeTyped DEF RunEnds
<1>2. /\ transcript' = transcript /\ UNCHANGED <<parsed, cli>>
      /\ parsed = <<>> /\ await' = "over"
  BY DEF RunEnds
<1>. QED  BY <1>1, <1>2, HandlerKeepsStep

LEMMA RunFailsStep ==
    ASSUME Inv, RunFails  PROVE Inv'
<1>1. node' \in [state : {"in_progress", "completed", "error"},
                 session : BOOLEAN, had : BOOLEAN]
  BY NodeTyped DEF RunFails
<1>2. /\ transcript' = Apply(transcript, Just("error")) /\ UNCHANGED <<parsed, cli>>
      /\ parsed = <<>> /\ await' = "over"
  BY DEF RunFails
<1>. QED  BY <1>1, <1>2, HandlerKeepsStep

LEMMA CancelledStep ==
    ASSUME Inv, Cancelled  PROVE Inv'
<1>1. node' \in [state : {"in_progress", "completed", "error"},
                 session : BOOLEAN, had : BOOLEAN]
  BY NodeTyped DEF Cancelled
<1>2. /\ transcript' = transcript \/ transcript' = Apply(transcript, Just("error"))
      /\ UNCHANGED <<parsed, cli>> /\ (await = "event" => parsed = <<>>)
      /\ await' = "over"
  BY DEF Cancelled
<1>. QED  BY <1>1, <1>2, HandlerKeepsStep
-----------------------------------------------------------------------------
LEMMA InitInv == Init => Inv
<1> SUFFICES ASSUME Init  PROVE Inv
  OBVIOUS
<1>1. /\ transcript = NewTranscript /\ parsed = <<>> /\ await = "event"
      /\ node = [state |-> "in_progress", session |-> FALSE, had |-> FALSE]
      /\ \E streams \in BOOLEAN :
            cli = [agents |-> <<>>, calls |-> {}, block |-> NoBlock, said |-> <<>>,
                   sent |-> 0, exit |-> "running", streams |-> streams]
  BY DEF Init
<1>2. /\ transcript.segs = <<>> /\ transcript.stack = <<>> /\ transcript.agents = <<>>
      /\ \A i \in Indexes : transcript.thinking[i] = 0 /\ transcript.text[i] = 0
      /\ transcript.tools = {}
  BY <1>1 DEF NewTranscript
<1>3. transcript \in Buffer
  <2>1. /\ <<>> \in Seq(Segment) /\ <<>> \in Seq(Ids \cup {Synthetic}) /\ <<>> \in Seq(Nat)
        /\ [i \in Indexes |-> 0] \in [Indexes -> Nat]
        /\ [x \in Ids |-> ""] \in [Ids -> {"", "Task", "other"}]
    OBVIOUS
  <2>. QED  BY <1>1, <2>1 DEF NewTranscript, Buffer
<1>4. BufferOK(transcript)
  BY <1>2, <1>3 DEF BufferOK, BlocksOK, AgentsOK
<1>5. cli \in Cli /\ cli.exit = "running"
  BY <1>1 DEF Cli
<1>6. ControlInv
  BY <1>1, <1>5 DEF ControlInv
<1>7. cli.agents = <<>> /\ cli.calls = {} /\ cli.block = NoBlock /\ cli.said = <<>>
  BY <1>1
<1>8. SubagentsAgree(transcript, cli) /\ BlockAgrees(transcript, cli)
  BY <1>2, <1>7 DEF SubagentsAgree, BlockAgrees
<1>9. TextsAre(<<>>, <<>>)
  <2> DEFINE f == [k \in {} |-> 0]
  <2>1. DOMAIN <<>> = {}
    OBVIOUS
  <2>2. f \in [{} -> {}]
    OBVIOUS
  <2> HIDE DEF f
  <2>. QED  BY <2>1, <2>2 DEF TextsAre
<1>10. SyncInv
  BY <1>1, <1>2, <1>7, <1>8, <1>9 DEF SyncInv, InStep
<1>. QED  BY <1>4, <1>6, <1>10 DEF Inv

LEMMA NextInv == Inv /\ [Next]_vars => Inv'
<1> SUFFICES ASSUME Inv, [Next]_vars  PROVE Inv'
  OBVIOUS
<1>1. CASE HandleParsed
  BY <1>1, HandleParsedStep
<1>2. CASE Edited
  BY <1>2, EditedStep
<1>3. CASE RunEnds
  BY <1>3, RunEndsStep
<1>4. CASE RunFails
  BY <1>4, RunFailsStep
<1>5. CASE Cancelled
  BY <1>5, CancelledStep
<1>6. CASE Environment
  BY <1>6, EnvironmentStep
<1>7. CASE UNCHANGED vars
  BY <1>7 DEF vars, Inv, ControlInv, SyncInv
<1>. QED  BY <1>1, <1>2, <1>3, <1>4, <1>5, <1>6, <1>7 DEF Next

LEMMA InvImplies == Inv => TranscriptInv
<1> SUFFICES ASSUME Inv  PROVE TranscriptInv
  OBVIOUS
<1>1. /\ BufferOK(transcript) /\ transcript \in Buffer
      /\ BlocksOK(transcript) /\ AgentsOK(transcript)
  BY DEF Inv, BufferOK
<1>2. /\ transcript.segs \in Seq(Segment) /\ transcript.tools \subseteq Indexes
      /\ transcript.thinking \in [Indexes -> Nat] /\ transcript.text \in [Indexes -> Nat]
  BY <1>1 DEF Buffer
<1>3. TypeOK
  <2>1. \A n \in DOMAIN transcript.segs : transcript.segs[n].kind \in Kinds
    <3>1. ASSUME NEW n \in DOMAIN transcript.segs  PROVE transcript.segs[n].kind \in Kinds
      <4>1. transcript.segs[n] \in Segment
        BY <1>2, EntryOf, Zenon
      <4>. QED  BY <4>1 DEF Segment
    <3>. QED  BY <3>1
  <2>2. ASSUME NEW i \in Indexes
        PROVE  {transcript.thinking[i], transcript.text[i]} \subseteq 0..Len(transcript.segs)
    <3>1. transcript.thinking[i] \in Nat /\ transcript.text[i] \in Nat
      BY <1>2
    <3>2. /\ transcript.thinking[i] # 0 => transcript.thinking[i] \in DOMAIN transcript.segs
          /\ transcript.text[i] # 0 => transcript.text[i] \in DOMAIN transcript.segs
      BY <1>1 DEF BlocksOK
    <3>3. DOMAIN transcript.segs = 1..Len(transcript.segs) /\ Len(transcript.segs) \in Nat
      BY <1>2
    <3>. QED  BY <3>1, <3>2, <3>3
  <2>. QED  BY <1>2, <2>1, <2>2 DEF TypeOK, Inv, ControlInv
<1>4. OpenBlocksAgree
  BY <1>1 DEF OpenBlocksAgree, BlocksOK
<1>5. await = "event" /\ parsed = <<>> /\ cli.exit = "running" => InStep(transcript, cli)
  BY DEF Inv, SyncInv
<1>6. DepthIsRight
  BY <1>1, <1>5 DEF DepthIsRight, InStep, SubagentsAgree, AgentsOK
<1>7. MainTextShown
  BY <1>5 DEF MainTextShown, InStep
<1>. QED  BY <1>3, <1>4, <1>6, <1>7 DEF TranscriptInv

\* Whatever the CLI streams, with subagents in subagents and ids that are
\* left out: the open blocks of TranscriptBuffer (messaging/transcript.py) are
\* of their kinds and known once, its stack of subagents is as deep as the
\* CLI's, and the texts that it holds are those of the conversation, in order,
\* none divided and none of a subagent.
THEOREM TranscriptStaysInStep == Spec => []TranscriptInv
<1>1. Init => Inv
  BY InitInv
<1>2. Inv /\ [Next]_vars => Inv'
  BY NextInv
<1>3. Inv => TranscriptInv
  BY InvImplies
<1>. QED  BY <1>1, <1>2, <1>3, PTL DEF Spec
-----------------------------------------------------------------------------
(***************************************************************************)
(* What is sent to the user.                                               *)
(***************************************************************************)

\* A set of natural numbers that is not empty has a least element.
LEMMA LeastElement ==
    ASSUME NEW S \in SUBSET Nat, S # {}
    PROVE  \E m \in S : \A k \in S : m <= k
<1> DEFINE R == OpToRel(<, Nat)
<1>1. IsWellFoundedOn(R, Nat)
  BY NatLessThanWellFounded
<1>2. \A x, y \in Nat : <<x, y>> \in R <=> x < y
  BY DEF OpToRel
<1> HIDE DEF R
<1>3. \E x \in S : \A y \in S : ~(<<y, x>> \in R)
  BY <1>1, WFMin
<1>4. PICK x \in S : \A y \in S : ~(<<y, x>> \in R)
  BY <1>3
<1>5. \A y \in S : ~(y < x)
  BY <1>2, <1>4
<1>6. \A y \in S : x <= y
  BY <1>5
<1>. QED  BY <1>6

\* Segments at some of the first N positions.
ShownOf(shown, N) ==
    /\ DOMAIN shown \subseteq 1..N
    /\ \A n \in DOMAIN shown : shown[n] \in Segment

LEMMA SizeOfType ==
    ASSUME NEW seg \in Segment  PROVE SizeOf(seg) \in 0..(TailMax + 2)
<1>1. Len(seg.parts) \in Nat /\ TailMax \in Nat
  BY TranscriptAssumption DEF Segment
<1> DEFINE tail == IF Len(seg.parts) > TailMax THEN TailMax ELSE Len(seg.parts)
<1>2. tail \in 0..TailMax
  BY <1>1
<1>3. SizeOf(seg) = IF seg.kind = "thinking" THEN 1 + tail
                    ELSE IF seg.kind = "text" THEN tail
                    ELSE IF seg.kind = "subagent" THEN 2 ELSE 1
  BY DEF SizeOf
<1> HIDE DEF tail
<1>4. 1 + tail \in 0..(TailMax + 2) /\ tail \in 0..(TailMax + 2)
      /\ 2 \in 0..(TailMax + 2) /\ 1 \in 0..(TailMax + 2)
  BY <1>1, <1>2
<1>5. CASE seg.kind = "thinking"
  BY <1>3, <1>4, <1>5, Zenon
<1>6. CASE seg.kind # "thinking" /\ seg.kind = "text"
  BY <1>3, <1>4, <1>6, Zenon
<1>7. CASE seg.kind # "thinking" /\ seg.kind # "text" /\ seg.kind = "subagent"
  BY <1>3, <1>4, <1>7, Zenon
<1>8. CASE seg.kind # "thinking" /\ seg.kind # "text" /\ seg.kind # "subagent"
  BY <1>3, <1>4, <1>8, Zenon
<1>. QED  BY <1>5, <1>6, <1>7, <1>8

LEMMA SizeOfAllType ==
    ASSUME NEW N \in Nat, NEW shown, ShownOf(shown, N)
    PROVE  SizeOfAll(shown) \in Int
<1> DEFINE Grid == (1..N) \X (0..(TailMax + 2))
<1>1. TailMax \in Nat
  BY TranscriptAssumption
<1>2. IsFiniteSet(Grid)
  <2>1. IsFiniteSet(1..N) /\ IsFiniteSet(0..(TailMax + 2))
    BY <1>1, FS_Interval
  <2>. QED  BY <2>1, FS_Product
<1>3. Cells(shown) \subseteq Grid
  <2>1. ASSUME NEW n \in DOMAIN shown  PROVE {n} \X (0..SizeOf(shown[n])) \subseteq Grid
    <3>1. SizeOf(shown[n]) \in 0..(TailMax + 2)
      BY SizeOfType DEF ShownOf
    <3>2. n \in 1..N /\ 0..SizeOf(shown[n]) \subseteq 0..(TailMax + 2)
      BY <1>1, <3>1 DEF ShownOf
    <3>. QED  BY <3>2
  <2> HIDE DEF Grid
  <2>. QED  BY <2>1 DEF Cells
<1> HIDE DEF Grid
<1>4. Cardinality(Cells(shown)) \in Nat
  <2>1. IsFiniteSet(Cells(shown))
    BY <1>2, <1>3, FS_Subset
  <2>. QED  BY <2>1, FS_CardinalityType
<1>. QED  BY <1>4 DEF SizeOfAll

LEMMA RenderedIsShown ==
    ASSUME NEW t, BufferOK(t)
    PROVE  Len(t.segs) \in Nat /\ ShownOf(Rendered(t), Len(t.segs))
<1>1. t.segs \in Seq(Segment)
  BY DEF BufferOK, Buffer
<1>2. DOMAIN t.segs = 1..Len(t.segs) /\ Len(t.segs) \in Nat
  BY <1>1
<1>3. \A n \in DOMAIN t.segs : t.segs[n] \in Segment
  BY <1>1, EntryOf, Zenon
<1>. QED  BY <1>2, <1>3 DEF Rendered, Restrict, ShownOf

\* Dropping the oldest keeps the newest.
LEMMA NewestKept ==
    ASSUME NEW N \in Nat, NEW shown, ShownOf(shown, N), NEW k \in DOMAIN shown
    PROVE  /\ ShownOf(From(shown, k), N)
           /\ Newest(From(shown, k)) = Newest(shown)
<1> DEFINE rest == From(shown, k)
<1>1. DOMAIN shown \subseteq Int
  BY DEF ShownOf
<1>2. /\ DOMAIN rest = {n \in DOMAIN shown : k <= n}
      /\ \A n \in DOMAIN rest : rest[n] = shown[n]
  BY DEF From, Restrict
<1> HIDE DEF rest
<1>3. ShownOf(rest, N)
  BY <1>2 DEF ShownOf
<1>4. {n \in DOMAIN rest : \A j \in DOMAIN rest : j <= n}
         = {n \in DOMAIN shown : \A j \in DOMAIN shown : j <= n}
  BY <1>1, <1>2
<1>5. Newest(rest) = Newest(shown)
  <2> DEFINE S == {n \in DOMAIN shown : \A j \in DOMAIN shown : j <= n}
  <2>1. \A n \in S : n \in DOMAIN rest
    BY <1>2, <1>4
  <2>2. \A n \in S : rest[n] = shown[n]
    BY <1>2, <2>1
  <2>3. Newest(rest) = [n \in S |-> rest[n]]
    BY <1>4 DEF Newest, Restrict
  <2>4. Newest(shown) = [n \in S |-> shown[n]]
    BY DEF Newest, Restrict
  <2> HIDE DEF S
  <2>. QED  BY <2>2, <2>3, <2>4
<1>. QED  BY <1>3, <1>5 DEF rest

LEMMA NewestTwice ==
    ASSUME NEW shown
    PROVE  Newest(Newest(shown)) = Newest(shown)
<1> DEFINE S == {n \in DOMAIN shown : \A j \in DOMAIN shown : j <= n}
           f == Newest(shown)
<1>1. f = [n \in S |-> shown[n]]
  BY DEF Newest, Restrict
<1>2. DOMAIN f = S
  BY <1>1
<1>3. {n \in DOMAIN f : \A j \in DOMAIN f : j <= n} = S
  BY <1>2
<1>4. Newest(f) = [n \in {m \in DOMAIN f : \A j \in DOMAIN f : j <= m} |-> f[n]]
  BY DEF Newest, Restrict
<1>5. \A n \in S : f[n] = shown[n]
  BY <1>1
<1> HIDE DEF S, f
<1>6. Newest(f) = [n \in S |-> f[n]]
  BY <1>3, <1>4
<1>7. [n \in S |-> f[n]] = [n \in S |-> shown[n]]
  BY <1>5
<1>. QED  BY <1>1, <1>6, <1>7 DEF f

\* How much of a message a display fills.
LEMMA DisplayOfAll ==
    ASSUME NEW shown, NEW status
    PROVE  LET e == Display(shown, FALSE, 0, status)
           IN  /\ e.status = status /\ e.shown = shown
               /\ DisplaySize(e) = SizeOfAll(shown) + 0 + StatusLength(status)
<1> DEFINE e == Display(shown, FALSE, 0, status)
<1>1. e.status = status /\ e.shown = shown /\ e.tail = 0 /\ e.marker = FALSE
  BY DEF Display
<1> HIDE DEF e
<1>2. DisplaySize(e) = SizeOfAll(shown) + 0 + StatusLength(status)
  <2>1. (IF e.tail > 0 THEN e.tail ELSE SizeOfAll(e.shown)) = SizeOfAll(shown)
    BY <1>1
  <2>2. (IF e.marker THEN MarkerSize ELSE 0) = 0
    BY <1>1
  <2>. QED  BY <1>1, <2>1, <2>2, Zenon DEF DisplaySize
<1>. QED  BY <1>1, <1>2 DEF e

LEMMA DisplayOfTail ==
    ASSUME NEW shown, NEW status, NEW tail \in Nat
    PROVE  LET e == Display(shown, TRUE, tail, status)
           IN  /\ e.status = status /\ e.shown = shown
               /\ tail = 0 =>
                     DisplaySize(e) = SizeOfAll(shown) + MarkerSize + StatusLength(status)
               /\ tail > 0 => DisplaySize(e) = tail + MarkerSize + StatusLength(status)
<1> DEFINE e == Display(shown, TRUE, tail, status)
<1>1. e.status = status /\ e.shown = shown /\ e.tail = tail /\ e.marker = TRUE
  BY DEF Display
<1> HIDE DEF e
<1>2. (IF e.marker THEN MarkerSize ELSE 0) = MarkerSize
  BY <1>1
<1>3. ASSUME tail = 0
      PROVE  DisplaySize(e) = SizeOfAll(shown) + MarkerSize + StatusLength(status)
  <2>1. (IF e.tail > 0 THEN e.tail ELSE SizeOfAll(e.shown)) = SizeOfAll(shown)
    BY <1>1, <1>3
  <2>. QED  BY <1>1, <1>2, <2>1, Zenon DEF DisplaySize
<1>4. ASSUME tail > 0
      PROVE  DisplaySize(e) = tail + MarkerSize + StatusLength(status)
  <2>1. (IF e.tail > 0 THEN e.tail ELSE SizeOfAll(e.shown)) = tail
    BY <1>1, <1>4
  <2>. QED  BY <1>1, <1>2, <2>1, Zenon DEF DisplaySize
<1>. QED  BY <1>1, <1>3, <1>4 DEF e

\* Whatever the transcript, its status and the newest segment, or the end of
\* it, are sent, and fit into a message.
LEMMA RenderFits ==
    ASSUME NEW t, BufferOK(t), NEW status
    PROVE  /\ Render(t, status).status = status
           /\ DisplaySize(Render(t, status)) <= Limit
           /\ Limit > StatusSize + MarkerSize + MinBudget =>
                 Newest(Render(t, status).shown) = Newest(Rendered(t))
<1> DEFINE N    == Len(t.segs)
           all  == Rendered(t)
           size == StatusLength(status)
           room == Limit - size
           fit  == {k \in DOMAIN all : SizeOfAll(From(all, k)) + MarkerSize <= room}
           oldest == CHOOSE k \in fit : \A j \in fit : k <= j
           budget == room - MarkerSize
           d == Render(t, status)
<1>1. N \in Nat /\ ShownOf(all, N)
  BY RenderedIsShown
<1>2. /\ Limit \in Nat /\ StatusSize \in Nat /\ MinBudget \in Nat /\ StatusSize <= Limit
      /\ size \in Nat /\ size <= StatusSize /\ MarkerSize = 1
  <2>1. /\ Limit \in Nat /\ StatusSize \in Nat /\ MinBudget \in Nat
        /\ StatusSize <= Limit
    BY TranscriptAssumption
  <2>2. size = 0 \/ size = StatusSize
    BY DEF StatusLength
  <2> HIDE DEF size
  <2>3. size \in Nat /\ size <= StatusSize
    BY <2>1, <2>2
  <2>. QED  BY <2>1, <2>3 DEF MarkerSize
<1>3. SizeOfAll(all) \in Int
  BY <1>1, SizeOfAllType
<1>4. d = IF SizeOfAll(all) <= room THEN Display(all, FALSE, 0, status)
          ELSE IF fit # {} THEN Display(From(all, oldest), TRUE, 0, status)
          ELSE IF budget > MinBudget THEN Display(Newest(all), TRUE, budget, status)
          ELSE IF MarkerSize <= room THEN Display(<<>>, TRUE, 0, status)
          ELSE Display(<<>>, FALSE, 0, status)
  BY DEF Render
<1>5. fit # {} => oldest \in fit
  <2> SUFFICES ASSUME fit # {}  PROVE oldest \in fit
    OBVIOUS
  <2>1. fit \in SUBSET Nat
    BY <1>1 DEF ShownOf
  <2>2. \E k \in fit : \A j \in fit : k <= j
    BY <2>1, LeastElement
  <2>. QED  BY <2>2
<1>6. SizeOfAll(<<>>) = 0
  BY DEF SizeOfAll
<1>7. size = StatusLength(status)
  OBVIOUS
<1> HIDE DEF d, oldest, size
<1>8. CASE SizeOfAll(all) <= room
  <2>1. d = Display(all, FALSE, 0, status)
    BY <1>4, <1>8
  <2>2. d.status = status /\ d.shown = all /\ DisplaySize(d) = SizeOfAll(all) + 0 + size
    BY <1>7, <2>1, DisplayOfAll, Zenon
  <2>. QED  BY <1>2, <1>3, <1>8, <2>2 DEF d
<1>9. CASE ~(SizeOfAll(all) <= room) /\ fit # {}
  <2>1. d = Display(From(all, oldest), TRUE, 0, status)
    BY <1>4, <1>9
  <2>2. oldest \in DOMAIN all /\ SizeOfAll(From(all, oldest)) + MarkerSize <= room
    BY <1>5, <1>9
  <2>3. ShownOf(From(all, oldest), N) /\ Newest(From(all, oldest)) = Newest(all)
    BY <1>1, <2>2, NewestKept
  <2>4. SizeOfAll(From(all, oldest)) \in Int
    BY <1>1, <2>3, SizeOfAllType
  <2>5. /\ d.status = status /\ d.shown = From(all, oldest)
        /\ DisplaySize(d) = SizeOfAll(From(all, oldest)) + MarkerSize + size
    BY <1>7, <2>1, DisplayOfTail, 0 \in Nat, Zenon
  <2>. QED  BY <1>2, <2>2, <2>3, <2>4, <2>5 DEF d
<1>10. CASE ~(SizeOfAll(all) <= room) /\ fit = {} /\ budget > MinBudget
  <2>1. d = Display(Newest(all), TRUE, budget, status)
    BY <1>4, <1>10
  <2>2. budget \in Nat /\ budget > 0
    BY <1>2, <1>10
  <2>3. /\ d.status = status /\ d.shown = Newest(all)
        /\ DisplaySize(d) = budget + MarkerSize + size
    <3> HIDE DEF budget
    <3>1. /\ d.status = status /\ d.shown = Newest(all)
          /\ budget > 0 => DisplaySize(d) = budget + MarkerSize + StatusLength(status)
      BY <2>1, <2>2, DisplayOfTail, Zenon
    <3>. QED  BY <1>7, <2>2, <3>1, Zenon
  <2>. QED  BY <1>2, <2>3, NewestTwice DEF d
<1>11. CASE ~(SizeOfAll(all) <= room) /\ fit = {} /\ ~(budget > MinBudget)
  <2>1. ~(Limit > StatusSize + MarkerSize + MinBudget)
    BY <1>2, <1>11
  <2>2. CASE MarkerSize <= room
    <3>1. d = Display(<<>>, TRUE, 0, status)
      BY <1>4, <1>11, <2>2
    <3>2. d.status = status /\ DisplaySize(d) = 0 + MarkerSize + size
      <4>1. /\ d.status = status
            /\ DisplaySize(d) = SizeOfAll(<<>>) + MarkerSize + StatusLength(status)
        BY <3>1, DisplayOfTail, 0 \in Nat, Zenon
      <4>. QED  BY <1>6, <1>7, <4>1, Zenon
    <3>. QED  BY <1>2, <2>1, <2>2, <3>2 DEF d
  <2>3. CASE ~(MarkerSize <= room)
    <3>1. d = Display(<<>>, FALSE, 0, status)
      BY <1>4, <1>11, <2>3
    <3>2. d.status = status /\ DisplaySize(d) = 0 + 0 + size
      <4>1. /\ d.status = status
            /\ DisplaySize(d) = SizeOfAll(<<>>) + 0 + StatusLength(status)
        BY <3>1, DisplayOfAll, Zenon
      <4>. QED  BY <1>6, <1>7, <4>1, Zenon
    <3>. QED  BY <1>2, <2>1, <3>2 DEF d
  <2>. QED  BY <2>2, <2>3
<1>. QED  BY <1>8, <1>9, <1>10, <1>11
-----------------------------------------------------------------------------
(***************************************************************************)
(* What the message shows when a run is over.                              *)
(***************************************************************************)

UiRecord(u) == \E x, y, z : u = [display |-> x, status |-> y, slow |-> z]

\* What is left to be handled when the process has exited.
Ends == {<<>>, <<Just("complete")>>, <<Just("error"), Just("complete")>>}

\* The node of a run whose session is known, or which was cancelled.
Settled == node.session \/ cancelled => node.state # "in_progress"

\* Everything has been handled: the last display is that of "complete", and
\* once its edit is sent the node is settled.
ExitShown ==
    cli.exit # "running" /\ parsed = <<>> /\ await # "over" =>
        /\ ui.display = Render(transcript, "complete")
        /\ await = "event" => Settled

OverShown ==
    IF await = "over"
      THEN Settled /\ \E status \in FinalStatus : ui.display = Render(transcript, status)
      ELSE cancelled = FALSE

EndInv ==
    /\ UiRecord(ui)
    /\ cli.exit # "running" => parsed \in Ends
    /\ ExitShown
    /\ OverShown

LEMMA ThreeFields ==
    ASSUME NEW A, NEW B, NEW C, NEW u \in [display : A, status : B, slow : C]
    PROVE  UiRecord(u)
<1>1. u = [display |-> u.display, status |-> u.status, slow |-> u.slow]
  OBVIOUS
<1>. QED  BY <1>1 DEF UiRecord

LEMMA UiSet ==
    ASSUME UiRecord(ui), NEW d, NEW s,
           ui' = [ui EXCEPT !.display = d] \/ ui' = [ui EXCEPT !.display = d, !.status = s]
    PROVE  UiRecord(ui') /\ ui'.display = d
<1>1. PICK x, y, z : ui = [display |-> x, status |-> y, slow |-> z]
  BY DEF UiRecord
<1>2. \/ ui' = [display |-> d, status |-> y, slow |-> z]
      \/ ui' = [display |-> d, status |-> s, slow |-> z]
  BY <1>1
<1>. QED  BY <1>2 DEF UiRecord

LEMMA EndInit == Init => EndInv
<1> SUFFICES ASSUME Init  PROVE EndInv
  OBVIOUS
<1>1. UiRecord(ui)
  <2>1. ui \in [display : {Nothing}, status : {""}, slow : BOOLEAN]
    BY DEF Init
  <2>. QED  BY <2>1, ThreeFields, Zenon
<1>2. cli.exit = "running" /\ await = "event" /\ cancelled = FALSE
  <2>1. \E streams \in BOOLEAN :
          cli = [agents |-> <<>>, calls |-> {}, block |-> NoBlock, said |-> <<>>,
                 sent |-> 0, exit |-> "running", streams |-> streams]
    BY DEF Init
  <2>2. cli.exit = "running"
    BY <2>1
  <2>3. await = "event" /\ cancelled = FALSE
    BY Zenon DEF Init
  <2>. QED  BY <2>2, <2>3
<1>. QED  BY <1>1, <1>2 DEF EndInv, ExitShown, OverShown

\* The CLI says something while the handler waits for it.
Quiet ==
    /\ Reading /\ cli'.exit = "running"
    /\ UNCHANGED <<transcript, await, node, ui, cancelled>>

LEMMA SentQuietly ==
    ASSUME NEW event, NEW c, Sends(event, c), "exit" \in DOMAIN c, c.exit = cli.exit
    PROVE  Quiet
<1>1. cli' = [c EXCEPT !.sent = @ + 1] /\ Reading
  BY DEF Sends
<1>2. cli'.exit = c.exit
  BY <1>1
<1>3. cli'.exit = "running"
  BY <1>1, <1>2 DEF Reading
<1>. QED  BY <1>1, <1>3 DEF Sends, Quiet

LEMMA QuietKeepsEnd ==
    ASSUME EndInv, Quiet  PROVE EndInv'
<1>1. await = "event" /\ await' = "event" /\ cancelled' = cancelled /\ ui' = ui
      /\ cli'.exit = "running"
  BY DEF Quiet, Reading
<1>2. UiRecord(ui') /\ cancelled = FALSE
  BY <1>1 DEF EndInv, OverShown
<1>. QED  BY <1>1, <1>2 DEF EndInv, ExitShown, OverShown

LEMMA CliRecord ==
    ASSUME Inv  PROVE "exit" \in DOMAIN cli
  BY DEF Inv, ControlInv, Cli

LEMMA SaysQuiet ==
    ASSUME Inv, SaysText \/ StartsBlock \/ StreamsText \/ StopsBlock  PROVE Quiet
<1>1. "exit" \in DOMAIN cli
  BY CliRecord
<1>2. CASE SaysText
  <2>1. PICK kind \in {"text", "thinking"} :
          Sends(Message(TextBlock(kind, Piece)), Says(kind, <<Piece>>))
    BY <1>2 DEF SaysText
  <2>2. DOMAIN Says(kind, <<Piece>>) = DOMAIN cli /\ Says(kind, <<Piece>>).exit = cli.exit
    BY <1>1 DEF Says
  <2>. QED  BY <1>1, <2>1, <2>2, SentQuietly
<1>3. CASE StartsBlock
  <2>1. PICK kind \in {"text", "thinking"}, i \in Indexes :
          Sends([type |-> "content_block_start", index |-> i,
                 block |-> TextBlock(kind, 0)],
                [Says(kind, <<>>) EXCEPT !.block = [type |-> kind, index |-> i]])
    BY <1>3 DEF StartsBlock
  <2> DEFINE c == [Says(kind, <<>>) EXCEPT !.block = [type |-> kind, index |-> i]]
  <2>2. DOMAIN c = DOMAIN cli /\ c.exit = cli.exit
    BY <1>1 DEF Says
  <2> HIDE DEF c
  <2>3. Sends([type |-> "content_block_start", index |-> i,
               block |-> TextBlock(kind, 0)], c)
    BY <2>1 DEF c
  <2>. QED  BY <1>1, <2>2, <2>3, SentQuietly
<1>4. CASE StreamsText
  <2> DEFINE c == IF Main THEN [cli EXCEPT !.said[Len(cli.said)].parts = Append(@, Piece)]
                          ELSE cli
  <2>1. Sends([type |-> "content_block_delta", index |-> cli.block.index,
               block |-> TextBlock(cli.block.type, Piece)], c)
    BY <1>4 DEF StreamsText
  <2>2. DOMAIN c = DOMAIN cli /\ c.exit = cli.exit
    BY <1>1
  <2> HIDE DEF c
  <2>. QED  BY <1>1, <2>1, <2>2, SentQuietly
<1>5. CASE StopsBlock
  <2> DEFINE c == [cli EXCEPT !.block = NoBlock]
  <2>1. Sends([type |-> "content_block_stop", index |-> cli.block.index], c)
    BY <1>5 DEF StopsBlock
  <2>2. DOMAIN c = DOMAIN cli /\ c.exit = cli.exit
    BY <1>1
  <2> HIDE DEF c
  <2>. QED  BY <1>1, <2>1, <2>2, SentQuietly
<1>. QED  BY <1>2, <1>3, <1>4, <1>5

LEMMA UsesQuiet ==
    ASSUME Inv, NEW b, NEW c, SendsUse(b, c), "exit" \in DOMAIN c, c.exit = cli.exit
    PROVE  Quiet
<1>1. CASE cli.streams
  <2>1. PICK i \in Indexes :
          Sends([type |-> "content_block_start", index |-> i, block |-> b], c)
    BY <1>1 DEF SendsUse
  <2>. QED  BY <2>1, SentQuietly
<1>2. CASE ~cli.streams
  BY <1>2, SentQuietly DEF SendsUse
<1>. QED  BY <1>1, <1>2

LEMMA ToolsQuiet ==
    ASSUME Inv, CallsTask \/ CallsTool \/ ToolAnswers \/ TaskAnswers \/ ReportsError
    PROVE  Quiet
<1>1. "exit" \in DOMAIN cli
  BY CliRecord
<1>2. CASE CallsTask
  <2>1. PICK id, result :
          SendsUse(UseBlock(id, "Task"),
                   [cli EXCEPT !.agents = Append(@, [id |-> id, result |-> result]),
                               !.block = NoBlock])
    BY <1>2 DEF CallsTask
  <2> DEFINE c == [cli EXCEPT !.agents = Append(@, [id |-> id, result |-> result]),
                              !.block = NoBlock]
  <2>2. DOMAIN c = DOMAIN cli /\ c.exit = cli.exit
    BY <1>1
  <2>3. SendsUse(UseBlock(id, "Task"), c)
    BY <2>1
  <2> HIDE DEF c
  <2>. QED  BY <1>1, <2>2, <2>3, UsesQuiet
<1>3. CASE CallsTool
  <2>1. PICK id \in Unused :
          SendsUse(UseBlock(id, "other"),
                   [cli EXCEPT !.calls = @ \cup {id}, !.block = NoBlock])
    BY <1>3 DEF CallsTool
  <2> DEFINE c == [cli EXCEPT !.calls = @ \cup {id}, !.block = NoBlock]
  <2>2. DOMAIN c = DOMAIN cli /\ c.exit = cli.exit
    BY <1>1
  <2>3. SendsUse(UseBlock(id, "other"), c)
    BY <2>1
  <2> HIDE DEF c
  <2>. QED  BY <1>1, <2>2, <2>3, UsesQuiet
<1>4. CASE ToolAnswers
  <2>1. PICK id \in cli.calls :
          Sends(Result(id), [cli EXCEPT !.calls = @ \ {id}, !.block = NoBlock])
    BY <1>4 DEF ToolAnswers
  <2> DEFINE c == [cli EXCEPT !.calls = @ \ {id}, !.block = NoBlock]
  <2>2. DOMAIN c = DOMAIN cli /\ c.exit = cli.exit
    BY <1>1
  <2>3. Sends(Result(id), c)
    BY <2>1
  <2> HIDE DEF c
  <2>. QED  BY <1>1, <2>2, <2>3, SentQuietly
<1>5. CASE TaskAnswers
  <2> DEFINE c == [cli EXCEPT !.agents = Front(@), !.block = NoBlock]
  <2>1. Sends(Result(Last(cli.agents).result), c)
    BY <1>5 DEF TaskAnswers
  <2>2. DOMAIN c = DOMAIN cli /\ c.exit = cli.exit
    BY <1>1
  <2> HIDE DEF c
  <2>. QED  BY <1>1, <2>1, <2>2, SentQuietly
<1>6. CASE ReportsError
  BY <1>1, <1>6, SentQuietly DEF ReportsError
<1>. QED  BY <1>2, <1>3, <1>4, <1>5, <1>6

LEMMA SessionEnd ==
    ASSUME EndInv, ReportsSession  PROVE EndInv'
<1>1. await = "event" /\ await' = "event" /\ cancelled' = cancelled /\ ui' = ui
      /\ cli' = cli /\ cli.exit = "running"
  BY DEF ReportsSession, Reading
<1>2. UiRecord(ui') /\ cancelled = FALSE
  BY <1>1 DEF EndInv, OverShown
<1>. QED  BY <1>1, <1>2 DEF EndInv, ExitShown, OverShown

\* The process exits: there is something to be handled.
LEMMA ExitEnd ==
    ASSUME EndInv, ProcessExits  PROVE EndInv'
<1>1. PICK code \in {0, 1} : parsed' = ParseCliEvent([type |-> "exit", code |-> code])
  BY DEF ProcessExits
<1>2. parsed' = <<Just("complete")>> \/ parsed' = <<Just("error"), Just("complete")>>
  <2> DEFINE event == [type |-> "exit", code |-> code]
  <2>1. event.type = "exit"
    OBVIOUS
  <2> HIDE DEF event
  <2>2. ParseCliEvent(event) = IF event.code = 0 THEN <<Just("complete")>>
                               ELSE <<Just("error"), Just("complete")>>
    BY <2>1 DEF ParseCliEvent
  <2>. QED  BY <1>1, <2>2 DEF event
<1>3. parsed' # <<>> /\ parsed' \in Ends
  <2> HIDE DEF Just
  <2>. QED  BY <1>2 DEF Ends
<1>4. await = "event" /\ await' = "event" /\ cancelled' = cancelled /\ ui' = ui
  BY DEF ProcessExits, Reading
<1>5. UiRecord(ui') /\ cancelled = FALSE
  BY <1>4 DEF EndInv, OverShown
<1>. QED  BY <1>3, <1>4, <1>5 DEF EndInv, ExitShown, OverShown

LEMMA EnvironmentEnd ==
    ASSUME Inv, EndInv, Environment  PROVE EndInv'
<1>1. CASE SaysText \/ StartsBlock \/ StreamsText \/ StopsBlock
  BY <1>1, SaysQuiet, QuietKeepsEnd
<1>2. CASE CallsTask \/ CallsTool \/ ToolAnswers \/ TaskAnswers \/ ReportsError
  BY <1>2, ToolsQuiet, QuietKeepsEnd
<1>3. CASE ReportsSession
  BY <1>3, SessionEnd
<1>4. CASE ProcessExits
  BY <1>4, ExitEnd
<1>. QED  BY <1>1, <1>2, <1>3, <1>4 DEF Environment

\* An event is handled.  Those of an exit are forced to be shown.
LEMMA HandleParsedEnd ==
    ASSUME EndInv, HandleParsed  PROVE EndInv'
<1> DEFINE ev == Head(parsed)
           status == StatusForEvent(ev)
<1>1. /\ await = "event" /\ await' = AfterEdit(ev) /\ cancelled' = cancelled
      /\ cli' = cli /\ parsed' = Tail(parsed) /\ parsed # <<>>
  BY DEF HandleParsed
<1> DEFINE d == CASE status # ""           -> UpdateUi(transcript', status, FALSE)
                  [] ev.type = "block_stop" -> UpdateUi(transcript', ui.status, TRUE)
                  [] ev.type = "complete"   -> UpdateUi(transcript', "complete", TRUE)
                  [] ev.type = "error"      -> UpdateUi(transcript', "error", TRUE)
                  [] OTHER                  -> ui.display
           s == IF status = "" THEN ui.status ELSE status
<1>2. ui' = [ui EXCEPT !.display = d, !.status = s]
  BY DEF HandleParsed
<1>3. status = "" /\ ev.type = "complete" => d = Render(transcript', "complete")
  BY DEF UpdateUi
<1> HIDE DEF ev, status, d, s
<1>4. UiRecord(ui') /\ ui'.display = d
  BY <1>2, UiSet DEF EndInv
<1>5. AfterEdit(ev) # "over" /\ cancelled = FALSE
  BY <1>1 DEF AfterEdit, EndInv, OverShown
<1>6. OverShown'
  BY <1>1, <1>5 DEF OverShown
<1>7. CASE cli.exit = "running"
  BY <1>1, <1>4, <1>6, <1>7 DEF EndInv, ExitShown
<1>8. CASE cli.exit # "running"
  <2> DEFINE err == Just("error")
             end == Just("complete")
  <2>1. err.type = "error" /\ end.type = "complete"
    BY DEF Just, Parsed
  <2>2. parsed = <<end>> \/ parsed = <<err, end>>
    BY <1>1, <1>8, Zenon DEF EndInv, Ends
  <2>3. <<end>> \in Ends /\ <<>> \in Ends
    BY DEF Ends
  <2> HIDE DEF err, end
  <2>4. CASE parsed = <<err, end>>
    <3>1. parsed' = <<end>>
      BY <1>1, <2>4
    <3>2. parsed' # <<>> /\ parsed' \in Ends
      BY <2>3, <3>1
    <3>. QED  BY <1>1, <1>4, <1>6, <3>2 DEF EndInv, ExitShown
  <2>5. CASE parsed = <<end>>
    <3>1. parsed' = <<>> /\ ev = end
      BY <1>1, <2>5 DEF ev
    <3>2. status = "" /\ AfterEdit(ev) = "complete"
      <4>1. ev.type = "complete"
        BY <2>1, <3>1
      <4>2. StatusForEvent(ev) = ""
        BY <4>1 DEF StatusForEvent
      <4>3. AfterEdit(ev) = "complete"
        BY <4>1 DEF AfterEdit
      <4>. QED  BY <4>2, <4>3 DEF status
    <3>3. ui'.display = Render(transcript', "complete")
      BY <1>3, <1>4, <2>1, <3>1, <3>2
    <3>. QED  BY <1>1, <1>4, <1>6, <2>3, <3>1, <3>2, <3>3 DEF EndInv, ExitShown
  <2>. QED  BY <2>2, <2>4, <2>5
<1>. QED  BY <1>7, <1>8

LEMMA EditedEnd ==
    ASSUME Inv, EndInv, Edited  PROVE EndInv'
<1>1. /\ await # "over" /\ await' = "event" /\ cancelled' = cancelled
      /\ transcript' = transcript /\ parsed' = parsed /\ ui' = ui /\ cli' = cli
  BY DEF Edited
<1>2. cancelled = FALSE
  BY <1>1 DEF EndInv, OverShown
<1>3. Settled'
  <2>1. node \in [state : {"in_progress", "completed", "error"},
                  session : BOOLEAN, had : BOOLEAN]
    BY NodeTyped
  <2>2. node' = [node EXCEPT !.state = IF await = "error" THEN "error"
                                       ELSE IF node.session THEN "completed" ELSE @]
    BY DEF Edited
  <2>3. node'.session => node'.state # "in_progress"
    BY <2>1, <2>2
  <2>. QED  BY <1>1, <1>2, <2>3 DEF Settled
<1>4. UiRecord(ui') /\ OverShown'
  BY <1>1, <1>2 DEF EndInv, OverShown
<1>5. ExitShown'
  BY <1>1, <1>3 DEF EndInv, ExitShown
<1>6. cli'.exit # "running" => parsed' \in Ends
  BY <1>1 DEF EndInv
<1>. QED  BY <1>4, <1>5, <1>6 DEF EndInv

LEMMA RunEndsEnd ==
    ASSUME EndInv, RunEnds  PROVE EndInv'
<1>1. /\ await = "event" /\ parsed = <<>> /\ cli.exit # "running" /\ await' = "over"
      /\ transcript' = transcript /\ parsed' = parsed /\ ui' = ui /\ cli' = cli
      /\ node' = node /\ cancelled' = cancelled
  BY DEF RunEnds
<1>2. Settled /\ ui.display = Render(transcript, "complete")
  BY <1>1 DEF EndInv, ExitShown
<1>3. OverShown'
  BY <1>1, <1>2 DEF OverShown, Settled, FinalStatus
<1>. QED  BY <1>1, <1>3 DEF EndInv, ExitShown

\* A run that fails or is cancelled shows it.
LEMMA ForcedEnd ==
    ASSUME Inv, EndInv, NEW status \in FinalStatus,
           ui' = [ui EXCEPT !.display = Render(transcript', status)],
           node' = [node EXCEPT !.state = "error"], await' = "over",
           UNCHANGED <<parsed, cli>>
    PROVE  EndInv'
<1>1. UiRecord(ui') /\ ui'.display = Render(transcript', status)
  BY UiSet DEF EndInv
<1>2. node'.state = "error"
  BY NodeTyped
<1>3. OverShown'
  BY <1>1, <1>2 DEF OverShown, Settled
<1>4. cli'.exit # "running" => parsed' \in Ends
  BY DEF EndInv
<1>. QED  BY <1>1, <1>3, <1>4 DEF EndInv, ExitShown

LEMMA RunFailsEnd ==
    ASSUME Inv, EndInv, RunFails  PROVE EndInv'
<1>1. ui' = [ui EXCEPT !.display = Render(transcript', "failed")]
  BY DEF RunFails, UpdateUi
<1>2. "failed" \in FinalStatus
  BY DEF FinalStatus
<1>. QED  BY <1>1, <1>2, ForcedEnd DEF RunFails

LEMMA CancelledEnd ==
    ASSUME Inv, EndInv, Cancelled  PROVE EndInv'
<1>1. PICK status \in FinalStatus : ui' = [ui EXCEPT !.display = Render(transcript', status)]
  BY DEF Cancelled, FinalStatus, UpdateUi
<1>. QED  BY <1>1, ForcedEnd DEF Cancelled

LEMMA EndNext == Inv /\ EndInv /\ [Next]_vars => EndInv'
<1> SUFFICES ASSUME Inv, EndInv, [Next]_vars  PROVE EndInv'
  OBVIOUS
<1>1. CASE HandleParsed
  BY <1>1, HandleParsedEnd
<1>2. CASE Edited
  BY <1>2, EditedEnd
<1>3. CASE RunEnds
  BY <1>3, RunEndsEnd
<1>4. CASE RunFails
  BY <1>4, RunFailsEnd
<1>5. CASE Cancelled
  BY <1>5, CancelledEnd
<1>6. CASE Environment
  BY <1>6, EnvironmentEnd
<1>7. CASE UNCHANGED vars
  <2>1. /\ ui' = ui /\ cli' = cli /\ parsed' = parsed /\ await' = await
        /\ node' = node /\ cancelled' = cancelled /\ transcript' = transcript
    BY <1>7 DEF vars
  <2>. QED  BY <2>1 DEF EndInv, ExitShown, OverShown, Settled
<1>. QED  BY <1>1, <1>2, <1>3, <1>4, <1>5, <1>6, <1>7 DEF Next

LEMMA EndImplies == Inv /\ EndInv => EndIsShown
<1> SUFFICES ASSUME Inv, EndInv, await = "over"
             PROVE  /\ ui.display.status \in FinalStatus
                    /\ DisplaySize(ui.display) <= Limit
                    /\ Limit > StatusSize + MarkerSize + MinBudget
                          => Newest(ui.display.shown) = Newest(Rendered(transcript))
                    /\ node.session \/ cancelled => node.state # "in_progress"
  BY DEF EndIsShown
<1>1. BufferOK(transcript)
  BY DEF Inv
<1>2. PICK status \in FinalStatus : ui.display = Render(transcript, status)
  BY DEF EndInv, OverShown
<1>3. Settled
  BY DEF EndInv, OverShown
<1>. QED  BY <1>1, <1>2, <1>3, RenderFits, Zenon DEF Settled

\* However a run ends, with its last event, because the generator
\* of events raised, or by a cancellation: the message that update_ui
\* (messaging/handler.py) sent last has a final status, is no longer than the
\* limit and ends with the newest segment of the transcript, or with the end
\* of that (render, messaging/transcript.py); a node whose session is known,
\* or which was cancelled, is not left IN_PROGRESS.
THEOREM EndOfRunIsShown == Spec => []EndIsShown
<1>1. Init => Inv /\ EndInv
  BY InitInv, EndInit
<1>2. Inv /\ EndInv /\ [Next]_vars => (Inv /\ EndInv)'
  BY NextInv, EndNext
<1>3. Inv /\ EndInv => EndIsShown
  BY EndImplies
<1>. QED  BY <1>1, <1>2, <1>3, PTL DEF Spec
=============================================================================

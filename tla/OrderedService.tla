--------------------------- MODULE OrderedService ---------------------------
(***************************************************************************)
(* What the per-tree queue promises its users: messages join one after     *)
(* the other, and a message may be started only if nothing that joined     *)
(* with it or after it has been started.  So every message is started at   *)
(* most once and starts follow arrivals; messages may be given up.         *)
(***************************************************************************)
EXTENDS Integers

CONSTANT Nodes

VARIABLES
    stamp,      \* when a message joined: 1, 2, ...; 0 if it has not
    arrivals,   \* how many have joined
    last        \* stamp of the message started last

Init ==
    /\ stamp = [n \in Nodes |-> 0]
    /\ arrivals = 0
    /\ last = 0

Join(n) ==
    /\ stamp[n] = 0
    /\ arrivals' = arrivals + 1
    /\ stamp' = [stamp EXCEPT ![n] = arrivals']

Start(n) ==
    /\ stamp'[n] > last
    /\ last' = stamp'[n]

\* An idle service starts a message in the step in which it joins.
Next ==
    \E n \in Nodes :
        \/ Join(n) /\ last' = last
        \/ Join(n) /\ Start(n)
        \/ Start(n) /\ UNCHANGED <<stamp, arrivals>>

Spec == Init /\ [][Next]_<<stamp, arrivals, last>>
=============================================================================

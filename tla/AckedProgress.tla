--------------------------- MODULE AckedProgress ---------------------------
(***************************************************************************)
(* What the progress package promises, whatever data structure it uses:    *)
(* commands of a source node are registered in source order, they are      *)
(* acknowledged in any order, and the visible position of the node always  *)
(* ends the longest acknowledged prefix, neither more nor less.            *)
(*                                                                         *)
(* OffsetTracker (internal/progress/offsets.go) is shown to implement      *)
(* this specification.                                                     *)
(***************************************************************************)
EXTENDS Integers, Sequences

CONSTANTS Nodes,    \* source nodes, one replication stream each
          Offsets   \* replication offsets

VARIABLES log,      \* log[n]: offsets registered for node n, in source order
          acked,    \* acked[n]: indices of log[n] that were acknowledged
          position  \* position[n]: length of the prefix that is visible

avars == <<log, acked, position>>

AInit ==
    /\ log = [n \in Nodes |-> <<>>]
    /\ acked = [n \in Nodes |-> {}]
    /\ position = [n \in Nodes |-> 0]

ARegister(n, off) ==
    /\ log' = [log EXCEPT ![n] = Append(@, off)]
    /\ UNCHANGED <<acked, position>>

\* Acknowledging one command moves the visible position over the whole
\* acknowledged prefix, which may be several commands or none.
AAcknowledge(n, i) ==
    /\ i \in (1..Len(log[n])) \ acked[n]
    /\ acked' = [acked EXCEPT ![n] = @ \cup {i}]
    /\ \E k \in position[n]..Len(log[n]) :
          /\ 1..k \subseteq acked'[n]
          /\ k + 1 \notin acked'[n]
          /\ position' = [position EXCEPT ![n] = k]
    /\ UNCHANGED log

ANext ==
    \E n \in Nodes :
        \/ \E off \in Offsets : ARegister(n, off)
        \/ \E i \in 1..Len(log[n]) : AAcknowledge(n, i)

ASpec == AInit /\ [][ANext]_avars
=============================================================================

--------------------------- MODULE TransportStream ---------------------------
(***************************************************************************)
(* What the muxer's output is for a demuxer: a succession of transport     *)
(* packets in which every PES packet of every stream is completed, in      *)
(* order, before the output is closed on a whole aligned unit.             *)
(***************************************************************************)
EXTENDS Naturals

CONSTANTS Streams,  \* the elementary streams
          UnitSize  \* transport packets in an aligned unit

VARIABLES total,      \* total[e]: PES packets of stream e
          completed,  \* completed[e]: those whose last byte is in the output
          packets,    \* transport packets in the output
          state       \* "open", "closed", or "broken" by an error

vars == <<total, completed, packets, state>>

Init == /\ total \in [Streams -> Nat]
        /\ completed = [e \in Streams |-> 0]
        /\ packets = 0
        /\ state = "open"

\* A packet of a table, of stuffing, or with the start or middle of a PES packet.
Carry == /\ state = "open"
         /\ packets' = packets + 1
         /\ UNCHANGED <<total, completed, state>>

Complete(e) == /\ state = "open"
               /\ completed[e] < total[e]
               /\ completed' = [completed EXCEPT ![e] = @ + 1]
               /\ packets' = packets + 1
               /\ UNCHANGED <<total, state>>

Close == /\ state = "open"
         /\ completed = total
         /\ packets % UnitSize = 0
         /\ state' = "closed"
         /\ UNCHANGED <<total, completed, packets>>

Break == /\ state = "open"
         /\ state' = "broken"
         /\ UNCHANGED <<total, completed, packets>>

Next == Carry \/ Close \/ Break \/ \E e \in Streams : Complete(e)

Spec == Init /\ [][Next]_vars
=============================================================================

---------------------------- MODULE MCHrdVerifier ----------------------------
(* Bits at two a tick into a CPB of twelve; access units below and above    *)
(* what a removal interval brings, removal times from too early to late,    *)
(* and also out of order.                                                   *)
EXTENDS HrdVerifier

CONSTANT none

BothBuilds == {"debug", "release"}
Debug == {"debug"}

Unit(length, removal, output, picture, per) ==
  [length |-> length, slices |-> 1, cpbRemovalDelay |-> removal,
   dpbOutputDelay |-> output, picture |-> picture, period |-> per]
Periods == {[delay |-> 2, offset |-> 1], [delay |-> 4, offset |-> 0]}

Plain == {Unit(l, r, out, "non-ref", none) : l \in {3, 8}, r \in {1, 2, 4}, out \in {0, 1, 4}}
         \cup {Unit(l, r, 1, "ref", none) : l \in {3, 8}, r \in {1, 2}}
         \cup {Unit(l, r, 1, "idr", per) : l \in {5, 9}, r \in {2, 4}, per \in Periods}
Others == {Unit(5, 2, 2, "non-ref", [delay |-> 4, offset |-> 0]),
           Unit(3, 2, 1, "adaptive", none),
           Unit(5, 2, 0, "long-term idr", [delay |-> 3, offset |-> 0])}
MCAccessUnits == Plain \cup Others
=============================================================================

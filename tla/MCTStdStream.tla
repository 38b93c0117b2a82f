---------------------------- MODULE MCTStdStream ----------------------------
(* Small chains for TStdStream: a packet of 3 units, transport buffer of a  *)
(* little less than three packets as in the code (512 and 188 bytes), leak  *)
(* rates that are not a whole number of units per tick.                     *)
EXTENDS TStdStream

Leak(size, num, den) ==
  [type |-> "leak", bufferSize |-> size, instantFilling |-> FALSE,
   dontOverflowOutput |-> FALSE, num |-> num, den |-> den]
Multiplex(size, num, den) ==
  [type |-> "leak", bufferSize |-> size, instantFilling |-> TRUE,
   dontOverflowOutput |-> TRUE, num |-> num, den |-> den]
Removal(size) ==
  [type |-> "removal", bufferSize |-> size, instantFilling |-> TRUE,
   dontOverflowOutput |-> FALSE, num |-> 0, den |-> 1]

Main(size, num, den) ==
  [type |-> "leak", bufferSize |-> size, instantFilling |-> TRUE,
   dontOverflowOutput |-> FALSE, num |-> num, den |-> den]

MCChain == [audio  |-> <<Leak(8, 3, 2), Removal(6)>>,
            video  |-> <<Leak(8, 3, 2), Multiplex(4, 5, 2), Removal(6)>>,
            system |-> <<Leak(8, 3, 2), Main(4, 1, 3)>>]

Pes(payload, dts, pts) ==
  [header |-> 1, payload |-> payload, dts |-> dts, pts |-> pts]

\* Two or three PES packets; payloads around the size of one packet, time
\* stamps from "too early" to "long after all the data arrived".
AudioInputs ==
  {[kind |-> "audio", script |-> <<Pes(a, t, t), Pes(b, t + d, t + d), Pes(2, t + d + 3, t + d + 3)>>] :
     a \in 1..4, b \in {1, 3}, t \in {2, 4, 6}, d \in {1, 4}}

\* Decoding order I P B: the second packet is displayed after the third.
VideoInputs ==
  {[kind |-> "video", script |-> <<Pes(a, t, t + 1), Pes(b, t + 2, t + d), Pes(1, t + 4, t + 4)>>] :
     a \in {4, 6}, b \in {1, 5}, t \in {5, 8}, d \in {3, 6}}
\* Tables of one to three packets.
Table(size) == [header |-> 0, payload |-> size, dts |-> 0, pts |-> 0]
SystemInputs ==
  {[kind |-> "system", script |-> <<Table(a), Table(b), Table(c)>>] :
     a \in {1, 2}, b \in {2, 5}, c \in {1, 3}}
MCInputs == AudioInputs \cup VideoInputs \cup SystemInputs
=============================================================================

---------------------------- MODULE EsmsCommands ----------------------------
(***************************************************************************)
(* The commands that an ESMS script holds for a PES packet, and what the   *)
(* muxer builds from them: a payload of a size computed when the script is *)
(* written (esms/scriptCreation.c), filled by the commands in their order  *)
(* (elementaryStream.c).  A byte is a value of its own: what the source    *)
(* file, a command or a data block holds, 0 for silence.                   *)
(***************************************************************************)
EXTENDS Integers, Sequences, SequencesExt

MaxOf(a, b) == IF a < b THEN b ELSE a

AddData(offset, data) == [type |-> "addData", offset |-> offset, data |-> data]
ChangeByteOrder(unit, offset, length) ==
  [type |-> "changeByteOrder", unit |-> unit, offset |-> offset, length |-> length]
AddPesPayload(offset, src, size) ==
  [type |-> "addPesPayload", offset |-> offset, src |-> src, size |-> size]
AddPadding(offset, length) == [type |-> "addPadding", offset |-> offset, length |-> length]
AddDataBlock(offset, block) == [type |-> "addDataBlock", offset |-> offset, block |-> block]

\* The end of what a command of the erasing mode, the one that is used, writes.
EndOf(cmd, blocks) ==
  CASE cmd.type = "addData" -> cmd.offset + Len(cmd.data)
    [] cmd.type = "addPesPayload" -> cmd.offset + cmd.size
    [] cmd.type = "addPadding" -> cmd.offset + cmd.length
    [] cmd.type = "changeByteOrder" -> 0
    [] cmd.type = "addDataBlock" -> cmd.offset + Len(blocks[cmd.block])

\* computePesFrameLength()
ComputePesFrameLength(cmds, blocks) ==
  Max({0} \union {EndOf(cmds[i], blocks) : i \in DOMAIN cmds})

-----------------------------------------------------------------------------
\* A payload is allocated with whatever the memory holds.
Uninitialized == "?"
NewPayload(size) == [k \in 1..size |-> Uninitialized]

Overwritten(payload, offset, data) ==
  [k \in DOMAIN payload |-> IF k > offset /\ k <= offset + Len(data)
                              THEN data[k - offset] ELSE payload[k]]

\* The two halves of each unit change places, around its middle byte if any.
PartnerOfPairs(unit, i) == LET half == unit \div 2 IN IF i < half THEN i + half ELSE i - half
Partner(unit, i) == LET half == unit \div 2
                    IN  IF i < half THEN i + unit - half
                        ELSE IF i >= unit - half THEN i - (unit - half)
                        ELSE i
Swapped(payload, unit, offset, length) ==
  [k \in DOMAIN payload |->
     IF k > offset /\ k <= offset + length
       THEN LET i == k - offset - 1
            IN  payload[offset + unit * (i \div unit) + Partner(unit, i % unit) + 1]
       ELSE payload[k]]

\* readBytes() does not notice the end of the file: the buffer is read again.
Stale == "stale"
SourceBytes(source, from, size) ==
  [k \in 1..size |-> IF from + k <= Len(source) THEN source[from + k] ELSE Stale]

\* Commands that would write past the payload fail.
Applicable(cmd, payload, blocks) ==
  CASE cmd.type = "changeByteOrder" -> /\ cmd.offset + cmd.length <= Len(payload)
                                       /\ cmd.unit \div 2 <= 32
    [] cmd.type = "addDataBlock" -> /\ cmd.block \in DOMAIN blocks
                                    /\ EndOf(cmd, blocks) <= Len(payload)
    [] OTHER -> EndOf(cmd, blocks) <= Len(payload)

Applied(cmd, payload, source, blocks) ==
  CASE cmd.type = "addData" -> Overwritten(payload, cmd.offset, cmd.data)
    [] cmd.type = "changeByteOrder" -> Swapped(payload, cmd.unit, cmd.offset, cmd.length)
    [] cmd.type = "addPesPayload" ->
         Overwritten(payload, cmd.offset, SourceBytes(source, cmd.src, cmd.size))
    [] cmd.type = "addPadding" ->
         Overwritten(payload, cmd.offset, [k \in 1..cmd.length |-> 0])
    [] cmd.type = "addDataBlock" -> Overwritten(payload, cmd.offset, blocks[cmd.block])

\* buildPesPacketDataLibbluES(); the empty sequence when a command fails.
BuildPesPacketData(cmds, source, blocks) ==
  FoldLeft(LAMBDA payload, cmd : IF Applicable(cmd, payload, blocks)
                                   THEN Applied(cmd, payload, source, blocks)
                                   ELSE <<>>,
           NewPayload(ComputePesFrameLength(cmds, blocks)), cmds)
=============================================================================

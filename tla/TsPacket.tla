------------------------------ MODULE TsPacket ------------------------------
(***************************************************************************)
(* tsPackets.c: how the units of one stream, its PES packets or the copies *)
(* of its table, are cut in transport packets.  A header is prepared first *)
(* and may be dropped (the buffering model has no room), then the packet   *)
(* is written.  Only sizes are kept of the data.                           *)
(***************************************************************************)
EXTENDS Integers

CONSTANTS TpSize,        \* TP_SIZE: 188
          TpHeaderSize,  \* TP_HEADER_SIZE: 4
          PcrSize,       \* bytes of the PCR in an adaptation field: 6
          SizeRange,     \* values of a size_t (2^64)
          Sizes,         \* sizes of the units tried
          PcrOnEs        \* a PCR may be asked of an elementary stream

ASSUME SizeAssumption ==
  /\ TpSize \in Nat /\ TpHeaderSize \in Nat /\ PcrSize \in Nat
  /\ TpHeaderSize + 2 + PcrSize < TpSize
  /\ SizeRange \in Nat /\ TpSize < SizeRange
  /\ Sizes \subseteq 1..SizeRange - 1
  /\ PcrOnEs \in BOOLEAN

VARIABLES kind,           \* the stream: "es", "table", "pcr", "null"
          dataLength,     \* bytes of the unit
          dataOffset,     \* those already in packets
          packetNb,       \* modulo 16, which is all that is used of it
          supplied,       \* firstFullTableSupplied
          header,         \* the header prepared, or None
          demux           \* what a demuxer has: the last counter (-1: none yet),
                          \*   the bytes of the current unit

vars == <<kind, dataLength, dataOffset, packetNb, supplied, header, demux>>

None == [pid |-> "none"]
Remaining == dataLength - dataOffset
Room == TpSize - TpHeaderSize

\* preparePCRSystemStream() has no table, prepareNULLSystemStream() a full payload.
Init == /\ kind \in {"es", "table", "pcr", "null"}
        /\ dataLength \in CASE kind = "pcr"  -> {0}
                            [] kind = "null" -> {Room}
                            [] OTHER         -> Sizes
        /\ dataOffset = 0
        /\ packetNb = 0
        /\ supplied = FALSE
        /\ header = None
        /\ demux = [counter |-> -1, bytes |-> 0]

\* prepareAdaptationField(): flags and PCR, and the stuffing, a size_t.
RequiredAfSize(pcr) == IF pcr THEN 2 + PcrSize ELSE 0

WriteOnlyLength(pcr) == RequiredAfSize(pcr) = 0 /\ Remaining = Room - 1

\* The byte of the flags is not counted.
StuffingOneMore(pcr) ==
  IF RequiredAfSize(pcr) > 0
    THEN (Room - RequiredAfSize(pcr) - Remaining) % SizeRange
    ELSE IF Remaining \in {Room, Room - 1} THEN 0
                                           ELSE (Room - Remaining - 1) % SizeRange

Stuffing(pcr) ==
  IF RequiredAfSize(pcr) > 0
    THEN (Room - RequiredAfSize(pcr) - Remaining) % SizeRange
    ELSE IF Remaining \in {Room, Room - 1} THEN 0
                                           ELSE (Room - Remaining - 2) % SizeRange

\* prepareES..., prepareSysTransportPacketMainHeader() and prepareTPHeader()
UsesCounter == kind \notin {"pcr", "null"}

Header(pcrRequired) ==
  LET pcr == kind = "pcr" \/ pcrRequired IN
  [pid             |-> kind,
   payload         |-> 0 < Remaining,
   start           |-> 0 < Remaining /\ dataOffset = 0,
   adaptation      |-> Remaining < Room \/ pcrRequired,
   counter         |-> IF UsesCounter THEN packetNb ELSE 0,
   writeOnlyLength |-> WriteOnlyLength(pcr),
   pcrFlag         |-> pcr,
   stuffing        |-> Stuffing(pcr)]

\* computeSizeTPHeader(): what insertPacketHeader() writes.
AfSize(h) == IF h.writeOnlyLength THEN 1
             ELSE 2 + (IF h.pcrFlag THEN PcrSize ELSE 0) + h.stuffing
HeaderSize(h) == TpHeaderSize + IF h.adaptation THEN AfSize(h) ELSE 0
PayloadSize(h) == TpSize - HeaderSize(h)

\* A packet is counted when it is prepared.
PrepareCounted(pcrRequired) ==
  /\ header = None
  /\ pcrRequired => PcrOnEs /\ kind = "es"
  /\ header' = Header(pcrRequired)
  /\ packetNb' = (packetNb + 1) % 16
  /\ UNCHANGED <<kind, dataLength, dataOffset, supplied, demux>>

Prepare(pcrRequired) ==
  /\ header = None
  /\ pcrRequired => PcrOnEs /\ kind = "es"
  /\ header' = Header(pcrRequired)
  /\ UNCHANGED <<kind, dataLength, dataOffset, packetNb, supplied, demux>>

\* The buffering model has no room: the packet is prepared again later.
Drop == /\ header # None
        /\ kind \in {"es", "table"}
        /\ header' = None
        /\ UNCHANGED <<kind, dataLength, dataOffset, packetNb, supplied, demux>>

\* The offset is set to the payload in place of advanced by it.
AdvanceTo(payload) ==
  IF dataOffset + payload < dataLength
    THEN /\ dataOffset' = payload
         /\ UNCHANGED <<dataLength, supplied>>
    ELSE /\ dataOffset' = 0
         /\ IF kind = "es" THEN dataLength' \in Sizes /\ UNCHANGED supplied
                           ELSE supplied' = TRUE /\ UNCHANGED dataLength

\* insertPayload(), and what the muxer does at the end of a PES packet: it
\* builds the next one.  A table starts again.
AdvanceOver(payload) ==
  IF dataOffset + payload < dataLength
    THEN /\ dataOffset' = dataOffset + payload
         /\ UNCHANGED <<dataLength, supplied>>
    ELSE /\ dataOffset' = 0
         /\ IF kind = "es" THEN dataLength' \in Sizes /\ UNCHANGED supplied
                           ELSE supplied' = TRUE /\ UNCHANGED dataLength

\* writeTransportPacket(), up to a packet that its assertions refuse.
Legal(h) == /\ h.payload \/ h.adaptation
            /\ HeaderSize(h) <= TpSize
            /\ h.payload <=> 0 < PayloadSize(h)
            /\ PayloadSize(h) <= Remaining

Receive(h) == [counter |-> h.counter,
               bytes   |-> PayloadSize(h) + IF h.start THEN 0 ELSE demux.bytes]

\* A counter of more than four bits.
Incremented(nb) == nb + 1

NextPacketNb(nb) == (nb + 1) % 16

Write == /\ header # None
         /\ Legal(header)
         /\ AdvanceOver(PayloadSize(header))
         /\ packetNb' = NextPacketNb(packetNb)
         /\ demux' = Receive(header)
         /\ header' = None
         /\ UNCHANGED kind

Next == (\E pcrRequired \in BOOLEAN : Prepare(pcrRequired)) \/ Drop \/ Write

Spec == Init /\ [][Next]_vars
-----------------------------------------------------------------------------
TypeOK == /\ kind \in {"es", "table", "pcr", "null"}
          /\ dataLength \in Nat /\ dataOffset \in Nat
          /\ packetNb \in 0..15
          /\ supplied \in BOOLEAN
          /\ header # None => /\ header.counter \in 0..15
                              /\ header.stuffing \in 0..SizeRange - 1
          /\ demux.counter \in -1..15 /\ demux.bytes \in Nat

(* Whatever the size of a unit, each header leaves exactly the place of a   *)
(* payload: the assertions of writeTransportPacket() and insertPayload()    *)
(* hold, and the packet has TP_SIZE bytes.                                  *)
PacketsLegal == header # None => Legal(header)

(* A demuxer, which only sees unit starts and payloads, has after each      *)
(* packet the bytes of the unit that were sent, and all of them when the    *)
(* next unit begins: none lost or doubled where packets or units meet.      *)
Reassembled ==
  [][packetNb' # packetNb
       => demux'.bytes = IF dataOffset' = 0 THEN dataLength ELSE dataOffset']_vars

(* The counters a demuxer sees run without gap or repetition, in spite of   *)
(* headers prepared and dropped.                                            *)
CountersFollow ==
  [][packetNb' # packetNb /\ UsesCounter /\ demux.counter >= 0
       => demux'.counter = (demux.counter + 1) % 16]_vars
=============================================================================

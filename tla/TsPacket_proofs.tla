--------------------------- MODULE TsPacket_proofs ---------------------------
(* For every size of the units and of the packets: as long as no PCR is     *)
(* asked of an elementary stream, every header leaves exactly the place of  *)
(* a payload, and what a demuxer gets are the units, whole and in order.    *)
EXTENDS TsPacket, TLAPS

\* The state between two packets.
UnitOK ==
  /\ kind \in {"es", "table", "pcr", "null"}
  /\ dataLength \in Nat /\ dataOffset \in Nat
  /\ dataLength < SizeRange
  /\ kind = "pcr" => dataLength = 0 /\ dataOffset = 0
  /\ kind # "pcr" => dataOffset < dataLength
  /\ packetNb \in 0..15 /\ supplied \in BOOLEAN
  /\ demux.counter \in -1..15 /\ demux.bytes \in Nat
  /\ demux = [counter |-> demux.counter, bytes |-> demux.bytes]
  /\ dataOffset > 0 => demux.bytes = dataOffset
  /\ kind = "pcr" => demux.bytes = 0

\* A header that waits to be written is the one of the present state.
HeaderOK == header # None => header = Header(FALSE)

\* The counter of the last packet is the one before the next.
CounterOK == UsesCounter /\ demux.counter >= 0 => packetNb = (demux.counter + 1) % 16

IInv == UnitOK /\ HeaderOK /\ CounterOK

LEMMA ConstantsOK ==
  /\ Room \in Nat /\ Room > PcrSize + 2 /\ Room < SizeRange /\ Room < TpSize + 1
  /\ Room + TpHeaderSize = TpSize
  /\ PcrSize \in Nat /\ TpHeaderSize \in Nat /\ TpSize \in Nat /\ SizeRange \in Nat
BY SizeAssumption DEF Room

\* A size_t that does not wrap.
LEMMA SizeInRange ==
  ASSUME NEW x \in Int
  PROVE  /\ x % SizeRange \in 0..SizeRange - 1
         /\ x \in 0..SizeRange - 1 => x % SizeRange = x
<1>1. SizeRange \in Nat /\ SizeRange > 0 BY ConstantsOK
<1> QED BY <1>1

\* The size of a header, by what remains of the unit.
LEMMA SizeOfHeader ==
  ASSUME UnitOK
  PROVE  /\ HeaderSize(Header(FALSE)) \in Nat
         /\ PayloadSize(Header(FALSE)) = IF Remaining < Room THEN Remaining ELSE Room
         /\ Header(FALSE).payload <=> 0 < Remaining
         /\ Header(FALSE).adaptation <=> Remaining < Room
         /\ Header(FALSE).start <=> 0 < Remaining /\ dataOffset = 0
         /\ Header(FALSE).stuffing \in 0..SizeRange - 1
<1> DEFINE h == Header(FALSE)
           r == Remaining
<1>1. /\ h.payload <=> 0 < r
      /\ h.start <=> 0 < r /\ dataOffset = 0
      /\ h.adaptation <=> r < Room
      /\ h.writeOnlyLength <=> WriteOnlyLength(kind = "pcr")
      /\ h.pcrFlag <=> kind = "pcr"
  BY Zenon DEF Header
<1>2. r \in Nat /\ r < SizeRange
  BY ConstantsOK DEF UnitOK, Remaining
<1> DEFINE wrapped == (Room - r - 2) % SizeRange
<1>3. /\ wrapped \in 0..SizeRange - 1
      /\ r < Room - 1 => wrapped = Room - r - 2
  <2>1. Room - r - 2 \in Int BY <1>2, ConstantsOK
  <2>2. r < Room - 1 => Room - r - 2 \in 0..SizeRange - 1 BY <1>2, ConstantsOK
  <2> HIDE DEF r
  <2> QED BY <2>1, <2>2, SizeInRange
<1>4. CASE kind = "pcr"
  <2>1. r = 0 BY <1>4 DEF UnitOK, Remaining
  <2>2. h.stuffing = Stuffing(TRUE)
    BY <1>4, Zenon DEF Header
  <2>3. Stuffing(TRUE) = (Room - (2 + PcrSize) - 0) % SizeRange
    BY <2>1, ConstantsOK DEF Stuffing, RequiredAfSize
  <2>4. Room - (2 + PcrSize) - 0 \in 0..SizeRange - 1 BY ConstantsOK
  <2>5. (Room - (2 + PcrSize) - 0) % SizeRange = Room - (2 + PcrSize) - 0
    BY <2>4, SizeInRange
  <2>6. h.stuffing = Room - (2 + PcrSize) - 0
    BY <2>2, <2>3, <2>5, Zenon
  <2>7. ~WriteOnlyLength(kind = "pcr")
    BY <1>4, ConstantsOK DEF WriteOnlyLength, RequiredAfSize
  <2> HIDE DEF h, r
  <2>8. HeaderSize(h) = TpSize
    BY <1>1, <1>4, <2>1, <2>6, <2>7, ConstantsOK DEF HeaderSize, AfSize
  <2>9. PayloadSize(h) = 0 BY <2>8, ConstantsOK DEF PayloadSize
  <2>10. HeaderSize(h) \in Nat BY <2>8, ConstantsOK
  <2>11. h.stuffing \in 0..SizeRange - 1 BY <2>4, <2>6
  <2>12. PayloadSize(h) = IF r < Room THEN r ELSE Room
    BY <2>1, <2>9, ConstantsOK
  <2> QED BY <1>1, <2>10, <2>11, <2>12, Zenon DEF h, r
<1>5. CASE kind # "pcr"
  <2>1. r > 0 BY <1>5 DEF UnitOK, Remaining
  <2>2. h.stuffing = Stuffing(FALSE)
    BY <1>5, Zenon DEF Header
  <2>3. Stuffing(FALSE) = IF r \in {Room, Room - 1} THEN 0 ELSE wrapped
    BY DEF Stuffing, RequiredAfSize
  <2>4. h.stuffing = IF r \in {Room, Room - 1} THEN 0 ELSE wrapped
    BY <2>2, <2>3, Zenon
  <2>5. WriteOnlyLength(kind = "pcr") <=> r = Room - 1
    BY <1>5 DEF WriteOnlyLength, RequiredAfSize
  <2> HIDE DEF h, r, wrapped
  <2>6. h.stuffing \in 0..SizeRange - 1
    BY <1>3, <2>4, ConstantsOK
  <2>7. r < Room - 1 => h.stuffing = Room - r - 2
    BY <1>2, <1>3, <2>4, ConstantsOK
  <2>8. HeaderSize(h) = TpSize - (IF r < Room THEN r ELSE Room)
    <3>1. CASE r >= Room
      BY <1>1, <1>2, <3>1, ConstantsOK DEF HeaderSize
    <3>2. CASE r = Room - 1
      BY <1>1, <1>2, <2>5, <3>2, ConstantsOK DEF HeaderSize, AfSize
    <3>3. CASE r < Room - 1
      <4>1. AfSize(h) = Room - r
        BY <1>1, <1>2, <1>5, <2>5, <2>7, <3>3, ConstantsOK DEF AfSize
      <4> QED BY <1>1, <1>2, <3>3, <4>1, ConstantsOK DEF HeaderSize
    <3> QED BY <1>2, <3>1, <3>2, <3>3, ConstantsOK
  <2>9. PayloadSize(h) = IF r < Room THEN r ELSE Room
    BY <1>2, <2>8, ConstantsOK DEF PayloadSize
  <2>10. HeaderSize(h) \in Nat BY <1>2, <2>8, ConstantsOK
  <2> QED BY <1>1, <2>6, <2>9, <2>10 DEF h, r
<1> QED BY <1>4, <1>5

LEMMA HeaderLegal ==
  ASSUME UnitOK
  PROVE  Legal(Header(FALSE))
<1> DEFINE h == Header(FALSE)
           r == Remaining
<1>1. r \in Nat BY DEF UnitOK, Remaining
<1>2. /\ HeaderSize(h) \in Nat
      /\ PayloadSize(h) = IF r < Room THEN r ELSE Room
      /\ h.payload <=> 0 < r
      /\ h.adaptation <=> r < Room
  BY SizeOfHeader, Zenon
<1>3. PayloadSize(h) = TpSize - HeaderSize(h) BY Zenon DEF PayloadSize
<1> HIDE DEF h, r
<1>4. HeaderSize(h) <= TpSize BY <1>1, <1>2, <1>3, ConstantsOK
<1>5. PayloadSize(h) <= r BY <1>1, <1>2, ConstantsOK
<1>6. h.payload <=> 0 < PayloadSize(h) BY <1>1, <1>2, ConstantsOK
<1>7. h.payload \/ h.adaptation BY <1>1, <1>2, ConstantsOK
<1> QED BY <1>4, <1>5, <1>6, <1>7, Zenon DEF Legal, h, r

LEMMA InitCorrect == Init => IInv
<1> SUFFICES ASSUME Init PROVE IInv OBVIOUS
<1>1. UnitOK
  <2>1. /\ dataLength \in Nat /\ dataLength < SizeRange
        /\ IF kind = "pcr" THEN dataLength = 0 ELSE dataLength > 0
    <3>1. CASE kind = "pcr"
      <4>1. dataLength \in {0} BY <3>1, Zenon DEF Init
      <4> QED BY <3>1, <4>1, SizeAssumption
    <3>2. CASE kind = "null"
      <4>1. dataLength \in {Room} BY <3>2 DEF Init
      <4> QED BY <3>2, <4>1, ConstantsOK
    <3>3. CASE kind \notin {"pcr", "null"}
      <4>1. (CASE kind = "pcr" -> {0} [] kind = "null" -> {Room} [] OTHER -> Sizes)
              = Sizes
        BY <3>3, Zenon
      <4>2. dataLength \in Sizes BY <4>1, Zenon DEF Init
      <4> QED BY <3>3, <4>2, SizeAssumption
    <3> QED BY <3>1, <3>2, <3>3
  <2>2. /\ demux.counter = -1 /\ demux.bytes = 0
        /\ demux = [counter |-> demux.counter, bytes |-> demux.bytes]
    BY DEF Init
  <2>3. /\ kind \in {"es", "table", "pcr", "null"}
        /\ dataOffset = 0 /\ packetNb = 0 /\ supplied = FALSE
    BY DEF Init
  <2>4. demux.counter \in -1..15 /\ demux.bytes \in Nat BY <2>2
  <2>5. packetNb \in 0..15 /\ supplied \in BOOLEAN /\ dataOffset \in Nat
    <3>1. packetNb \in 0..15 BY <2>3
    <3>2. supplied \in BOOLEAN BY <2>3, Zenon
    <3>3. dataOffset \in Nat BY <2>3
    <3> QED BY <3>1, <3>2, <3>3
  <2>6. ~(dataOffset > 0) BY <2>3
  <2>7. kind = "pcr" => dataLength = 0 /\ dataOffset = 0 /\ demux.bytes = 0
    BY <2>1, <2>2, <2>3
  <2>8. kind # "pcr" => dataOffset < dataLength BY <2>1, <2>3
  <2> QED BY <2>1, <2>2, <2>3, <2>4, <2>5, <2>6, <2>7, <2>8, Zenon DEF UnitOK
<1>2. HeaderOK BY DEF Init, HeaderOK
<1>3. CounterOK BY DEF Init, CounterOK
<1> QED BY <1>1, <1>2, <1>3 DEF IInv

\* What a step that writes no packet leaves as it was.
LEMMA Unmoved ==
  ASSUME IInv, UNCHANGED <<kind, dataLength, dataOffset, packetNb, supplied, demux>>
  PROVE  UnitOK' /\ CounterOK' /\ Header(FALSE)' = Header(FALSE)
<1>1. UnitOK' BY DEF IInv, UnitOK
<1>2. CounterOK' BY DEF IInv, CounterOK, UsesCounter
<1>3. Header(FALSE)' = Header(FALSE)
  BY DEF Header, UsesCounter, WriteOnlyLength, Stuffing, RequiredAfSize, Remaining, Room
<1> QED BY <1>1, <1>2, <1>3

LEMMA PrepareCorrect ==
  ASSUME ~PcrOnEs, IInv, NEW pcrRequired \in BOOLEAN, Prepare(pcrRequired)
  PROVE  IInv'
<1>1. pcrRequired = FALSE /\ header' = Header(FALSE) BY DEF Prepare
<1>2. UnitOK' /\ CounterOK' /\ Header(FALSE)' = Header(FALSE)
  BY Unmoved DEF Prepare
<1>3. HeaderOK' BY <1>1, <1>2 DEF HeaderOK
<1> QED BY <1>2, <1>3 DEF IInv

LEMMA DropCorrect == IInv /\ Drop => IInv'
<1> SUFFICES ASSUME IInv, Drop PROVE IInv' OBVIOUS
<1>1. UnitOK' /\ CounterOK' BY Unmoved DEF Drop
<1>2. HeaderOK' BY DEF Drop, HeaderOK
<1> QED BY <1>1, <1>2 DEF IInv

\* Where a packet leaves the unit and the demuxer.
LEMMA WriteMoves ==
  ASSUME IInv, Write
  PROVE  /\ kind' = kind /\ header' = None
         /\ packetNb' = (packetNb + 1) % 16
         /\ demux' = [counter |-> demux'.counter, bytes |-> demux'.bytes]
         /\ UsesCounter => demux'.counter = packetNb
         /\ demux'.counter \in 0..15
         /\ demux'.bytes \in Nat
         /\ kind = "pcr" => demux'.bytes = 0
         /\ \/ /\ demux'.bytes = dataOffset' /\ dataOffset' \in Nat
               /\ dataOffset' < dataLength
               /\ dataOffset' > 0
               /\ dataLength' = dataLength /\ supplied' = supplied
            \/ /\ demux'.bytes = dataLength /\ dataOffset' = 0
               /\ supplied' \in BOOLEAN
               /\ IF kind = "es" THEN dataLength' \in Sizes
                                 ELSE dataLength' = dataLength
<1> DEFINE payload == PayloadSize(header)
<1>1. header = Header(FALSE) /\ UnitOK
  BY DEF IInv, HeaderOK, Write
<1>2. /\ Remaining \in Nat /\ Remaining = dataLength - dataOffset
      /\ payload = IF Remaining < Room THEN Remaining ELSE Room
      /\ header.start <=> 0 < Remaining /\ dataOffset = 0
  <2>1. Remaining \in Nat /\ Remaining = dataLength - dataOffset
    BY <1>1 DEF UnitOK, Remaining
  <2>2. /\ PayloadSize(Header(FALSE)) = IF Remaining < Room THEN Remaining ELSE Room
        /\ Header(FALSE).start <=> 0 < Remaining /\ dataOffset = 0
    BY <1>1, SizeOfHeader, Zenon
  <2> QED BY <1>1, <2>1, <2>2, Zenon
<1>3. header.counter = IF UsesCounter THEN packetNb ELSE 0
  BY <1>1 DEF Header
<1>4. demux' = [counter |-> header.counter,
                bytes   |-> payload + IF header.start THEN 0 ELSE demux.bytes]
  BY DEF Write, Receive
<1>5. /\ demux' = [counter |-> demux'.counter, bytes |-> demux'.bytes]
      /\ demux'.counter = header.counter
      /\ demux'.bytes = payload + IF header.start THEN 0 ELSE demux.bytes
  BY <1>4
<1>6. demux'.counter \in 0..15 /\ (UsesCounter => demux'.counter = packetNb)
  BY <1>1, <1>3, <1>5 DEF UnitOK
<1>7. kind' = kind /\ header' = None /\ packetNb' = (packetNb + 1) % 16
  BY DEF Write, NextPacketNb
<1> HIDE DEF payload
<1>8. demux'.bytes = dataOffset + payload
  <2>1. /\ dataOffset \in Nat /\ dataLength \in Nat /\ demux.bytes \in Nat
        /\ dataOffset > 0 => demux.bytes = dataOffset
        /\ kind = "pcr" => demux.bytes = 0 /\ dataOffset = 0
        /\ kind # "pcr" => dataOffset < dataLength
    BY <1>1 DEF UnitOK
  <2>2. payload \in Nat BY <1>2, ConstantsOK
  <2>3. /\ header.start => demux'.bytes = payload
        /\ ~header.start => demux'.bytes = payload + demux.bytes
    BY <1>5, <2>2
  <2>4. CASE header.start BY <1>2, <2>1, <2>2, <2>3, <2>4
  <2>5. CASE ~header.start
    <3>1. dataOffset = demux.bytes BY <1>2, <2>1, <2>5
    <3> QED BY <2>1, <2>2, <2>3, <2>5, <3>1
  <2> QED BY <2>4, <2>5
<1>9. /\ payload \in Nat /\ dataOffset + payload <= dataLength
      /\ kind # "pcr" => payload > 0
      /\ kind = "pcr" => payload = 0 /\ dataLength = 0 /\ dataOffset = 0
  BY <1>1, <1>2, ConstantsOK DEF UnitOK
<1>10. demux'.bytes \in Nat /\ (kind = "pcr" => demux'.bytes = 0)
  BY <1>1, <1>8, <1>9 DEF UnitOK
<1>11. AdvanceOver(payload) BY DEF Write, payload
<1>12. CASE dataOffset + payload < dataLength
  <2>1. dataOffset' = dataOffset + payload /\ UNCHANGED <<dataLength, supplied>>
    BY <1>11, <1>12 DEF AdvanceOver
  <2>2. kind # "pcr" BY <1>9, <1>12
  <2>3. dataOffset' > 0 BY <1>1, <1>9, <2>1, <2>2 DEF UnitOK
  <2> QED BY <1>1, <1>5, <1>6, <1>7, <1>8, <1>9, <1>10, <1>12, <2>1, <2>3 DEF UnitOK
<1>13. CASE ~(dataOffset + payload < dataLength)
  <2>1. /\ dataOffset' = 0
        /\ supplied' \in BOOLEAN
        /\ IF kind = "es" THEN dataLength' \in Sizes ELSE dataLength' = dataLength
    BY <1>1, <1>11, <1>13 DEF AdvanceOver, UnitOK
  <2>2. demux'.bytes = dataLength BY <1>1, <1>8, <1>9, <1>13 DEF UnitOK
  <2> QED BY <1>5, <1>6, <1>7, <1>10, <2>1, <2>2
<1> QED BY <1>12, <1>13

LEMMA WriteCorrect == IInv /\ Write => IInv'
<1> SUFFICES ASSUME IInv, Write PROVE IInv' OBVIOUS
<1>1. /\ kind' = kind /\ header' = None
      /\ packetNb' = (packetNb + 1) % 16
      /\ demux' = [counter |-> demux'.counter, bytes |-> demux'.bytes]
      /\ UsesCounter => demux'.counter = packetNb
      /\ demux'.counter \in 0..15
      /\ demux'.bytes \in Nat
      /\ kind = "pcr" => demux'.bytes = 0
  BY WriteMoves
<1>2. packetNb' \in 0..15 BY <1>1 DEF IInv, UnitOK
<1>3. UnitOK'
  <2>1. CASE /\ demux'.bytes = dataOffset' /\ dataOffset' \in Nat
             /\ dataOffset' < dataLength
             /\ dataOffset' > 0
             /\ dataLength' = dataLength /\ supplied' = supplied
    BY <1>1, <1>2, <2>1 DEF IInv, UnitOK
  <2>2. CASE /\ demux'.bytes = dataLength /\ dataOffset' = 0
             /\ supplied' \in BOOLEAN
             /\ IF kind = "es" THEN dataLength' \in Sizes
                               ELSE dataLength' = dataLength
    <3>1. CASE kind = "es"
      BY <1>1, <1>2, <2>2, <3>1, SizeAssumption DEF IInv, UnitOK
    <3>2. CASE kind # "es"
      BY <1>1, <1>2, <2>2, <3>2 DEF IInv, UnitOK
    <3> QED BY <3>1, <3>2
  <2> QED BY <2>1, <2>2, WriteMoves
<1>4. CounterOK' BY <1>1 DEF CounterOK, UsesCounter
<1>5. HeaderOK' BY <1>1 DEF HeaderOK
<1> QED BY <1>3, <1>4, <1>5 DEF IInv

LEMMA Invariance == ~PcrOnEs => (Spec => []IInv)
<1> SUFFICES ASSUME ~PcrOnEs PROVE Spec => []IInv OBVIOUS
<1>1. Init => IInv BY InitCorrect
<1>2. IInv /\ [Next]_vars => IInv'
  <2> SUFFICES ASSUME IInv, [Next]_vars PROVE IInv' OBVIOUS
  <2>1. CASE \E pcrRequired \in BOOLEAN : Prepare(pcrRequired)
    BY <2>1, PrepareCorrect
  <2>2. CASE Drop BY <2>2, DropCorrect
  <2>3. CASE Write BY <2>3, WriteCorrect
  <2>4. CASE UNCHANGED vars
    <3>1. UnitOK' /\ CounterOK' /\ Header(FALSE)' = Header(FALSE)
      BY <2>4, Unmoved DEF vars
    <3>2. HeaderOK' BY <2>4, <3>1 DEF vars, HeaderOK, IInv
    <3> QED BY <3>1, <3>2 DEF IInv
  <2> QED BY <2>1, <2>2, <2>3, <2>4 DEF Next
<1> QED BY <1>1, <1>2, PTL DEF Spec

(* A counter fits its four bits, the stuffing of a header its size_t: it    *)
(* never wraps below zero.                                                  *)
THEOREM TypeCorrect == ~PcrOnEs => (Spec => []TypeOK)
<1> SUFFICES ASSUME ~PcrOnEs PROVE Spec => []TypeOK OBVIOUS
<1>1. IInv => TypeOK
  <2> SUFFICES ASSUME IInv PROVE TypeOK OBVIOUS
  <2>1. header # None => /\ header.counter \in 0..15
                         /\ header.stuffing \in 0..SizeRange - 1
    <3>1. Header(FALSE).counter = IF UsesCounter THEN packetNb ELSE 0 BY DEF Header
    <3>2. Header(FALSE).counter \in 0..15
      <4>1. packetNb \in 0..15 BY DEF IInv, UnitOK
      <4>2. CASE UsesCounter BY <3>1, <4>1, <4>2
      <4>3. CASE ~UsesCounter
        <5>1. Header(FALSE).counter = 0 BY <3>1, <4>3, Zenon
        <5>2. 0 \in 0..15 OBVIOUS
        <5> QED BY <5>1, <5>2, Zenon
      <4> QED BY <4>2, <4>3
    <3>3. Header(FALSE).stuffing \in 0..SizeRange - 1 BY SizeOfHeader DEF IInv
    <3> QED BY <3>2, <3>3, Zenon DEF IInv, HeaderOK
  <2> QED BY <2>1 DEF IInv, UnitOK, TypeOK
<1> QED BY <1>1, Invariance, PTL

(* Whatever the size of a unit, each header leaves exactly the place of its *)
(* payload: the assertions of writeTransportPacket() and insertPayload()    *)
(* hold, as long as no elementary stream carries a PCR.                     *)
THEOREM HeadersLegal == ~PcrOnEs => (Spec => []PacketsLegal)
<1> SUFFICES ASSUME ~PcrOnEs PROVE Spec => []PacketsLegal OBVIOUS
<1>1. IInv => PacketsLegal
  BY HeaderLegal, Zenon DEF IInv, HeaderOK, PacketsLegal
<1> QED BY <1>1, Invariance, PTL

(* A demuxer gets each unit whole, its bytes in order, in as many packets   *)
(* as it takes.                                                             *)
THEOREM UnitsReassembled == ~PcrOnEs => (Spec => Reassembled)
<1> SUFFICES ASSUME ~PcrOnEs PROVE Spec => Reassembled OBVIOUS
<1> DEFINE A == packetNb' # packetNb
                  => demux'.bytes = IF dataOffset' = 0 THEN dataLength ELSE dataOffset'
<1>1. IInv /\ [Next]_vars => [A]_vars
  <2> SUFFICES ASSUME IInv, Next, packetNb' # packetNb
               PROVE  demux'.bytes = IF dataOffset' = 0 THEN dataLength ELSE dataOffset'
    OBVIOUS
  <2>1. Write BY DEF Next, Prepare, Drop
  <2> QED BY <2>1, WriteMoves
<1> QED BY <1>1, Invariance, PTL DEF Spec, Reassembled

(* The counters of a stream's packets run without gap or repetition, though *)
(* a header may be prepared any number of times.                            *)
THEOREM CountersRun == ~PcrOnEs => (Spec => CountersFollow)
<1> SUFFICES ASSUME ~PcrOnEs PROVE Spec => CountersFollow OBVIOUS
<1> DEFINE A == packetNb' # packetNb /\ UsesCounter /\ demux.counter >= 0
                  => demux'.counter = (demux.counter + 1) % 16
<1>1. IInv /\ [Next]_vars => [A]_vars
  <2> SUFFICES ASSUME IInv, Next, packetNb' # packetNb, UsesCounter, demux.counter >= 0
               PROVE  demux'.counter = (demux.counter + 1) % 16
    OBVIOUS
  <2>1. Write BY DEF Next, Prepare, Drop
  <2> QED BY <2>1, WriteMoves DEF IInv, CounterOK
<1> QED BY <1>1, Invariance, PTL DEF Spec, CountersFollow
=============================================================================

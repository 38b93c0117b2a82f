----------------------------- MODULE SystemTables -----------------------------
(***************************************************************************)
(* systemStream.c: the tables that tell a receiver what is muxed, as       *)
(* initSystemStreams() of muxingContext.c builds them once every stream    *)
(* has its PID: which PIDs carry the programs (PAT), which streams, of     *)
(* which format, make the program up (PMT), and its rate (SIT).  They are  *)
(* sequences of bytes, since lengths, checksum and padding are what may be *)
(* wrong in them; fields that are bits of a byte are added up.             *)
(***************************************************************************)
EXTENDS PidAllocation, SequencesExt

CONSTANTS Properties,  \* Properties[t]: the properties that a stream of type t may have
          PcrPids,     \* PIDs that may carry the PCR
          MaxStreams,  \* LIBBLU_MAX_NB_STREAMS: 32
          TpPayload,   \* TP_SIZE - TP_HEADER_SIZE: 184
          MuxingRate,  \* targetMuxingRate
          Dtcp,        \* dtcpSettings
          Crc32(_)     \* lb_compute_crc32(): four bytes, any function of the bytes

PAT_PID == 0
SIT_PID == 31
PMT_PID == 256
HDMV == 1212435798   \* 'HDMV', 'AC-3' and 'VC-1'
AC_3 == 1094921523
VC_1 == 1447243057

VARIABLES program,  \* what the tables are built for: [streams, pcrPid]
          tables    \* [status]: "none", "failed" or "built" with the tables

allVars == <<vars, program, tables>>
-----------------------------------------------------------------------------
(* Bytes and descriptors.                                                   *)

Byte(v) == v % 256
U16(v) == <<Byte(v \div 256), Byte(v)>>
U24(v) == <<Byte(v \div 65536)>> \o U16(v)
U32(v) == <<Byte(v \div 16777216)>> \o U24(v)
Flag(b) == IF b THEN 1 ELSE 0

\* A length of 12 bits after four flags, a PID of 13 bits after three.
Length12(flags, length) == <<16 * flags + ((length \div 256) % 16), Byte(length)>>
Pid13(pid) == <<224 + ((pid \div 256) % 32), Byte(pid)>>

Filled(n) == [k \in 1..n |-> 255]

RegistrationDescriptor(format, info) == [tag |-> 5, data |-> U32(format) \o info]

PartialTSDescriptor(rate) ==
  [tag |-> 99, data |-> U24(192 * 65536 + rate \div 400) \o Filled(5)]

\* The field of the level gets the flag stillPicture, always set here, and
\* AVC_still_present stays 0.
AVCVideoDescriptor(prop) ==
  [tag |-> 40, data |-> <<prop.profileIDC, prop.constraintFlags, Flag(prop.stillPicture), 63>>]

AC3AudioDescriptor(prop) ==
  [tag |-> 129,
   data |-> <<Byte(32 * prop.subSampleRate + (prop.bsid % 32)),
              128 * Flag(prop.bitrateMode) + 4 * (prop.bitrateCode % 32) + (prop.surroundCode % 4),
              Byte(32 * prop.bsmod) + 2 * (prop.numChannels % 16) + Flag(prop.fullSVC),
              255>>]

DTCPDescriptor ==
  [tag |-> 136,
   data |-> U16(Dtcp.caSystemId)
            \o <<128 + 64 * Flag(Dtcp.retentionMoveMode) + 8 * Dtcp.retentionState
                   + 4 * Flag(Dtcp.epn) + Dtcp.dtcpCci,
                 224 + 16 * Flag(Dtcp.dot) + 8 * Flag(Dtcp.ast)
                   + 4 * Flag(Dtcp.imageConstraintToken) + Dtcp.aps>>]

\* Coding types: DTS, DTS-HDHR, DTS-HDMA, DTS-Express, IG and PG; VC-1; AC-3,
\* TrueHD and both E-AC-3; MPEG-2, AVC and HEVC; LPCM.
Undescribed == {130, 133, 134, 162, 144, 145}
Vc1 == {234}
Dolby == {129, 131, 132, 161}
HdmvVideo == {2, 27, 36}
Lpcm == {128}
Describable == Undescribed \cup Vc1 \cup Dolby \cup HdmvVideo \cup Lpcm

\* prepareElementDescriptorsPMTParam()
ElementDescriptors(prop) ==
  CASE prop.coding \in Undescribed -> <<>>
    [] prop.coding \in Vc1 ->
         <<RegistrationDescriptor(VC_1, <<1, Byte(16 * prop.profileIDC) + (prop.levelIDC % 16)>>)>>
    [] prop.coding \in Dolby ->
         <<RegistrationDescriptor(AC_3, <<>>), AC3AudioDescriptor(prop)>>
    [] prop.coding \in HdmvVideo ->
         <<RegistrationDescriptor(HDMV, <<255, prop.coding,
                                          Byte(16 * prop.format) + (prop.rate % 16), 63>>)>>
         \o IF prop.coding = 27 /\ prop.stillPicture THEN <<AVCVideoDescriptor(prop)>> ELSE <<>>
    [] prop.coding \in Lpcm ->
         <<RegistrationDescriptor(HDMV, <<255, prop.coding,
                                          Byte(16 * prop.format) + (prop.rate % 16),
                                          Byte(64 * prop.bitDepth) + 63>>)>>

WrittenDescriptor(desc) == <<desc.tag, Len(desc.data)>> \o desc.data
Written(descs) == FlattenSeq([i \in 1..Len(descs) |-> WrittenDescriptor(descs[i])])

\* The tag and the length of a descriptor are not counted.
LoopLengthOfData(descs) == SumFunction([i \in 1..Len(descs) |-> Len(descs[i].data)])

\* programInfoLength..., esInfoLength..., transmissionInfoLoopLength... and
\* serviceLoopLength..., from which section lengths are computed.
LoopLength(descs) == SumFunction([i \in 1..Len(descs) |-> 2 + Len(descs[i].data)])
-----------------------------------------------------------------------------
(* Tables.                                                                  *)

\* The checksum goes from table_id to what precedes it, by the length that was
\* computed; then the packets are filled.
Section(bytes, sectionLength) ==
  LET tableSize == ((sectionLength + 4 + TpPayload - 1) \div TpPayload) * TpPayload
      closed == bytes \o Crc32(SubSeq(bytes, 2, sectionLength))
  IN  closed \o Filled(tableSize - Len(closed))

\* preparePATParam(), preparePATSystemStream(): programs are numbered from 0,
\* which is that of the network.
PatSectionLength(pids) == 9 + 4 * Len(pids)
Pat(pids) ==
  Section(<<0, 0>> \o Length12(11, PatSectionLength(pids)) \o U16(0) \o <<193, 0, 0>>
            \o FlattenSeq([i \in 1..Len(pids) |-> U16(i - 1) \o Pid13(pids[i])]),
          PatSectionLength(pids))

\* preparePMTParam(), preparePMTSystemStream()
ProgramDescriptors == <<RegistrationDescriptor(HDMV, <<>>), DTCPDescriptor>>
PmtSectionLength(streams) ==
  13 + LoopLength(ProgramDescriptors)
     + SumFunction([i \in 1..Len(streams) |-> 5 + LoopLength(ElementDescriptors(streams[i].prop))])
Element(stream) ==
  LET descs == ElementDescriptors(stream.prop)
  IN  <<stream.prop.coding>> \o Pid13(stream.pid) \o Length12(15, LoopLength(descs))
        \o Written(descs)
Pmt(number, pcrPid, streams) ==
  Section(<<0, 2>> \o Length12(11, PmtSectionLength(streams)) \o U16(number) \o <<193, 0, 0>>
            \o Pid13(pcrPid) \o Length12(15, LoopLength(ProgramDescriptors))
            \o Written(ProgramDescriptors)
            \o FlattenSeq([i \in 1..Len(streams) |-> Element(streams[i])]),
          PmtSectionLength(streams))
PmtFails(streams) ==
  \/ Len(streams) > MaxStreams
  \/ \E i \in DOMAIN streams : streams[i].prop.coding \notin Describable
  \/ PmtSectionLength(streams) > 1021

\* prepareSITParam(), prepareSITSystemStream(): one service, without descriptors.
SitDescriptors == <<PartialTSDescriptor(MuxingRate)>>
SitSectionLength == 11 + LoopLength(SitDescriptors) + 4 + LoopLength(<<>>)
Sit(number) ==
  Section(<<0, 127>> \o Length12(15, SitSectionLength) \o <<255, 255, 193, 0, 0>>
            \o Length12(15, LoopLength(SitDescriptors)) \o Written(SitDescriptors)
            \o U16(number) \o Length12(8, LoopLength(<<>>)),
          SitSectionLength)

\* preparePCRSystemStream() has no table, prepareNULLSystemStream() a full packet.
Tables(streams, pcrPid) ==
  [status |-> "built", pat |-> Pat(<<SIT_PID, PMT_PID>>), pmt |-> Pmt(1, pcrPid, streams),
   pcr |-> <<>>, sit |-> Sit(1), null |-> Filled(TpPayload)]
-----------------------------------------------------------------------------
TablesInit == /\ Init
              /\ program = [streams |-> <<>>, pcrPid |-> 0]
              /\ tables = [status |-> "none"]

AllocatePids == Next /\ UNCHANGED <<program, tables>>

\* initSystemStreams(), from the properties of the streams in their order.
InitSystemStreams ==
  /\ pc = "done" /\ tables.status = "none"
  /\ \E props \in [DOMAIN assigned -> UNION {Properties[t] : t \in Types}], pcrPid \in PcrPids :
       LET streams == [i \in DOMAIN assigned |-> [pid |-> assigned[i].pid, prop |-> props[i]]]
       IN  /\ \A i \in DOMAIN assigned : props[i] \in Properties[assigned[i].type]
           /\ program' = [streams |-> streams, pcrPid |-> pcrPid]
           /\ tables' = IF PmtFails(streams) THEN [status |-> "failed"]
                                             ELSE Tables(streams, pcrPid)
  /\ UNCHANGED vars

TablesNext == AllocatePids \/ InitSystemStreams

TablesSpec == TablesInit /\ [][TablesNext]_allVars /\ WF_vars(Next)
-----------------------------------------------------------------------------
(* What a receiver reads: it knows nothing but the syntax of the sections.  *)

SectionLengthIn(table) == 256 * (table[3] % 16) + table[4]
NumberAt(bytes, k) == 256 * bytes[k] + bytes[k + 1]
PidAt(bytes, k) == NumberAt(bytes, k) % 8192
LengthAt(bytes, k) == NumberAt(bytes, k) % 4096

\* One section from the first byte, with its checksum, in full packets.
Intact(table, id) ==
  LET length == SectionLengthIn(table) IN
  /\ Len(table) % TpPayload = 0 /\ length + 4 <= Len(table)
  /\ table[1] = 0 /\ table[2] = id
  /\ SubSeq(table, length + 1, length + 4) = Crc32(SubSeq(table, 2, length))
  /\ \A k \in length + 5..Len(table) : table[k] = 255

\* Between the header and the checksum.
Content(table) == SubSeq(table, 10, SectionLengthIn(table))

RECURSIVE DescriptorsIn(_), StreamsIn(_)
DescriptorsIn(bytes) ==
  IF bytes = <<>> THEN <<>>
  ELSE IF Len(bytes) < 2 \/ Len(bytes) < 2 + bytes[2] THEN <<[tag |-> -1, data |-> bytes]>>
  ELSE <<[tag |-> bytes[1], data |-> SubSeq(bytes, 3, 2 + bytes[2])]>>
         \o DescriptorsIn(SubSeq(bytes, 3 + bytes[2], Len(bytes)))
StreamsIn(bytes) ==
  IF bytes = <<>> THEN <<>>
  ELSE IF Len(bytes) < 5 \/ Len(bytes) < 5 + LengthAt(bytes, 4)
    THEN <<[coding |-> -1, pid |-> -1, descs |-> <<>>]>>
  ELSE LET length == LengthAt(bytes, 4)
       IN  <<[coding |-> bytes[1], pid |-> PidAt(bytes, 2),
              descs  |-> DescriptorsIn(SubSeq(bytes, 6, 5 + length))]>>
             \o StreamsIn(SubSeq(bytes, 6 + length, Len(bytes)))

FormatOf(coding) == CASE coding \in Vc1 -> VC_1 [] coding \in Dolby -> AC_3 [] OTHER -> HDMV

\* The first descriptor of a stream registers its format, and tells again what
\* the stream is when the format is that of HDMV.
Registered(stream) ==
  stream.coding \notin Undescribed =>
    /\ stream.descs # <<>> /\ stream.descs[1].tag = 5
    /\ SubSeq(stream.descs[1].data, 1, 4) = U32(FormatOf(stream.coding))
    /\ FormatOf(stream.coding) = HDMV => stream.descs[1].data[6] = stream.coding
    /\ \A d \in DOMAIN stream.descs : stream.descs[d].tag # -1

(* A receiver that follows the PAT to the PMT, by PIDs and lengths only,     *)
(* finds each stream that was given a PID, once, under that PID, of its      *)
(* format, and the PID of the clock: the lengths, computed by functions of   *)
(* their own before anything is written, agree with what is written, the     *)
(* checksum covers the section and the padding fills whole packets.          *)
ProgramReadable ==
  tables.status = "built" =>
    LET pmt == Content(tables.pmt)
        info == LengthAt(pmt, 3)
        read == StreamsIn(SubSeq(pmt, 5 + info, Len(pmt)))
        sit == Content(tables.sit)
    IN  /\ Intact(tables.pat, 0) /\ Intact(tables.pmt, 2) /\ Intact(tables.sit, 127)
        /\ Content(tables.pat) = U16(0) \o Pid13(SIT_PID) \o SubSeq(tables.pmt, 5, 6) \o Pid13(PMT_PID)
        /\ PidAt(pmt, 1) = program.pcrPid
        /\ Len(read) = Len(assigned)
        /\ \A i \in DOMAIN read : /\ read[i].pid = assigned[i].pid
                                  /\ read[i].coding = program.streams[i].prop.coding
                                  /\ Registered(read[i])
        /\ \A d \in Range(DescriptorsIn(SubSeq(pmt, 5, 4 + info))) : d.tag # -1
        /\ NumberAt(sit, 3 + LengthAt(sit, 1)) = NumberAt(tables.pmt, 5)
=============================================================================

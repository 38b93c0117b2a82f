----------------------------- MODULE EsmsFormat -----------------------------
(***************************************************************************)
(* The file format of ESMS scripts: what esms/scriptCreation.c writes and  *)
(* what esms/scriptParsing.c and esms/scriptData.c read back.  A file is a *)
(* sequence of bytes, numbers are big endian over the number of bytes that *)
(* the code gives them, and a directory holds the position of a section.   *)
(*                                                                         *)
(* A byte has ByteRange values in place of 256 so that the limits between  *)
(* the short and the long forms of a field are within reach.  Section      *)
(* headers, names of files and checksums are numbers; fields of less than  *)
(* a byte are bytes of their own, reduced to the values of their bits.     *)
(***************************************************************************)
EXTENDS EsmsCommands, FiniteSets

CONSTANTS ByteRange,  \* values of a byte, 256 in the code
          MaxDir,     \* ESMS_MAX_ALLOWED_DIR
          MaxPackets  \* how many packets of a script are read, a bound of the model
ASSUME FormatAssumption == /\ ByteRange \in Nat /\ ByteRange >= 32 /\ MaxDir \in 4..(ByteRange - 1)
                           /\ MaxPackets \in Nat

\* Stream coding types, and the types of stream they belong to.
H262 == 2
AVC == 3
LPCM == 4
AC3 == 5
PG == 6
IG == 7
ES_VIDEO == 1
ES_AUDIO == 2
ES_HDMV == 3
DetermineType(coding) == CASE coding \in {H262, AVC} -> ES_VIDEO
                           [] coding \in {LPCM, AC3} -> ES_AUDIO
                           [] OTHER -> ES_HDMV

\* Directories, and the headers that their sections start with.
DirProp == 1
DirPesCutting == 2
DirFmtProp == 3
DirDataBlk == 4
FileMagic == 11
PropMagic == 12
PesMagic == 13
BlkMagic == 14
FmtMagic == 15
Version == 5
EndMarker == 31

-----------------------------------------------------------------------------
\* The powers of a number, up to those that 32 bits hold.
PowersOf(base) == LET power[k \in 0..5] == IF k = 0 THEN 1 ELSE base * power[k - 1] IN power
Weight == PowersOf(ByteRange)
BitsRange == PowersOf(2)

\* writeUint16(), writeUint32(), writeUint64(): the low bytes of a value.
UnmaskedU(w, v) == [i \in 1..w |-> IF w - i > 5 THEN 0 ELSE v \div Weight[w - i]]
U(w, v) == [i \in 1..w |-> IF w - i > 5 THEN 0 ELSE (v \div Weight[w - i]) % ByteRange]
Bits(n, v) == <<v % BitsRange[n]>>
Flag(b) == IF b THEN 1 ELSE 0

\* READ_VALUE(): w bytes after position p, whatever they are past the end.
Read(f, p, w) == [i \in 1..w |-> IF p + i <= Len(f) THEN f[p + i] ELSE 0]
Total(low) == low[0] + low[1] + low[2] + low[3] + low[4] + low[5]
Num(f, p, w) ==
  Total([i \in 0..5 |-> IF i < w /\ p + w - i <= Len(f) THEN f[p + w - i] * Weight[i] ELSE 0])
IsLongAbove(v, w) == v > Weight[w]
IsLong(v, w) == v >= Weight[w]

-----------------------------------------------------------------------------
(* The header: it is written first, not completed, and updated at the end. *)

HeaderLength == 4 + 9 * MaxDir
WriteEsmsHeaderCompleted == <<FileMagic, Version, 1, 0>> \o [i \in 1..(9 * MaxDir) |-> 0]
WriteEsmsHeader == <<FileMagic, Version, 0, 0>> \o [i \in 1..(9 * MaxDir) |-> 0]
UpdateEsmsHeader(f, dirs) ==
  SubSeq(f, 1, 2) \o <<1, Len(dirs)>>
    \o FlattenSeq([i \in DOMAIN dirs |-> <<dirs[i].id>> \o U(8, dirs[i].offset)])
    \o SubSeq(f, 5 + 9 * Len(dirs), Len(f))

\* appendDirEsms()
AppendDir(dirs, id, f) == Append(dirs, [id |-> id, offset |-> Len(f)])

\* getDirectoryOffset(): 0, the place of the header, when there is none.
GetDirectoryOffset(f, id) ==
  LET found == {i \in 0..(Num(f, 3, 1) - 1) : Num(f, 4 + 9 * i, 1) = id}
  IN  IF found = {} THEN 0
      ELSE Num(f, 5 + 9 * (CHOOSE i \in found : \A j \in found : i <= j), 8)
IsPresentDirectory(f, id) == GetDirectoryOffset(f, id) # 0
HasSection(f, id, magic) == LET off == GetDirectoryOffset(f, id)
                            IN  off # 0 /\ Num(f, off, 1) = magic

-----------------------------------------------------------------------------
(* PES packets *)

\* Source bytes are taken from one of the source files of the script.
FromFile(file, c) == [type |-> c.type, file |-> file, offset |-> c.offset, src |-> c.src, size |-> c.size]

\* writeEsmsPesPacketExtensionData(): only H.264 has such data.
ExtensionData(coding, ext) ==
  IF coding # AVC THEN U(2, 0)
  ELSE LET large == IsLong(ext.cpb, 4) \/ IsLong(ext.dpb, 4)
           w == IF large THEN 8 ELSE 4
       IN  U(2, 1 + 2 * w) \o Bits(1, Flag(large)) \o U(w, ext.cpb) \o U(w, ext.dpb)

\* The mode of insertion is always the erasing one, written 0.
WriteCommand(c) ==
  CASE c.type = "addData" ->
         <<1>> \o U(2, 5 + Len(c.data)) \o U(4, c.offset) \o <<0>> \o c.data
    [] c.type = "changeByteOrder" ->
         <<2>> \o U(2, 9) \o U(1, c.unit) \o U(4, c.offset) \o U(4, c.length)
    [] c.type = "addPesPayload" ->
         LET longSrc == IsLong(c.src, 4)  longSize == IsLong(c.size, 2)
         IN  <<3>> \o U(2, 12 + 4 * Flag(longSrc) + 2 * Flag(longSize))
               \o Bits(2, 2 * Flag(longSrc) + Flag(longSize)) \o U(1, c.file) \o U(4, c.offset)
               \o U(4, c.src) \o (IF longSrc THEN U(4, c.src \div Weight[4]) ELSE <<>>)
               \o U(2, c.size) \o (IF longSize THEN U(2, c.size \div Weight[2]) ELSE <<>>)
    [] c.type = "addPadding" ->
         <<4>> \o U(2, 10) \o U(4, c.offset) \o <<0>> \o U(4, c.length) \o <<0>>
    [] c.type = "addDataBlock" ->
         <<5>> \o U(2, 6) \o U(4, c.offset) \o <<0>> \o U(1, c.block - 1)

\* writeEsmsPesPacket().  A packet is [picture, extension, dtsPresent, pts, dts, ext, cmds];
\* "ext" is NoExt when no extension data was set.
NoExt == [cpb |-> -1, dpb |-> -1]
WritePesPacket(coding, p, blocks) ==
  LET length == ComputePesFrameLength(p.cmds, blocks)
      W(long, w) == IF long THEN 2 * w ELSE w
      longPts == IsLong(p.pts, 4)  longDts == IsLong(p.dts, 4)  longLength == IsLong(length, 2)
      kind == CASE DetermineType(coding) = ES_VIDEO -> Bits(2, p.picture)
                [] DetermineType(coding) = ES_AUDIO -> Bits(1, Flag(p.extension))
                [] OTHER -> <<0>>
  IN  kind \o <<16 * Flag(longPts) + 8 * Flag(p.dtsPresent) + 4 * Flag(longDts)
                 + 2 * Flag(longLength) + Flag(p.ext # NoExt)>>
        \o U(W(longPts, 4), p.pts)
        \o (IF p.dtsPresent THEN U(W(longDts, 4), p.dts) ELSE <<>>)
        \o (IF p.ext # NoExt THEN ExtensionData(coding, p.ext) ELSE <<>>)
        \o U(W(longLength, 2), length)
        \o U(1, Len(p.cmds)) \o FlattenSeq([i \in DOMAIN p.cmds |-> WriteCommand(p.cmds[i])])

\* parseScriptCommandsEsmsPesPacketNode(): the data of a command has the size written before.
ParseCommand(f, p) ==
  LET d == p + 3  size == Num(f, p + 1, 2)  id == Num(f, p, 1)
  IN CASE id = 1 -> AddData(Num(f, d, 4), Read(f, d + 5, size - 5))
       [] id = 2 -> ChangeByteOrder(Num(f, d, 1), Num(f, d + 1, 4), Num(f, d + 5, 4))
       [] id = 3 ->
            LET longSrc == Num(f, d, 1) \div 2 = 1  longSize == Num(f, d, 1) % 2 = 1
                s == d + 10 + 4 * Flag(longSrc)
                high == IF longSrc THEN Num(f, d + 10, 4) * Weight[4] ELSE 0
                more == IF longSize THEN Num(f, s + 2, 2) * Weight[2] ELSE 0
            IN  FromFile(Num(f, d + 1, 1),
                         AddPesPayload(Num(f, d + 2, 4), Num(f, d + 6, 4) + high, Num(f, s, 2) + more))
       [] id = 4 -> AddPadding(Num(f, d, 4), Num(f, d + 5, 4))
       [] OTHER -> AddDataBlock(Num(f, d, 4), Num(f, d + 5, 1) + 1)
ParseCommands(f, p) ==
  LET n == Num(f, p, 1)
      start[i \in 1..(n + 1)] == IF i = 1 THEN p + 1
                                 ELSE LET q == start[i - 1] IN q + 3 + Num(f, q + 1, 2)
  IN  [cmds |-> [i \in 1..n |-> ParseCommand(f, start[i])], end |-> start[n + 1]]

\* parsePropertiesEsmsPesPacketNode(): the kind of picture is skipped, and without a DTS the
\* packet has that of its PTS.
ParsePesPacket(f, p, coding) ==
  LET flags == Num(f, p + 1, 1)
      dtsPresent == (flags \div 8) % 2 = 1
      hasExt == flags % 2 = 1
      ptsW == IF flags \div 16 = 1 THEN 8 ELSE 4
      dtsW == IF ~dtsPresent THEN 0 ELSE IF (flags \div 4) % 2 = 1 THEN 8 ELSE 4
      lengthW == IF (flags \div 2) % 2 = 1 THEN 4 ELSE 2
      e == p + 2 + ptsW + dtsW
      extW == IF Num(f, e + 2, 1) = 1 THEN 8 ELSE 4
      l == IF hasExt THEN e + 2 + Num(f, e, 2) ELSE e
      commands == ParseCommands(f, l + lengthW)
  IN  [packet |-> [extension |-> DetermineType(coding) = ES_AUDIO /\ Num(f, p, 1) = 1,
                   pts |-> Num(f, p + 2, ptsW),
                   dts |-> IF dtsPresent THEN Num(f, p + 2 + ptsW, dtsW) ELSE Num(f, p + 2, ptsW),
                   ext |-> IF hasExt /\ coding = AVC
                             THEN [cpb |-> Num(f, e + 3, extW), dpb |-> Num(f, e + 3 + extW, extW)]
                             ELSE NoExt,
                   length |-> Num(f, l, lengthW),
                   cmds |-> commands.cmds],
       end |-> commands.end]

-----------------------------------------------------------------------------
(* The other sections.  A script under construction is a record h with the *)
(* members of EsmsFileHeader: coding, flags, ptsRef, endPts, bitrate,      *)
(* sources, blocks, dirs and the properties of its format.                 *)

CRC32_USED_BYTES == 512
WriteEsPropertiesSection(h) ==
  <<PropMagic, DetermineType(h.coding), h.coding>>
    \o U(8, h.ptsRef) \o U(4, h.bitrate) \o U(8, h.endPts) \o U(8, h.flags) \o U(1, Len(h.sources))
    \o FlattenSeq([i \in DOMAIN h.sources |->
         U(2, 1) \o <<h.sources[i].name>> \o U(2, CRC32_USED_BYTES) \o U(4, h.sources[i].crc)])

\* The place of the bitstream mode, the sixth field of the AC-3 properties, holds the bitrate mode.
WriteAc3FmtSpecificInfos(a) ==
  Bits(3, a.subSampleRate) \o Bits(5, a.bsid) \o Bits(1, a.bitrateMode) \o Bits(5, a.bitrateCode)
    \o Bits(2, a.surroundCode) \o Bits(3, a.bitrateMode) \o Bits(4, a.numChannels) \o Bits(1, a.fullSVC)
WriteEsCodecSpecParametersSection(h) ==
  CASE DetermineType(h.coding) = ES_VIDEO ->
         <<FmtMagic>> \o Bits(4, h.fmt.videoFormat) \o Bits(4, h.fmt.frameRate) \o U(1, h.fmt.profileIDC)
           \o U(1, h.fmt.levelIDC) \o Bits(1, Flag(h.fmt.stillPicture))
           \o (IF h.coding = AVC THEN U(1, h.fmt.constraintFlags) \o U(4, h.fmt.cpbSize) \o U(4, h.fmt.cpbBitrate)
                                 ELSE <<>>)
    [] DetermineType(h.coding) = ES_AUDIO ->
         <<FmtMagic>> \o Bits(4, h.fmt.audioFormat) \o Bits(4, h.fmt.sampleRate) \o U(1, h.fmt.bitDepth) \o <<0>>
           \o (IF h.coding = AC3 THEN WriteAc3FmtSpecificInfos(h.fmt) ELSE <<>>)
    [] OTHER -> <<>>

WriteDataBlocksDefSection(blocks) ==
  <<BlkMagic>> \o U(1, Len(blocks)) \o FlattenSeq([i \in DOMAIN blocks |-> U(4, Len(blocks[i])) \o blocks[i]])

\* parseESPropertiesHeaderEsms(), parseESPropertiesSourceFilesEsms(); p is the place of the section.
ParseCoding(f, p) == Num(f, p + 2, 1)
ParseFlags(f, p) == Num(f, p + 23, 8)
ParseSources(f, p) ==
  [i \in 1..Num(f, p + 31, 1) |-> [name |-> Num(f, p + 25 + 9 * i, 1), crc |-> Num(f, p + 28 + 9 * i, 4)]]
ParseEsProperties(f, p) ==
  [coding |-> ParseCoding(f, p), ptsRef |-> Num(f, p + 3, 8), bitrate |-> Num(f, p + 11, 4),
   endPts |-> Num(f, p + 15, 8), flags |-> ParseFlags(f, p), sources |-> ParseSources(f, p)]

\* parseESFmtPropertiesEsms()
ParseEsFmtProperties(f, coding) ==
  LET p == GetDirectoryOffset(f, DirFmtProp) + 1
  IN CASE coding = AVC ->
            [videoFormat |-> Num(f, p, 1), frameRate |-> Num(f, p + 1, 1), profileIDC |-> Num(f, p + 2, 1),
             levelIDC |-> Num(f, p + 3, 1), stillPicture |-> Num(f, p + 4, 1) = 1,
             constraintFlags |-> Num(f, p + 5, 1), cpbSize |-> Num(f, p + 6, 4), cpbBitrate |-> Num(f, p + 10, 4)]
       [] coding = H262 ->
            [videoFormat |-> Num(f, p, 1), frameRate |-> Num(f, p + 1, 1), profileIDC |-> Num(f, p + 2, 1),
             levelIDC |-> Num(f, p + 3, 1), stillPicture |-> Num(f, p + 4, 1) = 1]
       [] coding = AC3 ->
            [audioFormat |-> Num(f, p, 1), sampleRate |-> Num(f, p + 1, 1), bitDepth |-> Num(f, p + 2, 1),
             subSampleRate |-> Num(f, p + 4, 1), bsid |-> Num(f, p + 5, 1), bitrateMode |-> Num(f, p + 6, 1),
             bitrateCode |-> Num(f, p + 7, 1), surroundCode |-> Num(f, p + 8, 1), bsmod |-> Num(f, p + 9, 1),
             numChannels |-> Num(f, p + 10, 1), fullSVC |-> Num(f, p + 11, 1)]
       [] coding = LPCM ->
            [audioFormat |-> Num(f, p, 1), sampleRate |-> Num(f, p + 1, 1), bitDepth |-> Num(f, p + 2, 1)]
       [] OTHER -> [none |-> TRUE]

\* parseESDataBlocksDefinitionEsms()
ParseEsDataBlocksDefinition(f) ==
  LET p == GetDirectoryOffset(f, DirDataBlk)
      n == Num(f, p + 1, 1)
      start[i \in 1..(n + 1)] == IF i = 1 THEN p + 2
                                 ELSE LET q == start[i - 1] IN q + 4 + Num(f, q, 4)
  IN  IF p = 0 THEN <<>> ELSE [i \in 1..n |-> Read(f, start[i] + 4, Num(f, start[i], 4))]

\* parseFrameNodeESPesCuttingEsms() until isEndReachedESPesCuttingEsms(), MaxPackets at most.
ParsePesPackets(f, coding) ==
  LET p == GetDirectoryOffset(f, DirPesCutting) + 1
      after[i \in 0..MaxPackets] ==
        IF i = 0 THEN [packets |-> <<>>, end |-> p]
        ELSE LET before == after[i - 1]
             IN  IF Num(f, before.end, 1) = EndMarker THEN before
                 ELSE LET next == ParsePesPacket(f, before.end, coding)
                      IN  [packets |-> Append(before.packets, next.packet), end |-> next.end]
  IN  after[MaxPackets].packets

\* parseScriptLibbluES() finds each section that the coding needs, or refuses the script.
Parsable(f) ==
  /\ HasSection(f, DirProp, PropMagic)
  /\ DetermineType(ParseCoding(f, GetDirectoryOffset(f, DirProp))) # ES_HDMV => HasSection(f, DirFmtProp, FmtMagic)
  /\ IsPresentDirectory(f, DirDataBlk) => HasSection(f, DirDataBlk, BlkMagic)
  /\ HasSection(f, DirPesCutting, PesMagic)
ParseScript(f) ==
  LET properties == ParseEsProperties(f, GetDirectoryOffset(f, DirProp))
  IN  [coding |-> properties.coding, ptsRef |-> properties.ptsRef, bitrate |-> properties.bitrate,
       endPts |-> properties.endPts, sources |-> properties.sources,
       fmt |-> ParseEsFmtProperties(f, properties.coding),
       blocks |-> ParseEsDataBlocksDefinition(f),
       packets |-> ParsePesPackets(f, properties.coding)]
=============================================================================

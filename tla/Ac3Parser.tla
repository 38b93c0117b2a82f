----------------------------- MODULE Ac3Parser -----------------------------
(***************************************************************************)
(* codec/ac3/ac3_parser.c: analyzeAc3() cuts a Dolby stream into PES       *)
(* packets.  A stream is an AC-3 core, alone or interleaved with E-AC-3    *)
(* dependent frames or with MLP access units (TrueHD).  A frame is a       *)
(* record of the fields its headers hold; what a header does not carry is  *)
(* read as 0, as in the zeroed structures of the code.                     *)
(***************************************************************************)
EXTENDS Integers, Sequences, FiniteSets, SequencesExt, SourceUnits

CONSTANTS Inputs,      \* the files to parse: sequences of frames
          Options,     \* settings: [extractCore, isMlpFile]
          MaxPackets   \* PES packets the disk has room for, when a parsing never ends

VARIABLES input, options,
          pos,         \* position of the reader
          ctx,         \* what the parser remembers
          script,      \* PES packets written: [pts, ext, parts]
          header,      \* properties written at the end of the script
          pc           \* "parse", "done", "failed" or "crashed"

vars == <<input, options, pos, ctx, script, header, pc>>

Given(c, v) == IF c THEN v ELSE 0
Bits(c, n) == IF c THEN n ELSE 0
AC3_WORD_SIZE == 2
\* Ticks of 27 MHz of 1536 samples at 48 kHz, and of an MLP access unit.
Ac3FrameTicks == (27000 * 1536) \div 48
TrueHdUnitTicks == 27000000 \div 1200
-----------------------------------------------------------------------------
(* Fields shared by both kinds of synchronization frames.                  *)

ThreeFrontChannels(acmod) == acmod % 2 = 1 /\ acmod > 2
IsSurround(acmod) == acmod >= 4
NbChannels(acmod, lfeon) == <<1, 1, 2, 3, 3, 4, 4, 5>>[acmod + 1] + lfeon
SampleRate(fscod) == <<48000, 44100, 32000, 0>>[fscod + 1]
Reserved == 3        \* cmixlev, surmixlev and roomtyp

\* frmsizecodToNominalBitrate(), in kb/s.
NominalBitrate(code) ==
  LET Rates == <<32, 40, 48, 56, 64, 80, 96, 112, 128, 160,
                 192, 224, 256, 320, 384, 448, 512, 576, 640>>
  IN  IF code \div 2 < Len(Rates) THEN Rates[code \div 2 + 1] ELSE 0

\* The additional information is skipped, but for two bytes that may tell an
\* object audio extension.
AddbsiBits(w) == 1 + Bits(w.addbsie = 1, 6 + 8 * (w.addbsil + 1))
-----------------------------------------------------------------------------
(* AC-3 frames: syncinfo() and bsi().                                      *)

FrameSize(w) == NominalBitrate(w.frmsizecod) * 2 * AC3_WORD_SIZE

ReadSyncInfo(w) == [fscod |-> w.fscod, frmsizecod |-> w.frmsizecod,
                    frameSize |-> FrameSize(w)]

LegalSyncInfo(w) == /\ SampleRate(w.fscod) = 48000
                    /\ NominalBitrate(w.frmsizecod) >= 96

SameSyncInfo(a, b) == a.fscod = b.fscod /\ a.frmsizecod = b.frmsizecod

\* The conditional fields of bsi().
ReadMixLevels(w) ==
  [cmixlev |-> Given(ThreeFrontChannels(w.acmod), w.cmixlev),
   surmixlev |-> Given(IsSurround(w.acmod), w.surmixlev),
   dsurmod |-> Given(w.acmod = 2, w.dsurmod)]
ReadProductionInfo(w) ==
  [roomtyp |-> Given(w.audprodie = 1, w.roomtyp),
   roomtyp2 |-> Given(w.acmod = 0 /\ w.audprodi2e = 1, w.roomtyp2)]
\* The alternate syntax (bsid 6) has no time code.
ReadTimecode(w) ==
  [given |-> w.bsid # 6 /\ (w.timecod1e = 1 \/ w.timecod2e = 1),
   timecod1 |-> Given(w.bsid # 6 /\ w.timecod1e = 1, w.timecod1)]

ReadBsi(w) ==
  [bsid |-> w.bsid, bsmod |-> w.bsmod, acmod |-> w.acmod, lfeon |-> w.lfeon,
   mix |-> ReadMixLevels(w), prod |-> ReadProductionInfo(w),
   timecode |-> ReadTimecode(w)]

LegalMixLevels(b) == b.mix.cmixlev # Reserved /\ b.mix.surmixlev # Reserved
LegalProductionInfo(b) == b.prod.roomtyp # Reserved
LegalDualMono(b) == b.prod.roomtyp2 # Reserved
LegalTimecode(b) ==
  b.timecode.given => /\ b.timecode.timecod1 \div 512 <= 23
                      /\ (b.timecode.timecod1 \div 8) % 64 <= 59
                      /\ (b.timecode.timecod1 \div 64) % 32 <= 29
LegalBsi(b) == /\ LegalMixLevels(b) /\ LegalProductionInfo(b)
               /\ LegalDualMono(b) /\ LegalTimecode(b)

SameBsiButMode(a, b) == a.bsid = b.bsid /\ a.acmod = b.acmod /\ a.lfeon = b.lfeon
SameBsi(a, b) == /\ a.bsid = b.bsid /\ a.bsmod = b.bsmod
                 /\ a.acmod = b.acmod /\ a.lfeon = b.lfeon
-----------------------------------------------------------------------------
(* E-AC-3 frames.  The header has no fixed length, and the rest of the     *)
(* frame is what the header leaves of the size it states.                  *)

EFrameSize(w) == (w.frmsiz + 1) * AC3_WORD_SIZE

\* nbChannelsEac3Chanmap(): the locations that are pairs count twice.
ChannelsOfMap(chanmap) ==
  LET Pairs == {2, 4, 5, 6, 9, 10}
      Weight(i) == IF (chanmap \div 2^i) % 2 = 0 THEN 0 ELSE IF i \in Pairs THEN 2 ELSE 1
  IN  FoldLeft(LAMBDA n, i : n + Weight(i), 0, [k \in 1..16 |-> k - 1])

ReadChanmap(w) ==
  [chanmape |-> Given(w.strmtyp = 1, w.chanmape),
   chanmap |-> Given(w.strmtyp = 1 /\ w.chanmape = 1, w.chanmap)]

ReadEBsi(w) ==
  [strmtyp |-> w.strmtyp, substreamid |-> w.substreamid, frmsiz |-> w.frmsiz,
   frameSize |-> EFrameSize(w), fscod |-> w.fscod,
   fscod2 |-> Given(w.fscod = 3, w.fscod2),
   numblkscod |-> IF w.fscod = 3 THEN 3 ELSE w.numblkscod,
   acmod |-> w.acmod, lfeon |-> w.lfeon, bsid |-> w.bsid,
   map |-> ReadChanmap(w), mixmdate |-> w.mixmdate]

\* Bits of the optional parts of bsi(), for a dependent substream.
MixdataBits(w) ==
  1 + Bits(w.mixmdate = 1, Bits(w.acmod > 2, 2) + Bits(ThreeFrontChannels(w.acmod), 6)
                           + Bits(IsSurround(w.acmod), 6)
                           + Bits(w.lfeon = 1, 1 + Bits(w.lfemixlevcode = 1, 5)))
InfomdatBits(w) ==
  1 + Bits(w.infomdate = 1, 4 + Bits(w.acmod = 2, 4) + Bits(w.acmod >= 6, 2)
                            + Bits(w.audprodie = 1, 8)
                            + Bits(w.acmod = 0, 1 + Bits(w.audprodi2e = 1, 8))
                            + Bits(w.fscod < 3, 1))
GainBits(w) == 5 + 1 + Bits(w.compre = 1, 8)
               + Bits(w.acmod = 0, 5 + 1 + Bits(w.compr2e = 1, 8))
ChanmapBits(w) == Bits(w.strmtyp = 1, 1 + Bits(w.chanmape = 1, 16))

\* Bytes of a frame up to the end of its header, padding included.
EHeaderSize(w) ==
  (16 + 29 + GainBits(w) + ChanmapBits(w) + MixdataBits(w) + InfomdatBits(w)
   + AddbsiBits(w) + 7) \div 8

\* A dependent substream at 48 kHz, whose custom map has the channels stated.
LegalEIdentity(e) == e.strmtyp = 1 /\ e.substreamid = 0
LegalERate(e) == e.fscod = 0
LegalEMap(e) ==
  e.map.chanmape = 1 => NbChannels(e.acmod, e.lfeon) = ChannelsOfMap(e.map.chanmap)
LegalEBsi(e) == LegalEIdentity(e) /\ LegalERate(e) /\ LegalEMap(e)

SameEBsi(a, b) == a = b
-----------------------------------------------------------------------------
(* MLP access units, in words of 16 bits.                                  *)

\* The extra channel meaning block, its length field included: what is read of
\* it before the padding to a word boundary.
SixteenChannelsBits == 18
ExtraUsed(m) == 4 + Bits(m.sixteen, SixteenChannelsBits)
ExtraWords(m) ==
  LET Padding == 16 * m.extra - ExtraUsed(m) - 4
      ReadBits == ExtraUsed(m) + (IF Padding > 0 THEN Padding ELSE 0)
  IN  IF m.extra = 0 THEN 0 ELSE (ReadBits + 15) \div 16
LegalExtra(m) == m.extra > 0 => /\ m.sixteen => m.dynObjectOnly
                                /\ ExtraUsed(m) <= 16 * m.extra

LegalMajorSync(m) == /\ m.format = "truehd" /\ m.signed /\ m.crcOk
                     /\ LegalExtra(m)
MajorSyncWords(w) == IF w.major = <<>> THEN 0 ELSE 14 + ExtraWords(w.major[1])

\* decodeMlpAccessUnit() reads each substream up to its end, and then what is
\* left of the access unit.  The position is one too far after each substream.
SubstreamWords(ends) ==
  FoldLeft(LAMBDA a, e : IF a.off < e THEN [off |-> e + 1, read |-> a.read + e - a.off]
                                      ELSE [off |-> a.off + 1, read |-> a.read],
           [off |-> 0, read |-> 0], ends).read
DirectoryWords(w) ==
  FoldLeft(LAMBDA n, x : n + 1 + Bits(x, 1), 0, w.extraWord)
UnitHeaderWords(w) == 2 + MajorSyncWords(w) + DirectoryWords(w)
ConsumedWords(w) ==
  LET ToSubstreams == UnitHeaderWords(w) + SubstreamWords(w.ends)
  IN  IF ToSubstreams < w.length THEN w.length ELSE ToSubstreams

\* Only the first access unit must carry a major sync.
LegalUnit(w, au) == /\ w.major # <<>> => LegalMajorSync(w.major[1])
                    /\ w.major = <<>> => au.checkMode
                    /\ w.nibbleOk
-----------------------------------------------------------------------------
NoFrame == [checkMode |-> FALSE, eac3Present |-> FALSE,
            sync |-> <<>>, bsi |-> <<>>, ebsi |-> <<>>]
NoUnit == [checkMode |-> FALSE, channelNb |-> 0, sampleRate |-> 0]

Init == /\ input \in Inputs /\ options \in Options
        /\ pos = 0
        /\ ctx = [frame |-> NoFrame, unit |-> NoUnit, detected |-> "default",
                  ac3pts |-> 0, eac3pts |-> 0, trueHdpts |-> 0]
        /\ script = <<>>
        /\ header = <<>>
        /\ pc = "parse"

Unit == UnitAt(input, pos)
Parsing(kind) == /\ pc = "parse" /\ ~AtEof(input, pos)
                 /\ AtUnit(input, pos) /\ Unit.kind = kind

\* A frame of the AC-3 syntax: the first one is checked and becomes the
\* reference of the following ones.
Ac3Accepted(w) ==
  /\ w.bsid <= 8
  /\ IF ctx.frame.checkMode
       THEN /\ SameSyncInfo(ReadSyncInfo(w), ctx.frame.sync)
            /\ SameBsi(ReadBsi(w), ctx.frame.bsi)
       ELSE LegalSyncInfo(w) /\ LegalBsi(ReadBsi(w))

Detected == IF ctx.detected \in {"default", "ac3"} THEN "ac3" ELSE ctx.detected

ParseAc3Frame ==
  /\ Parsing("ac3") /\ Ac3Accepted(Unit)
  /\ LET first == ~ctx.frame.checkMode
         sync == IF first THEN ReadSyncInfo(Unit) ELSE ctx.frame.sync
         bsi == IF first THEN ReadBsi(Unit) ELSE ctx.frame.bsi
     IN  /\ ctx' = [ctx EXCEPT !.frame.checkMode = TRUE,
                               !.frame.sync = sync, !.frame.bsi = bsi,
                               !.detected = IF first THEN Detected ELSE @,
                               !.ac3pts = @ + Ac3FrameTicks]
         /\ script' = Append(script, [pts |-> ctx.ac3pts, ext |-> FALSE,
                                      parts |-> <<Extent(pos, sync.frameSize)>>])
         /\ pos' = pos + sync.frameSize
  /\ UNCHANGED <<input, options, header, pc>>

\* An E-AC-3 frame: never the first frame of the stream.
EAc3Accepted(w) ==
  /\ w.bsid > 10 /\ w.bsid <= 16
  /\ IF ctx.frame.eac3Present
       THEN SameEBsi(ReadEBsi(w), ctx.frame.ebsi)
       ELSE ctx.frame.checkMode /\ LegalEBsi(ReadEBsi(w))
  /\ EHeaderSize(w) <= EFrameSize(w)

\* With "extract core" the extension is read and left out of the script.
ExtensionKeptAlways == TRUE
ExtensionKept == ~options.extractCore
ParseEAc3Frame ==
  /\ Parsing("eac3") /\ EAc3Accepted(Unit)
  /\ LET first == ~ctx.frame.eac3Present
         ebsi == IF first THEN ReadEBsi(Unit) ELSE ctx.frame.ebsi
         kept == ExtensionKept
     IN  /\ ctx' = [ctx EXCEPT !.frame.eac3Present = TRUE, !.frame.ebsi = ebsi,
                               !.detected = IF first /\ @ \in {"default", "ac3"}
                                              THEN IF kept THEN "eac3" ELSE "ac3"
                                              ELSE @,
                               !.eac3pts = IF kept THEN @ + Ac3FrameTicks ELSE @]
         /\ script' = IF kept
                        THEN Append(script, [pts |-> ctx.eac3pts, ext |-> TRUE,
                                             parts |-> <<Extent(pos, ebsi.frameSize)>>])
                        ELSE script
         /\ pos' = pos + ebsi.frameSize
  /\ UNCHANGED <<input, options, header, pc>>

\* An MLP access unit, only looked for in files named so.
MlpCompatible == \/ ctx.unit.checkMode \/ options.extractCore
                 \/ ctx.detected \in {"default", "ac3"}
MlpAccepted(w) == /\ options.isMlpFile /\ LegalUnit(w, ctx.unit) /\ MlpCompatible

ParseMlpUnit ==
  /\ Parsing("mlp") /\ MlpAccepted(Unit)
  /\ LET first == ~ctx.unit.checkMode
         kept == ExtensionKept
     IN  /\ ctx' = [ctx EXCEPT !.unit.checkMode = TRUE,
                               !.unit.sampleRate = IF first THEN Unit.major[1].sampleRate ELSE @,
                               !.detected = IF first /\ kept THEN "truehd" ELSE @,
                               !.trueHdpts = IF kept THEN @ + TrueHdUnitTicks ELSE @]
         /\ script' = IF kept
                        THEN Append(script,
                               [pts |-> ctx.trueHdpts, ext |-> TRUE,
                                parts |-> <<Extent(pos, AC3_WORD_SIZE * Unit.length)>>])
                        ELSE script
         /\ pos' = pos + AC3_WORD_SIZE * ConsumedWords(Unit)
  /\ UNCHANGED <<input, options, header, pc>>

\* A frame of neither syntax: the error is only logged, nothing is read, and it
\* is written as an AC-3 frame as long as the first one.  The next turn finds the
\* same frame again.
UnknownBsid(w) == w.kind \in {"ac3", "eac3"} /\ w.bsid \notin (0..8 \cup 11..16)
BeforeUnknownBsid == ~AtEof(input, pos) /\ AtUnit(input, pos) /\ UnknownBsid(Unit)
AtUnknownBsid == pc = "parse" /\ BeforeUnknownBsid

WriteAgain ==
  /\ AtUnknownBsid /\ ctx.frame.checkMode /\ Len(script) < MaxPackets
  /\ ctx' = [ctx EXCEPT !.ac3pts = @ + Ac3FrameTicks]
  /\ script' = Append(script, [pts |-> ctx.ac3pts, ext |-> FALSE,
                               parts |-> <<Extent(pos, ctx.frame.sync.frameSize)>>])
  /\ UNCHANGED <<input, options, pos, header, pc>>

\* As the first frame it has no length, which the command asserts.
Crash ==
  /\ AtUnknownBsid /\ ~ctx.frame.checkMode
  /\ pc' = "crashed"
  /\ UNCHANGED <<input, options, pos, ctx, script, header>>

Accepted(w) == CASE w.kind = "ac3" -> Ac3Accepted(w)
                 [] w.kind = "eac3" -> EAc3Accepted(w)
                 [] w.kind = "mlp" -> MlpAccepted(w)
                 [] OTHER -> FALSE

\* Anything else ends the parsing: a frame that is refused, cut by the end of
\* the file, or that does not start where the previous one ended; or a disk that
\* is full of the same frame.
Refuse ==
  /\ pc = "parse" /\ ~AtEof(input, pos)
  /\ AtUnit(input, pos) =>
       IF UnknownBsid(Unit) THEN ctx.frame.checkMode /\ Len(script) >= MaxPackets
                            ELSE ~Accepted(Unit)
  /\ pc' = "failed"
  /\ UNCHANGED <<input, options, pos, ctx, script, header>>

\* The properties of the stream are those of the first frames.
AudioFormat(acmod) == CASE acmod = 0 -> 2 [] acmod = 1 -> 1 [] acmod = 2 -> 3 [] OTHER -> 6
TrueHdFormat == CASE ctx.unit.channelNb = 1 -> 1
                  [] ctx.unit.channelNb = 2 -> 3
                  [] OTHER -> IF ctx.frame.bsi.acmod < 3 THEN 12 ELSE 6
TrueHdRate == CASE ctx.unit.sampleRate = 48000 -> 1 [] ctx.unit.sampleRate = 96000 -> 4
                [] OTHER -> 14
Bitrate(detected) == CASE detected = "ac3" -> 640000 [] detected = "truehd" -> 18640000
                       [] detected = "eac3" -> 4736000
SpecInfos == [subSampleRate |-> ctx.frame.sync.fscod, bsid |-> ctx.frame.bsi.bsid,
              bitrateCode |-> ctx.frame.sync.frmsizecod \div 2,
              surroundCode |-> ctx.frame.bsi.mix.dsurmod,
              bsmod |-> ctx.frame.bsi.bsmod, numChannels |-> ctx.frame.bsi.acmod]

\* The end of the file; a stream without an AC-3 core has no properties.
Finish ==
  /\ pc = "parse" /\ AtEof(input, pos)
  /\ IF ctx.frame.checkMode
       THEN /\ pc' = "done"
            /\ header' = [codingType |-> ctx.detected, endPts |-> ctx.ac3pts,
                          bitrate |-> Bitrate(ctx.detected), spec |-> SpecInfos,
                          sampleRate |-> IF ctx.detected = "truehd" THEN TrueHdRate ELSE 1,
                          audioFormat |-> IF ctx.detected = "truehd" THEN TrueHdFormat
                                            ELSE AudioFormat(ctx.frame.bsi.acmod)]
       ELSE /\ pc' = "failed"
            /\ UNCHANGED header
  /\ UNCHANGED <<input, options, pos, ctx, script>>

Next == ParseAc3Frame \/ ParseEAc3Frame \/ ParseMlpUnit \/ WriteAgain \/ Crash \/ Refuse \/ Finish
-----------------------------------------------------------------------------
Kept(w) == ~options.extractCore \/ w.kind = "ac3"
Has(kind) == \E k \in DOMAIN input : input[k].kind = kind

(* Each frame is in the script once, whole and in the order of the file,    *)
(* although the parser jumps by the sizes of the first frames, and reads    *)
(* the substreams of an MLP access unit one word off.  A parsing that does   *)
(* not come to the end has at no time written the same bytes twice, unless   *)
(* it stands at a frame of an unknown bsid, which is written without end.    *)
SourceOnce ==
  /\ pc = "done" => Copied(script) = KeptExtents(input, Kept)
  /\ ~BeforeUnknownBsid => Forward(Copied(script))

(* Core and extension each have a clock of their own that counts its        *)
(* frames, however the two are interleaved and whatever is left out.        *)
Timed ==
  pc = "done" =>
    LET kept == SelectSeq(input, Kept)
        Before(i) == Cardinality({j \in 1..i - 1 : kept[j].kind = kept[i].kind})
    IN  \A i \in DOMAIN script :
          script[i].pts = Before(i) * IF kept[i].kind = "mlp" THEN TrueHdUnitTicks
                                                             ELSE Ac3FrameTicks

(* The descriptor written from the first frames is true of all of them, and *)
(* names the richest stream that is left in the script.                     *)
HeaderFaithful ==
  pc = "done" =>
    /\ \A k \in DOMAIN input : input[k].kind = "ac3" =>
         /\ header.spec.subSampleRate = input[k].fscod /\ input[k].fscod = 0
         /\ header.spec.bitrateCode = input[k].frmsizecod \div 2
         /\ header.spec.bsmod = input[k].bsmod
         /\ header.spec.numChannels = input[k].acmod
    /\ header.codingType = IF options.extractCore THEN "ac3"
                            ELSE IF Has("mlp") THEN "truehd"
                            ELSE IF Has("eac3") THEN "eac3" ELSE "ac3"

(* What the assertion before the format of a TrueHD stream is chosen says.  *)
TrueHdChannelsKnown ==
  pc = "done" /\ header.codingType = "truehd" => ctx.unit.channelNb # 0
=============================================================================

------------------------------ MODULE DtsParser ------------------------------
(***************************************************************************)
(* codec/dts/dts_parser.c: analyzeDts() cuts a DTS stream in frames of the  *)
(* core and of the extension substream, each an access unit.  The file is   *)
(* the raw stream or the chunks of a DTS-HD file, whose stream data holds   *)
(* the frames.  A unit is a chunk, a frame or the padding after the stream. *)
(* A second pass, where the lossless frames are smoothed, only happens when *)
(* the program is built for it.                                             *)
(***************************************************************************)
EXTENDS Integers, Sequences, SequencesExt, SourceUnits, EsmsCommands,
        FiniteSets, TLC, DtsHeaders, DtsXll, DtsPatcher

CONSTANTS Inputs,      \* the files to parse: sequences of units
          Options      \* settings: [extractCore, secondaryStream, pbrFile, forceRebuild]:
                       \* the values of the PBR file, <<>> without it, and whether the
                       \* program is built with DTS_XLL_FORCE_REBUILD_SEIING

VARIABLES input, options, pos, ctx, script, header, pc

vars == <<input, options, pos, ctx, script, header, pc>>

-----------------------------------------------------------------------------
(* dts_dtshd_file.c: a chunk of a DTS-HD file has an identifier, a length and *)
(* fields that must be in it; the frames are in one of them, the stream data. *)

ChunkHeadSize == 16
MinLength(a, b) == IF a < b THEN a ELSE b

NoFile == [isFile |-> FALSE, present |-> {}, inStream |-> FALSE, endOffset |-> 0,
           variableBitRate |-> FALSE, nbSkippedFrames |-> 0]
OpenedFile == [NoFile EXCEPT !.isFile = TRUE]

\* A presentation chunk without samples divides by zero.
DividesByZero(c) == c.type = "presentation" /\ c.maxSamples = 0
NbSkippedFrames(c) == (c.codecDelay + (c.maxSamples \div 2)) \div c.maxSamples

\* The bytes and the values of each chunk; what is left of it is skipped.  The
\* texts of other chunks and the blackout are read up to the end of the chunk at
\* most, an index comes before the text of a presentation.
HeaderChunk(c) == /\ 14 <= c.ckLength
                  /\ c.version = 0 /\ c.refClockCode # 3 /\ c.frameRateCode <= 7
StreamDataChunk(c) == c.ckLength > 0
CoreChunk(c) == 11 <= c.ckLength
ExtensionChunk(hd, c) == /\ "header" \in hd.present
                         /\ (IF hd.variableBitRate THEN 8 ELSE 7) <= c.ckLength
PresentationChunk(c) == 21 + (IF c.extCore THEN 7 ELSE 0) + (IF c.lossless THEN 1 ELSE 0) <= c.ckLength
PresentationTextChunk(c) == 1 + MinLength(c.text, c.ckLength) <= c.ckLength
TimecodeChunk(c) == 5 <= c.ckLength /\ c.frameRateCode <= 7

\* decodeDtshdFileChunk(): the second pass does not look for duplicates.
LegalChunk(hd, c, secondPass) ==
  /\ c.type = "header" => HeaderChunk(c)
  /\ c.type = "stream" => StreamDataChunk(c)
  /\ c.type = "core" => CoreChunk(c)
  /\ c.type = "extension" => ExtensionChunk(hd, c)
  /\ c.type = "presentation" => PresentationChunk(c)
  /\ c.type = "text" => PresentationTextChunk(c)
  /\ c.type = "timecode" => TimecodeChunk(c)
  /\ c.type # "unknown" /\ ~secondPass => c.type \notin hd.present

AfterChunk(hd, c, start, secondPass) ==
  [hd EXCEPT !.present = IF c.type = "unknown" \/ secondPass THEN @ ELSE @ \cup {c.type},
             !.variableBitRate = IF c.type = "header" THEN c.variableBitRate ELSE @,
             !.nbSkippedFrames = IF c.type = "presentation" THEN NbSkippedFrames(c) ELSE @,
             !.inStream = IF c.type = "stream" THEN TRUE ELSE @,
             !.endOffset = IF c.type = "stream" THEN start + ChunkHeadSize + c.ckLength ELSE @]

\* getDtshdInitialDelay(): the frames to skip, set again after each chunk but the
\* start of the stream.
SkippedAfter(hd, skipped) == IF "presentation" \in hd.present THEN hd.nbSkippedFrames ELSE skipped

-----------------------------------------------------------------------------
UseOfPbrFile == options.pbrFile # <<>>

\* createDtsContext() looks for the PBR file before it is opened.
ModeOf(o) == IF o.forceRebuild THEN "first" ELSE "single"
SecondPass == ctx.mode = "second"

\* The flag that skips extension frames is not initialised.
NoContent == [parsed |-> FALSE, nbChannels |-> 0, audioFreq |-> 0, bitDepth |-> 0,
              xll |-> FALSE, lbr |-> FALSE, xbr |-> FALSE]
Init == /\ input \in Inputs /\ options \in Options
        /\ pos = 0
        /\ \E garbage \in BOOLEAN :
             ctx = [mode |-> ModeOf(options),
                    hd |-> IF input # <<>> /\ input[1].kind = "chunk" /\ input[1].type = "header"
                             THEN OpenedFile ELSE NoFile,
                    skipped |-> 0, skipCurrentPeriod |-> garbage, garbage |-> garbage,
                    core |-> <<>>, coreDts |-> 0, extPresent |-> FALSE, extDts |-> 0, extFrames |-> 0,
                    content |-> NoContent, xllUsed |-> FALSE, xll |-> NoXll, targets |-> <<>>]
        /\ script = <<>>
        /\ header = <<>>
        /\ pc = "parse"

Unit == IF AtUnit(input, pos) THEN UnitAt(input, pos) ELSE [kind |-> "none", size |-> 0]
Parsing == pc = "parse" /\ ~AtEof(input, pos)

-----------------------------------------------------------------------------
(* The chunks of a DTS-HD file.                                             *)

InChunks == Parsing /\ ctx.hd.isFile /\ ~ctx.hd.inStream
AtEndOfStream == Parsing /\ ctx.hd.isFile /\ ctx.hd.inStream /\ ctx.hd.endOffset <= pos
AtFrame == Parsing /\ (ctx.hd.isFile => ctx.hd.inStream /\ pos < ctx.hd.endOffset)

AcceptedChunk(c) ==
  /\ c.kind = "chunk" /\ LegalChunk(ctx.hd, c, SecondPass)
  /\ c.type \notin {"stream", "header"} => "header" \in ctx.hd.present
  /\ c.type = "stream" => ~AtEof(input, pos + ChunkHeadSize)

ReadChunk ==
  /\ InChunks /\ AcceptedChunk(Unit) /\ ~DividesByZero(Unit)
  /\ LET hd == AfterChunk(ctx.hd, Unit, pos, SecondPass)
     IN  ctx' = [ctx EXCEPT !.hd = hd,
                            !.skipped = IF Unit.type = "stream" THEN @ ELSE SkippedAfter(hd, @)]
  /\ pos' = pos + ChunkHeadSize + IF Unit.type = "stream" THEN 0 ELSE Unit.ckLength
  /\ UNCHANGED <<input, options, script, header, pc>>

\* The stream is followed by bytes up to a multiple of four in the file.
EndStream ==
  /\ AtEndOfStream /\ pos = ctx.hd.endOffset
  /\ pos' = Aligned(pos)
  /\ ctx' = [ctx EXCEPT !.hd.inStream = FALSE, !.skipped = SkippedAfter(ctx.hd, @)]
  /\ UNCHANGED <<input, options, script, header, pc>>

-----------------------------------------------------------------------------
(* decodeDcaCoreSS()                                                         *)

\* The first pass writes nothing and does not move the clocks.
WritesScript == ctx.mode # "first"

AcceptedCore(u) ==
  /\ u.kind = "core" /\ DecodedCoreHeader(u)
  /\ ctx.skipped = 0 =>
       IF ctx.core = <<>> THEN CheckCoreHeader(u)
       ELSE SecondPass \/ ConstantCore(ctx.core[1], u) \/ CheckCoreChange(ctx.core[1], u)
CoreAfter(u) == IF ctx.core # <<>> /\ (SecondPass \/ ConstantCore(ctx.core[1], u)) THEN ctx.core ELSE <<u>>

\* The frames of the delay of the encoder are dropped, with their extension.
SkipCore ==
  /\ AtFrame /\ AcceptedCore(Unit) /\ ctx.skipped > 0
  /\ ctx' = [ctx EXCEPT !.skipped = @ - 1, !.skipCurrentPeriod = TRUE]
  /\ pos' = pos + Unit.frameLength
  /\ UNCHANGED <<input, options, script, header, pc>>

Frame(ext, pts, parts, cmds) ==
  [pts |-> pts, dts |-> 0, dtsPresent |-> FALSE, ext |-> ext, parts |-> parts, cmds |-> cmds]
ReadCore ==
  /\ AtFrame /\ AcceptedCore(Unit) /\ ctx.skipped = 0
  /\ LET core == CoreAfter(Unit)
     IN  /\ ctx' = [ctx EXCEPT !.skipCurrentPeriod = FALSE, !.core = core,
                               !.coreDts = @ + IF WritesScript THEN CoreFrameDuration(core[1]) ELSE 0]
         /\ script' = IF ~WritesScript THEN script
                      ELSE Append(script, Frame(FALSE, ctx.coreDts, <<Extent(pos, Unit.frameLength)>>,
                                                <<AddPesPayload(0, pos, Unit.frameLength)>>))
  /\ pos' = pos + Unit.frameLength
  /\ UNCHANGED <<input, options, header, pc>>

-----------------------------------------------------------------------------
(* decodeDcaExtSS()                                                          *)

Ignored == options.extractCore \/ ctx.skipCurrentPeriod
AssetStart(u) == pos + u.headerLength

\* With a PBR file the lossless frames are parsed even if they are not smoothed.
DecodesAssets == ~Ignored /\ ~SecondPass /\ (UseOfPbrFile \/ options.forceRebuild)
ParsedAsXll(nav) == /\ "xll" \in Components(nav)
                    /\ Components(nav) \cap {"extCore", "xbr", "xxch", "x96", "lbr"} = {}
XllParsed(u) == DecodesAssets /\ ParsedAsXll(u.assets[1].nav)
XllResult(u) == IF XllParsed(u) THEN XllOutcome(ctx.xll, u.assets[1], AssetStart(u)) ELSE "decoded"

LengthOfFrame(u) == u.headerLength + AssetsLength(u)
AcceptedExt(u) ==
  /\ ~Ignored => CheckExtHeader(u, options.secondaryStream)
  /\ ~SecondPass => LengthOfFrame(u) = u.frameLength

ContentAfter(u) ==
  LET a == u.assets[1]
      c == ctx.content
      parsed == IF c.parsed THEN c
                ELSE [c EXCEPT !.parsed = TRUE, !.nbChannels = a.static.nbChannels,
                               !.audioFreq = a.static.sampleRate, !.bitDepth = a.static.bitDepth]
  IN  [parsed EXCEPT !.xll = @ \/ "xll" \in Components(a.nav),
                     !.lbr = @ \/ "lbr" \in Components(a.nav),
                     !.xbr = @ \/ "xbr" \in Components(a.nav)]

\* patchDcaExtSSHeader(): the size and the bytes of the lossless data of the frame.
TargetSize == ctx.targets[ctx.extFrames + 1]
NextSlice == Slice(ctx.xll.decoded, TargetSize, ctx.extFrames)
Patchable(u) ==
  /\ ctx.extFrames < Len(ctx.targets)
  /\ ctx.hd.isFile /\ "extension" \in ctx.hd.present
  /\ TotalLength(HeldBytes(ctx.xll.decoded)) >= TargetSize
  /\ Len(NextSlice.parts) <= DTS_XLL_MAX_SUPPORTED_OFILE_POS

\* The header of the frame as it is written again.
PatchedHeader(u) == Patched(u, TargetSize, NextSlice.sync)

\* The bytes of an asset are only replaced when they are not those of the source,
\* whatever their number.
SameAsset(parts, u) == Len(parts) = 1 /\ parts[1].off = AssetStart(u)
RebuiltParts(u) ==
  LET parts == NextSlice.parts
  IN  IF ctx.content.xll /\ ~SameAsset(parts, u) THEN parts
      ELSE <<Extent(AssetStart(u), AssetsLength(u))>>

\* The commands copy the parts one after the other; a rebuilt header is a record.
CopyCommands(parts, from) ==
  [k \in DOMAIN parts |-> AddPesPayload(from + TotalLength(SubSeq(parts, 1, k - 1)), parts[k].off, parts[k].len)]
RebuiltHeader(u) ==
  [frameLength |-> RebuiltHeaderSize(u, PatchedHeader(u)) + TargetSize, assetLength |-> TargetSize,
   sync |-> IF NextSlice.sync = <<>> THEN <<>>
            ELSE <<[NextSlice.sync[1] EXCEPT !.delay = WrittenDelay(@)]>>]

WholeFrame(u) == LET parts == <<Extent(pos, LengthOfFrame(u))>>
                 IN  Frame(TRUE, ctx.extDts, parts, CopyCommands(parts, 0))
RebuiltFrame(u) ==
  LET size == RebuiltHeaderSize(u, PatchedHeader(u))
  IN  Frame(TRUE, ctx.extDts, RebuiltParts(u),
            <<AddData(0, [i \in 1..size |-> RebuiltHeader(u)])>> \o CopyCommands(RebuiltParts(u), size))

DecodedExt(u) == u.kind = "ext" /\ "decoded" \in ExtHeaderOutcomes(u)

IgnoreExt ==
  /\ AtFrame /\ DecodedExt(Unit) /\ AcceptedExt(Unit) /\ Ignored
  /\ pos' = pos + LengthOfFrame(Unit)
  /\ UNCHANGED <<input, options, ctx, script, header, pc>>

ReadExt ==
  /\ AtFrame /\ DecodedExt(Unit) /\ AcceptedExt(Unit) /\ ~Ignored /\ ~SecondPass
  /\ XllResult(Unit) = "decoded"
  /\ ctx' = [ctx EXCEPT !.extPresent = TRUE, !.extFrames = @ + 1, !.content = ContentAfter(Unit),
                        !.extDts = @ + IF WritesScript THEN ExtFrameDuration(Unit) ELSE 0,
                        !.xllUsed = @ \/ XllParsed(Unit),
                        !.xll = IF XllParsed(Unit) THEN AfterXll(@, Unit.assets[1], AssetStart(Unit)) ELSE @]
  /\ script' = IF WritesScript THEN Append(script, WholeFrame(Unit)) ELSE script
  /\ pos' = pos + LengthOfFrame(Unit)
  /\ UNCHANGED <<input, options, header, pc>>

RebuildExt ==
  /\ AtFrame /\ DecodedExt(Unit) /\ AcceptedExt(Unit) /\ ~Ignored /\ SecondPass
  /\ Patchable(Unit) /\ Writable(Unit) /\ SizedAsWritten(Unit, PatchedHeader(Unit))
  /\ ctx' = [ctx EXCEPT !.extFrames = @ + 1, !.extDts = @ + ExtFrameDuration(Unit),
                        !.xll.decoded = NextSlice.left]
  /\ script' = Append(script, RebuiltFrame(Unit))
  /\ pos' = pos + LengthOfFrame(Unit)
  /\ UNCHANGED <<input, options, header, pc>>

-----------------------------------------------------------------------------
(* The ends of a pass.                                                      *)

Smoothing == LET x == ctx.xll
             IN  Smooth(x.sizes, MaxSizeOf(options.pbrFile), IF UseOfPbrFile THEN x.active ELSE 0)
NextPass ==
  /\ pc = "parse" /\ AtEof(input, pos) /\ ctx.mode = "first"
  /\ ctx.xllUsed /\ Smoothing.carried = 0
  /\ ctx' = [ctx EXCEPT !.mode = "second", !.targets = Smoothing.targets, !.extFrames = 0]
  /\ pos' = 0
  /\ UNCHANGED <<input, options, script, header, pc>>

CodingType == CASE ctx.extPresent /\ ctx.content.xll -> "hdma"
                [] ctx.extPresent /\ ~ctx.content.xll /\ ctx.content.xbr -> "hdhr"
                [] ctx.extPresent /\ ~ctx.content.xll /\ ~ctx.content.xbr /\ ctx.content.lbr -> "dtseSec"
                [] OTHER -> "dts"
Empty == ctx.core = <<>> /\ CodingType = "dts"
Bitrate == CASE CodingType \in {"hdma", "hdhr"} -> 24500000
             [] CodingType = "dtseSec" -> 256000 [] OTHER -> 2000000
CoreAudioFormat(h) == CASE h.arrangement = 0 -> 1 [] h.arrangement = 1 -> 2
                        [] h.arrangement \in 2..4 -> 3 [] OTHER -> 6
ExtAudioFormat(n) == IF n <= 1 THEN 1 ELSE IF n = 2 THEN 3 ELSE 6
SampleRateOf(freq) == CASE freq = 48000 -> 1 [] freq = 96000 -> 4 [] OTHER -> 5

\* updateDtsEsmsHeader(): the properties are those of the core when there is one.
Properties ==
  [codingType |-> CodingType, bitrate |-> Bitrate] @@
  IF ctx.core # <<>>
    THEN [endPts |-> ctx.coreDts, audioFormat |-> CoreAudioFormat(ctx.core[1]),
          sampleRate |-> SampleRateOf(CoreAudioFreq(ctx.core[1].freqCode)),
          bitDepth |-> BitDepthOfPcmRes(ctx.core[1].pcmRes)]
    ELSE [endPts |-> ctx.extDts, audioFormat |-> ExtAudioFormat(ctx.content.nbChannels),
          sampleRate |-> SampleRateOf(ctx.content.audioFreq), bitDepth |-> ctx.content.bitDepth]

AtTheEnd == pc = "parse" /\ AtEof(input, pos) /\ ctx.mode # "first"

\* Without an extension, the indexes of its frames that are freed are those that
\* the memory held: the program may stop there, before the script is complete.
Finish ==
  /\ AtTheEnd /\ ~Empty
  /\ \/ pc' = "done" /\ header' = Properties
     \/ pc' = "crashed" /\ ~ctx.extPresent /\ UNCHANGED header
  /\ UNCHANGED <<input, options, pos, ctx, script>>

Accepted == \/ AcceptedCore(Unit)
            \/ /\ DecodedExt(Unit) /\ AcceptedExt(Unit)
               /\ XllResult(Unit) = "decoded"
               /\ SecondPass /\ ~Ignored => Patchable(Unit) /\ Writable(Unit) /\ SizedAsWritten(Unit, PatchedHeader(Unit))
Refuse ==
  /\ \/ InChunks /\ ~AcceptedChunk(Unit)
     \/ AtEndOfStream /\ ctx.hd.endOffset < pos
     \/ AtFrame /\ ~Accepted
     \/ AtFrame /\ Unit.kind = "ext" /\ "error" \in ExtHeaderOutcomes(Unit)
     \/ pc = "parse" /\ AtEof(input, pos) /\ ctx.mode = "first" /\ ~(ctx.xllUsed /\ Smoothing.carried = 0)
     \/ AtTheEnd /\ Empty
  /\ pc' = "failed"
  /\ UNCHANGED <<input, options, pos, ctx, script, header>>

\* A division by zero, a null pointer, or a failed assertion.
Crash ==
  /\ \/ InChunks /\ AcceptedChunk(Unit) /\ DividesByZero(Unit)
     \/ AtFrame /\ Unit.kind = "ext" /\ "crash" \in ExtHeaderOutcomes(Unit)
     \/ AtFrame /\ DecodedExt(Unit) /\ AcceptedExt(Unit) /\ XllResult(Unit) = "crash"
     \/ AtFrame /\ DecodedExt(Unit) /\ AcceptedExt(Unit) /\ ~Ignored /\ SecondPass
          /\ Patchable(Unit) /\ Writable(Unit) /\ ~SizedAsWritten(Unit, PatchedHeader(Unit))
  /\ pc' = "crashed"
  /\ UNCHANGED <<input, options, pos, ctx, script, header>>

Next == ReadChunk \/ EndStream \/ SkipCore \/ ReadCore \/ IgnoreExt \/ ReadExt \/ RebuildExt
        \/ NextPass \/ Finish \/ Refuse \/ Crash

-----------------------------------------------------------------------------
(* Properties.                                                              *)

\* What should be kept, told from the file alone.
PeriodOf(k) == Cardinality({j \in 1..k : input[j].kind = "core"})
StreamAt == CHOOSE k \in 1..(Len(input) + 1) :
              /\ k = Len(input) + 1 \/ (input[k].kind = "chunk" /\ input[k].type = "stream")
              /\ \A j \in 1..(k - 1) : ~(input[j].kind = "chunk" /\ input[j].type = "stream")
Delay == LET known == {k \in 1..(StreamAt - 1) : input[k].kind = "chunk" /\ input[k].type = "presentation"}
         IN  IF ctx.hd.isFile /\ known # {} THEN NbSkippedFrames(input[CHOOSE k \in known : TRUE]) ELSE 0
KeptCore(k) == input[k].kind = "core" /\ PeriodOf(k) > Delay
KeptExt(k) == /\ input[k].kind = "ext" /\ ~options.extractCore
              /\ IF PeriodOf(k) = 0 THEN ~ctx.garbage ELSE PeriodOf(k) > Delay
KeptFrames == SelectSeq([k \in DOMAIN input |-> k], LAMBDA k : KeptCore(k) \/ KeptExt(k))
KeptCores == {k \in DOMAIN input : KeptCore(k)}
KeptExts == {k \in DOMAIN input : KeptExt(k)}
Done == pc = "done"
Rebuilt == Done /\ SecondPass

\* A finished script copies each frame of the stream that is kept once and in
\* the order of the file: neither those of the delay of the encoder, nor their
\* extensions, nor any extension when only the core is wanted.  When frames are
\* rebuilt, this is said of those of the core.
SourceOnce ==
  Done => LET entries == SelectSeq(script, LAMBDA f : Rebuilt => ~f.ext)
              kept == SelectSeq(KeptFrames, LAMBDA k : Rebuilt => KeptCore(k))
          IN  /\ Len(script) = Len(KeptFrames)
              /\ Copied(entries) = [i \in DOMAIN kept |-> Extent(Offset(input, kept[i]), input[kept[i]].size)]

\* Each frame of the core is presented where those before it end, each frame of
\* the extension with the frame of the core it extends, when each of them has one.
DurationBefore(i) ==
  MapThenSumSet(LAMBDA j : IF script[j].ext = script[i].ext
                             THEN IF script[i].ext THEN ExtFrameDuration(input[KeptFrames[j]])
                                  ELSE CoreFrameDuration(input[KeptFrames[j]])
                             ELSE 0, 1..(i - 1))
Paired == /\ \A k \in KeptExts :
                k > 1 /\ input[k - 1].kind = "core" /\ CoreFrameDuration(input[k - 1]) = ExtFrameDuration(input[k])
          /\ \A k \in 1..(Len(input) - 1) : input[k].kind = "core" => input[k + 1].kind = "ext"
Timed ==
  Done => /\ \A i \in DOMAIN script : script[i].pts = DurationBefore(i)
          /\ Paired => \A i \in DOMAIN script : script[i].ext => script[i].pts = script[i - 1].pts

\* The properties that the script announces are those of all the kept frames of
\* the core, or of the first extension without core; the coding type tells the
\* best component that any kept frame holds.
HeldComponents == UNION {Components(input[k].assets[1].nav) : k \in KeptExts}
HeaderFaithful ==
  Done => /\ header.codingType = CASE "xll" \in HeldComponents -> "hdma"
                                   [] "xll" \notin HeldComponents /\ "xbr" \in HeldComponents -> "hdhr"
                                   [] HeldComponents \cap {"xll", "xbr"} = {} /\ "lbr" \in HeldComponents -> "dtseSec"
                                   [] OTHER -> "dts"
          /\ \A k \in KeptCores : /\ header.audioFormat = CoreAudioFormat(input[k])
                                  /\ header.sampleRate = SampleRateOf(CoreAudioFreq(input[k].freqCode))
                                  /\ header.bitDepth = BitDepthOfPcmRes(input[k].pcmRes)
          /\ header.endPts = MapThenSumSet(LAMBDA k : IF KeptCores # {} THEN CoreFrameDuration(input[k])
                                                      ELSE ExtFrameDuration(input[k]),
                                           IF KeptCores # {} THEN KeptCores ELSE KeptExts)

\* In a rebuilt stream the lossless bytes are all there, in their order and once,
\* each frame has the length that its header announces, and the lossless frame
\* that starts in it starts where and when the header says, never after it was
\* due.  (The delay of two frames or more is not written as it is.)
XllStart(k) == Offset(input, k) + input[k].headerLength + input[k].assets[1].nav.xll.offset
RankOf(k) == Cardinality({j \in KeptExts : j < k})
StartsAt(entry, sync, start) ==
  \E e \in 1..Len(entry.parts) :
    /\ entry.parts[e].off + sync.offset - TotalLength(SubSeq(entry.parts, 1, e - 1)) = start
    /\ entry.parts[e].off <= start /\ start < entry.parts[e].off + entry.parts[e].len
BuiltAsMeant ==
  Rebuilt =>
    LET entries == SelectSeq(script, LAMBDA f : f.ext)
        bytes == Copied(entries)
    IN  /\ \A k \in 1..(Len(bytes) - 1) : bytes[k].off + bytes[k].len <= bytes[k + 1].off
        /\ TotalLength(bytes) = MapThenSumSet(LAMBDA k : AssetsLength(input[k]), KeptExts)
        /\ \A i \in DOMAIN entries :
             LET announced == entries[i].cmds[1].data[1]
             IN  /\ TotalLength(entries[i].parts) = announced.assetLength
                 /\ ComputePesFrameLength(entries[i].cmds, <<>>) = announced.frameLength
                 /\ announced.sync # <<>> =>
                      \E k \in KeptExts :
                        /\ StartsAt(entries[i], announced.sync[1], XllStart(k))
                        /\ RankOf(k) >= i - 1
                        /\ RankOf(k) - (i - 1) < 2 => announced.sync[1].delay = RankOf(k) - (i - 1)
=============================================================================

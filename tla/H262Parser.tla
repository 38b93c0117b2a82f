----------------------------- MODULE H262Parser -----------------------------
(***************************************************************************)
(* codec/h262/h262_parser.c: analyzeH262() cuts an MPEG-2 video stream in   *)
(* pictures.  A unit of the source is what stands before a group of        *)
(* pictures (sequence header, sequence extension, other extensions, GOP    *)
(* header), a picture with its slices, or a sequence end code.             *)
(***************************************************************************)
EXTENDS Integers, Sequences, FiniteSets, SequencesExt, SourceUnits, EsmsCommands, VideoProperties

CONSTANTS Inputs,      \* the files to parse: sequences of units
          Options      \* settings: [secondaryStream, vbvInUse]; the latter is what
                       \* a stream parsed before by the process left: -1, 0 or 1

VARIABLES input, options, pos, ctx, script, header, pc

vars == <<input, options, pos, ctx, script, header, pc>>

MAX_CONSECUTIVE_B_FRAMES == 2
NoVbvDelay == 65535
EndCodeSize == 4
-----------------------------------------------------------------------------
(* Sequence header, first of the stream or compared with the first.         *)

FrameRates == <<<<24000, 1001>>, <<24, 1>>, <<25, 1>>, <<30000, 1001>>, <<30, 1>>,
                <<50, 1>>, <<60000, 1001>>, <<60, 1>>>>
UpperBoundFrameRate(code) == <<24, 24, 25, 30, 30, 50, 60, 60>>[code]

\* Matrices are only looked at when they are there: 0 is no coefficient, and the
\* first one of the intra matrix is 8.
DecodedMatrices(h) ==
  /\ h.intraMatrix # <<>> => h.intraMatrix[1] = 8 /\ \A i \in DOMAIN h.intraMatrix : h.intraMatrix[i] # 0
  /\ \A i \in DOMAIN h.nonIntraMatrix : h.nonIntraMatrix[i] # 0
DecodedSequenceHeader(h) == h.marker /\ DecodedMatrices(h)

Macroblocks(h) == ((h.width + 15) \div 16) * ((h.height + 15) \div 16)
MeetsMpeg1Constraints(h) ==
  /\ h.width <= 768 /\ h.height <= 576
  /\ Macroblocks(h) <= 396
  /\ Macroblocks(h) * UpperBoundFrameRate(h.frameRateCode) <= 396 * 25
  /\ h.frameRateCode <= 5
  /\ h.vbvBufferSize < 20 /\ h.bitRate < 4640
CheckSequenceHeader(h) ==
  /\ h.width # 0 /\ h.height # 0
  /\ h.aspectRatio \in 1..4
  /\ h.frameRateCode \in 1..8
  /\ h.bitRate # 0
  /\ h.constrained => MeetsMpeg1Constraints(h)
ConstantSequenceHeader(first, h) ==
  \A f \in {"width", "height", "aspectRatio", "frameRateCode", "bitRate", "vbvBufferSize", "constrained"} :
    first[f] = h[f]
-----------------------------------------------------------------------------
(* Sequence extension: the high bits of the values and the profile.         *)

HorizontalSize(h, e) == e.widthExt * 2^12 + h.width
VerticalSize(h, e) == e.heightExt * 2^12 + h.height
BitRate(h, e) == e.bitRateExt * 2^18 + h.bitRate
VbvBufferSize(h, e) == e.vbvExt * 2^10 + h.vbvBufferSize
\* Both parts of the extension multiply the rate.
FrameRate(h, e) == <<FrameRates[h.frameRateCode][1] * (e.rateN + 1) * (e.rateD + 1),
                     FrameRates[h.frameRateCode][2]>>

Profiles == [high |-> 1, spatiallyScalable |-> 2, snrScalable |-> 3, main |-> 4, simple |-> 5]
LegalProfile(e) == ~e.escape /\ e.profile = Profiles.main
LegalLevel(e) == e.level \in {4, 6, 8, 10}
LegalChroma(e) == e.chroma = 1
LegalBitRate(h, e, secondary) ==
  /\ secondary => BitRate(h, e) <= BDAV_VIDEO_MAX_BITRATE_SEC_V \div 400
  /\ BitRate(h, e) <= BDAV_VIDEO_MAX_BITRATE \div 400
LegalVbv(h, e) == /\ VbvBufferSize(h, e) <= BDAV_VIDEO_MAX_BUFFER_SIZE \div (16 * 1024)
                  /\ 16 * 1024 * VbvBufferSize(h, e) <= 400 * BitRate(h, e)
LegalConfiguration(h, e, secondary) ==
  CheckVideoConfiguration(secondary, HorizontalSize(h, e), VerticalSize(h, e),
                          GetHdmvFrameRateCode(FrameRate(h, e)), ~e.progressive)
CheckSequenceExtension(h, e, secondary) ==
  /\ ~h.constrained
  /\ LegalProfile(e) /\ LegalLevel(e) /\ LegalChroma(e)
  /\ LegalBitRate(h, e, secondary) /\ LegalVbv(h, e)
  /\ ~e.lowDelay
  /\ LegalConfiguration(h, e, secondary)
ConstantButScan(first, e) == [first EXCEPT !.marker = e.marker, !.progressive = e.progressive] = e
ConstantSequenceExtension(first, e) == [first EXCEPT !.marker = e.marker] = e

DecodedSequenceExtension(u) == u.ext # <<>> /\ u.ext[1].marker

\* Other extensions: the display extension, and nothing after the GOP header.
\* User data is read up to a code that it cannot hold, so that it is never left.
DecodedExtensions(exts) == \A i \in DOMAIN exts : exts[i] = "display"
AfterGopHeader(exts) == exts = <<>>
AfterPicture(exts) == \A i \in DOMAIN exts : exts[i] = "copyright"
DecodedGopHeader(g) == g.marker
CheckGopHeader(g) == ~g.brokenLink
-----------------------------------------------------------------------------
(* Pictures.  What the checks remember lives as long as the process.        *)

\* The group's first coded picture is an I picture; no more than two B pictures
\* follow each other; the field of the VBV delay is used always or never.
ConsecutiveB(p) == IF p.type = "B" THEN ctx.bPictDist + 1 ELSE 0
UsesVbv(p) == IF p.vbvDelay # NoVbvDelay THEN 1 ELSE 0
VbvInUse(p) == IF ctx.vbvInUse < 0 THEN UsesVbv(p) ELSE ctx.vbvInUse
Mpeg1Fields(p) == /\ p.type \in {"P", "B"} => ~p.fullPelForward /\ p.forwardCode = 7
                  /\ p.type = "B" => ~p.fullPelBackward /\ p.backwardCode = 7
CheckPictureHeader(p, gopIndex) ==
  /\ p.type \in {"I", "P", "B"}
  /\ gopIndex = 0 => p.type = "I"
  /\ ConsecutiveB(p) <= MAX_CONSECUTIVE_B_FRAMES
  /\ VbvInUse(p) = UsesVbv(p)
  /\ Mpeg1Fields(p)

\* Only the last of the two backward codes is looked at.
CheckFCodes(p) == /\ \A i \in 1..4 : p.fCodes[i] \in 0..9 \cup {15}
                  /\ p.type \in {"I", "P"} => p.fCodes[4] = 15
CheckPictureCoding(p, e) ==
  /\ CheckFCodes(p)
  /\ p.structure \in {"top", "bottom", "frame"}
  /\ e.progressive => p.structure = "frame"
  /\ p.framePredFrameDct => e.progressive

\* Slices are numbered: a gap ends the picture, and what is left of it is no
\* start of anything.
ContiguousSlices(p) == p.slices # <<>> /\ \A i \in DOMAIN p.slices : p.slices[i] = i
-----------------------------------------------------------------------------
Init == /\ input \in Inputs /\ options \in Options
        /\ pos = 0
        /\ ctx = [stage |-> "sequence", seq |-> <<>>, ext |-> <<>>, frameOff |-> 0,
                  bPictDist |-> 0, vbvInUse |-> options.vbvInUse,
                  pictNo |-> 0, gopPictIdx |-> 0, gopPts |-> 0, lastPts |-> 0]
        /\ script = <<>>
        /\ header = [videoFormat |-> "", frameRate |-> 0, bitrate |-> 0, stillPicture |-> FALSE,
                     ptsRef |-> 0, endPts |-> 0, level |-> 0]
        /\ pc = "parse"

\* The next start code; the end of the file is none.
Unit == IF AtUnit(input, pos) THEN UnitAt(input, pos) ELSE [kind |-> "none", size |-> 0]
At(stage) == pc = "parse" /\ ctx.stage = stage

FrameDuration == FrameDurationOf(header.frameRate)
\* A time of 64 bits and a product of floats are added as floats, and what
\* comes out is stored in 64 bits again.
PlusFrames(time, n, duration) == Single(Single(time) + Single(n * duration))

SkipEndCode ==
  /\ At("sequence") /\ Unit.kind = "end"
  /\ pos' = pos + EndCodeSize
  /\ UNCHANGED <<input, options, ctx, script, header, pc>>

\* The first sequence header and extension give the properties of the stream.
AcceptedHead(u) ==
  /\ DecodedSequenceHeader(u.seq) /\ DecodedSequenceExtension(u)
  /\ IF ctx.seq = <<>>
       THEN CheckSequenceHeader(u.seq) /\ CheckSequenceExtension(u.seq, u.ext[1], options.secondaryStream)
       ELSE ConstantSequenceHeader(ctx.seq[1], u.seq) /\ ConstantSequenceExtension(ctx.ext[1], u.ext[1])
  /\ DecodedExtensions(u.extensions)
  /\ DecodedGopHeader(u.gop) /\ CheckGopHeader(u.gop) /\ AfterGopHeader(u.gopExtensions)

StreamProperties(h, e) ==
  LET code == GetHdmvFrameRateCode(FrameRate(h, e))
  IN  [header EXCEPT !.videoFormat = GetHdmvVideoFormat(HorizontalSize(h, e), VerticalSize(h, e), ~e.progressive),
                     !.frameRate = code, !.level = e.level,
                     !.ptsRef = FrameDurationOf(code), !.bitrate = 400 * BitRate(h, e)]

ParseHead ==
  /\ At("sequence") /\ Unit.kind = "head" /\ AcceptedHead(Unit)
  /\ LET first == ctx.seq = <<>>
         props == IF first THEN StreamProperties(Unit.seq, Unit.ext[1]) ELSE header
     IN  /\ header' = props
         /\ ctx' = [ctx EXCEPT !.stage = "pictures", !.frameOff = pos, !.gopPictIdx = 0,
                               !.seq = IF first THEN <<Unit.seq>> ELSE @,
                               !.ext = IF first THEN Unit.ext ELSE @,
                               !.gopPts = PlusFrames(props.ptsRef, ctx.pictNo, FrameDurationOf(props.frameRate))]
  /\ pos' = pos + Unit.size
  /\ UNCHANGED <<input, options, script, pc>>

\* A picture is shown by its temporal reference, and decoded one frame after the
\* other, the first one of a group a frame before the group.
Pts(p) == PlusFrames(ctx.gopPts, p.temporalReference, FrameDuration)
Dts == IF ctx.gopPictIdx = 0 THEN Single(Single(ctx.gopPts) - FrameDuration)
                             ELSE PlusFrames(ctx.gopPts, ctx.gopPictIdx - 1, FrameDuration)
DtsPresent(p) == p.type \in {"I", "P"}

\* A picture must not end the file; an end code after it belongs to it only when
\* nothing follows.
AcceptedPicture(p) ==
  /\ CheckPictureHeader(p, ctx.gopPictIdx) /\ CheckPictureCoding(p, ctx.ext[1])
  /\ AfterPicture(p.extensions) /\ ContiguousSlices(p)
  /\ ~AtEof(input, pos + p.size)
IgnoredBytes(after) == IF AtEof(input, after) THEN 0 ELSE EndCodeSize

ParsePicture ==
  /\ At("pictures") /\ Unit.kind = "picture" /\ AcceptedPicture(Unit)
  /\ LET ended == UnitAt(input, pos + Unit.size).kind = "end"
         after == pos + Unit.size + IF ended THEN EndCodeSize ELSE 0
         size == after - ctx.frameOff - IF ended THEN IgnoredBytes(after) ELSE 0
     IN  /\ script' = Append(script,
              [pts |-> Pts(Unit), dts |-> IF DtsPresent(Unit) THEN Dts ELSE 0,
               dtsPresent |-> DtsPresent(Unit), ext |-> FALSE, type |-> Unit.type,
               parts |-> <<Extent(ctx.frameOff, size)>>,
               cmds |-> <<AddPesPayload(0, ctx.frameOff, size)>>])
         /\ ctx' = [ctx EXCEPT !.frameOff = after, !.gopPictIdx = @ + 1, !.lastPts = Pts(Unit),
                               !.bPictDist = ConsecutiveB(Unit), !.vbvInUse = VbvInUse(Unit)]
         /\ pos' = after
  /\ UNCHANGED <<input, options, header, pc>>

\* Pictures are counted once the group is over.
MaxPictPerGop == UpperBoundFrameRate(ctx.seq[1].frameRateCode) + 1
LegalGop == ctx.gopPictIdx \in 1..MaxPictPerGop
EndGop ==
  /\ At("pictures") /\ Unit.kind # "picture" /\ LegalGop
  /\ ctx' = [ctx EXCEPT !.stage = "sequence", !.pictNo = @ + ctx.gopPictIdx]
  /\ UNCHANGED <<input, options, pos, script, header, pc>>

Refuse ==
  /\ pc = "parse"
  /\ \/ ctx.stage = "sequence" /\ ~AtEof(input, pos) /\ Unit.kind # "end"
        /\ ~(Unit.kind = "head" /\ AcceptedHead(Unit))
     \/ ctx.stage = "pictures" /\ Unit.kind = "picture" /\ ~AcceptedPicture(Unit)
     \/ ctx.stage = "pictures" /\ Unit.kind # "picture" /\ ~LegalGop
     \/ ctx.stage = "sequence" /\ AtEof(input, pos) /\ ctx.pictNo = 0
  /\ pc' = "failed"
  /\ UNCHANGED <<input, options, pos, ctx, script, header>>

Finish ==
  /\ At("sequence") /\ AtEof(input, pos) /\ ctx.pictNo > 0
  /\ header' = [header EXCEPT !.stillPicture = ctx.pictNo = 1, !.endPts = ctx.lastPts]
  /\ pc' = "done"
  /\ UNCHANGED <<input, options, pos, ctx, script>>

Next == SkipEndCode \/ ParseHead \/ ParsePicture \/ EndGop \/ Refuse \/ Finish
-----------------------------------------------------------------------------
\* The pictures of the source, and the group of each: the heads before it.
PictureUnits == {k \in DOMAIN input : input[k].kind = "picture"}
Heads(k) == Cardinality({j \in 1..k : input[j].kind = "head"})
Pictures(gop) == {k \in PictureUnits : Heads(k) = gop}

\* From the header before a picture, if any, to what ends the file.
PictureExtent(k) ==
  LET from == IF input[k - 1].kind = "head" THEN k - 1 ELSE k
      to == IF k + 1 = Len(input) /\ input[k + 1].kind = "end" THEN k + 1 ELSE k
  IN  Extent(Offset(input, from), Offset(input, to + 1) - Offset(input, from))

(* Each picture is written once, with the headers before it, in the order of *)
(* the file; an end code is left out unless it ends the file.                *)
SourceOnce ==
  pc = "done" =>
    Copied(script) = FoldLeftDomain(LAMBDA acc, k : IF k \in PictureUnits THEN Append(acc, PictureExtent(k))
                                                    ELSE acc, <<>>, input)

\* Groups whose pictures are numbered by their display, each but B pictures
\* shown after it is decoded.
Numbered(gop) ==
  LET n == Cardinality(Pictures(gop))
      Rank(k) == Cardinality({j \in Pictures(gop) : j < k})
  IN  /\ {input[k].temporalReference : k \in Pictures(gop)} = 0..(n - 1)
      /\ \A k \in Pictures(gop) : input[k].temporalReference >= Rank(k) - 1

\* What three roundings may add up to.
IsAbout(time, exact) == LET d == time - exact IN -2 * Spacing(exact) <= d /\ d <= 2 * Spacing(exact)

(* Over all groups one picture is shown in each frame period, at its time up *)
(* to what the floats of the code round away, which does not add up from a   *)
(* group to the next; and the decoding of the reference pictures is in their *)
(* order and before they are shown.                                          *)
Timed ==
  pc = "done" /\ (\A g \in 1..Heads(Len(input)) : Numbered(g)) =>
    /\ \A k \in 0..(Len(script) - 1) :
         Cardinality({i \in DOMAIN script : IsAbout(script[i].pts, header.ptsRef + k * FrameDuration)}) = 1
    /\ \A i \in DOMAIN script : script[i].dtsPresent =>
         /\ 0 <= script[i].dts /\ script[i].dts <= script[i].pts
         /\ \A j \in 1..(i - 1) : script[j].dtsPresent => script[j].dts < script[i].dts

(* The properties are those of all the sequences of the stream.              *)
HeaderFaithful ==
  pc = "done" =>
    /\ \A k \in DOMAIN input : input[k].kind = "head" =>
         header = [StreamProperties(input[k].seq, input[k].ext[1]) EXCEPT
                     !.stillPicture = header.stillPicture, !.endPts = header.endPts]
    /\ header.stillPicture = (Cardinality(PictureUnits) = 1)
    /\ header.endPts = script[Len(script)].pts
=============================================================================

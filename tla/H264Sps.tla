------------------------------- MODULE H264Sps -------------------------------
(***************************************************************************)
(* The limits that the profile and the level of an H.264 stream set, from   *)
(* tables A-1 and A-2 of the recommendation (h264_data.c), 0 being none;    *)
(* and sequence parameter sets: what the parser decodes (h264_parser.c),    *)
(* what the checks accept (h264_checks.c) and what the patcher writes       *)
(* instead (h264_patcher.c).  A part of the set that a flag announces is a  *)
(* sequence of none or one value; the constraint flags are the set of those *)
(* that are raised, and scaling lists the sequence of their coded           *)
(* differences.                                                             *)
(***************************************************************************)
EXTENDS Integers, Sequences, SequencesExt, VideoProperties

\* level_idc of table A-1; level 1b has a value of its own in the code.
H264_LEVEL_1B == 9
Levels == <<10, H264_LEVEL_1B, 11, 12, 13, 20, 21, 22, 30, 31, 32, 40, 41, 42, 50, 51, 52, 60, 61, 62>>
OfLevel(column, level) ==
  IF \E i \in DOMAIN Levels : Levels[i] = level THEN column[IndexFirstSubSeq(<<level>>, Levels)] ELSE 0

MaxMBPS(level) ==
  OfLevel(<<1485, 1485, 3000, 6000, 11880, 11880, 19800, 20250, 40500, 108000, 216000, 245760, 245760,
            522240, 589824, 983040, 2073600, 4177920, 8355840, 16711680>>, level)
MaxFS(level) ==
  OfLevel(<<99, 99, 396, 396, 396, 396, 792, 1620, 1620, 3600, 5120, 8192, 8192, 8704, 22080, 36864, 36864,
            139264, 139264, 139264>>, level)
MaxDpbMbs(level) ==
  OfLevel(<<396, 396, 900, 2376, 2376, 2376, 4752, 8100, 8100, 18000, 20480, 32768, 32768, 34816, 110400,
            184320, 184320, 696320, 696320, 696320>>, level)
MaxBR(level) ==
  OfLevel(<<64, 128, 192, 384, 768, 2000, 4000, 4000, 10000, 14000, 20000, 20000, 50000, 50000, 135000,
            240000, 240000, 240000, 480000, 800000>>, level)
MaxCPB(level) ==
  OfLevel(<<175, 350, 500, 1000, 2000, 2000, 4000, 4000, 10000, 14000, 20000, 25000, 62500, 62500, 135000,
            240000, 240000, 240000, 480000, 800000>>, level)
MaxVmvR(level) ==
  OfLevel(<<64, 64, 128, 128, 128, 128, 256, 256, 256, 512, 512, 512, 512, 512, 512, 512, 512, 8192, 8192,
            8192>>, level)
MinCR(level) == IF level \in 31..40 THEN 4 ELSE 2
MaxMvsPer2Mb(level) == IF level = 30 THEN 32 ELSE IF level \in 31..62 THEN 16 ELSE 0
SliceRate(level) == CASE level = 30 -> 22 [] level \in 31..40 -> 60 [] level >= 41 -> 24 [] OTHER -> 0
MinLumaBiPredSize(level) == IF level >= 31 THEN 64 ELSE 0
Direct8x8Inference(level) == level >= 30
FrameMbsOnly(level) == level <= 20 \/ level >= 42
MaxSubMbRectSize(level) == IF level <= 30 THEN 576 ELSE 0

LevelLimits(level) ==
  [MaxMBPS |-> MaxMBPS(level), MaxFS |-> MaxFS(level), MaxDpbMbs |-> MaxDpbMbs(level),
   MaxBR |-> MaxBR(level), MaxCPB |-> MaxCPB(level), MaxVmvR |-> MaxVmvR(level),
   MinCR |-> MinCR(level), MaxMvsPer2Mb |-> MaxMvsPer2Mb(level), SliceRate |-> SliceRate(level),
   MinLumaBiPredSize |-> MinLumaBiPredSize(level), direct8x8 |-> Direct8x8Inference(level),
   frameMbsOnly |-> FrameMbsOnly(level), MaxSubMbRectSize |-> MaxSubMbRectSize(level)]
-----------------------------------------------------------------------------
Profiles == [baseline |-> 66, main |-> 77, extended |-> 88, high |-> 100, high10 |-> 110,
             high422 |-> 122, high444 |-> 244, cavlc444 |-> 44]
IsHighProfile(p) == p \in {44, 86, 100, 110, 118, 122, 128, 134, 135, 138, 139, 244}

CpbBrVclFactor(p) == CASE p \in {66, 77, 88} -> 1000 [] p = 100 -> 1250 [] p = 110 -> 3000
                       [] p \in {122, 244, 44} -> 4000 [] OTHER -> 0
CpbBrNalFactor(p) == CASE p \in {66, 77, 88} -> 1200 [] p = 100 -> 1500 [] p = 110 -> 3600
                       [] p \in {122, 244, 44} -> 4800 [] OTHER -> 0
BrNal(p, level) == MaxBR(level) * IF p \in {66, 77, 88} THEN 1200 ELSE CpbBrNalFactor(p)

\* What a profile restricts; the empty set of slice types or of chroma formats
\* restricts nothing.
Unrestricted ==
  [sliceTypes |-> {}, noPartitions |-> FALSE, frameMbsOnly |-> FALSE, noWeightedPred |-> FALSE,
   cavlcOnly |-> FALSE, maxSliceGroups |-> 0, noPpsExtension |-> FALSE, maxLevelPrefix |-> 0,
   pcmRestricted |-> FALSE, noArbitraryOrder |-> FALSE, noRedundant |-> FALSE,
   direct8x8 |-> FALSE, chroma |-> {}, maxDepthMinus8 |-> 0, noBypass |-> FALSE, idrOnly |-> FALSE]
Ordered == [Unrestricted EXCEPT !.sliceTypes = {"I", "P", "B"}, !.noPartitions = TRUE,
                                !.noArbitraryOrder = TRUE, !.noRedundant = TRUE]
BaselineLimits(flags) ==
  [Unrestricted EXCEPT
     !.sliceTypes = {"I", "P"}, !.noPartitions = TRUE, !.frameMbsOnly = TRUE, !.noWeightedPred = TRUE,
     !.cavlcOnly = TRUE, !.maxSliceGroups = IF 1 \in flags THEN 0 ELSE 8, !.noPpsExtension = TRUE,
     !.maxLevelPrefix = 15, !.pcmRestricted = TRUE,
     !.noArbitraryOrder = 1 \in flags, !.noRedundant = 1 \in flags]
ExtendedLimits ==
  [Unrestricted EXCEPT !.direct8x8 = TRUE, !.cavlcOnly = TRUE, !.maxSliceGroups = 8,
                       !.noPpsExtension = TRUE, !.maxLevelPrefix = 15, !.pcmRestricted = TRUE]
ProfileLimits(p, flags, bdav) ==
  CASE p = 66 -> BaselineLimits(flags)
    [] p = 77 -> [Ordered EXCEPT !.noPpsExtension = TRUE, !.maxLevelPrefix = 15, !.pcmRestricted = TRUE]
    [] p = 88 -> ExtendedLimits
    [] p = 100 -> [Ordered EXCEPT !.chroma = IF bdav THEN {1} ELSE {0, 1}, !.noBypass = TRUE,
                                  !.frameMbsOnly = 4 \in flags,
                                  !.sliceTypes = IF {4, 5} \subseteq flags THEN {"I", "P"} ELSE @]
    [] p = 110 -> [Ordered EXCEPT !.chroma = {0, 1}, !.noBypass = TRUE,
                                  !.frameMbsOnly = 4 \in flags, !.idrOnly = 3 \in flags]
    [] p = 122 -> [Ordered EXCEPT !.chroma = {0, 1, 2}, !.maxDepthMinus8 = 2, !.noBypass = TRUE,
                                  !.idrOnly = 3 \in flags]
    [] p \in {244, 44} -> [Ordered EXCEPT !.maxDepthMinus8 = 6, !.cavlcOnly = p = 44,
                                          !.idrOnly = 3 \in flags \/ p = 44]
    [] OTHER -> Unrestricted
-----------------------------------------------------------------------------
\* Sample aspect ratios, video formats and colours that discs expect.
ExpectedSar(width, height) ==
  CASE width \in {1920, 1280} -> {1}
    [] width = 1440 -> {14}
    [] width = 720 /\ height # 576 -> {3, 5}
    [] OTHER -> {2, 4}
Pal == 1
Ntsc == 2
ExpectedVideoFormat(rate) == IF rate[1] = 25 * rate[2] \/ rate[1] = 50 * rate[2] THEN Pal ELSE Ntsc
ExpectedColours(height) ==
  CASE height = 576 -> <<5, 5, 4>>
    [] height = 480 -> <<6, 6, 6>>
    [] OTHER -> <<1, 1, 1>>
\* What the patcher writes instead of them: the matrix of 576 lines differs.
RebuiltColours(height) ==
  CASE height = 576 -> <<5, 5, 5>>
    [] height = 480 -> <<6, 6, 6>>
    [] OTHER -> <<1, 1, 1>>
-----------------------------------------------------------------------------
Present(part) == part # <<>>
Whole(part, Legal(_)) == part # <<>> => Legal(part[1])
-----------------------------------------------------------------------------
(* Scaling lists.                                                           *)

\* The list that the differences give: from a null scale on, the last value.
ScaleStep(s, delta) ==
  IF s.next = 0 THEN s
  ELSE LET next == (s.last + delta + 256) % 256
           value == IF next = 0 THEN s.last ELSE next
       IN  [last |-> value, next |-> next]
Scales(deltas, size) ==
  LET f[i \in 0..size] == IF i = 0 THEN [last |-> 8, next |-> 8]
                          ELSE ScaleStep(f[i - 1], IF i <= Len(deltas) THEN deltas[i] ELSE 0)
  IN  f
BuildScalingList(deltas, size) ==
  [values |-> [i \in 1..size |-> Scales(deltas, size)[i].last],
   useDefault |-> Scales(deltas, size)[1].next = 0]

ZigZag16 == <<0, 1, 4, 8, 5, 2, 3, 6, 9, 12, 13, 10, 7, 11, 14, 15>>
ZigZag64 == <<0, 1, 8, 16, 9, 2, 3, 10, 17, 24, 32, 25, 18, 11, 4, 5, 12, 19, 26, 33, 40, 48, 41, 34, 27, 20,
              13, 6, 7, 14, 21, 28, 35, 42, 49, 56, 57, 50, 43, 36, 29, 22, 15, 23, 30, 37, 44, 51, 58, 59,
              52, 45, 38, 31, 39, 46, 53, 60, 61, 54, 47, 55, 62, 63>>
ZigZag(size) == IF size = 16 THEN ZigZag16 ELSE ZigZag64

\* The list is read in its coding order and written in the zig-zag order.
WrittenDelta(values, size, i) ==
  LET at(k) == IF k = 0 THEN 8 ELSE values[ZigZag(size)[k] + 1]
      delta == at(i) - at(i - 1)
  IN  IF delta > 127 THEN delta - 256 ELSE IF delta < -128 THEN delta + 256 ELSE delta
RebuiltDeltas(deltas, size) ==
  LET values == BuildScalingList(deltas, size).values
  IN  [i \in 1..size |-> WrittenDelta(values, size, i)]
ListSize(i) == IF i <= 6 THEN 16 ELSE 64
NbLists(s) == IF s.chroma # 3 THEN 8 ELSE 12
-----------------------------------------------------------------------------
(* HRD and VUI parameters.                                                  *)

DecodedHrd(hrd) == Len(hrd.sched) \in 1..32
BitRate(hrd, i) == hrd.sched[i].rate * 2^(6 + hrd.rateScale)
CpbSize(hrd, i) == hrd.sched[i].size * 2^(4 + hrd.sizeScale)
CheckHrd(hrd) ==
  /\ Len(hrd.sched) <= 1
  /\ \A i \in 2..Len(hrd.sched) : /\ hrd.sched[i].rate > hrd.sched[i - 1].rate
                                  /\ hrd.sched[i].size <= hrd.sched[i - 1].size

DecodedVui(v) == Whole(v.nalHrd, DecodedHrd) /\ Whole(v.vclHrd, DecodedHrd)
FrameRate(v) == <<v.timing[1].scale, 2 * v.timing[1].units>>

ExtendedSar == 255
CheckSar(s, v, width, height) ==
  /\ Present(v.sar)
  /\ v.sar[1].idc \in 0..16 \cup {ExtendedSar}
  /\ v.sar[1].idc \in ExpectedSar(width, height)
CheckVideoSignal(v) == Whole(v.signal, LAMBDA t : t.format <= 5)
CheckChromaLoc(v) == Whole(v.chromaLoc, LAMBDA c : c[1] \in {0, 2} /\ c[2] \in {0, 2})
CheckTiming(v) == Present(v.timing) /\ v.timing[1].fixed
CheckVui(s, v, width, height) ==
  /\ CheckSar(s, v, width, height) /\ CheckVideoSignal(v) /\ CheckChromaLoc(v) /\ CheckTiming(v)
  /\ Whole(v.nalHrd, CheckHrd) /\ Whole(v.vclHrd, CheckHrd)
  /\ Present(v.nalHrd) \/ Present(v.vclHrd) => ~v.lowDelay

\* What is wrong with the signal is not refused: the set is written again.
WrongVui(v, height) ==
  \/ Present(v.overscan) /\ v.overscan[1]
  \/ ~Present(v.signal)
  \/ LET t == v.signal[1]
     IN  \/ t.format # ExpectedVideoFormat(FrameRate(v))
         \/ t.fullRange
         \/ t.colour # <<ExpectedColours(height)>>
-----------------------------------------------------------------------------
(* The sequence parameter set.                                              *)

CropUnitX(s) == IF s.chroma \in {0, 3} THEN 1 ELSE 2
CropUnitY(s) == (IF s.chroma \in {0, 2, 3} THEN 1 ELSE 2) * (IF s.frameMbsOnly THEN 1 ELSE 2)
Crop(s) == IF Present(s.crop) THEN s.crop[1] ELSE <<0, 0, 0, 0>>
FrameHeightInMbs(s) == s.mapHeight * IF s.frameMbsOnly THEN 1 ELSE 2
FrameWidth(s) == s.mbWidth * 16 - CropUnitX(s) * (Crop(s)[1] + Crop(s)[2])
FrameHeight(s) == FrameHeightInMbs(s) * 16 - CropUnitY(s) * (Crop(s)[3] + Crop(s)[4])
MaxFrameNum(s) == 2^(s.log2FrameNum + 4)
MaxPicOrderCntLsb(s) == 2^(s.log2PicOrderCnt + 4)

\* The chroma format, the depths, the bypass and the lists are only coded for high
\* profiles: other sets have the default values.  The fields of the order count of
\* type 1 are read for type 2 instead, neither of which gives a time.
DecodedSps(s) == s.pocType \in 0..2 /\ Whole(s.vui, DecodedVui)

CheckProfile(s) == \/ s.profile = Profiles.main
                   \/ s.profile = Profiles.high /\ 4 \notin s.flags
CheckLevel(s) == (\E i \in DOMAIN Levels : Levels[i] = s.level) /\ s.level \in 30..41
Limits(s) == ProfileLimits(s.profile, s.flags, TRUE)
CheckHighFields(s) ==
  LET limits == Limits(s)
  IN  IsHighProfile(s.profile) =>
        /\ s.chroma \in 0..3
        /\ limits.chroma # {} => s.chroma \in limits.chroma
        /\ s.depths[1] <= limits.maxDepthMinus8 /\ s.depths[2] <= limits.maxDepthMinus8
        /\ ~(s.bypass /\ limits.noBypass)
CheckCounts(s) == /\ s.log2FrameNum <= 12
                  /\ s.pocType = 0 => s.log2PicOrderCnt <= 12
                  /\ ~s.gaps
MaxDpbFrames(s) ==
  LET frames == MaxDpbMbs(s.level) \div (s.mbWidth * FrameHeightInMbs(s))
  IN  IF frames < 16 THEN frames ELSE 16
CheckSize(s) ==
  LET maxFs == MaxFS(s.level)
  IN  /\ s.refFrames <= MaxDpbFrames(s)
      /\ s.mbWidth * s.mbWidth <= 8 * maxFs
      /\ FrameHeightInMbs(s) * FrameHeightInMbs(s) <= 8 * maxFs
      /\ s.mbWidth * FrameHeightInMbs(s) <= maxFs
CheckInterlacing(s) ==
  /\ ~s.frameMbsOnly => ~Limits(s).frameMbsOnly /\ ~FrameMbsOnly(s.level)
  /\ ~s.direct8x8 => s.frameMbsOnly /\ ~Limits(s).direct8x8 /\ ~Direct8x8Inference(s.level)
CheckSps(s) ==
  /\ CheckProfile(s) /\ CheckLevel(s) /\ s.id = 0
  /\ CheckHighFields(s) /\ CheckCounts(s) /\ CheckSize(s) /\ CheckInterlacing(s)
  /\ Present(s.vui)
  /\ CheckVui(s, s.vui[1], FrameWidth(s), FrameHeight(s))
  /\ ~s.frameMbsOnly => s.vui[1].picStruct
CheckBitstream(s, secondary) ==
  CheckVideoConfiguration(secondary, FrameWidth(s), FrameHeight(s),
                          GetHdmvFrameRateCode(FrameRate(s.vui[1])), ~s.frameMbsOnly)
\* Level 4.1 asks for four slices a picture.
SliceNb(s) == IF s.level = 41 THEN 4 ELSE 1

\* A set that comes again is the same but for the transform bypass and the
\* scaling lists.  The low delay flag is only read with HRD parameters; without,
\* it is what the memory of the parser held, and compared all the same.
ConstantSps(first, s) == [first EXCEPT !.bypass = s.bypass, !.lists = s.lists] = s
LowDelayIsRead(s) == Present(s.vui[1].nalHrd) \/ Present(s.vui[1].vclHrd)
-----------------------------------------------------------------------------
(* The patcher.                                                             *)

NoChange == [fpsChange |-> 0, arChange |-> <<>>, levelChange |-> 0]
UsesVuiUpdate(options) ==
  options.fpsChange # 0 \/ options.arChange # <<>> \/ options.levelChange # 0

RebuiltSignal(s) ==
  <<[format |-> Ntsc, fullRange |-> FALSE, colour |-> <<RebuiltColours(FrameHeight(s))>>]>>
NewTiming == <<<<1001, 48000>>, <<1000, 48000>>, <<1000, 50000>>, <<1001, 60000>>, <<>>,
               <<1000, 100000>>, <<1001, 120000>>>>
\* The timing is only written if the set had one, as the first set must.
PatchedTiming(timing, code) ==
  IF code = 0 THEN timing
  ELSE <<[timing[1] EXCEPT !.units = NewTiming[code][1], !.scale = NewTiming[code][2]]>>
PatchedVui(s, rebuild, options) ==
  [s.vui[1] EXCEPT !.signal = IF rebuild THEN RebuiltSignal(s) ELSE @,
                   !.timing = PatchedTiming(@, options.fpsChange),
                   !.sar = IF options.arChange = <<>> THEN @ ELSE options.arChange]
PatchedSps(s, rebuild, options) ==
  [s EXCEPT !.vui = <<PatchedVui(s, rebuild, options)>>,
            !.level = IF options.levelChange = 0 THEN @ ELSE options.levelChange]
TargetRemovalDelayLength == 18
PatchedHrd(hrd) == IF hrd = <<>> THEN hrd
                   ELSE <<[hrd[1] EXCEPT !.removalLength = TargetRemovalDelayLength - 1]>>
PatchedHrds(s) == [s EXCEPT !.vui = <<[@[1] EXCEPT !.nalHrd = PatchedHrd(@), !.vclHrd = PatchedHrd(@)]>>]

\* The set that a decoder finds in what the patcher writes.
WrittenSps(s) ==
  [s EXCEPT !.lists = [i \in DOMAIN s.lists |->
                         IF s.lists[i] = <<>> THEN <<>> ELSE <<RebuiltDeltas(s.lists[i][1], ListSize(i))>>]]
\* Differences are only a coding of lists.
SameLists(a, b) ==
  /\ Len(a) = Len(b)
  /\ \A i \in DOMAIN a : /\ Present(a[i]) = Present(b[i])
                         /\ Present(a[i]) => BuildScalingList(a[i][1], ListSize(i)) = BuildScalingList(b[i][1], ListSize(i))
=============================================================================

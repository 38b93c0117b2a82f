----------------------------- MODULE H264Slice -----------------------------
(***************************************************************************)
(* What an H.264 stream holds besides sequence parameter sets, decoded by   *)
(* h264_parser.c and checked by h264_checks.c: picture parameter sets,      *)
(* supplemental enhancement information and slice headers.  A slice is read *)
(* up to the end of its header.                                             *)
(***************************************************************************)
EXTENDS Integers, Sequences, FiniteSets, Bitwise, H264Sps

-----------------------------------------------------------------------------
(* Picture parameter sets.                                                  *)

H264_MAX_PPS == 256
H264_MAX_ALLOWED_SLICE_GROUPS == 8
DecodedPps(p) ==
  /\ p.id < H264_MAX_PPS
  /\ p.groups <= H264_MAX_ALLOWED_SLICE_GROUPS
  /\ p.groups > 1 => p.mapType \in 0..6
  /\ p.bipred < 3
  /\ p.trailing

\* What the profile of the sequence parameter set restricts.
CheckPpsLimits(p, limits) ==
  /\ limits.cavlcOnly => ~p.cabac
  /\ p.groups - 1 <= limits.maxSliceGroups
  /\ limits.noWeightedPred => ~p.weighted /\ p.bipred = 0
  /\ ~(p.redundant /\ limits.noRedundant)
  /\ ~(Present(p.ext) /\ limits.noPpsExtension)
CheckPps(p, limits) ==
  /\ p.spsId = 0
  /\ CheckPpsLimits(p, limits)
  /\ p.qp \in -26..25 /\ p.qs \in -26..25
  /\ p.chromaQp \in -12..12
  /\ IF Present(p.ext) THEN p.ext[1].chromaQp \in -12..12 ELSE TRUE

\* The offsets of the chroma and the scaling lists may differ: the set is then
\* taken for the same, neither checked nor kept.
Transform8x8(p) == Present(p.ext) /\ p.ext[1].transform8x8
ConstantPps(a, b) ==
  /\ Transform8x8(a) = Transform8x8(b)
  /\ [a EXCEPT !.ext = b.ext, !.chromaQp = b.chromaQp, !.mapType = b.mapType] = b
CheckPpsChange(old, new, limits) == CheckPps(new, limits) /\ old.cabac = new.cabac
-----------------------------------------------------------------------------
(* Messages of the supplemental enhancement information.                    *)

\* A delay is as long as the buffer takes to fill at most.
LegalDelay(hrd, i, delay) == delay # 0 /\ delay * BitRate(hrd, i) <= 90000 * CpbSize(hrd, i)
LegalDelays(hrd, delays) ==
  Present(hrd) => \A i \in DOMAIN hrd[1].sched : LegalDelay(hrd[1], i, delays[i])
CheckBufferingPeriod(m, v) ==
  m.spsId = 0 /\ LegalDelays(v.nalHrd, m.nal) /\ LegalDelays(v.vclHrd, m.vcl)

HasHrd(v) == Present(v.nalHrd) \/ Present(v.vclHrd)
DecodedPicTiming(m, v) ==
  /\ HasHrd(v) \/ v.picStruct
  /\ v.picStruct => m.struct \in 0..8
ClocksOf(struct) == CASE struct \in 0..2 -> 1 [] struct \in {3, 4, 7} -> 2 [] OTHER -> 3
MaxFps(v) == LET t == v.timing[1] IN (t.scale + 2 * t.units - 1) \div (2 * t.units)
CheckPicTiming(m, v) ==
  v.picStruct => \A i \in DOMAIN m.clocks : m.clocks[i].ctType < 3 /\ m.clocks[i].frames < MaxFps(v)

CheckRecoveryPoint(m, s) == m.frames < MaxFrameNum(s) /\ ~m.broken /\ m.groups = 0

\* User data without a byte is asserted not to be; of more than is kept, the rest
\* is left, and taken for messages.
H264_MAX_USER_DATA_PAYLOAD_SIZE == 1024
UuidSize == 16
EmptyUserData(m) == m.type = "user" /\ m.size = UuidSize
LeftUserData(m) == m.type = "user" /\ m.size - UuidSize > H264_MAX_USER_DATA_PAYLOAD_SIZE

CheckMessage(m, sps, nbPps) ==
  CASE m.type = "bufferingPeriod" -> Present(sps) /\ CheckBufferingPeriod(m, sps[1].vui[1])
    [] m.type = "picTiming" ->
         Present(sps) /\ DecodedPicTiming(m, sps[1].vui[1]) /\ CheckPicTiming(m, sps[1].vui[1])
    [] m.type = "recoveryPoint" -> Present(sps) /\ nbPps > 0 /\ CheckRecoveryPoint(m, sps[1])
    [] OTHER -> TRUE
\* A message that is cut ends the unit.
Messages(u) ==
  LET cut == {i \in DOMAIN u.messages : u.messages[i].type = "cut"}
  IN  IF cut = {} THEN u.messages
      ELSE SubSeq(u.messages, 1, (CHOOSE i \in cut : \A j \in cut : i <= j) - 1)
CheckSei(u, sps, nbPps) ==
  /\ \A i \in DOMAIN Messages(u) : CheckMessage(Messages(u)[i], sps, nbPps)
  /\ Messages(u) = u.messages => u.trailing
HoldsMessage(u, type) == \E i \in DOMAIN Messages(u) : Messages(u)[i].type = type
-----------------------------------------------------------------------------
(* Slice types: five of them, and the same five when all the slices of the   *)
(* picture are alike.                                                       *)

TypeOf(h) == <<"P", "B", "I", "SP", "SI">>[(h.type % 5) + 1]
Mixable(h) == h.type <= 4

\* primary_pic_type gives the mask of the types, which is compared with the type
\* itself rather than with its bit.
PrimaryMasks == <<132, 165, 231, 16, 24, 148, 189, 255>>
Authorized(primary, type) == (PrimaryMasks[primary + 1] & type) # 0
AuthorizedByMask(primary, type) == (PrimaryMasks[primary + 1] & (2^type)) # 0
-----------------------------------------------------------------------------
(* Slice headers, with the picture parameter set they refer to.             *)

Fields(h, s) == [h EXCEPT !.field = @ /\ ~s.frameMbsOnly,
                          !.bottom = @ /\ h.field /\ ~s.frameMbsOnly,
                          !.idrPicId = IF h.idr THEN @ ELSE 0]
RefPic(h) == h.refIdc # 0
Inter(h) == TypeOf(h) \in {"P", "SP", "B"}
ActiveL0(h, p) == IF Present(h.override) THEN h.override[1][1] ELSE p.l0
ActiveL1(h, p) == IF Present(h.override) THEN h.override[1][2] ELSE p.l1

\* The limits of frames and of fields stand for each other.
MaxRefIdx(h) == IF h.field THEN 16 ELSE 32
DecodedOverride(h) == Inter(h) /\ Present(h.override) => h.override[1][1] < MaxRefIdx(h)
\* At most 32 changes of a list, each of a known kind.
MaxModifications == 32
DecodedModifications(h) == \A i \in DOMAIN h.mods : h.mods[i] <= MaxModifications
UsesWeights(h, p) == \/ p.weighted /\ TypeOf(h) \in {"P", "SP"}
                     \/ p.bipred = 1 /\ TypeOf(h) = "B"

\* The weights of the chroma of the second list are read even if they are not
\* there: what follows in the header is read from other bits.
MisreadWeights(h, p, s) ==
  /\ UsesWeights(h, p) /\ TypeOf(h) = "B" /\ s.chroma # 0
  /\ \E i \in 1..(ActiveL1(h, p) + 1) : ~h.chromaL1[i]

\* Operations 4 to 6 come once.
DecodedMarking(h) ==
  RefPic(h) /\ ~h.idr =>
    /\ \A i \in DOMAIN h.mmco : h.mmco[i] \in 0..6
    /\ \A op \in 4..6 : Cardinality({i \in DOMAIN h.mmco : h.mmco[i] = op}) <= 1
UnusesAll(h) == RefPic(h) /\ ~h.idr /\ \E i \in DOMAIN h.mmco : h.mmco[i] = 5

\* pps is the function of the sets that were read.
DecodedSliceHeader(h, sps, pps) ==
  /\ Present(sps) /\ DOMAIN pps # {}
  /\ h.type <= 9
  /\ h.pps \in DOMAIN pps
  /\ DecodedOverride(h) /\ DecodedModifications(h)
  /\ MisreadWeights(h, pps[h.pps], sps[1]) \/ DecodedMarking(h)
  /\ pps[h.pps].deblocking => h.deblocking <= 2
-----------------------------------------------------------------------------
DetectFirstVcl(last, h) ==
  \/ \E f \in {"frameNum", "pps", "field", "lsb", "deltaBottom", "idr"} : last[f] # h[f]
  \/ last.field /\ last.bottom # h.bottom
  \/ RefPic(last) # RefPic(h)
  \/ h.idr /\ last.idrPicId # h.idrPicId

LegalRefs(h, p) ==
  Inter(h) =>
    /\ ~h.field /\ p.l0 > 15 => Present(h.override)
    /\ TypeOf(h) = "B" /\ ~h.field /\ p.l1 > 15 => Present(h.override)
    /\ TypeOf(h) = "B" /\ Present(h.override) => h.override[1][2] <= MaxRefIdx(h)
CheckSliceType(h, limits, primary) ==
  /\ limits.sliceTypes = {} \/ TypeOf(h) \in limits.sliceTypes
  /\ h.idr => TypeOf(h) = "I"
  /\ Authorized(primary, h.type)
CheckSliceHeader(h, s, p, primary) ==
  /\ CheckSliceType(h, Limits(s), primary)
  /\ Limits(s).idrOnly => h.idr
  /\ h.frameNum < MaxFrameNum(s) /\ (h.idr => h.frameNum = 0)
  /\ LegalRefs(h, p)
  /\ UsesWeights(h, p) => h.weights[1] <= 7 /\ (s.chroma # 0 => h.weights[2] <= 7)
  /\ p.cabac /\ TypeOf(h) \notin {"I", "SI"} => h.cabacInit <= 2
\* Slices of a picture, but the first.
CheckSameSlice(last, h) ==
  h.first # 0 =>
    /\ last.type # h.type => Mixable(last) /\ Mixable(h)
    /\ \A f \in {"frameNum", "field", "bottom", "lsb"} : last[f] = h[f]
-----------------------------------------------------------------------------
(* Picture order count.                                                     *)

InitialCount == [msb |-> 0, lsb |-> 0, unusedAll |-> FALSE, bottom |-> FALSE, top |-> 0]

\* The reference picture that the count of a slice is relative to.
PrevMsb(prev, h) == IF h.idr \/ prev.unusedAll THEN 0 ELSE prev.msb
PrevLsb(prev, h) == IF h.idr THEN 0
                    ELSE IF prev.unusedAll THEN IF prev.bottom THEN 0 ELSE prev.top
                    ELSE prev.lsb
\* The least significant bits are compared as unsigned values.
CountMsb(prev, h, s) ==
  LET lsb == PrevLsb(prev, h)
      half == MaxPicOrderCntLsb(s) \div 2
  IN  IF lsb < 0 THEN PrevMsb(prev, h) + MaxPicOrderCntLsb(s)
      ELSE IF h.lsb < lsb /\ lsb - h.lsb >= half THEN PrevMsb(prev, h) + MaxPicOrderCntLsb(s)
      ELSE IF h.lsb > lsb /\ h.lsb - lsb > half THEN PrevMsb(prev, h) - MaxPicOrderCntLsb(s)
      ELSE PrevMsb(prev, h)
DeltaBottom(h, p) == IF p.bottomPoc /\ ~h.field THEN h.deltaBottom ELSE 0
TopCount(prev, h, s) == IF h.field /\ h.bottom THEN 0 ELSE CountMsb(prev, h, s) + h.lsb
PicOrderCount(prev, h, s, p) ==
  CountMsb(prev, h, s) + h.lsb + IF DeltaBottom(h, p) < 0 THEN DeltaBottom(h, p) ELSE 0
NextCount(prev, h, s, unusesAll) ==
  IF RefPic(h) THEN [msb |-> CountMsb(prev, h, s), lsb |-> h.lsb, unusedAll |-> unusesAll,
                     bottom |-> h.field /\ h.bottom, top |-> TopCount(prev, h, s)]
  ELSE prev
=============================================================================

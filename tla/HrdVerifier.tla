----------------------------- MODULE HrdVerifier -----------------------------
(***************************************************************************)
(* codec/h264/h264_hrdVerifier.c: the hypothetical reference decoder that  *)
(* the H.264 parser runs along a stream.  Each access unit arrives in the  *)
(* coded picture buffer (CPB) at the bit rate, leaves it at its removal    *)
(* time and, decoded, may wait in the decoded picture buffer (DPB) for its *)
(* output time.  The two circular arrays are sequences here, the oldest    *)
(* first.  Times are in ticks of the code's c clock.                       *)
(***************************************************************************)
EXTENDS Integers, Sequences, FiniteSets

CONSTANTS AccessUnits,    \* what the parser may give next: records
                          \*   length, slices, cpbRemovalDelay, dpbOutputDelay,
                          \*   picture  (see Usage)
                          \*   period   its buffering period SEI, or NoPeriod
          NoPeriod,       \* a period: [delay, offset], of initial removal
          Tick90,         \* ticks of c in a tick of 90 kHz
          ClockTick,      \* ticks of c in num_units_in_tick
          Bitrate,        \* bits per tick
          CpbSize,
          MinRemovalDelay,              \* Max(PicSizeInMbs / MaxMBPS, fR)
          MaxFirstLength, MaxLength,    \* of a first AU; per tick of removal
          MaxFirstSlices, MaxSlices,    \*   interval of the others
          Width,          \* values of a uint64_t
          SliceWidth,     \* values of an unsigned
          MaxAUInCpb, MaxPicInDpb,      \* H264_MAX_AU_IN_CPB, H264_MAX_DPB_SIZE
          Builds,         \* "debug": with assertions, "release": without
          MaxAUs          \* bound of the model: access units in a stream

ASSUME HrdAssumption ==
  /\ {Tick90, ClockTick, Bitrate, CpbSize, Width, SliceWidth, MaxAUInCpb,
      MaxPicInDpb} \subseteq Nat \ {0}
  /\ Builds \subseteq {"debug", "release"}
  /\ {MinRemovalDelay, MaxFirstLength, MaxLength, MaxFirstSlices, MaxSlices, MaxAUs}
        \subseteq Nat
  /\ NoPeriod \notin [delay : Nat, offset : Nat]
  /\ AccessUnits \subseteq
       [length : Nat, slices : Nat, cpbRemovalDelay : Nat, dpbOutputDelay : Nat,
        picture : {"idr", "long-term idr", "ref", "adaptive", "non-ref"},
        period : [delay : Nat, offset : Nat] \cup {NoPeriod}]

VARIABLES build, cbr,       \* constant: the program, and constant bit rate
          clockTime,        \* end of the arrival of the last AU
          cpbBitsOccupancy,
          cpb,              \* AUInCpb, of records [AUIdx, au, removalTime]
          dpb,              \* picInDpb, of records [AUIdx, outputTime]
          period,           \* the last buffering period SEI
          nominalRemovalTimeFirstAU,
          last,             \* removal time and period of the AU before
          current,          \* [au, arrival, final, removal] of the AU in hand
          arrived,          \* those of all AUs accepted, for the properties
          pc                \* "next", "remove", or over: "rejected", "aborted"

vars == <<build, cbr, clockTime, cpbBitsOccupancy, cpb, dpb, period,
          nominalRemovalTimeFirstAU, last, current, arrived, pc>>

None == [au |-> "none"]

Init == /\ build \in Builds /\ cbr \in BOOLEAN
        /\ clockTime = 0
        /\ cpbBitsOccupancy = 0 /\ cpb = <<>> /\ dpb = <<>>
        /\ period = NoPeriod
        /\ nominalRemovalTimeFirstAU = 0
        /\ last = [removal |-> 0, period |-> NoPeriod]
        /\ current = None
        /\ arrived = <<>>
        /\ pc = "next"

MAX(a, b) == IF a < b THEN b ELSE a

First == arrived = <<>>
PeriodOf(au) == IF au.period = NoPeriod THEN period ELSE au.period

\* t_r(n), C-7 to C-9
RemovalTime(au) == IF First THEN PeriodOf(au).delay * Tick90
                   ELSE nominalRemovalTimeFirstAU + ClockTick * au.cpbRemovalDelay

\* t_a(n)
ArrivalTime(au) ==
  LET ahead == Tick90 * (PeriodOf(au).delay
                           + IF au.period = NoPeriod THEN PeriodOf(au).offset ELSE 0)
  IN  IF cbr THEN clockTime ELSE MAX(clockTime, RemovalTime(au) - ahead)

\* t_f(n): bits of the last, incomplete tick are left out.
FinalTime(au) == ArrivalTime(au) + au.length \div Bitrate

\* checkH264CpbHrdConformanceTests().  Times are unsigned.
Since(time, before) == (time - before) % Width

CeilDiv(a, b) == (a + b - 1) \div b

PeriodConforms(au) ==
  (au.period # NoPeriod /\ last.period.delay = au.period.delay) =>
     LET delta == Since(RemovalTime(au), clockTime) IN
     /\ au.period.delay <= CeilDiv(delta, Tick90)
     /\ cbr => delta \div Tick90 <= au.period.delay

\* Since the removal of the AU before
Interval(au) == Since(RemovalTime(au), last.removal)

\* A real number as an unsigned one: if there is no such value the result is
\* undefined, and builds give the least, the greatest or one between.
Converted(x, width) == IF x < width THEN {x} ELSE {0, width - 1}

\* How large an AU may be
SizeLimits(au) ==
  IF First THEN {[length |-> MaxFirstLength, slices |-> MaxFirstSlices]}
  ELSE [length : Converted(MaxLength * Interval(au), Width),
        slices : Converted(MaxSlices * Interval(au), SliceWidth)]

Conforms(au, limits) ==
  /\ First \/ (PeriodConforms(au) /\ MinRemovalDelay <= Interval(au))
  /\ au.length <= limits.length /\ au.slices <= limits.slices

\* processAUH264HrdContext() up to the loop of removals.
Arrive(au) ==
  /\ pc = "next" /\ Len(arrived) < MaxAUs
  /\ First => au.period # NoPeriod
  /\ period' = PeriodOf(au)
  /\ nominalRemovalTimeFirstAU' =
       IF au.period = NoPeriod THEN nominalRemovalTimeFirstAU ELSE RemovalTime(au)
  /\ current' = [au |-> au, arrival |-> ArrivalTime(au), final |-> FinalTime(au),
                 removal |-> RemovalTime(au)]
  /\ \E limits \in SizeLimits(au) :
       pc' = IF FinalTime(au) <= RemovalTime(au) /\ Conforms(au, limits)
               THEN "remove" ELSE "rejected"
  /\ UNCHANGED <<build, cbr, clockTime, cpbBitsOccupancy, cpb, dpb, last, arrived>>

\* The access unit in hand is forgotten.
InTransferNone(time) == 0

\* Bits of the AU in hand that are in the CPB at a removal.
InTransfer(time) ==
  IF current.arrival < time THEN Bitrate * (time - current.arrival) ELSE 0

\* picInfos.usage and its idrPic; an IDR picture with no_output_of_prior_pics
\* is treated as any other reference.
Usage(picture) == CASE picture \in {"idr", "ref"} -> "short-term"
                    [] picture \in {"long-term idr", "adaptive"} -> "long-term"
                    [] picture = "non-ref" -> "unused"
IsIdr(picture) == picture \in {"idr", "long-term idr"}

\* applyDecodedReferencePictureMarkingProcessDPBH264Context(): as no picture
\* used as reference is ever stored, nothing is there to mark or to slide out,
\* and what is left are two assertions that fail.
MarkingAborts(picture) ==
  \/ IsIdr(picture) /\ Usage(picture) = "long-term"
  \/ picture = "adaptive"

\* popDecodedPictureFromH264HrdContext(): those behind the picture move.
PopDecodedPicture(pics, i) == [k \in 1..(Len(pics) - 1) |-> pics[IF k < i THEN k ELSE k + 1]]

\* updateDPBH264HrdContext(): a turn of the loop looks at place i; only a
\* picture that stays makes it look at the next one.
TurnAdvancing(d, time) ==
  [i |-> d.i + 1, pics |-> IF d.i <= Len(d.pics) /\ d.pics[d.i].outputTime <= time
                             THEN PopDecodedPicture(d.pics, d.i) ELSE d.pics]
Turn(d, time) ==
  IF d.i <= Len(d.pics) /\ d.pics[d.i].outputTime <= time
    THEN [i |-> d.i, pics |-> PopDecodedPicture(d.pics, d.i)]
    ELSE [i |-> d.i + 1, pics |-> d.pics]
AfterTurns(pics, time, turns) ==
  LET loop[n \in 0..Len(pics)] == IF n = 0 THEN [i |-> 1, pics |-> pics] ELSE Turn(loop[n - 1], time)
  IN  loop[turns]
UpdateDpb(pics, time) == AfterTurns(pics, time, Len(pics)).pics

\* Tout_n
OutputTime(time, au) == time + ClockTick * au.dpbOutputDelay

\* C.2.4.2; pictures used as reference are left out too.
Stores(au) == Usage(au.picture) = "unused" /\ au.dpbOutputDelay > 0

\* assert(cpbExtractedPic->length < ctx->cpbBitsOccupancy), then the marking
Aborts(au) ==
  build = "debug" /\ (au.length >= cpbBitsOccupancy \/ MarkingAborts(au.picture))

Removable == cpb # <<>> /\ Head(cpb).removalTime <= current.final

\* The bits of the access unit in hand leave.
RemovedCurrent(au) == current.au.length

\* Bits that leave the CPB with an access unit.
Removed(au) == IF au.length <= cpbBitsOccupancy THEN au.length ELSE cpbBitsOccupancy

\* One turn of the loop of removals.  More pictures in the DPB than the stream
\* may need only cause a message.
Decode ==
  /\ pc = "remove" /\ Removable
  /\ LET au == Head(cpb).au
         time == Head(cpb).removalTime
         kept == UpdateDpb(dpb, time)
     IN  /\ clockTime' = time
         /\ IF CpbSize < cpbBitsOccupancy + InTransfer(time)
              THEN pc' = "rejected" /\ UNCHANGED <<cpbBitsOccupancy, cpb, dpb>>
            ELSE IF Aborts(au)
              THEN pc' = "aborted" /\ UNCHANGED <<cpbBitsOccupancy, cpb, dpb>>
            ELSE IF Stores(au) /\ Len(kept) = MaxPicInDpb
              THEN pc' = "rejected" /\ UNCHANGED <<cpbBitsOccupancy, cpb, dpb>>
            ELSE /\ cpbBitsOccupancy' = cpbBitsOccupancy - Removed(au)
                 /\ dpb' = IF Stores(au)
                             THEN Append(kept, [AUIdx |-> Head(cpb).AUIdx,
                                                outputTime |-> OutputTime(time, au)])
                             ELSE kept
                 /\ cpb' = Tail(cpb)
                 /\ UNCHANGED pc
  /\ UNCHANGED <<build, cbr, period, nominalRemovalTimeFirstAU, last, current, arrived>>

\* The rest of processAUH264HrdContext(): the AU in hand is in the CPB.
Accept ==
  /\ pc = "remove" /\ ~Removable
  /\ clockTime' = MAX(clockTime, current.final)
  /\ cpbBitsOccupancy' = cpbBitsOccupancy + current.au.length
  /\ IF Len(cpb) < MaxAUInCpb /\ cpbBitsOccupancy' <= CpbSize
       THEN /\ cpb' = Append(cpb, [AUIdx |-> Len(arrived), au |-> current.au,
                                   removalTime |-> current.removal])
            /\ last' = [removal |-> current.removal, period |-> period]
            /\ arrived' = Append(arrived, current)
            /\ pc' = "next"
       ELSE pc' = "rejected" /\ UNCHANGED <<cpb, last, arrived>>
  /\ UNCHANGED <<build, cbr, dpb, period, nominalRemovalTimeFirstAU, current>>

Next == (\E au \in AccessUnits : Arrive(au)) \/ Decode \/ Accept

Spec == Init /\ [][Next]_vars
-----------------------------------------------------------------------------
TypeOK == /\ build \in Builds /\ cbr \in BOOLEAN
          /\ clockTime \in Nat /\ cpbBitsOccupancy \in Nat
          /\ cpb \in Seq([AUIdx : Nat, au : AccessUnits, removalTime : Nat])
          /\ Len(cpb) <= MaxAUInCpb
          /\ dpb \in Seq([AUIdx : Nat, outputTime : Nat])
          /\ nominalRemovalTimeFirstAU \in Nat
          /\ arrived \in Seq([au : AccessUnits, arrival : Nat, final : Nat, removal : Nat])
          /\ Len(arrived) <= MaxAUs
          /\ pc \in {"next", "remove", "rejected", "aborted"}

Running == pc \in {"next", "remove"}

\* The sum of the first n elements of s.
SumOf(s, n) ==
  LET sum[k \in 0..Len(s)] == IF k = 0 THEN 0 ELSE sum[k - 1] + s[k]
  IN  sum[n]

(* The occupancy, kept as a number, is the bits of the access units in the  *)
(* CPB: what is removed was there.                                          *)
NbDecoded == Len(arrived) - Len(cpb)
Waiting == [k \in 1..Len(arrived) |->
              IF k <= NbDecoded THEN 0 ELSE arrived[k].au.length]
OccupancyExact == Running => cpbBitsOccupancy = SumOf(Waiting, Len(arrived))

\* Fullness of an ideal CPB just before the removals of an instant.
BitsAt(a, time) ==
  IF time <= a.arrival THEN 0
  ELSE IF a.au.length <= Bitrate * (time - a.arrival)
    THEN a.au.length ELSE Bitrate * (time - a.arrival)
Held(time) == [k \in 1..Len(arrived) |->
                 IF arrived[k].removal < time THEN 0 ELSE BitsAt(arrived[k], time)]
Fullness(time) == SumOf(Held(time), Len(arrived))

(* The verifier looks at the CPB only when access units leave and end, but  *)
(* a stream that it accepts overflows an ideal CPB, filled bit by bit, at   *)
(* no instant so far (H.264 C.3.2).                                         *)
CpbSound == pc = "next" => \A time \in 0..clockTime : Fullness(time) <= CpbSize

\* Removal times that decrease are another matter, see RemovalsSpaced.
InOrder == \A k \in 2..Len(arrived) : arrived[k - 1].removal < arrived[k].removal

\* The pictures of the first n access units whose output is to come then.
OutputToCome(n) ==
  {k \in 1..n : /\ Stores(arrived[k].au)
                /\ arrived[n].removal < OutputTime(arrived[k].removal, arrived[k].au)}

(* The DPB holds exactly the pictures decoded and not output at the last    *)
(* removal, each once and in decoding order, though pictures leave it from  *)
(* any place while the loop goes over it.  Those used as reference only are *)
(* missing.                                                                 *)
InDpb(pics) == {pics[i] : i \in 1..Len(pics)}
InDecodingOrder(pics) ==
  \A j, k \in 1..Len(pics) : j < k => pics[j].AUIdx < pics[k].AUIdx
DpbExact ==
  Running /\ InOrder =>
    /\ InDpb(dpb) =
         {[AUIdx |-> k - 1, outputTime |-> OutputTime(arrived[k].removal, arrived[k].au)] :
            k \in OutputToCome(NbDecoded)}
    /\ InDecodingOrder(dpb)
-----------------------------------------------------------------------------
\* What comments and assertions of the code say, and it does not do.

(* "assert(cpbExtractedPic->length < ctx->cpbBitsOccupancy); Buffer         *)
(* underflow shouldn't happen here": no stream of plain pictures fails it.  *)
PlainPictures == \A k \in 1..Len(arrived) : ~MarkingAborts(arrived[k].au.picture)
RemovalAsserted == PlainPictures => pc # "aborted"

(* "H.264 A.3.1.a) and A.3.2.a)": an access unit is removed at least the    *)
(* time of decoding the picture before it after that one.                   *)
RemovalsSpaced ==
  \A k \in 2..Len(arrived) :
    MinRemovalDelay <= arrived[k].removal - arrived[k - 1].removal
=============================================================================

---------------------------- MODULE HdmvParser ----------------------------
(***************************************************************************)
(* codec/hdmv: analyzePgs() and analyzeIgs() read the segments of subtitle *)
(* and menu streams, gather them in sequences until the END segment of the *)
(* display set (or epoch), compute the times of each sequence from the     *)
(* speed of the decoder model, and write the segments in the order of      *)
(* their types.  A unit of the source is a segment with its file header.   *)
(***************************************************************************)
EXTENDS Integers, Sequences, FiniteSets, SequencesExt, SourceUnits, EsmsCommands

CONSTANTS Inputs,      \* the files to parse: sequences of segments
          Options      \* settings: [igs]

VARIABLES input, options, pos, ctx, script, header, pc

vars == <<input, options, pos, ctx, script, header, pc>>

HDMV_SEGMENT_HEADER_LENGTH == 3
FileHeaderLength == 10           \* magic word, PTS and DTS
HDMV_RX_BITRATE == 16000000
DivRoundUp(a, b) == (a + b - 1) \div b
Bigger(a, b) == IF a < b THEN b ELSE a

-----------------------------------------------------------------------------
(* Sizes, in bytes, of the syntax of segments: what the parsers read        *)
(* (codec/hdmv/common/hdmv_common.c) and what the compiler of menus writes  *)
(* (compiler/igs_segmentsBuilding.c, with the sizes of hdmv_data.h).        *)

SumOver(s, Value(_)) == FoldLeft(LAMBDA n, x : n + Value(x), 0, s)

\* An object is [id, window, cropped]; a window is [id, w, h].
CompositionObjectSize(o) == 8 + IF o.cropped THEN 8 ELSE 0
VideoDescriptor == 2 + 2 + 1
CompositionDescriptor == 2 + 1
PcsSize(u) == VideoDescriptor + CompositionDescriptor + 1 + 1 + 1 + SumOver(u.objects, CompositionObjectSize)
WindowSize == 1 + 2 + 2 + 2 + 2
WdsSize(u) == 1 + WindowSize * Len(u.windows)
ObjectDataHeader == 3 + 2 + 2
PaletteEntry == 5
PaletteDefinition == 2
ObjectDescriptor == 2 + 1
SequenceDescriptor == 1

\* The interactive composition: pages of button overlap groups, which are
\* sequences of buttons, each given by its number of commands.
ButtonPlace == 2 + 2 + 1 + 2 + 2         \* id, numeric value, flags, position
NeighborInfo == 4 * 2
NormalState == 2 + 2 + 1
SelectedState == 1 + 2 + 2 + 1
ActivatedState == 1 + 2 + 2
NavigationCommand == 3 * 4
ButtonSize(commands) == ButtonPlace + NeighborInfo + NormalState + SelectedState
                        + ActivatedState + 2 + NavigationCommand * commands
BogSize(buttons) == 2 + 1 + SumOver(buttons, ButtonSize)
EffectSize(e) == 3 + 1 + 1 + SumOver(e, CompositionObjectSize)
EffectSequenceSize(s) == 1 + WindowSize * s.windows + 1 + SumOver(s.effects, EffectSize)
PageHead == 1 + 1 + 8                    \* id, version, mask of user operations
PageFields == 1 + 2 + 2 + 1 + 1
PageSize(p) == PageHead + EffectSequenceSize(p.inEffects) + EffectSequenceSize(p.outEffects)
               + PageFields + SumOver(p.bogs, BogSize)
TimeOuts(c) == IF c.oom THEN 5 + 5 ELSE 0
InteractiveCompositionSize(c) == 3 + 1 + TimeOuts(c) + 3 + 1 + SumOver(c.pages, PageSize)
-----------------------------------------------------------------------------
Igs == options.igs
\* The order of the types in the script.
Types == IF Igs THEN <<"ICS", "PDS", "ODS", "END">> ELSE <<"PCS", "WDS", "PDS", "ODS", "END">>
IsType(kind) == \E i \in DOMAIN Types : Types[i] = kind
MaxNbSeg(kind) == CASE kind = "PCS" -> 8 [] kind \in {"WDS", "END", "ICS"} -> 1
                    [] kind = "PDS" -> IF Igs THEN 256 ELSE 8
                    [] kind = "ODS" -> IF Igs THEN 4096 ELSE 64
-----------------------------------------------------------------------------
(* The inventory: pools that grow by segments twice as large as the last   *)
(* one.  Clearing a pool forgets its segments and not what is left of the  *)
(* last one, where the next element is then taken from.                    *)

NewPool == [used |-> 0, remaining |-> 0]
\* n elements: the pool grows by as many segments as they need.
Capacity(pool, k) == pool.remaining + 8 * (2^(pool.used + k) - 2^pool.used)
Get(pool, n) ==
  LET growth == CHOOSE k \in 0..12 : /\ Capacity(pool, k) >= n
                                     /\ \A j \in 0..(k - 1) : Capacity(pool, j) < n
  IN  [used |-> pool.used + growth, remaining |-> Capacity(pool, growth) - n]
ResetPool(pool) == [pool EXCEPT !.used = 0]
Dangling(pool) == pool.used = 0 /\ pool.remaining > 0

Pools == {"sequences", "segments", "pages", "windows", "effects", "objects", "bogs",
          "buttons", "commands", "entries"}
\* Elements of each pool taken by a segment, its sequence aside.
NoNeed == [p \in Pools |-> 0]
-----------------------------------------------------------------------------
\* What its decoding takes from the inventory.
EffectSequences(c) == FoldLeft(LAMBDA acc, p : acc \o <<p.inEffects, p.outEffects>>, <<>>, c.pages)
CompositionBogs(c) == FoldLeft(LAMBDA acc, p : acc \o p.bogs, <<>>, c.pages)
CompositionNeed(c) ==
  [NoNeed EXCEPT
     !["pages"] = Len(c.pages),
     !["windows"] = SumOver(EffectSequences(c), LAMBDA s : s.windows),
     !["effects"] = SumOver(EffectSequences(c), LAMBDA s : Len(s.effects)),
     !["objects"] = SumOver(EffectSequences(c), LAMBDA s : SumOver(s.effects, Len)),
     !["bogs"] = Len(CompositionBogs(c)),
     !["buttons"] = SumOver(CompositionBogs(c), Len),
     !["commands"] = SumOver(CompositionBogs(c), LAMBDA b : SumOver(b, LAMBDA n : n))]
-----------------------------------------------------------------------------
(* Time the decoder takes, in ticks of 90 kHz.                             *)

ObjectDecodeDuration(w, h) == DivRoundUp(9 * w * h, IF Igs THEN 800 ELSE 1600)
WindowDuration(w) == DivRoundUp(9 * w.w * w.h, 3200)

\* An object is found by its id among the sequences of the display set.
CompositionObjectDuration(o, odss) ==
  LET found == SelectSeq(odss, LAMBDA s : s.unit.id = o.id)
  IN  IF found = <<>> THEN 0 ELSE ObjectDecodeDuration(found[1].w, found[1].h)
ObjectWindowDuration(o, windows) ==
  LET found == SelectSeq(windows, LAMBDA w : w.id = o.window)
  IN  IF found = <<>> THEN 0 ELSE WindowDuration(found[1])

\* An epoch start clears the whole plane, another display set the windows that
\* receive no object.
PlaneInitDuration(pcs, windows) ==
  IF pcs.epochStart
    THEN (9 * pcs.videoW * pcs.videoH) \div 3200
    ELSE SumOver(SelectSeq(windows, LAMBDA w : \A i \in DOMAIN pcs.objects : pcs.objects[i].window # w.id),
                 WindowDuration)

\* Objects are decoded while the plane is cleared, and drawn once decoded; only
\* compositions of one or two objects are counted.
DisplaySetInitializeDuration(pcs, windows, odss) ==
  LET plane == PlaneInitDuration(pcs, windows)
      D(i) == CompositionObjectDuration(pcs.objects[i], odss)
      W(i) == ObjectWindowDuration(pcs.objects[i], windows)
      first == Bigger(plane, D(1))
  IN  CASE Len(pcs.objects) = 1 -> first + W(1)
        [] Len(pcs.objects) = 2 ->
             IF pcs.objects[1].window = pcs.objects[2].window
               THEN Bigger(first, D(1) + D(2)) + W(1)
               ELSE Bigger(first + W(1), D(1) + D(2)) + W(2)
        [] OTHER -> plane

\* An object of a menu is decoded, then transferred, but for the last one.
OdsDuration(s) == ObjectDecodeDuration(s.w, s.h)
TransferDuration(s) == 9 * OdsDuration(s)
EpochInitializeDuration(videoW, videoH, odss) ==
  LET plane == 1 + (9 * videoW * videoH - 1) \div 1600
      decoding == SumOver(odss, OdsDuration)
                  + IF odss = <<>> THEN 0 ELSE SumOver(Front(odss), TransferDuration)
  IN  Bigger(plane, decoding)
-----------------------------------------------------------------------------
\* isEof() is tested before each segment; the first byte tells whether a menu
\* has file headers, without them the times are computed.
RawInput(units) == options.igs /\ units # <<>> /\ units[1].magic = "none"
                   /\ units[1].kind \in {"ICS", "PDS", "ODS", "END"}

NoSequences == [t \in {"PCS", "WDS", "ICS", "PDS", "ODS", "END"} |-> <<>>]

Init == /\ input \in Inputs /\ options \in Options
        /\ pos = 0
        /\ ctx = [raw |-> RawInput(input), cur |-> NoSequences,
                  pools |-> [p \in Pools |-> NewPool],
                  reference |-> 0, lastClock |-> 0, total |-> 0,
                  videoW |-> 0, videoH |-> 0, composition |-> <<>>]
        /\ script = <<>>
        /\ header = <<>>
        /\ pc = "parse"

Retimed == ~Igs \/ ctx.raw
Unit == UnitAt(input, pos)
Prefix == IF ctx.raw THEN 0 ELSE FileHeaderLength
Magic == IF ctx.raw THEN "none" ELSE IF Igs THEN "IG" ELSE "PG"
AtSegment == /\ pc = "parse" /\ ~AtEof(input, pos) /\ AtUnit(input, pos)
             /\ Unit.magic = Magic /\ IsType(Unit.kind)
Parsing(kind) == AtSegment /\ Unit.kind = kind

\* The clock of the first segment is the origin of the next ones.
Reference(u) ==
  IF ctx.total > 0 \/ (Igs /\ Retimed) THEN ctx.reference
  ELSE IF Igs THEN u.dts
  ELSE IF u.dts < 0 THEN u.dts ELSE 0
Relative(t, reference) == IF t < reference THEN 0 ELSE t - reference
SegmentPts(u) == IF ctx.raw THEN 0 ELSE Relative(u.pts, Reference(u))
SegmentDts(u) == IF Retimed \/ u.dts = 0 THEN 0 ELSE Relative(u.dts, Reference(u))

\* addSegmentToSequence(): a segment that starts a sequence is refused when the
\* first sequence of the type is not complete (a later one is not looked at), or
\* when there are too many; the sequence that is added is not counted.
Sequenced(u) == u.kind \in {"ODS", "ICS"}
Starts(u) == Sequenced(u) => u.first
Completes(u) == Sequenced(u) => u.last
InOrder(u) ==
  LET list == ctx.cur[u.kind]
  IN  IF Starts(u) THEN list # <<>> => list[1].complete
                   ELSE list # <<>> /\ ~list[Len(list)].complete
NotTooMany(u) == Starts(u) => Len(ctx.cur[u.kind]) - 1 < MaxNbSeg(u.kind)

SegmentOf(u) == [off |-> pos + Prefix, len |-> u.length + HDMV_SEGMENT_HEADER_LENGTH,
                 pts |-> SegmentPts(u), dts |-> SegmentDts(u)]
Fragment(u) ==
  CASE u.kind = "ODS" -> u.length - ObjectDescriptor - SequenceDescriptor
    [] u.kind = "ICS" -> u.length - VideoDescriptor - CompositionDescriptor - SequenceDescriptor
    [] OTHER -> 0
Extended(list, u) ==
  IF Starts(u)
    THEN Append(list, [segments |-> <<SegmentOf(u)>>, complete |-> Completes(u), unit |-> u,
                       fragments |-> Fragment(u), w |-> 0, h |-> 0])
    ELSE [list EXCEPT ![Len(list)].segments = Append(@, SegmentOf(u)),
                      ![Len(list)].complete = Completes(u),
                      ![Len(list)].fragments = @ + Fragment(u)]
Extend(u) == Extended(ctx.cur[u.kind], u)

\* The pools as the segment leaves them; it crashes on one that was cleared.
Need(u, content) == [content EXCEPT !["sequences"] = IF Starts(u) THEN 1 ELSE 0, !["segments"] = 1]
Taken(need) == [p \in Pools |-> Get(ctx.pools[p], need[p])]
Crashing(need) == \E p \in Pools : need[p] > 0 /\ Dangling(ctx.pools[p])

\* The entries of a palette are what its length leaves.
EntriesLength(u) == u.length - PaletteDefinition
LegalPds(u) == /\ EntriesLength(u) >= 0 /\ EntriesLength(u) % PaletteEntry = 0
               /\ EntriesLength(u) \div PaletteEntry <= 255
\* The size of an object is known once its last fragment is there.
LegalOds(u) == Completes(u) => Last(Extend(u)).fragments >= ObjectDataHeader
\* The composition is decoded from its fragments, which may hold more.
LegalIcs(u) ==
  Completes(u) => Last(Extend(u)).fragments
                    >= InteractiveCompositionSize(Last(Extend(u)).unit.composition)
\* The composition a set must hold.
Composed(cur) == IF Igs THEN \E i \in DOMAIN cur["ICS"] : cur["ICS"][i].complete ELSE cur["PCS"] # <<>>
Legal(u) == CASE u.kind = "PDS" -> LegalPds(u) [] u.kind = "ODS" -> LegalOds(u)
              [] u.kind = "ICS" -> LegalIcs(u) [] u.kind = "END" -> Composed(ctx.cur)
              [] OTHER -> TRUE
\* The inventory is used before the fragments.
Decodable(u) == Legal(u) \/ (u.kind # "PDS" /\ Crashing(Need(u, NoNeed)))

\* A segment is added to the current display set, or the parser crashes.
Crash == /\ pc' = "crashed"
         /\ UNCHANGED <<input, options, pos, ctx, script, header>>
Advanced(u, need, list) ==
  [ctx EXCEPT !.cur[u.kind] = list, !.pools = Taken(need),
              !.reference = Reference(u), !.total = @ + 1,
              !.lastClock = IF Igs THEN @ ELSE SegmentPts(u)]
Register(u, content, list, size) ==
  LET need == Need(u, content)
  IN  IF Crashing(need)
        THEN Crash
        ELSE /\ ctx' = Advanced(u, need, list)
             /\ pos' = pos + Prefix + HDMV_SEGMENT_HEADER_LENGTH + size
             /\ UNCHANGED <<input, options, script, header, pc>>
Accepted(u) == InOrder(u) /\ NotTooMany(u)

\* The fields are read up to their end, whatever length the segment states.
ParsePcs ==
  /\ Parsing("PCS") /\ Accepted(Unit)
  /\ LET need == Need(Unit, [NoNeed EXCEPT !["objects"] = Len(Unit.objects)])
     IN  IF Crashing(need) THEN Crash
         ELSE /\ ctx' = [Advanced(Unit, need, Extend(Unit)) EXCEPT
                           !.videoW = Unit.videoW, !.videoH = Unit.videoH,
                           !.composition = <<Unit.epochStart>>]
              /\ pos' = pos + Prefix + HDMV_SEGMENT_HEADER_LENGTH + PcsSize(Unit)
              /\ UNCHANGED <<input, options, script, header, pc>>

ParseWds ==
  /\ Parsing("WDS") /\ Accepted(Unit)
  /\ Register(Unit, [NoNeed EXCEPT !["windows"] = Len(Unit.windows)], Extend(Unit), WdsSize(Unit))

ParsePds ==
  /\ Parsing("PDS") /\ Accepted(Unit) /\ Decodable(Unit)
  /\ Register(Unit, [NoNeed EXCEPT !["entries"] = EntriesLength(Unit) \div PaletteEntry], Extend(Unit), Unit.length)

ParseOds ==
  /\ Parsing("ODS") /\ Accepted(Unit) /\ Decodable(Unit)
  /\ LET list == Extend(Unit)
         sized == IF ~Completes(Unit) THEN list
                  ELSE [list EXCEPT ![Len(list)].w = list[Len(list)].unit.w,
                                    ![Len(list)].h = list[Len(list)].unit.h]
     IN  Register(Unit, NoNeed, sized, Unit.length)

CompleteIcs == SelectSeq(ctx.cur["ICS"], LAMBDA s : s.complete)
ParseIcs ==
  /\ Parsing("ICS") /\ Accepted(Unit) /\ Decodable(Unit)
  /\ LET list == Extend(Unit)
         need == Need(Unit, IF Completes(Unit) THEN CompositionNeed(Last(list).unit.composition)
                                               ELSE NoNeed)
     IN  IF Crashing(need) THEN Crash
         ELSE /\ ctx' = [Advanced(Unit, need, list) EXCEPT
                           !.videoW = IF CompleteIcs = <<>> THEN Unit.videoW ELSE @,
                           !.videoH = IF CompleteIcs = <<>> THEN Unit.videoH ELSE @]
              /\ pos' = pos + Prefix + HDMV_SEGMENT_HEADER_LENGTH + Unit.length
              /\ UNCHANGED <<input, options, script, header, pc>>
-----------------------------------------------------------------------------
(* The end of a display set.                                               *)

\* Times of the sequences of a subtitle: the composition is shown at the time
\* of its first segment, what comes before is decoded as early as needed.
PgsTimes(cur, initDur) ==
  LET clock == cur["PCS"][1].segments[1].pts
      start == clock - initDur
      Clearing(s) == SumOver(s.unit.windows, WindowDuration)
      Decoded(i) == SumOver(SubSeq(cur["ODS"], 1, i), OdsDuration)
      finished == start + Decoded(Len(cur["ODS"]))
      Alike(type, t) == [i \in DOMAIN cur[type] |-> t]
  IN  [PCS |-> Alike("PCS", [dts |-> start, pts |-> clock]),
       WDS |-> [i \in DOMAIN cur["WDS"] |->
                  [dts |-> start, pts |-> Bigger(clock - Clearing(cur["WDS"][i]), 0)]],
       PDS |-> Alike("PDS", [dts |-> start, pts |-> start]),
       ODS |-> [i \in DOMAIN cur["ODS"] |-> [dts |-> start + Decoded(i - 1), pts |-> start + Decoded(i)]],
       END |-> Alike("END", [dts |-> finished, pts |-> finished])]

\* Times of the sequences of a menu, from 0.
IgsTimes(cur, initDur) ==
  LET odss == cur["ODS"]
      Before(i) == SumOver(SubSeq(odss, 1, i - 1), LAMBDA s : OdsDuration(s) + TransferDuration(s))
      Alike(type, t) == [i \in DOMAIN cur[type] |-> t]
  IN  [ICS |-> Alike("ICS", [dts |-> 0, pts |-> initDur]),
       PDS |-> Alike("PDS", [dts |-> 0, pts |-> 0]),
       ODS |-> [i \in DOMAIN odss |-> [dts |-> Before(i), pts |-> Before(i) + OdsDuration(odss[i])]],
       END |-> Alike("END", [dts |-> initDur, pts |-> initDur])]

\* Or the times of the first segment of each sequence.
SourceTimes(cur) ==
  [t \in DOMAIN cur |-> [i \in DOMAIN cur[t] |->
     [dts |-> cur[t][i].segments[1].dts, pts |-> cur[t][i].segments[1].pts]]]

\* insertHdmvSegment(): the DTS is only written for the types that have one.
PesFrame(kind, time, segment) ==
  [kind |-> kind, pts |-> time.pts * 300, dts |-> time.dts * 300,
   dtsPresent |-> kind \in {"ODS", "PCS", "WDS", "ICS"}, ext |-> FALSE,
   parts |-> <<Extent(segment.off, segment.len)>>,
   cmds |-> <<AddPesPayload(0, segment.off, segment.len)>>]
FramesOf(kind, time, sequence) ==
  [i \in DOMAIN sequence.segments |-> PesFrame(kind, time, sequence.segments[i])]
FramesOfType(kind, times, sequences) ==
  FoldLeftDomain(LAMBDA acc, i : acc \o FramesOf(kind, times[i], sequences[i]), <<>>, sequences)
RegisterSet(cur, times) ==
  FoldLeft(LAMBDA acc, t : acc \o FramesOfType(t, times[t], cur[t]), <<>>, Types)

\* A subtitle whose windows are not defined is read through a null pointer.
Undefined(cur) == ~Igs /\ cur["PCS"] # <<>> /\ cur["WDS"] = <<>>

InitializeDuration(cur) ==
  IF Igs THEN EpochInitializeDuration(ctx.videoW, ctx.videoH, cur["ODS"])
         ELSE DisplaySetInitializeDuration(
                [cur["PCS"][1].unit EXCEPT !.epochStart = ctx.composition[1],
                                           !.videoW = ctx.videoW, !.videoH = ctx.videoH],
                cur["WDS"][1].unit.windows, cur["ODS"])
Times(cur, initDur) == IF ~Retimed THEN SourceTimes(cur)
                       ELSE IF Igs THEN IgsTimes(cur, initDur) ELSE PgsTimes(cur, initDur)

\* The duration replaces the origin of the clock when the times are computed.
ParseEnd ==
  /\ Parsing("END") /\ Accepted(Unit) /\ Decodable(Unit)
  /\ LET need == Need(Unit, NoNeed)
         cur == [ctx.cur EXCEPT !["END"] = Extend(Unit)]
         initDur == IF Retimed THEN InitializeDuration(cur) ELSE 0
     IN  IF Crashing(need) \/ Undefined(cur)
           THEN Crash
           ELSE /\ script' = script \o RegisterSet(cur, Times(cur, initDur))
                /\ ctx' = [ctx EXCEPT
                     !.cur = NoSequences,
                     !.pools = [p \in Pools |-> ResetPool(Taken(need)[p])],
                     !.reference = IF Retimed THEN initDur ELSE Reference(Unit),
                     !.lastClock = IF Igs THEN @ ELSE SegmentPts(Unit)]
                /\ pos' = pos + Prefix + HDMV_SEGMENT_HEADER_LENGTH
                /\ UNCHANGED <<input, options, header, pc>>

\* Anything else ends the parsing with an error.
Refuse ==
  /\ pc = "parse" /\ ~AtEof(input, pos)
  /\ AtSegment => ~(Accepted(Unit) /\ Decodable(Unit))
  /\ pc' = "failed"
  /\ UNCHANGED <<input, options, pos, ctx, script, header>>

\* A set that is not closed is only the subject of a warning.
Finish ==
  /\ pc = "parse" /\ AtEof(input, pos)
  /\ pc' = "done"
  /\ header' = [codingType |-> IF Igs THEN "IG" ELSE "PG", bitrate |-> HDMV_RX_BITRATE,
                ptsRef |-> 300 * IF ctx.reference < 0 THEN -ctx.reference ELSE ctx.reference,
                endPts |-> IF Igs THEN ctx.reference * 600 ELSE ctx.lastClock * 300]
  /\ UNCHANGED <<input, options, pos, ctx, script>>

Next == ParsePcs \/ ParseWds \/ ParsePds \/ ParseOds \/ ParseIcs \/ ParseEnd
        \/ Refuse \/ Finish
-----------------------------------------------------------------------------
\* The display sets of a sequence of segments, or of frames: those of the n-th
\* one, the segments after the last END not being part of any.
Ends(s) == Cardinality({i \in DOMAIN s : s[i].kind = "END"})
InSet(s, n) == {k \in DOMAIN s : Ends(SubSeq(s, 1, k - 1)) = n - 1}
Sets(s) == [n \in 1..Ends(s) |-> InSet(s, n)]
SegmentExtents(set, kind) ==
  FoldLeftDomain(LAMBDA acc, k : IF k \in set /\ input[k].kind = kind
                                   THEN Append(acc, Extent(Offset(input, k) + Prefix, input[k].size - Prefix))
                                   ELSE acc, <<>>, input)
SetExtents(set) == FoldLeft(LAMBDA acc, t : acc \o SegmentExtents(set, t), <<>>, Types)

(* Each segment of a closed display set is written once, whole, in the set   *)
(* where it was read, by types, those of a type in the order of the file.    *)
SourceOnce ==
  pc = "done" =>
    Copied(script) = FoldLeft(LAMBDA acc, set : acc \o SetExtents(set), <<>>, Sets(input))

\* Sets where all objects that are sent are shown, by a composition of at most two.
OfKind(set, kind) == {k \in set : input[k].kind = kind}
ShowsAll(set) ==
  /\ \E k \in OfKind(set, "PCS") :
       /\ Len(input[k].objects) <= 2
       /\ OfKind(set, "PCS") = {k}
       /\ \A j \in OfKind(set, "ODS") : \E o \in DOMAIN input[k].objects : input[k].objects[o].id = input[j].id
  /\ \A i, j \in OfKind(set, "ODS") : input[i].first /\ input[j].first /\ i # j => input[i].id # input[j].id

(* Computed times can be met by the decoder: within a set objects are        *)
(* decoded one after the other, and before what shows them is presented.     *)
TimedSet(source, frames) ==
  LET Frames(kinds) == {i \in frames : script[i].kind \in kinds}
  IN  /\ \A i \in frames : script[i].kind # "WDS" => script[i].dts <= script[i].pts
      /\ \A i, j \in Frames({"ODS"}) :
           i < j /\ script[i].dts # script[j].dts => script[i].pts <= script[j].dts
      /\ Igs \/ ShowsAll(source) =>
           \A i \in Frames({"ODS"}), j \in Frames({"PCS", "ICS"}) : script[i].pts <= script[j].pts
Timed ==
  pc = "done" /\ Retimed =>
    LET frames == Sets(script)
        sources == Sets(input)
    IN  \A n \in DOMAIN frames : TimedSet(sources[n], frames[n])

(* The header gives the time between the decoding start of the last set and  *)
(* its presentation, and the menu is over one such time later.               *)
LastComposition == CHOOSE i \in DOMAIN script :
  /\ script[i].kind \in {"PCS", "ICS"}
  /\ \A j \in DOMAIN script : script[j].kind = script[i].kind => j <= i
HeaderFaithful ==
  pc = "done" /\ Retimed /\ script # <<>> =>
    /\ header.ptsRef = script[LastComposition].pts - script[LastComposition].dts
    /\ Igs => header.endPts = 2 * script[LastComposition].pts

(* The muxer builds the segment, with its header and without that of the file. *)
BuiltAsMeant ==
  pc = "done" => \A i \in DOMAIN script :
    ComputePesFrameLength(script[i].cmds, <<>>) = script[i].parts[1].len

(* A display set can follow another one.                                     *)
PoolsSound == pc # "crashed"
=============================================================================

----------------------------- MODULE H264Parser -----------------------------
(***************************************************************************)
(* codec/h264/h264_parser.c: analyzeH264() cuts an H.264 stream in access   *)
(* units, writes their NAL units, the sequence parameter sets as the        *)
(* patcher rebuilds them, and computes the time of each from the order      *)
(* count of its pictures.  A unit of the source is a NAL unit.              *)
(***************************************************************************)
EXTENDS Integers, Sequences, FiniteSets, SequencesExt, SourceUnits, EsmsCommands, H264Slice

CONSTANTS Inputs,      \* the files to parse: sequences of NAL units
          Options      \* settings, and what the memory of the parser held: the set
                       \* of the flags of SEI messages that it happens to raise

VARIABLES pos,         \* the number of NAL units that were read
          input, options, ctx, script, header, pc

vars == <<input, options, pos, ctx, script, header, pc>>

\* initH264ParametersHandler(): the flags of the SEI messages are left out.
NewContext(memory, double, hrd) ==
  [aud |-> <<>>, audValid |-> FALSE, sps |-> <<>>, spsValid |-> FALSE, spsGop |-> FALSE,
   rebuild |-> FALSE, pps |-> <<>>,
   bpValid |-> "bpValid" \in memory, bpGop |-> "bpGop" \in memory, ptValid |-> "ptValid" \in memory,
   slice |-> <<>>, reachVcl |-> FALSE, nbPics |-> 0, nbSlices |-> 0, lastFirstMb |-> 0,
   top |-> FALSE, bottom |-> FALSE, count |-> InitialCount, cumul |-> 0, maxCount |-> 0,
   auCount |-> <<>>, lastKind |-> "none", nbB |-> 0, lastDts |-> 0, dtsIncrement |-> 0,
   picStruct |-> -1, cells |-> <<>>, block |-> <<>>, double |-> double, restart |-> FALSE, hrd |-> hrd]
NewHeader == [videoFormat |-> "", frameRate |-> 0, profile |-> 0, level |-> 0, flags |-> {},
              cpbSize |-> 0, bitrate |-> 0, stillPicture |-> FALSE, ptsRef |-> 0, endPts |-> 0]

Init == /\ input \in Inputs /\ options \in Options
        /\ pos = 0
        /\ ctx = NewContext(options.memory, FALSE, IF options.disableHrdVerifier THEN "off" ELSE "unset")
        /\ script = <<>> /\ header = NewHeader
        /\ pc = "parse"

Unit == IF pos < Len(input) THEN input[pos + 1] ELSE [kind |-> "none", size |-> 0]

\* isStartOfANewH264AU(): slices that follow each other are of one access unit.
Starts == {"aud", "sps", "pps", "sei"}
EndsAccessUnit == ctx.reachVcl /\ Unit.kind \in Starts
At(kind) == pc = "parse" /\ ~ctx.restart /\ ~EndsAccessUnit /\ Unit.kind = kind

\* A unit is a cell of the access unit: a copy of the source, or a set that
\* replaces it.
AddCell(c, replacement) ==
  [c EXCEPT !.cells = Append(@, [extent |-> Extent(Offset(input, pos + 1), Unit.size), set |-> replacement]),
            !.lastKind = Unit.kind]
Read(c) ==
  /\ ctx' = c
  /\ pos' = pos + 1
  /\ UNCHANGED <<input, options, script, header, pc>>
-----------------------------------------------------------------------------
(* Access unit delimiters, parameter sets and messages.                     *)

\* Past a slice, a delimiter is the one of a second field.
DuplicateAud == ctx.audValid /\ ctx.lastKind \notin {"none", "slice"}
AcceptedAud(u) == u.trailing /\ (DuplicateAud => ctx.aud[1] = u.primary)
ParseAud ==
  /\ At("aud") /\ AcceptedAud(Unit)
  /\ LET c == [ctx EXCEPT !.aud = <<Unit.primary>>, !.audValid = TRUE]
     IN  Read(IF DuplicateAud /\ ~options.disableFixes THEN c ELSE AddCell(c, <<>>))

DuplicateSps == Present(ctx.sps) /\ ctx.spsValid
Patched(s, rebuild) ==
  LET vui == IF rebuild \/ UsesVuiUpdate(options) THEN PatchedSps(s, rebuild, options) ELSE s
  IN  IF options.forceRebuildSei THEN PatchedHrds(vui) ELSE vui
Patches(rebuild) == rebuild \/ UsesVuiUpdate(options) \/ options.forceRebuildSei
Patchable == options.fpsChange # 0 => NewTiming[options.fpsChange] # <<>>

AcceptedSps(u) ==
  /\ DecodedSps(u.sps) /\ u.trailing /\ ctx.audValid
  /\ IF Present(ctx.sps) THEN ConstantSps(ctx.sps[1], u.sps)
     ELSE CheckSps(u.sps) /\ CheckBitstream(u.sps, options.secondaryStream)
  /\ Patchable

\* checkH264CpbHrdVerifierAvailablity(), asked once.
UsesHrdVerifier(s) ==
  Present(s.vui[1].nalHrd) /\ ~options.discardSei /\ ~options.forceRebuildSei
ParseSps ==
  /\ At("sps") /\ AcceptedSps(Unit)
  /\ LET s == Unit.sps
         rebuild == ctx.rebuild \/ (WrongVui(s.vui[1], FrameHeight(s)) /\ ~options.disableFixes)
         c == [ctx EXCEPT !.sps = <<s>>, !.spsValid = TRUE, !.spsGop = TRUE]
     IN  Read(IF DuplicateSps /\ ~options.disableFixes THEN c
              ELSE AddCell([c EXCEPT !.rebuild = rebuild,
                                     !.hrd = IF @ # "unset" THEN @
                                             ELSE IF UsesHrdVerifier(s) THEN "on" ELSE "off"],
                           IF Patches(rebuild) THEN <<Patched(s, rebuild)>> ELSE <<>>))

KnownPps(u) == u.id \in DOMAIN ctx.pps
AcceptedPps(u) ==
  /\ Present(ctx.aud) /\ Present(ctx.sps)
  /\ DecodedPps(u)
  /\ KnownPps(u) /\ ~ConstantPps(ctx.pps[u.id], u) => CheckPpsChange(ctx.pps[u.id], u, Limits(ctx.sps[1]))
  /\ ~KnownPps(u) => CheckPps(u, Limits(ctx.sps[1]))
  /\ ~options.forceRebuildSei
ParsePps ==
  /\ At("pps") /\ AcceptedPps(Unit)
  /\ LET same == KnownPps(Unit) /\ ConstantPps(ctx.pps[Unit.id], Unit)
     IN  Read(AddCell([ctx EXCEPT !.pps = IF same THEN @
                                          ELSE [i \in DOMAIN @ \cup {Unit.id} |->
                                                  IF i = Unit.id THEN Unit ELSE @[i]]], <<>>))

AcceptedSei(u) == CheckSei(u, ctx.sps, Cardinality(DOMAIN ctx.pps))
Misread(u) == \E i \in DOMAIN u.messages : LeftUserData(u.messages[i])
Crashes(u) == \E i \in DOMAIN Messages(u) :
                /\ EmptyUserData(u.messages[i])
                /\ AcceptedSei([u EXCEPT !.messages = SubSeq(@, 1, i - 1), !.trailing = TRUE])
\* The last structure that a message gives, kept from then on.
PicStructOf(u) ==
  LET timings == SelectSeq(Messages(u), LAMBDA m : m.type = "picTiming")
  IN  IF timings # <<>> /\ ctx.sps[1].vui[1].picStruct THEN timings[Len(timings)].struct ELSE ctx.picStruct
ParseSei ==
  /\ At("sei")
  /\ \/ options.discardSei /\ Read(ctx)
     \/ /\ ~options.discardSei /\ ~Crashes(Unit) /\ AcceptedSei(Unit)
        /\ LET c == [ctx EXCEPT !.bpValid = @ \/ HoldsMessage(Unit, "bufferingPeriod"),
                                !.ptValid = @ \/ HoldsMessage(Unit, "picTiming"),
                                !.picStruct = PicStructOf(Unit)]
           IN  Read(IF options.forceRebuildSei /\ (c.bpValid \/ c.ptValid)
                      THEN [c EXCEPT !.bpValid = FALSE, !.ptValid = FALSE]
                      ELSE AddCell(c, <<>>))
-----------------------------------------------------------------------------
(* Slices.  The first one of a picture is that of its first macroblock; each *)
(* field of a frame is counted as a picture.                                *)

Sps == ctx.sps[1]
Pps(h) == ctx.pps[h.pps]
SameFirst(h) == ctx.slice # <<>> => DetectFirstVcl(h, ctx.slice[1])

\* What must come before the first slice of a picture.
LegalPicture(h) ==
  /\ ctx.nbPics > 0 => Present(Sps.vui[1].nalHrd)
  /\ h.idr \/ ~ctx.spsGop => ctx.spsValid
  /\ h.idr \/ ~ctx.bpGop => ctx.bpValid \/ options.discardSei \/ options.forceRebuildSei
LegalSlice(h) == Limits(Sps).noArbitraryOrder /\ h.first > ctx.lastFirstMb
Counted(c, h) ==
  IF h.first = 0
    THEN [c EXCEPT !.nbPics = @ + 1, !.nbSlices = 1, !.lastFirstMb = 0, !.spsGop = TRUE, !.bpGop = TRUE,
                   !.top = @ \/ ~h.field \/ ~h.bottom, !.bottom = @ \/ ~h.field \/ h.bottom]
    ELSE [c EXCEPT !.nbSlices = @ + 1, !.lastFirstMb = h.first]

AcceptedSlice(h) ==
  /\ DecodedSliceHeader(h, ctx.sps, ctx.pps)
  /\ ctx.audValid /\ (ctx.spsGop \/ h.first = 0)
  /\ CheckSliceHeader(h, Sps, Pps(h), ctx.aud[1])
  /\ IF h.first = 0 THEN LegalPicture(h) ELSE LegalSlice(h)
  /\ ctx.slice # <<>> => CheckSameSlice(ctx.slice[1], h)
  /\ Sps.pocType = 0

\* calcCurPicOrderCnt(): counts start again at each IDR picture, after the
\* greatest of the pictures before.
NewPeriod(c, h) == h.idr /\ c.nbSlices = 1 /\ c.nbPics > 1
Cumulated(c, h) ==
  IF NewPeriod(c, h) THEN [c EXCEPT !.cumul = @ + c.maxCount + IF c.double THEN 1 ELSE 2, !.maxCount = 0]
  ELSE c
StreamCount(c, h) == Cumulated(c, h).cumul + PicOrderCount(c.count, h, Sps, Pps(h))
OddFirst(c, count) == ~c.double /\ c.cumul = 0 /\ c.top /\ c.bottom /\ count % 2 = 1 /\ c.auCount[1] % 2 = 1
WithOrderCount(c, h, unusesAll) ==
  LET count == StreamCount(c, h)
      d == [Cumulated(c, h) EXCEPT
              !.maxCount = MaxOf(@, PicOrderCount(c.count, h, Sps, Pps(h))),
              !.count = NextCount(@, h, Sps, unusesAll),
              !.auCount = IF @ = <<>> \/ @[1] > count THEN <<count>> ELSE @]
  IN  [d EXCEPT !.restart = OddFirst(d, count)]

Header(u) == Fields(u, Sps)
ParseSlice ==
  /\ At("slice") /\ Present(ctx.sps) /\ AcceptedSlice(Header(Unit))
  /\ LET h == Header(Unit)
         c == Counted([ctx EXCEPT !.reachVcl = @ \/ SameFirst(h), !.slice = <<h>>], h)
     IN  /\ StreamCount(c, h) >= 0
         /\ Read(AddCell(WithOrderCount(c, h, UnusesAll(h)), <<>>))
\* Bits read elsewhere decide of the weights, and of whether the slice is refused.
MisreadSlice(u) == /\ Present(ctx.sps) /\ u.pps \in DOMAIN ctx.pps
                   /\ MisreadWeights(Header(u), Pps(u), Sps)

\* End of sequence and filler data: checked, and copied.
AcceptedFiller(u) == ctx.slice # <<>> /\ u.ok
ParseOther ==
  /\ At("filler") \/ At("end")
  /\ Unit.kind = "filler" => AcceptedFiller(Unit)
  /\ Read(AddCell(ctx, <<>>))
-----------------------------------------------------------------------------
(* The end of an access unit.                                               *)

H264_BDAV_MAX_CONSECUTIVE_B_PICTURES == 3
LastSlice == ctx.slice[1]
NbConsecutiveB == IF TypeOf(LastSlice) # "B" THEN 0
                  ELSE ctx.nbB + IF ~LastSlice.field \/ LastSlice.bottom THEN 1 ELSE 0
StreamProperties(s) ==
  LET v == s.vui[1]
      code == GetHdmvFrameRateCode(FrameRate(v))
  IN  [NewHeader EXCEPT
         !.videoFormat = GetHdmvVideoFormat(FrameWidth(s), FrameHeight(s), ~s.frameMbsOnly),
         !.frameRate = code, !.profile = s.profile, !.level = s.level, !.flags = s.flags,
         !.cpbSize = IF Present(v.nalHrd) THEN CpbSize(v.nalHrd[1], Len(v.nalHrd[1].sched))
                     ELSE 1200 * MaxCPB(s.level),
         !.bitrate = IF Present(v.nalHrd) THEN BitRate(v.nalHrd[1], 1) ELSE BrNal(s.profile, s.level),
         !.ptsRef = FrameDurationOf(code)]
LegalAccessUnit ==
  /\ ctx.audValid /\ ctx.spsGop /\ ctx.slice # <<>>
  /\ ctx.nbSlices >= SliceNb(Sps)
  /\ NbConsecutiveB <= H264_BDAV_MAX_CONSECUTIVE_B_PICTURES
  /\ script = <<>> => /\ StreamProperties(Sps).videoFormat # "reserved"
                      /\ StreamProperties(Sps).frameRate # 0

\* A picture is decoded after the one before has been for as long as the last
\* message says it is shown.
DtsIncrement(duration) ==
  CASE ctx.picStruct \in {5, 6} -> duration + (duration \div 2)
    [] ctx.picStruct = 7 -> 2 * duration
    [] ctx.picStruct = 8 -> 3 * duration
    [] OTHER -> duration
Dts == ctx.lastDts + ctx.dtsIncrement
Pts(duration) ==
  Dts + (((ctx.auCount[1] + 1) \div (IF ctx.double THEN 1 ELSE 2)) - ctx.nbPics + 1) * duration

\* appendH264SequenceParametersSet(): all the sets are written alike, so that the
\* first one makes the block of the others.
SpsBytes(s) == <<<<"sps", 1, WrittenSps(s)>>, <<"sps", 2, WrittenSps(s)>>>>
Replacements == SelectSeq(ctx.cells, LAMBDA cell : cell.set # <<>>)
Block == IF ctx.block = <<>> /\ Replacements # <<>> THEN <<SpsBytes(Replacements[1].set[1])>> ELSE ctx.block
AddCommand(acc, cell) ==
  IF cell.set # <<>>
    THEN [cmds |-> Append(acc.cmds, AddDataBlock(acc.off, 1)), off |-> acc.off + Len(Block[1])]
    ELSE [cmds |-> Append(acc.cmds, AddPesPayload(acc.off, cell.extent.off, cell.extent.len)),
          off |-> acc.off + cell.extent.len]
Commands == FoldLeft(AddCommand, [cmds |-> <<>>, off |-> 0], ctx.cells).cmds
CopiedCells == SelectSeq(ctx.cells, LAMBDA cell : cell.set = <<>>)

\* Without the HRD verifier, the times of the buffers are those of the packet.
Packet(duration) ==
  LET present == TypeOf(LastSlice) \in {"I", "P"}
  IN  [pts |-> Pts(duration), dts |-> IF present THEN Dts ELSE 0, dtsPresent |-> present,
       ext |-> TRUE, type |-> TypeOf(LastSlice),
       parts |-> [i \in DOMAIN CopiedCells |-> CopiedCells[i].extent], cmds |-> Commands]
WriteAccessUnit(c) ==
  LET props == IF script = <<>> THEN StreamProperties(Sps) ELSE header
  IN  /\ script' = Append(script, Packet(props.ptsRef))
      /\ header' = [props EXCEPT !.endPts = Pts(props.ptsRef)]
      /\ ctx' = [c EXCEPT !.nbB = NbConsecutiveB, !.lastDts = Dts,
                          !.dtsIncrement = DtsIncrement(props.ptsRef),
                          !.block = Block, !.cells = <<>>, !.lastKind = "none",
                          !.audValid = FALSE, !.spsValid = FALSE, !.bpValid = FALSE, !.ptValid = FALSE,
                          !.nbSlices = 0, !.top = FALSE, !.bottom = FALSE, !.auCount = <<>>]

\* An access unit without enough messages stops the verifier for good; the buffers
\* that it follows, which may refuse the stream, have a module of their own.
EnoughData == ctx.spsGop /\ ctx.slice # <<>> /\ ctx.ptValid /\ ctx.bpGop
NextHrd == IF ctx.hrd = "on" /\ ~EnoughData THEN "off" ELSE ctx.hrd

\* A unit that lacks a field goes on with the next one.
EndAccessUnit ==
  /\ pc = "parse" /\ ~ctx.restart /\ EndsAccessUnit
  /\ LET c == [ctx EXCEPT !.reachVcl = FALSE, !.hrd = NextHrd]
     IN  \/ ctx.top /\ ctx.bottom /\ LegalAccessUnit /\ WriteAccessUnit(c)
         \/ /\ ~(ctx.top /\ ctx.bottom)
            /\ ctx' = [c EXCEPT !.bpValid = FALSE, !.ptValid = FALSE]
            /\ UNCHANGED <<script, header>>
  /\ UNCHANGED <<input, options, pos, pc>>

\* The last one is written even if it lacks a field.
EndOfFile == pc = "parse" /\ ~ctx.restart /\ pos = Len(input)
EndLastUnit ==
  /\ EndOfFile /\ ctx.nbSlices > 0 /\ LegalAccessUnit
  /\ WriteAccessUnit(ctx)
  /\ UNCHANGED <<input, options, pos, pc>>
Finish ==
  /\ EndOfFile /\ ctx.nbSlices = 0 /\ ctx.nbPics > 0
  /\ header' = [header EXCEPT !.stillPicture = ctx.nbPics = 1]
  /\ pc' = "done"
  /\ UNCHANGED <<input, options, pos, ctx, script>>

\* generateScriptES(): the file is parsed again, with the settings changed.
RestartParsing ==
  /\ pc = "parse" /\ ctx.restart
  /\ \E o \in Options :
       ctx' = NewContext(o.memory, TRUE, IF ctx.hrd = "on" THEN "unset" ELSE ctx.hrd)
  /\ pos' = 0 /\ script' = <<>> /\ header' = NewHeader
  /\ UNCHANGED <<input, options, pc>>
-----------------------------------------------------------------------------
RefusedUnit(u) ==
  CASE u.kind = "aud" -> ~AcceptedAud(u)
    [] u.kind = "sps" -> ~AcceptedSps(u) \/ (Present(ctx.sps) /\ ~LowDelayIsRead(u.sps))
    [] u.kind = "pps" -> ~AcceptedPps(u)
    [] u.kind = "sei" -> ~options.discardSei /\ (Misread(u) \/ (~Crashes(u) /\ ~AcceptedSei(u)))
    [] u.kind = "slice" -> \/ ~Present(ctx.sps)
                           \/ Present(ctx.sps) /\ ~AcceptedSlice(Header(u))
                           \/ MisreadSlice(u)
                           \/ /\ Present(ctx.sps) /\ AcceptedSlice(Header(u))
                              /\ StreamCount(Counted(ctx, Header(u)), Header(u)) < 0
    [] u.kind = "filler" -> ~AcceptedFiller(u)
    [] u.kind = "end" -> FALSE
    [] OTHER -> TRUE

\* The verifier may refuse any unit it is given.
Refuse ==
  /\ pc = "parse" /\ ~ctx.restart
  /\ \/ EndsAccessUnit /\ ((ctx.top /\ ctx.bottom /\ ~LegalAccessUnit) \/ NextHrd = "on")
     \/ ~EndsAccessUnit /\ pos < Len(input) /\ RefusedUnit(Unit)
     \/ EndOfFile /\ ctx.nbSlices > 0 /\ ~LegalAccessUnit
     \/ EndOfFile /\ ctx.nbSlices = 0 /\ ctx.nbPics = 0
  /\ pc' = "failed"
  /\ UNCHANGED <<input, options, pos, ctx, script, header>>

\* User data must have a byte.
Crash ==
  /\ At("sei") /\ ~options.discardSei /\ Crashes(Unit)
  /\ pc' = "crashed"
  /\ UNCHANGED <<input, options, pos, ctx, script, header>>

Next == \/ ParseAud \/ ParseSps \/ ParsePps \/ ParseSei \/ ParseSlice \/ ParseOther
        \/ EndAccessUnit \/ EndLastUnit \/ Finish \/ RestartParsing \/ Refuse \/ Crash
-----------------------------------------------------------------------------
IsSlice(k) == input[k].kind = "slice"
FirstSlices == {k \in DOMAIN input : IsSlice(k) /\ input[k].first = 0}
IsField(k) == input[k].field /\ \E j \in 1..k : input[j].kind = "sps" /\ ~input[j].sps.frameMbsOnly

\* The access unit of each NAL unit: the pairs of fields before the last unit that
\* starts one.
StartsSection(k) ==
  /\ input[k].kind \in Starts
  /\ \E j \in 1..(k - 1) : IsSlice(j) /\ \A i \in (j + 1)..(k - 1) : input[i].kind \in {"end", "filler"}
Section(k) == {j \in 1..k : StartsSection(j)}
FieldsBefore(k) ==
  LET firsts == {j \in FirstSlices : j < k}
  IN  2 * Cardinality(firsts) - Cardinality({j \in firsts : IsField(j)})
AccessUnit(k) ==
  IF Section(k) = {} THEN 0
  ELSE FieldsBefore(CHOOSE j \in Section(k) : \A i \in Section(k) : i <= j) \div 2
AccessUnits == FoldLeftDomain(LAMBDA acc, k : Append(acc, AccessUnit(k)), <<>>, input)

\* What is left out: messages that are not wanted, and what comes twice.
Again(k, kind, au) == \E j \in 1..(k - 1) : input[j].kind = kind /\ au[j] = au[k]
Discarded(k, au) ==
  LET kind == input[k].kind
  IN  \/ kind = "sei" /\ options.discardSei
      \/ kind = "sps" /\ Again(k, "sps", au) /\ ~options.disableFixes
      \/ kind = "aud" /\ Again(k, "aud", au) /\ ~IsSlice(k - 1) /\ ~options.disableFixes
Written(au) == {k \in DOMAIN input : \E j \in FirstSlices : au[j] = au[k]}
Replaced(k) == input[k].kind = "sps" /\ Patches(ctx.rebuild)
InOrder(K) == SelectSeq([k \in DOMAIN input |-> k], LAMBDA k : k \in K)
Kept(au) == InOrder({k \in Written(au) : ~Discarded(k, au)})

(* All the NAL units of the access units that hold a picture are written, in *)
(* their order, but for those that come twice, are not wanted or are         *)
(* written otherwise.                                                       *)
SourceOnce ==
  pc = "done" =>
    LET au == AccessUnits
        copied == SelectSeq(Kept(au), LAMBDA k : ~Replaced(k))
    IN  Copied(script) = [i \in DOMAIN copied |-> Extent(Offset(input, copied[i]), input[copied[i]].size)]

\* Frames, shown one after the other in each period between IDR pictures.
Period(k) == Cardinality({j \in FirstSlices : j <= k /\ input[j].idr})
InPeriod(n) == {k \in FirstSlices : Period(k) = n}
Numbered(n, step) == {input[k].count : k \in InPeriod(n)} = {step * i : i \in 0..(Cardinality(InPeriod(n)) - 1)}
Regular(step) ==
  /\ \A k \in FirstSlices : ~IsField(k) /\ Numbered(Period(k), step)
  /\ \A k \in DOMAIN input : input[k].kind = "sei" =>
       \A i \in DOMAIN input[k].messages : input[k].messages[i].type = "picTiming" =>
         input[k].messages[i].struct \in 0..4
  /\ LET au == AccessUnits IN \A j, k \in FirstSlices : j # k => au[j] # au[k]
Display(k, step) == (input[k].count \div step) + Cardinality({j \in FirstSlices : Period(j) < Period(k)})

\* What a frame adds to the counts of the source, as its first period tells.
SourceStep == IF \E k \in InPeriod(1) : input[k].count % 2 = 1 THEN 1 ELSE 2

(* Each picture is shown at its turn, after the frames that the earlier      *)
(* periods hold, and decoded a frame after the one before.  Counts of one a  *)
(* frame are always recognised when the first period has any, and none are   *)
(* when it has not; they delay the whole stream by a frame.                  *)
Timed ==
  pc = "done" /\ Regular(SourceStep) =>
    LET firsts == InOrder(FirstSlices)
        delay == IF SourceStep = 1 THEN 1 ELSE 0
        duration == header.ptsRef
    IN  \A i \in DOMAIN script :
          /\ script[i].pts = (Display(firsts[i], SourceStep) + delay) * duration
          /\ script[i].dtsPresent => script[i].dts = (i - 1) * duration

(* The header is that of each sequence parameter set that is written, unless *)
(* the settings ask for another.                                            *)
HeaderFaithful ==
  pc = "done" =>
    /\ ~UsesVuiUpdate(options) =>
         \A k \in DOMAIN input : input[k].kind = "sps" =>
           header = [StreamProperties(Patched(input[k].sps, ctx.rebuild)) EXCEPT
                       !.stillPicture = header.stillPicture, !.endPts = header.endPts]
    /\ header.stillPicture = (Cardinality(FirstSlices) = 1)
    /\ header.endPts = script[Len(script)].pts

\* What each access unit is to be: its NAL units, the sets as they are patched.
Source == [k \in 1..FileSize(input) |-> <<k - 1>>]
Meant(k) == IF Replaced(k) THEN SpsBytes(Patched(input[k].sps, ctx.rebuild))
            ELSE SubSeq(Source, Offset(input, k) + 1, Offset(input, k) + input[k].size)
MeantUnit(units) == FoldLeft(LAMBDA acc, k : acc \o Meant(k), <<>>, units)
CodedLists(s) == \E i \in DOMAIN s.lists : s.lists[i] # <<>>
Heads(au) == InOrder({k \in FirstSlices : \A j \in FirstSlices : au[j] = au[k] => k <= j})

(* The packets are the access units.  A set that is written for what was     *)
(* wrong with the first has none of it any more, but at the rates and the    *)
(* heights whose signal the patcher writes otherwise than it is checked.     *)
BuiltAsMeant ==
  pc = "done" /\ (\A k \in DOMAIN input : input[k].kind = "sps" => ~CodedLists(input[k].sps)) =>
    /\ LET au == AccessUnits
           heads == Heads(au)
           kept == Kept(au)
       IN  /\ Len(script) = Len(heads)
           /\ \A i \in DOMAIN script :
                BuildPesPacketData(script[i].cmds, Source, ctx.block)
                  = MeantUnit(SelectSeq(kept, LAMBDA k : au[k] = au[heads[i]]))
    /\ ctx.rebuild =>
         LET s == ctx.block[1][1][3]
             v == s.vui[1]
         IN  ExpectedVideoFormat(FrameRate(v)) = Ntsc /\ FrameHeight(s) # 576 /\ v.overscan # <<TRUE>>
               => ~WrongVui(v, FrameHeight(s))
=============================================================================

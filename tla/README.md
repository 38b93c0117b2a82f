# A TLA+ model of libBlu's main muxer

libBlu multiplexes elementary streams (H.264, MPEG-2 video, AC-3, DTS, LPCM,
PGS, IGS) into a BDAV MPEG-2 transport stream.  The program is one thread and a
batch: it turns every source into a *script* (ESMS), then runs one loop that
decides for each 188-byte slot of the output what goes in it.  There is no
message and no shared memory; what is hard is **time, order and what outlives a
step**.  The loop serves streams by time stamps, through two heaps; a decoder
model (T-STD) may veto every packet; a refused packet is put back and tried
again later; queues are refilled in batches; a "check" changes the state that it
checks; analysers cut sources by sizes that they read in them and rebuild
headers; scripts stay on the disk when a run is over, or is interrupted.  These
are properties of long sequences of steps, which unit tests hardly reach, and
the repository has none.

Paths below are those of the repository (`src/muxingContext.c` ...).  Modules
are in this directory; `PROJECT.json` lists the runs, what every definition
stands for, the hazards, and the theorems.


## 1. The system

| component | state | operations | talks to |
|---|---|---|---|
| muxing loop (`mainMuxer.c`, `muxingContext.c`) | system time clock `currentStc`, the two heaps, packet count, PCR request | initial timings; next packet: system table, else elementary stream, else null packet; padding to an aligned unit | everything below |
| stream heap (`streamHeap.c`) | array of (time stamp, stream) | add, extract, "is the first ready?" | loop |
| T-STD model (`tStdVerifier/bufferingModel.c`) | graph of filters and buffers: fill level, last update, registered frames | register a frame, check a packet, update with a packet | loop; circular buffer |
| BDAV-STD chains (`tStdVerifier/bdavStd.c`, `codec/*.c`) | which buffers a stream crosses | build a chain; register the frames of a PES packet or a table | T-STD model |
| elementary stream (`elementaryStream.c`) | two read-ahead queues, current PES packet | build the next PES packet | script reader; loop |
| PES timing (`elementaryStreamPesProperties.c`, `calcPesTiming()`) | pure | DTS and PTS of a PES packet; time and spacing of its transport packets | loop |
| transport packets (`tsPackets.c`) | offset and counter of the stream | prepare a header, write a packet | loop |
| system streams (`systemStream.c`) | table, offset, "supplied once" | PAT, PMT, SIT, PCR, null | transport packets, loop |
| PIDs (`stream.c`, `packetIdentifier.c`) | sorted list of values in use | choose and register a PID | creation of the context |
| circular buffer (`util/circularBuffer.c`) | ring that doubles | new entry, get, pop | T-STD model, DTS parser |
| scripts (`esms/`, `findValidESScript()`, `generateScriptES()`) | files that outlive a run: header with a marker and directories, sections | find or choose a name, validate, write, mark, parse; the commands that build a PES payload | analysers, elementary stream |
| analysers (`codec/*/*_parser.c`) | position in the source, headers met so far, times | source file to script: cut, time, drop, patch, describe | scripts |
| H.264 HRD verifier (`codec/h264/h264_hrdVerifier.c`) | coded and decoded picture buffers | one call per access unit | H.264 parser |
| input, settings, configuration, IGS compiler, utilities | – | options, META files, INI, XML and pictures, CRC, buffered files | all |

What makes each of them correct:

* **loop** – the tables come before any stream and stay periodic; a PES packet
  is complete before its decoding time; clock and packet count agree; no stream
  is dropped with data left; the loop ends, on a whole aligned unit.
* **heap** – it is a priority queue, whatever the sequence of calls, so that its
  root alone says whether a stream is due.
* **T-STD** – a packet that the check lets through never makes the update fail;
  frames and bits stay in step; pictures leave whole and on time.
* **elementary stream** – each frame of the script gives one PES packet, in
  order, with bounded memory, and the end is the end.
* **transport packets** – 188 bytes each, all bytes of a unit once, continuity
  counters without gaps, in spite of headers prepared and dropped.
* **PIDs** – distinct, in the range of their type; the search ends.
* **circular buffer** – a FIFO that never reads memory it did not write.
* **scripts** – what is read from a script is what an analyser would find in the
  source, wherever earlier runs stopped and whatever was edited in between; a
  script in use is not written again; runs end, and do no work twice.
* **analysers** – every byte that is wanted is in the script once, in order;
  times are those of the format; the description is true of the whole stream;
  what is rebuilt is what was meant.
* **HRD verifier** – a stream that it accepts is one that a real decoder with
  these buffers plays; its own buffers hold what the time stamps say.

There are no threads and no messages.  An error anywhere ends the program
(`Fail` actions, `pc = "failed"`); the only thing that has to survive a crash is
a script, which `EsmsScript` is about.


## 2. Modules

    TransportStream  <-refines-  MuxingContext         (+ MuxingContext_proofs)
    TimerQueue       <-refines-  StreamHeap            (+ StreamHeap_proofs)
    Fifo             <-refines-  CircularBuffer        (+ Queues_proofs)
                                 TStdStream     -EXTENDS->  BufModel   (+ TStdStream_proofs)
                                 EsPesQueue            (+ Queues_proofs)
                                 TsPacket              (+ TsPacket_proofs)
               SystemTables  -EXTENDS->  PidAllocation   (+ PidAllocation_proofs)
                                 HrdVerifier           (+ HrdVerifier_proofs)
               EsmsScript  -EXTENDS->  EsmsFormat  -EXTENDS->  EsmsCommands   (+ EsmsScript_proofs)

    EsParsers  -INSTANCE->  Ac3Parser
                            LpcmParser
                            HdmvParser
                            H262Parser   -EXTENDS->  VideoProperties
                            DtsParser    -EXTENDS->  DtsHeaders DtsXll DtsPatcher
                            H264Parser   -EXTENDS->  H264Slice -> H264Sps -> VideoProperties
               all of them  -EXTENDS->  SourceUnits; those that build payloads, EsmsCommands

`Fifo`, `TimerQueue` and `TransportStream` are abstract specifications: what a
user of the component relies on, in a few lines.  The detailed modules are
shown to implement them (`RefinesFifo`, `RefinesTimerQueue`,
`IsTransportStream`).  `MuxingContext` uses the heap as the timer queue that
`StreamHeap` was shown to be, and an elementary stream as the sequence of PES
packets that `EsPesQueue` shows it to deliver.  `EsmsScript` takes what an
analyser finds as a constant (`Analysis`), and the analysers write their script
as the sequence of its packets: `EsmsFormat` says that the file between them
loses nothing.

`map` in `PROJECT.json` names the lines of each definition.  A small C function
that is called in one place only is part of the definition that calls it; its
lines are listed there.

### CircularBuffer
`buffer`, `allocatedSize`, `usedSize` and `top` are the fields of the C
structure.  `NewEntry` and `NewEntryGrow` are the two paths of
`newEntryCircularBuffer()` with the caller's write; memory that `realloc()` adds
holds `Garbage`.  `Grow` doubles modulo the width of `size_t`, so that the
growth that wraps is in the model: it fails and changes nothing.  Names that
start with `ring` or `Ring` are those that `EsPesQueue` has too: one module
holds the proofs of both.

### BufModel, TStdStream
`BufModel` has the operators of `bufferingModel.c` on one chain of buffers: a
*leak* buffer drains at a rate (bits rounded up at each update, as the code
does), a *removal* buffer drops a frame when its time comes.  `UpdateChain` is
`updateBufModelNode()`, `CheckChain` is `checkBufModelNode()`, which is not a
pure question: for a buffer with `dontOverflowOutput` it updates the buffer
behind.  `TStdStream` is one branch driven by the loop: time passes, a packet is
tried at most once per tick, it is refused (`Blocked`) or enters the chain
(`InjectPacket`), and with its last packet the next PES packet registers its
frames.  Branches do not influence one another (the default node of a filter
has no buffer), so one branch with arbitrary gaps between attempts stands for
a branch among others.  The variable `kind` selects audio (TB, B), video (TB,
MB, EB) or system (TB, B leaking) chains.

Frames are consumed from the front by the loop of `updateBufModelBuffer()`: the
model says for each frame what is left of it when an amount goes through all of
them (`HeaderTaken`, `DataTaken`), with the sum of what is before it, and not
turn by turn.  `ChainAssumption` names what the three shapes of the code have
in common; sizes, rates, PES packets and times are free.

### StreamHeap
`content` is the array with the indexes of C.  The loops of the sifts are
*routes*: the places that a node passes, each followed by its parent
(`Rising`) or by the child to serve first (`Sinking`) while the comparison of
the loop allows.  `Shifted` moves the nodes of a route one place back and puts
the node at its end, as the swaps of the loop do.  Only the array, its size and
its allocation are state.

### EsPesQueue
The two queues with the counters the code keeps beside the lists, the
refill loop with its index, and the end-of-script tests.  A frame and its PES
packet are one value.

### MuxingContext
First the arithmetic: start PCR, initial clock, time of the first packet of a
PES packet, spacing; then the loop.  `pc` names where it is:
`system` (`muxNextSystemStreamPacket()`), `es` (`muxNextESPacket()`), `null`
(`muxNullPacket()`), `tick` (`increaseCurrentStcLibbluMuxingContext()`), `pad`
(`padAlignedUnitLibbluMuxingContext()`).  The two heaps are functions from stream to time
stamp, with any of the equal earliest ones next.  The variable `input` is what
the user gave (rate mode, PID of the PCR, start time, scripts) and never
changes.  The answer of the buffering model is a set `full` of streams without
room, chosen anew for each slot: `TStdStream` says when the real answer is no,
`MuxingContext` must be right for any answer.

### TsPacket
One stream and its unit: `Prepare` is `prepareTPHeader()` with the adaptation
field, `Drop` the refusal by the buffering model, `Write` is
`writeTransportPacket()` with `insertPayload()`.  `demux`, what a receiver
has after each packet, is external: it only reads what is on the wire.
Stuffing is computed modulo `SizeRange`, like the `size_t` of the code.

### PidAllocation
`requestESPIDLibbluStream()` for a list of streams: `Request` checks the limit
and the wish, `TryNext` and `Assign` are the search loop with the insertion in
the sorted list.

### SystemTables
What `initSystemStreams()` builds once all streams have their PIDs: PAT, PMT and
SIT as sequences of bytes, from the properties of the streams and the copy
control settings, with the descriptors of each coding type.  As in the code,
the lengths are sums of their own (`LoopLength`, the `...SectionLength`), computed
before anything is written and used to write the header, to place the checksum
and to fill whole packets.  The checksum is a constant, any function of the
bytes: nothing here depends on which.  The operators from `SectionLengthIn` on
are a receiver that knows only the syntax of sections.

### HrdVerifier
`processAUH264HrdContext()` in three parts (the CPB is a sequence of
access units with their removal times, the DPB one of pictures with their
output times): `Arrive` computes the times of the
access unit in hand and makes the conformance tests, `Decode` is one turn of the
loop that removes access units from the coded picture buffer (CPB) and moves
pictures to the decoded one (DPB), `Accept` puts the access unit in hand in the
CPB.  At each removal the loop over the DPB (`UpdateDpb`) goes on turn by turn
(`Turn`): a picture whose output time has come leaves, those behind it move, and
the same place is looked at again.  `build` tells programs with and without assertions.  Times are unsigned,
so that an interval between removals out of order wraps around (`Since`), and a
limit computed from it that its type cannot hold is any value (`Converted`).
Faithful to the code, only pictures not used as reference are ever stored, and
too many pictures in the DPB only cause a message.  `arrived`, the whole past,
is there for the properties only.

### EsmsCommands, EsmsFormat, EsmsScript
`EsmsCommands` has the commands of a script (insert from a file, insert data or
a data block, change the byte order, pad) and what the muxer builds from them,
byte by byte.  `ComputePesFrameLength` is what the writer puts in front.

`EsmsFormat` is the file: header with marker and directories, properties with
the source files and their checksums, format properties by coding type, data
blocks, packets.  Numbers are big endian sequences of bytes of `ByteRange`
values, so that the limits between the short and the long form of a time, a
size or an offset are a few units away from small numbers; a number that is too
large for its field is cut, as in the code (`U`).  `ParseScript` reads what the
`Write...` operators wrote, `MaxPackets` packets at most: the code reads on to
the end marker, and the number is there to be as large as one likes.

`EsmsScript` is the life of these files.  A run is a sequence of streams with
their options: for each, `Search` is `findValidESScript()` with its tries of
names, `CheckScriptFile` the validator (`isAValidESMSFile()` with the checksum
and the flags), `CreateScript` ... `MarkCompleted` are `generateScriptES()`
with a step per packet, and `UseScript` the parser.  `FinishRun` and `FailRun`
end it.  Between the steps the environment acts: `EditSource` changes a source
between runs or removes it, `Interrupted` stops a run anywhere, and what was
written stays as it happens to have left the buffers.  What an analyser finds is
the constant `Analysis`: a result for each content of a source and each options.
A content is its *head*, which the checksum sees, and its *tail*, which it does
not.  The name of a script is made of that of its source and a number, or given by
the user, who may give the script of another source.

### SourceUnits, EsParsers and the analysers
A source is a sequence of *units* (frame, segment, chunk, NAL unit), records of
the fields that control anything, each with its size in bytes.  An analyser has
a position in bytes, not in units: it advances by the sizes that it reads or
computes, and a position that is not the start of a unit is a parse error.
That is what makes `SourceOnce` say something.  All analysers have the same
variables (`input`, `options`, `pos`, `ctx`, `script`, `header`, `pc`), and
`EsParsers` runs one of them, as `generateScriptES()` does.  `pc` is `parse`,
`done`, `failed`, or `crashed` where the program would stop at an assertion or
read a null pointer.

* **Ac3Parser** – `ParseAc3Frame`, `ParseEAc3Frame`, `ParseMlpUnit` are the three
  kinds of turn of `analyzeAc3()`; the first frame of each kind is kept in `ctx`
  and those that follow are compared with it.  `WriteAgain` is the turn at a
  frame of an unknown `bsid`, that is written and not passed (section 6);
  `MaxPackets` stands for the room on the disk.
* **LpcmParser** – the chunks of a wave file in the order the code expects,
  then `WriteFrame` for each packet of 5 ms.
* **HdmvParser** – PGS and IGS.  `ParsePcs` ... `ParseOds` append a
  segment to the sequence of its type, `ParseEnd` computes the times of the set
  backwards from its presentation and writes it by types.  The pools of nodes
  are in the model, because of what `Reset` forgets (section 6).
* **VideoProperties, H262Parser** – what stands before a group of pictures,
  pictures, end codes; times from temporal references, rounded to floats as in
  the code (`Single`, `PlusFrames`).
* **DtsHeaders, DtsXll, DtsPatcher, DtsParser** – the core frames, the
  descriptor of an extension with its sizes in bits, the buffer of lossless
  frames and their smoothing, the header that is written again, and the loop
  over the file (raw, or the chunks of a DTS-HD file) in one or two passes.
* **H264Sps, H264Slice, H264Parser** – limits by level, sequence
  parameter sets with what the checks accept and what the patcher writes
  instead, picture parameter sets, messages and slice headers, and the loop over
  NAL units: when an access unit ends, what of it is written, and the times
  from picture order counts.


## 3. Runs

| run | question | bounds, and why they are enough |
|---|---|---|
| `MCCircularBuffer` | is the ring a FIFO through growth, wrap and failure? | sizes 0, 2, 4, 8, and 16 wraps to 0: every growth happens with every value of `top`; two entries tell order apart |
| `MCTStdStream` | is the check as strict as the update, are frames and bits in step, do pictures leave on time? | packets of 3 units, a transport buffer just under three packets as 512 bytes is under 3 × 188, rates of no whole number of units per tick; two or three PES packets with payloads below, at and above one packet, time stamps from "already over" to "all data waits", pictures displayed out of order; 15 ticks outlast every script |
| `MCStreamHeap` | is the heap a timer queue? | five streams: two levels and a last parent with one or two children; three times make all ties |
| `MCEsPesQueue` | does every frame arrive, once, in order, with bounded memory? | batches 3/6 and 2/3, scripts of 0 to 16 frames: shorter than, equal to and longer than both batches together |
| `MCMuxing` | periods, deadlines, rate, completeness and end | a second of 240 ticks, packets of 4 bytes, slots of 3½ ticks (no whole number, as 27 MHz and a real rate give), ten and twenty PES packets a second, a PMT of two packets; at constant rate without refusals; at variable rate with the PCR on a stream; and with every set of managed streams refused in every slot before tick 30 (`blockedUntil`), long enough to pass the DTS of the first PES packets |
| `MCTsPacket` | are packets legal, do units reassemble, do counters run? | real sizes; units around 176, 182, 183, 184 and around two packets: every branch of the adaptation field |
| `MCPidAllocation` | are PIDs distinct and in range, does the search end, and does a receiver find from the tables each stream under its PID? | all sequences of at most three requests over three types and five wishes: none, reserved, outside, first and later in the range; formats with no, one and two descriptors of all lengths, and one (MVC) that the PMT refuses; the PCR on its own PID and on that of a stream |
| `MCHrdVerifier` | does the verifier see every overflow, are both buffers exact? | two bits per tick, a CPB of 12, access units of 3 to 9 bits that arrive within a tick or two or wait, delays that put removals early, late and out of order, one to three access units in the CPB, two in the DPB; four access units fill and overflow both |
| `MCEsmsScript` | is what a run uses what the analyser finds, whatever happened before? | two sources that are edited at the beginning, further, or removed, one without packets, one with more pictures than directories; eight runs with streams that share a source with equal and with other options, take the script of another, force the rebuilding, or have a script and no source; any three of: runs, edits, interruptions; `ByteRange` 32 with times, sizes and offsets at both sides of the long form; a directory of 4, 3 names, 3 commands a packet, 4 packets read |
| `MCEsParsers` | is the script the source, in order, in time and truly described? | real sizes; for each codec a good stream and variations of each field that the code tests or copies, one at a time and in the first and in later units, and all short sequences of the kinds of units; 51 185 states |
| `MCEsmsOptions`, `MCPidLimits` | findings, see section 6 | |

`CHECK_DEADLOCK FALSE` appears where the program ends (`done`, `failed`,
`error`, the last tick of the model), and in `MCEsmsScript`, where runs are
asked for a bounded number of times.  The ring, the heap and the packet writer
never stop and are checked for deadlock; so are the analysers: one that has not
ended (`Ended`) always has a next step.

### Properties worth a note
* `CheckSound`: the check is made before, on whole packets and without the
  frames that the packet will register, the update after.  An *underflow* is
  a legitimate error of late data and is not excluded.
* `ProgramReadable` reads the tables with nothing but their syntax and compares
  with the PIDs that were given out and the properties of the streams, so that
  one length that disagrees with what is written after it makes the rest
  unreadable.
* `RemovedOnTime` excepts a picture whose time was over before any of it came.
* `SystemInTime`: a table is late by at most one slot per system stream;
  `CompleteBeforeDts`: a PES packet ends before its DTS.  Both need a buffering
  model that refuses nothing and streams within the rate (`NothingRefused`):
  with refusals or too much data the code gives no such promise.
* `RateKept`: at constant rate the clock and the number of packets agree
  exactly, so that a PCR tells the position; else the clock is never behind.
* `CpbSound`: the verifier compares the CPB with its size only when an access
  unit leaves or ends; the property compares a buffer filled bit by bit at
  every instant up to the end of the last access unit accepted.
* `DpbExact` is about what the loop over the DPB leaves, which the property says
  without a loop: pictures leave from any place while it goes on, and one that
  moved is not to be passed over.  It takes two pictures that leave at one
  removal to see that.  It is about streams whose removal times increase, which the verifier
  means to enforce; the observation on removals in section 6 is why it must say
  so.
* `UsedIsFaithful`: all that is read, to each value, is what an analyser finds
  in a source whose first bytes are those of now, under options that are present
  as those of the stream are; and under a name of its own (`IsOwnName`) a stream
  never reads the script of another source.  It says no more than checksum
  and flags can tell (`Findings`), because three things do go unseen: an edit
  further in the source, other values of the same options (`UsedHasOptions`,
  finding 1), and a script of another source that the user names, which the third
  run of `MCRuns` does.  So it excepts names that some run gives to a stream of
  another source: what is under them may be anybody's.
* `MarkedIsWhole` excepts the script of a stream without packets: it is written,
  marked, and refused by the parser.
* `NotRewritten` excepts rebuilding by force, which does write a script again that
  another stream of the run reads; `ReusedWhenUnchanged` excepts sources of more
  files than `MaxDir`, whose scripts the validator always refuses.  All three
  exceptions are behaviours of the code.
* `SourceOnce`, where an analyser comes to its end, is relative to what is to be kept, told from the input alone
  and not from the decisions of the analyser: the core when it is to be
  extracted, closed display sets, frames after the delay of the encoder, NAL
  units that do not come twice.  For AC-3 it also says of any other moment that
  no bytes were written twice, but where the parser stands at a frame of an
  unknown `bsid`, which it does write again and again.
* `Timed` compares with times computed from the whole input: rank, display
  order, samples before.  The H.262 parser computes in single precision, which
  is exact up to 2^24 ticks, 0.6 seconds; after that `Timed` allows two spacings of
  floats around the exact time (`IsAbout`), wherever the group is in the stream, one
  picture in each frame period and increasing decoding times before it is shown.
  For H.264 it is about streams whose counts are regular, by one or by two
  (`SourceStep`, told from the first period of the input and not from what the
  parser found out): a doubling that it fails to see gives half the rate.  A first
  period of one picture tells no step and is excepted, and so are field coded
  streams, whose times drift (section 6).
* `BuiltAsMeant` plays the commands of the script on a source whose bytes are
  all different and compares with what was meant: wave samples with their bytes
  swapped, rebuilt DTS frames whose headers tell where lossless frames start,
  H.264 access units with patched parameter sets.  AC-3 and MPEG-2 copy the
  source and have nothing to build.

### Fairness
One thread runs the loop and nothing in it waits, so some step is always taken:
weak fairness of the whole loop (`WF_vars(Run)`, `WF_vars(Next)`,
`WF_vars(Step)`), never of one alternative.  `Terminates` is then about the
program: the retry loop inside a slot must make progress by itself, and an idle
slot must take time.  In `MuxingContext` errors are not fair: the loop ends
without them.  `blockedUntil` is the one environment assumption: buffers do not
stay full for ever.  In `EsmsScript` neither edits nor interruptions nor the
start of a run are fair: `RunsEnd` is about the restart that an analyser may ask
for.


## 4. Proofs

Checked by TLAPS for every value of the constants that satisfies the named
assumptions.

* **Queues_proofs**, the ring – `RingTypeCorrect`, `EntriesWritten`,
  `RingRefinement` (`RingSpec => RefinesFifo`).  Inductive invariant:
  `RingTypeOK`, `RingOK` (the first index is inside the array, which is empty or
  at least of the default size), `NoGarbage`.  `NoGarbage` is not inductive
  alone: a growth must know where the wrapped entries end.  Lemmas: `x % n`
  below `2n` (`ModOnce`), slots are injective, a write changes one entry
  (`WriteSlot`), and the heart of it, `GrowKeeps`: after a growth and the move of
  the wrapped part every entry is read where it was.  From them each action is a
  step of `Fifo`.  Assumed: a default size below the width.
* **Queues_proofs**, the read-ahead – `DeliveredInOrder`, `EndIsComplete`,
  `FillFindsAFrame`, `ReadAheadIsBounded`, with `TypeCorrect` and `SizesCorrect`,
  for scripts of any length and any positive batch sizes.  Inductive invariant:
  the conjunction of all of them.  They need one another: the refill tests
  counters, so exact counters are needed to find a frame, and the end is the
  end only because `built \o pesQueue \o scriptsQueue \o file = script`.
* **TsPacket_proofs** – `HeadersLegal`, `UnitsReassembled`, `CountersRun`,
  `TypeCorrect`, under `~PcrOnEs` (with it `PacketsLegal` is false, section 6),
  for any packet, header and unit size.  The invariant adds: the header in hand
  is the one the present offset and counter give, whatever was dropped in
  between, and the receiver is in step.
* **PidAllocation_proofs** – `InRange`, `Distinct`, for any types, ranges and
  requests.  The argument is not the one that the code suggests.  What is
  registered is the base PID of the type and not the PID selected (finding 2), so
  the list does not hold the PIDs in use; they are distinct because a
  second stream of a type always finds the base taken and fails.  The invariant
  says so: the base of each type that has a stream is registered
  (`BaseRegistered`), no type has two (`OneOfEachType`), and the list is one in
  which the walk stops before smaller values only (`Walkable`), which is what
  "sorted" has to mean for the search to see a duplicate.
* **MuxingContext_proofs** – `HeapComplete`, `ClockAgrees`, `DtsLateEnough` and
  `Implementation` (`Spec => IsTransportStream`), for any streams, scripts,
  rates and periods and whatever the buffering model answers.  Invariant: types,
  `HeapHasTheRest`, `RateKept`, a stream without data left has built its last
  PES packet (`EndOK`), and padding only starts with an empty heap (`PadOK`).
  `HeapHasTheRest` alone is not inductive: a packet that ends a PES packet must
  know whether there is another.  `DtsLateEnough` needs that the greatest of the
  reference times exists, from the finiteness of the set of streams: smallest
  elements of sets of naturals (`Smallest`, by well-foundedness) are turned into
  a least bound (`FiniteMax`).  In the refinement a packet is a
  `Carry` or, with the last byte of a PES packet, a `Complete`; ticks of the
  clock and moves between the phases of the loop are stutters.
  `TablesComeFirst` and `TablesInTime` (`SystemInTime`, the deadline of each
  system stream) are about periods.  First every table is sent once: each slot
  takes one packet of `FirstLeft`, so that the last is out after as many slots
  as `FirstPackets` has elements.  From then on a stream that is served
  is due again only after all that are due now, so that a stream waits for at
  most one slot for each stream ahead of it (`ThenInTime` counts them).
  Assumed: all tables once fit in the period of each (`RoomAssumption`; a few
  packets, 0.3 ms at 48 Mb/s, against periods of 50 ms and 500 ms,
  `util.h:29`–`:32`; it fails below about 150 kb/s), and the PCR has the lowest
  priority of the system streams (`PriorityAssumption`,
  `muxingContext.c:42`–`:57`).
* **StreamHeap_proofs** – `HeapOrdered`, `TypeCorrect`, `ReadyComplete` and
  `Implementation` (`Spec => RefinesTimerQueue`), for any streams, priorities
  and times.  Routes are proved about first: a route is a line (`RouteLine`) with
  an end (`RouteEnd`), because a rank (the index, or the size less the index)
  decreases along it; then what a shift moves (`ShiftedMoves`) and that it
  neither loses nor doubles a node (`ShiftedKeeps`).  `ShiftUpOrders` and
  `ShiftDownOrders` say that a heap but for the node that is shifted becomes
  one.  That the root is to be served before all others, not only before its
  children, is an induction over depth (`RootIsFirst`), from which an
  extraction is one of `TimerQueue` and the test of the root speaks for all.
* **TStdStream_proofs** – `CheckIsSound`, `Accounted`, `OnTime` and
  `TypeCorrect`, for any chain that satisfies `ChainAssumption`, any PES packets
  and any times at which the loop comes back.  Inductive invariant: each buffer
  is sound (its level within its size; empty frames only in front; in a
  removal buffer, nothing held of a frame that is due), and the chain is
  (`ChainSound`: what the frames of a buffer announce and it does not hold is
  exactly what is upstream).  The second is why data never comes without a
  frame, the first why it never overflows: the check asks room for a packet
  with its headers, on a state without the frames that the packet registers, and
  the update passes less, starts from the same level and lets at least as much
  out (`FitsStill`).  Sums over frames are recursive functions; their lemmas
  (`SumSteps`, `SumPlus`, ...) go by induction on membership in a set of naturals.
* **HrdVerifier_proofs** – `CpbIsSound`, `DpbIsExact`, `OccupancyIsExact` and
  `TypeCorrect`, for any bit rate, buffer sizes and access units.  The verifier
  compares with the size of the CPB at the removals during an arrival and at
  its end, the property asks every instant.  The invariant `Checked` is why that
  is enough: an instant of the arrival is either proved good, or all that was
  decoded so far left before it; then only what is still in the CPB can be in
  the ideal buffer, and the first removal that is not before the instant, or the
  end of the arrival, proves it good.  Removal times need not increase for that.
  The filling of the ideal buffer is a sum over the past (`Fullness`), the
  occupancy of the verifier a counter: `OccupancyExact` ties the two.  For the
  DPB the invariant of its loop (`InLoop`) is that what is before its place stays
  and that the pictures to come, of before and of now, are the same (`Updated`).
* **EsmsScript_proofs** – `NeverRewritten`, `TypeCorrect`, and two facts behind
  the recovery from interruptions: `OnlyCompleteUsed` and `MarkedAtTheEnd`, for
  any sources, edits, runs and findings and an interruption between any two
  steps.  The invariant ties the names that streams registered to the
  scripts in use and the name being tried to those left in `Search`; the marker
  in a file of this run to the last step of its writing.  Types need that each
  field is written in as many bytes as it has: `UBytes`, `BitsBytes`,
  `FlattenSeqs`, and one lemma for each part of the file.
  `MarkedAreWhole` and `UsedAreWhole` say what that is for: a file with the
  marker, and every script in use, is byte for byte what one uninterrupted
  analysis of some source writes (`IsAnImage`), although it was written in as
  many steps as it has packets, over whatever an earlier run left under the
  same name, with its directories filled in last.  A script under construction
  is the beginning of such an image (`Begun`), and an analysis that comes to its
  end is one that either was made for the doubled timing or does not ask for it
  (`GoesToItsEnd`).
  `UsedAreFaithful` (`UsedIsFaithful`) and `MarkedAreFaithful` (`MarkedIsWhole`)
  add what is read in these bytes: every field, command, packet, format and
  block that the analyser found (`ImageRead`).  The round trip goes from small
  to large.  A number is what its digits give back (`Digits`, `FittingAt`), in
  the short field or in the long one; a command is read as it was written
  (`CommandRead`, one lemma for each of the five), the next one where it ends
  (`CommandsRead`); so is a packet (`PacketRead`), which does not start like the
  end marker, so that all packets are read and no more (`PacketsRead`);
  directories point to their sections (`OffsetsRead`), each of which is read as
  written (`PropertiesRead`, `FormatRead`, `BlocksRead`).  Everything is said of
  bytes *at a place* of a file (`At`), which is what concatenation and the
  update of the header keep.  For `UsedIsFaithful` the invariant adds `Readings`:
  a script that is read has flags and sources that were tested, and neither
  changes until the run ends; and `Owned`: a stream was registered under a name
  that was given to it or made for its source (`FoundName`), so that whoever
  completes a script under a name of a source's own is a stream of that source
  (`Owner`, `MarkOwns`).
  Assumed: a run has no more streams than there are names to try
  (`RunsAssumption`; the code checks 32 streams at `muxingContext.c:516` and
  tries 100 names), a source has a name and a content (`SourcesAssumption`),
  analysers find numbers where numbers are due (`AnalysisAssumption`), and these
  fit in their fields (`FieldsAssumption`): the writer cuts a number that does
  not, and tests none.  A PES packet has at most 32 commands
  (`scriptData.h:122`) and fields of codecs come from fields of as many bits; of
  the numbers of source files and data blocks (8 bits), the data in a command (16),
  bit rates, blocks and payloads (32), the theorems only speak as long as they
  are within these limits.  Also assumed there:
  the options that are asked for do not double the timing, which only the
  H.264 analyser turns on (`h264_parser.c:364`), for the order of the pictures in
  the source.  `MCEsmsScript` checks all of these assumptions of its sources, at
  both sides of the short fields.

Only model-checked, and why:

* liveness (`AllBuilt`, `Terminates`, `Answered`, `RunsEnd`) is out of the
  prover's reach;
* `ReusedWhenUnchanged`: it holds for the runs of the configuration, and not for
  any: a forced run of two streams that share a script may leave in it a source
  of more files than the directory holds, which the validator then refuses;
* `ProgramReadable`: its reader is recursive in the tables;
* `CompleteBeforeDts`: whether PES packets fit before their decoding times
  follows from the numbers of a script, rates against sizes, and is false for
  others;
* the analysers (`SourceOnce`, `Timed`, `HeaderFaithful`, `BuiltAsMeant`): bit
  operations and recursion over their sources.


## 5. What is not modelled

* **Values**: texts, tags, CRC, samples, entropy coded slices, palettes and
  pictures, matrices, the bytes of PES headers and adaptation fields,
  the extra header of BDAV packets, messages.  Syntax elements are fields of
  records; sizes in bits appear where code computes with them (DTS descriptors).
  Strings of file names are values.
* **Floating point**: `currentStc` and rates are doubles in the code; the models
  use fractions of a tick and whole rates and round where the code does.  Frame
  rates are exact fractions, which stands for the comparison within 10^-4 of
  `getHdmvFrameRateCode()`.  Times of H.262 are rounded to floats after each
  operation, as on targets that evaluate `float` in single precision without
  contraction (x86-64 with SSE2); the checked streams are below 2^31 ticks, and in
  longer ones the spacing grows, to 2^13 ticks after an hour.
* **Widths** of 64-bit products (the filling rate of a leak buffer overflows
  after hours and then never bites); rates are parameters.
* **Filters by PID and label** in the T-STD graph; see the plan.
* **IGS compiler**: an XML description and pictures to segments, a batch of
  formatting and image processing; its sizes are in `HdmvParser`.
* **Input**: options, META files, INI files.  Text formats, read once at the
  start, without state of their own.
* **Utilities**: buffered files are positions, bit readers are fields; hash
  tables, CRC tables, XML and messages are libraries to the rest.
* **cwalk**: vendored.

`PROJECT.json` has the full list with reasons.


## 6. Findings

1. `MCEsmsOptions` – a run with `--fps` writes a script, and a second run with
   another value takes it: the flags in the script tell that a rate, an aspect
   ratio or a level was asked for, and not which one.  The stream keeps the rate of
   the first run, where the help of `main.c:274` says that it is changed to the
   specified one.
2. `MCPidLimits` – the base PID is registered in place of the one selected: the
   second stream of a type is refused, although limits of up to 32 and a test
   project with several PG streams say otherwise.

What follows was met while modelling.  The models do as the code does, and the
properties except it where they say so; it has no run of its own.

*Muxing.*  A system stream that is due and has no room hides the system streams
after it until its buffer drains.  The PCR may be put on an elementary stream, a
setting that nothing turns on at this commit (`muxingSettings.h:40`) and that the
modules have as an input: then `injectionRequired` is set at the first period
and never cleared (`muxingContext.c:763`), so that all its later packets carry a
PCR, and in a packet with more than 176 bytes of data left the stuffing length
wraps, so that the header exceeds 188 bytes (`tsPackets.c:158`; with
`PcrOnEs = TRUE` `PacketsLegal` fails).  TrueHD is timed with
`pesNbSec` 200 where its stream has 1200 a second
(`elementaryStreamProperties.h:319`, `elementaryStream.c:217`).

*Tables.*  The AVC descriptor of a stream of still pictures has the flag
`stillPicture` as its `level_idc`, and `AVC_still_present` is never set
(`systemStream.c:534`).

*Scripts.*  32 data blocks where the format has 255 (`scriptData.h:49`, `:403`);
the insertion mode moves memory the wrong way (`scriptData.c:237`); the bitrate
mode of AC-3 is written in place of the bitstream mode
(`scriptCreation.c:838`, comment on line 835).

*HRD verifier.*  An access unit alone in the CPB has as many bits as the CPB, and
the assertion against an underflow is strict (`h264_hrdVerifier.c:1449`,
`RemovalAsserted`); the test that a removal is late enough after the one before
subtracts unsigned times (`:1091`, `RemovalsSpaced`).

*H.264.*  Each field counts as a picture, so that the times of field coded streams
drift (`h264_parser.c:686`); pictures that nothing separates, or that have equal
slice headers, share an access unit (`:3792`); the delimiter of a second field
after filler data is taken for a duplicate (`:905`); an incomplete field at the
end of the file is written as an access unit (`:4197`); an empty user data
message stops at an assertion; the patched `video_format` is always NTSC
(`h264_patcher.c:662`) and a patched set is reused for others that differ in
their lists only (`:177`); `fpsChange` and `levelChange` edit the parameter set
and nothing else.

*MPEG-2.*  The frame rate is multiplied by the denominator of its extension plus
one (`h262_parser.h:482`); the number of pictures of a group is only compared
after they are written (`h262_parser.c:2325`).

*DTS.*  The context is made before the peak bit rate file is opened, so that the
second pass is never chosen at run time (`dts_parser.c:2027`, `:2046`; compare
`README.md:36`); the flag that drops extensions before the first core frame is
never initialised (`:1770`); sizes of patched delays are truncated
(`dts_patcher.h:87`).

*HDMV.*  The pool of sequences is emptied without its count, so that a later display
set reads before it and the program crashes (`hdmv_common.h:119`, `Crash`); a
subtitle without window definition is read through a null pointer
(`pgs_parser.c:208`); a sequence that is not finished is not noticed
(`hdmv_common.c:384`).

*AC-3.*  A syncframe whose `bsid` is 9, 10 or above 16 is reported and not passed
(`ac3_parser.c:2372`: `LIBBLU_AC3_ERROR` does not return): the same bytes are
written as one more frame at each turn, an AC-3 frame later each time, until the
disk is full (`WriteAgain`).  As the first frame it has no length, and an
assertion on the empty command stops the program (`scriptCreation.c:1229`,
`Crash`); a build without assertions would write empty frames in the same way.
A TrueHD stream can come to an assertion on its number of channels
(`ac3_parser.c:3210`, `TrueHdChannelsKnown`); E-AC-3 frames of less than six
blocks are timed as if they had six (`:3103`).


## 7. Plan

Done, the most central behaviour first: ring, T-STD chain, heap, read-ahead
queues, loop, packets, PIDs and tables, H.264 HRD verifier; then scripts over
crashes and edits, and the analysers of all codecs; proofs of nine components.
Next:

1. `TStdMux`: the filter that routes by PID and label, the lists of buffers,
   and the loop with real chains in place of the set `full`: system and
   elementary branches together, so that refusals have their true causes.
2. The IGS compiler as far as it is control: references between pages, buttons
   and objects, and the segments it cuts.
3. The analyser of each codec feeding `EsmsScript`, in place of `Analysis`.

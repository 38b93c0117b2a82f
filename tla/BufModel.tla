------------------------------ MODULE BufModel ------------------------------
(***************************************************************************)
(* tStdVerifier/bufferingModel.c: the buffers of the T-STD model and the   *)
(* two operations on a chain of them.  updateBufModelBuffer() puts data in *)
(* the first buffer and lets it flow; checkBufModelBuffer() tells whether  *)
(* that would overflow.  Pure operators; TStdStream drives them.           *)
(*                                                                         *)
(* A buffer's parameters (constant) are a record                           *)
(*   type               "leak" or "removal"                                *)
(*   bufferSize, instantFilling, dontOverflowOutput                        *)
(*   num, den           leaked bits per tick (removalBitrate = num / den)  *)
(* its state is a record                                                   *)
(*   bufferInputData    data that did not enter yet                        *)
(*   bufferFillingLevel, lastUpdate                                        *)
(*   storedFrames       sequence of [header, data, removal]                *)
(* and a chain is a sequence of buffers, each the output of the one before,*)
(* the last one discarding what leaves it (NODE_VOID).  No caller sets the *)
(* frame options outputDataSize and doNotRemove, so frames lack them.      *)
(***************************************************************************)
EXTENDS Integers, Sequences

MIN(a, b) == IF a <= b THEN a ELSE b

EmptyBuffer(timestamp) ==
  [bufferInputData |-> 0, bufferFillingLevel |-> 0,
   lastUpdate |-> timestamp, storedFrames |-> <<>>]

\* addFrameToBuffer()
WithFrame(buf, frame) ==
  [buf EXCEPT !.storedFrames = Append(@, frame)]

\* The sum of the first n elements of s.
SumOf(s, n) ==
  LET sum[k \in 0..Len(s)] == IF k = 0 THEN 0 ELSE sum[k - 1] + s[k]
  IN  sum[n]

FrameBits(frame) == frame.header + frame.data
BitsOf(frames) == [i \in 1..Len(frames) |-> FrameBits(frames[i])]
FramesBits(frames) == SumOf(BitsOf(frames), Len(frames))

\* More may enter than what waits to.
DataInputUnbounded(param, buf, timestamp, inputData, fillingBitrate) ==
  (timestamp - buf.lastUpdate) * fillingBitrate

\* computeBufferDataInput(): bits that enter at timestamp.  The filling rate
\* multiplies ticks although it is a number of bits per second.
DataInput(param, buf, timestamp, inputData, fillingBitrate) ==
  IF param.instantFilling
    THEN buf.bufferInputData + inputData
    ELSE MIN(buf.bufferInputData + inputData,
             (timestamp - buf.lastUpdate) * fillingBitrate)

\* computeLeakingBufferDataBandwidth(): the ceiling is taken on each call.
LeakingBandwidth(param, buf, fillingLevel, timestamp) ==
  MIN(fillingLevel,
      ((timestamp - buf.lastUpdate) * param.num + param.den - 1) \div param.den)

\* A frame leaves only after its time.
RemovalBandwidthLate(buf, timestamp) ==
  LET frames == buf.storedFrames
      reached == CHOOSE n \in 0..Len(frames) :
                   /\ \A i \in 1..n : frames[i].removal < timestamp
                   /\ n < Len(frames) => frames[n + 1].removal >= timestamp
  IN  SumOf(BitsOf(frames), reached)

\* computeRemovalBufferDataBandwidth(): the leading frames whose time came,
\* up to the first whose time did not.
Reached(frames, timestamp) ==
  CHOOSE n \in 0..Len(frames) :
    /\ \A i \in 1..n : frames[i].removal <= timestamp
    /\ n < Len(frames) => frames[n + 1].removal > timestamp
RemovalBandwidth(buf, timestamp) ==
  SumOf(BitsOf(buf.storedFrames), Reached(buf.storedFrames, timestamp))

\* computeBufferDataOutput(); room is the free space of the output buffer.
DataOutput(param, buf, fillingLevel, timestamp, room) ==
  LET bandwidth == IF param.type = "leak"
                     THEN LeakingBandwidth(param, buf, fillingLevel, timestamp)
                     ELSE RemovalBandwidth(buf, timestamp)
  IN  IF param.dontOverflowOutput THEN MIN(bandwidth, room) ELSE bandwidth

\* Takes bandwidth bits from the frames in order; a frame's header is dropped,
\* its data is emitted to the next buffer.
Left(frames, bandwidth, n) ==
  bandwidth - MIN(bandwidth, SumOf(BitsOf(frames), n - 1))
HeaderTaken(frames, bandwidth, n) ==
  MIN(frames[n].header, Left(frames, bandwidth, n))
DataTaken(frames, bandwidth, n) ==
  MIN(frames[n].data, Left(frames, bandwidth, n) - HeaderTaken(frames, bandwidth, n))
Consumed(frames, bandwidth) ==
  [left    |-> Left(frames, bandwidth, Len(frames) + 1),
   emitted |-> SumOf([n \in 1..Len(frames) |-> DataTaken(frames, bandwidth, n)],
                     Len(frames)),
   frames  |-> [n \in 1..Len(frames) |->
                 [frames[n] EXCEPT !.header = @ - HeaderTaken(frames, bandwidth, n),
                                   !.data = @ - DataTaken(frames, bandwidth, n)]]]

\* One frame is popped too many.
WithoutFirstFrame(frames) == IF frames = <<>> THEN frames ELSE Tail(frames)

\* The loop that pops empty frames advances its index although each pop
\* already shifts the frames: its k-th test looks at frame 2k - 1.
WithoutEmptyFrames(frames) ==
  LET stop == {k \in 1..Len(frames) + 1 :
                 \/ 2 * k - 1 > Len(frames)
                 \/ FrameBits(frames[2 * k - 1]) > 0}
      first == CHOOSE k \in stop : \A l \in stop : k <= l
  IN  SubSeq(frames, first, Len(frames))

\* updateBufModelBuffer() up to the transfer to the output buffer.  After an
\* error the muxer gives up and nobody reads the buffer again.
Updated(param, buf, timestamp, inputData, fillingBitrate, room) ==
  LET entering == DataInput(param, buf, timestamp, inputData, fillingBitrate)
      level    == buf.bufferFillingLevel + entering
      leaving  == DataOutput(param, buf, level, timestamp, room)
      consumed == Consumed(buf.storedFrames, leaving)
  IN  [err |-> CASE level < leaving -> "underflow"
                 [] level - leaving > param.bufferSize -> "overflow"
                 [] level - leaving \in 0..param.bufferSize
                    /\ consumed.left > 0 -> "unexpected data"
                 [] OTHER -> "none",
       emitted |-> consumed.emitted,
       buf |-> [bufferInputData    |-> buf.bufferInputData + inputData - entering,
                bufferFillingLevel |-> level - leaving,
                lastUpdate         |-> timestamp,
                storedFrames       |-> WithoutEmptyFrames(consumed.frames)]]

\* Buffer k asks for room in its output before it emits: that output is
\* updated first, with no input.
NeedsRoom(params, k) == params[k].dontOverflowOutput /\ k < Len(params)

\* The output already gets what its input holds.
OutputFed(params, bufs, k, timestamp, fillingBitrate) ==
  Updated(params[k + 1], bufs[k + 1], timestamp, bufs[k].bufferFillingLevel,
          fillingBitrate, 0)

OutputSettled(params, bufs, k, timestamp, fillingBitrate) ==
  Updated(params[k + 1], bufs[k + 1], timestamp, 0, fillingBitrate, 0)

RoomIn(param, buf) == param.bufferSize - buf.bufferFillingLevel

\* computeBufferDataOutput() of buffer k, up to the room it finds.
Ahead(param, bufs, k, settled) ==
  IF settled.err # "none"
    THEN [bufs |-> bufs, err |-> settled.err, room |-> 0]
    ELSE [bufs |-> [bufs EXCEPT ![k + 1] = settled.buf], err |-> "none",
          room |-> RoomIn(param, settled.buf)]
LookAhead(params, bufs, k, timestamp, fillingBitrate) ==
  IF NeedsRoom(params, k)
    THEN Ahead(params[k + 1], bufs, k,
               OutputSettled(params, bufs, k, timestamp, fillingBitrate))
    ELSE [bufs |-> bufs, err |-> "none", room |-> 0]

\* updateBufModelNode() on a chain: [bufs, err, input], input being what the
\* last buffer let through.
Passed(bufs, k, updated) ==
  [bufs |-> [bufs EXCEPT ![k] = updated.buf], err |-> updated.err,
   input |-> updated.emitted]
UpdateNode(params, ahead, k, timestamp, input, fillingBitrate) ==
  IF ahead.err # "none"
    THEN [bufs |-> ahead.bufs, err |-> ahead.err, input |-> 0]
    ELSE Passed(ahead.bufs, k,
                Updated(params[k], ahead.bufs[k], timestamp, input,
                        fillingBitrate, ahead.room))
UpdateChain(params, bufs, timestamp, inputData, fillingBitrate) ==
  LET after[k \in 0..Len(params)] ==
        IF k = 0 THEN [bufs |-> bufs, err |-> "none", input |-> inputData]
        ELSE IF after[k - 1].err # "none" THEN after[k - 1]
        ELSE UpdateNode(params,
                        LookAhead(params, after[k - 1].bufs, k, timestamp, fillingBitrate),
                        k, timestamp, after[k - 1].input, fillingBitrate)
  IN  after[Len(params)]

\* A check that looks at the first buffer only.
CheckFirst(params, bufs, timestamp, inputData, fillingBitrate) ==
  LET level == bufs[1].bufferFillingLevel
               + DataInput(params[1], bufs[1], timestamp, inputData, fillingBitrate)
  IN  [ok   |-> level - DataOutput(params[1], bufs[1], level, timestamp, 0)
                  <= params[1].bufferSize,
       bufs |-> bufs]

\* checkBufModelNode() on a chain: [ok, bufs, input, stop].  It is not a pure
\* question: a buffer that asks for room updates its output buffer.  The bits
\* that would leave a buffer are tested on the next one headers included.  An
\* error stops the descent and counts as "fits", and so does an underflow.
Tested(param, acc, bufs, level, leaving) ==
  [bufs |-> bufs, stop |-> FALSE, input |-> leaving,
   ok   |-> acc.ok /\ (leaving > level \/ level - leaving <= param.bufferSize)]
CheckNode(param, acc, ahead, k, timestamp, fillingBitrate) ==
  LET level == ahead.bufs[k].bufferFillingLevel
               + DataInput(param, ahead.bufs[k], timestamp, acc.input, fillingBitrate)
  IN  IF ahead.err # "none"
        THEN [bufs |-> acc.bufs, stop |-> TRUE, input |-> acc.input, ok |-> acc.ok]
      ELSE Tested(param, acc, ahead.bufs, level,
                  DataOutput(param, ahead.bufs[k], level, timestamp, ahead.room))
CheckChain(params, bufs, timestamp, inputData, fillingBitrate) ==
  LET after[k \in 0..Len(params)] ==
        IF k = 0
          THEN [bufs |-> bufs, ok |-> TRUE, stop |-> FALSE, input |-> inputData]
        ELSE IF after[k - 1].stop THEN after[k - 1]
        ELSE CheckNode(params[k], after[k - 1],
                       LookAhead(params, after[k - 1].bufs, k, timestamp, fillingBitrate),
                       k, timestamp, fillingBitrate)
  IN  after[Len(params)]
=============================================================================

-------------------------------- MODULE DtsXll --------------------------------
(***************************************************************************)
(* codec/dts: the lossless frames of the assets.  Assets are appended to a *)
(* buffer, where one frame is decoded for each of them; an asset announces *)
(* where a frame starts in it and how long it waits in the buffer.  The    *)
(* sizes of the frames are then smoothed and cut again.                    *)
(***************************************************************************)
EXTENDS Integers, Sequences, SequencesExt, SourceUnits

KiB == 1024
DTS_XLL_MAX_SUPPORTED_OFILE_POS == 8
DTS_XLL_MAX_PBR_BUFFER_SIZE == 240 * KiB
MinOf(a, b) == IF a < b THEN a ELSE b
TotalLength(extents) == FoldLeft(LAMBDA n, e : n + e.len, 0, extents)

-----------------------------------------------------------------------------
(* Headers of a frame.                                                      *)

BytesOf(bits) == (bits + 7) \div 8

\* decodeDtsXllCommonHeader(): reserved bytes are only read on a byte boundary.
CommonHeaderBits(f) == 74 + f.sizeBits + IF f.scalableLsbs THEN 4 ELSE 0
ReservedSize(f) == f.headerSize - BytesOf(CommonHeaderBits(f)) - 2
DecodedCommonHeader(f) ==
  /\ f.sync
  /\ f.version <= 2
  /\ ReservedSize(f) >= 0
  /\ ReservedSize(f) > 0 => CommonHeaderBits(f) % 8 = 0
  /\ f.crcOk

\* checkDtsXllCommonHeader()
CheckCommonHeader(f) == /\ f.headerSize >= 12
                        /\ f.size <= DTS_XLL_MAX_PBR_BUFFER_SIZE
                        /\ f.chSets <= 3
                        /\ f.segments <= 1024 /\ f.samples <= 512
                        /\ f.segments * f.samples <= 65536

\* decodeDtsXllChannelSetSubHeader(): only the first set is read.
ChannelSetSize(f) == BytesOf(14 + f.nbChannels)

-----------------------------------------------------------------------------
(* parseDtsXllToPbrBuffer(), decodeDtsXllFrame(): x.frames are the frames    *)
(* that start in the buffer, by their place, x.pending what is announced and *)
(* not decoded, x.decoded the decoded frames, x.sizes their target sizes.    *)

NoXll == [used |-> 0, active |-> 0, frames |-> <<>>, pending |-> <<>>, decoded |-> <<>>, sizes |-> <<>>]
Refused(x) == [x EXCEPT !.active = -1]
IsRefused(x) == x.active < 0

\* initDtsXllFrameContext()
LegalBufferSize(asset) == asset.nav.xll.sync => asset.nav.xll.bufferKb * KiB <= DTS_XLL_MAX_PBR_BUFFER_SIZE
Activated(x, asset) == IF asset.nav.xll.sync THEN [x EXCEPT !.active = asset.nav.xll.bufferKb * KiB] ELSE x

Delayed(x) == [x EXCEPT !.pending = [k \in DOMAIN @ |-> [@[k] EXCEPT !.delay = IF @ > 0 THEN @ - 1 ELSE 0]]]

\* The bytes before the announced frame belong to the one before it.
AppendedTo(pending, off, len) ==
  LET last == Len(pending)
  IN  [pending EXCEPT ![last].size = @ + len, ![last].pos = Append(@, Extent(off, len))]
Announced(asset, off) ==
  LET xll == asset.nav.xll
  IN  [size |-> xll.size - xll.offset, delay |-> xll.delay,
       pos |-> <<Extent(off + xll.offset, xll.size - xll.offset)>>]
PendingAfter(x, asset, off) ==
  LET xll == asset.nav.xll
      before == IF x.pending = <<>> THEN <<>>
                ELSE AppendedTo(x.pending, off, IF xll.sync THEN xll.offset ELSE xll.size)
  IN  IF xll.sync THEN Append(before, Announced(asset, off)) ELSE before
LegalAsset(x, asset) ==
  LET xll == asset.nav.xll
  IN  /\ xll.size = asset.length
      /\ xll.sync => /\ xll.offset < xll.size
                     /\ x.pending = <<>> => xll.offset = 0
      /\ x.pending # <<>> => Len(Last(x.pending).pos) < DTS_XLL_MAX_SUPPORTED_OFILE_POS

\* Without a pending frame what is read stays in the buffer all the same.
Fed(x, asset, off) ==
  [x EXCEPT !.used = @ + asset.nav.xll.size,
            !.pending = PendingAfter(x, asset, off),
            !.frames = @ \o [k \in DOMAIN asset.frames |-> [asset.frames[k] EXCEPT !.at = @ + x.used]]]

\* collectFrameDataDcaXllFrameSFPosition()
Collected(pos, amount) ==
  FoldLeft(LAMBDA acc, e :
             LET taken == MinOf(amount - TotalLength(acc), e.len)
             IN  IF taken > 0 THEN Append(acc, Extent(e.off, taken)) ELSE acc, <<>>, pos)
LeftOf(pos, amount) ==
  LET Before(k) == TotalLength(SubSeq(pos, 1, k - 1))
      Gone(k) == MinOf(pos[k].len, IF amount > Before(k) THEN amount - Before(k) ELSE 0)
  IN  SelectSeq([k \in DOMAIN pos |-> Extent(pos[k].off + Gone(k), pos[k].len - Gone(k))],
                LAMBDA e : e.len > 0)

\* The frame is aligned in the buffer.
Aligned(size) == 4 * ((size + 3) \div 4)
FrameHeld(x) == \E k \in DOMAIN x.frames : x.frames[k].at = 0
FrameAtStart(x) == x.frames[CHOOSE k \in DOMAIN x.frames : x.frames[k].at = 0]
DecodableFrame(x) ==
  /\ x.pending # <<>> /\ x.pending[1].delay = 0
  /\ FrameHeld(x)
  /\ LET f == FrameAtStart(x)
     IN  /\ DecodedCommonHeader(f) /\ CheckCommonHeader(f)
         /\ f.headerSize + ChannelSetSize(f) <= f.size
         /\ Aligned(f.size) <= x.used

\* The positions are asserted to hold the whole frame, without empty ones.
SoundPositions(x) == /\ \A k \in DOMAIN x.pending[1].pos : x.pending[1].pos[k].len > 0
                     /\ TotalLength(x.pending[1].pos) >= FrameAtStart(x).size
                     /\ x.pending[1].size >= Aligned(FrameAtStart(x).size)

\* What is recorded for the frame is the size of what is pending.
Decoded(x) ==
  LET size == FrameAtStart(x).size
      length == Aligned(size)
      first == x.pending[1]
      left == IF first.size = length THEN <<>>
              ELSE <<[size |-> first.size - length, delay |-> 0, pos |-> LeftOf(first.pos, size)]>>
  IN  [x EXCEPT !.used = @ - length,
                !.frames = [k \in 1..Len(SelectSeq(@, LAMBDA f : f.at >= length))
                              |-> LET f == SelectSeq(@, LAMBDA g : g.at >= length)[k]
                                  IN  [f EXCEPT !.at = @ - length]],
                !.pending = left \o Tail(@),
                !.decoded = Append(@, [pos |-> Collected(first.pos, size), started |-> FALSE,
                                       number |-> Len(@)]),
                !.sizes = Append(@, first.size)]

\* parseDtsXllFrame(): the outcome, and the context after it.
XllOutcome(x, asset, off) ==
  LET fed == Fed(Delayed(Activated(x, asset)), asset, off)
  IN  IF ~(LegalBufferSize(asset) /\ LegalAsset(x, asset) /\ DecodableFrame(fed)) THEN "error"
      ELSE IF ~SoundPositions(fed) THEN "crash"
      ELSE IF Decoded(fed).used > fed.active THEN "error" ELSE "decoded"
AfterXll(x, asset, off) == Decoded(Fed(Delayed(Activated(x, asset)), asset, off))

-----------------------------------------------------------------------------
(* performComputationDtsPbrSmoothing(): from the last frame to the first,   *)
(* what exceeds the greatest size is carried by the frame before.  Without  *)
(* a file of statistics, the size is a constant and no buffer is counted.   *)

FakeMaxSize == 3200
MaxSizeOf(file) == IF file = <<>> THEN FakeMaxSize
                   ELSE (FoldLeft(LAMBDA n, v : n + v, 0, file) + Len(file) - 1) \div Len(file)
SmoothedSize(size, max, buffer) ==
  LET least == IF buffer # 0 /\ size > buffer THEN size - buffer ELSE 0
  IN  IF least > MinOf(size, max) THEN least ELSE MinOf(size, max)
Smooth(sizes, max, buffer) ==
  FoldRight(LAMBDA size, acc :
              LET all == size + acc.carried
              IN  [targets |-> <<SmoothedSize(all, max, buffer)>> \o acc.targets,
                   carried |-> all - SmoothedSize(all, max, buffer)],
            sizes, [targets |-> <<>>, carried |-> 0])

\* substractPbrFrameSliceDtsXllFrameContext(): the next bytes of the frames, and
\* the first of them that starts in these bytes: where, and how many slices early.
HeldBytes(frames) == FlattenSeq([k \in DOMAIN frames |-> frames[k].pos])
Slice(frames, amount, nbSliced) ==
  LET Before(k) == TotalLength(HeldBytes(SubSeq(frames, 1, k - 1)))
      touched == {k \in DOMAIN frames : Before(k) < amount}
      starts == {k \in touched : ~frames[k].started}
      first == CHOOSE k \in starts : \A j \in starts : k <= j
      rest == [k \in DOMAIN frames |->
                 [frames[k] EXCEPT !.pos = LeftOf(@, amount - Before(k)), !.started = @ \/ k \in touched]]
  IN  [parts |-> Collected(HeldBytes(frames), amount),
       sync |-> IF starts = {} THEN <<>>
                ELSE <<[offset |-> Before(first), delay |-> frames[first].number - nbSliced]>>,
       left |-> SelectSeq(rest, LAMBDA f : f.pos # <<>>)]
=============================================================================

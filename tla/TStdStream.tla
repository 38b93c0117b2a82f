----------------------------- MODULE TStdStream -----------------------------
(***************************************************************************)
(* A branch of the T-STD model, as the muxer drives it.  The branch of an  *)
(* elementary stream gets the frames of a PES packet when it is built      *)
(* (addPesPacketToBdavStdLibbluES), and a transport packet is written only *)
(* if checkBufModel() says it fits, then registered in the transport       *)
(* buffer and put in the chain (muxNextESPacket).  The branch of the       *)
(* system streams gets all the frames of a packet when it is written       *)
(* (muxNextSystemStreamPacket).  The muxer serves other branches in        *)
(* between, which are independent: any time may pass between attempts.     *)
(*   audio   TB (leak) -> B (removal at DTS)                               *)
(*   video   TB (leak) -> MB (leak, bounded by the room in EB)             *)
(*           -> EB (removal at PTS)                                        *)
(*   system  TB (leak) -> B (leak)                                         *)
(* Sizes are in abstract units; a script is a sequence of PES packets, or  *)
(* of tables, [header, payload, dts, pts].                                 *)
(***************************************************************************)
EXTENDS BufModel

CONSTANTS Chain,           \* Chain[kind]: its buffers' parameters, from TB on
          TpSize,          \* bits of a transport packet
          TpHeader,        \* bits of its header when it is full
          FillingBitrate,  \* targetMuxingRate as the model uses it
          Inputs,          \* the [kind, script] to try
          MaxTime          \* bound of the model: last tick

Parameters == [type : {"leak", "removal"}, bufferSize : Nat,
               instantFilling : BOOLEAN, dontOverflowOutput : BOOLEAN,
               num : Nat, den : Nat \ {0}]
PesPackets == [header : Nat, payload : Nat \ {0}, dts : Nat, pts : Nat]

\* What the chains of tStdVerifier/codec and systemStreams.c have in common:
\* a transport buffer that leaks, then buffers that take what comes at once,
\* and only the one before the elementary buffer of a video asks for room.
ASSUME ChainAssumption ==
  /\ DOMAIN Chain = {"audio", "video", "system"}
  /\ \A k \in DOMAIN Chain : Chain[k] \in Seq(Parameters)
  /\ Len(Chain["audio"]) = 2 /\ Len(Chain["video"]) = 3 /\ Len(Chain["system"]) = 2
  /\ \A k \in DOMAIN Chain :
       /\ Chain[k][1].type = "leak"
       /\ \A n \in 1..Len(Chain[k]) :
            /\ n > 1 => Chain[k][n].instantFilling
            /\ Chain[k][n].dontOverflowOutput <=> k = "video" /\ n = 2
  /\ Chain["audio"][2].type = "removal" /\ Chain["system"][2].type = "leak"
  /\ Chain["video"][2].type = "leak" /\ Chain["video"][3].type = "removal"
  /\ TpHeader \in Nat /\ TpSize \in Nat /\ TpHeader < TpSize
  /\ FillingBitrate \in Nat /\ MaxTime \in Nat
  /\ \A input \in Inputs : /\ input.kind \in DOMAIN Chain
                           /\ input.script \in Seq(PesPackets) /\ input.script # <<>>

VARIABLES kind,       \* "audio", "video" or "system"
          bufs,       \* the chain
          now,        \* currentStcTs
          script,     \* PES packets not built, or tables not begun yet
          remaining,  \* data of the current PES packet not yet in a packet
          tried,      \* the slot of this tick was offered to the stream
          err         \* error of updateBufModel()

vars == <<kind, bufs, now, script, remaining, tried, err>>

Params == Chain[kind]

PesSize(pes) == pes.header + pes.payload

\* addPesPacketToBdavStdLibbluES(); nothing is registered for a whole table.
WithPesFrames(chain, pes) ==
  LET coded  == [header |-> pes.header, data |-> pes.payload, removal |-> pes.dts]
      output == [header |-> 0, data |-> pes.payload, removal |-> pes.pts]
  IN  CASE kind = "audio"  -> [chain EXCEPT ![2] = WithFrame(@, coded)]
        [] kind = "video"  -> [chain EXCEPT ![2] = WithFrame(@, coded),
                                            ![3] = WithFrame(@, output)]
        [] kind = "system" -> chain

\* addESTsFrameToBdavStd() and addSystemFramesToBdavStd()
WithTsFrame(chain, header, payload) ==
  LET packet == [header |-> header, data |-> payload, removal |-> 0]
      table  == [header |-> 0, data |-> payload, removal |-> 0]
  IN  IF kind = "system"
        THEN [chain EXCEPT ![1] = WithFrame(@, packet), ![2] = WithFrame(@, table)]
        ELSE [chain EXCEPT ![1] = WithFrame(@, packet)]

\* createH264BufferingChainBdavStd() and its siblings for audio and system
\* streams, then the first PES packet, which createLibbluMuxingContext() builds.
Init == \E input \in Inputs :
          /\ kind = input.kind
          /\ bufs = WithPesFrames([k \in 1..Len(Params) |-> EmptyBuffer(0)],
                                  input.script[1])
          /\ script = Tail(input.script)
          /\ remaining = PesSize(input.script[1])
          /\ now = 0 /\ tried = FALSE /\ err = "none"

AdvanceTime == /\ err = "none" /\ now < MaxTime
               /\ now' = now + 1
               /\ tried' = FALSE
               /\ UNCHANGED <<kind, bufs, script, remaining, err>>

Checked == CheckChain(Params, bufs, now, TpSize, FillingBitrate)

CanTry == err = "none" /\ ~tried /\ remaining > 0

\* checkBufferingModelAvailability() refused: the timestamp is pushed back.
Blocked == /\ CanTry
           /\ ~Checked.ok
           /\ bufs' = Checked.bufs
           /\ tried' = TRUE
           /\ UNCHANGED <<kind, now, script, remaining, err>>

\* The packet is written and enters the chain; when it was the last of its
\* PES packet, buildNextPesPacketLibbluES() builds the next one, if any.
Put(payload, put) ==
  LET next == put.err = "none" /\ remaining = payload /\ script # <<>>
  IN  /\ err' = put.err
      /\ bufs' = IF next THEN WithPesFrames(put.bufs, Head(script)) ELSE put.bufs
      /\ script' = IF next THEN Tail(script) ELSE script
      /\ remaining' = IF next THEN PesSize(Head(script)) ELSE remaining - payload
InjectPacket ==
  /\ CanTry
  /\ Checked.ok
  /\ LET payload == MIN(remaining, TpSize - TpHeader)
     IN  Put(payload, UpdateChain(Params,
                                  WithTsFrame(Checked.bufs, TpSize - payload, payload),
                                  now, TpSize, FillingBitrate))
  /\ tried' = TRUE
  /\ UNCHANGED <<kind, now>>

Next == AdvanceTime \/ Blocked \/ InjectPacket

Spec == Init /\ [][Next]_vars
-----------------------------------------------------------------------------
Nodes == 1..Len(Params)
Level(k) == bufs[k].bufferFillingLevel
Frames(k) == bufs[k].storedFrames
FramesData(frames) ==
  SumOf([i \in 1..Len(frames) |-> frames[i].data], Len(frames))

\* The buffers after an error, that nobody reads, are left out.
Buffers == [bufferInputData : Nat, bufferFillingLevel : Nat, lastUpdate : 0..now,
            storedFrames : Seq([header : Nat, data : Nat, removal : Nat])]
TypeOK ==
  /\ kind \in DOMAIN Chain
  /\ now \in 0..MaxTime /\ remaining \in Nat
  /\ script \in Seq(PesPackets)
  /\ tried \in BOOLEAN
  /\ err \in {"none", "underflow", "overflow", "unexpected data"}
  /\ err = "none" =>
       /\ bufs \in [Nodes -> Buffers]
       /\ \A k \in Nodes : Level(k) <= Params[k].bufferSize

(* A packet that the check let through never makes an update overflow a    *)
(* buffer nor finds data without a frame: the check, made before, on whole *)
(* packets and without their frames, is at least as strict as the update.  *)
CheckSound == err \notin {"overflow", "unexpected data"}

(* Every bit that is registered in a buffer's frames is in that buffer, or  *)
(* still upstream: in the transport buffer (packet headers are dropped on   *)
(* the way) or not yet in a packet.  Frames are thus neither lost nor       *)
(* doubled by partial transfers, nor by the loop that drops empty frames.   *)
FramesAccounted ==
  err = "none" =>
    /\ FramesBits(Frames(1)) = Level(1) + bufs[1].bufferInputData
    /\ FramesBits(Frames(2)) = Level(2) + FramesData(Frames(1))
                               + IF kind = "system" THEN 0 ELSE remaining
    /\ kind = "video" =>
         FramesBits(Frames(3)) = Level(3) + FramesData(Frames(2))

(* Right after an update a removal buffer holds nothing, at the head of its *)
(* frames, whose time has come: an access unit leaves in one piece, at the  *)
(* first update at or after its time stamp.  Only an access unit whose time *)
(* was over when it was registered, none of it being there yet, may be seen.*)
IsHead(frames, n) ==
  FrameBits(frames[n]) > 0 /\ \A i \in 1..(n - 1) : FrameBits(frames[i]) = 0
RemovedOnTime ==
  err = "none" =>
    \A k \in Nodes : Params[k].type = "removal" =>
      \A n \in 1..Len(Frames(k)) : IsHead(Frames(k), n) =>
        Frames(k)[n].removal > bufs[k].lastUpdate \/ Level(k) = 0
=============================================================================

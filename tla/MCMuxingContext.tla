--------------------------- MODULE MCMuxingContext ---------------------------
(* A second of 240 ticks and packets of 4 bytes: a video stream of ten PES  *)
(* packets and an audio stream of twenty per second, PAT, a PMT of two      *)
(* packets, SIT and PCR, and slots of three and a half ticks.               *)
EXTENDS MuxingContext, TLC

CONSTANTS video, audio, pat, pmt, sit, pcr, none

MCES == {video, audio}
MCSystem == {pat, pmt, sit, pcr}
MCPriority == pat :> 4 @@ pmt :> 3 @@ sit :> 2 @@ pcr :> 1
MCTableSize == pat :> 3 @@ pmt :> 6 @@ sit :> 4 @@ pcr :> 0
MCDelay == pat :> 48 @@ pmt :> 48 @@ sit :> 200 @@ pcr :> 48
MCRefPts == video :> 24 @@ audio :> 3
MCBitrate == video :> 960 @@ audio :> 640
MCPesNb == video :> 10 @@ audio :> 20
MCPesNbSec == video :> 20 @@ audio :> 20

Pes(dts, size) == [dts |-> dts, size |-> size, extensionFrame |-> FALSE]
Extension(dts, size) == [dts |-> dts, size |-> size, extensionFrame |-> TRUE]

\* Constant rate, with streams that fit it, over five periods of the tables.
MCFree ==
  {[cbrMuxing |-> TRUE, pcrPID |-> none, initialPresentationTime |-> 60, blockedUntil |-> 0,
    script |->
      video :> <<Pes(0, v1), Pes(24, v2), Pes(48, 4), Pes(72, v1), Pes(96, 12), Pes(144, 1)>> @@
      audio :> <<Pes(3, 4), Pes(15, a), Pes(27, 4), Pes(39, 4), Pes(51, a), Pes(120, 4)>>] :
     v1 \in {1, 4, 5, 9, 12}, v2 \in {1, 8, 12}, a \in {3, 4}}
\* Variable rate from a late start time; the audio stream carries the PCR, and
\* some of the video frames are extensions.
MCPcr ==
  {[cbrMuxing |-> FALSE, pcrPID |-> audio, initialPresentationTime |-> 100, blockedUntil |-> 0,
    script |->
      video :> <<Pes(0, v), Extension(24, 12), Pes(48, 4), Extension(60, v)>> @@
      audio :> <<Pes(3, 3), Pes(15, a), Pes(27, 3), Pes(39, 3), Pes(120, a)>>] :
     v \in {1, 5, 12}, a \in 1..3}
\* Short, for all verdicts of the buffering model.
MCBlocked ==
  {[cbrMuxing |-> FALSE, pcrPID |-> none, initialPresentationTime |-> 60, blockedUntil |-> 30,
    script |-> video :> <<Pes(0, 4), Pes(24, v)>> @@ audio :> <<Pes(3, 4), Pes(15, 3)>>] :
     v \in {1, 6}}
MCInputs == MCFree \cup MCPcr \cup MCBlocked
MCManaged == {pat, pmt, video, audio}
=============================================================================

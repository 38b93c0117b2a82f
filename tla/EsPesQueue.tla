----------------------------- MODULE EsPesQueue -----------------------------
(***************************************************************************)
(* elementaryStream.c: how the frames of an ESMS script become the PES     *)
(* packets of an elementary stream.  Two read-ahead queues lie in between, *)
(* each refilled in batches when it runs low: frames parsed from the       *)
(* script file (pesPacketsScriptsQueue) and prepared PES packets           *)
(* (pesPacketsQueue).  A frame and its PES packet are identified.          *)
(***************************************************************************)
EXTENDS Integers, Sequences

CONSTANTS Frame,
          Scripts,     \* the scripts to try: sequences of frames
          MinScripts,  \* LIBBLU_ES_MIN_BUF_PES_SCRIPT_PACKETS
          IncScripts,  \* LIBBLU_ES_INC_BUF_PES_SCRIPT_PACKETS
          MinPes,      \* LIBBLU_ES_MIN_BUF_PES_PACKETS
          IncPes       \* LIBBLU_ES_INC_BUF_PES_PACKETS

ASSUME ScriptsAssumption == Scripts \subseteq Seq(Frame)
ASSUME BatchAssumption ==
  /\ MinScripts \in Nat \ {0} /\ IncScripts \in Nat \ {0}
  /\ MinPes \in Nat \ {0} /\ IncPes \in Nat \ {0}

VARIABLES script,              \* the whole script
          file,                \* frames not parsed yet
          scriptsQueue, scriptsQueueSize,
          endOfScriptReached,
          pesQueue, pesQueueSize,
          built,               \* PES packets given to the muxer
          i,                   \* index of the loop that queues PES packets
          pc                   \* "ready" for a call, "fill", "take", or over:
                               \*   "end" (0 returned), "starved", "failed"

vars == <<script, file, scriptsQueue, scriptsQueueSize, endOfScriptReached,
          pesQueue, pesQueueSize, built, i, pc>>

\* prepareLibbluES() leaves the reader at the first frame.
Init == /\ script \in Scripts
        /\ file = script
        /\ scriptsQueue = <<>> /\ scriptsQueueSize = 0
        /\ endOfScriptReached = FALSE
        /\ pesQueue = <<>> /\ pesQueueSize = 0
        /\ built = <<>>
        /\ i = 0
        /\ pc = "ready"

\* The end of the file taken for the end of the frames, and the flag that a
\* refill sets for the end of the file.
EndOfFile == file = <<>>
EndWasReached == endOfScriptReached /\ scriptsQueueSize = 0

\* endOfPesPacketsScriptsQueueLibbluES()
EndOfScripts == file = <<>> /\ scriptsQueueSize = 0

\* Entry of buildNextPesPacketLibbluES().
Call == /\ pc = "ready"
        /\ pc' = IF pesQueueSize < MinPes THEN "fill" ELSE "take"
        /\ i' = 0
        /\ UNCHANGED <<script, file, scriptsQueue, scriptsQueueSize,
                       endOfScriptReached, pesQueue, pesQueueSize, built>>

\* A refill each time.
NeedsAlways == ~endOfScriptReached

\* The batch that a low queue of frames is refilled with.
NeedsScripts == scriptsQueueSize < MinScripts /\ ~endOfScriptReached
Batch == IF NeedsScripts
           THEN IF IncScripts <= Len(file) THEN IncScripts ELSE Len(file)
           ELSE 0

\* A batch overtakes the frames queued.
QueuedBefore == SubSeq(file, 1, Batch) \o scriptsQueue

Queued == scriptsQueue \o SubSeq(file, 1, Batch)

\* One PES packet more than a batch.
MoreThanABatch == i <= IncPes /\ ~EndOfScripts

MoreToQueue == i < IncPes /\ ~EndOfScripts

\* buildAndQueueNextPesPacketPropertiesLibbluES()
BuildAndQueue ==
  /\ pc = "fill"
  /\ MoreToQueue
  /\ file' = SubSeq(file, Batch + 1, Len(file))
  /\ endOfScriptReached' = (endOfScriptReached \/ (NeedsScripts /\ file' = <<>>))
  /\ IF Queued = <<>>
       THEN /\ pc' = "starved"
            /\ UNCHANGED <<scriptsQueue, scriptsQueueSize, pesQueue, pesQueueSize, i>>
       ELSE /\ scriptsQueue' = Tail(Queued)
            /\ scriptsQueueSize' = scriptsQueueSize + Batch - 1
            /\ pesQueue' = Append(pesQueue, Head(Queued))
            /\ pesQueueSize' = pesQueueSize + 1
            /\ i' = i + 1
            /\ UNCHANGED pc
  /\ UNCHANGED <<script, built>>

\* The loop stops at a whole batch or at the end of the script.
Filled == /\ pc = "fill"
          /\ ~MoreToQueue
          /\ pc' = "take"
          /\ UNCHANGED <<script, file, scriptsQueue, scriptsQueueSize,
                         endOfScriptReached, pesQueue, pesQueueSize, built, i>>

\* The next PES packet becomes the current one (1 returned), or there is none
\* (0 returned) and the muxer drops the stream.
Take == /\ pc = "take"
        /\ IF pesQueue # <<>>
             THEN /\ built' = Append(built, Head(pesQueue))
                  /\ pesQueue' = Tail(pesQueue)
                  /\ pesQueueSize' = pesQueueSize - 1
                  /\ pc' = "ready"
             ELSE /\ pc' = "end"
                  /\ UNCHANGED <<built, pesQueue, pesQueueSize>>
        /\ UNCHANGED <<script, file, scriptsQueue, scriptsQueueSize,
                       endOfScriptReached, i>>

\* A read error, a frame the parser rejects or a negative time stamp; the
\* muxer gives up.
Fail == /\ pc \in {"fill", "take"}
        /\ pc' = "failed"
        /\ UNCHANGED <<script, file, scriptsQueue, scriptsQueueSize,
                       endOfScriptReached, pesQueue, pesQueueSize, built, i>>

Next == Call \/ BuildAndQueue \/ Filled \/ Take \/ Fail

Spec == Init /\ [][Next]_vars

\* The muxer is one thread, and calls again until there is no more packet.
FairSpec == Spec /\ WF_vars(Next)
-----------------------------------------------------------------------------
TypeOK == /\ script \in Scripts
          /\ file \in Seq(Frame) /\ scriptsQueue \in Seq(Frame)
          /\ pesQueue \in Seq(Frame) /\ built \in Seq(Frame)
          /\ scriptsQueueSize \in Int /\ pesQueueSize \in Int
          /\ endOfScriptReached \in BOOLEAN
          /\ i \in 0..IncPes
          /\ pc \in {"ready", "fill", "take", "end", "starved", "failed"}

(* The counters that drive both refills tell the truth about the lists.     *)
SizesExact == scriptsQueueSize = Len(scriptsQueue) /\ pesQueueSize = Len(pesQueue)

(* No frame of the script is lost, doubled or overtaken on its way through  *)
(* the two queues, wherever the batches end.                                *)
InScriptOrder == built \o pesQueue \o scriptsQueue \o file = script

(* "No more packet" is only said when every frame was given, and the error  *)
(* "end of script reached" of a fill that finds nothing cannot happen.      *)
EndIsTheEnd == pc = "end" => built = script
NeverStarved == pc # "starved"

(* Read-ahead is bounded by one batch above the low mark, whatever the      *)
(* length of the script.                                                    *)
ReadAheadBounded == /\ Len(scriptsQueue) < MinScripts + IncScripts
                    /\ Len(pesQueue) < MinPes + IncPes

(* Building ends: every frame is given to the muxer or building fails.      *)
AllBuilt == <>(built = script \/ pc = "failed")
=============================================================================

-------------------------- MODULE MCPidAllocation --------------------------
EXTENDS SystemTables, TLC

CONSTANTS video, audio, pg

MCTypes == {video, audio, pg}
MCBasePid == video :> 4113 @@ audio :> 4352 @@ pg :> 4608
MCLimit == video :> 1 @@ audio :> 3 @@ pg :> 4
MCSystemPids == {PAT_PID, SIT_PID, PMT_PID, 4097, 8191}
MCRequests == {[type |-> t, pid |-> p] : t \in MCTypes, p \in {0, 5, 4113, 4354, 4353}}
MCInputs == SeqOf(MCRequests, 3)
\* tests/pgs/ARSLAN_BD1/00057.track_4113.meta, in small
MCTest == {<<[type |-> video, pid |-> 0], [type |-> audio, pid |-> 0],
             [type |-> pg, pid |-> 0], [type |-> pg, pid |-> 0]>>}

\* Formats of each number of descriptors, and one (MVC) that the PMT refuses.
Prop(coding) ==
  [coding |-> coding, profileIDC |-> 100, levelIDC |-> 41, constraintFlags |-> 0,
   stillPicture |-> FALSE, format |-> 6, rate |-> 1, bitDepth |-> 3]
Still(coding) == [Prop(coding) EXCEPT !.stillPicture = TRUE]
Ac3(coding) ==
  [coding |-> coding, subSampleRate |-> 0, bsid |-> 6, bitrateMode |-> FALSE,
   bitrateCode |-> 28, surroundCode |-> 0, bsmod |-> 0, numChannels |-> 13, fullSVC |-> TRUE]
MCProperties == video :> {Prop(2), Still(27), Prop(234), Prop(32)}
             @@ audio :> {Ac3(129), Prop(128), Prop(134)}
             @@ pg :> {Prop(144)}
MCPcrPids == {4097, 4113}
MCDtcp == [caSystemId |-> 4095, retentionMoveMode |-> TRUE, retentionState |-> 7, epn |-> TRUE,
           dtcpCci |-> 3, dot |-> TRUE, ast |-> TRUE, imageConstraintToken |-> TRUE, aps |-> 0]
\* A checksum that depends on each byte and on its place.
MCCrc32(bytes) ==
  LET sum[k \in 0..Len(bytes)] == IF k = 0 THEN 1 ELSE (31 * sum[k - 1] + bytes[k]) % 8191
  IN  U32(sum[Len(bytes)])
=============================================================================

---------------------------- MODULE MCEsmsScript ----------------------------
(***************************************************************************)
(* Scripts of an H.264 stream (1), an AC-3 stream (2), a PGS stream        *)
(* without packets (3) and a menu with four pictures (4 and 5 to 8).       *)
(***************************************************************************)
EXTENDS EsmsScript

Content(head, tail) == [head |-> head, tail |-> tail]
MCSources == 1..8
\* The first source may be edited at its beginning or further, the second one may go missing.
MCEditions == [s \in MCSources |->
  CASE s = 1 -> {Content(1, 1), Content(1, 2), Content(2, 1)}
    [] s = 2 -> {Content(1, 1), NoFile}
    [] OTHER -> {Content(s, 1)}]

MCOptions == [secondary : BOOLEAN, fpsChange : {0, 3, 4}, double : BOOLEAN]
Plain == [secondary |-> FALSE, fpsChange |-> 0, double |-> FALSE]

Packet(extension, pts, dts, ext, cmds) ==
  [picture |-> 2, extension |-> extension, dtsPresent |-> dts >= 0, pts |-> pts,
   dts |-> IF dts >= 0 THEN dts ELSE 0, ext |-> ext, cmds |-> cmds]
Short == ByteRange ^ 4 - 1   \* The last value of a short time, and the first long one.
Long == ByteRange ^ 4

\* The H.264 stream has frames of twice the timing; the replaced SPS is a data block.
AvcPackets(c, o) ==
  << Packet(FALSE, Long, Short, [cpb |-> Short, dpb |-> Long],
            <<AddDataBlock(0, 1), FromFile(0, AddPesPayload(2, Short, 1023)), AddPadding(1025, 3)>>),
     Packet(FALSE, Short, -1, [cpb |-> 7, dpb |-> 9],
            <<AddData(0, <<c.tail, Flag(o.double)>>), FromFile(0, AddPesPayload(2, Long + 7, 1024))>>) >>
Avc(c, o) ==
  [coding |-> AVC, ptsRef |-> 5, endPts |-> Long + 5, bitrate |-> Short, pictures |-> <<>>, doubled |-> c.head = 1,
   blocks |-> IF o.fpsChange = 0 THEN <<<<9, 9>>>> ELSE <<<<9, o.fpsChange>>, <<>>, <<8>>>>,
   fmt |-> [videoFormat |-> 6, frameRate |-> 1, profileIDC |-> 20, levelIDC |-> 8, stillPicture |-> c.tail = 2,
            constraintFlags |-> 3, cpbSize |-> Short, cpbBitrate |-> 77],
   packets |-> SubSeq(AvcPackets(c, o), 1, IF c.head = 1 /\ ~o.double THEN 1 ELSE 2)]
Audio(c, o) ==
  [coding |-> AC3, ptsRef |-> 0, endPts |-> 32, bitrate |-> 20, pictures |-> <<>>, doubled |-> FALSE, blocks |-> <<>>,
   fmt |-> [audioFormat |-> 6, sampleRate |-> 1, bitDepth |-> 2, subSampleRate |-> 1, bsid |-> 16, bitrateMode |-> 1,
            bitrateCode |-> 14, surroundCode |-> 2, bsmod |-> 3, numChannels |-> 13, fullSVC |-> 1],
   packets |-> IF o.secondary
     THEN <<Packet(TRUE, 0, -1, NoExt, <<AddPadding(0, 1), AddPadding(1, 1), AddPadding(2, 1), AddPadding(3, 1)>>)>>
     ELSE <<Packet(FALSE, 0, -1, NoExt, <<FromFile(0, AddPesPayload(0, 0, 30)), ChangeByteOrder(3, 0, 30)>>),
            Packet(TRUE, 16, 0, NoExt, <<FromFile(0, AddPesPayload(0, 30, 30))>>)>>]
Graphics(pictures, packets) ==
  [coding |-> IF pictures = <<>> THEN PG ELSE IG, ptsRef |-> 1, endPts |-> 2, bitrate |-> 3, pictures |-> pictures,
   doubled |-> FALSE, blocks |-> <<>>, fmt |-> [none |-> TRUE], packets |-> packets]
Menu == <<Packet(FALSE, 3, 2, NoExt, <<FromFile(4, AddPesPayload(0, 5, 6))>>)>>

MCAnalysis == [s \in MCSources |-> [c \in MCEditions[s] |-> [o \in MCOptions |->
  CASE s = 1 -> Avc(c, o)
    [] s = 2 -> Audio(c, o)
    [] s = 4 -> Graphics(<<5, 6, 7, 8>>, Menu)
    [] OTHER -> Graphics(<<>>, <<>>)]]]

MCNoScript == <<0, 0>>
JobOf(source, script, options) == [source |-> source, script |-> script, options |-> options]
Own(source, options) == JobOf(source, MCNoScript, options)
Of(jobs) == [jobs |-> jobs, force |-> FALSE]
Secondary == [Plain EXCEPT !.secondary = TRUE]
Fps(n) == [Plain EXCEPT !.fpsChange = n]

\* Streams that share a source with the same and with other options, that are given the script of
\* another one, that have a script and no source; options of other values; rebuilding by force.
MCRuns == {
  Of(<<Own(1, Plain), Own(1, Secondary), Own(1, Plain)>>),
  [jobs |-> <<Own(1, Plain), Own(1, Plain)>>, force |-> TRUE],
  Of(<<Own(2, Plain), JobOf(1, <<2, 0>>, Fps(3)), JobOf(1, <<2, 0>>, Plain)>>),
  Of(<<Own(1, Fps(4))>>),
  Of(<<JobOf(0, <<1, 0>>, Plain)>>),
  Of(<<Own(2, Secondary)>>),
  Of(<<Own(3, Plain)>>),
  Of(<<Own(4, Plain)>>) }

\* The same stream, muxed at one frame rate and then at another one.
MCRatesRuns == {Of(<<Own(1, Fps(3))>>), Of(<<Own(1, Fps(4))>>)}
=============================================================================

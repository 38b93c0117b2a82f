---------------------------- MODULE LpcmParser ----------------------------
(***************************************************************************)
(* codec/lpcm/lpcm_parser.c: analyzeLpcm() cuts the samples of a WAVE file *)
(* into PES packets of 5 ms.  A unit of the source is a chunk.  The script *)
(* holds the commands that put a header before the samples, change their   *)
(* byte order and complete the last packet with silence.                   *)
(***************************************************************************)
EXTENDS Integers, Sequences, SequencesExt, SourceUnits, EsmsCommands

CONSTANTS Inputs,      \* the files to parse: sequences of chunks
          Options

VARIABLES input, options, pos, ctx, script, header, pc

vars == <<input, options, pos, ctx, script, header, pc>>

WAVE_FORMAT_PCM == 1
WAVE_FORMAT_EXTENSIBLE == 65534
LPCM_PES_HEADER_LENGTH == 4
LPCM_PES_FRAMES_PER_SECOND == 200
ChunkHeaderSize == 8
FrameDurationMs == 27000
FrameDuration == 27000000 \div LPCM_PES_FRAMES_PER_SECOND
-----------------------------------------------------------------------------
NbChannelsOfMask(mask) ==
  FoldLeft(LAMBDA n, i : n + ((mask \div 2^i) % 2), 0, [k \in 1..31 |-> k - 1])

\* decodeWaveFmtChunk()
LegalFormat(c) ==
  /\ c.formatTag \in {WAVE_FORMAT_PCM, WAVE_FORMAT_EXTENSIBLE}
  /\ c.nbChannels \in 1..8
  /\ c.sampleRate \in {48000, 96000, 192000}
  /\ c.sampleRate = 192000 => c.nbChannels <= 6
  /\ c.bitsPerSample \in {16, 24}
LegalBlocks(c) == /\ c.nbChannels * c.bitsPerSample = c.bytesPerBlock * 8
                  /\ c.sampleRate * c.bytesPerBlock = c.bytesPerSec
HasExtension(c) == c.formatTag = WAVE_FORMAT_EXTENSIBLE /\ c.extSize > 0
LegalExtension(c) ==
  HasExtension(c) => /\ c.extSize >= 22
                     /\ c.validBits <= c.bitsPerSample /\ c.validBits \in {16, 20, 24}
                     /\ NbChannelsOfMask(c.mask) = c.nbChannels
                     /\ c.subFormatPcm
FormatSize(c) == 16 + (IF c.formatTag = WAVE_FORMAT_EXTENSIBLE THEN 2 ELSE 0)
                    + (IF HasExtension(c) THEN 22 ELSE 0)
LegalFmtChunk(c) == /\ LegalFormat(c) /\ LegalBlocks(c) /\ LegalExtension(c)
                    /\ FormatSize(c) <= c.ckSize

PesPacketLength(c) == c.bytesPerBlock * (c.sampleRate \div LPCM_PES_FRAMES_PER_SECOND)
AudioFormat(c) == CASE c.nbChannels = 1 -> 1 [] c.nbChannels = 2 -> 3 [] OTHER -> 6
SampleRateCode(c) == CASE c.sampleRate = 48000 -> 1 [] c.sampleRate = 96000 -> 4 [] OTHER -> 5
BitDepth(c) == (c.bitsPerSample - 12) \div 4

\* The four bytes before the samples of each PES packet, the fields apart.
PesHeaderData(c) == <<PesPacketLength(c) \div 256, PesPacketLength(c) % 256,
                      AudioFormat(c) * 16 + SampleRateCode(c), BitDepth(c) * 64>>
-----------------------------------------------------------------------------
Init == /\ input \in Inputs /\ options \in Options
        /\ pos = 0
        /\ ctx = [stage |-> "riff", fmt |-> <<>>, remaining |-> 0, startOff |-> 0, pts |-> 0]
        /\ script = <<>>
        /\ header = <<>>
        /\ pc = "parse"

\* The end of the file is met as a chunk of no kind.
Chunk == IF AtUnit(input, pos) THEN UnitAt(input, pos) ELSE [kind |-> "none"]
At(stage) == pc = "parse" /\ ctx.stage = stage

Riff == /\ At("riff") /\ Chunk.kind = "riff" /\ Chunk.wave
        /\ ctx' = [ctx EXCEPT !.stage = "fmt"]
        /\ pos' = pos + Chunk.size
        /\ UNCHANGED <<input, options, script, header, pc>>

\* decodeWaveJunkChunk(): skipped before the format, and only there.
Junk == /\ At("fmt") /\ Chunk.kind = "junk"
        /\ pos' = pos + ChunkHeaderSize + Chunk.ckSize
        /\ UNCHANGED <<input, options, ctx, script, header, pc>>

\* The reader stays where the fields it knows end.
Fmt == /\ At("fmt") /\ Chunk.kind = "fmt" /\ LegalFmtChunk(Chunk)
       /\ ctx' = [ctx EXCEPT !.stage = "data", !.fmt = Chunk]
       /\ pos' = pos + ChunkHeaderSize + FormatSize(Chunk)
       /\ UNCHANGED <<input, options, script, header, pc>>

Data == /\ At("data") /\ Chunk.kind = "data"
        /\ pos' = pos + ChunkHeaderSize
        /\ ctx' = [ctx EXCEPT !.stage = "frames", !.remaining = Chunk.ckSize,
                              !.startOff = pos + ChunkHeaderSize]
        /\ UNCHANGED <<input, options, script, header, pc>>

\* Any other chunk is refused.
Refuse == /\ pc = "parse"
          /\ \/ ctx.stage = "riff" /\ ~(Chunk.kind = "riff" /\ Chunk.wave)
             \/ ctx.stage = "fmt" /\ Chunk.kind # "junk"
                                  /\ ~(Chunk.kind = "fmt" /\ LegalFmtChunk(Chunk))
             \/ ctx.stage = "data" /\ Chunk.kind # "data"
          /\ pc' = "failed"
          /\ UNCHANGED <<input, options, pos, ctx, script, header>>

HeaderBlock == 1

\* One PES packet; the samples are not read, the script only points at them.
WriteFrame ==
  /\ At("frames") /\ ctx.remaining > 0
  /\ LET length == PesPacketLength(ctx.fmt)
         size == IF length < ctx.remaining THEN length ELSE ctx.remaining
         silence == IF ctx.remaining < length
                      THEN <<AddPadding(LPCM_PES_HEADER_LENGTH + ctx.remaining,
                                        length - ctx.remaining)>>
                      ELSE <<>>
     IN  /\ script' = Append(script,
              [pts |-> ctx.pts, ext |-> FALSE, parts |-> <<Extent(ctx.startOff, size)>>,
               cmds |-> <<AddDataBlock(0, HeaderBlock),
                          AddPesPayload(LPCM_PES_HEADER_LENGTH, ctx.startOff, size),
                          ChangeByteOrder((ctx.fmt.bitsPerSample + 7) \div 8,
                                          LPCM_PES_HEADER_LENGTH, length)>> \o silence])
         /\ ctx' = [ctx EXCEPT !.pts = @ + FrameDuration, !.remaining = @ - size,
                               !.startOff = @ + length]
  /\ UNCHANGED <<input, options, pos, header, pc>>

Finish ==
  /\ At("frames") /\ ctx.remaining = 0
  /\ pc' = "done"
  /\ header' = [codingType |-> "lpcm", endPts |-> ctx.pts, block |-> PesHeaderData(ctx.fmt),
                bitrate |-> ctx.fmt.sampleRate * ctx.fmt.bitsPerSample * ctx.fmt.nbChannels]
  /\ UNCHANGED <<input, options, pos, ctx, script>>

Next == Riff \/ Junk \/ Fmt \/ Data \/ Refuse \/ WriteFrame \/ Finish
Spec == Init /\ [][Next]_vars
-----------------------------------------------------------------------------
DataChunk == input[CHOOSE k \in DOMAIN input : input[k].kind = "data"]
DataOffset == Offset(input, CHOOSE k \in DOMAIN input : input[k].kind = "data") + ChunkHeaderSize

(* The frames copy the samples of the data chunk once, without a gap, and   *)
(* nothing of the chunks around it.                                         *)
SourceOnce ==
  pc = "done" =>
    \A k \in DOMAIN script :
      /\ Len(script[k].parts) = 1
      /\ script[k].parts[1].off = IF k = 1 THEN DataOffset
                                  ELSE script[k - 1].parts[1].off + script[k - 1].parts[1].len
      /\ k = Len(script) =>
           script[k].parts[1].off + script[k].parts[1].len = DataOffset + DataChunk.ckSize

(* Frame k is presented after the samples of the k - 1 frames before it.    *)
Timed ==
  pc = "done" =>
    \A k \in DOMAIN script :
      (script[k].pts \div 27000) * (ctx.fmt.sampleRate \div 1000) * ctx.fmt.bytesPerBlock
        = script[k].parts[1].off - DataOffset

(* What the muxer builds from the commands: the header, the samples with    *)
(* their most significant byte first, then silence up to a whole packet.    *)
Source == [k \in 1..(DataOffset + DataChunk.ckSize) |-> <<k - 1>>]
Meant(frame) ==
  LET bytes == ctx.fmt.bitsPerSample \div 8
      part == frame.parts[1]
  IN  header.block \o
      [i \in 1..PesPacketLength(ctx.fmt) |->
         IF i <= part.len
           THEN <<part.off + bytes * ((i - 1) \div bytes) + bytes - 1 - ((i - 1) % bytes)>>
           ELSE 0]
BuiltAsMeant ==
  pc = "done" =>
    \A k \in DOMAIN script :
      BuildPesPacketData(script[k].cmds, Source, <<header.block>>) = Meant(script[k])

(* The header of the packets states the length of what follows it.          *)
HeaderFaithful ==
  pc = "done" => \A k \in DOMAIN script :
    ComputePesFrameLength(script[k].cmds, <<header.block>>)
      = LPCM_PES_HEADER_LENGTH + header.block[1] * 256 + header.block[2]
=============================================================================

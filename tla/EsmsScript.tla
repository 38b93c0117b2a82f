----------------------------- MODULE EsmsScript -----------------------------
(***************************************************************************)
(* The life of ESMS script files: a run of the muxer looks for the script  *)
(* of each of its streams, uses it if the validator accepts it, or else    *)
(* analyses the source again and writes it anew, then parses it.           *)
(*   - findValidESScript() (muxingContext.c) chooses the name,             *)
(*   - checkScriptFileLibbluES() and parseScriptLibbluES()                 *)
(*     (elementaryStream.c), isAValidESMSFile() (esms/scriptData.c)        *)
(*     decide and parse,                                                   *)
(*   - generateScriptES() (codecsUtilities.c) runs an analyser, that calls *)
(*     esms/scriptCreation.c: header, packets, end, and the header again.  *)
(* The scripts outlive a run.  A run may be interrupted at any step, by an *)
(* error of the analyser or because the process ends, and the sources may  *)
(* be edited between two runs.  What an analyser finds in a source is the  *)
(* constant Analysis.                                                      *)
(***************************************************************************)
EXTENDS EsmsFormat

CONSTANTS Sources,       \* the source files, numbers
          Editions,      \* per source, the contents [head, tail] it may have
          Analysis,      \* per source, content and options, what its analyser finds
          Runs,          \* the runs that may be asked for, [jobs, force]
          NoScript,      \* no name was given to the script of a stream
          MaxIncrement,  \* how many names are tried, 100 in the code
          MaxCommands,   \* MAX_SUPPORTED_COMMANDS
          MaxEvents      \* bound on runs, edits and interruptions

Byte == 0..(ByteRange - 1)

\* A run has streams, 32 at most in the code: fewer than names to try.
ASSUME RunsAssumption ==
  /\ MaxIncrement \in Nat
  /\ \A r \in Runs : /\ Len(r.jobs) \in 1..MaxIncrement
                     /\ \A i \in 1..Len(r.jobs) : r.jobs[i].source \in Sources \union {0}

\* A source has a name that fits in the byte that stands for it.
ASSUME SourcesAssumption ==
  /\ Sources \subseteq Byte \ {0}
  /\ \A s \in Sources : /\ \E c \in Editions[s] : c # [head |-> 0, tail |-> 0]
                        /\ \A c \in Editions[s] : c.head \in Int

\* What analysers find: the fields of numbers are numbers, the data of commands are bytes.
IsCommand(c) ==
  /\ c.offset \in Int
  /\ \/ c.type = "addData" /\ c.data \in Seq(Byte)
     \/ c.type = "changeByteOrder" /\ c.unit \in Int /\ c.length \in Int
     \/ c.type = "addPesPayload" /\ c.file \in Int /\ c.src \in Int /\ c.size \in Int
     \/ c.type = "addPadding" /\ c.length \in Int
     \/ c.type = "addDataBlock" /\ c.block \in Int
IsPacket(p, blocks) ==
  /\ p.pts \in Int /\ p.dts \in Int /\ p.ext.cpb \in Int /\ p.ext.dpb \in Int
  /\ p.picture \in Int /\ p.extension \in BOOLEAN /\ p.dtsPresent \in BOOLEAN
  /\ p.cmds \in Seq(ToSet(p.cmds))
  /\ \A i \in DOMAIN p.cmds : /\ IsCommand(p.cmds[i])
                              /\ p.cmds[i].type = "addDataBlock" => p.cmds[i].block \in DOMAIN blocks
IsFormat(fmt, coding) ==
  /\ coding \in {H262, AVC} => /\ fmt.videoFormat \in Int /\ fmt.frameRate \in Int
                               /\ fmt.profileIDC \in Int /\ fmt.levelIDC \in Int
  /\ coding = AVC => fmt.constraintFlags \in Int /\ fmt.cpbSize \in Int /\ fmt.cpbBitrate \in Int
  /\ coding \in {LPCM, AC3} => fmt.audioFormat \in Int /\ fmt.sampleRate \in Int /\ fmt.bitDepth \in Int
  /\ coding = AC3 => /\ fmt.subSampleRate \in Int /\ fmt.bsid \in Int /\ fmt.bitrateMode \in Int
                     /\ fmt.bitrateCode \in Int /\ fmt.surroundCode \in Int /\ fmt.numChannels \in Int
                     /\ fmt.fullSVC \in Int
IsFinding(found) ==
  /\ found.coding \in {H262, AVC, LPCM, AC3, PG, IG}
  /\ found.ptsRef \in Int /\ found.endPts \in Int /\ found.bitrate \in Int
  /\ found.pictures \in Seq(Sources)
  /\ found.blocks \in Seq(Seq(Byte))
  /\ IsFormat(found.fmt, found.coding)
  /\ found.packets \in Seq(ToSet(found.packets))
  /\ \A i \in DOMAIN found.packets : IsPacket(found.packets[i], found.blocks)
OptionsTried(o) == {o, [o EXCEPT !.double = TRUE]}
ASSUME AnalysisAssumption ==
  \A r \in Runs : \A job \in {r.jobs[i] : i \in 1..Len(r.jobs)} :
    job.source # 0 => \A c \in Editions[job.source], o \in OptionsTried(job.options) :
                        IsFinding(Analysis[job.source][c][o])

\* It fits in the fields it is written in: those of 8 to 32 bits, and those of 64 bits, of which
\* the format has six bytes here.
Fits(v, w) == v \in Nat /\ v < Weight[w]
Wide(v) == v \in Nat /\ v \div Weight[5] < ByteRange
CommandFits(c) ==
  /\ Fits(c.offset, 4)
  /\ \/ /\ c.type = "addData" /\ c = AddData(c.offset, c.data)
        /\ Fits(5 + Len(c.data), 2)
     \/ /\ c.type = "changeByteOrder" /\ c = ChangeByteOrder(c.unit, c.offset, c.length)
        /\ Fits(c.unit, 1) /\ Fits(c.length, 4)
     \/ /\ c.type = "addPesPayload" /\ c = FromFile(c.file, AddPesPayload(c.offset, c.src, c.size))
        /\ Fits(c.file, 1) /\ Wide(c.src) /\ Fits(c.size, 4)
     \/ /\ c.type = "addPadding" /\ c = AddPadding(c.offset, c.length)
        /\ Fits(c.length, 4)
     \/ /\ c.type = "addDataBlock" /\ c = AddDataBlock(c.offset, c.block)
        /\ c.block # 0 /\ Fits(c.block - 1, 1)
PacketFits(p, coding, blocks) ==
  /\ Wide(p.pts) /\ Wide(p.dts) /\ Fits(ComputePesFrameLength(p.cmds, blocks), 4)
  /\ p.extension => DetermineType(coding) = ES_AUDIO
  /\ p.ext # NoExt => /\ coding = AVC /\ p.ext = [cpb |-> p.ext.cpb, dpb |-> p.ext.dpb]
                      /\ Wide(p.ext.cpb) /\ Wide(p.ext.dpb)
  /\ \A i \in DOMAIN p.cmds : CommandFits(p.cmds[i])
FormatFits(fmt, coding) ==
  /\ coding = H262 => fmt \in [videoFormat : 0..15, frameRate : 0..15, profileIDC : Byte, levelIDC : Byte,
                               stillPicture : BOOLEAN]
  /\ coding = AVC => /\ fmt \in [videoFormat : 0..15, frameRate : 0..15, profileIDC : Byte, levelIDC : Byte,
                                 stillPicture : BOOLEAN, constraintFlags : Byte, cpbSize : Nat, cpbBitrate : Nat]
                     /\ Fits(fmt.cpbSize, 4) /\ Fits(fmt.cpbBitrate, 4)
  /\ coding = LPCM => fmt \in [audioFormat : 0..15, sampleRate : 0..15, bitDepth : Byte]
  /\ coding = AC3 => fmt \in [audioFormat : 0..15, sampleRate : 0..15, bitDepth : Byte, subSampleRate : 0..7,
                              bsid : 0..31, bitrateMode : 0..1, bitrateCode : 0..31, surroundCode : 0..3,
                              bsmod : 0..7, numChannels : 0..15, fullSVC : 0..1]
  /\ coding \in {PG, IG} => fmt = [none |-> TRUE]
LengthOf(found) ==
  HeaderLength + 34 + 9 * (1 + Len(found.pictures)) + Len(WriteDataBlocksDefSection(found.blocks))
    + Len(FlattenSeq([i \in DOMAIN found.packets |-> WritePesPacket(found.coding, found.packets[i], found.blocks)]))
FindingFits(found) ==
  /\ Wide(found.ptsRef) /\ Wide(found.endPts) /\ Fits(found.bitrate, 4)
  /\ Fits(1 + Len(found.pictures), 1) /\ Fits(Len(found.blocks), 1)
  /\ \A i \in DOMAIN found.blocks : Fits(Len(found.blocks[i]), 4)
  /\ FormatFits(found.fmt, found.coding)
  /\ Len(found.packets) <= MaxPackets
  /\ \A i \in DOMAIN found.packets : PacketFits(found.packets[i], found.coding, found.blocks)
  /\ Wide(LengthOf(found))

\* So do checksums and the number of commands; and whether the timing is doubled only depends on
\* the source.  The user does not ask for it.
ASSUME FieldsAssumption ==
  /\ Fits(MaxCommands, 1)
  /\ \A s \in Sources : \A c \in Editions[s] : Fits(c.head, 4)
  /\ \A r \in Runs : \A job \in {r.jobs[i] : i \in 1..Len(r.jobs)} :
       /\ job.options \in [secondary : BOOLEAN, fpsChange : Nat, double : {FALSE}]
       /\ job.source # 0 => \A c \in Editions[job.source] : \A o \in OptionsTried(job.options) :
            LET found == Analysis[job.source][c][o]
            IN  /\ o \in DOMAIN Analysis[job.source][c]
                /\ FindingFits(found)
                /\ found.doubled \in BOOLEAN
                /\ found.doubled = Analysis[job.source][c][job.options].doubled

VARIABLES disk,      \* the content of each source, NoFile when it is missing
          files,     \* the script files, by name
          run,       \* the run in progress, or the last one
          names,     \* scriptFilepath of the streams registered so far
          used,      \* the scripts it parsed, as they were
          h,         \* the EsmsFileHeader under construction
          pc,        \* what the run does
          last,      \* the jobs of the last run, if it completed and nothing changed since
          count      \* runs, edits and interruptions so far
vars == <<disk, files, run, names, used, h, pc, last, count>>

NoFile == [head |-> 0, tail |-> 0]
NoJobs == <<>>
NoHeader == [coding |-> 0]
Cur == Len(used) + 1
Job == run.jobs[Cur]
Name == names[Cur]

-----------------------------------------------------------------------------
(* Whether a script may be used. *)

\* computeFlagsLibbluESSettingsOptions(): whether options are given, not their values, and not
\* the doubled timing that an analyser may turn on.
ComputeFlagsWithTiming(o) == Flag(o.secondary) + 2 * Flag(o.fpsChange # 0) + 4 * Flag(o.double)
ComputeFlags(o) == Flag(o.secondary) + 2 * Flag(o.fpsChange # 0)

\* isValidESMSFileSourceFile(): the checksum covers the first bytes of the file.
IsValidSourceFile(source) == disk[source.name] # NoFile /\ disk[source.name].head = source.crc

\* isAValidESMSFile()
IsAValidEsmsFile(name, flags) ==
  /\ name \in DOMAIN files
  /\ LET f == files[name] IN
     /\ Len(f) >= HeaderLength
     /\ f[1] = FileMagic /\ f[2] = Version /\ f[3] = 1
     /\ \E p \in {GetDirectoryOffset(f, DirProp)} :
          /\ p # 0 /\ ParseFlags(f, p) = flags
          /\ \E sources \in {ParseSources(f, p)} :
               /\ Len(sources) <= MaxDir
               /\ \A i \in DOMAIN sources : IsValidSourceFile(sources[i])

\* isSharedUsedScript()
NotShared(name) == FALSE
IsSharedUsedScript(name) == \E i \in DOMAIN names : names[i] = name

\* genEsmsFilename(): a name per source and increment.
GenEsmsFilename(source, increment) == <<source, increment>>
Candidates(job) == (IF job.script = NoScript THEN <<>> ELSE <<job.script>>)
                     \o [i \in 1..MaxIncrement |-> GenEsmsFilename(job.source, i - 1)]

\* findValidESScript(): the first name that is valid or free, the last one if there is none.
IsAcceptable(name, job) == ~IsSharedUsedScript(name) \/ IsAValidEsmsFile(name, ComputeFlags(job.options))
FindValidEsScript(job) ==
  LET tried == Candidates(job)
  IN  tried[CHOOSE i \in DOMAIN tried : /\ i = Len(tried) \/ IsAcceptable(tried[i], job)
                                        /\ \A j \in 1..(i - 1) : ~IsAcceptable(tried[j], job)]

-----------------------------------------------------------------------------
Init == /\ disk = [s \in Sources |-> CHOOSE c \in Editions[s] : c # NoFile]
        /\ files = [n \in {} |-> <<>>]
        /\ run = [jobs |-> NoJobs, force |-> FALSE]
        /\ names = <<>> /\ used = <<>>
        /\ h = NoHeader
        /\ pc = "idle"
        /\ last = NoJobs
        /\ count = 0

EditSource(s) ==
  /\ pc = "idle" /\ count < MaxEvents
  /\ \E c \in Editions[s] \ {disk[s]} : disk' = [disk EXCEPT ![s] = c]
  /\ last' = NoJobs
  /\ count' = count + 1
  /\ UNCHANGED <<files, run, names, used, h, pc>>

\* createLibbluMuxingContext()
StartRun(r) ==
  /\ pc = "idle" /\ count < MaxEvents
  /\ run' = r
  /\ names' = <<>> /\ used' = <<>>
  /\ pc' = "search"
  /\ count' = count + 1
  /\ UNCHANGED <<disk, files, h, last>>

Search ==
  /\ pc = "search"
  /\ names' = Append(names, FindValidEsScript(Job))
  /\ pc' = "check"
  /\ UNCHANGED <<disk, files, run, used, h, last, count>>

\* checkScriptFileLibbluES()
MustGenerate == run.force \/ ~IsAValidEsmsFile(Name, ComputeFlags(Job.options))
CheckScriptFile ==
  /\ pc = "check"
  /\ pc' = IF ~MustGenerate THEN "parse" ELSE IF Job.source = 0 THEN "failed" ELSE "create"
  /\ UNCHANGED <<disk, files, run, names, used, h, last, count>>

-----------------------------------------------------------------------------
(* The analysis of a source and the writing of its script. *)

Options == IF h = NoHeader THEN Job.options ELSE h.options
Finding(options) == Analysis[Job.source][disk[Job.source]][options]
Paths(options) == <<Job.source>> \o Finding(options).pictures
CanOpenSources == /\ disk[Job.source] # NoFile
                  /\ LET paths == Paths(Options) IN \A i \in DOMAIN paths : disk[paths[i]] # NoFile

\* createEsmsFileHandler(), appendSourceFileEsms() per source, createBitstreamWriter(),
\* writeEsmsHeader(): the former script is lost.
CreateScript ==
  /\ pc = "create" /\ CanOpenSources
  /\ LET found == Finding(Options)
         paths == Paths(Options)
     IN  h' = [coding |-> found.coding, options |-> Options, flags |-> ComputeFlags(Options),
               ptsRef |-> found.ptsRef, endPts |-> found.endPts, bitrate |-> found.bitrate,
               sources |-> [i \in DOMAIN paths |-> [name |-> paths[i], crc |-> disk[paths[i]].head]],
               blocks |-> found.blocks, fmt |-> found.fmt, dirs |-> <<>>, nbFrames |-> 0]
  /\ files' = [n \in DOMAIN files \union {Name} |-> IF n = Name THEN WriteEsmsHeader ELSE files[n]]
  /\ pc' = "packets"
  /\ UNCHANGED <<disk, run, names, used, last, count>>

\* A source cannot be opened.
CreateScriptFails ==
  /\ pc = "create" /\ ~CanOpenSources
  /\ pc' = "failed"
  /\ UNCHANGED <<disk, files, run, names, used, h, last, count>>

\* writeEsmsPesPacket(); the first packet is preceded by the directory and the section header.
WritePacket ==
  /\ pc = "packets"
  /\ h.nbFrames < Len(Finding(h.options).packets)
  /\ LET p == Finding(h.options).packets[h.nbFrames + 1]
         first == h.nbFrames = 0
     IN  /\ Len(p.cmds) <= MaxCommands
         /\ h' = [h EXCEPT !.nbFrames = @ + 1,
                           !.dirs = IF first THEN AppendDir(@, DirPesCutting, files[Name]) ELSE @]
         /\ \E packet \in {WritePesPacket(h.coding, p, h.blocks)} :
              files' = [files EXCEPT ![Name] = @ \o (IF first THEN <<PesMagic>> ELSE <<>>) \o packet]
  /\ UNCHANGED <<disk, run, names, used, pc, last, count>>

TooManyCommands ==
  /\ pc = "packets"
  /\ h.nbFrames < Len(Finding(h.options).packets)
  /\ Len(Finding(h.options).packets[h.nbFrames + 1].cmds) > MaxCommands
  /\ pc' = "failed"
  /\ UNCHANGED <<disk, files, run, names, used, h, last, count>>

\* generateScriptES() analyses once more when the analyser asked for it.
AsksForRestartAgain == Finding(h.options).doubled
AsksForRestart == Finding(h.options).doubled /\ ~h.options.double
Restart ==
  /\ pc = "packets" /\ h.nbFrames = Len(Finding(h.options).packets)
  /\ AsksForRestart
  /\ h' = [h EXCEPT !.options.double = TRUE]
  /\ pc' = "create"
  /\ UNCHANGED <<disk, files, run, names, used, last, count>>

\* The end marker, addEsmsFileEnd() and the closing of the file.
AddEsmsFileEnd ==
  /\ pc = "packets" /\ h.nbFrames = Len(Finding(h.options).packets)
  /\ ~AsksForRestart
  /\ \E properties \in {WriteEsPropertiesSection(h)}, format \in {WriteEsCodecSpecParametersSection(h)},
       blocks \in {IF h.blocks # <<>> THEN WriteDataBlocksDefSection(h.blocks) ELSE <<>>} :
       LET f0 == Append(files[Name], EndMarker)
           f1 == f0 \o properties
           f2 == f1 \o blocks
           dirs == AppendDir(h.dirs, DirProp, f0)
       IN  /\ h' = [h EXCEPT !.dirs = AppendDir(IF h.blocks # <<>> THEN AppendDir(dirs, DirDataBlk, f1) ELSE dirs,
                                                DirFmtProp, f2)]
           /\ files' = [files EXCEPT ![Name] = f2 \o format]
  /\ pc' = "mark"
  /\ UNCHANGED <<disk, run, names, used, last, count>>

\* updateEsmsHeader(): the marker and the directories, in a single write.
MarkCompleted ==
  /\ pc = "mark"
  /\ files' = [files EXCEPT ![Name] = UpdateEsmsHeader(@, h.dirs)]
  /\ pc' = "parse"
  /\ UNCHANGED <<disk, run, names, used, h, last, count>>

-----------------------------------------------------------------------------
\* parseScriptLibbluES() and openAllEsmsESSourceFiles(), the checksums being tested again.
CanParse(f) ==
  /\ Parsable(f)
  /\ \E p \in {GetDirectoryOffset(f, DirProp)} : \E sources \in {ParseSources(f, p)} :
       sources # <<>> /\ \A i \in DOMAIN sources : IsValidSourceFile(sources[i])
UseScript ==
  /\ pc = "parse" /\ CanParse(files[Name])
  /\ used' = Append(used, files[Name])
  /\ pc' = IF Cur = Len(run.jobs) THEN "muxing" ELSE "search"
  /\ h' = NoHeader
  /\ UNCHANGED <<disk, files, run, names, last, count>>

BrokenScript ==
  /\ pc = "parse" /\ ~CanParse(files[Name])
  /\ pc' = "failed"
  /\ UNCHANGED <<disk, files, run, names, used, h, last, count>>

\* The end of the muxing of all streams.
FinishRun ==
  /\ pc = "muxing"
  /\ pc' = "idle"
  /\ last' = run.jobs
  /\ names' = <<>> /\ used' = <<>>
  /\ UNCHANGED <<disk, files, run, h, count>>

FailRun ==
  /\ pc = "failed"
  /\ pc' = "idle"
  /\ last' = NoJobs
  /\ names' = <<>> /\ used' = <<>> /\ h' = NoHeader
  /\ UNCHANGED <<disk, files, run, count>>

\* The run stops before the script is marked: of what was written the file keeps what left the buffers.
Interrupted ==
  /\ pc \notin {"idle", "failed"} /\ count < MaxEvents
  /\ IF pc = "packets"
       THEN \E n \in {0, HeaderLength, Len(files[Name])} :
              files' = [files EXCEPT ![Name] = SubSeq(@, 1, n)]
       ELSE files' = files
  /\ pc' = "failed"
  /\ count' = count + 1
  /\ UNCHANGED <<disk, run, names, used, h, last>>

Generate == CreateScript \/ CreateScriptFails \/ WritePacket \/ TooManyCommands \/ Restart
              \/ AddEsmsFileEnd \/ MarkCompleted
Step == Search \/ CheckScriptFile \/ Generate \/ UseScript \/ BrokenScript \/ FinishRun \/ FailRun
Next == \/ \E s \in Sources : EditSource(s)
        \/ \E r \in Runs : StartRun(r)
        \/ Step
        \/ Interrupted
Spec == Init /\ [][Next]_vars /\ WF_vars(Step)

-----------------------------------------------------------------------------
(* Properties *)

TypeOK ==
  /\ disk \in [Sources -> UNION {Editions[s] : s \in Sources}]
  /\ \A n \in DOMAIN files : \A i \in DOMAIN files[n] : files[n][i] \in 0..(ByteRange - 1)
  /\ run.jobs # NoJobs => run \in Runs
  /\ DOMAIN names \in {DOMAIN used, 1..Cur}
  /\ pc \in {"idle", "search", "check", "create", "packets", "mark", "parse", "muxing", "failed"}

\* What an analyser found and what is parsed are the same thing.  Without a DTS, the packet has
\* that of its PTS; the kind of picture is not read.  The bitstream mode of AC-3 is lost.
SamePacket(read, p, blocks) ==
  read = [extension |-> p.extension, pts |-> p.pts, dts |-> IF p.dtsPresent THEN p.dts ELSE p.pts,
          ext |-> p.ext, length |-> ComputePesFrameLength(p.cmds, blocks), cmds |-> p.cmds]
SameFormat(read, fmt, coding) ==
  IF coding = AC3 THEN [read EXCEPT !.bsmod = 0] = [fmt EXCEPT !.bsmod = 0] ELSE read = fmt
SameScript(read, found) ==
  /\ read.coding = found.coding /\ read.bitrate = found.bitrate
  /\ read.ptsRef = found.ptsRef /\ read.endPts = found.endPts
  /\ SameFormat(read.fmt, found.fmt, found.coding)
  /\ read.blocks = found.blocks
  /\ Len(read.packets) = Len(found.packets)
  /\ \A i \in DOMAIN found.packets : SamePacket(read.packets[i], found.packets[i], found.blocks)

\* What may have been found in a source whose first bytes and options look the same.
Findings(source, head, flags) ==
  UNION {{Analysis[source][c][o] : o \in {o \in DOMAIN Analysis[source][c] :
                                            /\ ComputeFlags(o) = flags
                                            /\ o.double = Analysis[source][c][o].doubled}} :
         c \in {c \in Editions[source] : c # NoFile /\ c.head = head}}

\* A name that genEsmsFilename() makes for the scripts of a source, and that no run gives to a
\* stream of another one.
IsOwnName(name, source) ==
  /\ \E k \in 1..MaxIncrement : name = GenEsmsFilename(source, k - 1)
  /\ \A r \in Runs : \A i \in 1..Len(r.jobs) : r.jobs[i].script = name => r.jobs[i].source \in {0, source}

\* What a run gets from a script is all that an analyser found, up to the last packet and to each
\* value of each field, in a source file whose first bytes are still those, under options that
\* are present as those of the stream are; and a script that findValidESScript() named after the
\* source of the stream is that source's.  The validator tells no more: bytes of the source after
\* the first ones and the values of options may have changed since (see UsedHasOptions), and the
\* script that the user names may be that of another source.
UsedIsFaithful ==
  pc = "muxing" => \A i \in DOMAIN used :
    LET job == run.jobs[i]
        read == ParseScript(used[i])
        sources == read.sources
    IN  /\ \A j \in DOMAIN sources : disk[sources[j].name].head = sources[j].crc
        /\ job.source # 0 /\ IsOwnName(names[i], job.source) => sources[1].name = job.source
        /\ \E found \in Findings(sources[1].name, disk[sources[1].name].head,
                                  ComputeFlags(job.options)) : SameScript(read, found)

\* What a run gets from the script of the source of a stream is what its analyser finds under the
\* options of that stream, as the help of main.c says of --fps, "Change in SPS VUI input
\* frame-rate to specified one."; computeFlagsLibbluESSettingsOptions() keeps no values.
UsedHasOptions ==
  pc = "muxing" => \A i \in DOMAIN used :
    LET job == run.jobs[i]
        read == ParseScript(used[i])
    IN  read.sources[1].name = job.source =>
          \E c \in {c \in Editions[job.source] : c.head = disk[job.source].head}, o \in OptionsTried(job.options) :
             SameScript(read, Analysis[job.source][c][o])

\* When no run is in progress, however the last one ended, a file that has the marker of
\* completed scripts holds all its sections, and the parser accepts it; but for the script of a
\* stream without packets, that has no section for them and that the parser refuses.
MarkedIsWhole ==
  \A n \in DOMAIN files :
    LET f == files[n] IN
    pc = "idle" /\ Len(f) >= HeaderLength /\ f[3] = 1 =>
      /\ HasSection(f, DirProp, PropMagic)
      /\ LET properties == ParseEsProperties(f, GetDirectoryOffset(f, DirProp))
             source == properties.sources[1]
             found == Findings(source.name, source.crc, properties.flags)
         IN  IF Parsable(f) THEN \E x \in found : SameScript(ParseScript(f), x)
                            ELSE \E x \in found : x.packets = <<>>

\* Unless scripts are rebuilt by force, the script that a stream of the run reads is not written
\* again for another stream of the run.
NotRewritten ==
  [][~run.force => \A i \in DOMAIN used : files'[names[i]] = files[names[i]]]_vars

\* A run asked for a second time, nothing having changed, analyses no source again; but those
\* with so many source files that the validator always refuses their script.
ReusedWhenUnchanged ==
  pc = "create" /\ run.jobs = last /\ ~run.force => Len(Paths(Options)) > MaxDir

\* A run ends: an analyser asks for a second analysis once at most.
RunsEnd == pc # "idle" ~> pc = "idle"
=============================================================================

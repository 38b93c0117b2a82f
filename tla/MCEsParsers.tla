---------------------------- MODULE MCEsParsers ----------------------------
EXTENDS EsParsers, TLC, SourceUnits, DtsPatcher

\* Variations of a field at a time.
With(base, f, values) == {[base EXCEPT ![f] = v] : v \in values}
OneOrTwo(first, others) == {<<u>> : u \in first} \cup {<<u, v>> : u \in first, v \in others}

-----------------------------------------------------------------------------
Ac3Base == [kind |-> "ac3", size |-> 768, fscod |-> 0, frmsizecod |-> 20,
            bsid |-> 8, bsmod |-> 0, acmod |-> 2, lfeon |-> 0,
            cmixlev |-> 0, surmixlev |-> 0, dsurmod |-> 1,
            audprodie |-> 0, roomtyp |-> 3, audprodi2e |-> 1, roomtyp2 |-> 1,
            timecod1e |-> 0, timecod1 |-> 0, timecod2e |-> 0]
Ac3Frames ==
  {Ac3Base, [Ac3Base EXCEPT !.acmod = 3, !.cmixlev = 3], [Ac3Base EXCEPT !.acmod = 4, !.surmixlev = 3],
   [Ac3Base EXCEPT !.acmod = 0, !.roomtyp2 = 3], [Ac3Base EXCEPT !.audprodie = 1],
   [Ac3Base EXCEPT !.frmsizecod = 8, !.size = 320],
   [Ac3Base EXCEPT !.timecod1e = 1, !.timecod1 = 24 * 512],
   [Ac3Base EXCEPT !.bsid = 6, !.timecod1e = 1, !.timecod1 = 24 * 512],
   [Ac3Base EXCEPT !.size = 700]}
  \cup With(Ac3Base, "fscod", {1, 3}) \cup With(Ac3Base, "bsid", {6, 9})
  \cup With(Ac3Base, "bsmod", {1}) \cup With(Ac3Base, "acmod", {0, 3, 7})
  \cup With(Ac3Base, "lfeon", {1})
EBase == [kind |-> "eac3", size |-> 200, strmtyp |-> 1, substreamid |-> 0, frmsiz |-> 99,
          fscod |-> 0, fscod2 |-> 0, numblkscod |-> 3, acmod |-> 2, lfeon |-> 0, bsid |-> 16,
          compre |-> 0, compr2e |-> 0, chanmape |-> 1, chanmap |-> 2^9,
          mixmdate |-> 1, lfemixlevcode |-> 0, infomdate |-> 1, audprodie |-> 0, audprodi2e |-> 0,
          addbsie |-> 1, addbsil |-> 1]
EFrames == {EBase, [EBase EXCEPT !.frmsiz = 5, !.size = 12], [EBase EXCEPT !.chanmape = 0, !.chanmap = 5]}
  \cup With(EBase, "strmtyp", {0, 2, 3}) \cup With(EBase, "substreamid", {1})
  \cup With(EBase, "fscod", {1, 3}) \cup With(EBase, "bsid", {10, 17})
  \cup With(EBase, "chanmap", {1}) \cup With(EBase, "mixmdate", {0})
Sync == [format |-> "truehd", signed |-> TRUE, crcOk |-> TRUE, extra |-> 0,
         sixteen |-> FALSE, dynObjectOnly |-> FALSE, sampleRate |-> 48000]
MlpBase == [kind |-> "mlp", size |-> 60, length |-> 30, nibbleOk |-> TRUE, major |-> <<Sync>>,
            extraWord |-> <<FALSE, TRUE>>, ends |-> <<4, 9>>]
Plain == [MlpBase EXCEPT !.major = <<>>]
MlpUnits == {MlpBase, Plain, [Plain EXCEPT !.ends = <<10, 25>>], [Plain EXCEPT !.nibbleOk = FALSE]}
  \cup {[MlpBase EXCEPT !.major = <<m>>] :
         m \in With(Sync, "format", {"mlp"}) \cup With(Sync, "signed", {FALSE})
               \cup With(Sync, "crcOk", {FALSE}) \cup With(Sync, "extra", {1, 2})
               \cup With(Sync, "sampleRate", {96000})
               \cup {[Sync EXCEPT !.extra = n, !.sixteen = TRUE, !.dynObjectOnly = d] :
                       n \in 1..2, d \in BOOLEAN}}
Ac3Units == {Ac3Base, EBase, MlpBase, Plain}
MCAc3Inputs == {<<>>} \cup {<<a, b, c, d>> : a, b, c, d \in Ac3Units}
               \cup {<<a>> : a \in Ac3Frames \cup MlpUnits \cup {[Ac3Base EXCEPT !.kind = "junk"]}}
               \cup {<<a, b>> : a \in Ac3Frames, b \in Ac3Frames \cup EFrames \cup MlpUnits}
               \cup {<<Ac3Base, MlpBase, b>> : b \in MlpUnits}
               \cup {<<Ac3Base, a, b>> : a, b \in EFrames}
MCAc3Options == [extractCore : BOOLEAN, isMlpFile : BOOLEAN]
-----------------------------------------------------------------------------
Riff == [kind |-> "riff", size |-> 12, wave |-> TRUE]
JunkChunk == [kind |-> "junk", size |-> 20, ckSize |-> 12]
FmtBase == [kind |-> "fmt", size |-> 24, ckSize |-> 16, formatTag |-> 1, nbChannels |-> 1,
            sampleRate |-> 48000, bytesPerSec |-> 96000, bytesPerBlock |-> 2, bitsPerSample |-> 16,
            extSize |-> 0, validBits |-> 16, mask |-> 4, subFormatPcm |-> TRUE]
Extensible == [FmtBase EXCEPT !.formatTag = 65534, !.size = 48, !.ckSize = 40, !.extSize = 22]
FmtChunks ==
  {FmtBase, Extensible,
   [Extensible EXCEPT !.ckSize = 18, !.size = 26, !.extSize = 0],
   [FmtBase EXCEPT !.bitsPerSample = 24, !.bytesPerBlock = 3, !.bytesPerSec = 144000],
   [FmtBase EXCEPT !.nbChannels = 2, !.bytesPerBlock = 4, !.bytesPerSec = 192000],
   [FmtBase EXCEPT !.sampleRate = 96000, !.bytesPerSec = 192000],
   [FmtBase EXCEPT !.bitsPerSample = 20, !.bytesPerBlock = 3, !.bytesPerSec = 144000],
   [FmtBase EXCEPT !.sampleRate = 192000, !.nbChannels = 7, !.bytesPerBlock = 14, !.bytesPerSec = 2688000],
   [FmtBase EXCEPT !.ckSize = 18, !.size = 26], [FmtBase EXCEPT !.ckSize = 12]}
  \cup With(FmtBase, "formatTag", {2}) \cup With(FmtBase, "nbChannels", {0, 9})
  \cup With(FmtBase, "sampleRate", {44100}) \cup With(FmtBase, "bytesPerSec", {1})
  \cup With(Extensible, "extSize", {20}) \cup With(Extensible, "validBits", {20, 24, 8})
  \cup With(Extensible, "mask", {3}) \cup With(Extensible, "subFormatPcm", {FALSE})
DataOf(fmt, frames, more) ==
  LET n == frames * fmt.bytesPerBlock * (fmt.sampleRate \div 200) + more * fmt.bytesPerBlock
  IN  [kind |-> "data", ckSize |-> n, size |-> n + 8]
Other == [kind |-> "list", size |-> 30]
MCLpcmInputs ==
  {<<Riff, f, DataOf(f, 2, more)>> : f \in FmtChunks, more \in {0, 1, 100}}
  \cup {<<Riff, JunkChunk, JunkChunk, FmtBase, DataOf(FmtBase, n, m)>> : n \in 0..2, m \in {0, 7}}
  \cup {<<>>, <<[Riff EXCEPT !.wave = FALSE]>>, <<FmtBase>>, <<Riff>>, <<Riff, DataOf(FmtBase, 1, 0)>>,
         <<Riff, Other, FmtBase>>, <<Riff, FmtBase>>, <<Riff, FmtBase, Other, DataOf(FmtBase, 1, 0)>>,
         <<Riff, FmtBase, JunkChunk, DataOf(FmtBase, 1, 0)>>,
         <<Riff, FmtBase, DataOf(FmtBase, 1, 3), Other>>}
MCLpcmOptions == {[extractCore |-> FALSE]}
-----------------------------------------------------------------------------
Seg == [size |-> 0, magic |-> "PG", pts |-> 90000, dts |-> 0, length |-> 0]
Sized(u, content) == [u EXCEPT !.length = content, !.size = content + 3 + IF u.magic = "none" THEN 0 ELSE 10]
Obj(id, window) == [id |-> id, window |-> window, cropped |-> FALSE]
Pcs(epoch, objects) ==
  [Seg EXCEPT !.size = 13 + 11 + 8 * Len(objects), !.length = 11 + 8 * Len(objects)]
  @@ [kind |-> "PCS", epochStart |-> epoch, videoW |-> 80, videoH |-> 40, objects |-> objects]
Win(id, w, h) == [id |-> id, w |-> w, h |-> h]
Wds(windows) == Sized(Seg, 1 + 9 * Len(windows)) @@ [kind |-> "WDS", windows |-> windows]
Pds(entries) == Sized(Seg, 2 + 5 * entries) @@ [kind |-> "PDS"]
Ods(id, w, h, fragment, first, last) ==
  Sized(Seg, 4 + fragment) @@ [kind |-> "ODS", id |-> id, w |-> w, h |-> h,
                               first |-> first, last |-> last]
Whole(id, w, h) == Ods(id, w, h, 10, TRUE, TRUE)
End == Sized(Seg, 0) @@ [kind |-> "END"]
At(units, pts, dts) == [k \in DOMAIN units |-> [units[k] EXCEPT !.pts = pts, !.dts = dts]]
NoObjects == <<>>
Shown == {NoObjects, <<Obj(1, 1)>>, <<Obj(1, 1), Obj(2, 1)>>, <<Obj(2, 1), Obj(1, 2)>>,
          <<[Obj(1, 1) EXCEPT !.cropped = TRUE]>>, <<Obj(1, 1), Obj(2, 1), Obj(1, 2)>>}
PcsOf(epoch, o) == LET extra == 8 * Len(SelectSeq(o, LAMBDA x : x.cropped))
                   IN  [Pcs(epoch, o) EXCEPT !.size = @ + extra, !.length = @ + extra]
Windows == <<Win(1, 20, 20), Win(2, 30, 10)>>
PgsSets ==
  {At(<<PcsOf(e, o), Wds(Windows), Pds(1), Whole(1, 40, 30), Whole(2, 20, 50), End>>, t, d) :
     e \in BOOLEAN, o \in Shown, t \in {0, 9000}, d \in {0, -50}}
Windows8 == [i \in 1..8 |-> Win(i, 8, 8)]
FullSet(t) == At(<<Pcs(TRUE, NoObjects), Wds(Windows8), Pds(8), Pds(0), Pds(0), Whole(1, 30, 30),
                   Whole(2, 9, 9), End>>, t, 0)
PgsSmall == {Pcs(TRUE, NoObjects), Wds(<<Win(1, 16, 16)>>), Pds(0), End,
             Ods(1, 40, 30, 4, TRUE, FALSE), Ods(1, 40, 30, 6, FALSE, TRUE), Ods(1, 0, 0, 3, FALSE, FALSE)}
PgsInputs ==
  {<<>>, FullSet(9000) \o FullSet(18000), FullSet(9000) \o FullSet(18000) \o FullSet(27000),
   <<Pcs(TRUE, NoObjects), End>>, <<Pcs(TRUE, NoObjects), Wds(<<>>), [Pds(0) EXCEPT !.length = 4, !.size = 17], End>>,
   FullSet(9000) \o <<Pcs(FALSE, NoObjects)>>,
   [k \in 1..12 |-> IF k = 12 THEN End ELSE IF k = 11 THEN Wds(<<>>) ELSE Pcs(TRUE, NoObjects)],
   [k \in 1..11 |-> IF k = 11 THEN End ELSE IF k = 10 THEN Wds(<<>>) ELSE Pcs(TRUE, NoObjects)]}
  \cup PgsSets \cup {s \o s : s \in PgsSets}
  \cup {<<Pcs(FALSE, <<Obj(1, 1)>>), Wds(Windows), a, b, c, End>> :
          a, b, c \in PgsSmall \cup {Ods(2, 8, 8, 8, TRUE, FALSE)}}
  \cup {[k \in 1..2 |-> IF k = 1 THEN [Pcs(TRUE, NoObjects) EXCEPT !.magic = m, !.size = s] ELSE End] :
          m \in {"PG", "IG", "none"}, s \in {14, 24, 25}}
NoEffects == [windows |-> 0, effects |-> <<>>]
Page(in, bogs) == [inEffects |-> in, outEffects |-> NoEffects, bogs |-> bogs]
Menu(oom, pages) == [oom |-> oom, pages |-> pages]
Ics(magic, c, fragment, first, last) ==
  Sized([Seg EXCEPT !.magic = magic], 9 + fragment)
  @@ [kind |-> "ICS", videoW |-> 80, videoH |-> 60, composition |-> c,
      first |-> first, last |-> last]
Menus == {Menu(FALSE, <<>>), Menu(TRUE, <<Page(NoEffects, <<<<0>>>>)>>),
          Menu(FALSE, <<Page([windows |-> 1, effects |-> <<<<Obj(1, 1)>>>>], <<<<0, 2>>, <<1>>>>)>>)}
\* Their sizes in a segment: empty, one button without command, three buttons.
MenuSize(c) == CASE c.pages = <<>> -> 8 [] c.oom -> 77 [] OTHER -> 198
WithMagic(units, magic) ==
  [k \in DOMAIN units |-> Sized([units[k] EXCEPT !.magic = magic], units[k].length)]
IgsSets ==
  UNION {{WithMagic(<<Ics("IG", c, MenuSize(c), TRUE, TRUE), Pds(2), Whole(1, 40, 30), Whole(2, 20, 20), End>>, m),
          WithMagic(<<Ics("IG", c, 4, TRUE, FALSE), Pds(2), Ics("IG", c, MenuSize(c) - 4, FALSE, TRUE), End>>, m),
          WithMagic(<<Ics("IG", c, MenuSize(c) - 1, TRUE, TRUE), End>>, m)} :
         c \in Menus, m \in {"IG", "none"}}
IgsInputs ==
  IgsSets \cup {At(s, p, d) : s \in IgsSets, p \in {0, 500}, d \in {0, 100}}
  \cup {<<s[1], [s[2] EXCEPT !.dts = 30, !.pts = 40]>> \o SubSeq(s, 3, Len(s)) : s \in IgsSets}
  \cup {s \o s : s \in IgsSets}
  \cup {<<s[1]>> \o s : s \in IgsSets} \cup {<<s[1], s[1]>> \o s : s \in IgsSets} \cup {Tail(s) : s \in IgsSets}
MCHdmvInputs == PgsInputs \cup IgsInputs
MCHdmvOptions == [igs : BOOLEAN]
-----------------------------------------------------------------------------
SeqBase == [marker |-> TRUE, width |-> 1920, height |-> 1080, aspectRatio |-> 3, frameRateCode |-> 4,
            bitRate |-> 50000, vbvBufferSize |-> 597, constrained |-> FALSE,
            intraMatrix |-> <<>>, nonIntraMatrix |-> <<>>]
ExtBase == [escape |-> FALSE, profile |-> 4, level |-> 4, progressive |-> FALSE, chroma |-> 1,
            widthExt |-> 0, heightExt |-> 0, bitRateExt |-> 0, vbvExt |-> 0, marker |-> TRUE,
            lowDelay |-> FALSE, rateN |-> 0, rateD |-> 0]
HeadBase == [kind |-> "head", size |-> 40, seq |-> SeqBase, ext |-> <<ExtBase>>, extensions |-> <<>>,
             gop |-> [marker |-> TRUE, brokenLink |-> FALSE], gopExtensions |-> <<>>]
SeqHeads == With(SeqBase, "marker", {FALSE}) \cup With(SeqBase, "width", {0, 1440})
  \cup With(SeqBase, "height", {0}) \cup With(SeqBase, "aspectRatio", {0, 2, 5})
  \cup With(SeqBase, "frameRateCode", {0, 1, 7, 9}) \cup With(SeqBase, "bitRate", {0, 15000, 110000})
  \cup With(SeqBase, "vbvBufferSize", {1020}) \cup With(SeqBase, "constrained", {TRUE})
  \cup With(SeqBase, "intraMatrix", {<<8, 16>>, <<16>>, <<8, 0>>}) \cup With(SeqBase, "nonIntraMatrix", {<<0>>})
SeqExts == With(ExtBase, "escape", {TRUE}) \cup With(ExtBase, "profile", {0, 1, 6}) \cup With(ExtBase, "level", {5, 8})
  \cup With(ExtBase, "progressive", {TRUE}) \cup With(ExtBase, "chroma", {0, 2}) \cup With(ExtBase, "widthExt", {1})
  \cup With(ExtBase, "bitRateExt", {1}) \cup With(ExtBase, "vbvExt", {1}) \cup With(ExtBase, "marker", {FALSE})
  \cup With(ExtBase, "lowDelay", {TRUE}) \cup With(ExtBase, "rateN", {1})
VideoHeads ==
  {[HeadBase EXCEPT !.seq = q] : q \in SeqHeads} \cup {[HeadBase EXCEPT !.ext = <<e>>] : e \in SeqExts}
  \cup With(HeadBase, "ext", {<<>>}) \cup With(HeadBase, "extensions", {<<"display">>, <<"scalable">>})
  \cup With(HeadBase, "gop", {[marker |-> FALSE, brokenLink |-> FALSE], [marker |-> TRUE, brokenLink |-> TRUE]})
  \cup With(HeadBase, "gopExtensions", {<<"display">>})
  \cup {[HeadBase EXCEPT !.seq.width = z[1], !.seq.height = z[2], !.seq.frameRateCode = r,
                         !.ext[1].progressive = p] :
          z \in {<<1280, 720>>, <<720, 576>>, <<720, 480>>}, r \in {1, 3, 4, 6, 7}, p \in BOOLEAN}
ProgressiveHead == [HeadBase EXCEPT !.seq.frameRateCode = 1, !.ext[1].progressive = TRUE]
Picture(type, reference) ==
  [kind |-> "picture", size |-> 100, type |-> type, temporalReference |-> reference, vbvDelay |-> 65535,
   fullPelForward |-> FALSE, forwardCode |-> 7, fullPelBackward |-> FALSE, backwardCode |-> 7,
   fCodes |-> <<5, 5, 15, 15>>, structure |-> "frame", framePredFrameDct |-> FALSE,
   extensions |-> <<>>, slices |-> <<1, 2>>]
PictureI == Picture("I", 0)
BadPictures == With(PictureI, "type", {"D", "reserved", "P"}) \cup With(PictureI, "vbvDelay", {9})
  \cup With(PictureI, "fCodes", {<<5, 5, 15, 5>>, <<5, 5, 5, 15>>, <<10, 5, 15, 15>>})
  \cup With(PictureI, "structure", {"top", "reserved"}) \cup With(PictureI, "framePredFrameDct", {TRUE})
  \cup With(PictureI, "extensions", {<<"copyright">>, <<"matrix">>}) \cup With(PictureI, "slices", {<<>>, <<1, 3>>})
  \cup With(Picture("B", 1), "fullPelBackward", {TRUE}) \cup With(Picture("B", 1), "backwardCode", {3})
  \cup With(Picture("P", 1), "fullPelForward", {TRUE}) \cup With(Picture("P", 1), "forwardCode", {3})
Patterns == {<<Picture("I", 0)>>, <<Picture("I", 0), Picture("P", 1)>>,
             <<Picture("I", 2), Picture("B", 0), Picture("B", 1)>>,
             <<Picture("I", 0), Picture("P", 3), Picture("B", 1), Picture("B", 2)>>,
             <<Picture("I", 1), Picture("B", 0), Picture("P", 3), Picture("B", 2)>>}
EndCode == [kind |-> "end", size |-> 4]
VideoGroups ==
  {<<h>> \o p \o <<EndCode>> : h \in {HeadBase, ProgressiveHead}, p \in Patterns}
  \cup {<<h, PictureI, EndCode>> : h \in VideoHeads}
  \cup {<<HeadBase, PictureI, g, PictureI, EndCode>> : g \in VideoHeads}
  \cup {<<HeadBase>> \o p \o e \o <<HeadBase>> \o q \o <<EndCode>> :
          p, q \in Patterns, e \in {<<>>, <<EndCode, EndCode>>}}
  \cup {<<h, PictureI, b, EndCode>> : h \in {HeadBase, ProgressiveHead}, b \in BadPictures}
  \cup {<<HeadBase, b, EndCode>> : b \in BadPictures}
\* Beyond the times that are exact in single precision, in order and reordered.
InOrder(n) == [i \in 1..n |-> Picture(IF i = 1 THEN "I" ELSE "P", i - 1)]
Reordered(n) == [i \in 1..n |-> Picture(IF i = 1 THEN "I" ELSE IF i % 2 = 1 THEN "P" ELSE "B",
                                        IF i % 2 = 1 THEN i ELSE i - 2)]
LongVideos == {<<ProgressiveHead>> \o p \o <<ProgressiveHead>> \o q \o <<EndCode>> :
                 p \in {InOrder(17)}, q \in {InOrder(19), Reordered(18)}}
MCH262Inputs ==
  VideoGroups \cup
  {<<>>, <<EndCode>>, <<PictureI>>, <<HeadBase>>, <<HeadBase, EndCode>>, <<HeadBase, HeadBase>>, <<HeadBase, PictureI>>,
   <<EndCode, HeadBase, PictureI, EndCode, EndCode>>, <<HeadBase, PictureI, [EndCode EXCEPT !.kind = "gop"]>>,
   <<HeadBase, PictureI, Picture("B", 1), Picture("B", 2), Picture("B", 3), EndCode>>}
  \cup {<<[ProgressiveHead EXCEPT !.seq.frameRateCode = 2]>>
          \o [i \in 1..n |-> Picture(IF i = 1 THEN "I" ELSE "P", i - 1)] \o <<EndCode>> : n \in {25, 26}}
  \cup LongVideos
MCH262Options == {[secondaryStream |-> FALSE, vbvInUse |-> -1], [secondaryStream |-> FALSE, vbvInUse |-> 1],
                  [secondaryStream |-> TRUE, vbvInUse |-> 0]}
-----------------------------------------------------------------------------
CoreBase == [kind |-> "core", size |-> 200, termination |-> FALSE, samplesPerBlock |-> 32, blocks |-> 16,
             crcPresent |-> FALSE, frameLength |-> 200, arrangement |-> 9, freqCode |-> 13, bitRateCode |-> 15,
             fixedBit |-> FALSE, extAudioId |-> 0, extAudio |-> FALSE, lfe |-> 1, syntaxCode |-> 7,
             pcmRes |-> 6, auxData |-> FALSE, hdcd |-> FALSE]
CoreFrames ==
  With(CoreBase, "blocks", {8, 7, 4}) \cup With(CoreBase, "crcPresent", {TRUE})
  \cup With(CoreBase, "frameLength", {12, 90}) \cup With(CoreBase, "arrangement", {0, 2}) \cup With(CoreBase, "freqCode", {8})
  \cup With(CoreBase, "bitRateCode", {0, 29, 30}) \cup With(CoreBase, "fixedBit", {TRUE})
  \cup With(CoreBase, "extAudio", {TRUE}) \cup With(CoreBase, "lfe", {0, 3}) \cup With(CoreBase, "syntaxCode", {8})
  \cup With(CoreBase, "pcmRes", {0}) \cup With(CoreBase, "hdcd", {TRUE})
  \cup {[CoreBase EXCEPT !.termination = TRUE, !.blocks = b, !.samplesPerBlock = 20] : b \in {5, 6}}
  \cup {[CoreBase EXCEPT !.extAudio = TRUE, !.extAudioId = 1]}
XllFrame(size) == [at |-> 0, size |-> size, sync |-> TRUE, version |-> 0, headerSize |-> 16, sizeBits |-> 6,
                   scalableLsbs |-> FALSE, crcOk |-> TRUE, chSets |-> 1, segments |-> 16, samples |-> 32, nbChannels |-> 6]
XllNav(size) == [size |-> size, sync |-> TRUE, bufferKb |-> 16, delay |-> 0, delayBits |-> 0, offset |-> 0]
NavBase == [mode |-> "components", components |-> {"xll"}, sync |-> FALSE, xll |-> XllNav(300),
            oneTrack |-> FALSE, perChannel |-> FALSE]
AssetStatic == [type |-> "music", language |-> FALSE, textLength |-> 0, bitDepth |-> 24, sampleRate |-> 48000,
                nbChannels |-> 6, directFeed |-> TRUE, maskBits |-> 4, maskTop |-> 3, speakers |-> 6, remaps |-> <<>>,
                downmix6 |-> FALSE, downmix2 |-> FALSE, representation |-> ""]
AssetBase == [length |-> 300, descriptorLength |-> 15, static |-> AssetStatic, drc |-> FALSE, dialNorm |-> TRUE,
              mix |-> <<>>, nav |-> NavBase, rev2 |-> "", core |-> <<[extSS |-> 0, asset |-> 0]>>,
              frames |-> <<XllFrame(300)>>]
HeaderStatic == [timeStamp |-> FALSE, presentations |-> 1, activeMask |-> {0}, mix |-> <<>>, refClock |-> 48000,
                 durationCode |-> 0, assets |-> 1]
ExtOf(a, headerLength) ==
  [kind |-> "ext", size |-> headerLength + a.length, idx |-> 0, long |-> FALSE, headerLength |-> headerLength,
   frameLength |-> headerLength + a.length, crcOk |-> TRUE, static |-> <<HeaderStatic>>, assets |-> <<a>>]
DtsExtBase == ExtOf(AssetBase, 100)
Lossless(n) == ExtOf([AssetBase EXCEPT !.length = n, !.nav.xll = XllNav(n), !.frames = <<XllFrame(n)>>], 100)
Secondary == [DtsExtBase EXCEPT !.idx = 2, !.static[1].durationCode = 7, !.static[1].activeMask = {0, 2},
                                !.assets[1].nav.mode = "lowBitrate", !.assets[1].core = <<>>]
\* A descriptor of the least length that holds its fields.
Fit(e) == LET a == e.assets[1]
          IN  [e EXCEPT !.assets[1].descriptorLength =
                 BytesOf(BaseBits(e, a, Stereo(a)) + IF a.rev2 = "" THEN 0 ELSE Rev2Bits(e, a))]
WithAsset(f, values) == {Fit([DtsExtBase EXCEPT !.assets[1][f] = v]) : v \in values}
WithNav(f, values) == {Fit([DtsExtBase EXCEPT !.assets[1].nav[f] = v]) : v \in values}
WithStatic(f, values) == {Fit([DtsExtBase EXCEPT !.assets[1].static[f] = v]) : v \in values}
WithHeader(f, values) == {[DtsExtBase EXCEPT !.static[1][f] = v] : v \in values}
Mixing == <<[maskBits |-> 4, outputs |-> <<2, 6>>, adjustment |-> 0]>>
Mixed == [drcControl |-> 3, perChannel |-> TRUE, coeffs |-> 1]
ExtFrames ==
  {DtsExtBase, Secondary, [Secondary EXCEPT !.idx = 0], [DtsExtBase EXCEPT !.static = <<>>]}
  \cup {[e EXCEPT !.assets[1].descriptorLength = n] : n \in {5, 14, 18, 40}, e \in {DtsExtBase}}
  \cup WithNav("components", {{"xbr", "xxch"}, {"lbr"}, {"extCore", "x96", "reserved1"}, {}})
  \cup WithNav("mode", {"lossless", "lowBitrate", "auxiliary"}) \cup WithNav("sync", {TRUE}) \cup WithNav("oneTrack", {TRUE})
  \cup WithAsset("drc", {TRUE}) \cup WithAsset("rev2", {"v1", "v2"})
  \cup WithAsset("core", {<<>>, <<[extSS |-> 1, asset |-> 0]>>}) \cup WithAsset("length", {310})
  \cup WithStatic("type", {"", "reserved"}) \cup WithStatic("language", {TRUE}) \cup WithStatic("textLength", {3, 40})
  \cup WithStatic("bitDepth", {20}) \cup WithStatic("sampleRate", {96000, 44100, 192000}) \cup WithStatic("nbChannels", {2, 7, 26})
  \cup WithStatic("directFeed", {FALSE}) \cup WithStatic("maskBits", {0}) \cup WithStatic("downmix2", {TRUE})
  \cup WithStatic("remaps", {<<[required |-> 2, coeffs |-> <<1, 2>>]>>, <<[required |-> 2, coeffs |-> <<1>>]>>})
  \cup WithHeader("timeStamp", {TRUE}) \cup WithHeader("durationCode", {1}) \cup WithHeader("refClock", {44100})
  \cup WithHeader("mix", {Mixing}) \cup WithHeader("activeMask", {{0, 2}})
  \cup With(DtsExtBase, "long", {TRUE}) \cup With(DtsExtBase, "crcOk", {FALSE}) \cup With(DtsExtBase, "headerLength", {40, 90})
  \cup {Fit([e EXCEPT !.static[1].mix = Mixing, !.assets[1].mix = m]) : m \in {<<>>, <<Mixed>>},
          e \in {DtsExtBase, [DtsExtBase EXCEPT !.assets[1].nav.oneTrack = TRUE]}}
  \cup {[DtsExtBase EXCEPT !.static = <<>>, !.assets[1].rev2 = r, !.assets[1].drc = TRUE] : r \in {"v1"}}
  \cup {Fit([DtsExtBase EXCEPT !.assets[1].static = [@ EXCEPT !.directFeed = FALSE, !.nbChannels = 2, !.representation = r]]) :
          r \in {"LtRt", "headphone"}}
Periods(exts) == FlattenSeq([k \in DOMAIN exts |-> <<CoreBase, exts[k]>>])
Smoothed == {<<300, 2000>>, <<300, 4000>>, <<3000, 3100, 3400>>, <<4000, 300>>, <<300, 300, 6500>>,
             <<600, 302>>, <<3000, 4800, 4800, 300>>}
XllVariants ==
  {Periods(<<Lossless(400), e>>) :
     e \in {[DtsExtBase EXCEPT !.assets[1].nav.xll = [@ EXCEPT ![f[1]] = f[2]]] :
              f \in {<<"size", 200>>, <<"sync", FALSE>>, <<"bufferKb", 300>>, <<"delay", 1>>, <<"offset", 20>>, <<"offset", 300>>}}
       \cup {[DtsExtBase EXCEPT !.assets[1].frames[1] = [@ EXCEPT ![f[1]] = f[2]]] :
              f \in {<<"sync", FALSE>>, <<"version", 3>>, <<"headerSize", 11>>, <<"headerSize", 12>>, <<"crcOk", FALSE>>,
                     <<"chSets", 4>>, <<"samples", 513>>, <<"size", 200>>, <<"size", 302>>, <<"segments", 300>>}}
       \cup {[DtsExtBase EXCEPT !.assets[1].frames = <<>>]}}
\* The end of a frame comes at the start of the next asset.
Straddling ==
  Periods(<<[Lossless(200) EXCEPT !.assets[1].frames = <<XllFrame(160), [XllFrame(140) EXCEPT !.at = 160]>>],
            [Lossless(300) EXCEPT !.assets[1].nav.xll.offset = 100, !.assets[1].frames = <<[XllFrame(200) EXCEPT !.at = 100]>>],
            [DtsExtBase EXCEPT !.assets[1].nav.xll.sync = FALSE, !.assets[1].frames = <<>>]>>)
Chunk == [kind |-> "chunk", type |-> "header", size |-> 32, ckLength |-> 16, version |-> 0, refClockCode |-> 1,
          frameRateCode |-> 0, variableBitRate |-> FALSE, maxSamples |-> 512, codecDelay |-> 0, extCore |-> FALSE,
          lossless |-> FALSE, text |-> 4]
ChunkOf(type) == [Chunk EXCEPT !.type = type]
Presentation(delay) == [ChunkOf("presentation") EXCEPT !.codecDelay = delay, !.ckLength = 32, !.size = 48]
PadUnit(n) == [kind |-> "pad", size |-> n]
Stream(units) == LET n == FileSize(units)
                 IN  <<[ChunkOf("stream") EXCEPT !.size = 16, !.ckLength = n]>> \o units
                     \o IF n % 4 = 0 THEN <<>> ELSE <<PadUnit(4 - (n % 4))>>
HdFile(before, units, after) == <<Chunk>> \o before \o Stream(units) \o after
SmallChunks ==
  {[ChunkOf(t) EXCEPT !.ckLength = n, !.size = 16 + n] :
     t \in {"core", "extension", "presentation", "timecode", "blackout", "fileInfo", "buildVersion", "text", "navigation", "unknown", "header"},
     n \in {4, 8, 24}}
  \cup {[Presentation(0) EXCEPT !.maxSamples = 0], [Presentation(0) EXCEPT !.extCore = TRUE, !.lossless = TRUE],
        [ChunkOf("timecode") EXCEPT !.frameRateCode = 8]}
OddCore == [CoreBase EXCEPT !.size = 201, !.frameLength = 201]
HdFiles ==
  {HdFile(<<Presentation(d)>>, Periods(<<DtsExtBase, DtsExtBase, DtsExtBase>>), after) :
     d \in {0, 255, 512, 1024}, after \in {<<>>, <<ChunkOf("fileInfo")>>}}
  \cup {HdFile(<<c>>, <<OddCore, DtsExtBase>>, <<>>) : c \in SmallChunks}
  \cup {HdFile(<<c, c>>, <<CoreBase>>, <<>>) : c \in {ChunkOf("timecode"), ChunkOf("unknown")}}
  \cup {<<[Chunk EXCEPT ![f[1]] = f[2]]>> \o Stream(<<CoreBase>>) :
          f \in {<<"version", 1>>, <<"refClockCode", 3>>, <<"frameRateCode", 9>>, <<"type", "text">>}}
  \cup {HdFile(<<>>, Periods(<<DtsExtBase, DtsExtBase>>), <<Presentation(512)>>), <<Chunk>>, <<Chunk, ChunkOf("stream")>>,
        HdFile(<<>>, <<CoreBase>>, Stream(<<CoreBase>>))}
ToRebuild == {HdFile(<<ChunkOf("extension")>>, Periods([k \in DOMAIN s |-> Lossless(s[k])]), <<>>) : s \in Smoothed}
             \cup {HdFile(<<ChunkOf("extension")>>, s, <<>>) : s \in XllVariants \cup {Straddling}}
             \cup {HdFile(<<ChunkOf("extension"), Presentation(512)>>, Periods([k \in 1..3 |-> Lossless(900 * k)]), <<>>)}
             \cup {HdFile(<<ChunkOf("extension")>>, Periods(<<e, e>>), <<>>) :
                     e \in WithStatic("language", {TRUE}) \cup WithAsset("rev2", {"v1"}) \cup WithHeader("mix", {Mixing})
                           \cup {[DtsExtBase EXCEPT !.assets[1].descriptorLength = 18]}}
MCDtsInputs ==
  {<<>>, <<[CoreBase EXCEPT !.kind = "junk"]>>}
  \cup OneOrTwo({CoreBase}, CoreFrames) \cup {<<c>> : c \in CoreFrames} \cup {<<c, c>> : c \in CoreFrames}
  \cup {<<CoreBase, e, CoreBase, DtsExtBase>> : e \in ExtFrames} \cup {<<e, e>> : e \in ExtFrames}
  \cup {<<DtsExtBase, CoreBase, DtsExtBase>>} \cup {<<CoreBase, c, DtsExtBase>> : c \in With(CoreBase, "blocks", {8, 32})}
  \cup HdFiles \cup ToRebuild \cup {Periods(<<Lossless(300), Lossless(300)>>)}
MCDtsOptions ==
  {[extractCore |-> FALSE, secondaryStream |-> FALSE, pbrFile |-> <<>>, forceRebuild |-> f] : f \in BOOLEAN}
  \cup {[extractCore |-> c, secondaryStream |-> ~c, pbrFile |-> <<>>, forceRebuild |-> FALSE] : c \in BOOLEAN}
  \cup {[extractCore |-> FALSE, secondaryStream |-> FALSE, pbrFile |-> <<2000, 2401>>, forceRebuild |-> f] : f \in BOOLEAN}
-----------------------------------------------------------------------------
HrdBase == [rateScale |-> 0, sizeScale |-> 0, sched |-> <<[rate |-> 10, size |-> 10]>>, removalLength |-> 23]
SignalBase == [format |-> 2, fullRange |-> FALSE, colour |-> <<<<1, 1, 1>>>>]
VuiBase == [sar |-> <<[idc |-> 1]>>, overscan |-> <<>>, signal |-> <<SignalBase>>, chromaLoc |-> <<>>,
            timing |-> <<[units |-> 1001, scale |-> 48000, fixed |-> TRUE]>>,
            nalHrd |-> <<HrdBase>>, vclHrd |-> <<>>, lowDelay |-> FALSE, picStruct |-> TRUE]
SpsBase == [profile |-> 100, flags |-> {}, level |-> 40, id |-> 0, chroma |-> 1, depths |-> <<0, 0>>,
            bypass |-> FALSE, lists |-> <<>>, log2FrameNum |-> 0, pocType |-> 0, log2PicOrderCnt |-> 0,
            refFrames |-> 4, gaps |-> FALSE, mbWidth |-> 80, mapHeight |-> 45, frameMbsOnly |-> TRUE,
            direct8x8 |-> TRUE, crop |-> <<>>, vui |-> <<VuiBase>>]
VuiWith(f, values) == {[SpsBase EXCEPT !.vui[1][f] = v] : v \in values}
NoHrd == [SpsBase EXCEPT !.vui[1].nalHrd = <<>>]
InterlacedSps == [SpsBase EXCEPT !.frameMbsOnly = FALSE, !.mbWidth = 120, !.mapHeight = 34,
                                 !.crop = <<<<0, 0, 0, 2>>>>, !.vui[1].timing[1].scale = 60000]
SpsVariants ==
  With(SpsBase, "profile", {77, 88, 110}) \cup With(SpsBase, "flags", {{4}}) \cup With(SpsBase, "level", {20, 41, 43, 50})
  \cup With(SpsBase, "id", {1}) \cup With(SpsBase, "chroma", {0}) \cup With(SpsBase, "depths", {<<2, 0>>})
  \cup With(SpsBase, "bypass", {TRUE}) \cup With(SpsBase, "lists", {<<<<>>, <<<<8, 0, -16>>>>>>})
  \cup With(SpsBase, "log2FrameNum", {13}) \cup With(SpsBase, "pocType", {1, 2}) \cup With(SpsBase, "log2PicOrderCnt", {13})
  \cup With(SpsBase, "refFrames", {9, 10}) \cup With(SpsBase, "gaps", {TRUE}) \cup With(SpsBase, "mbWidth", {79, 300})
  \cup With(SpsBase, "frameMbsOnly", {FALSE}) \cup With(SpsBase, "direct8x8", {FALSE}) \cup With(SpsBase, "vui", {<<>>})
  \cup {InterlacedSps, NoHrd, [SpsBase EXCEPT !.profile = 77, !.vui[1].signal = <<>>]}
  \cup VuiWith("sar", {<<>>, <<[idc |-> 14]>>, <<[idc |-> 17]>>}) \cup VuiWith("overscan", {<<TRUE>>, <<FALSE>>})
  \cup VuiWith("signal", {<<>>, <<[SignalBase EXCEPT !.format = 6]>>, <<[SignalBase EXCEPT !.fullRange = TRUE]>>,
                          <<[SignalBase EXCEPT !.colour = <<>>]>>, <<[SignalBase EXCEPT !.colour = <<<<5, 5, 5>>>>]>>})
  \cup VuiWith("chromaLoc", {<<<<0, 2>>>>, <<<<1, 0>>>>})
  \cup VuiWith("timing", {<<>>, <<[units |-> 1000, scale |-> 50000, fixed |-> TRUE]>>,
                          <<[units |-> 1000, scale |-> 46000, fixed |-> TRUE]>>,
                          <<[units |-> 1001, scale |-> 48000, fixed |-> FALSE]>>})
  \cup VuiWith("nalHrd", {<<[HrdBase EXCEPT !.sched = @ \o @]>>, <<[HrdBase EXCEPT !.sched = <<>>]>>})
  \cup VuiWith("vclHrd", {<<HrdBase>>}) \cup VuiWith("lowDelay", {TRUE}) \cup VuiWith("picStruct", {FALSE})

SpsUnit(s) == [kind |-> "sps", size |-> 3, trailing |-> TRUE, sps |-> s]
AudUnit(primary) == [kind |-> "aud", size |-> 1, primary |-> primary, trailing |-> TRUE]
PpsUnit == [kind |-> "pps", size |-> 2, id |-> 0, spsId |-> 0, cabac |-> TRUE, bottomPoc |-> FALSE, groups |-> 1,
            mapType |-> 0, l0 |-> 3, l1 |-> 1, weighted |-> FALSE, bipred |-> 0, qp |-> 0, qs |-> 0, chromaQp |-> 0,
            deblocking |-> TRUE, constrainedIntra |-> FALSE, redundant |-> FALSE, ext |-> <<>>, trailing |-> TRUE]
PpsExt == [transform8x8 |-> TRUE, lists |-> <<>>, chromaQp |-> 0]
PpsVariants ==
  With(PpsUnit, "id", {1, 256}) \cup With(PpsUnit, "spsId", {1}) \cup With(PpsUnit, "groups", {2, 9})
  \cup With(PpsUnit, "cabac", {FALSE}) \cup With(PpsUnit, "bipred", {3}) \cup With(PpsUnit, "qp", {-27, 25})
  \cup With(PpsUnit, "chromaQp", {13}) \cup With(PpsUnit, "redundant", {TRUE}) \cup With(PpsUnit, "trailing", {FALSE})
  \cup With(PpsUnit, "ext", {<<PpsExt>>, <<[PpsExt EXCEPT !.chromaQp = 13]>>}) \cup With(PpsUnit, "l0", {1})
SeiUnit(messages) == [kind |-> "sei", size |-> 2, messages |-> messages, trailing |-> TRUE]
Buffering == [type |-> "bufferingPeriod", spsId |-> 0, nal |-> <<90, 90>>, vcl |-> <<90>>]
Timing(struct) == [type |-> "picTiming", struct |-> struct, clocks |-> <<>>]
Recovery == [type |-> "recoveryPoint", frames |-> 0, broken |-> FALSE, groups |-> 0]
UserData(size) == [type |-> "user", size |-> size]
SeiVariants ==
  {<<m>> : m \in With(Buffering, "spsId", {1}) \cup With(Buffering, "nal", {<<0>>, <<30000>>})
                 \cup {Timing(9), Recovery, UserData(17), UserData(16), UserData(2000), [type |-> "cut"], [type |-> "reserved"]}
                 \cup With(Recovery, "frames", {16}) \cup With(Recovery, "broken", {TRUE})
                 \cup {[Timing(0) EXCEPT !.clocks = <<[ctType |-> t, frames |-> f]>>] : t \in {0, 3}, f \in {0, 24}}}
  \cup {<<Buffering, UserData(16)>>, <<Buffering, [type |-> "cut"], UserData(16)>>}

\* count is the order count, whose least significant bits the slice holds.
SliceOf(type, count) ==
  [kind |-> "slice", size |-> 4, idr |-> FALSE, refIdc |-> IF type % 5 = 1 THEN 0 ELSE 1, first |-> 0, type |-> type,
   pps |-> 0, frameNum |-> 0, field |-> FALSE, bottom |-> FALSE, idrPicId |-> 0, lsb |-> count % 16, count |-> count,
   deltaBottom |-> 0, override |-> <<>>, mods |-> <<>>, weights |-> <<0, 0>>, chromaL1 |-> <<TRUE, TRUE>>,
   mmco |-> <<>>, cabacInit |-> 0, deblocking |-> 0]
TypeI == 7
TypeP == 5
TypeB == 6
Idr == [SliceOf(TypeI, 0) EXCEPT !.idr = TRUE]
SlP == SliceOf(TypeP, 2)
SlB == SliceOf(TypeB, 2)
SliceVariants ==
  With(SlP, "type", {0, 1, 2, 3, 8, 10}) \cup With(SlP, "pps", {1, 256}) \cup With(SlP, "frameNum", {1, 16})
  \cup With(SlP, "override", {<<<<31, 0>>>>, <<<<32, 0>>>>}) \cup With(SlP, "mods", {<<33, 0>>}) \cup With(SlP, "cabacInit", {3})
  \cup With(SlP, "mmco", {<<5>>, <<4, 4>>, <<7>>}) \cup With(SlP, "deblocking", {3}) \cup With(SlP, "first", {5})
  \cup With(SlB, "override", {<<<<2, 33>>>>}) \cup With(Idr, "type", {5}) \cup With(Idr, "frameNum", {1})
WeightedSlices == {[SlB EXCEPT !.chromaL1 = <<c, TRUE>>, !.weights = w] : c \in BOOLEAN, w \in {<<0, 0>>, <<8, 0>>, <<0, 8>>}}

FirstWith(s, slices) == <<AudUnit(2), SpsUnit(s), PpsUnit, SeiUnit(<<Buffering, Timing(0)>>)>> \o slices
FirstOf(s) == FirstWith(s, <<Idr>>)
NextOf(s) == FirstWith(s, <<[Idr EXCEPT !.idrPicId = 1]>>)
AuOf(slices) == <<AudUnit(2), SeiUnit(<<Timing(0)>>)>> \o slices
Aus(types, counts) == FoldLeftDomain(LAMBDA acc, k : acc \o AuOf(<<SliceOf(types[k], counts[k])>>), <<>>, types)
Group(n) == FirstOf(SpsBase) \o Aus([k \in 1..n |-> TypeP], [k \in 1..n |-> 2 * k])
H264Streams ==
  {Group(n) : n \in {0, 1, 9}} \cup {Group(1) \o NextOf(SpsBase) \o Aus(<<TypeP, TypeB>>, <<4, 2>>)}
  \cup {FirstOf(SpsBase) \o Aus(<<TypeP, TypeB, TypeB>> , c) : c \in {<<6, 2, 4>>, <<3, 1, 2>>, <<4, 2, 5>>}}
  \cup {FirstOf(SpsBase) \o Aus([k \in 1..n |-> TypeB], [k \in 1..n |-> 2 * k]) \o Aus(<<TypeP>>, <<2 * n + 2>>) : n \in {3, 4}}
  \cup {FirstOf(SpsBase) \o Aus(<<TypeP>>, <<1>>) \o NextOf(SpsBase) \o Aus(<<TypeP>>, <<1>>),
        FirstOf(SpsBase) \o NextOf(SpsBase) \o Aus(<<TypeP>>, <<1>>),
        FirstOf(SpsBase) \o <<SlP>> \o AuOf(<<SliceOf(TypeP, 4)>>)}
  \cup {FirstOf(SpsBase) \o <<AudUnit(1), SeiUnit(<<Timing(t)>>), SlP>> \o Aus(<<TypeP>>, <<4>>) : t \in {5, 7, 8}}
Top(type) == [SliceOf(type, 0) EXCEPT !.field = TRUE]
Bottom(type) == [SliceOf(type, 1) EXCEPT !.field = TRUE, !.bottom = TRUE]
FieldPair(between) == FirstWith(InterlacedSps, <<[Top(TypeI) EXCEPT !.idr = TRUE]>>) \o between \o <<Bottom(TypeP)>>
Filler == [kind |-> "filler", size |-> 2, ok |-> TRUE]
EndOfSequence == [kind |-> "end", size |-> 1]
H264Fields ==
  {FieldPair(b) : b \in {<<>>, <<AudUnit(2)>>, <<AudUnit(2), SpsUnit(InterlacedSps)>>, <<Filler, AudUnit(2)>>, <<Filler, AudUnit(1)>>,
                         <<SeiUnit(<<Timing(2)>>)>>}}
  \cup {FieldPair(<<AudUnit(2)>>) \o AuOf(<<Top(TypeB)>>) \o AuOf(<<Bottom(TypeB)>>) \o AuOf(<<Top(TypeP)>>)}
Sliced(level, firsts) ==
  FirstWith([SpsBase EXCEPT !.level = level], [k \in DOMAIN firsts |-> [Idr EXCEPT !.first = firsts[k]]])
H264Oddities ==
  {<<AudUnit(2)>> \o FirstOf(SpsBase), <<AudUnit(1)>> \o FirstOf(SpsBase),
   <<AudUnit(2), SpsUnit(SpsBase)>> \o Tail(FirstOf(SpsBase)),
   <<AudUnit(2), SpsUnit(SpsBase), [SpsUnit(SpsBase) EXCEPT !.sps.lists = <<<<<<1>>>>>>]>> \o SubSeq(FirstOf(SpsBase), 3, 5),
   FirstOf(SpsBase) \o <<AudUnit(2), SpsUnit([SpsBase EXCEPT !.refFrames = 3])>>,
   FirstOf(SpsBase) \o <<AudUnit(2), PpsUnit, [PpsUnit EXCEPT !.l0 = 2], SlP, EndOfSequence>>,
   FirstOf(SpsBase) \o <<Filler, Filler>> \o AuOf(<<SlP, EndOfSequence>>) \o <<AudUnit(2)>>,
   FirstOf(SpsBase) \o <<[Filler EXCEPT !.ok = FALSE]>>, <<Filler>>, <<AudUnit(2)>>, <<[AudUnit(0) EXCEPT !.trailing = FALSE]>>,
   FirstOf(SpsBase) \o <<[kind |-> "other", size |-> 2]>>, FirstOf(NoHrd) \o AuOf(<<SlP>>), FirstOf(NoHrd) \o NextOf(NoHrd),
   Sliced(41, <<0, 5, 9, 12>>), Sliced(41, <<0, 5, 9>>), Sliced(40, <<0, 5, 5>>),
   FirstWith(SpsBase, <<Idr, [Idr EXCEPT !.first = 4, !.type = 5]>>), Group(1) \o <<AudUnit(2), SeiUnit(<<Buffering>>), SlP>>}
Without(k) == SelectSeq([i \in 1..5 |-> IF i = k THEN Filler ELSE FirstOf(SpsBase)[i]], LAMBDA u : u.kind # "filler")
MCH264Inputs ==
  {<<>>} \cup H264Streams \cup H264Fields \cup H264Oddities \cup {FirstOf(s) : s \in SpsVariants} \cup {Without(k) : k \in 1..5}
  \cup {[FirstOf(SpsBase) EXCEPT ![3] = p] : p \in PpsVariants}
  \cup {FirstOf(SpsBase) \o <<AudUnit(2), p, SlP>> : p \in PpsVariants}
  \cup {[FirstOf(SpsBase) EXCEPT ![4].messages = m] : m \in SeiVariants}
  \cup {FirstOf(SpsBase) \o AuOf(<<s>>) : s \in SliceVariants}
  \cup {[FirstOf(SpsBase) EXCEPT ![3].bipred = 1] \o AuOf(<<s>>) : s \in WeightedSlices}
H264Base == [memory |-> {}, disableHrdVerifier |-> TRUE, disableFixes |-> FALSE, discardSei |-> FALSE, forceRebuildSei |-> FALSE,
             secondaryStream |-> FALSE, fpsChange |-> 0, arChange |-> <<>>, levelChange |-> 0]
MCH264Options ==
  {H264Base, [H264Base EXCEPT !.disableHrdVerifier = FALSE], [H264Base EXCEPT !.disableFixes = TRUE],
   [H264Base EXCEPT !.discardSei = TRUE], [H264Base EXCEPT !.forceRebuildSei = TRUE, !.memory = {"ptValid"}],
   [H264Base EXCEPT !.secondaryStream = TRUE, !.memory = {"bpValid", "bpGop"}],
   [H264Base EXCEPT !.fpsChange = 3, !.levelChange = 41], [H264Base EXCEPT !.arChange = <<[idc |-> 14]>>, !.fpsChange = 5]}
=============================================================================

------------------------------ MODULE DtsHeaders ------------------------------
(***************************************************************************)
(* codec/dts: the headers of the two substreams.  The core: the header of  *)
(* a frame, the checks of the disc format on the first frame, and what may *)
(* change after it.  The extension: its length is written in its header    *)
(* and in each descriptor, what is decoded must fit, and what is left is   *)
(* skipped.  Optional parts are sequences of at most one element, masks of *)
(* channels are counts, and components sets of names.                      *)
(***************************************************************************)
EXTENDS Integers, Sequences, FiniteSetsExt, SequencesExt

DTS_MAX_SYNTAX_VERNUM == 7
DTS_RATE_OPEN == 29

CoreAudioFreq(code) == CASE code = 13 -> 48000 [] code = 8 -> 44100 [] code = 3 -> 32000 [] OTHER -> 0
\* The rates are increasing with their code, 25 of them; 0 for any other code.
BitRates == <<32, 56, 64, 96, 112, 128, 192, 224, 256, 320, 384, 448, 512, 576, 640, 768, 960, 1024,
              1152, 1280, 1344, 1408, 1411, 1472, 1536>>
DtsBitRateCodeValue(code) == IF code = DTS_RATE_OPEN THEN 1
                             ELSE IF code + 1 \in DOMAIN BitRates THEN BitRates[code + 1] ELSE 0
\* The source resolution; code 4 and the last one give no depth.
BitDepthOfPcmRes(code) == <<16, 16, 20, 20, 0, 24, 24, 0>>[code + 1]

-----------------------------------------------------------------------------
\* decodeDcaCoreSSFrameHeader()
CoreHeaderSize(h) == IF h.crcPresent THEN 15 ELSE 13
CorePayloadSize(h) == h.frameLength - CoreHeaderSize(h)
DecodedCoreHeader(h) == /\ ~h.fixedBit
                        /\ h.syntaxCode <= DTS_MAX_SYNTAX_VERNUM
                        /\ CorePayloadSize(h) >= 0

\* checkDcaCoreSSFrameHeaderCompliance()
LegalBlocks(h) ==
  /\ ~h.termination => h.samplesPerBlock = 32 /\ h.blocks \in {8, 16, 32, 64, 128}
  /\ h.blocks >= 6
LegalRates(h) == /\ CoreAudioFreq(h.freqCode) = 48000
                 /\ DtsBitRateCodeValue(h.bitRateCode) \notin {0, 1}
\* The size is compared with what the rate allows for the depth: both sides count it.
LegalSize(h) == /\ h.frameLength >= 96
                /\ h.blocks * DtsBitRateCodeValue(h.bitRateCode) >= BitDepthOfPcmRes(h.pcmRes) * 8
LegalExtension(h) == h.extAudio => h.extAudioId \in {0, 2, 6}
CheckCoreHeader(h) ==
  LegalBlocks(h) /\ LegalRates(h) /\ LegalSize(h) /\ LegalExtension(h) /\ h.lfe # 3

\* constantDcaCoreSS(): nothing to check again.
ConstantCore(first, h) ==
  /\ CorePayloadSize(first) = CorePayloadSize(h)
  /\ \A f \in {"termination", "samplesPerBlock", "blocks", "crcPresent", "arrangement", "freqCode", "pcmRes",
               "bitRateCode", "auxData", "hdcd", "extAudio", "lfe", "extAudioId", "syntaxCode"} :
       first[f] = h[f]

\* checkDcaCoreSSFrameHeaderChangeCompliance()
StableFieldsButLfe == {"arrangement", "freqCode", "pcmRes", "bitRateCode", "extAudio", "extAudioId", "syntaxCode"}
StableFields == {"arrangement", "freqCode", "pcmRes", "bitRateCode", "lfe", "extAudio", "extAudioId", "syntaxCode"}
CheckCoreChange(old, h) == CheckCoreHeader(h) /\ \A f \in StableFields : old[f] = h[f]

\* The duration of a frame in ticks of 27 MHz.
CoreFrameDuration(h) == (h.blocks * h.samplesPerBlock * 1125) \div 2
-----------------------------------------------------------------------------
Flagged(present, bits) == 1 + IF present THEN bits ELSE 0
BitsOf(s, Bits(_)) == FoldLeft(LAMBDA n, x : n + Bits(x), 0, s)

FrameSizeBits(h) == IF h.long THEN 20 ELSE 16
HeaderSizeBits(h) == IF h.long THEN 12 ELSE 8

-----------------------------------------------------------------------------
(* The bits of each part.                                                   *)

\* decodeDcaExtSSHeaderMixMetadata(): m.outputs are the channels of each output.
MixBits(m) == 6 + m.maskBits * Len(m.outputs)

\* decodeDcaExtSSHeaderStaticFields(); presentations are the active assets, by index.
StaticBits(h, s) ==
  5 + Flagged(s.timeStamp, 36) + 6
  + s.presentations * (h.idx + 1) + 8 * Cardinality(s.activeMask) * s.presentations
  + Flagged(s.mix # <<>>, IF s.mix # <<>> THEN MixBits(s.mix[1]) ELSE 0)

\* Remapping sets: the channels needed and, for each channel, its coefficients.
RemapBits(s, r) == 5 + FoldLeft(LAMBDA n, coeffs : n + r.required + 5 * coeffs, 0, r.coeffs)
DirectFeedBits(s) ==
  (IF s.nbChannels > 2 THEN 1 ELSE 0) + (IF s.nbChannels > 6 THEN 1 ELSE 0)
  + Flagged(s.maskBits > 0, 2 + s.maskBits)
  + 3 + Len(s.remaps) * s.maskBits + BitsOf(s.remaps, LAMBDA r : RemapBits(s, r))

\* decodeDcaExtSSAssetDescriptorStaticFields()
AssetStaticBits(s) ==
  Flagged(s.type # "", 4) + Flagged(s.language, 24) + Flagged(s.textLength > 0, 10 + 8 * s.textLength)
  + 17 + Flagged(s.directFeed, DirectFeedBits(s)) + IF s.directFeed THEN 0 ELSE 3
DTS_EXT_SS_MAX_CHANNELS_NB == 25
DecodedAssetStatic(s) == /\ s.nbChannels <= DTS_EXT_SS_MAX_CHANNELS_NB
                         /\ s.directFeed /\ s.maskBits = 0 => s.remaps = <<>>

\* decodeDcaExtSSAssetDescriptorDynamicMetadata(); what follows the flag of the
\* mixing metadata depends on the outputs of the header.
DownMixes(s) == <<s.nbChannels>> \o (IF s.downmix6 THEN <<6>> ELSE <<>>) \o (IF s.downmix2 THEN <<2>> ELSE <<>>)
ScalingBits(m, each) == BitsOf(m.outputs, LAMBDA channels : 6 * IF each THEN channels ELSE 1)
AssetMixBits(m, s, x) ==
  9 + (IF x.drcControl = 3 THEN 8 ELSE 3) + 1 + ScalingBits(m, x.perChannel)
  + BitsOf(m.outputs, LAMBDA channels : BitsOf(DownMixes(s), LAMBDA n : n * (channels + 6 * x.coeffs)))
DynamicBits(h, a, stereo) ==
  Flagged(a.drc, 8) + Flagged(a.dialNorm, 5) + (IF a.drc /\ stereo THEN 8 ELSE 0)
  + (IF h.static # <<>> /\ h.static[1].mix # <<>>
       THEN Flagged(a.mix # <<>>, IF a.mix # <<>> THEN AssetMixBits(h.static[1].mix[1], a.static, a.mix[1]) ELSE 0)
       ELSE 0)

\* decodeDcaExtSSAssetDescriptorDecNavData(), by component.
SyncedBits(c) == Flagged(c.sync, 2)
XllBits(h, x) == FrameSizeBits(h) + Flagged(x.sync, 9 + x.delayBits + FrameSizeBits(h))
ComponentBits(h, nav, c) ==
  CASE c \in {"extCore", "lbr"} -> 14 + SyncedBits(nav)
    [] c \in {"xbr", "xxch"} -> 14
    [] c = "x96" -> 12
    [] c = "xll" -> XllBits(h, nav.xll)
    [] c \in {"reserved1", "reserved2"} -> 16
    [] OTHER -> 0
Components(nav) == CASE nav.mode = "components" -> nav.components
                     [] nav.mode = "lossless" -> {"xll"}
                     [] nav.mode = "lowBitrate" -> {"lbr"}
                     [] nav.mode = "auxiliary" -> {}
CodingBits(h, nav) ==
  2 + (CASE nav.mode = "components" -> 12 [] nav.mode = "auxiliary" -> 22 + SyncedBits(nav) [] OTHER -> 0)
    + MapThenSumSet(LAMBDA c : ComponentBits(h, nav, c), Components(nav))
    + IF "xll" \in Components(nav) THEN 3 ELSE 0
TrackBits(h, a) ==
  IF ~(h.static # <<>> /\ a.static.directFeed /\ h.static[1].mix # <<>> /\ a.mix = <<>>) THEN 0
  ELSE Flagged(a.nav.oneTrack, 1 + ScalingBits(h.static[1].mix[1], a.nav.perChannel))
NavBits(h, a) == CodingBits(h, a.nav) + TrackBits(h, a) + 1

\* Whatever is left of a descriptor starts with the flag of a second metadata,
\* whose coefficients are counted by the static fields of the header.
Rev2Bits(h, a) ==
  Flagged(a.rev2 # "", 4 + IF a.rev2 = "v1" THEN 16 * (h.static[1].durationCode + 1) ELSE 0)

-----------------------------------------------------------------------------
(* decodeDcaExtSSAssetDescriptor().  Without the static fields the flag of   *)
(* the stereo downmix is whatever the stack holds, and the coefficients are  *)
(* counted through a null pointer.                                           *)

StereoOf(h, a) == IF h.static # <<>> THEN {a.static.directFeed /\ a.static.downmix2} ELSE BOOLEAN
BaseBits(h, a, stereo) ==
  12 + (IF h.static # <<>> THEN AssetStaticBits(a.static) ELSE 0) + DynamicBits(h, a, stereo) + NavBits(h, a)
MoreThanBase(h, a, stereo) == 8 * a.descriptorLength > BaseBits(h, a, stereo)
DescriptorCrashes(h, a, stereo) == MoreThanBase(h, a, stereo) /\ a.rev2 = "v1" /\ h.static = <<>>
DecodedDescriptor(h, a, stereo) ==
  /\ h.static # <<>> => DecodedAssetStatic(a.static)
  /\ ~DescriptorCrashes(h, a, stereo)
  /\ BaseBits(h, a, stereo) + (IF MoreThanBase(h, a, stereo) THEN Rev2Bits(h, a) ELSE 0) <= 8 * a.descriptorLength

\* decodeDcaExtSSHeader(): the header, its descriptors and its 16 bits of CRC.
FixedBits(h) == 32 + 8 + 2 + 1 + HeaderSizeBits(h) + FrameSizeBits(h)
ExtHeaderBits(h) ==
  FixedBits(h) + Flagged(h.static # <<>>, IF h.static # <<>> THEN StaticBits(h, h.static[1]) ELSE 0)
  + BitsOf(h.assets, LAMBDA a : FrameSizeBits(h) + 8 * a.descriptorLength + Flagged(a.core # <<>>, 5)) + 16

\* The outcomes of the decoding.
ExtHeaderOutcomes(h) ==
  LET Outcome(choice) ==
        LET bad == {k \in DOMAIN h.assets : ~DecodedDescriptor(h, h.assets[k], choice[k])}
        IN  IF bad = {} THEN IF ExtHeaderBits(h) <= 8 * h.headerLength /\ h.crcOk THEN "decoded" ELSE "error"
            ELSE IF DescriptorCrashes(h, h.assets[Min(bad)], choice[Min(bad)]) THEN "crash" ELSE "error"
  IN  {Outcome(choice) : choice \in {c \in [DOMAIN h.assets -> BOOLEAN] :
                                       \A k \in DOMAIN h.assets : c[k] \in StereoOf(h, h.assets[k])}}

-----------------------------------------------------------------------------
(* checkDcaExtSSHeaderCompliance(): the disc format.  A primary stream has  *)
(* index 0 and frames of 512 samples, a secondary one 2 and 4096.           *)

LegalStatic(s, secondary) ==
  /\ s.refClock = 48000
  /\ (s.durationCode + 1) * 512 = IF secondary THEN 4096 ELSE 512
  /\ s.presentations = 1 /\ s.assets = 1
  /\ s.activeMask = IF secondary THEN {0, 2} ELSE {0}
  /\ s.mix # <<>> => s.mix[1].adjustment <= 2

LegalAssetFormat(s, secondary) ==
  /\ s.type # "reserved"
  /\ s.bitDepth \in {16, 24}
  /\ s.sampleRate \in IF secondary THEN {48000} ELSE {48000, 96000, 192000}
  /\ s.nbChannels <= IF secondary \/ s.sampleRate = 192000 THEN 6 ELSE 8

\* s.speakers are the channels of the mask.
LegalDirectFeed(s) ==
  /\ s.nbChannels > 6 => s.downmix6
  /\ s.maskBits > 0 /\ s.speakers = s.nbChannels
  /\ \A k \in DOMAIN s.remaps : Len(s.remaps[k].coeffs) >= s.remaps[k].required

\* A primary stream of two channels should be allowed other representations: its
\* test asks for two of them at once.
LegalRepresentation(s, secondary) ==
  IF secondary THEN s.representation = "mixReplacement"
  ELSE /\ s.nbChannels = 2
       /\ s.representation = "LtRt" /\ s.representation = "headphone"
LegalAssetStatic(s, secondary) ==
  /\ LegalAssetFormat(s, secondary)
  /\ IF s.directFeed THEN LegalDirectFeed(s) ELSE LegalRepresentation(s, secondary)

LegalCoding(nav, secondary) == nav.mode = IF secondary THEN "lowBitrate" ELSE "components"

\* The compatible core: none in a secondary stream, the one of index 0 in a primary.
LegalCore(core, secondary) == core = IF secondary THEN <<>> ELSE <<[extSS |-> 0, asset |-> 0]>>

CheckExtHeader(h, secondary) ==
  /\ h.idx = IF secondary THEN 2 ELSE 0
  /\ h.static # <<>>
  /\ LegalStatic(h.static[1], secondary)
  /\ \A k \in DOMAIN h.assets : LegalAssetStatic(h.assets[k].static, secondary) /\ LegalCoding(h.assets[k].nav, secondary)
  /\ LegalCore(h.assets[1].core, secondary)

AssetsLength(h) == FoldLeft(LAMBDA n, a : n + a.length, 0, h.assets)
\* The duration of a frame in ticks of 27 MHz, once the clock is checked.
ExtFrameDuration(h) == (h.static[1].durationCode + 1) * 288000
=============================================================================

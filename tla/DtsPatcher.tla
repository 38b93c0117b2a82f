------------------------------ MODULE DtsPatcher ------------------------------
(***************************************************************************)
(* codec/dts/dts_patcher.c: the header of an extension frame is written    *)
(* again with its new sizes.  The size of each descriptor is computed, then *)
(* its bits are written, and an assertion compares the two.                *)
(***************************************************************************)
EXTENDS Integers, Sequences, SequencesExt, DtsHeaders, DtsXll

\* The least number of bits, computed with a logarithm rounded down: a value
\* that is a power of two loses its highest bit.  s.maskTop is the highest bit
\* of the mask of the channels.
Log2(n) == CHOOSE k \in 0..n : 2^k <= n /\ n < 2^(k + 1)
MaskBitsFor(top) == 4 * IF top <= 4 THEN 1 ELSE (top + 3) \div 4
DelayBitsFor(delay) == IF delay < 4 THEN 1 ELSE Log2(delay)
WrittenDelay(delay) == delay % (2^DelayBitsFor(delay))

\* What is left of a descriptor or of the header is kept when it is small.
DCA_EXT_SS_MAX_SUPP_RES_FIELD_SIZE == 16
Kept(bits) == IF bits <= 8 * DCA_EXT_SS_MAX_SUPP_RES_FIELD_SIZE THEN bits ELSE 0
Stereo(a) == a.static.directFeed /\ a.static.downmix2
ExtraBits(h, a) == IF MoreThanBase(h, a, Stereo(a)) THEN Rev2Bits(h, a) ELSE 0
ReservedBits(h, a) == Kept(8 * a.descriptorLength - BaseBits(h, a, Stereo(a)) - ExtraBits(h, a))
HeaderReservedBits(h) == Kept(8 * h.headerLength - ExtHeaderBits(h))

\* updateDcaExtSSHeaderXllParam() and the fields whose size is chosen again.
Patched(h, size, sync) ==
  [h EXCEPT !.long = TRUE, !.assets[1].length = size, !.assets[1].static.maskBits =
              IF @ > 0 THEN MaskBitsFor(h.assets[1].static.maskTop) ELSE 0,
            !.assets[1].nav.xll.sync = sync # <<>>,
            !.assets[1].nav.xll.delayBits = IF sync # <<>> THEN DelayBitsFor(sync[1].delay) ELSE 0]

-----------------------------------------------------------------------------
(* h is the header that was read, p the one that is written.                *)

\* computeDcaExtSSAssetDescriptorStaticFieldsSize(): the language has three characters.
ComputedStaticBits(s) == AssetStaticBits(s) - IF s.language THEN 21 ELSE 0

\* computeDcaExtSSAudioAssetDescriptorSize(): bytes that are kept are counted as bits.
ComputedDescriptorSize(h, p, k) ==
  LET a == p.assets[k]
      kept == ReservedBits(h, h.assets[k])
  IN  BytesOf(12 + ComputedStaticBits(a.static) + DynamicBits(p, a, Stereo(a)) + NavBits(p, a)
              + ExtraBits(h, h.assets[k]) + (kept \div 8) + (kept % 8))

\* buildDcaExtSSAudioAssetDescriptor(): the descriptor ends on a byte.
WrittenDescriptorSize(h, p, k) ==
  LET a == p.assets[k]
  IN  BytesOf(BaseBits(p, a, Stereo(a)) + ExtraBits(h, h.assets[k]) + ReservedBits(h, h.assets[k]))

\* What is not supported when a descriptor is written.
Writable(h) == /\ h.static[1].mix = <<>>
               /\ \A k \in DOMAIN h.assets : /\ h.assets[k].nav.mode = "components"
                                             /\ h.assets[k].rev2 # "v1" \/ ~MoreThanBase(h, h.assets[k], Stereo(h.assets[k]))
SizedAsWritten(h, p) ==
  \A k \in DOMAIN h.assets : ComputedDescriptorSize(h, p, k) = WrittenDescriptorSize(h, p, k)

\* computeDcaExtSSHeaderSize(), with the 16 bits of the CRC, which follow a byte.
RebuiltHeaderSize(h, p) ==
  LET sized == [p EXCEPT !.assets = [k \in DOMAIN @ |-> [@[k] EXCEPT !.descriptorLength = ComputedDescriptorSize(h, p, k)]]]
  IN  BytesOf(ExtHeaderBits(sized) + HeaderReservedBits(h))
=============================================================================

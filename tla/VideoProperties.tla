--------------------------- MODULE VideoProperties ---------------------------
(***************************************************************************)
(* elementaryStreamProperties: the video formats and frame rates that      *)
(* discs allow.  A frame rate is a pair <<numerator, denominator>>: the     *)
(* code has single precision numbers, whose quotients are whole for all    *)
(* the rates with a code; what is computed from them is rounded (Single).  *)
(***************************************************************************)
EXTENDS Integers, Sequences

SameRate(a, b) == a[1] * b[2] = b[1] * a[2]

\* getHdmvFrameRateCode(): the rate of code 7 is 50000/1001 here, and 0 stands
\* for any rate that is not listed.
HdmvFrameRates == <<<<24000, 1001>>, <<24, 1>>, <<25, 1>>, <<30000, 1001>>,
                    <<>>, <<50, 1>>, <<50000, 1001>>>>
GetHdmvFrameRateCode(rate) ==
  LET codes == {c \in {1, 2, 3, 4, 6, 7} : SameRate(rate, HdmvFrameRates[c])}
  IN  IF codes = {} THEN 0 ELSE CHOOSE c \in codes : TRUE

\* The duration of a frame in ticks of 27 MHz; a rate without a code is negative.
FrameDurationOf(code) ==
  IF code \in {0, 5} THEN -27000000
  ELSE ((27000000 \div HdmvFrameRates[code][1]) * HdmvFrameRates[code][2])
       + ((27000000 % HdmvFrameRates[code][1]) * HdmvFrameRates[code][2]) \div HdmvFrameRates[code][1]

\* A whole number as a float: 24 significant bits, ties to the even one.
\* Spacing() is the distance of the floats around it.  Times are below 2^31.
Spacing(n) == LET e == CHOOSE e \in 0..7 : n < 2^24 * 2^e /\ (e > 0 => n >= 2^23 * 2^e) IN 2^e
Single(n) ==
  LET u == Spacing(n)
      q == n \div u
      Up == 2 * (n % u) > u \/ (2 * (n % u) = u /\ q % 2 = 1)
  IN  u * IF Up THEN q + 1 ELSE q

\* getHdmvVideoFormat(), by name; the table only has an interlaced 576 format.
GetHdmvVideoFormat(width, height, interlaced) ==
  CASE <<width, height>> = <<720, 480>> -> IF interlaced THEN "480i" ELSE "480p"
    [] <<width, height>> = <<720, 576>> -> IF interlaced THEN "576i" ELSE "reserved"
    [] <<width, height>> \in {<<1440, 1080>>, <<1920, 1080>>} ->
         IF interlaced THEN "1080i" ELSE "1080p"
    [] <<width, height>> = <<1280, 720>> -> IF interlaced THEN "reserved" ELSE "720p"
    [] OTHER -> "reserved"
-----------------------------------------------------------------------------
(* Configurations: for each size the frame rate codes and, at the same      *)
(* place, the display modes.  The rows have four places, and those that    *)
(* are not written hold zeros, which is the code of an unknown rate.       *)

Progressive == {FALSE}
Interlaced == {TRUE}
Row(rates, modes) ==
  [rates |-> [i \in 1..4 |-> IF i <= Len(rates) THEN rates[i] ELSE 0],
   modes |-> [i \in 1..4 |-> IF i <= Len(modes) THEN modes[i] ELSE {}]]

FullHd == Row(<<1, 2, 3, 4>>, <<Progressive, Progressive, Interlaced, Interlaced>>)
Hd == Row(<<1, 2, 6, 7>>, <<Progressive>>)
PrimaryRow(size) ==
  CASE size \in {<<1920, 1080>>, <<1440, 1080>>} -> <<FullHd>>
    [] size = <<1280, 720>> -> <<Hd>>
    [] size = <<720, 576>> -> <<Row(<<3>>, <<Interlaced>>)>>
    [] size = <<720, 480>> -> <<Row(<<4>>, <<Interlaced>>)>>
    [] OTHER -> <<>>
SecondaryRow(size) ==
  CASE size = <<720, 576>> -> <<Row(<<3>>, <<BOOLEAN>>)>>
    [] size = <<720, 480>> -> <<Row(<<1, 2, 4>>, <<Progressive, Progressive, BOOLEAN>>)>>
    [] OTHER -> PrimaryRow(size)

\* checkVideoConfiguration(): the first place of the rate decides.
AllowedIn(row, code, interlaced) ==
  /\ row # <<>>
  /\ \E i \in 1..4 : /\ row[1].rates[i] = code
                     /\ \A j \in 1..(i - 1) : row[1].rates[j] # code
                     /\ interlaced \in row[1].modes[i]
CheckVideoConfiguration(secondary, width, height, code, interlaced) ==
  AllowedIn(IF secondary THEN SecondaryRow(<<width, height>>) ELSE PrimaryRow(<<width, height>>),
            code, interlaced)

BDAV_VIDEO_MAX_BITRATE == 40000000
BDAV_VIDEO_MAX_BITRATE_SEC_V == 7600000
BDAV_VIDEO_MAX_BUFFER_SIZE == 240000000
=============================================================================

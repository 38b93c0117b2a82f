----------------------------- MODULE EsParsers -----------------------------
(***************************************************************************)
(* codecsUtilities.c: generateScriptES() gives the file of an elementary   *)
(* stream to the parser of its coding type, which writes the script.  The  *)
(* parsers have the same variables: only one of them runs.                 *)
(***************************************************************************)
EXTENDS Integers, Sequences

CONSTANTS Ac3Inputs, Ac3Options, Ac3MaxPackets, LpcmInputs, LpcmOptions, HdmvInputs, HdmvOptions,
          H262Inputs, H262Options, DtsInputs, DtsOptions, H264Inputs, H264Options

VARIABLES codec, input, options, pos, ctx, script, header, pc

vars == <<codec, input, options, pos, ctx, script, header, pc>>

Ac3 == INSTANCE Ac3Parser WITH Inputs <- Ac3Inputs, Options <- Ac3Options, MaxPackets <- Ac3MaxPackets
Lpcm == INSTANCE LpcmParser WITH Inputs <- LpcmInputs, Options <- LpcmOptions
Hdmv == INSTANCE HdmvParser WITH Inputs <- HdmvInputs, Options <- HdmvOptions
H262 == INSTANCE H262Parser WITH Inputs <- H262Inputs, Options <- H262Options
Dts == INSTANCE DtsParser WITH Inputs <- DtsInputs, Options <- DtsOptions
H264 == INSTANCE H264Parser WITH Inputs <- H264Inputs, Options <- H264Options

Init == \/ codec = "ac3" /\ Ac3!Init
        \/ codec = "lpcm" /\ Lpcm!Init
        \/ codec = "hdmv" /\ Hdmv!Init
        \/ codec = "h262" /\ H262!Init
        \/ codec = "dts" /\ Dts!Init
        \/ codec = "h264" /\ H264!Init

AnalyzeAc3 == codec = "ac3" /\ Ac3!Next /\ UNCHANGED codec
AnalyzeLpcm == codec = "lpcm" /\ Lpcm!Next /\ UNCHANGED codec
AnalyzeHdmv == codec = "hdmv" /\ Hdmv!Next /\ UNCHANGED codec
AnalyzeH262 == codec = "h262" /\ H262!Next /\ UNCHANGED codec
AnalyzeDts == codec = "dts" /\ Dts!Next /\ UNCHANGED codec
AnalyzeH264 == codec = "h264" /\ H264!Next /\ UNCHANGED codec

\* A parser that is not at its end always has a step to take.
Ended == pc \in {"done", "failed", "crashed"} /\ UNCHANGED vars

Next == AnalyzeAc3 \/ AnalyzeLpcm \/ AnalyzeHdmv \/ AnalyzeH262 \/ AnalyzeDts \/ AnalyzeH264
        \/ Ended

Spec == Init /\ [][Next]_vars
-----------------------------------------------------------------------------
SourceOnce == CASE codec = "ac3" -> Ac3!SourceOnce
                [] codec = "lpcm" -> Lpcm!SourceOnce
                [] codec = "hdmv" -> Hdmv!SourceOnce
                [] codec = "h262" -> H262!SourceOnce
                [] codec = "dts" -> Dts!SourceOnce
                [] codec = "h264" -> H264!SourceOnce
Timed == CASE codec = "ac3" -> Ac3!Timed
           [] codec = "lpcm" -> Lpcm!Timed
           [] codec = "hdmv" -> Hdmv!Timed
           [] codec = "h262" -> H262!Timed
           [] codec = "dts" -> Dts!Timed
           [] codec = "h264" -> H264!Timed
HeaderFaithful == CASE codec = "ac3" -> Ac3!HeaderFaithful
                    [] codec = "lpcm" -> Lpcm!HeaderFaithful
                    [] codec = "hdmv" -> Hdmv!HeaderFaithful
                    [] codec = "h262" -> H262!HeaderFaithful
                    [] codec = "dts" -> Dts!HeaderFaithful
                    [] codec = "h264" -> H264!HeaderFaithful
BuiltAsMeant == CASE codec = "lpcm" -> Lpcm!BuiltAsMeant
                  [] codec = "hdmv" -> Hdmv!BuiltAsMeant
                  [] codec = "dts" -> Dts!BuiltAsMeant
                  [] codec = "h264" -> H264!BuiltAsMeant
                  [] OTHER -> TRUE
=============================================================================

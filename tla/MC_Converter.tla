----------------------------- MODULE MC_Converter -----------------------------
(***************************************************************************)
(* Instances of Converter: the rates of ordinary audio files with the      *)
(* program's own buffer size, and a pair of rates that has no preset.      *)
(***************************************************************************)
EXTENDS Converter

UnusualPairs == {<<66150, 32000>>}

CommonRates == {8000, 11025, 16000, 22050, 32000, 37800, 44100, 48000, 66150,
                88200, 96000, 176400, 192000}
CommonPairs == (CommonRates \X CommonRates) \ UnusualPairs

NormalFilter  == {<<20, 2>>}
BuiltInFilters == {<<20, 2>>, <<21, 2>>, <<21, 1>>}
===============================================================================

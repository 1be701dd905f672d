---------------------------- MODULE MC_MpxDecoder ----------------------------
(***************************************************************************)
(* Instances of MpxDecoder.  A sound and silence tell apart any two places *)
(* in the histories.  A pilot may be silent, so weak that the maximum gain *)
(* is just or just not enough, stable at once, or too loud; the rates have *)
(* about the proportion of the program's.                                  *)
(***************************************************************************)
EXTENDS MpxDecoder, TLC

Silent == -40
PilotLevels == {Silent, -17, -14, -6, 5}
NoPilotPeak == -1000
StableLow == -2
===============================================================================

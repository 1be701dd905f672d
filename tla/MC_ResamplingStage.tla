------------------------ MODULE MC_ResamplingStage ------------------------
(***************************************************************************)
(* Instances of ResamplingStage: all five convert functions, with L and M  *)
(* in lowest terms, as the planning leaves them, and a filter longer than  *)
(* both.                                                                   *)
(***************************************************************************)
EXTENDS ResamplingStage

MaxInterpolation == 3
MaxDecimation == 5

LowestTerms(up, down) == ~\E d \in 2 .. up : up % d = 0 /\ down % d = 0

AllFactors ==
  {factors \in (1 .. MaxInterpolation) \X (1 .. MaxDecimation) :
     LowestTerms(factors[1], factors[2])}
===============================================================================

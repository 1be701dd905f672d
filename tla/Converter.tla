------------------------------ MODULE Converter ------------------------------
(***************************************************************************)
(* Converter of srconvert.h: one ResamplingStage, or a cascade of them in  *)
(* which the output of each stage is the input block of the next.  The     *)
(* samples are left out: what a block does to a stage is to move its       *)
(* decimation index m and to make a number of outputs (ResamplingStage     *)
(* says why these depend on nothing else).  The options are those the      *)
(* command line allows; the low-pass filter's are in 22nds of the band.    *)
(***************************************************************************)
EXTENDS Fraction

CONSTANTS
  RatePairs,   \* <<input rate, output rate>>
  StageLimits, \* the values of --maxStages
  Filters,     \* <<lpfCutoff, lpfTransitionWidth>> in 22nds
  BUFFERSIZE,  \* samples of a channel in a full block
  BlockSizes,  \* the sizes of the blocks that are converted
  MaxBlocks    \* bound: blocks between two resets

ASSUME ConverterAssumption ==
  /\ \A p \in RatePairs : p \in (Nat \ {0}) \X (Nat \ {0})
  /\ StageLimits \subseteq 1 .. 10
  /\ \A p \in Filters : p[1] \in 1 .. 22 /\ p[2] \in Nat \ {0}
  /\ BUFFERSIZE \in Nat \ {0}
  /\ BlockSizes \subseteq 0 .. BUFFERSIZE
  /\ MaxBlocks \in Nat

VARIABLES
  ci,       \* the options: rates, bSingleStage, bMinPhase, maxStages, filter
  fractions, \* the ratios of the stages, one for a single stage
  m,        \* the decimation index of each stage
  outputs,  \* the number of samples each stage made of the last block
  made,     \* the number it has made since the last reset, after the input's
  blocks    \* blocks since the last reset

plan == <<ci, fractions>>
vars == <<plan, m, outputs, made, blocks>>

CeilDiv(a, b) == (a + b - 1) \div b

ratio == getFractionFromSamplerates(ci.inputRate, ci.outputRate)

\* The constructor: without a change of rate there is nothing for stages to do.
isBypassMode == ci.inputRate = ci.outputRate
isMultistage == ~(ci.bSingleStage \/ isBypassMode)

numStages == Len(fractions)

\* A stage of a cascade is oversampled by 2 for a minimum phase filter, a single stage
\* by 8, when one side of the ratio is small.
overSamplingFactor ==
  IF ~ci.bMinPhase THEN 1
  ELSE IF isMultistage THEN 2
  ELSE IF /\ ratio.numerator # ratio.denominator
          /\ ratio.numerator <= 4 \/ ratio.denominator <= 4 THEN 8 ELSE 1

L(k) == fractions[k].numerator * overSamplingFactor
M(k) == fractions[k].denominator * overSamplingFactor

Cumulative(k) ==
  Frac(Product(Numerators(First(fractions, k))),
       Product(Denominators(First(fractions, k))))

\* Mutant: the size is rounded down.
bufferSizeFloor(k) ==
  (BUFFERSIZE * Cumulative(k).numerator) \div Cumulative(k).denominator
    + IF k = numStages THEN 1 ELSE 0

\* The room for the output of a stage: intermediateOutputBuffers[k] for all but the
\* last one, outputChannelBufferSize of convert() for that.
bufferSize(k) ==
  CeilDiv(BUFFERSIZE * Cumulative(k).numerator, Cumulative(k).denominator)
    + IF k = numStages THEN 1 ELSE 0

\* inputRate * numerator / denominator, in the integers of initMultistage.
outputRate(rate, f) == (rate * f.numerator) \div f.denominator

\* The rate a stage delivers.
stageRate[k \in 0 .. numStages] ==
  IF k = 0 THEN ci.inputRate ELSE outputRate(stageRate[k - 1], fractions[k])

Lower(a, b) == IF a < b THEN a ELSE b
Higher(a, b) == IF a < b THEN b ELSE a

minSampleRate(k) == Lower(stageRate[k - 1], stageRate[k])

\* Where the transition ends, and where it begins, in 44ths of a Hz.
stretch == ci.filter[1] + ci.filter[2]
ft == ci.filter[1] * Lower(ci.inputRate, ci.outputRate)

\* Mutant: std::min for std::max.
nextStopFreqLower(rate, lastStopFreq) ==
  Lower(stretch * 2 * (rate \div 2), 44 * rate - lastStopFreq)

\* The edge of the band, or the image of the last stage's stop frequency.
nextStopFreq(rate, lastStopFreq) ==
  Higher(stretch * 2 * (rate \div 2), 44 * rate - lastStopFreq)

stopFreq[k \in 0 .. numStages] ==
  IF k = 0 THEN stretch * ci.inputRate
  ELSE nextStopFreq(minSampleRate(k), stopFreq[k - 1])
-------------------------------------------------------------------------------
Init ==
  /\ \E p \in RatePairs, single, minPhase \in BOOLEAN, n \in StageLimits, lpf \in Filters :
       ci = [inputRate |-> p[1], outputRate |-> p[2], bSingleStage |-> single,
             bMinPhase |-> minPhase, maxStages |-> n, filter |-> lpf]
  /\ fractions = IF isMultistage THEN getConversionStages(ratio, ci.maxStages) ELSE <<ratio>>
  /\ m = [k \in 1 .. numStages |-> 0]
  /\ outputs = [k \in 1 .. numStages |-> 0]
  /\ made = [k \in 0 .. numStages |-> 0]
  /\ blocks = 0

\* Mutant: the first output comes with the first whole group of M.
OutputsRoundedDown(k, n) == (n * L(k) + m[k]) \div M(k)

\* The outputs of a block of n samples: one wherever the index comes round to zero.
Outputs(k, n) == CeilDiv(n * L(k) - IF m[k] = 0 THEN 0 ELSE M(k) - m[k], M(k))

Convert(n) ==
  LET size[k \in 0 .. numStages] == IF k = 0 THEN n ELSE Outputs(k, size[k - 1])
  IN /\ blocks < MaxBlocks
     /\ blocks' = blocks + 1
     /\ outputs' = [k \in 1 .. numStages |-> size[k]]
     /\ made' = [k \in 0 .. numStages |-> made[k] + size[k]]
     /\ m' = [k \in 1 .. numStages |-> (m[k] + size[k - 1] * L(k)) % M(k)]
     /\ UNCHANGED plan

\* Mutant: the last stage is left as it is.
resetButLast ==
  /\ m' = [k \in 1 .. numStages |-> IF k = numStages THEN m[k] ELSE 0]
  /\ made' = [k \in 0 .. numStages |-> 0]
  /\ blocks' = 0
  /\ UNCHANGED <<plan, outputs>>

reset ==
  /\ m' = [k \in 1 .. numStages |-> 0]
  /\ made' = [k \in 0 .. numStages |-> 0]
  /\ blocks' = 0
  /\ UNCHANGED <<plan, outputs>>

Next == (\E n \in BlockSizes : Convert(n)) \/ reset

Spec == Init /\ [][Next]_vars
-------------------------------------------------------------------------------
(***************************************************************************)
(* Properties.                                                             *)
(***************************************************************************)
\* "large values of maxStages may not produce a solution": the search ends with one all
\* the same, so its last line (*solutions.rbegin()) never reads the last element of an
\* empty vector, and the stages that are derived (the presets aside) are no more than
\* asked for.
SearchSucceeds ==
  /\ fractions # <<>>
  /\ isMultistage /\ Preset(ratio) = {} => numStages <= ci.maxStages

\* No stage but the last brings the rate below both the input's and the output's: the
\* band that is to be kept survives to the last stage, preset or derived.
BandSurvives ==
  \A k \in 1 .. numStages - 1 :
    LET n == Product(Numerators(First(fractions, k)))
        d == Product(Denominators(First(fractions, k)))
    IN n >= d \/ n * ratio.denominator >= d * ratio.numerator

\* The buffers hold what the stages make, whatever the sizes of the blocks before.
OutputsFit == \A k \in 1 .. numStages : outputs[k] <= bufferSize(k)

\* The number of samples after each stage depends only on the number before it since
\* the last reset, not on the blocks: the whole stream is converted as if in one go.
CascadeIsTransparent ==
  \A k \in 1 .. numStages :
    made[k] = CeilDiv(made[k - 1] * fractions[k].numerator, fractions[k].denominator)

\* The output is at least as long as the input, and longer by less than a sample for
\* each stage (or as many samples as the whole conversion makes of one).
DurationKept ==
  LET extra == made[numStages] * ratio.denominator - made[0] * ratio.numerator
  IN /\ extra >= 0
     /\ extra <= numStages * Higher(ratio.numerator, ratio.denominator)

\* "should always be the case for a LPF": the two assertions of initMultistage.
AssertionsHold ==
  isMultistage => \A k \in 1 .. numStages : stopFreq[k] > ft
===============================================================================

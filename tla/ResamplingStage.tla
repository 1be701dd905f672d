--------------------------- MODULE ResamplingStage ---------------------------
(***************************************************************************)
(* ResamplingStage of srconvert.h: zero-stuffing interpolation by L, the   *)
(* FIR filter, and decimation by M, called with one block of input after   *)
(* another.  The caller cuts the input where it likes; the decimation      *)
(* index m and the filter carry the position over from block to block.     *)
(*                                                                         *)
(* Input sample n of the stream is represented by its number n = 1, 2, ..  *)
(* and a stuffed zero by 0, so an output, as the set of <<tap, sample>>    *)
(* pairs it adds up, says exactly which samples met which taps.            *)
(***************************************************************************)
EXTENDS Integers, FiniteSets

CONSTANTS
  Length,     \* taps of the filter
  NumVec,     \* samples per vector register of the build
  Factors,    \* the pairs <<L, M>> a stage may be constructed with
  BlockSizes, \* the values inBufferSize may take
  MaxFed      \* bound: input samples between two resets

ASSUME ResamplingStageAssumption ==
  /\ Length \in Nat \ {0}
  /\ NumVec \in Nat \ {0}
  /\ Factors \subseteq (Nat \ {0}) \X (Nat \ {0})
  /\ BlockSizes \subseteq Nat
  /\ MaxFed \in Nat

VARIABLES
  L, M, bypassMode,                \* set by the constructor (and setBypassMode)
  m,                               \* the decimation index between two blocks
  signal, currentIndex, lastPut,   \* the filter
  size, i, l, localm, o,           \* of convert: inBufferSize, the two loops, outputs
  busy,                            \* convert has been entered
  fed, produced,                   \* input and output samples since the last reset
  last                             \* the products of the last output sample

filterVars == <<signal, currentIndex, lastPut>>
loopVars == <<size, i, l, localm, o, busy>>
vars == <<L, M, bypassMode, m, filterVars, loopVars, fed, produced, last>>

Samples == 0 .. MaxFed
Stuffed == 0

Filter == INSTANCE FIRFilter WITH Zero <- Stuffed

\* SetConvertFunction.
convertFn ==
  CASE bypassMode                        -> "passThrough"
    [] ~bypassMode /\ L = 1 /\ M = 1     -> "filterOnly"
    [] ~bypassMode /\ L # 1 /\ M = 1     -> "interpolate"
    [] ~bypassMode /\ L = 1 /\ M # 1     -> "decimate"
    [] ~bypassMode /\ L # 1 /\ M # 1     -> "interpolateAndDecimate"

Init ==
  /\ \E f \in Factors : L = f[1] /\ M = f[2]
  /\ bypassMode \in IF L = 1 /\ M = 1 THEN BOOLEAN ELSE {FALSE}
  /\ m = 0
  /\ Filter!InitFIR
  /\ size = 0 /\ i = 0 /\ l = 0 /\ localm = 0 /\ o = 0
  /\ busy = FALSE
  /\ fed = 0 /\ produced = 0
  /\ last = {}
-------------------------------------------------------------------------------
\* convert(): a block of n samples; localm starts where the last block stopped.
Begin(n) ==
  /\ ~busy
  /\ fed + n <= MaxFed
  /\ busy' = TRUE
  /\ size' = n
  /\ i' = 0 /\ l' = 0 /\ o' = 0
  /\ localm' = m
  /\ UNCHANGED <<L, M, bypassMode, m, filterVars, fed, produced, last>>

Running(fn) == busy /\ i < size /\ convertFn = fn

\* outBuffer[o++] = ...
Emit(products) ==
  /\ o' = o + 1
  /\ produced' = produced + 1
  /\ last' = {p \in products : p[2] # Stuffed}

NoOutput == UNCHANGED <<o, produced, last>>

NextInput == i' = i + 1 /\ fed' = fed + 1

\* for (l = 0; l < L; ++l): the input sample is consumed with its last zero.
NextStuffed ==
  /\ l' = IF l + 1 = L THEN 0 ELSE l + 1
  /\ IF l + 1 = L THEN NextInput ELSE UNCHANGED <<i, fed>>

\* if (++localm == M) localm = 0;
NextM == localm' = IF localm + 1 = M THEN 0 ELSE localm + 1

\* filter.get(), after the put of this step.
Got == Filter!VectorGet'

passThrough ==
  /\ Running("passThrough")
  /\ Emit({<<0, fed + 1>>})
  /\ NextInput
  /\ UNCHANGED <<L, M, bypassMode, m, filterVars, size, l, localm, busy>>

filterOnly ==
  /\ Running("filterOnly")
  /\ Filter!put(fed + 1)
  /\ Emit(Got)
  /\ NextInput
  /\ UNCHANGED <<L, M, bypassMode, m, size, l, localm, busy>>

\* Built without USE_LAZYGET_ON_INTERPOLATE.
interpolate ==
  /\ Running("interpolate")
  /\ Filter!put(IF l = 0 THEN fed + 1 ELSE Stuffed)
  /\ Emit(Got)
  /\ NextStuffed
  /\ UNCHANGED <<L, M, bypassMode, m, size, localm, busy>>

decimate ==
  /\ Running("decimate")
  /\ Filter!put(fed + 1)
  /\ IF localm = 0 THEN Emit(Got) ELSE NoOutput
  /\ NextM
  /\ NextInput
  /\ UNCHANGED <<L, M, bypassMode, m, size, l, busy>>

\* Built with USE_LAZYGET_ON_INTERPOLATE_DECIMATE.
interpolateAndDecimate ==
  /\ Running("interpolateAndDecimate")
  /\ UNCHANGED <<L, M, bypassMode, m, size, busy>>
  /\ IF l = 0 THEN Filter!put(fed + 1) ELSE Filter!putZero
  /\ IF localm = 0 THEN Emit(Filter!LazyGet(L)') ELSE NoOutput
  /\ NextM
  /\ NextStuffed

\* Mutant: the decimation index is not carried over to the next block.
ReturnForgettingM ==
  /\ busy /\ i = size
  /\ busy' = FALSE
  /\ m' = 0
  /\ UNCHANGED <<L, M, bypassMode, filterVars, size, i, l, localm, o, fed, produced, last>>

\* The end of convert(): outBufferSize = o, and m = localm where there is one.
Return ==
  /\ busy /\ i = size
  /\ busy' = FALSE
  /\ m' = IF convertFn \in {"decimate", "interpolateAndDecimate"} THEN localm ELSE m
  /\ UNCHANGED <<L, M, bypassMode, filterVars, size, i, l, localm, o, fed, produced, last>>

\* Mutant: reset() clears the filter only.
resetFilterOnly ==
  /\ ~busy
  /\ Filter!reset
  /\ fed' = 0 /\ produced' = 0 /\ last' = {}
  /\ UNCHANGED <<L, M, bypassMode, m, loopVars>>

\* reset(), between two blocks: a conversion starts again from its first sample.
reset ==
  /\ ~busy
  /\ Filter!reset
  /\ m' = 0
  /\ fed' = 0 /\ produced' = 0 /\ last' = {}
  /\ UNCHANGED <<L, M, bypassMode, loopVars>>

Next ==
  \/ \E n \in BlockSizes : Begin(n)
  \/ passThrough
  \/ filterOnly
  \/ interpolate
  \/ decimate
  \/ interpolateAndDecimate
  \/ Return
  \/ reset

Spec == Init /\ [][Next]_vars
-------------------------------------------------------------------------------
(***************************************************************************)
(* Properties.                                                             *)
(***************************************************************************)
TypeOK ==
  /\ <<L, M>> \in Factors
  /\ bypassMode \in BOOLEAN
  /\ m \in 0 .. M - 1 /\ localm \in 0 .. M - 1
  /\ size \in Nat /\ i \in 0 .. size
  /\ l \in 0 .. L - 1
  /\ o \in Nat /\ fed \in Nat /\ produced \in Nat
  /\ busy \in BOOLEAN

\* Time in samples of the zero-stuffed stream: those that went into the filter.
Time == fed * L + l

\* The phase the next stuffed sample meets.
Phase == IF busy THEN localm ELSE m

\* How many outputs there are, and the decimation index, depend only on how many
\* samples went in since the last reset and not on how they were cut into blocks.
OutputCount ==
  ~bypassMode => produced * M = Time + (IF Phase = 0 THEN 0 ELSE M - Phase)

\* A block of n samples makes at most ceil(n * L / M) outputs, so that many samples
\* is room enough for one stage's output buffer.
BlockOutput == ~bypassMode => o * M <= (i * L + l) + M - 1

\* Within a block the outputs follow from the index the block started with.
BlockStart ==
  busy /\ ~bypassMode =>
    o * M + (IF m = 0 THEN 0 ELSE M - m)
      = (i * L + l) + (IF localm = 0 THEN 0 ELSE M - localm)

\* A block begins and ends between two input samples.
LoopStart == bypassMode \/ ~busy \/ i = size => l = 0

StageInv == TypeOK /\ OutputCount /\ BlockStart /\ BlockOutput /\ LoopStart

\* The stuffed stream: sample n at time (n - 1) * L, and zeros between.
StreamAt(t) == IF t >= 0 /\ t % L = 0 THEN t \div L + 1 ELSE Stuffed

\* What output number k of the whole stream adds up.  Tap j > 0 meets the sample j - 1
\* places before the newest; tap 0 meets the oldest one in the window, and is left out
\* by lazyGet.
Expected(k) ==
  LET t == k * M
      taps == IF convertFn = "interpolateAndDecimate" THEN 1 .. Length - 1
                                                      ELSE 0 .. Length - 1
      met(j) == StreamAt(t - IF j = 0 THEN Length - 1 ELSE j - 1)
  IN {<<j, met(j)>> : j \in {k2 \in taps : met(k2) # Stuffed}}

\* Every output is the one the whole stream, filtered in one go, would have at that
\* place: cutting the input into blocks and restarting after a reset leave no trace.
BlocksAreTransparent ==
  /\ convertFn = "passThrough" => produced = fed
  /\ convertFn # "passThrough" /\ produced > 0 => last = Expected(produced - 1)
===============================================================================

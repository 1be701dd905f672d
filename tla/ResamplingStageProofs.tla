------------------------ MODULE ResamplingStageProofs ------------------------
(***************************************************************************)
(* How many samples a resampling stage makes and what they are, for every  *)
(* L, every M, every filter length and every way of cutting the input into *)
(* blocks.                                                                 *)
(***************************************************************************)
EXTENDS ResamplingStage, TLAPS

\* The part of the state the counting is about.
counting == <<L, M, bypassMode, m, loopVars, fed, produced>>

\* A step that feeds one stuffed sample: no output, or one when the index is 0.
Advance ==
  /\ busy /\ i < size /\ ~bypassMode
  /\ UNCHANGED <<L, M, bypassMode, m, size, busy>>
  /\ IF l + 1 = L THEN l' = 0 /\ i' = i + 1 /\ fed' = fed + 1
                  ELSE l' = l + 1 /\ i' = i /\ fed' = fed
  /\ IF localm = 0 THEN o' = o + 1 /\ produced' = produced + 1
                   ELSE o' = o /\ produced' = produced
  /\ localm' = IF localm + 1 = M THEN 0 ELSE localm + 1

LEMMA FactorTypes ==
  ASSUME TypeOK
  PROVE  L \in Nat /\ L >= 1 /\ M \in Nat /\ M >= 1
BY ResamplingStageAssumption DEF TypeOK

\* Multiplying out one more input sample, or one more output.
LEMMA OneMore ==
  ASSUME NEW a \in Nat, NEW b \in Nat
  PROVE  /\ (a + 1) * b = a * b + b
         /\ a * b \in Nat
OBVIOUS

\* Two sums that grow by one together keep their difference.
LEMMA InStep ==
  ASSUME NEW a \in Int, NEW aP \in Int, NEW t \in Int, NEW tP \in Int,
         NEW c \in Int, NEW d \in Int, NEW dP \in Int,
         aP + d = a + dP + 1, a + c = t + d, tP = t + 1
  PROVE  aP + c = tP + dP
OBVIOUS

LEMMA AtMost ==
  ASSUME NEW a \in Int, NEW t \in Int, NEW c \in Nat, NEW d \in Nat, NEW b \in Int,
         a + c = t + d, d <= b
  PROVE  a <= t + b
OBVIOUS

\* Every convert function but passThrough is such a step.
LEMMA FunctionsAdvance ==
  ASSUME TypeOK,
         filterOnly \/ interpolate \/ decimate \/ interpolateAndDecimate
  PROVE  Advance
<1> USE FactorTypes DEF TypeOK
<1>1. CASE filterOnly
  <2>1. L = 1 /\ M = 1 /\ ~bypassMode
    BY <1>1 DEF filterOnly, Running, convertFn
  <2> QED BY <1>1, <2>1 DEF filterOnly, Running, Emit, NextInput, Advance
<1>2. CASE interpolate
  <2>1. M = 1 /\ ~bypassMode
    BY <1>2 DEF interpolate, Running, convertFn
  <2> QED
    BY <1>2, <2>1 DEF interpolate, Running, Emit, NextInput, NextStuffed, Advance
<1>3. CASE decimate
  <2>1. L = 1 /\ ~bypassMode
    BY <1>3 DEF decimate, Running, convertFn
  <2> QED
    BY <1>3, <2>1 DEF decimate, Running, Emit, NoOutput, NextInput, NextM, Advance
<1>4. CASE interpolateAndDecimate
  <2>1. ~bypassMode
    BY <1>4 DEF interpolateAndDecimate, Running, convertFn
  <2> QED
    BY <1>4, <2>1
    DEF interpolateAndDecimate, Running, Emit, NoOutput, NextInput, NextStuffed,
        NextM, Advance
<1> QED BY <1>1, <1>2, <1>3, <1>4

LEMMA AdvanceInv ==
  ASSUME StageInv, Advance
  PROVE  StageInv'
<1> USE FactorTypes DEF StageInv
<1>1. TypeOK'
  BY DEF TypeOK, Advance
<1>2. /\ i' * L' + l' = (i * L + l) + 1
      /\ Time' = Time + 1
  <2>1. CASE l + 1 = L
    <3>1. (i + 1) * L = i * L + L /\ (fed + 1) * L = fed * L + L
      BY OneMore DEF TypeOK
    <3>2. i * L \in Nat /\ fed * L \in Nat
      BY OneMore DEF TypeOK
    <3> QED BY <2>1, <3>1, <3>2 DEF Advance, Time, TypeOK
  <2>2. CASE l + 1 # L
    <3>1. i * L \in Nat /\ fed * L \in Nat
      BY OneMore DEF TypeOK
    <3> QED BY <2>2, <3>1 DEF Advance, Time, TypeOK
  <2> QED BY <2>1, <2>2
<1> DEFINE Owed(p) == IF p = 0 THEN 0 ELSE M - p
<1> DEFINE pm == produced * M
           om == o * M
           pmP == produced' * M'
           omP == o' * M'
<1>0. /\ M \in Nat /\ M >= 1 /\ M' = M
      /\ localm \in 0 .. M - 1
      /\ pm \in Nat /\ om \in Nat
  BY OneMore DEF TypeOK, Advance
<1>3. /\ pmP + Owed(localm) = pm + Owed(localm') + 1
      /\ omP + Owed(localm) = om + Owed(localm') + 1
      /\ pmP \in Nat /\ omP \in Nat
  <2>1. CASE localm = 0
    <3>1. produced' = produced + 1 /\ o' = o + 1
      BY <2>1 DEF Advance
    <3>2. pmP = pm + M /\ omP = om + M
      BY <1>0, <3>1, OneMore DEF TypeOK
    <3>3. localm' = IF M = 1 THEN 0 ELSE 1
      BY <1>0, <2>1 DEF Advance
    <3> HIDE DEF pm, om, pmP, omP
    <3> QED BY <1>0, <2>1, <3>2, <3>3
  <2>2. CASE localm # 0
    <3>1. pmP = pm /\ omP = om
      BY <1>0, <2>2 DEF Advance
    <3>2. localm' = IF localm + 1 = M THEN 0 ELSE localm + 1
      BY DEF Advance
    <3> HIDE DEF pm, om, pmP, omP
    <3> QED BY <1>0, <2>2, <3>1, <3>2
  <2> QED BY <2>1, <2>2
<1> DEFINE il == i * L
           ilP == i' * L'
<1>4. il \in Nat /\ ilP \in Nat /\ Time \in Nat /\ l \in Nat /\ l' \in Nat
  BY <1>1, OneMore DEF TypeOK, Advance, Time
<1>5. OutputCount'
  <2>1. pm = Time + Owed(localm)
    BY DEF OutputCount, Phase, Advance
  <2>2. pmP = Time' + Owed(localm')
    <3> HIDE DEF pm, pmP
    <3> QED BY <1>0, <1>2, <1>3, <1>4, <2>1 DEF Advance
  <2> QED BY <1>0, <2>2 DEF OutputCount, Phase, Advance
<1>6. omP + Owed(m) = (ilP + l') + Owed(localm')
  <2>1. om + Owed(m) = (il + l) + Owed(localm)
    BY DEF BlockStart, Advance
  <2>2. ilP + l' = (il + l) + 1
    BY <1>2
  <2> DEFINE owedM == Owed(m)
             owedOld == Owed(localm)
             owedNew == Owed(localm')
  <2>3. owedM \in Int /\ owedOld \in Int /\ owedNew \in Int
    BY <1>0, <1>1 DEF TypeOK, Advance
  <2>4. omP + owedOld = om + owedNew + 1
    BY <1>3
  <2>5. om + owedM = (il + l) + owedOld
    BY <2>1
  <2>7. omP \in Int /\ om \in Int /\ il + l \in Int /\ ilP + l' \in Int
    BY <1>0, <1>3, <1>4
  <2> HIDE DEF om, omP, il, ilP, owedM, owedOld, owedNew
  <2>6. omP + owedM = (ilP + l') + owedNew
    BY ONLY <2>2, <2>3, <2>4, <2>5, <2>7, InStep
  <2> USE DEF owedM, owedNew
  <2> QED BY <2>6
<1>7. BlockStart'
  BY <1>0, <1>6 DEF BlockStart, Advance
<1>8. BlockOutput'
  <2> DEFINE owedM == Owed(m)
             owedNew == Owed(localm')
  <2>1. owedM \in Nat /\ owedNew \in Nat /\ owedNew <= M - 1
    BY <1>0, <1>1 DEF TypeOK, Advance
  <2>2. omP + owedM = (ilP + l') + owedNew
    BY <1>6
  <2>4. omP \in Int /\ ilP + l' \in Int /\ M - 1 \in Int
    BY <1>0, <1>3, <1>4
  <2>5. omP <= (ilP + l') + (M - 1)
    <3> HIDE DEF om, omP, il, ilP, owedM, owedNew
    <3> QED BY ONLY <2>1, <2>2, <2>4, AtMost
  <2>3. omP <= (ilP + l') + M - 1
    BY <1>0, <1>4, <2>5
  <2> QED BY <1>0, <2>3 DEF BlockOutput, Advance
<1>9. LoopStart'
  BY DEF LoopStart, Advance, TypeOK
<1> QED BY <1>1, <1>5, <1>7, <1>8, <1>9

LEMMA StageStep == StageInv /\ [Next]_vars => StageInv'
<1> SUFFICES ASSUME StageInv, [Next]_vars PROVE StageInv'
  OBVIOUS
<1> USE FactorTypes, ResamplingStageAssumption DEF StageInv
<1>1. ASSUME NEW n \in BlockSizes, Begin(n) PROVE StageInv'
  <2>1. TypeOK'
    BY <1>1 DEF Begin, TypeOK
  <2>2. OutputCount'
    BY <1>1 DEF Begin, OutputCount, Time, Phase, LoopStart
  <2>3. i' * L' = 0 /\ o' * M' = 0
    BY <1>1, FactorTypes DEF Begin
  <2>4. BlockStart' /\ BlockOutput' /\ LoopStart'
    BY <1>1, <2>3 DEF Begin, BlockStart, BlockOutput, LoopStart, TypeOK
  <2> QED BY <2>1, <2>2, <2>4
<1>2. CASE passThrough
  <2>1. bypassMode
    BY <1>2 DEF passThrough, Running, convertFn
  <2>2. TypeOK'
    BY <1>2 DEF passThrough, Running, Emit, NextInput, TypeOK
  <2>3. OutputCount' /\ BlockStart' /\ BlockOutput' /\ LoopStart'
    BY <1>2, <2>1
    DEF passThrough, OutputCount, BlockStart, BlockOutput, LoopStart
  <2> QED BY <2>2, <2>3
<1>3. CASE filterOnly \/ interpolate \/ decimate \/ interpolateAndDecimate
  BY <1>3, FunctionsAdvance, AdvanceInv
<1>4. CASE Return
  <2>1. M = 1 => localm = m
    BY DEF TypeOK
  <2>2. ~bypassMode /\ M # 1 => convertFn \in {"decimate", "interpolateAndDecimate"}
    BY DEF convertFn
  <2>3. m' \in {m, localm} /\ (~bypassMode => m' = localm)
    BY <1>4, <2>1, <2>2 DEF Return
  <2> QED
    BY <1>4, <2>3 DEF Return, TypeOK, OutputCount, BlockStart, BlockOutput, LoopStart,
      Time, Phase
<1>5. CASE reset
  <2>1. TypeOK'
    BY <1>5 DEF reset, loopVars, TypeOK
  <2>2. fed' * L' = 0 /\ produced' * M' = 0
    BY <1>5, FactorTypes DEF reset
  <2>3. OutputCount'
    BY <1>5, <2>2 DEF reset, loopVars, OutputCount, Time, Phase, LoopStart
  <2>4. BlockStart' /\ BlockOutput' /\ LoopStart'
    BY <1>5 DEF reset, loopVars, BlockStart, BlockOutput, LoopStart
  <2> QED BY <2>1, <2>3, <2>4
<1>6. CASE UNCHANGED vars
  BY <1>6
  DEF vars, loopVars, TypeOK, OutputCount, BlockStart, BlockOutput, LoopStart,
      Time, Phase
<1> QED BY <1>1, <1>2, <1>3, <1>4, <1>5, <1>6 DEF Next

LEMMA StageInit == Init => StageInv
<1> SUFFICES ASSUME Init PROVE StageInv
  OBVIOUS
<1>1. PICK f \in Factors : L = f[1] /\ M = f[2]
  BY DEF Init
<1>2. <<L, M>> \in Factors /\ L \in Nat /\ M \in Nat /\ L >= 1 /\ M >= 1
  BY <1>1, ResamplingStageAssumption
<1>3. 0 * L = 0 /\ 0 * M = 0
  BY <1>2
<1>4. TypeOK
  <2>1. bypassMode \in BOOLEAN
    <3>1. CASE L = 1 /\ M = 1
      BY <3>1 DEF Init
    <3>2. CASE ~(L = 1 /\ M = 1)
      <4>1. bypassMode = FALSE
        BY <3>2 DEF Init
      <4> QED BY <4>1
    <3> QED BY <3>1, <3>2
  <2>2. m = 0 /\ localm = 0 /\ size = 0 /\ i = 0 /\ l = 0 /\ o = 0 /\ fed = 0
        /\ produced = 0 /\ busy = FALSE
    BY DEF Init
  <2>3. m \in 0 .. M - 1 /\ localm \in 0 .. M - 1 /\ l \in 0 .. L - 1
    BY <1>2, <2>2
  <2>4. size \in Nat /\ i \in 0 .. size /\ o \in Nat /\ fed \in Nat /\ produced \in Nat
    BY <2>2
  <2>5. busy \in BOOLEAN
    BY <2>2
  <2> QED BY <1>2, <2>1, <2>3, <2>4, <2>5, Zenon DEF TypeOK
<1>5. OutputCount /\ BlockOutput /\ LoopStart
  BY <1>2, <1>3 DEF Init, OutputCount, BlockOutput, LoopStart, Time, Phase
<1>6. BlockStart
  BY DEF Init, BlockStart
<1> QED BY <1>4, <1>5, <1>6 DEF StageInv

LEMMA StageInvariant == Spec => []StageInv
BY StageInit, StageStep, PTL DEF Spec

\* However the input is cut into blocks, the number of outputs since the last reset
\* is the number of samples fed times L over M, rounded up.
THEOREM OutputCountHolds == Spec => []OutputCount
<1>1. StageInv => OutputCount
  BY DEF StageInv
<1> QED BY <1>1, StageInvariant, PTL

\* A block of n samples gives at most n * L / M outputs rounded up: the bound the
\* output buffer of a single stage is allocated for.
THEOREM BlockOutputHolds == Spec => []BlockOutput
<1>1. StageInv => BlockOutput
  BY DEF StageInv
<1> QED BY <1>1, StageInvariant, PTL
-------------------------------------------------------------------------------
(***************************************************************************)
(* What the outputs are, in a scalar build (the kernels of a vector build  *)
(* drop taps with the phase), for filters longer than the interpolation    *)
(* factor where lazyGet is used.                                           *)
(***************************************************************************)
F == INSTANCE FIRFilterProofs WITH Zero <- Stuffed

ScalarBuild ==
  /\ NumVec = 1
  /\ \A f \in Factors : f[1] # 1 /\ f[2] # 1 => f[1] < Length

\* How many puts ago the last sample that was not stuffed went in.
Stuffing == IF l = 0 THEN L - 1 ELSE l - 1

\* The block fits the stream; the window of the filter holds the newest samples of the
\* stuffed stream; lazyGet's offset leads to the newest sample that was not stuffed.
FilterInv ==
  convertFn # "passThrough" =>
    /\ F!IInv
    /\ \A k \in 0 .. Length - 1 : F!Window[k] = StreamAt(Time - 1 - k)
    /\ Time > 0 /\ convertFn = "interpolateAndDecimate" =>
         lastPut = IF currentIndex + 1 + Stuffing < Length THEN currentIndex + 1 + Stuffing
                   ELSE currentIndex + 1 + Stuffing - Length

StreamInv ==
  /\ busy => fed + (size - i) <= MaxFed
  /\ FilterInv
  /\ BlocksAreTransparent

LEMMA FilterAssumption == F!FIRFilterAssumption
BY ResamplingStageAssumption DEF F!FIRFilterAssumption, Samples, Stuffed

\* One put, of a sample or of a stuffed zero.
LEMMA PutShifts ==
  ASSUME F!IInv, NEW x \in Samples, Filter!put(x) \/ (x = Stuffed /\ Filter!putZero)
  PROVE  /\ F!IInv'
         /\ F!Window' = [k \in 0 .. Length - 1 |-> IF k = 0 THEN x ELSE F!Window[k - 1]]
         /\ currentIndex \in 0 .. Length - 1
         /\ currentIndex' = IF currentIndex = 0 THEN Length - 1 ELSE currentIndex - 1
<1>1. /\ signal' = F!Written(x) /\ currentIndex' = F!NextIndex
      /\ lastPut' \in {lastPut, currentIndex}
      /\ F!NextFIR
  BY DEF Filter!put, Filter!putZero, Filter!Written, Filter!NextIndex, F!Written, F!NextIndex,
         Filter!Slots, F!Slots, Filter!SignalLength, F!SignalLength, Filter!PaddedLength,
         F!PaddedLength, F!NextFIR, F!put, F!putZero
<1>2. F!IInv'
  BY <1>1, FilterAssumption, F!StepIInv
<1>3. F!Line!Shift(x)
  BY <1>1, <1>2, FilterAssumption, F!WriteShifts
<1>4. currentIndex \in 0 .. Length - 1
  BY DEF F!IInv, F!TypeOK
<1> QED
  BY <1>1, <1>2, <1>3, <1>4 DEF F!Line!Shift, F!NextIndex

\* What get() adds up, in a scalar build: every tap and the sample it meets.
LEMMA ScalarProducts ==
  ASSUME NumVec = 1
  PROVE  F!IInv => Filter!VectorGet =
           {<<j, F!Window[IF j = 0 THEN Length - 1 ELSE j - 1]>> : j \in 0 .. Length - 1}
<1> SUFFICES ASSUME F!IInv
             PROVE  Filter!VectorGet =
               {<<j, F!Window[IF j = 0 THEN Length - 1 ELSE j - 1]>> : j \in 0 .. Length - 1}
  OBVIOUS
<1> USE FilterAssumption, ResamplingStageAssumption
<1>1. F!VectorGet = {p \in F!ScalarGet : p[1] < Length - F!phase}
  BY F!ShiftDropsTail DEF F!VectorDropsTail
<1>2. F!phase = 0 /\ currentIndex \in 0 .. Length - 1
  BY DEF F!phase, F!IInv, F!TypeOK
<1>3. F!VectorGet = {<<j, signal[currentIndex + j]>> : j \in 0 .. Length - 1}
  BY <1>1, <1>2 DEF F!ScalarGet
<1>4. \A j \in 0 .. Length - 1 :
        signal[currentIndex + j] = F!Window[IF j = 0 THEN Length - 1 ELSE j - 1]
  BY <1>2 DEF F!Window
<1>5. Filter!VectorGet = F!VectorGet
  BY DEF Filter!VectorGet, F!VectorGet, Filter!kernelphases, F!kernelphases, Filter!phase, F!phase,
         Filter!alignedIndex, F!alignedIndex, Filter!NoTap, F!NoTap,
         Filter!PaddedLength, F!PaddedLength
<1> QED
  BY <1>3, <1>4, <1>5

LEMMA ScalarProductsNext ==
  ASSUME NumVec = 1
  PROVE  F!IInv' => Got =
           {<<j, F!Window'[IF j = 0 THEN Length - 1 ELSE j - 1]>> : j \in 0 .. Length - 1}
<1>1. (F!IInv => Filter!VectorGet =
           {<<j, F!Window[IF j = 0 THEN Length - 1 ELSE j - 1]>> : j \in 0 .. Length - 1})'
  BY ScalarProducts, PTL
<1> QED
  BY <1>1 DEF Got

\* The place in the stuffed stream that l and the samples fed stand for.
LEMMA Divided ==
  ASSUME NEW a \in Nat, NEW n \in Nat \ {0}, NEW r \in 0 .. n - 1
  PROVE  (a * n + r) % n = r /\ (a * n + r) \div n = a
OBVIOUS

\* Every sample that goes into the filter is the stuffed stream's next one.
LEMMA NextOfStream ==
  ASSUME TypeOK
  PROVE  /\ Time \in Nat
         /\ StreamAt(Time) = IF l = 0 THEN fed + 1 ELSE Stuffed
         /\ l = 0 /\ fed = 0 <=> Time = 0
<1>1. L \in Nat \ {0} /\ fed \in Nat /\ l \in 0 .. L - 1
  BY FactorTypes DEF TypeOK
<1>2. Time % L = l /\ Time \div L = fed
  BY <1>1, Divided DEF Time
<1>3. fed * L \in Nat /\ (fed = 0 => fed * L = 0) /\ (fed # 0 => fed * L >= 1)
  BY <1>1
<1> QED
  BY <1>1, <1>2, <1>3 DEF StreamAt, Time

LEMMA AdvanceTime ==
  ASSUME TypeOK, Advance
  PROVE  Time' = Time + 1 /\ L' = L /\ M' = M /\ convertFn' = convertFn
<1>1. L \in Nat \ {0} /\ fed \in Nat /\ l \in 0 .. L - 1
  BY FactorTypes DEF TypeOK
<1>2. (fed + 1) * L = fed * L + L /\ fed * L \in Nat
  BY <1>1, OneMore
<1> QED
  BY <1>1, <1>2 DEF Advance, Time, convertFn

\* The function's step, as far as the filter and the output are concerned.
Filters ==
  \/ Filter!put(StreamAt(Time))
  \/ l # 0 /\ Filter!putZero

LEMMA WindowFollows ==
  ASSUME StageInv, StreamInv, Advance, Filters
  PROVE  /\ F!IInv'
         /\ \A k \in 0 .. Length - 1 : F!Window'[k] = StreamAt(Time - k)
         /\ \A t \in Int : StreamAt(t)' = StreamAt(t)
<1> USE FactorTypes, ResamplingStageAssumption
<1>1. convertFn # "passThrough" /\ busy /\ i < size
  BY DEF Advance, convertFn
<1>2. /\ F!IInv
      /\ \A k \in 0 .. Length - 1 : F!Window[k] = StreamAt(Time - 1 - k)
  BY <1>1 DEF StreamInv, FilterInv
<1>3. PICK x \in Samples : x = StreamAt(Time) /\ (Filter!put(x) \/ (x = Stuffed /\ Filter!putZero))
  <2>1. StreamAt(Time) = IF l = 0 THEN fed + 1 ELSE Stuffed
    BY NextOfStream DEF StageInv
  <2>2. fed + 1 <= MaxFed /\ fed + 1 \in Nat
    BY <1>1 DEF StreamInv, StageInv, TypeOK
  <2>3. StreamAt(Time) \in Samples
    BY <2>1, <2>2 DEF Samples, Stuffed
  <2>4. CASE Filter!put(StreamAt(Time))
    BY <2>3, <2>4
  <2>5. CASE l # 0 /\ Filter!putZero
    BY <2>1, <2>3, <2>5
  <2> QED
    BY <2>4, <2>5 DEF Filters
<1>4. /\ F!IInv'
      /\ F!Window' = [k \in 0 .. Length - 1 |-> IF k = 0 THEN x ELSE F!Window[k - 1]]
  BY <1>2, <1>3, PutShifts
<1>5. ASSUME NEW k \in 0 .. Length - 1 PROVE F!Window'[k] = StreamAt(Time - k)
  <2>1. Time \in Nat
    BY NextOfStream DEF StageInv
  <2>2. CASE k = 0
    BY <1>3, <1>4, <2>1, <2>2
  <2>3. CASE k # 0
    <3>1. F!Window'[k] = F!Window[k - 1] /\ k - 1 \in 0 .. Length - 1
      BY <1>4, <2>3
    <3>2. Time - 1 - (k - 1) = Time - k
      BY <2>1
    <3> QED
      BY <1>2, <3>1, <3>2
  <2> QED
    BY <2>2, <2>3
<1>6. L' = L
  BY DEF Advance
<1> QED
  BY <1>4, <1>5, <1>6 DEF StreamAt

\* An output takes the place in the whole stream that its number gives it.
LEMMA OutputIsExpected ==
  ASSUME StageInv, StreamInv, Advance, Filters, localm = 0,
         NEW taps, taps = (IF convertFn = "interpolateAndDecimate" THEN 1 .. Length - 1
                                                                  ELSE 0 .. Length - 1),
         last' = {p \in {<<j, F!Window'[IF j = 0 THEN Length - 1 ELSE j - 1]>> : j \in taps} :
                    p[2] # Stuffed}
  PROVE  BlocksAreTransparent'
<1> USE FactorTypes, ResamplingStageAssumption
<1>1. Time \in Nat /\ M \in Nat /\ produced \in Nat /\ taps \subseteq 0 .. Length - 1
  BY NextOfStream DEF StageInv, TypeOK
<1>2. produced * M = Time
  BY <1>1 DEF Advance, StageInv, OutputCount, Phase
<1>3. produced' - 1 = produced /\ M' = M /\ convertFn' = convertFn
  BY <1>1, AdvanceTime DEF Advance, StageInv
<1> DEFINE back(j) == IF j = 0 THEN Length - 1 ELSE j - 1
           met(j) == StreamAt(Time - back(j))
<1>4. \A j \in taps : F!Window'[back(j)] = met(j)
  <2>1. \A j \in 0 .. Length - 1 : back(j) \in 0 .. Length - 1
    OBVIOUS
  <2> QED
    BY <1>1, <2>1, WindowFollows
<1>5. last' = {<<j, met(j)>> : j \in {k \in taps : met(k) # Stuffed}}
  BY <1>4
<1>6. (Expected(produced - 1))' = {<<j, met(j)>> : j \in {k \in taps : met(k) # Stuffed}}
  <2>1. \A t \in Int : StreamAt(t)' = StreamAt(t)
    BY WindowFollows
  <2>2. \A j \in taps : (produced' - 1) * M' - back(j) = Time - back(j)
                     /\ Time - back(j) \in Int
    BY <1>1, <1>2, <1>3
  <2>3. L' = L
    BY DEF Advance
  <2> QED
    BY <1>2, <1>3, <2>3 DEF Expected, StreamAt
<1>7. convertFn # "passThrough"
  BY DEF Advance, convertFn
<1> QED
  BY <1>3, <1>5, <1>6, <1>7 DEF BlocksAreTransparent

\* A step without an output.
LEMMA NoOutputKeepsLast ==
  ASSUME StageInv, StreamInv, Advance, UNCHANGED <<produced, last>>
  PROVE  BlocksAreTransparent'
<1>1. convertFn' = convertFn /\ L' = L /\ M' = M
  BY AdvanceTime DEF StageInv
<1>2. (Expected(produced - 1))' = Expected(produced - 1)
  BY <1>1 DEF Expected, StreamAt
<1>3. convertFn # "passThrough"
  BY DEF Advance, convertFn
<1> QED
  BY <1>1, <1>2, <1>3 DEF BlocksAreTransparent, StreamInv

\* The four functions that use the filter, as one: they advance, filter, and give an
\* output of get(), or of lazyGet(), where the decimation index is 0.
LEMMA FunctionsFilter ==
  ASSUME StageInv, filterOnly \/ interpolate \/ decimate \/ interpolateAndDecimate
  PROVE  /\ Advance /\ Filters
         /\ \/ localm # 0 /\ UNCHANGED <<produced, last>>
            \/ /\ localm = 0 /\ convertFn # "interpolateAndDecimate"
               /\ last' = {p \in Got : p[2] # Stuffed}
            \/ /\ localm = 0 /\ convertFn = "interpolateAndDecimate"
               /\ last' = {p \in Filter!LazyGet(L)' : p[2] # Stuffed}
         /\ convertFn = "interpolateAndDecimate" =>
              /\ l = 0 => Filter!put(StreamAt(Time))
              /\ l # 0 => Filter!putZero
<1> USE FactorTypes DEF StageInv, TypeOK
<1>0. Advance
  BY FunctionsAdvance
<1>1. StreamAt(Time) = IF l = 0 THEN fed + 1 ELSE Stuffed
  BY NextOfStream
<1>2. CASE filterOnly
  <2>1. L = 1 /\ M = 1 /\ convertFn = "filterOnly"
    BY <1>2 DEF filterOnly, Running, convertFn
  <2>2. l = 0 /\ localm = 0
    BY <2>1
  <2> QED
    BY <1>0, <1>1, <1>2, <2>1, <2>2 DEF filterOnly, Emit, Filters
<1>3. CASE interpolate
  <2>1. M = 1 /\ convertFn = "interpolate"
    BY <1>3 DEF interpolate, Running, convertFn
  <2>2. localm = 0
    BY <2>1
  <2> QED
    BY <1>0, <1>1, <1>3, <2>1, <2>2 DEF interpolate, Emit, Filters
<1>4. CASE decimate
  <2>1. L = 1 /\ convertFn = "decimate"
    BY <1>4 DEF decimate, Running, convertFn
  <2>2. l = 0
    BY <2>1
  <2> QED
    BY <1>0, <1>1, <1>4, <2>1, <2>2 DEF decimate, Emit, NoOutput, Filters
<1>5. CASE interpolateAndDecimate
  <2>1. convertFn = "interpolateAndDecimate"
    BY <1>5 DEF interpolateAndDecimate, Running
  <2> QED
    BY <1>0, <1>1, <1>5, <2>1 DEF interpolateAndDecimate, Emit, NoOutput, Filters
<1> QED
  BY <1>2, <1>3, <1>4, <1>5

\* The filter has room for the zeros between two samples.
LEMMA LongerThanStuffing ==
  ASSUME StageInv, ScalarBuild, convertFn = "interpolateAndDecimate"
  PROVE  /\ L < Length /\ L \in Nat /\ Length \in Nat /\ l \in 0 .. L - 1
         /\ Stuffing \in 0 .. L - 1
<1>1. <<L, M>> \in Factors /\ L # 1 /\ M # 1
  BY DEF StageInv, TypeOK, convertFn
<1>2. <<L, M>>[1] # 1 /\ <<L, M>>[2] # 1 /\ <<L, M>>[1] = L
  BY <1>1
<1>3. L < Length
  BY <1>1, <1>2 DEF ScalarBuild
<1> QED
  BY <1>3, FactorTypes, ResamplingStageAssumption DEF StageInv, TypeOK, Stuffing

\* The slot of the last sample that was not stuffed, after the next put.
LEMMA LastPutFollows ==
  ASSUME StageInv, StreamInv, ScalarBuild, Advance, convertFn = "interpolateAndDecimate",
         l = 0 => Filter!put(StreamAt(Time)), l # 0 => Filter!putZero, Filters
  PROVE  /\ Stuffing' = l
         /\ currentIndex' \in 0 .. Length - 1
         /\ lastPut' = IF currentIndex' + 1 + l < Length THEN currentIndex' + 1 + l
                       ELSE currentIndex' + 1 + l - Length
<1> USE LongerThanStuffing
<1>1. Stuffing' = l
  <2>1. l' = (IF l + 1 = L THEN 0 ELSE l + 1) /\ L' = L
    BY DEF Advance
  <2> QED
    BY <2>1 DEF Stuffing
<1>2. F!IInv
  BY DEF StreamInv, FilterInv
<1>3. /\ currentIndex \in 0 .. Length - 1
      /\ currentIndex' = IF currentIndex = 0 THEN Length - 1 ELSE currentIndex - 1
  BY <1>2 DEF F!IInv, F!TypeOK, Filters, Filter!put, Filter!putZero, Filter!NextIndex
<1>4. CASE l = 0
  <2>1. lastPut' = currentIndex
    BY <1>4 DEF Filter!put
  <2> QED
    BY <1>1, <1>3, <1>4, <2>1
<1>5. CASE l # 0
  <2>1. lastPut' = lastPut /\ Time > 0 /\ Stuffing = l - 1
    BY <1>5, NextOfStream DEF Filter!putZero, Stuffing, StageInv
  <2>2. lastPut = IF currentIndex + l < Length THEN currentIndex + l
                  ELSE currentIndex + l - Length
    BY <1>3, <2>1 DEF StreamInv, FilterInv
  <2> QED
    BY <1>1, <1>3, <1>5, <2>1, <2>2
<1> QED
  BY <1>4, <1>5

\* Two multiples of n that are less than n apart, or as far as the later one is behind.
LEMMA SamePlace ==
  ASSUME NEW n \in Nat \ {0}, NEW r \in 0 .. n - 1, NEW a \in Nat, NEW j \in Nat \ {0},
         a * n + r - (j - 1) >= 0, (a * n + r - (j - 1)) % n = 0
  PROVE  j >= r + 1 /\ (j - (r + 1)) % n = 0
<1> DEFINE t == a * n + r - (j - 1)
           b == t \div n
<1>1. a * n \in Nat /\ t \in Nat
  OBVIOUS
<1>2. b \in Nat /\ t = b * n
  <2>0. t % n = 0
    OBVIOUS
  <2> HIDE DEF t
  <2>1. t = n * (t \div n) + (t % n) /\ t \div n \in Int
    BY <1>1
  <2>2. t \div n >= 0
    BY <1>1
  <2> QED
    BY <1>1, <2>0, <2>1, <2>2
<1>3. j - (r + 1) = a * n - b * n
  BY <1>1, <1>2
<1>4. a * n - b * n = (a - b) * n
  BY <1>2
<1>5. (a - b) * n > -n
  BY <1>3, <1>4
<1>6. a - b >= 0
  <2> SUFFICES ASSUME a - b <= -1 PROVE FALSE
    BY <1>2
  <2> DEFINE d == a - b
  <2>1. d \in Int /\ d <= -1 /\ d * n > -n
    BY <1>2, <1>5
  <2> HIDE DEF d
  <2>2. d * n <= (-1) * n
    BY <2>1
  <2> QED
    BY <2>1, <2>2
<1>7. (a - b) * n >= 0 /\ ((a - b) * n + 0) % n = 0
  BY <1>2, <1>6, Divided
<1> QED
  BY <1>3, <1>4, <1>7

\* What lazyGet adds up: it meets every sample of the window that was not stuffed, but
\* for the one that tap 0 would meet.
LEMMA LazyProducts ==
  ASSUME StageInv, StreamInv, ScalarBuild, Advance, convertFn = "interpolateAndDecimate",
         l = 0 => Filter!put(StreamAt(Time)), l # 0 => Filter!putZero, Filters
  PROVE  {p \in Filter!LazyGet(L)' : p[2] # Stuffed} =
           {p \in {<<j, F!Window'[IF j = 0 THEN Length - 1 ELSE j - 1]>> : j \in 1 .. Length - 1} :
              p[2] # Stuffed}
<1> USE LongerThanStuffing
<1>1. /\ currentIndex' \in 0 .. Length - 1 /\ L' = L
      /\ Filter!LazyOffset' = l + 1
  <2>1. L' = L
    BY DEF Advance
  <2> QED
    BY <2>1, LastPutFollows DEF Filter!LazyOffset
<1>2. L \in Nat \ {0} /\ l \in 0 .. L - 1 /\ fed \in Nat /\ Time \in Nat /\ Time = fed * L + l
  BY NextOfStream, FactorTypes DEF StageInv, TypeOK, Time
<1> DEFINE near == {j \in 0 .. Length - 1 : j >= l + 1 /\ (j - (l + 1)) % L = 0}
           read(j) == signal'[j + currentIndex']
<1>3. Filter!LazyGet(L)' = {<<j, read(j)>> : j \in near}
  BY <1>1 DEF Filter!LazyGet
<1>4. near \subseteq 1 .. Length - 1
  OBVIOUS
<1>5. ASSUME NEW j \in 1 .. Length - 1
      PROVE  F!Window'[IF j = 0 THEN Length - 1 ELSE j - 1] = read(j)
  <2>1. F!Window'[j - 1] = signal'[currentIndex' + 1 + (j - 1)]
    BY DEF F!Window
  <2> QED
    BY <1>1, <2>1
<1>6. ASSUME NEW j \in 1 .. Length - 1, read(j) # Stuffed PROVE j \in near
  <2>1. F!Window'[j - 1] = StreamAt(Time - (j - 1))
    BY WindowFollows
  <2>2. Time - (j - 1) >= 0 /\ (Time - (j - 1)) % L = 0
    BY <1>5, <1>6, <2>1 DEF StreamAt
  <2>3. fed * L + l - (j - 1) >= 0 /\ (fed * L + l - (j - 1)) % L = 0
    BY <1>2, <2>2
  <2>4. j >= l + 1 /\ (j - (l + 1)) % L = 0
    <3> HIDE DEF near, read
    <3>1. j \in Nat \ {0}
      BY ResamplingStageAssumption
    <3> QED
      BY <1>2, <2>3, <3>1, SamePlace
  <2> QED
    BY <2>4
<1> HIDE DEF near, read
<1> DEFINE all == {<<j, F!Window'[IF j = 0 THEN Length - 1 ELSE j - 1]>> : j \in 1 .. Length - 1}
<1>7. all = {<<j, read(j)>> : j \in 1 .. Length - 1}
  BY <1>5
<1> HIDE DEF all
<1>8. {p \in {<<j, read(j)>> : j \in near} : p[2] # Stuffed}
        = {p \in {<<j, read(j)>> : j \in 1 .. Length - 1} : p[2] # Stuffed}
  BY <1>4, <1>6
<1> QED
  BY <1>3, <1>7, <1>8 DEF all

LEMMA FunctionsKeepStream ==
  ASSUME ScalarBuild, StageInv, StreamInv,
         filterOnly \/ interpolate \/ decimate \/ interpolateAndDecimate
  PROVE  StreamInv'
<1> USE FunctionsFilter
<1>1. busy' => fed' + (size' - i') <= MaxFed
  <2>1. fed' - i' = fed - i /\ size' = size /\ busy
    BY DEF Advance, StageInv, TypeOK
  <2> QED
    BY <2>1, ResamplingStageAssumption DEF StreamInv, Advance, StageInv, TypeOK
<1>2. FilterInv'
  <2>1. Time' = Time + 1 /\ Time \in Nat /\ L' = L /\ convertFn' = convertFn
    BY AdvanceTime, NextOfStream DEF StageInv
  <2>2. ASSUME NEW k \in 0 .. Length - 1 PROVE F!Window'[k] = StreamAt(Time - 1 - k)'
    <3>1. F!Window'[k] = StreamAt(Time - k)
      BY WindowFollows
    <3>2. StreamAt(Time - 1 - k)' = StreamAt(Time - k)
      BY <2>1, ResamplingStageAssumption DEF StreamAt
    <3> QED
      BY <3>1, <3>2
  <2>3. F!IInv'
    BY WindowFollows
  <2>4. convertFn = "interpolateAndDecimate" =>
          lastPut' = IF currentIndex' + 1 + Stuffing' < Length THEN currentIndex' + 1 + Stuffing'
                     ELSE currentIndex' + 1 + Stuffing' - Length
    BY LastPutFollows
  <2> QED
    BY <2>1, <2>2, <2>3, <2>4 DEF FilterInv
<1>3. BlocksAreTransparent'
  <2>1. CASE localm # 0 /\ UNCHANGED <<produced, last>>
    BY <2>1, NoOutputKeepsLast
  <2>2. CASE localm = 0 /\ convertFn # "interpolateAndDecimate"
             /\ last' = {p \in Got : p[2] # Stuffed}
    <3>1. Got = {<<j, F!Window'[IF j = 0 THEN Length - 1 ELSE j - 1]>> : j \in 0 .. Length - 1}
      BY WindowFollows, ScalarProductsNext DEF ScalarBuild
    <3> QED
      BY <2>2, <3>1, OutputIsExpected
  <2>3. CASE localm = 0 /\ convertFn = "interpolateAndDecimate"
             /\ last' = {p \in Filter!LazyGet(L)' : p[2] # Stuffed}
    <3>1. last' = {p \in {<<j, F!Window'[IF j = 0 THEN Length - 1 ELSE j - 1]>> :
                            j \in 1 .. Length - 1} : p[2] # Stuffed}
      BY <2>3, LazyProducts
    <3> QED
      BY <2>3, <3>1, OutputIsExpected
  <2> QED
    BY <2>1, <2>2, <2>3
<1> QED
  BY <1>1, <1>2, <1>3 DEF StreamInv

\* Before the first sample the window is silent, as the stream is before time 0.
LEMMA SilentWindow ==
  ASSUME NEW t \in Int, t < 0
  PROVE  StreamAt(t) = Stuffed
BY DEF StreamAt

LEMMA StreamInit == Init => StreamInv
<1> SUFFICES ASSUME Init PROVE StreamInv
  OBVIOUS
<1> USE FilterAssumption, ResamplingStageAssumption
<1>1. F!InitFIR
  BY DEF Init, Filter!InitFIR, F!InitFIR, Filter!Slots, F!Slots, Filter!SignalLength,
         F!SignalLength, Filter!PaddedLength, F!PaddedLength
<1>2. F!IInv
  BY <1>1, F!InitIInv
<1>3. \A k \in 0 .. Length - 1 : F!Window[k] = Stuffed
  BY <1>1, F!SlotsFacts DEF F!InitFIR, F!Window, F!Slots
<1>4. Time = 0
  BY StageInit, NextOfStream DEF Init, StageInv
<1>5. FilterInv
  BY <1>2, <1>3, <1>4, SilentWindow DEF FilterInv
<1>6. BlocksAreTransparent
  BY DEF Init, BlocksAreTransparent
<1> QED
  BY <1>5, <1>6 DEF StreamInv, Init

\* reset() puts the stream back to its first sample.
LEMMA ResetKeepsStream ==
  ASSUME StageInv, StreamInv, reset
  PROVE  StreamInv'
<1> USE FilterAssumption, ResamplingStageAssumption
<1>1. L' = L /\ M' = M /\ convertFn' = convertFn /\ busy' = FALSE /\ l' = l
  BY DEF reset, loopVars, convertFn
<1>2. BlocksAreTransparent'
  BY DEF reset, BlocksAreTransparent
<1>3. ASSUME convertFn # "passThrough" PROVE FilterInv'
  <2>1. F!IInv
    BY <1>3 DEF StreamInv, FilterInv
  <2>2. F!reset
    BY DEF reset, Filter!reset, F!reset, Filter!Slots, F!Slots, Filter!SignalLength,
           F!SignalLength, Filter!PaddedLength, F!PaddedLength
  <2>3. F!IInv'
    BY <2>1, <2>2, F!StepIInv DEF F!NextFIR
  <2>4. signal' = [j \in F!Slots |-> Stuffed] /\ currentIndex' = Length - 1
    <3>1. \A j \in F!Slots : j < F!PaddedLength \/ j \in Length .. Length + F!PaddedLength - 1
      BY F!PaddedLengthBounds DEF F!Slots, F!SignalLength
    <3> QED
      BY <2>2, <3>1 DEF F!reset
  <2>5. \A k \in 0 .. Length - 1 : F!Window'[k] = Stuffed
    BY <2>4, F!SlotsFacts DEF F!Window, F!Slots
  <2>6. l = 0
    BY <1>3 DEF StageInv, LoopStart, reset, convertFn
  <2>7. Time' = 0
    BY <1>1, <2>6, FactorTypes DEF reset, Time, StageInv
  <2>8. \A k \in 0 .. Length - 1 : StreamAt(Time - 1 - k)' = Stuffed
    BY <2>7 DEF StreamAt
  <2> QED
    BY <2>3, <2>5, <2>7, <2>8 DEF FilterInv
<1>4. FilterInv'
  BY <1>1, <1>3 DEF FilterInv
<1> QED
  BY <1>1, <1>2, <1>4 DEF StreamInv

\* A step that leaves the position in the stream, the filter and the last output alone.
LEMMA StreamRests ==
  ASSUME StreamInv, UNCHANGED <<L, M, bypassMode, filterVars, fed, produced, last>>, l' = l,
         busy' => fed + (size' - i') <= MaxFed
  PROVE  StreamInv'
<1>1. convertFn' = convertFn /\ Time' = Time /\ Stuffing' = Stuffing
  BY DEF convertFn, Time, Stuffing
<1>2. F!IInv' = F!IInv /\ F!Window' = F!Window
  BY DEF filterVars, F!IInv, F!TypeOK, F!UpperHalf, F!Window
<1>3. \A t : StreamAt(t)' = StreamAt(t)
  BY DEF StreamAt
<1>4. FilterInv'
  BY <1>1, <1>2 DEF FilterInv, StreamInv, filterVars, StreamAt
<1>5. BlocksAreTransparent'
  BY <1>1 DEF BlocksAreTransparent, StreamInv, Expected, StreamAt
<1> QED
  BY <1>4, <1>5 DEF StreamInv

LEMMA StreamStep ==
  ASSUME ScalarBuild, StageInv, StreamInv, [Next]_vars
  PROVE  StreamInv'
<1> USE ResamplingStageAssumption
<1>1. ASSUME NEW n \in BlockSizes, Begin(n) PROVE StreamInv'
  <2>1. CASE bypassMode
    <3>1. convertFn = "passThrough" /\ convertFn' = "passThrough"
      BY <1>1, <2>1 DEF Begin, convertFn
    <3> QED
      BY <1>1, <3>1 DEF Begin, StreamInv, FilterInv, BlocksAreTransparent, StageInv, TypeOK
  <2>2. CASE ~bypassMode
    <3>1. l = 0
      BY <1>1, <2>2 DEF Begin, StageInv, LoopStart
    <3> QED
      BY <1>1, <3>1, StreamRests DEF Begin, StageInv, TypeOK
  <2> QED
    BY <2>1, <2>2
<1>2. CASE passThrough
  <2>1. convertFn = "passThrough" /\ convertFn' = "passThrough"
    BY <1>2 DEF passThrough, Running, convertFn
  <2> QED
    BY <1>2, <2>1 DEF passThrough, Running, Emit, NextInput, StreamInv, FilterInv,
                      BlocksAreTransparent, StageInv, TypeOK
<1>3. CASE filterOnly \/ interpolate \/ decimate \/ interpolateAndDecimate
  BY <1>3, FunctionsKeepStream
<1>4. CASE Return
  BY <1>4, StreamRests DEF Return
<1>5. CASE reset
  BY <1>5, ResetKeepsStream
<1>6. CASE UNCHANGED vars
  BY <1>6, StreamRests DEF vars, loopVars, StreamInv
<1> QED
  BY <1>1, <1>2, <1>3, <1>4, <1>5, <1>6 DEF Next

\* Every output is what the whole stream, filtered in one go, has at that place: no cut of
\* the input into blocks, no zero that lazyGet skips and no reset leaves a trace.
THEOREM OutputsKnowNoBlocks ==
  ASSUME ScalarBuild
  PROVE  Spec => []BlocksAreTransparent
<1>1. StreamInv => BlocksAreTransparent
  BY DEF StreamInv
<1>2. StageInv /\ StreamInv /\ [Next]_vars => StreamInv'
  BY StreamStep
<1> QED
  BY <1>1, <1>2, StreamInit, StageInvariant, PTL DEF Spec
===============================================================================

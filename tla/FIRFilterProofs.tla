--------------------------- MODULE FIRFilterProofs ---------------------------
(***************************************************************************)
(* What holds of FIRFilter for every filter length, vector width and set   *)
(* of samples.                                                             *)
(***************************************************************************)
EXTENDS FIRFilter, WellFoundedInduction, TLAPS

\* The padded length exceeds the length by 1 up to a full vector.
LEMMA PaddedLengthBounds ==
  /\ PaddedLength \in Int
  /\ PaddedLength > Length
  /\ PaddedLength <= Length + NumVec
  /\ Length % NumVec \in 0 .. NumVec - 1
BY FIRFilterAssumption DEF PaddedLength

\* Every slot the ring uses lies in the buffer.
LEMMA SlotsFacts ==
  /\ SignalLength \in Int
  /\ SignalLength > 2 * Length
  /\ 0 .. 2 * Length - 1 \subseteq Slots
BY PaddedLengthBounds, FIRFilterAssumption DEF SignalLength, Slots

\* The value written by a put: a buffer of samples again.
LEMMA WrittenType ==
  ASSUME TypeOK, NEW x \in Samples
  PROVE  /\ Written(x) \in [Slots -> Samples]
         /\ NextIndex \in 0 .. Length - 1
<1> USE FIRFilterAssumption, SlotsFacts DEF TypeOK
<1>1. NextIndex \in 0 .. Length - 1
  BY DEF NextIndex
<1>2. ASSUME NEW i \in Slots
      PROVE  i \in Length .. 2 * Length - 1 => i - Length \in Slots
  BY DEF Slots
<1>3. Written(x) \in [Slots -> Samples]
  BY <1>2 DEF Written
<1> QED BY <1>1, <1>3

\* After a write the lower half up to the next slot is mirrored above Length.
LEMMA WrittenUpperHalf ==
  ASSUME IInv, NEW x \in Samples
  PROVE  \A j \in 0 .. NextIndex : Written(x)[j + Length] = Written(x)[j]
<1> USE FIRFilterAssumption, SlotsFacts DEF IInv, TypeOK
<1> SUFFICES ASSUME NEW j \in 0 .. NextIndex
             PROVE  Written(x)[j + Length] = Written(x)[j]
  OBVIOUS
<1>1. /\ j \in Slots
      /\ j + Length \in Slots
      /\ j \in Int
  BY DEF Slots, NextIndex
<1>2. CASE currentIndex = 0
  <2>1. Written(x)[j] = IF j = 0 THEN x ELSE signal[j]
    BY <1>1, <1>2 DEF Written, NextIndex
  <2>2. Written(x)[j + Length] = IF j = 0 THEN x ELSE signal[j]
    BY <1>1, <1>2 DEF Written, NextIndex
  <2> QED BY <2>1, <2>2
<1>3. CASE currentIndex # 0
  <2>1. j < currentIndex
    BY <1>3 DEF NextIndex
  <2>2. Written(x)[j] = signal[j]
    BY <1>1, <1>3, <2>1 DEF Written
  <2>3. Written(x)[j + Length] = signal[j + Length]
    BY <1>1, <1>3, <2>1 DEF Written
  <2> QED BY <2>1, <2>2, <2>3 DEF UpperHalf
<1> QED BY <1>2, <1>3

LEMMA InitIInv == InitFIR => IInv
<1> SUFFICES ASSUME InitFIR PROVE IInv
  OBVIOUS
<1> USE FIRFilterAssumption, SlotsFacts DEF InitFIR
<1>1. TypeOK
  BY DEF TypeOK
<1>2. UpperHalf
  BY DEF UpperHalf, Slots
<1> QED BY <1>1, <1>2 DEF IInv

LEMMA StepIInv == IInv /\ [NextFIR]_firVars => IInv'
<1> SUFFICES ASSUME IInv, [NextFIR]_firVars PROVE IInv'
  OBVIOUS
<1> USE FIRFilterAssumption, SlotsFacts
<1>1. ASSUME NEW x \in Samples, signal' = Written(x), currentIndex' = NextIndex,
             lastPut' \in {lastPut, currentIndex}
      PROVE  IInv'
  <2>1. TypeOK'
    BY <1>1, WrittenType DEF IInv, TypeOK
  <2>2. UpperHalf'
    BY <1>1, WrittenUpperHalf DEF UpperHalf
  <2> QED BY <2>1, <2>2 DEF IInv
<1>2. ASSUME NEW x \in Samples, put(x) PROVE IInv'
  BY <1>1, <1>2 DEF put
<1>3. CASE putZero
  BY <1>1, <1>3 DEF putZero
<1>4. CASE reset
  <2>1. \A i \in Slots : i < PaddedLength \/ i \in Length .. Length + PaddedLength - 1
    BY PaddedLengthBounds DEF Slots, SignalLength
  <2>2. signal' = [i \in Slots |-> Zero]
    BY <1>4, <2>1 DEF reset
  <2>3. InitFIR'
    BY <1>4, <2>2 DEF reset, InitFIR
  <2>4. TypeOK'
    BY <2>3 DEF TypeOK, InitFIR
  <2>5. UpperHalf'
    BY <2>3 DEF UpperHalf, InitFIR, Slots
  <2> QED BY <2>4, <2>5 DEF IInv
<1>5. CASE UNCHANGED firVars
  BY <1>5 DEF firVars, IInv, TypeOK, UpperHalf
<1> QED BY <1>2, <1>3, <1>4, <1>5 DEF NextFIR

\* The ring buffer keeps its indices in the lower half and the upper half a copy.
THEOREM RingInvariant == SpecFIR => []IInv
BY InitIInv, StepIInv, PTL DEF SpecFIR

\* The vector loop of get() reads inside the allocated buffer, for every length of
\* the filter, every vector width and every position of the window.
THEOREM ReadsInBounds == SpecFIR => []VectorReadsInBounds
<1>1. IInv => VectorReadsInBounds
  <2> SUFFICES ASSUME IInv, NEW i \in 0 .. PaddedLength - 1
               PROVE  alignedIndex + i \in Slots
    BY DEF VectorReadsInBounds, VectorReads
  <2>1. /\ currentIndex \in 0 .. Length - 1
        /\ phase \in 0 .. NumVec - 1
        /\ phase <= currentIndex
    BY FIRFilterAssumption DEF IInv, TypeOK, phase
  <2> QED
    BY <2>1, PaddedLengthBounds, FIRFilterAssumption
    DEF alignedIndex, Slots, SignalLength
<1> QED BY <1>1, RingInvariant, PTL

\* A write is a shift of the delay line.
LEMMA WriteShifts ==
  ASSUME IInv, IInv', NEW x \in Samples,
         signal' = Written(x), currentIndex' = NextIndex
  PROVE  Line!Shift(x)
<1> USE FIRFilterAssumption, SlotsFacts DEF IInv, TypeOK
<1> DEFINE Age(k) == IF k = Length - 1 THEN signal[currentIndex]
                                       ELSE signal[currentIndex + 1 + k]
           AgeP(k) == IF k = Length - 1 THEN signal'[currentIndex']
                                        ELSE signal'[currentIndex' + 1 + k]
<1>1. ASSUME NEW k \in 0 .. Length - 1
      PROVE  AgeP(k) = IF k = 0 THEN x ELSE Age(k - 1)
  <2>1. CASE currentIndex = 0
    <3>1. currentIndex' = Length - 1
      BY <2>1 DEF NextIndex
    <3>2. AgeP(k) = Written(x)[IF k = Length - 1 THEN Length - 1 ELSE Length + k]
      BY <3>1
    <3>3. ASSUME Length > 1, k # Length - 1
          PROVE  Written(x)[Length + k] = IF k = 0 THEN x ELSE signal[k]
      BY <2>1, <3>3 DEF Written, Slots
    <3>4. Written(x)[Length - 1] = IF Length = 1 THEN x ELSE signal[Length - 1]
      BY <2>1 DEF Written, Slots
    <3>5. k # 0 => Age(k - 1) = signal[k]
      BY <2>1
    <3> QED BY <3>2, <3>3, <3>4, <3>5
  <2>2. CASE currentIndex # 0
    <3>1. currentIndex' = currentIndex - 1
      BY <2>2 DEF NextIndex
    <3>2. AgeP(k) = Written(x)[IF k = Length - 1 THEN currentIndex - 1
                                                 ELSE currentIndex + k]
      BY <3>1
    <3>3. Written(x)[currentIndex - 1] = signal[currentIndex - 1]
      BY <2>2 DEF Written, Slots
    <3>4. signal[currentIndex - 1] = signal[currentIndex - 1 + Length]
      BY <2>2 DEF UpperHalf
    <3>5. Written(x)[currentIndex + k] = IF k = 0 THEN x ELSE signal[currentIndex + k]
      BY <2>2 DEF Written, Slots
    <3>6. CASE k = Length - 1
      <4>1. CASE k = 0
        BY <2>2, <3>6, <4>1
      <4>2. CASE k # 0
        <5>1. Age(k - 1) = signal[currentIndex + k]
          BY <3>6, <4>2
        <5>2. currentIndex - 1 + Length = currentIndex + k
          BY <3>6
        <5> QED BY <3>2, <3>3, <3>4, <3>6, <4>2, <5>1, <5>2
      <4> QED BY <4>1, <4>2
    <3>7. CASE k # Length - 1
      <4>1. k # 0 => Age(k - 1) = signal[currentIndex + k]
        BY <3>7
      <4> QED BY <3>2, <3>5, <3>7, <4>1
    <3> QED BY <3>6, <3>7
  <2> QED BY <2>1, <2>2
<1>2. Window' = [k \in 0 .. Length - 1 |-> AgeP(k)]
  BY DEF Window
<1>3. ASSUME NEW k \in 0 .. Length - 1, k # 0 PROVE Window[k - 1] = Age(k - 1)
  BY <1>3 DEF Window
<1> HIDE DEF Age, AgeP
<1>4. Window' = [k \in 0 .. Length - 1 |-> IF k = 0 THEN x ELSE Window[k - 1]]
  BY <1>1, <1>2, <1>3
<1> QED BY <1>4 DEF Line!Shift

\* The ring buffer implements the delay line: after any sequence of put, putZero and
\* reset the window holds exactly the last Length samples in order.
THEOREM RingIsDelayLine == SpecFIR => ImplementsDelayLine
<1>1. InitFIR => Line!Init
  BY FIRFilterAssumption, SlotsFacts DEF InitFIR, Line!Init, Line!Silence, Window, Slots
<1>2. IInv /\ IInv' /\ [NextFIR]_firVars =>
        [Line!Next]_Window
  <2> SUFFICES ASSUME IInv, IInv', [NextFIR]_firVars
               PROVE  [Line!Next]_Window
    OBVIOUS
  <2>1. ASSUME NEW x \in Samples, put(x) PROVE Line!Next
    BY <2>1, WriteShifts DEF put, Line!Next
  <2>2. CASE putZero
    BY <2>2, WriteShifts, FIRFilterAssumption DEF putZero, Line!Next
  <2>3. CASE reset
    <3>1. \A i \in Slots : i < PaddedLength \/ i \in Length .. Length + PaddedLength - 1
      BY PaddedLengthBounds, FIRFilterAssumption DEF Slots, SignalLength
    <3>2. signal' = [i \in Slots |-> Zero] /\ currentIndex' = Length - 1
      BY <2>3, <3>1 DEF reset
    <3>3. Line!Clear
      BY <3>2, FIRFilterAssumption, SlotsFacts DEF Line!Clear, Line!Silence, Window, Slots
    <3> QED BY <3>3 DEF Line!Next
  <2>4. CASE UNCHANGED firVars
    BY <2>4 DEF firVars, Window
  <2> QED BY <2>1, <2>2, <2>3, <2>4 DEF NextFIR
<1> QED BY <1>1, <1>2, RingInvariant, PTL DEF SpecFIR, ImplementsDelayLine, Line!Spec
-------------------------------------------------------------------------------
(***************************************************************************)
(* What the vector loop of get() computes.                                 *)
(***************************************************************************)
\* Every nonempty set of naturals has a least element, so what holds of 0, and of n + 1
\* when it holds of n, holds of every natural number.
LEMMA LeastNatural ==
  ASSUME NEW T \in SUBSET Nat, T # {}
  PROVE  \E n \in T : \A k \in T : n <= k
<1> DEFINE R == OpToRel(<, Nat)
<1>1. \A x, y \in Nat : <<x, y>> \in R <=> x < y
  BY Zenon DEF OpToRel
<1>2. IsWellFoundedOn(R, Nat)
  BY Zenon, NatLessThanWellFounded
<1> HIDE DEF R
<1>3. PICK x \in T : \A y \in T : ~(<<y, x>> \in R)
  BY <1>2, WFMin
<1>4. \A y \in T : x \in Nat /\ y \in Nat /\ ~(y < x)
  BY <1>1, <1>3
<1> QED
  BY <1>3, <1>4

LEMMA InductiveSet ==
  ASSUME NEW S, 0 \in S, \A n \in Nat : n \in S => n + 1 \in S
  PROVE  Nat \subseteq S
<1> SUFFICES ASSUME Nat \ S # {} PROVE FALSE
  OBVIOUS
<1>1. PICK n \in Nat \ S : \A k \in Nat \ S : n <= k
  BY LeastNatural
<1>2. n - 1 \in Nat /\ n - 1 \notin Nat \ S
  BY <1>1
<1> QED
  BY <1>1, <1>2

\* The kernel of phase n is the taps moved up n places, and n of them are gone.
LEMMA PhaseIsShift ==
  ASSUME NEW n \in 0 .. NumVec - 1, NEW i \in 0 .. PaddedLength - 1
  PROVE  kernelphases[n][i] = IF i >= n /\ i < Length THEN i - n ELSE NoTap
<1> DEFINE D == 0 .. NumVec - 1
           P == 0 .. PaddedLength - 1
           Entry(f, k, j) == IF k = 0 THEN IF j < Length THEN j ELSE NoTap
                             ELSE IF j \in 1 .. Length - 1 THEN f[k - 1][j - 1] ELSE NoTap
           Table(f) == [k \in D |-> [j \in P |-> Entry(f, k, j)]]
           Moved(k, j) == IF j >= k /\ j < Length THEN j - k ELSE NoTap
           shift == [k \in D |-> [j \in P |-> Moved(k, j)]]
<1> USE FIRFilterAssumption, PaddedLengthBounds
<1>1. shift = Table(shift)
  <2> SUFFICES ASSUME NEW k \in D, NEW j \in P PROVE Moved(k, j) = Entry(shift, k, j)
    <3> HIDE DEF Entry, Moved
    <3> QED
      OBVIOUS
  <2>1. CASE k = 0
    BY <2>1
  <2>2. CASE k # 0 /\ j \in 1 .. Length - 1
    <3>1. k - 1 \in D /\ j - 1 \in P
      BY <2>2
    <3>2. shift[k - 1][j - 1] = IF j - 1 >= k - 1 /\ j - 1 < Length THEN (j - 1) - (k - 1) ELSE NoTap
      BY <3>1
    <3>3. shift[k - 1][j - 1] = IF j >= k /\ j < Length THEN j - k ELSE NoTap
      BY <2>2, <3>2
    <3> QED
      BY <2>2, <3>3
  <2>3. CASE k # 0 /\ j \notin 1 .. Length - 1
    BY <2>3
  <2> QED
    BY <2>1, <2>2, <2>3
<1>2. kernelphases = Table(kernelphases)
  BY <1>1 DEF kernelphases
<1> DEFINE S == {k \in Nat : k \in D => \A j \in P : kernelphases[k][j] = shift[k][j]}
<1>3. 0 \in S
  BY <1>1, <1>2
<1>4. ASSUME NEW k \in Nat, k \in S PROVE k + 1 \in S
  <2>1. ASSUME k + 1 \in D, NEW j \in P
        PROVE  kernelphases[k + 1][j] = shift[k + 1][j]
    <3>1. k \in D /\ (k + 1) - 1 = k /\ k + 1 # 0
      BY <2>1
    <3>2. /\ kernelphases[k + 1][j] =
                IF j \in 1 .. Length - 1 THEN kernelphases[k][j - 1] ELSE NoTap
          /\ shift[k + 1][j] = IF j \in 1 .. Length - 1 THEN shift[k][j - 1] ELSE NoTap
      BY <1>1, <1>2, <2>1, <3>1
    <3>3. j \in 1 .. Length - 1 => kernelphases[k][j - 1] = shift[k][j - 1]
      BY <1>4, <3>1
    <3> QED
      BY <3>2, <3>3
  <2>2. k + 1 \in Nat
    OBVIOUS
  <2> HIDE DEF D, P, shift
  <2> QED
    BY <2>1, <2>2
<1>5. n \in S
  <2> HIDE DEF S
  <2> QED
    BY <1>3, <1>4, InductiveSet
<1> QED
  BY <1>5

\* Why the products are those of the scalar loop: an aligned load starts as many slots
\* early as the kernel is shifted.
LEMMA ShiftDropsTail ==
  ASSUME IInv
  PROVE  VectorDropsTail
<1> USE FIRFilterAssumption, PaddedLengthBounds
<1>1. /\ currentIndex \in 0 .. Length - 1
      /\ phase \in 0 .. NumVec - 1
  BY DEF IInv, TypeOK, phase
<1>2. ASSUME NEW i \in 0 .. PaddedLength - 1
      PROVE  kernelphases[phase][i] = IF i >= phase /\ i < Length THEN i - phase ELSE NoTap
  BY <1>1, PhaseIsShift
<1> DEFINE taps == {j \in 0 .. PaddedLength - 1 : kernelphases[phase][j] # NoTap}
<1>3. taps = {j \in 0 .. PaddedLength - 1 : j >= phase /\ j < Length}
  BY <1>1, <1>2 DEF NoTap
<1>4. \A i \in taps : /\ i - phase \in 0 .. Length - 1 /\ i - phase < Length - phase
                      /\ kernelphases[phase][i] = i - phase
                      /\ alignedIndex + i = currentIndex + (i - phase)
  BY <1>1, <1>2, <1>3 DEF alignedIndex
<1>5. \A j \in 0 .. Length - 1 : j < Length - phase =>
         j + phase \in taps /\ (j + phase) - phase = j
  BY <1>1, <1>3
<1> HIDE DEF taps
<1>6. VectorGet = {<<kernelphases[phase][i], signal[alignedIndex + i]>> : i \in taps}
  BY DEF VectorGet, taps
<1>7. ASSUME NEW i \in taps
      PROVE  <<kernelphases[phase][i], signal[alignedIndex + i]>> \in
               {p \in ScalarGet : p[1] < Length - phase}
  <2>1. <<i - phase, signal[currentIndex + (i - phase)]>> \in ScalarGet
    BY <1>4 DEF ScalarGet
  <2> QED
    BY <1>4, <2>1
<1>8. ASSUME NEW j \in 0 .. Length - 1, j < Length - phase
      PROVE  <<j, signal[currentIndex + j]>> \in VectorGet
  <2>1. j + phase \in taps /\ (j + phase) - phase = j
    BY <1>5, <1>8
  <2>2. kernelphases[phase][j + phase] = j /\ alignedIndex + (j + phase) = currentIndex + j
    BY <1>4, <2>1
  <2> QED
    BY <1>6, <2>1, <2>2
<1>9. VectorGet \subseteq {p \in ScalarGet : p[1] < Length - phase}
  BY <1>6, <1>7
<1>10. {p \in ScalarGet : p[1] < Length - phase} \subseteq VectorGet
  BY <1>8 DEF ScalarGet
<1> QED
  BY <1>9, <1>10 DEF VectorDropsTail

\* In a vector build of any width get() computes the products of the scalar loop, all
\* but the last ones that the shifted kernel has no room for.
THEOREM ShiftedKernelsDropTail == SpecFIR => []VectorDropsTail
BY ShiftDropsTail, RingInvariant, PTL
===============================================================================

------------------------------ MODULE FIRFilter ------------------------------
(***************************************************************************)
(* FIRFilter of FIRFilter.h, built with WRAP_WITH_MEMCPY as the header     *)
(* does: samples are written downwards into the lower half of a buffer of  *)
(* twice the filter's length (and the padding of the vector loops), and    *)
(* the lower half is copied over the upper one when the index wraps, so    *)
(* that a window of Length consecutive samples is always contiguous.       *)
(*                                                                         *)
(* get() is modelled by which tap it multiplies with which sample: a set   *)
(* of pairs <<tap, sample>>, one for each product it adds up.              *)
(***************************************************************************)
EXTENDS Integers, FiniteSets

CONSTANTS
  Length,    \* length: the number of taps
  NumVec,    \* numVecElements: samples per vector register (1: the scalar build)
  Samples, Zero

ASSUME FIRFilterAssumption ==
  /\ Length \in Nat \ {0}
  /\ NumVec \in Nat \ {0}
  /\ Zero \in Samples

VARIABLES
  signal,        \* the signal buffer
  currentIndex,  \* the slot the next sample is written to
  lastPut        \* the slot of the last sample that is not a stuffed zero

firVars == <<signal, currentIndex, lastPut>>

\* calcPaddedLength: (length & alignMask) + numVecElements.
PaddedLength == Length - (Length % NumVec) + NumVec

\* Mutant: no room for the padding in the signal buffer.
SignalLengthUnpadded == 2 * Length

\* allocateBuffers: the number of samples the signal buffer is allocated for.
SignalLength == PaddedLength + Length

Slots == 0 .. SignalLength - 1

InitFIR ==
  /\ signal = [i \in Slots |-> Zero]
  /\ currentIndex = Length - 1
  /\ lastPut = 0
-------------------------------------------------------------------------------
\* Mutant: the lower half is copied before the new sample is written to it.
WrittenCopyFirst(x) ==
  [i \in Slots |->
     IF i = currentIndex THEN x
     ELSE IF currentIndex = 0 /\ i \in Length .. 2 * Length - 1
       THEN signal[i - Length]
     ELSE signal[i]]

\* Writing into the lower half: the slot, and on a wrap the copy to the upper half.
Written(x) ==
  [i \in Slots |->
     IF i = currentIndex THEN x
     ELSE IF currentIndex = 0 /\ i \in Length .. 2 * Length - 1
       THEN IF i = Length THEN x ELSE signal[i - Length]
     ELSE signal[i]]

NextIndex == IF currentIndex = 0 THEN Length - 1 ELSE currentIndex - 1

put(x) ==
  /\ signal' = Written(x)
  /\ currentIndex' = NextIndex
  /\ lastPut' = currentIndex

putZero ==
  /\ signal' = Written(Zero)
  /\ currentIndex' = NextIndex
  /\ UNCHANGED lastPut

reset ==
  /\ signal' = [i \in Slots |->
                  IF i < PaddedLength \/ i \in Length .. Length + PaddedLength - 1
                    THEN Zero ELSE signal[i]]
  /\ currentIndex' = Length - 1
  /\ lastPut' = 0

NextFIR ==
  \/ \E x \in Samples : put(x)
  \/ putZero
  \/ reset

SpecFIR == InitFIR /\ [][NextFIR]_firVars
-------------------------------------------------------------------------------
(***************************************************************************)
(* Reading.                                                                *)
(***************************************************************************)
NoTap == -1

\* The constructor's kernel table: phase 0 is the taps, and each further phase is
\* the one before moved up one place by a memcpy of length - 1 elements.
kernelphases[n \in 0 .. NumVec - 1] ==
  [i \in 0 .. PaddedLength - 1 |->
     IF n = 0
       THEN IF i < Length THEN i ELSE NoTap
       ELSE IF i \in 1 .. Length - 1 THEN kernelphases[n - 1][i - 1] ELSE NoTap]

phase == currentIndex % NumVec

\* Mutant: the loads start at the index itself.
alignedIndexUnaligned == currentIndex

alignedIndex == currentIndex - phase

\* The slots the vector loop of get() loads.
VectorReads == {alignedIndex + i : i \in 0 .. PaddedLength - 1}

\* get() in a vector build: numVecElements products at a time.
VectorGet ==
  {<<kernelphases[phase][i], signal[alignedIndex + i]>> :
     i \in {j \in 0 .. PaddedLength - 1 : kernelphases[phase][j] # NoTap}}

\* get() in a scalar build.
ScalarGet == {<<i, signal[currentIndex + i]>> : i \in 0 .. Length - 1}

\* The offset lazyGet starts from.
LazyOffset == (lastPut - currentIndex) + IF lastPut < currentIndex THEN Length ELSE 0

\* lazyGet(L): one product in L, from the last sample that was not stuffed.
LazyGet(L) ==
  {<<i, signal[i + currentIndex]>> :
     i \in {j \in 0 .. Length - 1 : j >= LazyOffset /\ (j - LazyOffset) % L = 0}}
-------------------------------------------------------------------------------
(***************************************************************************)
(* Properties.                                                             *)
(***************************************************************************)
\* The buffer holds samples and the indices stay in its lower half.
TypeOK ==
  /\ signal \in [Slots -> Samples]
  /\ currentIndex \in 0 .. Length - 1
  /\ lastPut \in 0 .. Length - 1

\* The lower half up to the next slot to be written is still the copy that the last
\* wrap made of it: what the window reads above Length is what it would read below.
UpperHalf == \A j \in 0 .. currentIndex : signal[j + Length] = signal[j]

IInv == TypeOK /\ UpperHalf

\* The window a get() reads lies inside the buffer, whatever the alignment of its
\* start: the loads of the vector loop never leave what allocateBuffers allocated.
VectorReadsInBounds == VectorReads \subseteq Slots

\* The memory read through the window of the filter is a delay line.  The window
\* starts at the slot to be written next, which holds the oldest sample, so tap 0
\* meets the oldest sample and tap i > 0 the sample put i - 1 puts ago.
Window ==
  [k \in 0 .. Length - 1 |->
     IF k = Length - 1 THEN signal[currentIndex] ELSE signal[currentIndex + 1 + k]]

Line == INSTANCE DelayLine WITH age <- Window

ImplementsDelayLine == Line!Spec

\* "Vectorise main loop in FIRFilter::get()": what the vector loop computes is the
\* products of the scalar loop, without those of the last taps that the shifted kernel
\* has no room for (as many as the phase).
VectorDropsTail ==
  VectorGet = {p \in ScalarGet : p[1] < Length - phase}
===============================================================================

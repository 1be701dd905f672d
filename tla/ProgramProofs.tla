---------------------------- MODULE ProgramProofs ----------------------------
(***************************************************************************)
(* Theorems about the passes of convert(), and about runCommand(), which   *)
(* calls it.                                                               *)
(***************************************************************************)
EXTENDS Program, SequenceTheorems, FiniteSetTheorems, WellFoundedInduction, TLAPS

(***************************************************************************)
(* The passes of convert(): every repetition starts from converters and    *)
(* ditherers without a history, the output file was written as often as it *)
(* should have been, and what it has as a whole does not clip when convert *)
(* returns: without dither one repetition is enough, with dither only the  *)
(* attempts can run out.                                                   *)
(***************************************************************************)
\* Before the last decision there is an attempt left.
AttemptLeft ==
  pc \notin {"returned", "failed", "thrown", "killed"} =>
    clippingProtectionAttempts < MaxAttempts

\* The options are the constants' and stay as they are.
OptionsOK ==
  /\ signal \in Nat /\ initialGain \in Nat /\ effect \in Nat
  /\ bDither \in BOOLEAN /\ disableClippingProtection \in BOOLEAN
  /\ outputKind \in OutputKinds

\* There is a temporary file to write again.
RewritesTmpFile == pc = "rewrite" => bTmpFile

\* A temporary file that is to be read has been written.
TmpFileThere ==
  /\ RewritesTmpFile
  /\ bTmpFile /\ pc \in {"convert", "test", "rewrite", "decide"} => tmpFile \in Nat

\* What a file may have: peaks of conversions, whole or not.
Conversions == Nat \cup {Partial}

\* What the passes work with.
Numbers ==
  /\ signal \in Nat /\ effect \in Nat /\ gain \in Nat
  /\ peakOutputSample \in Nat /\ clippingProtectionAttempts \in Nat
  /\ tmpFile \in Nat \cup {NoFile} /\ tmpCut \in BOOLEAN /\ csvErr \in BOOLEAN
  /\ outFile \in Seq(Conversions)
  /\ TmpFileThere

TypeInv == TypeOK /\ OptionsOK /\ AttemptLeft /\ TmpFileThere

\* Where the code is about to convert, to write, or to repeat.
FreshInv ==
  /\ FreshStart
  /\ pc = "decide" /\ ~bTmpFile /\ ~disableClippingProtection /\ Clipping
       => converters = "fresh" /\ ditherers = "fresh"
  /\ pc = "test" /\ bTmpFile
       => ditherers = "fresh" \/ (Clipping /\ ~disableClippingProtection)

\* How often the output file has been written on the way: behind what is there, where it
\* is never rewound.
OnceInv ==
  /\ bTmpFile /\ pc \in {"open", "convert"} => clippingProtectionAttempts = 0
  /\ ~csvErr =>
       /\ pc = "convert" => Len(outFile) = 0
       /\ pc = "test" /\ ~bTmpFile => Len(outFile) = 1
       /\ pc \in {"test", "rewrite"} /\ NeverRewound => Len(outFile) = clippingProtectionAttempts
       /\ pc = "decide" => Len(outFile) = IF NeverRewound THEN clippingProtectionAttempts + 1 ELSE 1
       /\ pc = "returned" => Len(outFile) = IF NeverRewound THEN TimesWritten ELSE 1
-------------------------------------------------------------------------------
\* A quotient of natural numbers is one.
LEMMA DivNat ==
  ASSUME NEW a \in Nat, NEW b \in Nat \ {0}
  PROVE  a \div b \in Nat
OBVIOUS

LEMMA ProductNat ==
  ASSUME NEW a \in Nat, NEW b \in Nat
  PROVE  a * b \in Nat
OBVIOUS

LEMMA CeilDivNat ==
  ASSUME NEW a \in Nat, NEW b \in Nat \ {0}
  PROVE  CeilDiv(a, b) \in Nat
<1>1. a + b - 1 \in Nat
  OBVIOUS
<1> QED
  BY <1>1, DivNat DEF CeilDiv

LEMMA AmplifiedNat ==
  ASSUME NEW peak \in Nat, gain \in Nat
  PROVE  Amplified(peak) \in Nat
<1>1. peak * gain \in Nat
  BY ProductNat
<1> QED
  BY <1>1, CeilDivNat, ConvertAssumption DEF Amplified

LEMMA LastOfAppend ==
  ASSUME NEW T, NEW s \in Seq(T), NEW x \in T
  PROVE  /\ Append(s, x) \in Seq(T) /\ Len(Append(s, x)) = Len(s) + 1
         /\ Append(s, x) # <<>> /\ Last(Append(s, x)) = x
BY DEF Last

\* What becomes of the temporary file, whole or cut short.
LEMMA TmpWritten ==
  ASSUME NEW peak \in Nat, WriteTmp(peak)
  PROVE  /\ tmpFile' \in Nat /\ tmpFile' <= peak
         /\ \/ tmpFile' = peak /\ tmpCut' = tmpCut
            \/ tmpCut' = TRUE
<1>1. CASE tmpFile' = peak /\ UNCHANGED tmpCut
  BY <1>1
<1>2. CASE tmpFile' \in {p \in CutPeaks : p <= peak} /\ tmpCut' = TRUE
  BY <1>2, ConvertAssumption
<1> QED
  BY <1>1, <1>2 DEF WriteTmp

\* What becomes of the output.
LEMMA OutWritten ==
  ASSUME NEW contents \in Seq(Conversions), NEW peak \in Nat, outFile \in Seq(Conversions),
         WriteOut(contents, peak)
  PROVE  /\ outFile' \in Seq(Conversions)
         /\ csvErr => outFile' = outFile
         /\ ~csvErr => /\ Len(outFile') = Len(contents) + 1
                       /\ outFile' # <<>> /\ Last(outFile') \in {peak, Partial}
                       /\ tmpCut => Last(outFile') = Partial
                       /\ ~tmpCut /\ outputKind = "csv" => outFile' = Append(contents, peak)
<1>1. PICK held \in Held(peak) : outFile' = IF csvErr THEN outFile ELSE Append(contents, held)
  BY DEF WriteOut
<1>2. /\ held \in {peak, Partial} /\ held \in Conversions
      /\ tmpCut => held = Partial
      /\ ~tmpCut /\ outputKind = "csv" => held = peak
  BY DEF Held, Conversions
<1>3. CASE csvErr
  BY <1>1, <1>3
<1>4. CASE ~csvErr
  <2>1. outFile' = Append(contents, held)
    BY <1>1, <1>4
  <2> HIDE DEF Conversions
  <2>2. /\ Append(contents, held) \in Seq(Conversions)
        /\ Len(Append(contents, held)) = Len(contents) + 1
        /\ Append(contents, held) # <<>> /\ Last(Append(contents, held)) = held
    BY <1>2, LastOfAppend
  <2> QED
    BY <1>2, <1>4, <2>1, <2>2
<1> QED
  BY <1>3, <1>4

\* A conversion, by the peaks that it makes.
LEMMA ConversionIs ==
  ASSUME Numbers, ConvertAll
  PROVE  \E noise \in Noise(bDither /\ ~bTmpFile) :
           LET peak == Amplified(signal) + noise
               written == CeilDiv(peak * effect, 100)
           IN /\ peak \in Nat /\ written \in Nat
              /\ peakOutputSample' = peak
              /\ bTmpFile => WriteTmp(written) /\ UNCHANGED outFile
              /\ ~bTmpFile => WriteOut(outFile, written) /\ UNCHANGED <<tmpFile, tmpCut>>
<1>1. PICK noise \in Noise(bDither /\ ~bTmpFile) :
        LET peak == Amplified(signal) + noise
            written == CeilDiv(peak * effect, 100)
        IN /\ peakOutputSample' = peak
           /\ IF bTmpFile THEN WriteTmp(written) /\ UNCHANGED outFile
                          ELSE WriteOut(outFile, written) /\ UNCHANGED <<tmpFile, tmpCut>>
  BY DEF ConvertAll
<1> DEFINE peak == Amplified(signal) + noise
           a == peak * effect
<1>2. peak \in Nat
  <2>1. Amplified(signal) \in Nat
    BY AmplifiedNat DEF Numbers
  <2>2. noise \in Nat
    BY ConvertAssumption DEF Noise
  <2> QED
    BY <2>1, <2>2
<1>3. CeilDiv(a, 100) \in Nat
  <2>1. a \in Nat
    BY <1>2, ProductNat DEF Numbers
  <2> HIDE DEF a
  <2> QED
    BY <2>1, CeilDivNat
<1> QED
  BY <1>1, <1>2, <1>3

\* A rewrite, by the peak that it makes.
LEMMA RewriteIs ==
  ASSUME Numbers, Rewrite
  PROVE  \E noise \in Noise(bDither) :
           LET peak == Amplified(tmpFile) + noise
           IN /\ peak \in Nat
              /\ peakOutputSample' = peak
              /\ WriteOut(Rewound, peak)
              /\ Rewound \in Seq(Conversions) /\ bTmpFile
<1>1. PICK noise \in Noise(bDither) :
        LET peak == Amplified(tmpFile) + noise
        IN peakOutputSample' = peak /\ WriteOut(Rewound, peak)
  BY DEF Rewrite
<1>2. bTmpFile /\ tmpFile \in Nat /\ gain \in Nat
  BY DEF Rewrite, Numbers, TmpFileThere, RewritesTmpFile
<1>3. Amplified(tmpFile) + noise \in Nat
  <2>1. Amplified(tmpFile) \in Nat
    BY <1>2, AmplifiedNat
  <2>2. noise \in Nat
    BY ConvertAssumption DEF Noise
  <2> QED
    BY <2>1, <2>2
<1>4. Rewound \in Seq(Conversions)
  BY DEF Rewound, Numbers
<1> QED
  BY <1>1, <1>2, <1>3, <1>4
-------------------------------------------------------------------------------
LEMMA NumbersStep ==
  ASSUME Numbers, [Next]_vars
  PROVE  Numbers'
<1> USE DEF Numbers, TmpFileThere, RewritesTmpFile
<1>0. <<>> \in Seq(Conversions) /\ Partial \in Conversions
  BY DEF Conversions
<1>1. CASE OpenFails
  BY <1>1 DEF OpenFails, options, files
<1>2. CASE Open
  <2>1. csvErr' \in BOOLEAN /\ outFile' \in Seq(Conversions)
    BY <1>0, <1>2 DEF Open
  <2>2. tmpFile' \in Nat \cup {NoFile} /\ (bTmpFile' => tmpFile' \in Nat)
    BY <1>2 DEF Open
  <2> QED
    BY <1>2, <2>1, <2>2 DEF Open, options
<1>3. CASE ConvertAll
  <2>1. PICK noise \in Noise(bDither /\ ~bTmpFile) :
           LET peak == Amplified(signal) + noise
               written == CeilDiv(peak * effect, 100)
           IN /\ peak \in Nat /\ written \in Nat
              /\ peakOutputSample' = peak
              /\ bTmpFile => WriteTmp(written) /\ UNCHANGED outFile
              /\ ~bTmpFile => WriteOut(outFile, written) /\ UNCHANGED <<tmpFile, tmpCut>>
    BY <1>3, ConversionIs
  <2> DEFINE peak == Amplified(signal) + noise
             written == CeilDiv(peak * effect, 100)
  <2>2. /\ peak \in Nat /\ written \in Nat
        /\ peakOutputSample' = peak
        /\ bTmpFile => WriteTmp(written) /\ UNCHANGED outFile
        /\ ~bTmpFile => WriteOut(outFile, written) /\ UNCHANGED <<tmpFile, tmpCut>>
    BY <2>1
  <2> HIDE DEF peak, written
  <2>3. outFile' \in Seq(Conversions)
    BY <2>2, OutWritten
  <2>4. tmpFile' \in Nat \cup {NoFile} /\ tmpCut' \in BOOLEAN /\ (bTmpFile => tmpFile' \in Nat)
    BY <2>2, TmpWritten
  <2>5. gain' \in Nat
    BY <1>3, ConvertAssumption DEF ConvertAll, GainAfterConvert
  <2> QED
    BY <1>3, <2>2, <2>3, <2>4, <2>5 DEF ConvertAll, options
<1>4. CASE TestForClipping
  <2>1. gain' \in Nat
    <3>1. CASE ~disableClippingProtection /\ Clipping
      <4>1. gain * Limit \in Nat
        BY ConvertAssumption, ProductNat
      <4>2. peakOutputSample \in Nat \ {0}
        BY <3>1, ConvertAssumption DEF Clipping
      <4>3. (gain * Limit) \div peakOutputSample \in Nat
        BY <4>1, <4>2, DivNat
      <4> QED
        BY <4>3, <3>1, <1>4 DEF TestForClipping, AdjustGain
    <3>2. CASE ~(~disableClippingProtection /\ Clipping)
      BY <3>2, <1>4 DEF TestForClipping
    <3> QED
      BY <3>1, <3>2
  <2> QED
    BY <1>4, <2>1 DEF TestForClipping, options, files
<1>5. CASE Rewrite
  <2>1. peakOutputSample' \in Nat /\ outFile' \in Seq(Conversions)
    BY <1>5, RewriteIs, OutWritten
  <2> QED
    BY <1>5, <2>1 DEF Rewrite, options
<1>6. CASE Decide
  <2>1. clippingProtectionAttempts' \in Nat
    BY <1>6 DEF Decide, CountAttempt
  <2> QED
    BY <1>6, <2>1 DEF Decide, options, files
<1>7. CASE CsvThrows
  <2>1. outFile' \in Seq(Conversions)
    BY <1>0, <1>7, LastOfAppend DEF CsvThrows
  <2> QED
    BY <1>7, <2>1 DEF CsvThrows, options
<1>8. CASE CsvCloseThrows
  <2>1. clippingProtectionAttempts' \in Nat
    BY <1>8 DEF CsvCloseThrows, CountAttempt
  <2>2. Front(outFile) \in Seq(Conversions)
    BY DEF Front
  <2>3. outFile' \in Seq(Conversions)
    BY <1>0, <1>8, <2>2, LastOfAppend DEF CsvCloseThrows
  <2> QED
    BY <1>8, <2>1, <2>3 DEF CsvCloseThrows, options
<1>9. CASE UNCHANGED vars
  BY <1>9 DEF vars, options, files
<1> QED
  BY <1>1, <1>2, <1>3, <1>4, <1>5, <1>6, <1>7, <1>8, <1>9 DEF Next

LEMMA TypedNumbers == TypeInv => Numbers
BY ConvertAssumption DEF TypeInv, TypeOK, OptionsOK, Numbers, Conversions

LEMMA TypeInit == Init => TypeInv
<1> SUFFICES ASSUME Init PROVE TypeInv
  OBVIOUS
<1>1. outFile \in Seq(Nat \cup {Partial}) /\ gain \in Nat
  BY ConvertAssumption DEF Init
<1>2. TypeOK
  <2>1. 0 \in 0 .. MaxAttempts
    BY ConvertAssumption
  <2>2. /\ bTmpFile \in BOOLEAN /\ pc \in Places
        /\ peakOutputSample \in Nat
        /\ converters \in {"fresh", "used"} /\ ditherers \in {"fresh", "used"}
        /\ tmpFile \in Nat \cup {NoFile} /\ tmpCut \in BOOLEAN /\ csvErr \in BOOLEAN
    BY DEF Init, Places
  <2>3. clippingProtectionAttempts \in 0 .. MaxAttempts
    BY <2>1 DEF Init
  <2> QED
    BY <1>1, <2>2, <2>3 DEF TypeOK
<1>3. OptionsOK /\ AttemptLeft /\ TmpFileThere
  BY ConvertAssumption DEF Init, OptionsOK, AttemptLeft, TmpFileThere, RewritesTmpFile
<1> QED
  BY <1>2, <1>3 DEF TypeInv

LEMMA TypeStep ==
  ASSUME TypeInv, [Next]_vars
  PROVE  TypeInv'
<1>0. Numbers'
  BY TypedNumbers, NumbersStep
<1>a. UNCHANGED options
  BY DEF Next, vars, OpenFails, Open, ConvertAll, TestForClipping, Rewrite, Decide, CsvThrows,
         CsvCloseThrows
<1>b. OptionsOK'
  BY <1>a DEF options, OptionsOK, TypeInv
<1> DEFINE Rest == /\ bTmpFile \in BOOLEAN /\ pc \in Places
                   /\ converters \in {"fresh", "used"} /\ ditherers \in {"fresh", "used"}
                   /\ clippingProtectionAttempts \in 0 .. MaxAttempts
                   /\ AttemptLeft
<1>c. Rest
  BY DEF TypeInv, TypeOK
<1> USE DEF AttemptLeft, Places
<1>1. ASSUME OpenFails PROVE Rest'
  BY <1>c, <1>1 DEF OpenFails
<1>2. ASSUME Open PROVE Rest'
  BY <1>c, <1>2 DEF Open
<1>3. ASSUME ConvertAll PROVE Rest'
  BY <1>c, <1>3 DEF ConvertAll
<1>4. ASSUME TestForClipping PROVE Rest'
  BY <1>c, <1>4 DEF TestForClipping, Reset
<1>5. ASSUME Rewrite PROVE Rest'
  BY <1>c, <1>5 DEF Rewrite
<1>6. ASSUME Decide PROVE Rest'
  <2>1. clippingProtectionAttempts' \in 0 .. MaxAttempts
    BY <1>c, <1>6, ConvertAssumption DEF Decide, CountAttempt
  <2>2. pc' \in {"test", "open", "returned"}
    BY <1>6 DEF Decide
  <2>3. pc' # "returned" => clippingProtectionAttempts' < MaxAttempts
    BY <1>6 DEF Decide, Again
  <2> QED
    BY <1>c, <1>6, <2>1, <2>2, <2>3 DEF Decide
<1>7. ASSUME CsvThrows PROVE Rest'
  BY <1>c, <1>7 DEF CsvThrows
<1>8. ASSUME CsvCloseThrows PROVE Rest'
  <2>1. clippingProtectionAttempts' \in 0 .. MaxAttempts
    BY <1>c, <1>8, ConvertAssumption DEF CsvCloseThrows, CountAttempt
  <2> QED
    BY <1>c, <1>8, <2>1 DEF CsvCloseThrows
<1>9. ASSUME UNCHANGED vars PROVE Rest'
  BY <1>c, <1>9 DEF vars
<1>10. Rest'
  BY <1>1, <1>2, <1>3, <1>4, <1>5, <1>6, <1>7, <1>8, <1>9 DEF Next
<1> QED
  BY <1>0, <1>b, <1>10 DEF TypeInv, TypeOK, Numbers, Conversions

\* Each conversion, and each repetition of one, works with states of the program's
\* variables in their domains.
THEOREM TypeCorrect == Spec => []TypeOK
<1>1. TypeInv /\ [Next]_vars => TypeInv'
  BY TypeStep
<1>2. TypeInv => TypeOK
  BY DEF TypeInv
<1> QED
  BY TypeInit, <1>1, <1>2, PTL DEF Spec
-------------------------------------------------------------------------------
LEMMA FreshStep ==
  ASSUME RewritesTmpFile, FreshInv, [Next]_vars
  PROVE  FreshInv'
<1> USE DEF FreshInv, FreshStart
<1>1. CASE OpenFails
  BY <1>1 DEF OpenFails
<1>2. CASE Open
  BY <1>2 DEF Open
<1>3. CASE ConvertAll
  BY <1>3 DEF ConvertAll
<1>4. CASE TestForClipping
  <2>1. CASE ~disableClippingProtection /\ Clipping
    BY <1>4, <2>1 DEF TestForClipping, Reset
  <2>2. CASE ~(~disableClippingProtection /\ Clipping)
    <3>1. ~(~disableClippingProtection' /\ Clipping')
      BY <1>4, <2>2 DEF TestForClipping, Clipping, options
    <3> QED
      BY <1>4, <2>2, <3>1 DEF TestForClipping
  <2> QED
    BY <2>1, <2>2
<1>5. CASE Rewrite
  <2>1. bTmpFile
    BY <1>5 DEF Rewrite, RewritesTmpFile
  <2> QED
    BY <1>5, <2>1 DEF Rewrite
<1>6. CASE Decide
  <2>1. CASE Again /\ bTmpFile
    <3>1. pc' = "test" /\ Clipping' /\ ~disableClippingProtection'
      BY <1>6, <2>1 DEF Decide, Again, Clipping, options
    <3> QED
      BY <3>1
  <2>2. CASE Again /\ ~bTmpFile
    <3>1. pc = "decide" /\ ~disableClippingProtection /\ Clipping
      BY <1>6, <2>2 DEF Decide, Again
    <3>2. converters = "fresh" /\ ditherers = "fresh"
      BY <2>2, <3>1
    <3>3. pc' = "open" /\ UNCHANGED <<converters, ditherers>>
      BY <1>6, <2>2 DEF Decide
    <3> QED
      BY <3>2, <3>3
  <2>3. CASE ~Again
    BY <1>6, <2>3 DEF Decide
  <2> QED
    BY <2>1, <2>2, <2>3
<1>7. CASE CsvThrows
  BY <1>7 DEF CsvThrows
<1>8. CASE CsvCloseThrows
  BY <1>8 DEF CsvCloseThrows
<1>9. CASE UNCHANGED vars
  BY <1>9 DEF vars, options, Clipping
<1> QED
  BY <1>1, <1>2, <1>3, <1>4, <1>5, <1>6, <1>7, <1>8, <1>9 DEF Next

\* Whatever the gains, the limit and the files are: no conversion starts with the
\* filter memory, the decimation indices or the dither state of an earlier one.
THEOREM EveryPassStartsFresh == Spec => []FreshStart
<1>1. Init => FreshInv
  BY DEF Init, FreshInv, FreshStart
<1>2. TypeInv /\ FreshInv /\ [Next]_vars => FreshInv'
  BY FreshStep DEF TypeInv, TmpFileThere
<1>3. TypeInv /\ [Next]_vars => TypeInv'
  BY TypeStep
<1>4. FreshInv => FreshStart
  BY DEF FreshInv
<1> QED
  BY TypeInit, <1>1, <1>2, <1>3, <1>4, PTL DEF Spec
-------------------------------------------------------------------------------
LEMMA OnceStep ==
  ASSUME Numbers, OnceInv, [Next]_vars
  PROVE  OnceInv'
<1> USE DEF OnceInv, NeverRewound
<1>1. CASE OpenFails
  BY <1>1 DEF OpenFails, options, files
<1>2. CASE Open
  BY <1>2 DEF Open, options
<1>3. CASE ConvertAll
  <2>1. /\ pc = "convert" /\ pc' = "test" /\ bTmpFile' = bTmpFile /\ csvErr' = csvErr
        /\ clippingProtectionAttempts' = clippingProtectionAttempts
        /\ outputKind' = outputKind
    BY <1>3 DEF ConvertAll, options
  <2>2. bTmpFile => outFile' = outFile
    BY <1>3 DEF ConvertAll
  <2>3. ~bTmpFile /\ ~csvErr => Len(outFile') = Len(outFile) + 1
    BY <1>3, ConversionIs, OutWritten DEF Numbers
  <2>4. ~csvErr => Len(outFile) = 0
    BY <2>1
  <2>5. CASE bTmpFile
    BY <2>1, <2>2, <2>4, <2>5
  <2>6. CASE ~bTmpFile
    <3>1. ~csvErr => Len(outFile') = 1
      BY <2>3, <2>4, <2>6
    <3>2. ~NeverRewound' /\ ~bTmpFile'
      BY <2>1, <2>6
    <3> QED
      BY <2>1, <3>1, <3>2
  <2> QED
    BY <2>5, <2>6
<1>4. CASE TestForClipping
  BY <1>4 DEF TestForClipping, options, files
<1>5. CASE Rewrite
  <2>1. /\ pc = "rewrite" /\ pc' = "decide" /\ bTmpFile' = bTmpFile /\ csvErr' = csvErr
        /\ clippingProtectionAttempts' = clippingProtectionAttempts
        /\ outputKind' = outputKind /\ bTmpFile
    BY <1>5 DEF Rewrite, RewritesTmpFile, TmpFileThere, Numbers, options
  <2>2. ~csvErr => Len(outFile') = Len(Rewound) + 1
    BY <1>5, RewriteIs, OutWritten DEF Numbers
  <2>3. Rewound = IF NeverRewound THEN outFile ELSE <<>>
    BY <2>1 DEF Rewound
  <2>4. Len(<<>>) = 0
    OBVIOUS
  <2> QED
    BY <2>1, <2>2, <2>3, <2>4
<1>6. CASE Decide
  <2>1. /\ pc = "decide" /\ UNCHANGED <<bTmpFile, options, files>>
        /\ clippingProtectionAttempts' = clippingProtectionAttempts + IF Clipping THEN 1 ELSE 0
        /\ Clipping' = Clipping
        /\ pc' = IF Again THEN IF bTmpFile THEN "test" ELSE "open" ELSE "returned"
        /\ Again => Clipping
    BY <1>6 DEF Decide, CountAttempt, Clipping, Again
  <2>2. outFile' = outFile /\ csvErr' = csvErr /\ outputKind' = outputKind
        /\ bTmpFile' = bTmpFile /\ clippingProtectionAttempts \in Nat
    BY <2>1 DEF options, files, Numbers
  <2>3. ~csvErr => Len(outFile) = IF NeverRewound THEN clippingProtectionAttempts + 1 ELSE 1
    BY <2>1
  <2>4. CASE Again
    BY <2>1, <2>2, <2>3, <2>4
  <2>5. CASE ~Again
    BY <2>1, <2>2, <2>3, <2>5 DEF TimesWritten
  <2> QED
    BY <2>4, <2>5
<1>7. CASE CsvThrows
  BY <1>7 DEF CsvThrows
<1>8. CASE CsvCloseThrows
  BY <1>8 DEF CsvCloseThrows
<1>9. CASE UNCHANGED vars
  BY <1>9 DEF vars, options, files, TimesWritten, Clipping
<1> QED
  BY <1>1, <1>2, <1>3, <1>4, <1>5, <1>6, <1>7, <1>8, <1>9 DEF Next

\* When convert returns, the output file has been written as often as it says: once,
\* however often the conversion was repeated, where libsndfile can go back in it or there
\* is no temporary file; once for each rewrite from the temporary file otherwise.
THEOREM OutputConversionsCounted == Spec => []ConversionsInOutput
<1>1. Init => OnceInv
  BY DEF Init, OnceInv
<1>2. TypeInv /\ OnceInv /\ [Next]_vars => OnceInv'
  BY TypedNumbers, OnceStep
<1>3. TypeInv /\ [Next]_vars => TypeInv'
  BY TypeStep
<1>4. OnceInv => ConversionsInOutput
  BY DEF OnceInv, ConversionsInOutput
<1> QED
  BY TypeInit, <1>1, <1>2, <1>3, <1>4, PTL DEF Spec
-------------------------------------------------------------------------------
(***************************************************************************)
(* One repetition is enough.                                               *)
(***************************************************************************)
\* The quotient of the integer division is the largest that fits.
LEMMA QuotientBelow ==
  ASSUME NEW a \in Nat, NEW b \in Nat \ {0}
  PROVE  b * (a \div b) <= a /\ a < b * (a \div b) + b
<1> DEFINE q == a \div b
<1>1. q \in Nat
  OBVIOUS
<1>2. a = b * q + (a % b)
  OBVIOUS
<1>3. a % b \in 0 .. b - 1
  OBVIOUS
<1> QED
  BY <1>1, <1>2, <1>3

\* Rounded up it is the smallest that is enough.
LEMMA CeilDivLeast ==
  ASSUME NEW a \in Nat, NEW b \in Nat \ {0}, NEW c \in Nat
  PROVE  CeilDiv(a, b) <= c <=> a <= b * c
<1> DEFINE q == CeilDiv(a, b)
<1>1. q \in Nat /\ b * q <= a + b - 1 /\ a + b - 1 < b * q + b
  <2>1. a + b - 1 \in Nat
    OBVIOUS
  <2> QED
    BY <2>1, QuotientBelow DEF CeilDiv
<1> HIDE DEF q
<1>2. ASSUME q <= c PROVE a <= b * c
  <2>1. b * q <= b * c
    BY <1>1, <1>2
  <2> QED
    BY <1>1, <2>1
<1>3. ASSUME a <= b * c, q > c PROVE FALSE
  <2>1. b * (c + 1) <= b * q
    BY <1>1, <1>3
  <2>2. b * (c + 1) = b * c + b
    OBVIOUS
  <2> QED
    BY <1>1, <1>3, <2>1, <2>2
<1> QED
  BY <1>1, <1>2, <1>3 DEF q

\* An exact quotient is not rounded.
LEMMA CeilDivExact ==
  ASSUME NEW a \in Nat, NEW b \in Nat \ {0}
  PROVE  CeilDiv(a * b, b) = a
<1> DEFINE q == CeilDiv(a * b, b)
<1>0. a * b \in Nat /\ a * b = b * a
  OBVIOUS
<1>1. q \in Nat
  <2>1. a * b + b - 1 \in Nat
    BY <1>0
  <2> QED
    BY <2>1 DEF CeilDiv
<1>2. q <= a
  BY <1>0, CeilDivLeast
<1>3. a * b <= b * q
  BY <1>0, <1>1, CeilDivLeast
<1> HIDE DEF q
<1>4. ASSUME q < a PROVE FALSE
  <2>1. b * (q + 1) <= b * a
    BY <1>1, <1>4
  <2>2. b * (q + 1) = b * q + b
    BY <1>1
  <2> QED
    BY <1>0, <1>1, <1>3, <2>1, <2>2
<1> QED
  BY <1>1, <1>2, <1>4 DEF q

\* The gain that AdjustGain leaves brings the source of a peak under the limit.
LEMMA AdjustedGain ==
  ASSUME NEW s \in Nat, NEW g \in Nat, NEW limit \in Nat, NEW unity \in Nat \ {0},
         NEW peak \in Nat \ {0},
         peak = CeilDiv(s * g, unity)
  PROVE  s * ((g * limit) \div peak) <= unity * limit
<1> DEFINE h == (g * limit) \div peak
<1>1. s * g \in Nat /\ g * limit \in Nat
  BY ProductNat
<1>2. s * g <= unity * peak
  BY <1>1, CeilDivLeast
<1>3. h \in Nat /\ peak * h <= g * limit
  BY <1>1, DivNat, QuotientBelow
<1> HIDE DEF h
<1>4. peak * (s * h) <= peak * (unity * limit)
  <2>1. s * (peak * h) <= s * (g * limit)
    BY <1>1, <1>3
  <2>2. (s * g) * limit <= (unity * peak) * limit
    BY <1>1, <1>2
  <2>3. /\ s * (peak * h) = peak * (s * h)
        /\ s * (g * limit) = (s * g) * limit
        /\ (unity * peak) * limit = peak * (unity * limit)
    BY <1>3
  <2> DEFINE a == peak * (s * h)  b == s * (g * limit)  c == peak * (unity * limit)
  <2>4. a \in Int /\ b \in Int /\ c \in Int
    BY <1>3
  <2>5. a <= b /\ b <= c
    BY <2>1, <2>2, <2>3
  <2> HIDE DEF a, b, c
  <2>6. a <= c
    BY <2>4, <2>5
  <2> QED
    BY <2>6 DEF a, c
<1>5. s * h \in Nat /\ unity * limit \in Nat
  BY <1>3, ProductNat
<1> DEFINE x == s * h  y == unity * limit
<1>6. x \in Nat /\ y \in Nat /\ peak * x <= peak * y
  BY <1>4, <1>5
<1> HIDE DEF x, y
<1>7. ASSUME y < x PROVE FALSE
  <2>1. peak * (y + 1) <= peak * x
    BY <1>6, <1>7
  <2>2. peak * (y + 1) = peak * y + peak
    BY <1>6
  <2>3. peak * y \in Nat /\ peak * x \in Nat
    BY <1>6, ProductNat
  <2> QED
    BY <1>6, <2>1, <2>2, <2>3
<1>8. x <= y
  BY <1>6, <1>7
<1> QED
  BY <1>8 DEF x, y, h

\* The peak is that of the file: neither dither nor effects are added to what the gain
\* was adjusted for.
Plain == ~disableClippingProtection /\ ~bDither /\ effect = 100

\* A peak of s at unity gain is within the limit at gain g.
Under(s, g) == s * g <= Unity * Limit

\* After one adjustment the gain suits the source of the output, which is what a
\* repetition reads: the input, or the temporary file, which has no more than was written
\* to it.
LimitInv ==
  Plain =>
    /\ bTmpFile => clippingProtectionAttempts = 0
    /\ pc \in {"open", "convert"} /\ clippingProtectionAttempts > 0 => Under(signal, gain)
    /\ pc = "test" /\ ~bTmpFile =>
         /\ peakOutputSample = Amplified(signal)
         /\ clippingProtectionAttempts > 0 => Under(signal, gain)
    /\ pc = "test" /\ bTmpFile => gain = Unity /\ tmpFile <= peakOutputSample
    /\ pc = "rewrite" => Under(tmpFile, gain)
    /\ pc = "decide" =>
         /\ bTmpFile => ~Clipping
         /\ Clipping => clippingProtectionAttempts = 0 /\ Under(signal, gain)
    /\ pc = "returned" => ~Clipping

LEMMA UnderMeansWithin ==
  ASSUME TypeInv, NEW s \in Nat
  PROVE  Amplified(s) <= Limit <=> Under(s, gain)
<1>1. gain \in Nat /\ Limit \in Nat /\ Unity \in Nat \ {0}
  BY ConvertAssumption DEF TypeInv, TypeOK
<1>2. s * gain \in Nat
  BY <1>1, ProductNat
<1> QED
  BY <1>1, <1>2, CeilDivLeast DEF Amplified, Under

\* A lower peak is within the limit, too.
LEMMA LowerIsUnder ==
  ASSUME NEW s \in Nat, NEW t \in Nat, NEW g \in Nat, s <= t, Under(t, g)
  PROVE  Under(s, g)
<1>1. s * g <= t * g /\ s * g \in Nat /\ t * g \in Nat
  OBVIOUS
<1>2. Unity * Limit \in Nat
  BY ProductNat, ConvertAssumption
<1> QED
  BY <1>1, <1>2 DEF Under

LEMMA AdjustedIsUnder ==
  ASSUME TypeInv, NEW s \in Nat, peakOutputSample = Amplified(s), Clipping, AdjustGain
  PROVE  Under(s, gain')
<1>1. gain \in Nat /\ Limit \in Nat /\ Unity \in Nat \ {0}
  BY ConvertAssumption DEF TypeInv, TypeOK
<1>2. peakOutputSample \in Nat \ {0}
  BY ConvertAssumption DEF TypeInv, TypeOK, Clipping
<1>3. s * ((gain * Limit) \div peakOutputSample) <= Unity * Limit
  BY <1>1, <1>2, AdjustedGain DEF Amplified
<1> QED
  BY <1>3 DEF Under, AdjustGain

LEMMA LimitInit ==
  ASSUME Init
  PROVE  LimitInv
BY DEF Init, LimitInv, Plain

LEMMA LimitConvertAll ==
  ASSUME TypeInv, LimitInv, ConvertAll
  PROVE  LimitInv'
<1> SUFFICES ASSUME Plain'
             PROVE  LimitInv'
  BY DEF LimitInv
<1>1. Plain
  BY DEF ConvertAll, options, Plain
<1> DEFINE peak == Amplified(signal)
<1>2. /\ peakOutputSample' = peak + 0
      /\ bTmpFile => WriteTmp(CeilDiv((peak + 0) * 100, 100))
  BY <1>1 DEF ConvertAll, Noise, Plain
<1>3. peak \in Nat
  BY AmplifiedNat DEF TypeInv, TypeOK, OptionsOK
<1>4. pc = "convert" /\ pc' = "test" /\ UNCHANGED <<bTmpFile, options, clippingProtectionAttempts>>
      /\ gain' = IF bTmpFile THEN Unity ELSE gain
  BY DEF ConvertAll, GainAfterConvert
<1>5. CASE bTmpFile
  <2> HIDE DEF peak
  <2>1. peak + 0 = peak /\ CeilDiv(peak * 100, 100) = peak
    BY <1>3, CeilDivExact
  <2>2. peakOutputSample' = peak /\ tmpFile' <= peak
    BY <1>2, <1>3, <1>5, <2>1, TmpWritten
  <2> QED
    BY <1>1, <1>4, <1>5, <2>2 DEF LimitInv
<1>6. CASE ~bTmpFile
  <2>1. gain' = gain /\ Amplified(signal)' = peak
    BY <1>4, <1>6 DEF Amplified, options
  <2>2. clippingProtectionAttempts > 0 => Under(signal, gain)
    BY <1>1, <1>4 DEF LimitInv
  <2> HIDE DEF peak
  <2>3. peakOutputSample' = peak
    BY <1>2, <1>3
  <2>4. signal' = signal
    BY <1>4 DEF options
  <2>5. (clippingProtectionAttempts > 0 => Under(signal, gain))'
    BY <1>4, <2>1, <2>2, <2>4
  <2> QED
    BY <1>4, <1>6, <2>1, <2>3, <2>5 DEF LimitInv
<1> QED
  BY <1>5, <1>6

\* The peak that the test is about, at the gain that the test leaves, is within the limit.
LEMMA LimitGain ==
  ASSUME TypeInv, Plain, TestForClipping, NEW s \in Nat, peakOutputSample = Amplified(s)
  PROVE  Under(s, gain')
<1>1. CASE Clipping
  BY <1>1, AdjustedIsUnder DEF TestForClipping, Plain
<1>2. CASE ~Clipping
  <2>1. gain' = gain
    BY <1>2 DEF TestForClipping
  <2>2. Amplified(s) <= Limit
    BY <1>2, ConvertAssumption DEF Clipping, TypeInv, TypeOK
  <2> QED
    BY <2>1, <2>2, UnderMeansWithin
<1> QED
  BY <1>1, <1>2

LEMMA LimitTest ==
  ASSUME TypeInv, LimitInv, TestForClipping
  PROVE  LimitInv'
<1> SUFFICES ASSUME Plain'
             PROVE  LimitInv'
  BY DEF LimitInv
<1>1. Plain /\ pc = "test"
  BY DEF TestForClipping, options, Plain
<1>2. /\ UNCHANGED <<bTmpFile, options, peakOutputSample, clippingProtectionAttempts, files>>
      /\ bTmpFile => pc' = "rewrite"
      /\ ~bTmpFile => pc' = "decide"
  BY DEF TestForClipping
<1>3. Clipping' <=> Clipping
  BY <1>2 DEF Clipping
<1>4. peakOutputSample \in Nat /\ signal \in Nat /\ tmpFile' = tmpFile /\ signal' = signal
  BY <1>2 DEF TypeInv, TypeOK, OptionsOK, files, options
<1>5. CASE bTmpFile
  <2>1. gain = Unity /\ tmpFile <= peakOutputSample /\ tmpFile \in Nat
    BY <1>1, <1>5 DEF LimitInv, TypeInv, TmpFileThere
  <2>2. Amplified(peakOutputSample) = peakOutputSample
    BY <1>4, <2>1, CeilDivExact, ConvertAssumption DEF Amplified
  <2>3. Under(peakOutputSample, gain')
    BY <1>1, <1>4, <2>2, LimitGain
  <2>4. gain' \in Nat
    BY TypeStep DEF Next, TypeInv, TypeOK
  <2>5. Under(tmpFile, gain')
    BY <1>4, <2>1, <2>3, <2>4, LowerIsUnder
  <2>6. Under(tmpFile, gain)'
    BY <1>4, <2>5 DEF Under
  <2> QED
    BY <1>1, <1>2, <1>5, <2>6 DEF LimitInv
<1>6. CASE ~bTmpFile
  <2>1. /\ peakOutputSample = Amplified(signal)
        /\ clippingProtectionAttempts > 0 => Under(signal, gain)
    BY <1>1, <1>6 DEF LimitInv
  <2>2. Under(signal, gain)'
    <3>1. Under(signal, gain')
      BY <1>1, <1>4, <2>1, LimitGain
    <3> QED
      BY <1>4, <3>1 DEF Under
  <2>3. Clipping => clippingProtectionAttempts = 0
    <3>1. Under(signal, gain) => ~Clipping
      BY <1>4, <2>1, UnderMeansWithin, ConvertAssumption DEF Clipping
    <3> QED
      BY <2>1, <3>1, ConvertAssumption DEF TypeInv, TypeOK
  <2> QED
    BY <1>1, <1>2, <1>3, <1>6, <2>2, <2>3 DEF LimitInv
<1> QED
  BY <1>5, <1>6

LEMMA LimitStep ==
  ASSUME MaxAttempts >= 2, TypeInv, LimitInv, [Next]_vars
  PROVE  LimitInv'
<1> SUFFICES ASSUME Plain'
             PROVE  LimitInv'
  BY DEF LimitInv
<1>0. UNCHANGED options /\ Plain
  <2>1. UNCHANGED options
    BY DEF Next, vars, OpenFails, Open, ConvertAll, TestForClipping, Rewrite, Decide,
           CsvThrows, CsvCloseThrows
  <2> QED
    BY <2>1 DEF Plain, options
<1>1. CASE OpenFails
  BY <1>0, <1>1 DEF OpenFails, options, LimitInv
<1>2. CASE Open
  BY <1>0, <1>2 DEF Open, options, LimitInv
<1>3. CASE ConvertAll
  BY <1>3, LimitConvertAll
<1>4. CASE TestForClipping
  BY <1>4, LimitTest
<1>5. CASE Rewrite
  <2>1. peakOutputSample' = Amplified(tmpFile) + 0
    BY <1>0, <1>5 DEF Rewrite, Noise, Plain
  <2>2. bTmpFile /\ tmpFile \in Nat /\ gain \in Nat
    BY <1>5 DEF Rewrite, TypeInv, TypeOK, TmpFileThere, RewritesTmpFile
  <2>3. Amplified(tmpFile) \in Nat
    BY <2>2, AmplifiedNat
  <2>4. Amplified(tmpFile) <= Limit
    BY <1>0, <1>5, <2>2, UnderMeansWithin DEF Rewrite, LimitInv
  <2>5. ~Clipping'
    BY <2>1, <2>3, <2>4, ConvertAssumption DEF Clipping
  <2> QED
    BY <1>0, <1>5, <2>2, <2>5 DEF Rewrite, LimitInv
<1>6. CASE Decide
  <2>1. CASE Clipping
    <3>1. ~bTmpFile /\ clippingProtectionAttempts = 0 /\ Under(signal, gain)
      BY <1>0, <1>6, <2>1 DEF Decide, LimitInv
    <3>2. clippingProtectionAttempts' = 1
      BY <1>6, <2>1, <3>1 DEF Decide, CountAttempt
    <3>3. pc' = "open"
      BY <1>0, <1>6, <2>1, <3>1, <3>2, ConvertAssumption DEF Decide, Again, Plain
    <3> QED
      BY <1>0, <1>6, <3>1, <3>2, <3>3 DEF Decide, LimitInv, options, Under
  <2>2. CASE ~Clipping
    <3>1. pc' = "returned"
      BY <1>6, <2>2 DEF Decide, Again
    <3>2. clippingProtectionAttempts' = clippingProtectionAttempts /\ bTmpFile' = bTmpFile
      BY <1>6, <2>2 DEF Decide, CountAttempt, TypeInv, TypeOK
    <3>3. ~Clipping'
      BY <1>6, <2>2 DEF Decide, Clipping
    <3> QED
      BY <1>0, <3>1, <3>2, <3>3 DEF LimitInv
  <2> QED
    BY <2>1, <2>2
<1>7. CASE CsvThrows
  BY <1>0, <1>7 DEF CsvThrows, LimitInv
<1>8. CASE CsvCloseThrows
  <2>1. bTmpFile => ~Clipping /\ clippingProtectionAttempts = 0
    BY <1>0, <1>8 DEF CsvCloseThrows, LimitInv
  <2>2. bTmpFile' => clippingProtectionAttempts' = 0
    BY <1>8, <2>1 DEF CsvCloseThrows, CountAttempt
  <2> QED
    BY <1>0, <1>8, <2>2 DEF CsvCloseThrows, LimitInv
<1>9. CASE UNCHANGED vars
  BY <1>0, <1>9 DEF vars, options, files, LimitInv, Clipping, Amplified, Under
<1> QED
  BY <1>1, <1>2, <1>3, <1>4, <1>5, <1>6, <1>7, <1>8, <1>9 DEF Next

-------------------------------------------------------------------------------
\* With or without dither, the peak that decides about a repetition is that of what was
\* last written, if that was written as a whole, and convert returns a clipping file only
\* after the last attempt.
LastInv ==
  effect = 100 =>
    /\ (pc = "test" /\ ~bTmpFile) \/ pc \in {"decide", "returned"} =>
         (WrittenWhole => Last(outFile) = peakOutputSample)
    /\ pc = "returned" /\ ~disableClippingProtection /\ Clipping =>
         clippingProtectionAttempts = MaxAttempts

\* What is missing in the temporary file is missing in the output.
CutInv ==
  tmpCut =>
    /\ bTmpFile /\ pc \notin {"open", "convert"}
    /\ pc \in {"decide", "returned"} => ~WrittenWhole

LEMMA LastStep ==
  ASSUME TypeInv, LastInv, CutInv, [Next]_vars
  PROVE  LastInv' /\ CutInv'
<1>0. effect' = effect /\ Numbers
  BY TypedNumbers
  DEF Next, vars, options, OpenFails, Open, ConvertAll, TestForClipping, Rewrite, Decide,
      CsvThrows, CsvCloseThrows
<1> USE DEF LastInv, CutInv
<1>1. CASE OpenFails
  BY <1>0, <1>1 DEF OpenFails, files
<1>2. CASE Open
  BY <1>0, <1>2 DEF Open
<1>3. CASE ConvertAll
  <2>1. PICK noise \in Noise(bDither /\ ~bTmpFile) :
           LET peak == Amplified(signal) + noise
               written == CeilDiv(peak * effect, 100)
           IN /\ peak \in Nat /\ written \in Nat
              /\ peakOutputSample' = peak
              /\ bTmpFile => WriteTmp(written) /\ UNCHANGED outFile
              /\ ~bTmpFile => WriteOut(outFile, written) /\ UNCHANGED <<tmpFile, tmpCut>>
    BY <1>0, <1>3, ConversionIs
  <2> DEFINE peak == Amplified(signal) + noise
             written == CeilDiv(peak * effect, 100)
  <2>2. /\ peak \in Nat /\ written \in Nat
        /\ peakOutputSample' = peak
        /\ ~bTmpFile => WriteOut(outFile, written) /\ tmpCut' = tmpCut
    BY <2>1
  <2>3. effect = 100 => written = peak
    <3> HIDE DEF peak
    <3> QED
      BY <2>2, CeilDivExact
  <2>4. pc' = "test" /\ bTmpFile' = bTmpFile /\ csvErr' = csvErr /\ pc = "convert"
    BY <1>3 DEF ConvertAll
  <2> HIDE DEF peak, written
  <2>5. ~bTmpFile /\ effect = 100 => (WrittenWhole' => Last(outFile') = peakOutputSample')
    BY <1>0, <2>2, <2>3, <2>4, OutWritten DEF Numbers, WrittenWhole
  <2> QED
    BY <1>0, <2>2, <2>4, <2>5
<1>4. CASE TestForClipping
  BY <1>0, <1>4 DEF TestForClipping, files, WrittenWhole
<1>5. CASE Rewrite
  <2>1. PICK noise \in Noise(bDither) :
           LET peak == Amplified(tmpFile) + noise
           IN /\ peak \in Nat
              /\ peakOutputSample' = peak
              /\ WriteOut(Rewound, peak)
              /\ Rewound \in Seq(Conversions) /\ bTmpFile
    BY <1>0, <1>5, RewriteIs
  <2> DEFINE peak == Amplified(tmpFile) + noise
  <2>2. /\ peak \in Nat /\ peakOutputSample' = peak
        /\ WriteOut(Rewound, peak) /\ Rewound \in Seq(Conversions) /\ bTmpFile
    BY <2>1
  <2> HIDE DEF peak
  <2>3. /\ ~csvErr => Last(outFile') \in {peak, Partial}
        /\ ~csvErr /\ tmpCut => Last(outFile') = Partial
    BY <1>0, <2>2, OutWritten DEF Numbers
  <2>4. pc' = "decide" /\ bTmpFile' = bTmpFile /\ csvErr' = csvErr /\ tmpCut' = tmpCut
    BY <1>5 DEF Rewrite
  <2> QED
    BY <1>0, <2>2, <2>3, <2>4 DEF WrittenWhole
<1>6. CASE Decide
  <2>1. pc = "decide" /\ UNCHANGED <<files, peakOutputSample, bTmpFile, disableClippingProtection>>
    BY <1>6 DEF Decide, options
  <2>2. WrittenWhole' = WrittenWhole /\ outFile' = outFile /\ tmpCut' = tmpCut
    BY <2>1 DEF WrittenWhole, files
  <2>3. ASSUME pc' = "returned", ~disableClippingProtection, Clipping
        PROVE  clippingProtectionAttempts' = MaxAttempts
    <3>1. clippingProtectionAttempts' = clippingProtectionAttempts + 1
      BY <1>6, <2>3 DEF Decide, CountAttempt
    <3>2. ~(clippingProtectionAttempts' < MaxAttempts)
      BY <1>6, <2>3 DEF Decide, Again
    <3>3. clippingProtectionAttempts < MaxAttempts /\ clippingProtectionAttempts \in Nat
      BY <1>6 DEF Decide, TypeInv, TypeOK, AttemptLeft
    <3> QED
      BY <3>1, <3>2, <3>3, ConvertAssumption
  <2>4. Clipping' <=> Clipping
    BY <2>1 DEF Clipping
  <2>5. pc' \in {"test", "open", "returned"} /\ (pc' = "open" => ~bTmpFile)
        /\ (pc' = "test" => bTmpFile)
    BY <1>6 DEF Decide
  <2> QED
    BY <1>0, <2>1, <2>2, <2>3, <2>4, <2>5
<1>7. CASE CsvThrows
  BY <1>0, <1>7 DEF CsvThrows
<1>8. CASE CsvCloseThrows
  BY <1>0, <1>8 DEF CsvCloseThrows
<1>9. CASE UNCHANGED vars
  BY <1>0, <1>9 DEF vars, options, files, Clipping, WrittenWhole
<1> QED
  BY <1>1, <1>2, <1>3, <1>4, <1>5, <1>6, <1>7, <1>8, <1>9 DEF Next

\* "it will re-do the conversion with the overall gain adjusted appropriately to avoid
\* clipping": for every signal, gain, limit and dither, with two attempts or more, of what
\* was written as a whole.
THEOREM RepetitionAvoidsClipping ==
  ASSUME MaxAttempts >= 2
  PROVE  Spec => []WithinLimit
<1>1. Init => LimitInv /\ LastInv /\ CutInv
  BY LimitInit DEF Init, LastInv, CutInv
<1>2. TypeInv /\ LimitInv /\ LastInv /\ CutInv /\ [Next]_vars => LimitInv' /\ LastInv' /\ CutInv'
  BY LimitStep, LastStep
<1>3. TypeInv /\ [Next]_vars => TypeInv'
  BY TypeStep
<1>4. TypeInv /\ LimitInv /\ LastInv => WithinLimit
  <2> SUFFICES ASSUME TypeInv, LimitInv, LastInv, pc = "returned",
                      ~disableClippingProtection, effect = 100, WrittenWhole,
                      ~(Last(outFile) <= Limit)
               PROVE  bDither /\ clippingProtectionAttempts = MaxAttempts
    BY DEF WithinLimit
  <2>1. Clipping
    BY ConvertAssumption DEF LastInv, Clipping, TypeInv, TypeOK
  <2>2. bDither
    BY <2>1 DEF LimitInv, Plain
  <2> QED
    BY <2>1, <2>2 DEF LastInv
<1> QED
  BY TypeInit, <1>1, <1>2, <1>3, <1>4, PTL DEF Spec
-------------------------------------------------------------------------------
(***************************************************************************)
(* The gain is not taken back too far.                                     *)
(***************************************************************************)
\* A peak is not measured finer than the gain that is adjusted to it: this is what a
\* floating point gain gives, and what the units of the model have to be chosen for.
FineEnough(s, g) == s <= Unity /\ CeilDiv(s * g, Unity) <= Unity

\* The gain that AdjustGain leaves costs at most one unit below the limit.
LEMMA AdjustedNotFar ==
  ASSUME NEW s \in Nat, NEW g \in Nat, NEW limit \in Nat \ {0}, NEW unity \in Nat \ {0},
         NEW peak \in Nat,
         peak = CeilDiv(s * g, unity), limit < peak, s <= unity
  PROVE  limit - 1 <= CeilDiv(s * ((g * limit) \div peak), unity)
<1> DEFINE h == (g * limit) \div peak
<1>1. s * g \in Nat /\ g * limit \in Nat /\ peak \in Nat \ {0}
  BY ProductNat
<1>2. unity * (peak - 1) < s * g
  <2>1. peak - 1 \in Nat /\ ~(peak <= peak - 1)
    BY <1>1
  <2>2. ~(s * g <= unity * (peak - 1))
    BY <1>1, <2>1, CeilDivLeast
  <2> QED
    BY <1>1, <2>1, <2>2
<1>3. h \in Nat /\ g * limit < peak * h + peak
  BY <1>1, DivNat, QuotientBelow
<1> HIDE DEF h
\* Both inequalities, multiplied to the common factor s g limit.
<1>4. peak * (unity * limit) < peak * (s * h) + 2 * (peak * unity)
  <2>1. s * (g * limit) <= s * (peak * h + peak)
    BY <1>1, <1>3
  <2>2. (unity * (peak - 1)) * limit <= (s * g) * limit
    BY <1>1, <1>2
  <2>3. s * peak <= unity * peak
    BY <1>1
  <2>4. unity * limit < unity * peak
    BY <1>1
  <2>5. /\ s * (g * limit) = (s * g) * limit
        /\ s * (peak * h + peak) = peak * (s * h) + s * peak
        /\ (unity * (peak - 1)) * limit = peak * (unity * limit) - unity * limit
        /\ unity * peak = peak * unity
    BY <1>1, <1>3
  <2> DEFINE a == s * (g * limit)   b == peak * (s * h)   c == peak * (unity * limit)
             d == unity * limit     e == s * peak         f == peak * unity
  <2>6. /\ a \in Int /\ b \in Int /\ c \in Int /\ d \in Int /\ e \in Int /\ f \in Int
        /\ a <= b + e /\ c - d <= a /\ e <= f /\ d < f
    BY <1>1, <1>3, <2>1, <2>2, <2>3, <2>4, <2>5
  <2> HIDE DEF a, b, c, d, e, f
  <2>7. c < b + 2 * f
    BY <2>6
  <2> QED
    BY <2>7 DEF b, c, f
<1>5. unity * limit < s * h + 2 * unity
  <2> DEFINE x == s * h + 2 * unity   y == unity * limit
  <2>1. x \in Nat /\ y \in Nat
    <3>1. s * h \in Nat /\ 2 * unity \in Nat /\ unity * limit \in Nat
      BY <1>3, ProductNat
    <3> QED
      BY <3>1
  <2>2. peak * y < peak * x
    <3>1. peak * x = peak * (s * h) + 2 * (peak * unity)
      BY <1>1, <1>3
    <3> QED
      BY <1>4, <3>1
  <2> HIDE DEF x, y
  <2>3. ASSUME x <= y PROVE FALSE
    <3>1. peak * x <= peak * y
      BY <1>1, <2>1, <2>3
    <3>2. peak * x \in Int /\ peak * y \in Int
      BY <1>1, <2>1
    <3> QED
      BY <2>2, <3>1, <3>2
  <2>4. y < x
    BY <2>1, <2>3
  <2> QED
    BY <2>4 DEF x, y
<1>6. s * h \in Nat
  BY <1>3, ProductNat
<1>7. CeilDiv(s * h, unity) \in Nat
  BY <1>6, CeilDivNat
<1>8. CASE limit = 1
  BY <1>7, <1>8 DEF h
<1>9. CASE limit >= 2
  <2>1. limit - 2 \in Nat
    BY <1>9
  <2>2. unity * (limit - 2) = unity * limit - 2 * unity
    BY <1>9
  <2>3. unity * limit \in Int
    OBVIOUS
  <2>4. ~(s * h <= unity * (limit - 2))
    BY <1>5, <1>6, <2>2, <2>3
  <2>5. ~(CeilDiv(s * h, unity) <= limit - 2)
    BY <1>6, <2>1, <2>4, CeilDivLeast
  <2> QED
    BY <1>7, <2>1, <2>5 DEF h
<1> QED
  BY <1>8, <1>9

\* The peak that the input has at the gain it was to be converted with.
Wanted == CeilDiv(signal * initialGain, Unity)

\* As loud as it was meant to be, or just within the limit.
Loud(peak) == peak = Wanted \/ peak \in Limit - 1 .. Limit

\* Neither dither nor effects come between a gain and the peak in the file, nor is a part of
\* the temporary file missing.
Bare == ~bDither /\ effect = 100 /\ ~tmpCut /\ FineEnough(signal, initialGain)

\* What a repetition reads: the input, or the temporary file.
Source == IF bTmpFile THEN tmpFile ELSE signal

\* Where the gain is about to be used it makes the source as loud as allowed.
LoudInv ==
  Bare =>
    /\ pc \in {"open", "convert"} =>
         Loud(Amplified(signal)) /\ (bTmpFile => Amplified(signal) = Wanted)
    /\ pc \in {"test", "rewrite", "decide"} /\ bTmpFile => tmpFile = Wanted
    /\ pc = "test" => peakOutputSample = Amplified(Source)
    /\ pc = "rewrite" => Loud(Amplified(tmpFile))
    /\ pc \in {"test", "decide", "returned"} => Loud(peakOutputSample)
    /\ pc = "decide" /\ bTmpFile => peakOutputSample = Amplified(tmpFile)
    /\ pc = "decide" /\ ~bTmpFile /\ Clipping /\ ~disableClippingProtection =>
         Loud(Amplified(signal))

LEMMA WantedNat ==
  ASSUME OptionsOK
  PROVE  Wanted \in Nat
<1>1. signal * initialGain \in Nat
  BY ProductNat DEF OptionsOK
<1> QED
  BY <1>1, CeilDivNat, ConvertAssumption DEF Wanted

\* The two sources fit the resolution of the gain.
LEMMA AdjustedIsLoud ==
  ASSUME TypeInv, NEW s \in Nat, s <= Unity, peakOutputSample = Amplified(s), Clipping,
         AdjustGain
  PROVE  CeilDiv(s * gain', Unity) \in Limit - 1 .. Limit
<1>1. gain \in Nat /\ Limit \in Nat \ {0} /\ Unity \in Nat \ {0}
  BY ConvertAssumption DEF TypeInv, TypeOK
<1>2. peakOutputSample \in Nat \ {0} /\ Limit < peakOutputSample
  BY ConvertAssumption DEF TypeInv, TypeOK, Clipping
<1>3. gain' \in Nat
  BY <1>1, <1>2, ProductNat, DivNat DEF AdjustGain
<1>4. s * gain' \in Nat
  BY <1>3, ProductNat
<1>5. CeilDiv(s * gain', Unity) <= Limit
  <2>1. s * gain' <= Unity * Limit
    BY AdjustedIsUnder DEF Under
  <2> QED
    BY <1>1, <1>4, <2>1, CeilDivLeast
<1>6. Limit - 1 <= CeilDiv(s * gain', Unity)
  BY <1>1, <1>2, AdjustedNotFar DEF Amplified, AdjustGain
<1>7. CeilDiv(s * gain', Unity) \in Nat
  BY <1>1, <1>4, CeilDivNat
<1> QED
  BY <1>1, <1>5, <1>6, <1>7

LEMMA LoudStep ==
  ASSUME TypeInv, LoudInv, [Next]_vars
  PROVE  LoudInv'
<1> SUFFICES ASSUME Bare'
             PROVE  LoudInv'
  BY DEF LoudInv
<1>0. /\ Bare
      /\ UNCHANGED options
      /\ Wanted' = Wanted
      /\ \A peak : Loud(peak)' <=> Loud(peak)
  <2>1. UNCHANGED options
    BY DEF Next, vars, OpenFails, Open, ConvertAll, TestForClipping, Rewrite, Decide,
           CsvThrows, CsvCloseThrows
  <2>2. tmpCut => tmpCut'
    BY DEF Next, vars, files, OpenFails, Open, ConvertAll, WriteTmp, TestForClipping, Rewrite,
           Decide, CsvThrows, CsvCloseThrows
  <2> QED
    BY <2>1, <2>2 DEF options, Bare, Wanted, Loud
<1>1. CASE OpenFails
  BY <1>1 DEF OpenFails, LoudInv
<1>2. CASE Open
  <2>1. Amplified(signal)' = Amplified(signal)
    BY <1>0, <1>2 DEF Open, Amplified, options
  <2> QED
    BY <1>0, <1>2, <2>1 DEF Open, LoudInv
<1>3. CASE ConvertAll
  <2> DEFINE peak == Amplified(signal)
  <2>1. /\ peakOutputSample' = peak + 0
        /\ bTmpFile => WriteTmp(CeilDiv((peak + 0) * 100, 100))
    BY <1>0, <1>3 DEF ConvertAll, Noise, Bare
  <2>2. peak \in Nat
    BY AmplifiedNat DEF TypeInv, TypeOK, OptionsOK
  <2>3. Loud(peak) /\ (bTmpFile => peak = Wanted)
    BY <1>0, <1>3 DEF ConvertAll, LoudInv
  <2> HIDE DEF peak
  <2>4. peak + 0 = peak /\ CeilDiv(peak * 100, 100) = peak
    BY <2>2, CeilDivExact
  <2>5. peakOutputSample' = peak /\ (bTmpFile => tmpFile' = peak)
    BY <2>1, <2>2, <2>4, TmpWritten DEF Bare
  <2>6. pc' = "test" /\ bTmpFile' = bTmpFile
    BY <1>3 DEF ConvertAll
  <2>7. CASE bTmpFile
    <3>1. Amplified(tmpFile)' = CeilDiv(peak * Unity, Unity)
      BY <1>3, <2>5, <2>7 DEF ConvertAll, GainAfterConvert, Amplified
    <3>2. Amplified(Source)' = peak
      BY <2>2, <2>6, <2>7, <3>1, CeilDivExact, ConvertAssumption DEF Source, Amplified
    <3> QED
      BY <1>0, <2>3, <2>5, <2>6, <2>7, <3>2 DEF LoudInv
  <2>8. CASE ~bTmpFile
    <3>1. Amplified(Source)' = peak
      BY <1>0, <1>3, <2>6, <2>8
      DEF ConvertAll, GainAfterConvert, Amplified, Source, options, peak
    <3> QED
      BY <1>0, <2>3, <2>5, <2>6, <2>8, <3>1 DEF LoudInv
  <2> QED
    BY <2>7, <2>8
<1>4. CASE TestForClipping
  <2>1. /\ peakOutputSample = Amplified(Source) /\ Loud(peakOutputSample)
        /\ bTmpFile => tmpFile = Wanted
    BY <1>0, <1>4 DEF TestForClipping, LoudInv
  <2>2. Source \in Nat /\ Source <= Unity
    BY <1>0, <2>1, WantedNat DEF Source, Bare, FineEnough, Wanted, TypeInv, OptionsOK
  <2>3. /\ UNCHANGED <<bTmpFile, options, peakOutputSample, tmpFile>>
        /\ pc' = IF bTmpFile THEN "rewrite" ELSE "decide"
    BY <1>4 DEF TestForClipping, files
  <2>4. Source' = Source
    BY <2>3 DEF Source, options
  <2>5. Loud(Amplified(Source)')
    <3>1. CASE ~disableClippingProtection /\ Clipping
      <4>1. CeilDiv(Source * gain', Unity) \in Limit - 1 .. Limit
        BY <1>4, <2>1, <2>2, <3>1, AdjustedIsLoud DEF TestForClipping
      <4> QED
        BY <2>4, <4>1 DEF Amplified, Loud
    <3>2. CASE ~(~disableClippingProtection /\ Clipping)
      <4>1. gain' = gain
        BY <1>4, <3>2 DEF TestForClipping
      <4> QED
        BY <2>1, <2>4, <4>1 DEF Amplified
    <3> QED
      BY <3>1, <3>2
  <2>6. CASE bTmpFile
    <3>1. Loud(Amplified(tmpFile)')
      BY <2>3, <2>5, <2>6 DEF Source, Amplified
    <3> QED
      BY <1>0, <2>1, <2>3, <2>6, <3>1 DEF LoudInv
  <2>7. CASE ~bTmpFile
    <3>1. Loud(Amplified(signal)')
      BY <2>3, <2>5, <2>7 DEF Source, Amplified
    <3> QED
      BY <1>0, <2>1, <2>3, <2>7, <3>1 DEF LoudInv
  <2> QED
    BY <2>6, <2>7
<1>5. CASE Rewrite
  <2>1. peakOutputSample' = Amplified(tmpFile) + 0
    BY <1>0, <1>5 DEF Rewrite, Noise, Bare
  <2>2. bTmpFile /\ tmpFile \in Nat /\ gain \in Nat
    BY <1>5 DEF Rewrite, TypeInv, TypeOK, TmpFileThere, RewritesTmpFile
  <2>3. peakOutputSample' = Amplified(tmpFile)
    BY <2>1, <2>2, AmplifiedNat
  <2>4. UNCHANGED <<bTmpFile, options, gain, tmpFile>> /\ pc' = "decide"
    BY <1>5 DEF Rewrite
  <2>5. Amplified(tmpFile)' = Amplified(tmpFile)
    BY <2>4 DEF Amplified
  <2>6. tmpFile = Wanted /\ Loud(Amplified(tmpFile))
    BY <1>0, <1>5, <2>2 DEF Rewrite, LoudInv
  <2> QED
    BY <1>0, <2>2, <2>3, <2>4, <2>5, <2>6 DEF LoudInv
<1>6. CASE Decide
  <2>1. /\ UNCHANGED <<bTmpFile, options, gain, peakOutputSample, tmpFile>>
        /\ pc' = IF Again THEN IF bTmpFile THEN "test" ELSE "open" ELSE "returned"
        /\ pc = "decide"
    BY <1>6 DEF Decide, files
  <2>2. /\ Amplified(tmpFile)' = Amplified(tmpFile)
        /\ Amplified(signal)' = Amplified(signal)
        /\ Amplified(Source)' = Amplified(Source)
    BY <2>1 DEF Amplified, Source, options
  <2>3. Loud(peakOutputSample)
    BY <1>0, <2>1 DEF LoudInv
  <2>4. CASE Again /\ bTmpFile
    <3>1. tmpFile = Wanted /\ peakOutputSample = Amplified(Source)
      BY <1>0, <2>1, <2>4 DEF LoudInv, Source
    <3> QED
      BY <1>0, <2>1, <2>2, <2>3, <2>4, <3>1 DEF LoudInv
  <2>5. CASE Again /\ ~bTmpFile
    <3>1. Loud(Amplified(signal))
      BY <1>0, <2>1, <2>5 DEF LoudInv, Again
    <3> QED
      BY <1>0, <2>1, <2>2, <2>5, <3>1 DEF LoudInv
  <2>6. CASE ~Again
    BY <1>0, <2>1, <2>3, <2>6 DEF LoudInv
  <2> QED
    BY <2>4, <2>5, <2>6
<1>7. CASE CsvThrows
  BY <1>7 DEF CsvThrows, LoudInv
<1>8. CASE CsvCloseThrows
  BY <1>8 DEF CsvCloseThrows, LoudInv
<1>9. CASE UNCHANGED vars
  BY <1>0, <1>9 DEF vars, options, files, LoudInv, Clipping, Amplified, Source
<1> QED
  BY <1>1, <1>2, <1>3, <1>4, <1>5, <1>6, <1>7, <1>8, <1>9 DEF Next

\* What is written without dither and effects is as loud as it would have been, or at
\* most a unit below the limit: for every signal, gain, limit and number of attempts,
\* with and without a temporary file, whether clipping is protected against or not.
THEOREM RepetitionStaysLoud ==
  ASSUME \A s \in Signals, g \in Gains : FineEnough(s, g)
  PROVE  Spec => []LoudAsAllowed
<1> DEFINE Inv == TypeInv /\ LastInv /\ CutInv /\ LoudInv /\ FineEnough(signal, initialGain)
<1>1. Init => Inv
  <2> SUFFICES ASSUME Init PROVE Inv
    OBVIOUS
  <2>1. LastInv /\ CutInv
    BY DEF Init, LastInv, CutInv
  <2>2. FineEnough(signal, initialGain)
    BY DEF Init
  <2>3. Amplified(signal) = Wanted
    BY DEF Init, Amplified, Wanted
  <2>4. LoudInv
    BY <2>3 DEF Init, LoudInv, Loud
  <2> QED
    BY <2>1, <2>2, <2>4, TypeInit
<1>2. Inv /\ [Next]_vars => Inv'
  <2> SUFFICES ASSUME Inv, [Next]_vars PROVE Inv'
    OBVIOUS
  <2>1. UNCHANGED options
    BY DEF Next, vars, OpenFails, Open, ConvertAll, TestForClipping, Rewrite, Decide,
           CsvThrows, CsvCloseThrows
  <2>2. FineEnough(signal, initialGain)'
    BY <2>1 DEF options, FineEnough
  <2> QED
    BY <2>2, TypeStep, LastStep, LoudStep
<1>3. Inv => LoudAsAllowed
  BY DEF LastInv, CutInv, LoudInv, Bare, Loud, Wanted, LoudAsAllowed
<1> QED
  BY <1>1, <1>2, <1>3, PTL DEF Spec
-------------------------------------------------------------------------------
(***************************************************************************)
(* runCommand(), for every command line, all files and all tables of       *)
(* formats that keep to FormatAssumption: the passes of the conversion it  *)
(* calls start afresh, and success means that the output was written as    *)
(* often as it should have been, in a format that libsndfile can write and *)
(* that is the one asked for.                                              *)
(***************************************************************************)
\* The fields of a job that its format and its gain follow from.
JobFields == {"inputFilename", "outputFilename", "outBitFormat", "outputFormat", "rawInput",
              "bRf64", "gain"}

\* The steps before convert() is called.
Before == {"global", "arguments", "format", "extension", "dispatch"}

\* convert() is called once.
CallInv ==
  /\ JobFields \subseteq DOMAIN ci
  /\ ci.gain \in Int
  /\ step \in Before \cup {"run", "exit"}
  /\ step \in Before => pc = "not called"
  /\ step = "run" => pc # "not called"

NotYetUsed ==
  pc = "not called" =>
    /\ converters = "fresh" /\ ditherers = "fresh"
    /\ outFile = <<>> /\ clippingProtectionAttempts = 0

\* A csv file has all of each conversion while none of the writes to it threw.
WholeInv ==
  outputKind = "csv" /\ ~tmpCut /\ pc \notin {"thrown", "killed"} =>
    Partial \notin Range(outFile)

\* The passes, as far as they have come.
RunInv == Numbers /\ FreshInv /\ OnceInv /\ WholeInv /\ NotYetUsed
-------------------------------------------------------------------------------
\* The quotient of an integer by a positive number is an integer.
LEMMA QuotientInt ==
  ASSUME NEW a \in Int, NEW b \in Nat \ {0}
  PROVE  a \div b \in Int
OBVIOUS

\* Nothing is in a file that nothing was written to.
LEMMA NothingWritten ==
  ASSUME NEW file, file = <<>>
  PROVE  file \in Seq(Conversions) /\ Partial \notin Range(file)
<1>1. <<>> \in Seq(Conversions) /\ DOMAIN <<>> = {}
  OBVIOUS
<1>2. file \in Seq(Conversions) /\ DOMAIN file = {}
  BY ONLY <1>1, file = <<>>
<1> QED
  BY <1>2 DEF Range

\* The size of a number.
LEMMA SizeNat ==
  ASSUME NEW number \in Int
  PROVE  Size(number) \in Nat
BY DEF Size

LEMMA NumberInt ==
  ASSUME NEW line, NEW option, NEW default \in Int
  PROVE  NumberOf(line, option, default) \in Int
BY CommandLineAssumption DEF NumberOf

LEMMA JobRead ==
  ASSUME NEW line
  PROVE  /\ JobFields \subseteq DOMAIN fromCmdLineArgs(line)
         /\ fromCmdLineArgs(line).gain \in Int
         /\ fromCmdLineArgs(line).outBitFormat = TextOf(line, "-b", None)
<1>1. JobFields \subseteq DOMAIN fromCmdLineArgs(line)
  BY DEF fromCmdLineArgs, JobFields
<1>2. fromCmdLineArgs(line).gain = NumberOf(line, "--gain", Scale)
  BY DEF fromCmdLineArgs
<1>3. fromCmdLineArgs(line).outBitFormat = TextOf(line, "-b", None)
  BY DEF fromCmdLineArgs
<1>4. Scale \in Int
  BY CommandLineAssumption
<1> QED
  BY <1>1, <1>2, <1>3, <1>4, NumberInt
-------------------------------------------------------------------------------
(***************************************************************************)
(* The passes.                                                             *)
(***************************************************************************)
LEMMA NotInAppend ==
  ASSUME NEW T, NEW s \in Seq(T), NEW x \in T, NEW y, y # x, y \notin Range(s)
  PROVE  y \notin Range(Append(s, x))
<1> SUFFICES ASSUME NEW i \in DOMAIN Append(s, x), Append(s, x)[i] = y
             PROVE  FALSE
  BY DEF Range
<1>1. CASE i \in DOMAIN s
  <2>1. Append(s, x)[i] = s[i]
    BY <1>1
  <2> QED
    BY <1>1, <2>1 DEF Range
<1>2. CASE i \notin DOMAIN s
  <2>1. i = Len(s) + 1
    BY <1>2
  <2>2. Append(s, x)[i] = x
    BY <2>1
  <2> QED
    BY <2>2
<1> QED
  BY <1>1, <1>2

LEMMA WholeStep ==
  ASSUME Numbers, WholeInv, [Next]_vars
  PROVE  WholeInv'
<1> USE DEF WholeInv
<1>0. UNCHANGED options /\ outputKind' = outputKind
  BY DEF Next, vars, options, OpenFails, Open, ConvertAll, TestForClipping, Rewrite, Decide,
         CsvThrows, CsvCloseThrows
<1>1. CASE OpenFails
  BY <1>0, <1>1 DEF OpenFails
<1>2. CASE Open
  <2>1. /\ pc = "open" /\ tmpCut' = tmpCut
        /\ outFile' = outFile \/ outFile' = <<>>
    BY <1>2 DEF Open
  <2>2. Partial \notin Range(<<>>)
    BY DEF Range
  <2> QED
    BY <1>0, <2>1, <2>2
<1>3. ASSUME NEW contents \in {outFile}, NEW peak \in Nat, WriteOut(contents, peak),
             outputKind = "csv", ~tmpCut, Partial \notin Range(outFile)
      PROVE  Partial \notin Range(outFile')
  <2>1. outFile \in Seq(Conversions) /\ contents = outFile /\ peak \in Conversions
    BY <1>3 DEF Numbers, Conversions
  <2>2. outFile' = outFile \/ outFile' = Append(outFile, peak)
    BY <1>3, <2>1, OutWritten
  <2>3. Partial # peak
    BY <1>3 DEF Partial
  <2>4. Partial \notin Range(Append(outFile, peak))
    BY <1>3, <2>1, <2>3, NotInAppend
  <2> QED
    BY <1>3, <2>2, <2>4
<1>4. CASE ConvertAll
  <2>1. pc = "convert" /\ (bTmpFile => WholeInv')
    <3>1. pc = "convert" /\ (bTmpFile => outFile' = outFile /\ (tmpCut => tmpCut'))
      BY <1>4 DEF ConvertAll, WriteTmp
    <3> QED
      BY <1>0, <3>1
  <2>2. ~bTmpFile => tmpCut' = tmpCut /\ \E peak \in Nat : WriteOut(outFile, peak)
    BY <1>4, ConversionIs
  <2> QED
    BY <1>0, <1>3, <2>1, <2>2
<1>5. CASE TestForClipping
  BY <1>0, <1>5 DEF TestForClipping, files
<1>6. CASE Rewrite
  <2>1. pc = "rewrite" /\ tmpCut' = tmpCut
    BY <1>6 DEF Rewrite
  <2>2. outputKind = "csv" => \E peak \in Nat : WriteOut(outFile, peak)
    BY <1>6, RewriteIs DEF Rewound
  <2> QED
    BY <1>0, <1>3, <2>1, <2>2
<1>7. CASE Decide
  BY <1>0, <1>7 DEF Decide, files
<1>8. CASE CsvThrows
  BY <1>8 DEF CsvThrows
<1>9. CASE CsvCloseThrows
  BY <1>9 DEF CsvCloseThrows
<1>10. CASE UNCHANGED vars
  BY <1>10 DEF vars, options, files
<1> QED
  BY <1>1, <1>2, <1>4, <1>5, <1>6, <1>7, <1>8, <1>9, <1>10 DEF Next

LEMMA PassStep ==
  ASSUME pc # "not called", [Next]_vars
  PROVE  pc' # "not called"
BY DEF Next, vars, OpenFails, Open, ConvertAll, TestForClipping, Rewrite, Decide, CsvThrows,
       CsvCloseThrows

LEMMA RunStep ==
  ASSUME CallInv, RunInv, [ProgramNext]_programVars
  PROVE  RunInv'
<1>1. CASE UNCHANGED vars
  <2>1. UNCHANGED <<bTmpFile, outputKind, effect, signal, disableClippingProtection,
                    pc, gain, peakOutputSample, clippingProtectionAttempts, converters,
                    ditherers, tmpFile, tmpCut, csvErr, outFile>>
    BY <1>1 DEF vars, options, files
  <2>2. Numbers'
    BY <2>1 DEF RunInv, Numbers, TmpFileThere, RewritesTmpFile
  <2>3. FreshInv' /\ NotYetUsed'
    BY <2>1 DEF RunInv, FreshInv, FreshStart, NotYetUsed, Clipping
  <2>4. OnceInv'
    BY <2>1 DEF RunInv, OnceInv, NeverRewound, TimesWritten, Clipping
  <2>5. WholeInv'
    BY <2>1 DEF RunInv, WholeInv
  <2> QED
    BY <2>2, <2>3, <2>4, <2>5 DEF RunInv
<1>2. CASE Dispatch
  <2>1. /\ pc = "not called" /\ pc' = "open"
        /\ UNCHANGED <<converters, ditherers, files, peakOutputSample, clippingProtectionAttempts>>
        /\ UNCHANGED <<tmpFile, tmpCut, csvErr, outFile>>
    BY <1>2 DEF Dispatch, CallInv, Before, files
  <2>2. signal' \in Nat /\ effect' \in Nat
    BY <1>2, ConvertAssumption DEF Dispatch
  <2>3. gain' \in Nat
    <3>1. (Size(ci.gain) * Unity) \div Scale \in Nat
      <4>1. Size(ci.gain) \in Nat /\ Unity \in Nat /\ Scale \in Nat \ {0}
        BY SizeNat, ConvertAssumption, CommandLineAssumption DEF CallInv
      <4>2. Size(ci.gain) * Unity \in Nat
        BY <4>1, ProductNat
      <4> QED
        BY <4>1, <4>2, DivNat
    <3>2. Gains \subseteq Nat
      BY ConvertAssumption
    <3>3. gain' \in Gains \/ gain' = (Size(ci.gain) * Unity) \div Scale
      BY <1>2 DEF Dispatch
    <3> QED
      BY <3>1, <3>2, <3>3
  <2>4. outFile = <<>> /\ clippingProtectionAttempts = 0
        /\ converters = "fresh" /\ ditherers = "fresh"
    BY <2>1 DEF RunInv, NotYetUsed
  <2>5. Numbers'
    BY <2>1, <2>2, <2>3 DEF RunInv, Numbers, TmpFileThere, RewritesTmpFile
  <2>6. WholeInv'
    BY <2>1, <2>4, NothingWritten DEF WholeInv
  <2>7. FreshInv' /\ NotYetUsed'
    BY <2>1, <2>4 DEF FreshInv, FreshStart, NotYetUsed
  <2>8. OnceInv'
    BY <2>1, <2>4 DEF OnceInv
  <2> QED
    BY <2>5, <2>6, <2>7, <2>8 DEF RunInv
<1>3. CASE RunConvert
  <2>1. Next /\ step = "run"
    BY <1>3 DEF RunConvert
  <2>2. pc # "not called"
    BY <2>1 DEF CallInv
  <2>3. Numbers'
    BY <2>1, NumbersStep DEF RunInv
  <2>4. pc' # "not called"
    BY <2>1, <2>2, PassStep
  <2>5. FreshInv'
    BY <2>1, FreshStep DEF RunInv, Numbers, TmpFileThere
  <2>6. OnceInv'
    BY <2>1, OnceStep DEF RunInv
  <2>7. WholeInv'
    BY <2>1, WholeStep DEF RunInv
  <2> QED
    BY <2>3, <2>4, <2>5, <2>6, <2>7 DEF RunInv, NotYetUsed
<1>4. ProgramNext => UNCHANGED vars \/ Dispatch \/ RunConvert
  BY DEF ProgramNext, ParseGlobalOptions, FromCmdLineArgs, RequestedBitFormat, NewExtension,
         InputRefused, Return
<1> QED
  BY <1>1, <1>2, <1>3, <1>4 DEF programVars
-------------------------------------------------------------------------------
(***************************************************************************)
(* The job.                                                                *)
(***************************************************************************)
\* The job is for the same files.
SameJob ==
  /\ JobFields \subseteq DOMAIN ci'
  /\ ci'.inputFilename = ci.inputFilename /\ ci'.outputFilename = ci.outputFilename
  /\ ci'.rawInput = ci.rawInput /\ ci'.bRf64 = ci.bRf64 /\ ci'.gain = ci.gain
  /\ groups' = groups

LEMMA TakesStep ==
  ASSUME JobFields \subseteq DOMAIN ci, groups' = groups, NEW bitFormat, Takes(bitFormat)
  PROVE  /\ SameJob
         /\ ci'.outputFormat = determineOutputFormat(bitFormat)
         /\ ci'.outBitFormat = IF determineOutputFormat(bitFormat) # NoFormat THEN bitFormat
                                                                           ELSE ci.outBitFormat
<1> DEFINE format == determineOutputFormat(bitFormat)
<1>1. ci' = IF format # NoFormat
              THEN [ci EXCEPT !.outputFormat = format, !.outBitFormat = bitFormat]
              ELSE [ci EXCEPT !.outputFormat = NoFormat]
  BY DEF Takes
<1> HIDE DEF format
<1>2. CASE format # NoFormat
  <2>1. ci' = [ci EXCEPT !.outputFormat = format, !.outBitFormat = bitFormat]
    BY <1>1, <1>2
  <2> QED
    BY <2>1, <1>2 DEF SameJob, JobFields, format
<1>3. CASE format = NoFormat
  <2>1. ci' = [ci EXCEPT !.outputFormat = NoFormat]
    BY <1>1, <1>3
  <2> QED
    BY <2>1, <1>3 DEF SameJob, JobFields, format
<1> QED
  BY <1>2, <1>3

LEMMA JobStep ==
  ASSUME JobFields \subseteq DOMAIN ci, groups' = groups, ci' = Job
  PROVE  SameJob /\ ci'.outputFormat = ci.outputFormat
<1>1. \/ ci' = ci
      \/ ci' = [ci EXCEPT !.bNormalize = TRUE]
      \/ ci' = [ci EXCEPT !.IQModulationType = "WFM_NO_LOWPASS"]
      \/ ci' = [ci EXCEPT !.IQModulationType = "WFM_NO_LOWPASS",
                          !.lpf.cutoff = PercentOfNyquist(lpfT),
                          !.lpf.transition = PercentOfNyquist(lpfW)]
  BY DEF Job
<1>2. CASE ci' = ci
  BY <1>2 DEF SameJob, JobFields
<1>3. CASE ci' = [ci EXCEPT !.bNormalize = TRUE]
  BY <1>3 DEF SameJob, JobFields
<1>4. CASE ci' = [ci EXCEPT !.IQModulationType = "WFM_NO_LOWPASS"]
  BY <1>4 DEF SameJob, JobFields
<1>5. CASE ci' = [ci EXCEPT !.IQModulationType = "WFM_NO_LOWPASS",
                            !.lpf.cutoff = PercentOfNyquist(lpfT),
                            !.lpf.transition = PercentOfNyquist(lpfW)]
  BY <1>5 DEF SameJob, JobFields
<1> QED
  BY <1>1, <1>2, <1>3, <1>4, <1>5

LEMMA CallStep ==
  ASSUME CallInv, RunInv, [ProgramNext]_programVars
  PROVE  CallInv'
<1> USE DEF CallInv, Before
<1>1. CASE ParseGlobalOptions
  BY <1>1 DEF ParseGlobalOptions, Exit, GoOn, vars
<1>2. CASE FromCmdLineArgs
  <2>1. ci' = ci \/ ci' = fromCmdLineArgs(args)
    BY <1>2 DEF FromCmdLineArgs
  <2>2. JobFields \subseteq DOMAIN ci' /\ ci'.gain \in Int
    BY <2>1, JobRead
  <2>3. step = "arguments" /\ step' \in {"dispatch", "format", "exit"} /\ pc' = pc
    BY <1>2 DEF FromCmdLineArgs, Exit, GoOn, vars
  <2> QED
    BY <2>2, <2>3
<1>3. CASE RequestedBitFormat \/ NewExtension
  <2>1. groups' = groups /\ pc' = pc
    BY <1>3 DEF RequestedBitFormat, NewExtension, vars
  <2>2. (\E bitFormat : Takes(bitFormat)) \/ UNCHANGED ci
    BY <1>3 DEF RequestedBitFormat, NewExtension, TakesBest
  <2>3. JobFields \subseteq DOMAIN ci' /\ ci'.gain \in Int
    BY <2>1, <2>2, TakesStep DEF SameJob
  <2>4. step \in Before /\ step' \in {"extension", "dispatch", "exit"}
    BY <1>3 DEF RequestedBitFormat, NewExtension, TakesBest, Exit, GoOn
  <2> QED
    BY <2>1, <2>3, <2>4
<1>4. CASE Dispatch
  <2>1. ci' = Job /\ groups' = groups /\ step' = "run" /\ pc' = "open"
    BY <1>4 DEF Dispatch, GoOn
  <2>2. SameJob
    BY <2>1, JobStep
  <2> QED
    BY <2>1, <2>2 DEF SameJob
<1>5. CASE InputRefused
  BY <1>5 DEF InputRefused, Exit
<1>6. CASE RunConvert
  <2>1. Next /\ step = "run" /\ UNCHANGED <<ci, step>>
    BY <1>6 DEF RunConvert
  <2>2. pc' # "not called"
    BY <2>1, PassStep DEF RunInv
  <2> QED
    BY <2>1, <2>2
<1>7. CASE Return
  BY <1>7 DEF Return, Exit
<1>8. CASE UNCHANGED programVars
  BY <1>8 DEF programVars, vars
<1> QED
  BY <1>1, <1>2, <1>3, <1>4, <1>5, <1>6, <1>7, <1>8 DEF ProgramNext
-------------------------------------------------------------------------------
(***************************************************************************)
(* The format of the output.                                               *)
(***************************************************************************)
\* The format that was chosen is one for the extension, and the one that was asked for.
GoodFormat ==
  /\ ci.outputFormat # NoFormat
  /\ ci.outputFormat.major = Major[outFileExt]
  /\ asked \in DOMAIN subFormats => ci.outputFormat.sub \in SubAsked

\* How far the choice of the format has come.
FormatInv ==
  InputOpens /\ KnownExtension =>
    /\ step = "format" => ci.outBitFormat = asked
    /\ step = "extension" =>
         /\ asked \in DOMAIN subFormats => ci.outBitFormat = asked /\ GoodFormat
         /\ ci.outBitFormat # None => ci.outBitFormat \in DOMAIN subFormats
    /\ step \in {"dispatch", "run"} /\ outFileExt # "csv" =>
         (outFileExt # inFileExt \/ asked \in DOMAIN subFormats => GoodFormat)

\* convert() has an input, and an output that can be written once it is open.
OutputInv ==
  step = "run" =>
    /\ InputOpens
    /\ outputKind # "csv" => outFileExt # "csv"
    /\ outputKind # "csv" /\ pc \in {"convert", "test", "rewrite", "decide", "returned"} =>
         Writable

LEMMA FormatOf ==
  ASSUME outFileExt \in DOMAIN Major, NEW bitFormat \in DOMAIN subFormats
  PROVE  /\ determineOutputFormat(bitFormat) # NoFormat
         /\ determineOutputFormat(bitFormat).major = Major[outFileExt]
         /\ determineOutputFormat(bitFormat).sub \in
              {subFormats[bitFormat]} \cup IF bitFormat = "8" THEN {"s8"} ELSE {}
<1>1. Major[outFileExt] # None
  BY FormatAssumption
<1>2. CASE bitFormat = "8"
  BY <1>1, <1>2, FormatAssumption DEF determineOutputFormat, NoFormat
<1>3. CASE bitFormat # "8"
  BY <1>1, <1>3 DEF determineOutputFormat, NoFormat
<1> QED
  BY <1>2, <1>3

LEMMA BestOf ==
  ASSUME InputOpens, outFileExt \in DOMAIN Major, outFileExt \in DOMAIN defaultSubFormats,
         NEW bitFormat \in determineBestBitFormat, bitFormat # Fault
  PROVE  bitFormat \in DOMAIN subFormats
<1>1. bitFormat \in DefaultBitFormat
  BY DEF determineBestBitFormat, InputOpens
<1> QED
  BY <1>1, FormatAssumption DEF DefaultBitFormat

\* Nothing that the format is judged by changes with the job.
LEMMA SameJudgement ==
  ASSUME SameJob
  PROVE  /\ InputOpens' = InputOpens /\ KnownExtension' = KnownExtension
         /\ asked' = asked /\ SubAsked' = SubAsked /\ AsksForInformation' = AsksForInformation
         /\ outFileExt' = outFileExt /\ inFileExt' = inFileExt
<1>1. asked' = asked /\ AsksForInformation' = AsksForInformation
  BY DEF SameJob, asked, AsksForInformation, args
<1>2. outFileExt' = outFileExt /\ inFileExt' = inFileExt
  BY DEF SameJob, outFileExt, inFileExt
<1>3. InputOpens' = InputOpens
  BY <1>2 DEF SameJob, InputOpens, dsd
<1> QED
  BY <1>1, <1>2, <1>3 DEF KnownExtension, SubAsked

LEMMA SameFormat ==
  ASSUME SameJob, ci'.outputFormat = ci.outputFormat
  PROVE  GoodFormat' = GoodFormat
<1>1. asked' = asked /\ SubAsked' = SubAsked /\ outFileExt' = outFileExt
  BY SameJudgement
<1> QED
  BY <1>1 DEF GoodFormat

\* A bit format that is known, taken for an extension that is known.
LEMMA TakesGood ==
  ASSUME JobFields \subseteq DOMAIN ci, groups' = groups, KnownExtension,
         NEW bitFormat \in DOMAIN subFormats, Takes(bitFormat),
         asked \in DOMAIN subFormats => bitFormat = asked
  PROVE  GoodFormat' /\ ci'.outBitFormat = bitFormat /\ SameJob
<1>1. /\ SameJob
      /\ ci'.outputFormat = determineOutputFormat(bitFormat)
      /\ ci'.outBitFormat = IF determineOutputFormat(bitFormat) # NoFormat THEN bitFormat
                                                                        ELSE ci.outBitFormat
  BY TakesStep
<1>2. /\ determineOutputFormat(bitFormat) # NoFormat
      /\ determineOutputFormat(bitFormat).major = Major[outFileExt]
      /\ determineOutputFormat(bitFormat).sub \in
           {subFormats[bitFormat]} \cup IF bitFormat = "8" THEN {"s8"} ELSE {}
  BY FormatOf DEF KnownExtension
<1>3. asked' = asked /\ SubAsked' = SubAsked /\ outFileExt' = outFileExt
  BY <1>1, SameJudgement
<1>4. asked \in DOMAIN subFormats => determineOutputFormat(bitFormat).sub \in SubAsked
  BY <1>2 DEF SubAsked
<1> QED
  BY <1>1, <1>2, <1>3, <1>4 DEF GoodFormat

LEMMA RequestedStep ==
  ASSUME CallInv, FormatInv, RequestedBitFormat
  PROVE  FormatInv'
<1> USE DEF GoOn, Exit
<1>0. groups' = groups /\ JobFields \subseteq DOMAIN ci /\ step = "format"
  BY DEF RequestedBitFormat, CallInv
<1>1. CASE step' = "exit"
  BY <1>1 DEF FormatInv
<1>2. CASE step' # "exit" /\ ci.outBitFormat = None
  <2>1. SameJob /\ ci' = ci /\ step' = "extension"
    BY <1>0, <1>2 DEF RequestedBitFormat, SameJob
  <2>2. ASSUME InputOpens, KnownExtension
        PROVE  asked = None /\ asked \notin DOMAIN subFormats
    BY <1>0, <1>2, <2>2, FormatAssumption DEF FormatInv
  <2> QED
    BY <2>1, <2>2, <1>2, SameJudgement DEF FormatInv
<1>3. CASE step' # "exit" /\ ci.outBitFormat # None
  <2>1. PICK bitFormat :
          /\ Takes(bitFormat)
          /\ \/ bitFormat = ci.outBitFormat /\ determineOutputFormat(ci.outBitFormat) # NoFormat
             \/ /\ bitFormat \in determineBestBitFormat /\ bitFormat # Fault
                /\ determineOutputFormat(ci.outBitFormat) = NoFormat
    BY <1>3 DEF RequestedBitFormat, TakesBest
  <2>2. SameJob /\ step' = "extension"
    BY <1>0, <1>3, <2>1, TakesStep DEF RequestedBitFormat, TakesBest
  <2>3. ASSUME InputOpens, KnownExtension
        PROVE  /\ bitFormat \in DOMAIN subFormats
               /\ asked \in DOMAIN subFormats => bitFormat = asked
    <3>1. ci.outBitFormat = asked
      BY <1>0, <2>3 DEF FormatInv
    <3>2. CASE asked \in DOMAIN subFormats
      <4>1. determineOutputFormat(asked) # NoFormat
        BY <2>3, <3>2, FormatOf DEF KnownExtension
      <4> QED
        BY <2>1, <3>1, <3>2, <4>1
    <3>3. CASE asked \notin DOMAIN subFormats
      <4>1. asked # "8"
        BY <3>3, FormatAssumption
      <4>2. determineOutputFormat(asked) = NoFormat
        BY <3>3, <4>1 DEF determineOutputFormat
      <4>3. bitFormat \in determineBestBitFormat /\ bitFormat # Fault
        BY <2>1, <3>1, <4>2
      <4>4. outFileExt \in DOMAIN Major /\ outFileExt \in DOMAIN defaultSubFormats
        BY <2>3, <3>3 DEF KnownExtension
      <4> QED
        BY <2>3, <3>3, <4>3, <4>4, BestOf
    <3> QED
      BY <3>2, <3>3
  <2>4. ASSUME InputOpens, KnownExtension
        PROVE  GoodFormat' /\ ci'.outBitFormat = bitFormat
    BY <1>0, <2>1, <2>3, <2>4, TakesGood
  <2> QED
    BY <2>2, <2>3, <2>4, SameJudgement DEF FormatInv
<1> QED
  BY <1>1, <1>2, <1>3

LEMMA ExtensionStep ==
  ASSUME CallInv, FormatInv, NewExtension
  PROVE  FormatInv'
<1> USE DEF GoOn, Exit
<1>0. groups' = groups /\ JobFields \subseteq DOMAIN ci /\ step = "extension"
  BY DEF NewExtension, CallInv
<1>1. CASE step' = "exit"
  BY <1>1 DEF FormatInv
<1>2. CASE step' # "exit" /\ outFileExt = inFileExt
  <2>1. SameJob /\ ci' = ci /\ step' = "dispatch"
    BY <1>0, <1>2 DEF NewExtension, SameJob
  <2>2. GoodFormat' = GoodFormat
    BY <2>1, SameFormat
  <2> QED
    BY <1>0, <1>2, <2>1, <2>2, SameJudgement DEF FormatInv
<1>3. CASE step' # "exit" /\ outFileExt # inFileExt
  <2>1. PICK bitFormat :
          /\ Takes(bitFormat)
          /\ \/ ci.outBitFormat # None /\ bitFormat = ci.outBitFormat
             \/ /\ ci.outBitFormat = None
                /\ bitFormat \in determineBestBitFormat /\ bitFormat # Fault
    BY <1>3 DEF NewExtension, TakesBest
  <2>2. SameJob /\ step' = "dispatch"
    BY <1>0, <1>3, <2>1, TakesStep DEF NewExtension, TakesBest
  <2>3. ASSUME InputOpens, KnownExtension
        PROVE  /\ bitFormat \in DOMAIN subFormats
               /\ asked \in DOMAIN subFormats => bitFormat = asked
    <3>1. /\ asked \in DOMAIN subFormats => ci.outBitFormat = asked
          /\ ci.outBitFormat # None => ci.outBitFormat \in DOMAIN subFormats
      BY <1>0, <2>3 DEF FormatInv
    <3>2. CASE ci.outBitFormat # None
      BY <2>1, <3>1, <3>2
    <3>3. CASE ci.outBitFormat = None
      <4>1. asked \notin DOMAIN subFormats
        BY <3>1, <3>3, FormatAssumption
      <4>2. outFileExt \in DOMAIN Major /\ outFileExt \in DOMAIN defaultSubFormats
        BY <2>3, <4>1 DEF KnownExtension
      <4>3. bitFormat \in determineBestBitFormat /\ bitFormat # Fault
        BY <2>1, <3>3
      <4> QED
        BY <2>3, <4>1, <4>2, <4>3, BestOf
    <3> QED
      BY <3>2, <3>3
  <2>4. ASSUME InputOpens, KnownExtension
        PROVE  GoodFormat'
    BY <1>0, <2>1, <2>3, <2>4, TakesGood
  <2> QED
    BY <2>2, <2>4, SameJudgement DEF FormatInv
<1> QED
  BY <1>1, <1>2, <1>3

LEMMA FormatStep ==
  ASSUME CallInv, FormatInv, [ProgramNext]_programVars
  PROVE  FormatInv'
<1>1. CASE ParseGlobalOptions
  BY <1>1 DEF ParseGlobalOptions, Exit, GoOn, FormatInv
<1>2. CASE FromCmdLineArgs
  <2>1. step' \in {"exit", "dispatch", "format"} /\ groups' = groups
    BY <1>2 DEF FromCmdLineArgs, Exit, GoOn
  <2>2. ASSUME step' # "exit"
        PROVE  /\ ci'.outBitFormat = asked'
               /\ step' = "dispatch" => outFileExt' = "csv"
    <3>1. ci' = fromCmdLineArgs(args)
      BY <1>2, <2>2 DEF FromCmdLineArgs, Exit
    <3>2. ci'.outBitFormat = TextOf(args, "-b", None)
      BY <3>1, JobRead
    <3>3. asked' = TextOf(args, "-b", None)
      BY <2>1 DEF asked, args
    <3>4. step' = "dispatch" => Extension[ci'.outputFilename] = "csv"
      BY <1>2, <2>2 DEF FromCmdLineArgs, Exit, GoOn
    <3> QED
      BY <3>2, <3>3, <3>4 DEF outFileExt
  <2> QED
    BY <2>1, <2>2 DEF FormatInv
<1>3. CASE RequestedBitFormat
  BY <1>3, RequestedStep
<1>4. CASE NewExtension
  BY <1>4, ExtensionStep
<1>5. CASE Dispatch
  <2>1. ci' = Job /\ groups' = groups /\ step' = "run" /\ step = "dispatch"
    BY <1>5 DEF Dispatch, GoOn
  <2>2. SameJob /\ ci'.outputFormat = ci.outputFormat
    BY <2>1, JobStep DEF CallInv
  <2> QED
    BY <2>1, <2>2, SameJudgement, SameFormat DEF FormatInv
<1>6. CASE InputRefused \/ Return
  BY <1>6 DEF InputRefused, Return, Exit, FormatInv
<1>7. CASE RunConvert \/ UNCHANGED programVars
  <2>1. UNCHANGED <<groups, ci, step>>
    BY <1>7 DEF RunConvert, programVars
  <2>2. SameJob
    BY <2>1 DEF SameJob, CallInv
  <2> QED
    BY <2>1, <2>2, SameJudgement, SameFormat DEF FormatInv
<1> QED
  BY <1>1, <1>2, <1>3, <1>4, <1>5, <1>6, <1>7 DEF ProgramNext

LEMMA OutputStep ==
  ASSUME CallInv, OutputInv, [ProgramNext]_programVars
  PROVE  OutputInv'
<1>1. CASE step' # "run"
  BY <1>1 DEF OutputInv
<1>2. CASE Dispatch
  <2>1. ci' = Job /\ groups' = groups /\ pc' = "open" /\ InputOpens
        /\ (outputKind' # "csv" => outFileExt # "csv")
    BY <1>2 DEF Dispatch, KindOfOutput
  <2>2. SameJob
    BY <2>1, JobStep DEF CallInv
  <2> QED
    BY <2>1, <2>2, SameJudgement DEF OutputInv
<1>3. CASE RunConvert
  <2>1. Next /\ step = "run" /\ UNCHANGED <<groups, ci>>
        /\ (pc = "open" /\ outputKind # "csv" /\ ~Writable => pc' = "failed")
    BY <1>3 DEF RunConvert
  <2>2. SameJob
    BY <2>1 DEF SameJob, CallInv
  <2>3. Writable' = Writable
    BY <2>1, <2>2 DEF Writable, outputFileFormat, inputFileFormat, dsd, inFileExt
  <2>4. outputKind' = outputKind
    BY <2>1 DEF Next, OpenFails, Open, ConvertAll, TestForClipping, Rewrite, Decide, CsvThrows,
                CsvCloseThrows, options
  <2>5. pc \in {"convert", "test", "rewrite", "decide", "returned"} \/ pc = "open"
    BY <2>1 DEF Next, OpenFails, Open, ConvertAll, TestForClipping, Rewrite, Decide, CsvThrows,
                CsvCloseThrows
  <2> QED
    BY <2>1, <2>2, <2>3, <2>4, <2>5, SameJudgement DEF OutputInv
<1>4. CASE UNCHANGED programVars
  <2>1. UNCHANGED <<groups, ci, step, pc, outputKind>>
    BY <1>4 DEF programVars, vars, options
  <2>2. SameJob
    BY <2>1 DEF SameJob, CallInv
  <2>3. Writable' = Writable
    BY <2>1 DEF Writable, outputFileFormat, inputFileFormat, dsd, inFileExt
  <2> QED
    BY <2>1, <2>2, <2>3, SameJudgement DEF OutputInv
<1>5. step' = "run" /\ ProgramNext => Dispatch \/ RunConvert
  BY DEF ProgramNext, ParseGlobalOptions, FromCmdLineArgs, RequestedBitFormat, NewExtension,
         TakesBest, InputRefused, Return, Exit, GoOn
<1> QED
  BY <1>1, <1>2, <1>3, <1>4, <1>5

\* convert() has returned true.
LEMMA Earned ==
  ASSUME CallInv, RunInv, FormatInv, OutputInv, step = "run", pc = "returned"
  PROVE  /\ ~csvErr => Len(outFile) = IF NeverRewound THEN TimesWritten ELSE 1
         /\ outputKind = "csv" /\ ~tmpCut => Partial \notin Range(outFile)
         /\ outputKind # "csv" =>
              /\ Writable
              /\ KnownExtension =>
                   /\ outFileExt # inFileExt => outputFileFormat.major \in MajorOfExtension
                   /\ asked \in DOMAIN subFormats => outputFileFormat.sub \in SubAsked
<1>1. ~csvErr => Len(outFile) = IF NeverRewound THEN TimesWritten ELSE 1
  BY DEF RunInv, OnceInv
<1>4. outputKind = "csv" /\ ~tmpCut => Partial \notin Range(outFile)
  BY DEF RunInv, WholeInv
<1>2. outputKind # "csv" => Writable
  BY DEF OutputInv
<1>3. ASSUME outputKind # "csv", KnownExtension,
             outFileExt # inFileExt \/ asked \in DOMAIN subFormats
      PROVE  /\ outputFileFormat.major \in MajorOfExtension
             /\ asked \in DOMAIN subFormats => outputFileFormat.sub \in SubAsked
  <2>1. GoodFormat
    BY <1>3 DEF OutputInv, FormatInv
  <2>2. \/ outputFileFormat = ci.outputFormat
        \/ /\ ci.outputFormat.major = "wav"
           /\ outputFileFormat = [ci.outputFormat EXCEPT !.major = "rf64"]
    BY <2>1 DEF GoodFormat, outputFileFormat
  <2>3. CASE outputFileFormat = ci.outputFormat
    BY <2>1, <2>3 DEF GoodFormat, MajorOfExtension
  <2>4. CASE /\ ci.outputFormat.major = "wav"
             /\ outputFileFormat = [ci.outputFormat EXCEPT !.major = "rf64"]
    BY <2>1, <2>4 DEF GoodFormat, MajorOfExtension
  <2> QED
    BY <2>2, <2>3, <2>4
<1> QED
  BY <1>1, <1>2, <1>3, <1>4

LEMMA SuccessStep ==
  ASSUME CallInv, RunInv, FormatInv, OutputInv, SuccessMeansDone, [ProgramNext]_programVars
  PROVE  SuccessMeansDone'
<1>1. CASE UNCHANGED programVars
  <2>1. UNCHANGED <<groups, ci, step, status, bTmpFile, outputKind, outFile, tmpCut, csvErr,
                    clippingProtectionAttempts, peakOutputSample>>
    BY <1>1 DEF programVars, vars, options, files
  <2> QED
    BY <2>1 DEF SuccessMeansDone, AsksForInformation, args, NeverRewound, TimesWritten, Clipping,
                Writable, KnownExtension,
                asked, outFileExt, inFileExt, outputFileFormat, inputFileFormat, dsd,
                MajorOfExtension, SubAsked
<1>2. CASE Return
  <2>1. UNCHANGED <<groups, ci, bTmpFile, outputKind, outFile, tmpCut, csvErr,
                    clippingProtectionAttempts, peakOutputSample>>
        /\ step = "run" /\ (status' = "success" => pc = "returned")
    BY <1>2 DEF Return, Exit, vars, options, files
  <2>2. ASSUME status' = "success"
        PROVE  SuccessMeansDone'
    <3>1. /\ ~csvErr => Len(outFile) = IF NeverRewound THEN TimesWritten ELSE 1
          /\ outputKind = "csv" /\ ~tmpCut => Partial \notin Range(outFile)
          /\ outputKind # "csv" =>
               /\ Writable
               /\ KnownExtension =>
                    /\ outFileExt # inFileExt => outputFileFormat.major \in MajorOfExtension
                    /\ asked \in DOMAIN subFormats => outputFileFormat.sub \in SubAsked
      BY <2>1, <2>2, Earned
    <3> QED
      BY <2>1, <3>1
      DEF SuccessMeansDone, args, NeverRewound, TimesWritten, Clipping, Writable,
          KnownExtension, asked, outFileExt,
          inFileExt, outputFileFormat, inputFileFormat, dsd, MajorOfExtension, SubAsked
  <2> QED
    BY <2>2 DEF SuccessMeansDone
<1>3. CASE ParseGlobalOptions
  <2>1. groups' = groups /\ (step' = "exit" => AsksForInformation)
    BY <1>3 DEF ParseGlobalOptions, Exit, GoOn
  <2> QED
    BY <2>1 DEF SuccessMeansDone, AsksForInformation, args
<1>4. CASE ProgramNext /\ ~Return /\ ~ParseGlobalOptions
  <2>1. step' # "exit" \/ status' # "success"
    BY <1>4 DEF ProgramNext, FromCmdLineArgs, RequestedBitFormat, NewExtension, TakesBest,
                Dispatch, InputRefused, RunConvert, Exit, GoOn
  <2> QED
    BY <2>1 DEF SuccessMeansDone
<1> QED
  BY <1>1, <1>2, <1>3, <1>4
-------------------------------------------------------------------------------
ProgramInv == CallInv /\ RunInv /\ FormatInv /\ OutputInv /\ SuccessMeansDone

LEMMA InitProgramInv == ProgramInit => ProgramInv
<1> SUFFICES ASSUME ProgramInit
             PROVE  ProgramInv
  OBVIOUS
<1>1. CallInv
  BY JobRead DEF ProgramInit, CallInv, Before
<1>2. RunInv
  <2>1. /\ pc = "not called" /\ converters = "fresh" /\ ditherers = "fresh"
        /\ signal = 0 /\ effect = 100 /\ gain = 0 /\ peakOutputSample = 0
        /\ clippingProtectionAttempts = 0
        /\ tmpFile = NoFile /\ tmpCut = FALSE /\ csvErr = FALSE /\ outFile = <<>>
    BY DEF ProgramInit
  <2>2. Numbers
    <3>1. outFile \in Seq(Conversions)
      BY <2>1, NothingWritten
    <3> QED
      BY <2>1, <3>1 DEF Numbers, TmpFileThere, RewritesTmpFile
  <2>3. OnceInv /\ NotYetUsed
    BY <2>1 DEF OnceInv, NotYetUsed
  <2>4. FreshInv /\ WholeInv
    BY <2>1, NothingWritten DEF FreshInv, FreshStart, WholeInv
  <2> QED
    BY <2>2, <2>3, <2>4 DEF RunInv
<1>3. FormatInv /\ OutputInv /\ SuccessMeansDone
  BY DEF ProgramInit, FormatInv, OutputInv, SuccessMeansDone
<1> QED
  BY <1>1, <1>2, <1>3 DEF ProgramInv

\* The choice of the format, the passes, how often they write the output and what success
\* says of it, from the words of any command line on.
THEOREM ProgramInvariant == ProgramSpec => []ProgramInv
<1>1. ProgramInv /\ [ProgramNext]_programVars => ProgramInv'
  BY CallStep, RunStep, FormatStep, OutputStep, SuccessStep DEF ProgramInv
<1> QED
  BY InitProgramInv, <1>1, PTL DEF ProgramSpec

\* The conversions that runCommand() starts, and their repetitions, know nothing of an
\* earlier one.
THEOREM ProgramStartsFresh == ProgramSpec => []FreshStart
<1>1. ProgramInv => FreshStart
  BY DEF ProgramInv, RunInv, FreshInv
<1> QED
  BY ProgramInvariant, <1>1, PTL

\* When convert() returns to runCommand() the output has been written once, whatever gain
\* was asked for, or, from a temporary file into one that is never rewound, once for each
\* rewrite.
THEOREM ProgramConversionsCounted == ProgramSpec => []ConversionsInOutput
<1>1. ProgramInv => ConversionsInOutput
  BY DEF ProgramInv, RunInv, OnceInv, ConversionsInOutput
<1> QED
  BY ProgramInvariant, <1>1, PTL

\* EXIT_SUCCESS is returned only for information, or for an output that was written once, or
\* once for each rewrite if it is never rewound, in the format that its extension and -b
\* name; a csv file that could be opened was written whole, if the temporary file was.  (How
\* much of any other output libsndfile wrote is not asked.)
THEOREM SuccessIsEarned == ProgramSpec => []SuccessMeansDone
<1>1. ProgramInv => SuccessMeansDone
  BY DEF ProgramInv
<1> QED
  BY ProgramInvariant, <1>1, PTL
-------------------------------------------------------------------------------
(***************************************************************************)
(* The filter of wideband FM.                                              *)
(***************************************************************************)
\* The converter's filter is narrow enough by itself where it is all there is, and the
\* rate is none at which the band of the music is wider than the output's.
FilterSuits(words) ==
  Found(words, "--demodulateIQ") /\ modulationOf(words) = "WFM" =>
    /\ IntOf(words, "-r", 0) \notin 30001 .. 30999
    /\ IntOf(words, "-r", 0) <= 30000 => ~Found(words, "--lpf-cutoff")

\* The fields of a job that decide about its filter.
RadioFields ==
  {"inputFilename", "outputSampleRate", "bDemodulateIQ", "IQModulationType", "lpf",
   "bNormalize", "outputFormat", "outBitFormat"}

RadioOf(job) ==
  <<job.inputFilename, job.outputSampleRate, job.bDemodulateIQ, job.IQModulationType, job.lpf>>

\* What a command line says of the filter, until convert() is called.
RadioInv ==
  /\ groups \in Lines
  /\ step \in {"format", "extension", "dispatch"} =>
       /\ RadioFields \subseteq DOMAIN ci
       /\ RadioOf(ci) = RadioOf(fromCmdLineArgs(args))
  /\ PilotIsRemoved

LEMMA UnitOfScale == \E k \in Nat \ {0} : Scale = 110 * k
<1> DEFINE k == Scale \div 110
<1>1. Scale \in Nat \ {0} /\ Scale % 110 = 0
  BY CommandLineAssumption
<1>2. k \in Nat /\ Scale = 110 * k
  BY <1>1
<1>3. k # 0
  BY <1>1, <1>2
<1> QED
  BY <1>2, <1>3

LEMMA LimitedIs ==
  ASSUME NEW value \in Int, NEW least \in Int, NEW most \in Int, least <= most
  PROVE  /\ Limited(value, least, most) \in least .. most
         /\ value \in least .. most => Limited(value, least, most) = value
BY DEF Limited

\* A low-pass filter as it is read: its cutoff is less than the Nyquist frequency, and
\* unless it is a custom one all it lets through is in 105 % of that.
LEMMA FilterRead ==
  ASSUME NEW words
  PROVE  LET lpf == lpfOf(words) IN
         /\ DOMAIN lpf = {"mode", "cutoff", "transition"}
         /\ lpf.cutoff \in Scale .. (999 * Scale) \div 10
         /\ lpf.transition \in Scale \div 10 .. 400 * Scale
         /\ lpf.cutoff \in Nat /\ lpf.transition \in Nat
         /\ lpf.cutoff <= 100 * Scale
         /\ ~Found(words, "--lpf-cutoff") => 100 * (lpf.cutoff + lpf.transition) <= 105 * 100 * Scale
<1> DEFINE relaxed == Found(words, "--relaxedLPF")
           steep == Found(words, "--steepLPF")
           custom == Found(words, "--lpf-cutoff")
           late == (100 * Scale * 21) \div 22
           named == IF relaxed \/ steep THEN late ELSE (100 * Scale * 10) \div 11
           width == (100 * Scale - named) * IF relaxed /\ ~steep THEN 2 ELSE 1
           cutoff == NumberOf(words, "--lpf-cutoff", named)
           wide == IF ~custom THEN width
                   ELSE IF Found(words, "--lpf-transition")
                          THEN NumberOf(words, "--lpf-transition", width)
                   ELSE 100 * Scale - cutoff
           lpf == lpfOf(words)
<1>1. PICK k \in Nat \ {0} : Scale = 110 * k
  BY UnitOfScale
<1>2. /\ late = 10500 * k /\ (100 * Scale * 10) \div 11 = 10000 * k
      /\ (999 * Scale) \div 10 = 10989 * k /\ Scale \div 10 = 11 * k
      /\ 100 * Scale = 11000 * k /\ 400 * Scale = 44000 * k
  BY <1>1
<1>3. /\ DOMAIN lpf = {"mode", "cutoff", "transition"}
      /\ lpf.cutoff = Limited(cutoff, Scale, (999 * Scale) \div 10)
      /\ lpf.transition = Limited(wide, Scale \div 10, 400 * Scale)
  BY DEF lpfOf
<1> HIDE DEF lpf, relaxed, steep, custom, late
<1>4. named \in {10000 * k, 10500 * k} /\ named \in Int
  BY <1>1, <1>2
<1>5. width \in Int /\ width \in 11 * k .. 1000 * k /\ named + width <= 11500 * k
  <2>1. /\ relaxed /\ ~steep => named = 10500 * k /\ width = 2 * (11000 * k - 10500 * k)
        /\ ~(relaxed /\ ~steep) => width = 11000 * k - named
    BY <1>1, <1>2, <1>4
  <2> HIDE DEF named, width
  <2> QED
    BY <1>1, <1>4, <2>1
<1> HIDE DEF named, width
<1>6. cutoff \in Int
  BY <1>4, NumberInt
<1> HIDE DEF cutoff
<1>7. wide \in Int
  <2>1. NumberOf(words, "--lpf-transition", width) \in Int
    BY <1>5, NumberInt
  <2> QED
    BY <1>1, <1>2, <1>5, <1>6, <2>1
<1>8. lpf.cutoff \in 110 * k .. 10989 * k /\ lpf.transition \in 11 * k .. 44000 * k
  <2> HIDE DEF wide
  <2>1. lpf.cutoff = Limited(cutoff, 110 * k, 10989 * k) /\ lpf.transition = Limited(wide, 11 * k, 44000 * k)
    BY <1>1, <1>2, <1>3
  <2>2. 110 * k \in Int /\ 10989 * k \in Int /\ 11 * k \in Int /\ 44000 * k \in Int
        /\ 110 * k <= 10989 * k /\ 11 * k <= 44000 * k
    BY <1>1
  <2> QED
    BY <1>6, <1>7, <2>1, <2>2, LimitedIs
<1>9. ASSUME ~custom PROVE 100 * (lpf.cutoff + lpf.transition) <= 105 * 100 * Scale
  <2>1. cutoff = named
    <3>1. WordAfter(words, "--lpf-cutoff") = None
      BY <1>9 DEF custom, Found, WordAfter
    <3>2. None \notin DOMAIN Number
      BY CommandLineAssumption
    <3> QED
      BY <3>1, <3>2 DEF cutoff, NumberOf
  <2>2. wide = width
    BY <1>9
  <2>3. lpf.cutoff = named
    <3>1. lpf.cutoff = Limited(named, 110 * k, 10989 * k)
      BY <1>1, <1>2, <1>3, <2>1
    <3>2. /\ 110 * k \in Int /\ 10989 * k \in Int /\ 110 * k <= 10989 * k
          /\ named \in 110 * k .. 10989 * k
      BY <1>1, <1>4
    <3> QED
      BY <1>4, <3>1, <3>2, LimitedIs
  <2>4. lpf.transition = width
    <3>1. lpf.transition = Limited(width, 11 * k, 44000 * k)
      BY <1>1, <1>2, <1>3, <2>2
    <3>2. /\ 11 * k \in Int /\ 44000 * k \in Int /\ 11 * k <= 44000 * k
          /\ width \in 11 * k .. 44000 * k
      BY <1>1, <1>5
    <3> QED
      BY <1>5, <3>1, <3>2, LimitedIs
  <2> QED
    BY <1>1, <1>4, <1>5, <2>3, <2>4
<1>10. /\ lpf.cutoff \in Scale .. (999 * Scale) \div 10
       /\ lpf.transition \in Scale \div 10 .. 400 * Scale
  <2> DEFINE c == lpf.cutoff
             t == lpf.transition
             most == (999 * Scale) \div 10
             least == Scale \div 10
  <2>1. c \in 110 * k .. 10989 * k /\ t \in 11 * k .. 44000 * k
    BY <1>8
  <2>2. Scale = 110 * k /\ most = 10989 * k /\ least = 11 * k /\ 400 * Scale = 44000 * k
    BY <1>1, <1>2
  <2> HIDE DEF c, t, most, least
  <2>3. c \in Scale .. most /\ t \in least .. 400 * Scale
    BY ONLY <2>1, <2>2
  <2> QED
    BY <2>3 DEF c, t, most, least
<1>11. lpf.cutoff \in Nat /\ lpf.transition \in Nat /\ lpf.cutoff <= 100 * Scale
  BY <1>1, <1>8
<1> QED
  BY <1>3, <1>9, <1>10, <1>11 DEF custom, lpf

LEMMA RadioRead ==
  ASSUME NEW words
  PROVE  LET job == fromCmdLineArgs(words) IN
         /\ RadioFields \subseteq DOMAIN job
         /\ job.outputSampleRate = IntOf(words, "-r", 0) /\ job.outputSampleRate \in Int
         /\ job.bDemodulateIQ = Found(words, "--demodulateIQ")
         /\ job.IQModulationType =
              IF Found(words, "--demodulateIQ") THEN modulationOf(words) ELSE "NONE"
         /\ job.IQModulationType \in ModulationTypes
         /\ job.lpf = lpfOf(words)
<1> DEFINE job == fromCmdLineArgs(words)
<1>1. RadioFields \subseteq DOMAIN job
  BY DEF fromCmdLineArgs, RadioFields
<1>2. /\ job.outputSampleRate = IntOf(words, "-r", 0)
      /\ job.bDemodulateIQ = Found(words, "--demodulateIQ")
      /\ job.IQModulationType =
           IF Found(words, "--demodulateIQ") THEN modulationOf(words) ELSE "NONE"
      /\ job.lpf = lpfOf(words)
  BY DEF fromCmdLineArgs
<1>3. IntOf(words, "-r", 0) \in Int
  <2>1. Scale \in Nat \ {0} /\ 0 * Scale \in Int
    BY CommandLineAssumption
  <2>2. NumberOf(words, "-r", 0 * Scale) \in Int
    BY <2>1, NumberInt
  <2> QED
    BY <2>1, <2>2, QuotientInt DEF IntOf
<1>4. modulationOf(words) \in ModulationTypes /\ "NONE" \in ModulationTypes
  BY DEF modulationOf, ModulationTypes
<1> HIDE DEF job
<1> QED
  BY <1>1, <1>2, <1>3, <1>4 DEF job

LEMMA QuotientBound ==
  ASSUME NEW a \in Int, NEW b \in Nat \ {0}, NEW q \in Int, a <= q * b
  PROVE  a \div b <= q
<1> DEFINE r == a \div b
<1>1. r \in Int /\ r * b <= a
  OBVIOUS
<1> HIDE DEF r
<1>2. r <= q
  <2> SUFFICES ASSUME r >= q + 1 PROVE FALSE
    BY <1>1
  <2> DEFINE more == r - (q + 1)
  <2>1. more \in Nat /\ r = q + 1 + more
    BY <1>1
  <2> HIDE DEF more
  <2>2. r * b = q * b + b + more * b /\ more * b \in Nat /\ q * b \in Int
    BY <2>1
  <2> QED
    BY <1>1, <2>2
<1> QED
  BY <1>2 DEF r

\* So much of the output's band, in Hertz.
LEMMA HertzBound ==
  ASSUME NEW percent \in Nat, NEW rate \in Int,
         percent * (rate \div 50) <= 76000 * Scale
  PROVE  (percent * (rate \div 50)) \div (4 * Scale) <= lpfT + lpfW
<1> DEFINE m == rate \div 50
           product == percent * m
           unit == 4 * Scale
<1>1. m \in Int
  OBVIOUS
<1>2. product \in Int /\ unit \in Nat \ {0} /\ product <= 19000 * unit
  <2>1. product \in Int
    BY <1>1
  <2> HIDE DEF product
  <2> QED
    BY <2>1, CommandLineAssumption DEF product
<1> HIDE DEF m, product, unit
<1>3. product \div unit <= 19000
  BY <1>2, QuotientBound
<1> QED
  BY <1>3 DEF product, unit, m, lpfT, lpfW

LEMMA BandAtLowRate ==
  ASSUME NEW percent \in Nat, NEW rate \in Int, rate <= 30000,
         100 * percent <= 105 * 100 * Scale
  PROVE  percent * (rate \div 50) <= 76000 * Scale
<1> DEFINE m == rate \div 50
<1>1. m \in Int /\ m <= 600
  OBVIOUS
<1> HIDE DEF m
<1>2. percent * m <= percent * 600
  BY <1>1
<1>3. percent * m \in Int
  BY <1>1
<1> DEFINE product == percent * m
<1> HIDE DEF product
<1>4. product <= 76000 * Scale
  <2>1. Scale \in Nat
    BY CommandLineAssumption
  <2>2. product \in Int /\ product <= percent * 600
    BY <1>2, <1>3 DEF product
  <2> QED
    BY <2>1, <2>2
<1> QED
  BY <1>4 DEF product, m

\* The band of the music, as percents of the output's.
LEMMA BandOfMusic ==
  ASSUME NEW rate \in Nat, rate >= 31000
  PROVE  LET c == (100 * Scale * lpfT * 2) \div rate
             t == (100 * Scale * lpfW * 2) \div rate
         IN /\ c \in Nat /\ t \in Nat
            /\ c <= 100 * Scale
            /\ (c + t) * (rate \div 50) <= 76000 * Scale
<1> DEFINE c == (100 * Scale * lpfT * 2) \div rate
           t == (100 * Scale * lpfW * 2) \div rate
           m == rate \div 50
<1>1. Scale \in Nat \ {0}
  BY CommandLineAssumption
<1>2. /\ 100 * Scale * lpfT * 2 = 3100000 * Scale
      /\ 100 * Scale * lpfW * 2 = 700000 * Scale
  BY <1>1 DEF lpfT, lpfW
<1>3. c \in Nat /\ c * rate <= 3100000 * Scale
  <2> DEFINE music == 3100000 * Scale
  <2>1. music \in Nat /\ c = music \div rate
    BY <1>1, <1>2
  <2> HIDE DEF music, c
  <2>2. c \in Nat /\ c * rate <= music
    BY <2>1
  <2> QED
    BY <2>2 DEF music
<1>4. t \in Nat /\ t * rate <= 700000 * Scale
  <2> DEFINE edge == 700000 * Scale
  <2>1. edge \in Nat /\ t = edge \div rate
    BY <1>1, <1>2
  <2> HIDE DEF edge, t
  <2>2. t \in Nat /\ t * rate <= edge
    BY <2>1
  <2> QED
    BY <2>2 DEF edge
<1>5. m \in Nat /\ 50 * m <= rate
  OBVIOUS
<1> HIDE DEF c, t, m
<1>6. c <= 100 * Scale
  <2>1. c * 31000 <= c * rate
    BY <1>3
  <2> QED
    BY <1>1, <1>3, <2>1
<1>7. (c + t) * m <= 76000 * Scale
  <2>1. (c + t) * (50 * m) <= (c + t) * rate
    BY <1>3, <1>4, <1>5
  <2>2. (c + t) * rate = c * rate + t * rate
    BY <1>3, <1>4
  <2>3. (c + t) * (50 * m) = 50 * ((c + t) * m)
    BY <1>3, <1>4, <1>5
  <2> DEFINE product == (c + t) * m
             cr == c * rate
             tr == t * rate
  <2>4. product \in Int /\ cr \in Int /\ tr \in Int
    BY <1>3, <1>4, <1>5
  <2>5. 50 * product <= cr + tr /\ cr <= 3100000 * Scale /\ tr <= 700000 * Scale
    BY <1>3, <1>4, <2>1, <2>2, <2>3
  <2> HIDE DEF product, cr, tr
  <2>6. product <= 76000 * Scale
    BY <1>1, <2>4, <2>5
  <2> QED
    BY <2>6 DEF product
<1> QED
  BY <1>3, <1>4, <1>6, <1>7 DEF c, t, m

\* What runCommand() makes of the options of a demodulation.
LEMMA PilotJob ==
  ASSUME RadioFields \subseteq DOMAIN ci, NEW words,
         RadioOf(ci) = RadioOf(fromCmdLineArgs(words)), FilterSuits(words), ci' = Job
  PROVE  PilotIsRemoved'
<1> DEFINE rate == ci.outputSampleRate
           Hertz(percent) == (percent * (rate \div 50)) \div (4 * Scale)
<1>1. /\ ci.inputFilename = fromCmdLineArgs(words).inputFilename
      /\ rate = IntOf(words, "-r", 0) /\ rate \in Int
      /\ ci.bDemodulateIQ = Found(words, "--demodulateIQ")
      /\ ci.bDemodulateIQ => ci.IQModulationType = modulationOf(words)
      /\ ci.IQModulationType \in ModulationTypes
      /\ ci.lpf = lpfOf(words)
  BY RadioRead DEF RadioOf
<1>2. /\ DOMAIN ci.lpf = {"mode", "cutoff", "transition"}
      /\ ci.lpf.cutoff \in Nat /\ ci.lpf.transition \in Nat
      /\ ci.lpf.cutoff <= 100 * Scale
      /\ ~Found(words, "--lpf-cutoff") =>
           100 * (ci.lpf.cutoff + ci.lpf.transition) <= 105 * 100 * Scale
  BY <1>1, FilterRead
<1> HIDE DEF rate
<1>3. SUFFICES ASSUME ci'.bDemodulateIQ, ~dsd'
               PROVE  /\ ci'.lpf.cutoff <= 100 * Scale
                      /\ \/ ci'.IQModulationType # "WFM_NO_LOWPASS"
                         \/ ((ci'.lpf.cutoff + ci'.lpf.transition) * (ci'.outputSampleRate \div 50))
                              \div (4 * Scale) <= lpfT + lpfW
  BY DEF PilotIsRemoved
<1>4. ci.IQModulationType # "WFM_NO_LOWPASS"
  BY <1>1 DEF ModulationTypes
<1>5. CASE ~ci.bDemodulateIQ \/ dsd
  <2>1. ci' = ci
    BY <1>5 DEF Job
  <2> QED
    BY <1>2, <1>4, <2>1
<1>6. CASE ~(~ci.bDemodulateIQ \/ dsd) /\ ci.IQModulationType # "WFM"
  <2>1. ci' = [ci EXCEPT !.bNormalize = TRUE]
    BY <1>6 DEF Job
  <2>2. ci'.lpf = ci.lpf /\ ci'.IQModulationType = ci.IQModulationType
    BY <2>1 DEF RadioFields
  <2> QED
    BY <1>2, <1>4, <2>2
<1>7. CASE ~(~ci.bDemodulateIQ \/ dsd) /\ ci.IQModulationType = "WFM"
  <2>0. /\ rate \notin 30001 .. 30999
        /\ rate <= 30000 => ~Found(words, "--lpf-cutoff")
    <3>1. Found(words, "--demodulateIQ") /\ modulationOf(words) = "WFM"
      BY <1>1, <1>7, Zenon
    <3>2. /\ IntOf(words, "-r", 0) \notin 30001 .. 30999
          /\ IntOf(words, "-r", 0) <= 30000 => ~Found(words, "--lpf-cutoff")
      <4>1. FilterSuits(words)
        OBVIOUS
      <4> QED
        BY ONLY <3>1, <4>1 DEF FilterSuits
    <3>3. rate = IntOf(words, "-r", 0)
      BY <1>1
    <3> QED
      BY ONLY <3>2, <3>3
  <2>1. CASE rate <= 30000
    <3>1. ci' = [ci EXCEPT !.IQModulationType = "WFM_NO_LOWPASS"]
      BY <1>7, <2>1 DEF Job, rate
    <3>2. ci'.lpf = ci.lpf /\ ci'.outputSampleRate = rate
      BY <3>1 DEF RadioFields, rate
    <3> DEFINE percent == ci.lpf.cutoff + ci.lpf.transition
    <3>3. percent \in Nat /\ 100 * percent <= 105 * 100 * Scale
      BY <1>2, <2>0, <2>1
    <3> HIDE DEF percent
    <3>4. percent * (rate \div 50) <= 76000 * Scale
      BY <1>1, <2>1, <3>3, BandAtLowRate
    <3>5. (percent * (rate \div 50)) \div (4 * Scale) <= lpfT + lpfW
      BY <1>1, <3>3, <3>4, HertzBound
    <3> QED
      BY <1>2, <3>2, <3>5 DEF percent
  <2>2. CASE ~(rate <= 30000) /\ rate <= 96000
    <3> DEFINE c == (100 * Scale * lpfT * 2) \div rate
               t == (100 * Scale * lpfW * 2) \div rate
    <3>1. ci' = [ci EXCEPT !.IQModulationType = "WFM_NO_LOWPASS",
                           !.lpf.cutoff = c, !.lpf.transition = t]
      BY <1>7, <2>2 DEF Job, PercentOfNyquist, rate
    <3>2. rate \in Nat /\ rate >= 31000
      BY <1>1, <2>0, <2>2
    <3>3. /\ c \in Nat /\ t \in Nat /\ c <= 100 * Scale
          /\ (c + t) * (rate \div 50) <= 76000 * Scale
      BY <3>2, BandOfMusic
    <3> HIDE DEF c, t
    <3>4. ci'.lpf.cutoff = c /\ ci'.lpf.transition = t /\ ci'.outputSampleRate = rate
      <4> DEFINE one == [ci EXCEPT !.IQModulationType = "WFM_NO_LOWPASS"]
                 two == [one EXCEPT !.lpf = [one.lpf EXCEPT !.cutoff = c]]
                 three == [two EXCEPT !.lpf = [two.lpf EXCEPT !.transition = t]]
      <4>1. /\ one.lpf = ci.lpf /\ one.outputSampleRate = rate /\ DOMAIN one = DOMAIN ci
            /\ DOMAIN one.lpf = {"mode", "cutoff", "transition"}
        BY <1>2 DEF RadioFields, rate
      <4>2. ci' = three
        BY <3>1
      <4> HIDE DEF one
      <4>3. /\ two.lpf = [one.lpf EXCEPT !.cutoff = c] /\ two.outputSampleRate = rate
            /\ DOMAIN two = DOMAIN ci
        BY <4>1 DEF RadioFields
      <4>4. two.lpf.cutoff = c /\ DOMAIN two.lpf = {"mode", "cutoff", "transition"}
        BY <4>1, <4>3
      <4> HIDE DEF two
      <4>5. three.lpf = [two.lpf EXCEPT !.transition = t] /\ three.outputSampleRate = rate
        BY <4>3 DEF RadioFields
      <4>6. three.lpf.cutoff = c /\ three.lpf.transition = t
        BY <4>4, <4>5
      <4> HIDE DEF three
      <4> QED
        BY <4>2, <4>5, <4>6
    <3>5. ((c + t) * (rate \div 50)) \div (4 * Scale) <= lpfT + lpfW
      <4> DEFINE percent == c + t
      <4>1. percent \in Nat /\ percent * (rate \div 50) <= 76000 * Scale
        BY <3>3
      <4> HIDE DEF percent
      <4>2. (percent * (rate \div 50)) \div (4 * Scale) <= lpfT + lpfW
        BY <1>1, <4>1, HertzBound
      <4> QED
        BY <4>2 DEF percent
    <3> QED
      BY <3>3, <3>4, <3>5
  <2>3. CASE ~(rate <= 30000) /\ ~(rate <= 96000)
    <3>1. ci' = ci
      BY <1>7, <2>3 DEF Job, rate
    <3> QED
      BY <1>2, <1>4, <3>1
  <2> QED
    BY <2>1, <2>2, <2>3
<1> QED
  BY <1>5, <1>6, <1>7

LEMMA RadioStep ==
  ASSUME \A line \in Lines : FilterSuits(FlattenSeq(line)), RadioInv, [ProgramNext]_programVars
  PROVE  RadioInv'
<1>1. CASE ParseGlobalOptions
  BY <1>1 DEF ParseGlobalOptions, Exit, GoOn, RadioInv, PilotIsRemoved
<1>2. CASE FromCmdLineArgs
  <2>1. groups' = groups /\ step' \in {"exit", "dispatch", "format"}
    BY <1>2 DEF FromCmdLineArgs, Exit, GoOn
  <2>2. step' # "exit" => ci' = fromCmdLineArgs(args)
    BY <1>2 DEF FromCmdLineArgs, Exit
  <2>3. step' # "exit" => RadioFields \subseteq DOMAIN ci' /\ RadioOf(ci)' = RadioOf(fromCmdLineArgs(args))
    BY <2>2, RadioRead DEF RadioOf
  <2> QED
    BY <2>1, <2>3 DEF RadioInv, args, PilotIsRemoved
<1>3. CASE RequestedBitFormat \/ NewExtension
  <2>1. /\ groups' = groups /\ step \in {"format", "extension"}
        /\ step' \in {"extension", "dispatch", "exit"}
    BY <1>3 DEF RequestedBitFormat, NewExtension, TakesBest, Exit, GoOn
  <2>2. RadioFields \subseteq DOMAIN ci' /\ RadioOf(ci)' = RadioOf(ci)
    <3>1. (\E bitFormat : Takes(bitFormat)) \/ UNCHANGED ci
      BY <1>3 DEF RequestedBitFormat, NewExtension, TakesBest
    <3>2. \/ UNCHANGED ci
          \/ \E bitFormat, format :
               ci' = [ci EXCEPT !.outputFormat = format, !.outBitFormat = bitFormat]
          \/ \E format : ci' = [ci EXCEPT !.outputFormat = format]
      BY <3>1 DEF Takes
    <3>3. RadioFields \subseteq DOMAIN ci
      BY <2>1 DEF RadioInv
    <3> QED
      BY <3>2, <3>3 DEF RadioFields, RadioOf
  <2> QED
    BY <2>1, <2>2 DEF RadioInv, args, PilotIsRemoved
<1>4. CASE Dispatch
  <2>1. ci' = Job /\ groups' = groups /\ step = "dispatch" /\ step' = "run"
    BY <1>4 DEF Dispatch, GoOn
  <2>2. FilterSuits(args)
    BY DEF RadioInv, args
  <2>3. PilotIsRemoved'
    BY <2>1, <2>2, PilotJob DEF RadioInv
  <2> QED
    BY <2>1, <2>3 DEF RadioInv
<1>5. CASE InputRefused \/ Return
  BY <1>5 DEF InputRefused, Return, Exit, RadioInv, PilotIsRemoved
<1>6. CASE RunConvert \/ UNCHANGED programVars
  <2>1. UNCHANGED <<groups, ci, step>>
    BY <1>6 DEF RunConvert, programVars
  <2> QED
    BY <2>1 DEF RadioInv, RadioOf, args, PilotIsRemoved, dsd, inFileExt
<1> QED
  BY <1>1, <1>2, <1>3, <1>4, <1>5, <1>6 DEF ProgramNext

\* Whatever the rate, the modulation and the filter that are asked for, one low-pass
\* filter stops the pilot of wideband FM, and the converter's can be made: where a custom
\* filter is not all there is, and but for the rates at which 15.5 kHz is more than the
\* output can have and the converter's filter is used all the same.
THEOREM PilotIsStopped ==
  ASSUME \A line \in Lines : FilterSuits(FlattenSeq(line))
  PROVE  ProgramSpec => []PilotIsRemoved
<1>1. ProgramInit => RadioInv
  BY DEF ProgramInit, RadioInv, PilotIsRemoved
<1>2. RadioInv /\ [ProgramNext]_programVars => RadioInv'
  BY RadioStep
<1>3. RadioInv => PilotIsRemoved
  BY DEF RadioInv
<1> QED
  BY <1>1, <1>2, <1>3, PTL DEF ProgramSpec
-------------------------------------------------------------------------------
(***************************************************************************)
(* The order of the options.  A line and any other of the same groups      *)
(* consist of them: each group stands in the line as a whole, with an      *)
(* option or the end after it.  All that is read of a line follows from    *)
(* that, whatever the order.                                               *)
(***************************************************************************)
\* A group is found from the k-th word on, and the end or another option follows.
StandsAt(words, k, group) ==
  /\ \A j \in 1 .. Len(group) : k + j - 1 \in 1 .. Len(words) /\ words[k + j - 1] = group[j]
  /\ k + Len(group) \in 1 .. Len(words) => sanitize(words[k + Len(group)]) \in Options

\* The words are those of the groups, in some order.
Consists(words, set) ==
  /\ words \in Seq(STRING)
  /\ \A i, j \in 1 .. Len(words) :
       sanitize(words[i]) = sanitize(words[j]) /\ sanitize(words[i]) \in Options => i = j
  /\ \A i \in 1 .. Len(words) :
       sanitize(words[i]) \in Options => \E group \in set : optionOf(group) = sanitize(words[i])
  /\ \A group \in set : \E k \in 1 .. Len(words) : StandsAt(words, k, group)

\* An empty line is of no groups.
LEMMA NoGroup == Consists(<<>>, {})
BY DEF Consists

\* A group of another option is put at the end: the groups before it are still found, and
\* followed by an option.
LEMMA OneGroupMore ==
  ASSUME NEW set \in SUBSET OptionGroups, NEW group \in OptionGroups,
         \A other \in set : optionOf(other) # optionOf(group),
         NEW words, Consists(words, set)
  PROVE  Consists(words \o group, set \cup {group})
<1> DEFINE w == words \o group
           n == Len(words)
           m == Len(group)
           A(i) == sanitize(w[i]) \in Options
<1>1. words \in Seq(STRING) /\ group \in Seq(STRING) /\ m # 0 /\ n \in Nat /\ m \in Nat
  BY DEF Consists, OptionGroups
<1>2. /\ w \in Seq(STRING) /\ Len(w) = n + m
      /\ \A i \in 1 .. n : w[i] = words[i] /\ i \in 1 .. n + m
      /\ \A j \in 1 .. m : w[n + j] = group[j] /\ n + j \in 1 .. n + m
  BY <1>1
<1>3. \A i \in 1 .. n + m : i \in 1 .. n \/ (i - n \in 1 .. m /\ i = n + (i - n))
  BY <1>1
<1> HIDE DEF w, n, m
<1>4. ASSUME NEW i \in 1 .. n, A(i)
      PROVE  \E other \in set : optionOf(other) = sanitize(w[i])
  BY <1>2, <1>4 DEF Consists, n
<1>5. ASSUME NEW i \in 1 .. n + m, i \notin 1 .. n, A(i)
      PROVE  i = n + 1 /\ sanitize(w[i]) = optionOf(group)
  <2> DEFINE j == i - n
  <2>1. j \in 1 .. m /\ i = n + j
    BY <1>3, <1>5
  <2> HIDE DEF j
  <2>2. w[i] = group[j]
    BY <1>2, <2>1
  <2>3. j \notin 2 .. m
    BY <1>5, <2>2 DEF OptionGroups, m
  <2>4. j = 1
    BY <1>1, <2>1, <2>3
  <2> QED
    BY <2>1, <2>2, <2>4 DEF optionOf
<1>6. ASSUME NEW i \in 1 .. n + m, NEW j \in 1 .. n + m, sanitize(w[i]) = sanitize(w[j]), A(i)
      PROVE  i = j
  <2>1. CASE i \in 1 .. n /\ j \in 1 .. n
    BY <1>2, <1>6, <2>1 DEF Consists, n
  <2>2. CASE i \notin 1 .. n /\ j \notin 1 .. n
    BY <1>5, <1>6, <2>2
  <2>3. CASE i \in 1 .. n /\ j \notin 1 .. n
    BY <1>4, <1>5, <1>6, <2>3
  <2>4. CASE i \notin 1 .. n /\ j \in 1 .. n
    BY <1>4, <1>5, <1>6, <2>4
  <2> QED
    BY <2>1, <2>2, <2>3, <2>4
<1>7. ASSUME NEW i \in 1 .. n + m, A(i)
      PROVE  \E other \in set \cup {group} : optionOf(other) = sanitize(w[i])
  BY <1>4, <1>5, <1>7
<1>8. 1 \in 1 .. m /\ n + 1 \in 1 .. n + m /\ optionOf(group) \in Options /\ sanitize(w[n + 1]) = optionOf(group)
  <2>1. 1 \in 1 .. m
    BY <1>1
  <2> QED
    BY <1>2, <2>1 DEF OptionGroups, optionOf
<1>9. \E k \in 1 .. n + m : StandsAt(w, k, group)
  <2>1. \A j \in 1 .. m : (n + 1) + j - 1 = n + j
    BY <1>1
  <2>2. (n + 1) + m \notin 1 .. n + m
    BY <1>1
  <2>3. StandsAt(w, n + 1, group)
    BY <1>2, <2>1, <2>2 DEF StandsAt, m
  <2> QED
    BY <1>8, <2>3
<1>10. ASSUME NEW other \in set PROVE \E k \in 1 .. n + m : StandsAt(w, k, other)
  <2>1. PICK k \in 1 .. n : StandsAt(words, k, other)
    BY DEF Consists, n
  <2> DEFINE l == Len(other)
             e == k + l
  <2>2. l \in Nat /\ l # 0 /\ e \in Nat
    BY DEF OptionGroups
  <2>3. e \in 1 .. n + 1
    <3>1. k + l - 1 \in 1 .. n
      BY <2>1, <2>2 DEF StandsAt, n
    <3> QED
      BY <1>1, <2>2, <3>1
  <2>4. \A j \in 1 .. l : k + j - 1 \in 1 .. n + m /\ w[k + j - 1] = other[j]
    BY <1>2, <2>1 DEF StandsAt, n
  <2> HIDE DEF l, e
  <2>5. e \in 1 .. n => sanitize(w[e]) \in Options
    BY <1>2, <2>1 DEF StandsAt, n, l, e
  <2>6. e \notin 1 .. n => e = n + 1
    BY <1>1, <2>3
  <2>7. sanitize(w[e]) \in Options
    BY <1>8, <2>5, <2>6
  <2>8. StandsAt(w, k, other)
    BY <1>2, <2>4, <2>7 DEF StandsAt, l, e
  <2> QED
    BY <1>2, <2>8
<1> QED
  BY <1>2, <1>6, <1>7, <1>9, <1>10 DEF Consists, w

\* An option that is there once is found there.
LEMMA PlaceIs ==
  ASSUME NEW words, Len(words) \in Nat, NEW option, NEW k \in 1 .. Len(words),
         sanitize(words[k]) = option,
         \A i \in 1 .. Len(words) : sanitize(words[i]) = option => i = k
  PROVE  PlaceOf(words, option) = k
<1> DEFINE I == {i \in 1 .. Len(words) : sanitize(words[i]) = option}
<1>1. I = {k}
  OBVIOUS
<1>2. PlaceOf(words, option) = IF I # {} THEN Min(I) ELSE 0
  BY DEF PlaceOf, SelectInSeq
<1> HIDE DEF I
<1>3. Min({k}) = k
  BY DEF Min
<1> QED
  BY <1>1, <1>2, <1>3

\* The first word of a group is where its option is found.
LEMMA PlaceOfGroup ==
  ASSUME NEW set \in SUBSET OptionGroups, NEW words, Consists(words, set), NEW group \in set
  PROVE  LET k == PlaceOf(words, optionOf(group))
         IN k \in 1 .. Len(words) /\ StandsAt(words, k, group)
<1>1. PICK k \in 1 .. Len(words) : StandsAt(words, k, group)
  BY DEF Consists
<1>2. Len(words) \in Nat /\ Len(group) \in Nat /\ Len(group) # 0 /\ optionOf(group) \in Options
  BY DEF Consists, OptionGroups
<1>3. sanitize(words[k]) = optionOf(group)
  <2>1. 1 \in 1 .. Len(group) /\ k + 1 - 1 = k
    BY <1>2
  <2>2. words[k + 1 - 1] = group[1]
    BY <1>1, <2>1 DEF StandsAt
  <2> QED
    BY <2>1, <2>2 DEF optionOf
<1>4. \A i \in 1 .. Len(words) : sanitize(words[i]) = optionOf(group) => i = k
  BY <1>2, <1>3 DEF Consists
<1>5. PlaceOf(words, optionOf(group)) = k
  BY <1>2, <1>3, <1>4, PlaceIs
<1> QED
  BY <1>1, <1>5

\* An option of no group is not found.
LEMMA NoPlace ==
  ASSUME NEW set \in SUBSET OptionGroups, NEW words, Consists(words, set), NEW option \in Options,
         \A group \in set : optionOf(group) # option
  PROVE  PlaceOf(words, option) = 0
<1> DEFINE I == {i \in 1 .. Len(words) : sanitize(words[i]) = option}
<1>1. I = {}
  BY DEF Consists
<1>2. PlaceOf(words, option) = IF I # {} THEN Min(I) ELSE 0
  BY DEF PlaceOf, SelectInSeq
<1> HIDE DEF I
<1> QED
  BY <1>1, <1>2

\* The word after an option is that of its group; after an option without a parameter comes
\* the end or the next option.
LEMMA WordAfterGroup ==
  ASSUME NEW set \in SUBSET OptionGroups, NEW words, Consists(words, set), NEW group \in set
  PROVE  LET word == WordAfter(words, optionOf(group))
         IN /\ Found(words, optionOf(group))
            /\ Len(group) >= 2 => word = group[2]
            /\ Len(group) < 2 => word = None \/ sanitize(word) \in Options
<1> DEFINE k == PlaceOf(words, optionOf(group))
           n == Len(words)
<1>1. k \in 1 .. n /\ StandsAt(words, k, group)
  BY PlaceOfGroup
<1>2. n \in Nat /\ Len(group) \in Nat /\ Len(group) # 0
  BY DEF Consists, OptionGroups
<1>3. Found(words, optionOf(group))
  BY <1>1, <1>2 DEF Found
<1>4. WordAfter(words, optionOf(group)) = IF k \in 1 .. n - 1 THEN words[k + 1] ELSE None
  BY DEF WordAfter
<1> HIDE DEF k, n
<1>5. ASSUME Len(group) >= 2 PROVE k \in 1 .. n - 1 /\ words[k + 1] = group[2]
  <2>1. 2 \in 1 .. Len(group) /\ k + 2 - 1 = k + 1
    BY <1>1, <1>2, <1>5
  <2>2. k + 1 \in 1 .. n /\ words[k + 1] = group[2]
    BY <1>1, <2>1 DEF StandsAt, n
  <2> QED
    BY <1>1, <1>2, <2>2
<1>6. ASSUME Len(group) < 2, k \in 1 .. n - 1 PROVE sanitize(words[k + 1]) \in Options
  <2>1. k + Len(group) = k + 1 /\ k + 1 \in 1 .. n
    BY <1>1, <1>2, <1>6
  <2> QED
    BY <1>1, <2>1 DEF StandsAt, n
<1> QED
  BY <1>3, <1>4, <1>5, <1>6

\* Two lines in which the same is said of every option.
SameOptions(a, b) ==
  /\ \A option \in Options : Found(a, option) = Found(b, option)
  /\ \A option \in Options : \A default : NumberOf(a, option, default) = NumberOf(b, option, default)
  /\ \A option \in {"-i", "-o", "-b"} : WordAfter(a, option) = WordAfter(b, option)
  /\ modulationOf(a) = modulationOf(b)
  /\ rawInputOf(a) = rawInputOf(b)

\* Whatever the order, an option is found or not, and its number is the same.
LEMMA SameNumber ==
  ASSUME PlainWords, NEW set \in SUBSET OptionGroups, NEW a, Consists(a, set),
         NEW b, Consists(b, set), NEW option \in Options, NEW default
  PROVE  /\ Found(a, option) = Found(b, option)
         /\ NumberOf(a, option, default) = NumberOf(b, option, default)
         /\ WordAfter(a, option) = WordAfter(b, option)
              \/ {WordAfter(a, option), WordAfter(b, option)} \cap (DOMAIN Number \cup ModulationTypes) = {}
<1>1. CASE \A group \in set : optionOf(group) # option
  <2>1. PlaceOf(a, option) = 0 /\ PlaceOf(b, option) = 0
    BY <1>1, NoPlace
  <2>2. WordAfter(a, option) = None /\ WordAfter(b, option) = None
    BY <2>1 DEF WordAfter
  <2> QED
    BY <2>1, <2>2 DEF Found, NumberOf
<1>2. CASE \E group \in set : optionOf(group) = option
  <2>1. PICK group \in set : optionOf(group) = option
    BY <1>2
  <2>2. Len(group) >= 2 \/ Len(group) < 2
    BY DEF OptionGroups
  <2> DEFINE v == WordAfter(a, option)
             w == WordAfter(b, option)
  <2>3. /\ Found(a, option) /\ Found(b, option)
        /\ v = w \/ ({v, w} \subseteq {x : x \in {v, w}} /\ (v = None \/ sanitize(v) \in Options)
                       /\ (w = None \/ sanitize(w) \in Options))
    BY <2>1, <2>2, WordAfterGroup
  <2> HIDE DEF v, w
  <2>4. v = w \/ {v, w} \cap (DOMAIN Number \cup ModulationTypes) = {}
    BY <2>3, CommandLineAssumption DEF PlainWords, ModulationTypes, None
  <2>5. NumberOf(a, option, default) = IF v \in DOMAIN Number THEN Number[v] ELSE default
    BY DEF NumberOf, v
  <2>6. NumberOf(b, option, default) = IF w \in DOMAIN Number THEN Number[w] ELSE default
    BY DEF NumberOf, w
  <2>7. NumberOf(a, option, default) = NumberOf(b, option, default)
    BY <2>4, <2>5, <2>6
  <2> QED
    BY <2>3, <2>4, <2>7 DEF v, w
<1> QED
  BY <1>1, <1>2

\* A text is the same.
LEMMA SameText ==
  ASSUME PlainWords, NEW set \in SUBSET OptionGroups, NEW a, Consists(a, set),
         NEW b, Consists(b, set), NEW option \in {"-i", "-o", "-b"}
  PROVE  WordAfter(a, option) = WordAfter(b, option)
<1>0. option \in Options
  BY DEF Options
<1>1. CASE \A group \in set : optionOf(group) # option
  <2>1. PlaceOf(a, option) = 0 /\ PlaceOf(b, option) = 0
    BY <1>0, <1>1, NoPlace
  <2> QED
    BY <2>1 DEF WordAfter
<1>2. CASE \E group \in set : optionOf(group) = option
  <2>1. PICK group \in set : optionOf(group) = option
    BY <1>2
  <2>2. Len(group) >= 2
    BY <2>1 DEF OptionGroups
  <2> QED
    BY <2>1, <2>2, WordAfterGroup
<1> QED
  BY <1>1, <1>2

\* So is the name of a modulation, or its absence.
LEMMA SameModulation ==
  ASSUME PlainWords, NEW set \in SUBSET OptionGroups, NEW a, Consists(a, set),
         NEW b, Consists(b, set)
  PROVE  modulationOf(a) = modulationOf(b)
<1> DEFINE v == WordAfter(a, "--demodulateIQ")
           w == WordAfter(b, "--demodulateIQ")
<1>1. "--demodulateIQ" \in Options
  BY DEF Options
<1>2. v = w \/ (v \notin ModulationTypes /\ w \notin ModulationTypes)
  BY <1>1, SameNumber
<1> HIDE DEF v, w
<1>3. None \notin ModulationTypes
  BY DEF None, ModulationTypes
<1>4. \A x \in {v, w} : (IF x = None THEN None ELSE x) \in ModulationTypes <=> x \in ModulationTypes
  BY <1>3
<1>5. modulationOf(a) = IF v \in ModulationTypes THEN v ELSE "NFM"
  BY <1>3 DEF modulationOf, TextOf, v
<1>6. modulationOf(b) = IF w \in ModulationTypes THEN w ELSE "NFM"
  BY <1>3 DEF modulationOf, TextOf, w
<1> QED
  BY <1>2, <1>5, <1>6

\* All that is read of a line.
LEMMA SameJobRead ==
  ASSUME NEW a, NEW b, SameOptions(a, b)
  PROVE  fromCmdLineArgs(a) = fromCmdLineArgs(b)
<1>1. /\ \A option \in Options : Found(a, option) <=> Found(b, option)
      /\ \A option \in Options : \A d : NumberOf(a, option, d) = NumberOf(b, option, d)
      /\ \A option \in {"-i", "-o", "-b"} : WordAfter(a, option) = WordAfter(b, option)
  BY DEF SameOptions
<1>2. \A option \in {"-i", "-o", "-b"} : \A d : TextOf(a, option, d) = TextOf(b, option, d)
  BY <1>1 DEF TextOf
<1>3. \A option \in Options : \A d : IntOf(a, option, d) = IntOf(b, option, d)
  BY <1>1 DEF IntOf
<1>4. \A rate : ditherProfileIDOf(a, rate) = ditherProfileIDOf(b, rate)
  <2>1. {"--flat-tpdf", "--ns"} \subseteq Options
    BY DEF Options
  <2>2. Found(a, "--flat-tpdf") <=> Found(b, "--flat-tpdf")
    BY <1>1, <2>1
  <2>3. \A d : IntOf(a, "--ns", d) = IntOf(b, "--ns", d)
    BY <1>3, <2>1
  <2> QED
    BY ONLY <2>2, <2>3 DEF ditherProfileIDOf
<1>5. lpfOf(a) = lpfOf(b)
  <2>1. {"--relaxedLPF", "--steepLPF", "--lpf-cutoff", "--lpf-transition"} \subseteq Options
    BY DEF Options
  <2>2. /\ Found(a, "--relaxedLPF") <=> Found(b, "--relaxedLPF")
        /\ Found(a, "--steepLPF") <=> Found(b, "--steepLPF")
        /\ Found(a, "--lpf-cutoff") <=> Found(b, "--lpf-cutoff")
        /\ Found(a, "--lpf-transition") <=> Found(b, "--lpf-transition")
        /\ \A d : NumberOf(a, "--lpf-cutoff", d) = NumberOf(b, "--lpf-cutoff", d)
        /\ \A d : NumberOf(a, "--lpf-transition", d) = NumberOf(b, "--lpf-transition", d)
    BY <1>1, <2>1
  <2> QED
    BY ONLY <2>2 DEF lpfOf
<1>6. modulationOf(a) = modulationOf(b) /\ rawInputOf(a) = rawInputOf(b)
  BY DEF SameOptions
<1>7. /\ TextOf(a, "-i", None) = TextOf(b, "-i", None)
      /\ TextOf(a, "-o", None) = TextOf(b, "-o", None)
      /\ TextOf(a, "-b", None) = TextOf(b, "-b", None)
      /\ NumberOf(a, "--gain", Scale) = NumberOf(b, "--gain", Scale)
      /\ NumberOf(a, "-n", Scale) = NumberOf(b, "-n", Scale)
      /\ NumberOf(a, "--dither", Scale) = NumberOf(b, "--dither", Scale)
      /\ IntOf(a, "-r", 0) = IntOf(b, "-r", 0)
      /\ IntOf(a, "--maxStages", 3) = IntOf(b, "--maxStages", 3)
  BY <1>1, <1>2, <1>3 DEF Options
<1>8. /\ Found(a, "-n") = Found(b, "-n")
      /\ Found(a, "--doubleprecision") = Found(b, "--doubleprecision")
      /\ Found(a, "--noClippingProtection") = Found(b, "--noClippingProtection")
      /\ Found(a, "--dither") = Found(b, "--dither")
      /\ Found(a, "--noDelayTrim") = Found(b, "--noDelayTrim")
      /\ Found(a, "--minphase") = Found(b, "--minphase")
      /\ Found(a, "--mt") = Found(b, "--mt")
      /\ Found(a, "--rf64") = Found(b, "--rf64")
      /\ Found(a, "--singleStage") = Found(b, "--singleStage")
      /\ Found(a, "--multiStage") = Found(b, "--multiStage")
      /\ Found(a, "--showStages") = Found(b, "--showStages")
      /\ Found(a, "--demodulateIQ") = Found(b, "--demodulateIQ")
      /\ Found(a, "--stereoWidth") = Found(b, "--stereoWidth")
      /\ Found(a, "--fade-in") = Found(b, "--fade-in")
      /\ Found(a, "--fade-out") = Found(b, "--fade-out")
      /\ Found(a, "--noTempFile") = Found(b, "--noTempFile")
  <2>1. \A option \in Options : Found(a, option) = Found(b, option)
    BY DEF SameOptions
  <2> QED
    BY <2>1 DEF Options
<1>9. ditherProfileIDOf(a, IntOf(a, "-r", 0)) = ditherProfileIDOf(b, IntOf(b, "-r", 0))
  BY <1>4, <1>7
<1> QED
  BY ONLY <1>5, <1>6, <1>7, <1>8, <1>9 DEF fromCmdLineArgs

-------------------------------------------------------------------------------
(***************************************************************************)
(* The folds that make a line of groups are recursive functions: they      *)
(* exist, and what they make of a set or a sequence follows by induction   *)
(* over a set of numbers.                                                  *)
(***************************************************************************)
\* A set of natural numbers has a least one.
LEMMA LeastNatural ==
  ASSUME NEW T \in SUBSET Nat, T # {}
  PROVE  \E n \in T : \A k \in T : n <= k
<1> DEFINE R == OpToRel(<, Nat)
<1>1. \A x, y \in Nat : <<x, y>> \in R <=> x < y
  BY Zenon DEF OpToRel
<1>2. IsWellFoundedOn(R, Nat)
  BY Zenon, NatLessThanWellFounded
<1> HIDE DEF R
<1>3. PICK x \in T : \A y \in T : ~(<<y, x>> \in R)
  BY <1>2, WFMin
<1>4. \A y \in T : x \in Nat /\ y \in Nat /\ ~(y < x)
  BY <1>1, <1>3
<1> QED
  BY <1>3, <1>4

\* Induction, for a set.
LEMMA InductiveSet ==
  ASSUME NEW S, 0 \in S, \A n \in Nat : n \in S => n + 1 \in S
  PROVE  Nat \subseteq S
<1> SUFFICES ASSUME Nat \ S # {} PROVE FALSE
  OBVIOUS
<1>1. PICK n \in Nat \ S : \A k \in Nat \ S : n <= k
  BY LeastNatural
<1>2. n - 1 \in Nat /\ n - 1 \notin Nat \ S
  BY <1>1
<1> QED
  BY <1>1, <1>2

\* G looks only at smaller arguments, so it has a fixed point.
Descends(D, C, mu, G) ==
  \A x \in D, f \in [D -> C], g \in [D -> C] :
    (\A y \in D : mu[y] < mu[x] => f[y] = g[y]) => G[f][x] = G[g][x]

\* A definition by recursion over mu.
Recursion(D, C, mu, G) ==
  C # {} /\ mu \in [D -> Nat] /\ G \in [[D -> C] -> [D -> C]] /\ Descends(D, C, mu, G)

\* f is a fixed point as far as arguments below n are concerned.
FixedBelow(D, mu, G, f, n) == \A x \in D : mu[x] < n => G[f][x] = f[x]

\* Two functions that are fixed below n are the same there.
LEMMA FixedAgree ==
  ASSUME NEW D, NEW C, NEW mu \in [D -> Nat], NEW G, Descends(D, C, mu, G),
         NEW f \in [D -> C], NEW g \in [D -> C], NEW m0 \in Nat, NEW n0 \in Nat, m0 <= n0,
         FixedBelow(D, mu, G, f, m0), FixedBelow(D, mu, G, g, n0)
  PROVE  \A x \in D : mu[x] < m0 => f[x] = g[x]
<1> DEFINE S == {k \in Nat : \A x \in D : mu[x] < k /\ mu[x] < m0 => f[x] = g[x]}
<1>1. 0 \in S
  OBVIOUS
<1>2. ASSUME NEW k \in Nat, k \in S PROVE k + 1 \in S
  <2> SUFFICES ASSUME NEW x \in D, mu[x] < k + 1, mu[x] < m0 PROVE f[x] = g[x]
    OBVIOUS
  <2>1. \A y \in D : mu[y] < mu[x] => f[y] = g[y]
    BY <1>2
  <2>2. G[f][x] = G[g][x]
    BY <2>1 DEF Descends
  <2> QED
    BY <2>2 DEF FixedBelow
<1> HIDE DEF S
<1>3. Nat \subseteq S
  BY <1>1, <1>2, InductiveSet
<1> QED
  BY <1>3 DEF S

\* A recursive function exists: a CHOOSE of a fixed point finds one.
LEMMA RecursionExists ==
  ASSUME NEW D, NEW C, NEW mu, NEW G, Recursion(D, C, mu, G)
  PROVE  \E f \in [D -> C] : f = G[f]
<1>0. C # {} /\ mu \in [D -> Nat] /\ G \in [[D -> C] -> [D -> C]] /\ Descends(D, C, mu, G)
  BY DEF Recursion
<1> DEFINE S == {n \in Nat : \E f \in [D -> C] : FixedBelow(D, mu, G, f, n)}
<1>1. 0 \in S
  <2>1. PICK c \in C : TRUE
    BY <1>0
  <2> DEFINE f == [x \in D |-> c]
  <2>2. f \in [D -> C]
    OBVIOUS
  <2> HIDE DEF f
  <2>3. FixedBelow(D, mu, G, f, 0)
    BY <1>0 DEF FixedBelow
  <2> QED
    BY <2>2, <2>3
<1>2. ASSUME NEW n \in Nat, n \in S PROVE n + 1 \in S
  <2>1. PICK f \in [D -> C] : FixedBelow(D, mu, G, f, n)
    BY <1>2
  <2> DEFINE g == G[f]
  <2>2. g \in [D -> C]
    BY <1>0
  <2>3. ASSUME NEW x \in D, mu[x] < n + 1 PROVE G[g][x] = g[x]
    <3>1. \A y \in D : mu[y] < mu[x] => g[y] = f[y]
      BY <1>0, <2>1, <2>3 DEF FixedBelow
    <3>2. G[g][x] = G[f][x]
      BY <1>0, <2>2, <3>1 DEF Descends
    <3> QED
      BY <3>2
  <2> HIDE DEF g
  <2> QED
    BY <2>2, <2>3 DEF FixedBelow
<1> HIDE DEF S
<1>3. Nat \subseteq S
  BY <1>1, <1>2, InductiveSet
<1> DEFINE upTo(n) == CHOOSE f \in [D -> C] : FixedBelow(D, mu, G, f, n)
           whole == [x \in D |-> upTo(mu[x] + 1)[x]]
<1>4. \A n \in Nat : upTo(n) \in [D -> C] /\ FixedBelow(D, mu, G, upTo(n), n)
  BY <1>3 DEF S
<1> HIDE DEF upTo
<1>5. \A x \in D : mu[x] + 1 \in Nat
  BY <1>0
<1>6. whole \in [D -> C]
  BY <1>4, <1>5
<1>7. ASSUME NEW x \in D PROVE G[whole][x] = whole[x]
  <2> DEFINE f == upTo(mu[x] + 1)
  <2>1. f \in [D -> C] /\ FixedBelow(D, mu, G, f, mu[x] + 1)
    BY <1>4, <1>5
  <2>2. ASSUME NEW y \in D, mu[y] < mu[x] PROVE whole[y] = f[y]
    <3>1. upTo(mu[y] + 1) \in [D -> C] /\ FixedBelow(D, mu, G, upTo(mu[y] + 1), mu[y] + 1)
      BY <1>4, <1>5
    <3> HIDE DEF f
    <3>2. mu[y] + 1 \in Nat /\ mu[x] + 1 \in Nat /\ mu[y] + 1 <= mu[x] + 1 /\ mu[y] < mu[y] + 1
      BY <1>0, <2>2
    <3>3. \A z \in D : mu[z] < mu[y] + 1 => upTo(mu[y] + 1)[z] = f[z]
      BY <1>0, <2>1, <3>1, <3>2, FixedAgree
    <3> QED
      BY <3>2, <3>3
  <2>3. whole[x] = f[x]
    OBVIOUS
  <2> HIDE DEF whole, f
  <2>4. G[whole][x] = G[f][x]
    BY <1>0, <1>6, <2>1, <2>2 DEF Descends
  <2>5. G[f][x] = f[x]
    BY <1>0, <2>1 DEF FixedBelow
  <2> QED
    BY <2>3, <2>4, <2>5
<1> HIDE DEF whole
<1>8. G[whole] \in [D -> C]
  BY <1>0, <1>6
<1>9. whole = G[whole]
  BY <1>6, <1>7, <1>8
<1> QED
  BY <1>6, <1>9

\* The group that FoldSet takes first.
Picked(set) == CHOOSE group \in set : TRUE

\* The line of each of its subsets.
Lengthened(set, f) ==
  [s \in SUBSET set |-> IF s = {} THEN <<>> ELSE f[s \ {Picked(s)}] \o Picked(s)]

\* FoldSet, as the fixed point it is defined by.
LEMMA LineIs ==
  ASSUME NEW set
  PROVE  LineOf(set) = (CHOOSE f : f = Lengthened(set, f))[set]
BY DEF LineOf, FoldSet, MapThenFoldSet, Lengthened, Picked

\* There is such a function, for every finite set.
LEMMA LineExists ==
  ASSUME NEW set \in SUBSET OptionGroups, IsFiniteSet(set)
  PROVE  \E f \in [SUBSET set -> Seq(STRING)] : f = Lengthened(set, f)
<1> DEFINE D == SUBSET set
           C == Seq(STRING)
           mu == [s \in D |-> Cardinality(s)]
           G == [f \in [D -> C] |-> Lengthened(set, f)]
           e(s, f) == IF s = {} THEN <<>> ELSE f[s \ {Picked(s)}] \o Picked(s)
<1>1. ASSUME NEW s \in D, s # {}
      PROVE  /\ Picked(s) \in s /\ Picked(s) \in C /\ s \ {Picked(s)} \in D
             /\ Cardinality(s) \in Nat /\ Cardinality(s \ {Picked(s)}) < Cardinality(s)
  <2>1. Picked(s) \in s
    BY <1>1 DEF Picked
  <2>2. Picked(s) \in C
    BY <2>1 DEF OptionGroups
  <2>3. IsFiniteSet(s)
    BY FS_Subset
  <2>4. Cardinality(s) \in Nat /\ Cardinality(s \ {Picked(s)}) = Cardinality(s) - 1
    BY <2>1, <2>3, FS_RemoveElement, FS_CardinalityType
  <2> QED
    BY <2>1, <2>2, <2>4
<1>2. \A f : Lengthened(set, f) = [s \in D |-> e(s, f)]
  BY DEF Lengthened
<1>3. ASSUME NEW f \in [D -> C] PROVE Lengthened(set, f) \in [D -> C]
  <2>1. ASSUME NEW s \in D PROVE e(s, f) \in C
    <3>1. CASE s = {}
      BY <3>1
    <3>2. CASE s # {}
      <4> DEFINE p == Picked(s)
                 a == f[s \ {p}]
      <4>1. p \in C /\ a \in C
        BY <1>1, <3>2
      <4>2. e(s, f) = a \o p
        BY <3>2
      <4> HIDE DEF p, a, e
      <4>3. a \o p \in C
        BY ONLY <4>1
      <4> QED
        BY <4>2, <4>3
    <3> QED
      BY <3>1, <3>2
  <2> HIDE DEF e, D, C
  <2> QED
    BY <1>2, <2>1
<1>4. Descends(D, C, mu, G)
  <2> SUFFICES ASSUME NEW x \in D, NEW f \in [D -> C], NEW g \in [D -> C],
                      \A y \in D : mu[y] < mu[x] => f[y] = g[y]
               PROVE  Lengthened(set, f)[x] = Lengthened(set, g)[x]
    <3>1. \A f \in [D -> C] : G[f] = Lengthened(set, f)
      OBVIOUS
    <3> HIDE DEF G, D, C, mu
    <3> QED
      BY <3>1 DEF Descends
  <2>1. Lengthened(set, f)[x] = e(x, f) /\ Lengthened(set, g)[x] = e(x, g)
    <3> HIDE DEF e, D
    <3> QED
      BY <1>2
  <2>2. CASE x = {}
    BY <2>1, <2>2
  <2>3. CASE x # {}
    <3>1. x \ {Picked(x)} \in D /\ mu[x \ {Picked(x)}] < mu[x]
      BY <1>1, <2>3
    <3>2. f[x \ {Picked(x)}] = g[x \ {Picked(x)}]
      BY <3>1
    <3> QED
      BY <2>1, <2>3, <3>2
  <2> QED
    BY <2>2, <2>3
<1>5. Recursion(D, C, mu, G)
  <2>1. \A s \in D : Cardinality(s) \in Nat
    BY FS_Subset, FS_CardinalityType
  <2>2. mu \in [D -> Nat] /\ G \in [[D -> C] -> [D -> C]]
    BY <1>3, <2>1
  <2>3. <<>> \in C
    OBVIOUS
  <2> HIDE DEF D, C, mu, G
  <2> QED
    BY <1>4, <2>2, <2>3 DEF Recursion
<1>6. PICK f \in [D -> C] : f = G[f]
  <2> HIDE DEF G, D, C, mu
  <2> QED
    BY <1>5, RecursionExists
<1>7. f = Lengthened(set, f)
  BY <1>6
<1> QED
  BY <1>7

\* No two groups of one option.
OnceEach(set) == \A g, h \in set : optionOf(g) = optionOf(h) => g = h

\* The line of a set of groups is one of them, in some order.
LEMMA LineConsists ==
  ASSUME NEW set \in SUBSET OptionGroups, IsFiniteSet(set), OnceEach(set)
  PROVE  Consists(LineOf(set), set)
<1> DEFINE D == SUBSET set
           f == CHOOSE g : g = Lengthened(set, g)
           S == {n \in Nat : \A s \in D : Cardinality(s) = n => Consists(f[s], s)}
<1>1. f = Lengthened(set, f)
  BY LineExists
<1> HIDE DEF f
<1>2. \A s \in D : f[s] = IF s = {} THEN <<>> ELSE f[s \ {Picked(s)}] \o Picked(s)
  BY <1>1 DEF Lengthened
<1>3. \A s \in D : IsFiniteSet(s) /\ Cardinality(s) \in Nat
  BY FS_Subset, FS_CardinalityType
<1>4. 0 \in S
  <2>1. \A s \in D : Cardinality(s) = 0 => s = {}
    BY <1>3, FS_EmptySet
  <2>2. \A s \in D : s = {} => Consists(f[s], s)
    BY <1>2, NoGroup
  <2> QED
    BY <2>1, <2>2
<1>5. ASSUME NEW n \in Nat, n \in S PROVE n + 1 \in S
  <2> SUFFICES ASSUME NEW s \in D, Cardinality(s) = n + 1 PROVE Consists(f[s], s)
    OBVIOUS
  <2> DEFINE x == Picked(s)
             r == s \ {x}
  <2>1. s # {}
    BY FS_EmptySet
  <2>2. x \in s
    BY <2>1 DEF Picked
  <2>3. r \in D /\ Cardinality(r) = n
    <3>1. IsFiniteSet(s)
      BY <1>3
    <3> HIDE DEF x
    <3>2. Cardinality(r) = Cardinality(s) - 1
      BY <2>2, <3>1, FS_RemoveElement
    <3> QED
      BY <3>2
  <2>4. f[s] = f[r] \o x /\ s = r \cup {x}
    BY <1>2, <2>1, <2>2
  <2>5. Consists(f[r], r)
    BY <1>5, <2>3
  <2>6. \A other \in r : optionOf(other) # optionOf(x)
    BY <2>2 DEF OnceEach
  <2> HIDE DEF x, r
  <2>7. Consists(f[r] \o x, r \cup {x})
    BY <2>2, <2>3, <2>5, <2>6, OneGroupMore
  <2> QED
    BY <2>4, <2>7
<1> HIDE DEF S
<1>6. Nat \subseteq S
  BY <1>4, <1>5, InductiveSet
<1>7. Consists(f[set], set)
  BY <1>3, <1>6 DEF S
<1> QED
  BY <1>7, LineIs DEF f

\* The line of one group is the group.
LEMMA LineOfOne ==
  ASSUME NEW group \in OptionGroups
  PROVE  LineOf({group}) = group
<1> DEFINE set == {group}
           f == CHOOSE g : g = Lengthened(set, g)
<1>1. set \in SUBSET OptionGroups /\ IsFiniteSet(set)
  BY FS_Singleton
<1>2. f = Lengthened(set, f)
  BY <1>1, LineExists
<1> HIDE DEF f
<1>3. \A s \in SUBSET set : f[s] = IF s = {} THEN <<>> ELSE f[s \ {Picked(s)}] \o Picked(s)
  BY <1>2 DEF Lengthened
<1>4. Picked(set) = group
  BY DEF Picked
<1>5. f[{}] = <<>>
  BY <1>3
<1>6. set \ {group} = {} /\ set # {}
  OBVIOUS
<1>7. f[set] = <<>> \o group
  BY <1>3, <1>4, <1>5, <1>6
<1>8. group \in Seq(STRING)
  BY DEF OptionGroups
<1>9. f[set] = group
  <2> DEFINE x == f[set]
  <2>1. x = <<>> \o group
    BY <1>7
  <2> HIDE DEF x
  <2> QED
    BY <1>8, <2>1 DEF x
<1> QED
  BY <1>9, LineIs DEF f

\* The words of the groups up to each.
Flattened(line, f) ==
  [i \in 1 .. Len(line) |-> IF i = 1 THEN line[i] ELSE f[i - 1] \o line[i]]

\* FlattenSeq, as the fixed point it is defined by.
LEMMA FlatIs ==
  ASSUME NEW line, Len(line) # 0
  PROVE  FlattenSeq(line) = (CHOOSE f : f = Flattened(line, f))[Len(line)]
BY DEF FlattenSeq, Flattened

\* There is such a function.
LEMMA FlatExists ==
  ASSUME NEW line \in Seq(OptionGroups)
  PROVE  \E f \in [1 .. Len(line) -> Seq(STRING)] : f = Flattened(line, f)
<1> DEFINE D == 1 .. Len(line)
           C == Seq(STRING)
           mu == [i \in D |-> i]
           G == [f \in [D -> C] |-> Flattened(line, f)]
           e(i, f) == IF i = 1 THEN line[i] ELSE f[i - 1] \o line[i]
<1>1. /\ \A i \in D : line[i] \in C /\ i \in Nat
      /\ \A i \in D : i # 1 => i - 1 \in D /\ i - 1 < i
  <2>1. \A i \in D : line[i] \in OptionGroups /\ i \in Nat
    OBVIOUS
  <2>2. \A i \in D : i # 1 => i - 1 \in D /\ i - 1 < i
    OBVIOUS
  <2> QED
    BY <2>1, <2>2 DEF OptionGroups
<1>2. \A f : Flattened(line, f) = [i \in D |-> e(i, f)]
  BY DEF Flattened
<1>3. ASSUME NEW f \in [D -> C] PROVE Flattened(line, f) \in [D -> C]
  <2>1. ASSUME NEW i \in D PROVE e(i, f) \in C
    <3>1. CASE i = 1
      BY <1>1, <3>1
    <3>2. CASE i # 1
      <4> DEFINE a == f[i - 1]
                 p == line[i]
      <4>1. a \in C /\ p \in C
        BY <1>1, <3>2
      <4>2. e(i, f) = a \o p
        BY <3>2
      <4> HIDE DEF p, a, e
      <4>3. a \o p \in C
        BY ONLY <4>1
      <4> QED
        BY <4>2, <4>3
    <3> QED
      BY <3>1, <3>2
  <2> HIDE DEF e, D, C
  <2> QED
    BY <1>2, <2>1
<1>4. Descends(D, C, mu, G)
  <2> SUFFICES ASSUME NEW x \in D, NEW f \in [D -> C], NEW g \in [D -> C],
                      \A y \in D : mu[y] < mu[x] => f[y] = g[y]
               PROVE  Flattened(line, f)[x] = Flattened(line, g)[x]
    <3>1. \A f \in [D -> C] : G[f] = Flattened(line, f)
      OBVIOUS
    <3> HIDE DEF G, D, C, mu
    <3> QED
      BY <3>1 DEF Descends
  <2>1. Flattened(line, f)[x] = e(x, f) /\ Flattened(line, g)[x] = e(x, g)
    <3> HIDE DEF e, D
    <3> QED
      BY <1>2
  <2>2. CASE x = 1
    BY <2>1, <2>2
  <2>3. CASE x # 1
    <3>1. x - 1 \in D /\ mu[x - 1] < mu[x]
      BY <1>1, <2>3
    <3>2. f[x - 1] = g[x - 1]
      BY <3>1
    <3> QED
      BY <2>1, <2>3, <3>2
  <2> QED
    BY <2>2, <2>3
<1>5. Recursion(D, C, mu, G)
  <2>1. mu \in [D -> Nat] /\ G \in [[D -> C] -> [D -> C]]
    BY <1>1, <1>3
  <2>2. <<>> \in C
    OBVIOUS
  <2> HIDE DEF D, C, mu, G
  <2> QED
    BY <1>4, <2>1, <2>2 DEF Recursion
<1>6. PICK f \in [D -> C] : f = G[f]
  <2> HIDE DEF G, D, C, mu
  <2> QED
    BY <1>5, RecursionExists
<1>7. f = Flattened(line, f)
  BY <1>6
<1> QED
  BY <1>7

\* The words of a grammatical line are those of its groups, and end with the last one.
LEMMA FlatConsists ==
  ASSUME NEW line, Grammatical(line), Len(line) # 0
  PROVE  /\ Consists(FlattenSeq(line), Range(line))
         /\ \E front \in Seq(STRING) : FlattenSeq(line) = front \o line[Len(line)]
<1> DEFINE n == Len(line)
           f == CHOOSE g : g = Flattened(line, g)
           First(k) == {line[i] : i \in 1 .. k}
           Good(k) == /\ Consists(f[k], First(k))
                      /\ \E front \in Seq(STRING) : f[k] = front \o line[k]
           S == {k \in Nat : k + 1 <= n => Good(k + 1)}
<1>1. line \in Seq(OptionGroups) /\ n \in Nat /\ n # 0
  BY DEF Grammatical
<1>2. /\ f = Flattened(line, f)
      /\ \A i \in 1 .. n : line[i] \in OptionGroups /\ line[i] \in Seq(STRING)
  <2>1. f = Flattened(line, f)
    BY <1>1, FlatExists
  <2>2. \A i \in 1 .. n : line[i] \in OptionGroups
    BY <1>1
  <2> QED
    BY <2>1, <2>2 DEF OptionGroups
<1> HIDE DEF f
<1>3. \A i \in 1 .. n : f[i] = IF i = 1 THEN line[i] ELSE f[i - 1] \o line[i]
  BY <1>2 DEF Flattened
<1>4. 0 \in S
  <2> DEFINE g == line[1]
  <2>1. 1 \in 1 .. n /\ f[1] = g /\ g \in OptionGroups /\ g \in Seq(STRING)
    BY <1>1, <1>2, <1>3
  <2>2. First(1) = {} \cup {g}
    OBVIOUS
  <2> HIDE DEF g, First
  <2>3. <<>> \in Seq(STRING) /\ g = <<>> \o g
    BY <2>1
  <2>4. Consists(<<>> \o g, {} \cup {g})
    BY <2>1, NoGroup, OneGroupMore
  <2>5. Consists(g, First(1))
    BY <2>2, <2>3, <2>4
  <2>6. Good(1)
    BY <2>1, <2>3, <2>5 DEF g
  <2> HIDE DEF Good
  <2>7. 0 + 1 = 1
    OBVIOUS
  <2> QED
    BY <2>6, <2>7
<1>5. ASSUME NEW k \in Nat, k \in S PROVE k + 1 \in S
  <2> DEFINE i == k + 1
             g == line[i + 1]
             before == f[i]
  <2> HIDE DEF Good
  <2> SUFFICES ASSUME i + 1 <= n PROVE Good(i + 1)
    OBVIOUS
  <2> USE DEF Good
  <2>1. i \in 1 .. n /\ i + 1 \in 1 .. n /\ i + 1 # 1 /\ (i + 1) - 1 = i
    BY <1>1
  <2>2. Consists(before, First(i))
    BY <1>5, <2>1
  <2> HIDE DEF i
  <2>3. f[i + 1] = before \o g /\ g \in OptionGroups
    BY <1>2, <1>3, <2>1
  <2>4. First(i + 1) = First(i) \cup {g}
    <3>1. \A j : j \in 1 .. i + 1 <=> j \in 1 .. i \/ j = i + 1
      BY <2>1
    <3> QED
      BY <3>1
  <2>5. First(i) \in SUBSET OptionGroups
    <3>1. \A j \in 1 .. i : j \in 1 .. n
      BY <2>1
    <3> QED
      BY <1>2, <3>1
  <2>6. \A other \in First(i) : optionOf(other) # optionOf(g)
    <3> SUFFICES ASSUME NEW j \in 1 .. i PROVE optionOf(line[j]) # optionOf(g)
      OBVIOUS
    <3>1. j \in 1 .. n /\ j # i + 1
      BY <2>1
    <3> QED
      BY <2>1, <3>1 DEF Grammatical
  <2>7. before \in Seq(STRING)
    BY <2>2 DEF Consists
  <2> HIDE DEF First, g, before
  <2>8. Consists(before \o g, First(i) \cup {g})
    BY <2>2, <2>3, <2>5, <2>6, OneGroupMore
  <2> QED
    BY <2>3, <2>4, <2>7, <2>8 DEF g
<1> HIDE DEF S
<1>6. Nat \subseteq S
  BY <1>4, <1>5, InductiveSet
<1>7. n - 1 \in Nat /\ (n - 1) + 1 = n
  BY <1>1
<1>8. Good(n)
  <2> DEFINE k == n - 1
  <2>1. k \in S /\ k + 1 = n
    BY <1>6, <1>7
  <2> HIDE DEF Good, k
  <2> QED
    BY <1>1, <2>1 DEF S
<1>9. First(n) = Range(line)
  BY <1>1 DEF Range
<1>10. FlattenSeq(line) = f[n]
  BY <1>1, FlatIs DEF f
<1> QED
  BY <1>8, <1>9, <1>10

-------------------------------------------------------------------------------
\* The line of no group is empty.
LEMMA LineOfNone == LineOf({}) = <<>>
<1> DEFINE set == {}
           f == CHOOSE g : g = Lengthened(set, g)
<1>1. set \in SUBSET OptionGroups /\ IsFiniteSet(set)
  BY FS_EmptySet
<1>2. f = Lengthened(set, f)
  BY <1>1, LineExists
<1> HIDE DEF f
<1>3. f[set] = <<>>
  BY <1>2 DEF Lengthened
<1> QED
  BY <1>3, LineIs DEF f

\* --raw-input takes what is left of a line.
LEMMA RawWords ==
  ASSUME NEW set \in SUBSET OptionGroups, NEW words, Consists(words, set), NEW group \in set,
         NEW front \in Seq(STRING), words = front \o group
  PROVE  /\ PlaceOf(words, optionOf(group)) # 0
         /\ SubSeq(words, PlaceOf(words, optionOf(group)) + 1, Len(words)) = Tail(group)
<1> DEFINE n == Len(front)
           m == Len(group)
<1>1. /\ group \in Seq(STRING) /\ n \in Nat /\ m \in Nat /\ m # 0
      /\ optionOf(group) \in Options /\ words \in Seq(STRING)
  BY DEF OptionGroups, Consists
<1>2. /\ Len(words) = n + m
      /\ \A j \in 1 .. m : words[n + j] = group[j]
  BY <1>1
<1>3. PlaceOf(words, optionOf(group)) = n + 1
  <2>1. n + 1 \in 1 .. Len(words) /\ 1 \in 1 .. m /\ Len(words) \in Nat
    BY <1>1, <1>2
  <2>2. sanitize(words[n + 1]) = optionOf(group)
    BY <1>2, <2>1 DEF optionOf
  <2> DEFINE k == n + 1
  <2>3. \A i \in 1 .. Len(words) : sanitize(words[i]) = optionOf(group) => i = k
    BY <1>1, <2>1, <2>2 DEF Consists
  <2>4. k \in 1 .. Len(words) /\ sanitize(words[k]) = optionOf(group)
    BY <2>1, <2>2
  <2> HIDE DEF k
  <2>5. PlaceOf(words, optionOf(group)) = k
    BY <2>1, <2>3, <2>4, PlaceIs
  <2> QED
    BY <2>5 DEF k
<1>4. SubSeq(words, (n + 1) + 1, n + m) = Tail(group)
  <2> DEFINE s == SubSeq(words, (n + 1) + 1, n + m)
             t == Tail(group)
  <2>1. s \in Seq(STRING) /\ Len(s) = m - 1 /\ \A j \in 1 .. m - 1 : s[j] = words[(n + 1) + j]
    <3> DEFINE lo == (n + 1) + 1
               hi == n + m
    <3>1. /\ lo \in 1 .. hi + 1 /\ hi \in 0 .. Len(words) /\ hi - lo + 1 = m - 1
          /\ \A j \in 1 .. m - 1 : lo + j - 1 = (n + 1) + j
      BY <1>1, <1>2
    <3>2. words \in Seq(STRING) /\ lo \in Int /\ hi \in Int
      BY <1>1
    <3> HIDE DEF lo, hi
    <3>4. \A i \in lo .. hi : words[i] \in STRING
      BY ONLY <3>1, <3>2
    <3>5. (IF lo <= hi THEN hi - lo + 1 ELSE 0) = hi - lo + 1
      BY ONLY <3>1, <3>2
    <3>3. /\ SubSeq(words, lo, hi) \in Seq(STRING) /\ Len(SubSeq(words, lo, hi)) = hi - lo + 1
          /\ \A j \in 1 .. hi - lo + 1 : SubSeq(words, lo, hi)[j] = words[lo + j - 1]
      BY ONLY <3>2, <3>4, <3>5, SubSeqProperties
    <3> QED
      BY <3>1, <3>3 DEF lo, hi
  <2>2. t \in Seq(STRING) /\ Len(t) = m - 1 /\ \A j \in 1 .. m - 1 : t[j] = group[j + 1]
    BY <1>1
  <2>3. \A j \in 1 .. m - 1 : j + 1 \in 1 .. m /\ (n + 1) + j = n + (j + 1)
    BY <1>1
  <2>4. \A j \in 1 .. m - 1 : s[j] = t[j]
    BY <1>2, <2>1, <2>2, <2>3
  <2> HIDE DEF s, t
  <2>5. s = t
    BY <2>1, <2>2, <2>4
  <2> QED
    BY <2>5 DEF s, t
<1> QED
  BY <1>1, <1>2, <1>3, <1>4

\* What --raw-input says is the same in two lines that both end with it.
LEMMA SameRawInput ==
  ASSUME NEW a, NEW b,
         LET k == PlaceOf(a, "--raw-input")
             l == PlaceOf(b, "--raw-input")
         IN \/ k = 0 /\ l = 0
            \/ /\ k # 0 /\ l # 0
               /\ SubSeq(a, k + 1, Len(a)) = SubSeq(b, l + 1, Len(b))
  PROVE  rawInputOf(a) = rawInputOf(b)
<1> DEFINE F(words) == SelectSeq(words, LAMBDA word : word \notin Hyphenated)
           k == PlaceOf(a, "--raw-input")
           l == PlaceOf(b, "--raw-input")
           x == SubSeq(a, k + 1, Len(a))
           y == SubSeq(b, l + 1, Len(b))
<1>1. WordsOf(a, "--raw-input") = IF k = 0 THEN <<>> ELSE F(x)
  BY DEF WordsOf
<1>2. WordsOf(b, "--raw-input") = IF l = 0 THEN <<>> ELSE F(y)
  BY DEF WordsOf
<1>3. (k = 0 /\ l = 0) \/ (k # 0 /\ l # 0 /\ x = y)
  OBVIOUS
<1> HIDE DEF F, k, l, x, y
<1>4. WordsOf(a, "--raw-input") = WordsOf(b, "--raw-input")
  BY <1>1, <1>2, <1>3
<1> QED
  BY <1>4 DEF rawInputOf

\* The order of the groups makes no difference to the job.
LEMMA AnyOrder ==
  ASSUME PlainWords, NEW line, Grammatical(line)
  PROVE  LET raw == {group \in Range(line) : IsRawInput(group)}
         IN fromCmdLineArgs(FlattenSeq(line)) =
              fromCmdLineArgs(LineOf(Range(line) \ raw) \o LineOf(raw))
<1> DEFINE n == Len(line)
           set == Range(line)
           raw == {group \in set : IsRawInput(group)}
           rest == set \ raw
           a == FlattenSeq(line)
           b == LineOf(rest) \o LineOf(raw)
<1>1. /\ line \in Seq(OptionGroups) /\ n \in Nat
      /\ set = {line[i] : i \in 1 .. n} /\ set \in SUBSET OptionGroups
  BY DEF Grammatical, Range
<1>2. IsFiniteSet(set)
  <2>1. line \in Surjection(1 .. n, set)
    BY <1>1 DEF Surjection, Range
  <2>2. IsFiniteSet(1 .. n)
    <3>1. n \in Int /\ 1 \in Int
      BY <1>1
    <3> HIDE DEF n
    <3> QED
      BY ONLY <3>1, FS_Interval
  <2> QED
    BY <2>1, <2>2, FS_Surjection
<1>3. OnceEach(set)
  BY <1>1 DEF OnceEach, Grammatical
<1>4. \A group \in set : IsRawInput(group) <=> optionOf(group) = "--raw-input"
  <2> SUFFICES ASSUME NEW group \in set PROVE Head(group) = group[1]
    BY DEF IsRawInput, optionOf
  <2>1. group \in Seq(STRING) /\ Len(group) # 0
    BY <1>1 DEF OptionGroups
  <2> QED
    BY <2>1
<1>5. rest \in SUBSET OptionGroups /\ IsFiniteSet(rest) /\ OnceEach(rest)
  BY <1>1, <1>2, <1>3, FS_Subset DEF OnceEach
<1>6. Consists(LineOf(rest), rest)
  BY <1>5, LineConsists
<1>7. LineOf(rest) \in Seq(STRING)
  BY <1>6 DEF Consists
<1>8. CASE n = 0
  <2>1. set = {} /\ raw = {} /\ rest = {} /\ line = <<>>
    BY <1>1, <1>8
  <2>2. a = <<>>
    BY <1>8, <2>1 DEF FlattenSeq
  <2>3. b = <<>> \o <<>>
    BY <2>1, LineOfNone
  <2> QED
    BY <2>2, <2>3
<1>9. CASE n # 0
  <2> DEFINE last == line[n]
  <2>1. Consists(a, set)
    BY <1>9, FlatConsists
  <2>2. PICK front \in Seq(STRING) : a = front \o last
    BY <1>9, FlatConsists
  <2>3. last \in set
    BY <1>1, <1>9
  <2> HIDE DEF a
  <2>4. SUFFICES Consists(b, set) /\ rawInputOf(a) = rawInputOf(b)
    <3> HIDE DEF b, set
    <3>0. set \in SUBSET OptionGroups /\ Consists(a, set) /\ Consists(b, set)
      BY <1>1, <2>1, <2>4
    <3>1. ASSUME NEW option \in Options, NEW d
          PROVE  Found(a, option) = Found(b, option) /\ NumberOf(a, option, d) = NumberOf(b, option, d)
      BY <3>0, SameNumber
    <3>2. \A option \in {"-i", "-o", "-b"} : WordAfter(a, option) = WordAfter(b, option)
      BY <3>0, SameText
    <3>3. modulationOf(a) = modulationOf(b)
      BY <3>0, SameModulation
    <3>4. SameOptions(a, b)
      BY <2>4, <3>1, <3>2, <3>3 DEF SameOptions
    <3>5. fromCmdLineArgs(a) = fromCmdLineArgs(b)
      BY <3>4, SameJobRead
    <3> QED
      BY <3>5 DEF a, b, set
  <2>5. CASE optionOf(last) # "--raw-input"
    <3>1. \A group \in set : optionOf(group) # "--raw-input"
      BY <1>1, <2>5 DEF Grammatical
    <3>2. raw = {}
      BY <1>4, <3>1
    <3>3. rest = set /\ b = LineOf(rest)
      <4> DEFINE x == LineOf(rest)
      <4>1. b = x \o <<>> /\ x \in Seq(STRING) /\ rest = set
        BY <1>7, <3>2, LineOfNone
      <4> HIDE DEF x
      <4>2. x \o <<>> = x
        BY <4>1
      <4> QED
        BY <4>1, <4>2 DEF x
    <3> HIDE DEF rest, b, set, raw
    <3>4. Consists(b, set)
      BY <1>6, <3>3
    <3>5. "--raw-input" \in Options
      BY DEF Options
    <3>6. PlaceOf(a, "--raw-input") = 0 /\ PlaceOf(b, "--raw-input") = 0
      BY <1>1, <2>1, <3>1, <3>4, <3>5, NoPlace
    <3> QED
      BY <3>4, <3>6, SameRawInput
  <2>6. CASE optionOf(last) = "--raw-input"
    <3>1. raw = {last}
      BY <1>1, <1>4, <2>3, <2>6 DEF Grammatical
    <3>2. last \in OptionGroups
      BY <1>1, <2>3
    <3>3. b = LineOf(rest) \o last
      BY <3>1, <3>2, LineOfOne
    <3>4. set = rest \cup {last} /\ \A other \in rest : optionOf(other) # optionOf(last)
      BY <1>3, <2>3, <3>1 DEF OnceEach
    <3> HIDE DEF rest, b, set, raw, last
    <3>5. Consists(b, set)
      BY <1>5, <1>6, <3>2, <3>3, <3>4, OneGroupMore
    <3> DEFINE k == PlaceOf(a, "--raw-input")
               l == PlaceOf(b, "--raw-input")
    <3>6. k # 0 /\ SubSeq(a, k + 1, Len(a)) = Tail(last)
      BY <1>1, <2>1, <2>2, <2>3, <2>6, RawWords
    <3>7. l # 0 /\ SubSeq(b, l + 1, Len(b)) = Tail(last)
      BY <1>1, <1>7, <2>3, <2>6, <3>3, <3>5, RawWords
    <3>8. rawInputOf(a) = rawInputOf(b)
      BY <3>6, <3>7, SameRawInput
    <3> QED
      BY <3>5, <3>8
  <2> QED
    BY <2>5, <2>6
<1> QED
  BY <1>8, <1>9

\* The job that is read when it is about to be looked at.
JobInv ==
  /\ groups \in Lines
  /\ step = "format" => ci = fromCmdLineArgs(args)

\* "command-line options can be supplied in any order": of every line of option groups,
\* each option once and --raw-input at the end, the job does not depend on the order.
THEOREM OptionsCommute ==
  ASSUME PlainWords, \A line \in Lines : Grammatical(line)
  PROVE  ProgramSpec => []OptionsInAnyOrder
<1>1. ProgramInit => JobInv
  BY DEF ProgramInit, JobInv
<1>2. JobInv /\ [ProgramNext]_programVars => JobInv'
  <2> SUFFICES ASSUME JobInv, [ProgramNext]_programVars PROVE JobInv'
    OBVIOUS
  <2>1. groups' = groups
    BY DEF ProgramNext, ParseGlobalOptions, FromCmdLineArgs, RequestedBitFormat, NewExtension,
           Dispatch, InputRefused, RunConvert, Return, programVars
  <2>2. CASE step' = "format"
    <3>1. FromCmdLineArgs \/ UNCHANGED programVars
      BY <2>2 DEF ProgramNext, ParseGlobalOptions, RequestedBitFormat, NewExtension, TakesBest,
                  Dispatch, InputRefused, RunConvert, Return, Exit, GoOn
    <3>2. CASE FromCmdLineArgs
      BY <2>1, <2>2, <3>2 DEF FromCmdLineArgs, Exit, JobInv, args
    <3>3. CASE UNCHANGED programVars
      BY <2>2, <3>3 DEF programVars, JobInv, args
    <3> QED
      BY <3>1, <3>2, <3>3
  <2>3. CASE step' # "format"
    BY <2>1, <2>3 DEF JobInv
  <2> QED
    BY <2>2, <2>3
<1>3. JobInv => OptionsInAnyOrder
  BY AnyOrder DEF JobInv, OptionsInAnyOrder, args
<1> QED
  BY <1>1, <1>2, <1>3, PTL DEF ProgramSpec
-------------------------------------------------------------------------------
(***************************************************************************)
(* The command lines that are printed for the stages.  The line of a stage *)
(* is one of groups, so the lemmas about those say what is found in it;    *)
(* what it is read as is the stage again, because a job that was accepted  *)
(* has a rate, files of different names and a filter within the limits,    *)
(* and nothing that is done to it before convert() changes that.           *)
(***************************************************************************)
\* A pair of groups is appended one after the other.
LEMMA TwoMore ==
  ASSUME NEW words \in Seq(STRING), NEW g \in Seq(STRING), NEW h \in Seq(STRING)
  PROVE  words \o (g \o h) = (words \o g) \o h
BY ConcatAssociative

\* A pair is a sequence of two.
LEMMA PairIsSeq ==
  ASSUME NEW S, NEW a \in S, NEW b \in S
  PROVE  <<a, b>> \in Seq(S)
OBVIOUS

\* An option and its parameter are a group.
LEMMA GroupOfTwo ==
  ASSUME Readable, NEW option \in Options, NEW word \in PlainFiles
  PROVE  LET group == <<option, word>>
         IN group \in OptionGroups /\ optionOf(group) = option /\ Len(group) >= 2 /\ group[2] = word
<1> DEFINE group == <<option, word>>
<1>1. word \in STRING /\ sanitize(word) \notin Options /\ sanitize(option) = option
  BY DEF Readable, PlainFiles
<1>2. group \in Seq(STRING) /\ Len(group) = 2 /\ group[1] = option /\ group[2] = word
  <2>1. option \in STRING /\ word \in STRING
    BY <1>1 DEF Readable
  <2>2. group \in Seq(STRING)
    BY ONLY <2>1, PairIsSeq
  <2>3. Len(group) = 2
    BY ONLY <2>1
  <2>4. group[1] = option /\ group[2] = word
    BY ONLY <2>1
  <2> QED
    BY <2>2, <2>3, <2>4
<1> HIDE DEF group
<1>3. optionOf(group) = option
  BY <1>1, <1>2 DEF optionOf
<1>4. \A k \in 2 .. Len(group) : group[k] = word
  BY <1>2
<1>5. group \in OptionGroups
  <2>1. \A k \in 2 .. Len(group) : sanitize(group[k]) \notin Options
    BY <1>1, <1>4
  <2>2. Len(group) # 0 /\ Len(group) >= 2
    BY <1>2
  <2> QED
    BY <1>2, <1>3, <2>1, <2>2 DEF OptionGroups
<1> QED
  BY <1>2, <1>3, <1>5 DEF group

\* So is an option without one.
LEMMA GroupOfOne ==
  ASSUME Readable, NEW option \in Options \ {"-i", "-o", "-b"}
  PROVE  LET group == <<option>> IN group \in OptionGroups /\ optionOf(group) = option
BY DEF Readable, OptionGroups, optionOf

\* A group that is there on a condition.
LEMMA MaybeGroup ==
  ASSUME NEW set \in SUBSET OptionGroups, NEW words, Consists(words, set),
         NEW group \in OptionGroups, \A other \in set : optionOf(other) # optionOf(group),
         NEW more, NEW moreWords,
         \/ more = {group} /\ moreWords = group
         \/ more = {} /\ moreWords = <<>>
  PROVE  /\ set \cup more \in SUBSET OptionGroups
         /\ Consists(words \o moreWords, set \cup more)
<1>1. CASE more = {group} /\ moreWords = group
  BY <1>1, OneGroupMore
<1>2. CASE more = {} /\ moreWords = <<>>
  <2>1. words \o <<>> = words
    BY DEF Consists
  <2> QED
    BY <1>2, <2>1
<1> QED
  BY <1>1, <1>2

\* The groups of the line that is printed for a stage, and the line.
StageGroups(in, out, r, n, c, t, one, dp, norm, mp) ==
  {<<"-i", in>>, <<"-o", out>>, <<"-r", r>>, <<"--lpf-cutoff", c>>, <<"--lpf-transition", t>>,
   <<"--maxStages", one>>}
    \cup {g \in {<<"--doubleprecision">>} : dp} \cup {g \in {<<"-n", n>>} : norm}
    \cup {g \in {<<"--minphase">>} : mp}

StageWords(in, out, r, n, c, t, one, dp, norm, mp) ==
  <<"-i", in>> \o <<"-o", out>> \o <<"-r", r>>
    \o (IF dp THEN <<"--doubleprecision">> ELSE <<>>)
    \o (IF norm THEN <<"-n", n>> ELSE <<>>)
    \o (IF mp THEN <<"--minphase">> ELSE <<>>)
    \o (<<"--lpf-cutoff", c>> \o <<"--lpf-transition", t>>)
    \o <<"--maxStages", one>>

\* The line of a stage is one of its groups.
LEMMA StageConsists ==
  ASSUME Readable, NEW in \in PlainFiles, NEW out \in PlainFiles,
         NEW r \in PlainFiles, NEW n \in PlainFiles, NEW c \in PlainFiles, NEW t \in PlainFiles,
         NEW one \in PlainFiles, NEW dp, NEW norm, NEW mp
  PROVE  /\ StageGroups(in, out, r, n, c, t, one, dp, norm, mp) \in SUBSET OptionGroups
         /\ Consists(StageWords(in, out, r, n, c, t, one, dp, norm, mp),
                     StageGroups(in, out, r, n, c, t, one, dp, norm, mp))
<1> DEFINE g1 == <<"-i", in>>
           g2 == <<"-o", out>>
           g3 == <<"-r", r>>
           g4 == <<"--doubleprecision">>
           g5 == <<"-n", n>>
           g6 == <<"--minphase">>
           g7 == <<"--lpf-cutoff", c>>
           g8 == <<"--lpf-transition", t>>
           g9 == <<"--maxStages", one>>
           m4 == {g \in {g4} : dp}
           m5 == {g \in {g5} : norm}
           m6 == {g \in {g6} : mp}
           w4 == IF dp THEN g4 ELSE <<>>
           w5 == IF norm THEN g5 ELSE <<>>
           w6 == IF mp THEN g6 ELSE <<>>
           r1 == g1
           r2 == r1 \o g2
           r3 == r2 \o g3
           r4 == r3 \o w4
           r5 == r4 \o w5
           r6 == r5 \o w6
           r7 == r6 \o g7
           r8 == r7 \o g8
           r9 == r8 \o g9
           s1 == {g1}
           s2 == s1 \cup {g2}
           s3 == s2 \cup {g3}
           s4 == s3 \cup m4
           s5 == s4 \cup m5
           s6 == s5 \cup m6
           s7 == s6 \cup {g7}
           s8 == s7 \cup {g8}
           s9 == s8 \cup {g9}
<1>1. /\ g1 \in OptionGroups /\ optionOf(g1) = "-i"
      /\ g2 \in OptionGroups /\ optionOf(g2) = "-o"
      /\ g3 \in OptionGroups /\ optionOf(g3) = "-r"
      /\ g5 \in OptionGroups /\ optionOf(g5) = "-n"
      /\ g7 \in OptionGroups /\ optionOf(g7) = "--lpf-cutoff"
      /\ g8 \in OptionGroups /\ optionOf(g8) = "--lpf-transition"
      /\ g9 \in OptionGroups /\ optionOf(g9) = "--maxStages"
  <2>1. {"-i", "-o", "-r", "-n", "--lpf-cutoff", "--lpf-transition", "--maxStages"} \subseteq Options
    BY DEF Options
  <2> QED
    BY <2>1, GroupOfTwo
<1>2. /\ g4 \in OptionGroups /\ optionOf(g4) = "--doubleprecision"
      /\ g6 \in OptionGroups /\ optionOf(g6) = "--minphase"
  <2>1. {"--doubleprecision", "--minphase"} \subseteq Options \ {"-i", "-o", "-b"}
    BY DEF Options
  <2> QED
    BY <2>1, GroupOfOne
<1>3. g7 \in Seq(STRING) /\ g8 \in Seq(STRING) /\ g1 \in Seq(STRING)
  BY <1>1 DEF OptionGroups
<1> HIDE DEF g1, g2, g3, g4, g5, g6, g7, g8, g9
<1> DEFINE Uses(set, names) == \A g \in set : optionOf(g) \in names
<1>4. s1 \in SUBSET OptionGroups /\ Consists(r1, s1) /\ Uses(s1, {"-i"})
  <2>1. Consists(<<>> \o g1, {} \cup {g1})
    BY <1>1, NoGroup, OneGroupMore
  <2>2. <<>> \o g1 = g1 /\ {} \cup {g1} = {g1}
    BY <1>3
  <2> QED
    BY <1>1, <2>1, <2>2
<1> HIDE DEF r1, s1
<1>5. s2 \in SUBSET OptionGroups /\ Consists(r2, s2) /\ Uses(s2, {"-i", "-o"})
  BY <1>1, <1>4, OneGroupMore
<1> HIDE DEF r2, s2
<1>6. s3 \in SUBSET OptionGroups /\ Consists(r3, s3) /\ Uses(s3, {"-i", "-o", "-r"})
  BY <1>1, <1>5, OneGroupMore
<1> HIDE DEF r3, s3
<1>7. /\ s4 \in SUBSET OptionGroups /\ Consists(r4, s4)
      /\ Uses(s4, {"-i", "-o", "-r", "--doubleprecision"})
  <2>1. \A other \in s3 : optionOf(other) # optionOf(g4)
    BY <1>2, <1>6
  <2>2. \/ m4 = {g4} /\ w4 = g4
        \/ m4 = {} /\ w4 = <<>>
    OBVIOUS
  <2> HIDE DEF m4, w4
  <2>3. s4 \in SUBSET OptionGroups /\ Consists(r4, s4)
    BY <1>2, <1>6, <2>1, <2>2, MaybeGroup
  <2>4. \A g \in m4 : g = g4
    BY <2>2
  <2> QED
    BY <1>2, <1>6, <2>3, <2>4
<1> HIDE DEF r4, s4, m4, w4
<1>8. /\ s5 \in SUBSET OptionGroups /\ Consists(r5, s5)
      /\ Uses(s5, {"-i", "-o", "-r", "--doubleprecision", "-n"})
  <2>1. \A other \in s4 : optionOf(other) # optionOf(g5)
    BY <1>1, <1>7
  <2>2. \/ m5 = {g5} /\ w5 = g5
        \/ m5 = {} /\ w5 = <<>>
    OBVIOUS
  <2> HIDE DEF m5, w5
  <2>3. s5 \in SUBSET OptionGroups /\ Consists(r5, s5)
    BY <1>1, <1>7, <2>1, <2>2, MaybeGroup
  <2>4. \A g \in m5 : g = g5
    BY <2>2
  <2> QED
    BY <1>1, <1>7, <2>3, <2>4
<1> HIDE DEF r5, s5, m5, w5
<1>9. /\ s6 \in SUBSET OptionGroups /\ Consists(r6, s6)
      /\ Uses(s6, {"-i", "-o", "-r", "--doubleprecision", "-n", "--minphase"})
  <2>1. \A other \in s5 : optionOf(other) # optionOf(g6)
    BY <1>2, <1>8
  <2>2. \/ m6 = {g6} /\ w6 = g6
        \/ m6 = {} /\ w6 = <<>>
    OBVIOUS
  <2> HIDE DEF m6, w6
  <2>3. s6 \in SUBSET OptionGroups /\ Consists(r6, s6)
    BY <1>2, <1>8, <2>1, <2>2, MaybeGroup
  <2>4. \A g \in m6 : g = g6
    BY <2>2
  <2> QED
    BY <1>2, <1>8, <2>3, <2>4
<1> HIDE DEF r6, s6, m6, w6
<1>10. /\ s7 \in SUBSET OptionGroups /\ Consists(r7, s7)
       /\ Uses(s7, {"-i", "-o", "-r", "--doubleprecision", "-n", "--minphase", "--lpf-cutoff"})
  BY <1>1, <1>9, OneGroupMore
<1> HIDE DEF r7, s7
<1>11. /\ s8 \in SUBSET OptionGroups /\ Consists(r8, s8)
       /\ Uses(s8, {"-i", "-o", "-r", "--doubleprecision", "-n", "--minphase", "--lpf-cutoff",
                    "--lpf-transition"})
  BY <1>1, <1>10, OneGroupMore
<1> HIDE DEF r8, s8
<1>12. s9 \in SUBSET OptionGroups /\ Consists(r9, s9)
  BY <1>1, <1>11, OneGroupMore
<1>13. r8 = r6 \o (g7 \o g8)
  <2>1. r6 \in Seq(STRING)
    BY <1>9 DEF Consists
  <2> QED
    BY <1>3, <2>1, TwoMore DEF r8, r7
<1>14. StageWords(in, out, r, n, c, t, one, dp, norm, mp) = r9
  <2>1. r9 = (r6 \o (g7 \o g8)) \o g9
    BY <1>13
  <2>2. r6 = ((((g1 \o g2) \o g3) \o w4) \o w5) \o w6
    BY DEF r6, r5, r4, r3, r2, r1
  <2> HIDE DEF r9
  <2> QED
    BY <2>1, <2>2 DEF StageWords, g1, g2, g3, g4, g5, g6, g7, g8, g9, w4, w5, w6
<1>15. StageGroups(in, out, r, n, c, t, one, dp, norm, mp) = s9
  <2>1. s9 = {g1, g2, g3, g7, g8, g9} \cup m4 \cup m5 \cup m6
    BY DEF s8, s7, s6, s5, s4, s3, s2, s1
  <2> HIDE DEF s9
  <2> QED
    BY <2>1 DEF StageGroups, g1, g2, g3, g4, g5, g6, g7, g8, g9, m4, m5, m6
<1> QED
  BY <1>12, <1>14, <1>15

\* Each option of a stage is found with its parameter, and no other.
ReadsAsStage(words, in, out, r, n, c, t, one, dp, norm, mp) ==
  /\ WordAfter(words, "-i") = in /\ WordAfter(words, "-o") = out
  /\ WordAfter(words, "-r") = r
  /\ Found(words, "--lpf-cutoff") /\ WordAfter(words, "--lpf-cutoff") = c
  /\ Found(words, "--lpf-transition") /\ WordAfter(words, "--lpf-transition") = t
  /\ WordAfter(words, "--maxStages") = one
  /\ Found(words, "--doubleprecision") <=> dp
  /\ Found(words, "-n") <=> norm
  /\ norm => WordAfter(words, "-n") = n
  /\ Found(words, "--minphase") <=> mp
  /\ ~Found(words, "--demodulateIQ") /\ ~Found(words, "--singleStage")

\* What is found in the line of a stage.
LEMMA StageRead ==
  ASSUME PlainWords, Readable, NEW in \in PlainFiles, NEW out \in PlainFiles,
         NEW r \in PlainFiles, NEW n \in PlainFiles, NEW c \in PlainFiles, NEW t \in PlainFiles,
         NEW one \in PlainFiles, NEW dp, NEW norm, NEW mp
  PROVE  ReadsAsStage(StageWords(in, out, r, n, c, t, one, dp, norm, mp),
                      in, out, r, n, c, t, one, dp, norm, mp)
<1> DEFINE words == StageWords(in, out, r, n, c, t, one, dp, norm, mp)
           set == StageGroups(in, out, r, n, c, t, one, dp, norm, mp)
           g4 == <<"--doubleprecision">>
           g5 == <<"-n", n>>
           g6 == <<"--minphase">>
           pairs == {<<"-i", in>>, <<"-o", out>>, <<"-r", r>>, <<"--lpf-cutoff", c>>,
                     <<"--lpf-transition", t>>, <<"--maxStages", one>>}
           always == {"-i", "-o", "-r", "--lpf-cutoff", "--lpf-transition", "--maxStages"}
<1>1. set \in SUBSET OptionGroups /\ Consists(words, set)
  BY StageConsists
<1> HIDE DEF words
<1>2. /\ pairs \subseteq set
      /\ dp => g4 \in set
      /\ norm => g5 \in set
      /\ mp => g6 \in set
      /\ \A g \in set : g \in pairs \/ (dp /\ g = g4) \/ (norm /\ g = g5) \/ (mp /\ g = g6)
  BY DEF StageGroups
<1>3. always \cup {"-n", "--doubleprecision", "--minphase", "--demodulateIQ", "--singleStage"}
        \subseteq Options
  BY DEF Options
<1>4. ASSUME NEW option \in always \cup {"-n"}, NEW word \in PlainFiles, <<option, word>> \in set
      PROVE  Found(words, option) /\ WordAfter(words, option) = word
  <2> DEFINE g == <<option, word>>
  <2>1. g \in set /\ optionOf(g) = option /\ Len(g) >= 2 /\ g[2] = word
    BY <1>3, <1>4, GroupOfTwo
  <2> HIDE DEF set, g
  <2> QED
    BY <1>1, <2>1, WordAfterGroup
<1>5. ASSUME NEW option \in {"--doubleprecision", "--minphase"}, <<option>> \in set
      PROVE  Found(words, option)
  <2> DEFINE g == <<option>>
  <2>1. g \in set /\ optionOf(g) = option
    BY <1>3, <1>5, GroupOfOne
  <2> HIDE DEF set, g
  <2> QED
    BY <1>1, <2>1, WordAfterGroup
<1>6. /\ \A g \in pairs : optionOf(g) \in always
      /\ optionOf(g4) = "--doubleprecision" /\ optionOf(g5) = "-n" /\ optionOf(g6) = "--minphase"
  BY <1>3, GroupOfOne, GroupOfTwo
<1>7. ASSUME NEW option \in Options, \A g \in set : optionOf(g) # option
      PROVE  ~Found(words, option)
  <2> HIDE DEF set
  <2>1. PlaceOf(words, option) = 0
    BY <1>1, <1>7, NoPlace
  <2> QED
    BY <2>1 DEF Found
<1>8. <<"-i", in>> \in set /\ <<"-o", out>> \in set /\ <<"-r", r>> \in set
      /\ <<"--lpf-cutoff", c>> \in set /\ <<"--lpf-transition", t>> \in set
      /\ <<"--maxStages", one>> \in set
  BY <1>2
<1>9. ASSUME ~dp PROVE ~Found(words, "--doubleprecision")
  <2> HIDE DEF set, pairs, g4, g5, g6
  <2> QED
    BY <1>2, <1>3, <1>6, <1>7, <1>9
<1>10. ASSUME ~norm PROVE ~Found(words, "-n")
  <2> HIDE DEF set, pairs, g4, g5, g6
  <2> QED
    BY <1>2, <1>3, <1>6, <1>7, <1>10
<1>11. ASSUME ~mp PROVE ~Found(words, "--minphase")
  <2> HIDE DEF set, pairs, g4, g5, g6
  <2> QED
    BY <1>2, <1>3, <1>6, <1>7, <1>11
<1>12. ~Found(words, "--demodulateIQ") /\ ~Found(words, "--singleStage")
  <2> HIDE DEF set, pairs, g4, g5, g6
  <2> QED
    BY <1>2, <1>3, <1>6, <1>7
<1>13. dp => Found(words, "--doubleprecision")
  <2> HIDE DEF set
  <2> QED
    BY <1>2, <1>5
<1>14. mp => Found(words, "--minphase")
  <2> HIDE DEF set
  <2> QED
    BY <1>2, <1>5
<1>15. norm => Found(words, "-n") /\ WordAfter(words, "-n") = n
  <2> HIDE DEF set, always
  <2> QED
    BY <1>2, <1>4
<1>16. /\ WordAfter(words, "-i") = in /\ WordAfter(words, "-o") = out
       /\ WordAfter(words, "-r") = r
       /\ Found(words, "--lpf-cutoff") /\ WordAfter(words, "--lpf-cutoff") = c
       /\ Found(words, "--lpf-transition") /\ WordAfter(words, "--lpf-transition") = t
       /\ WordAfter(words, "--maxStages") = one
  <2> HIDE DEF set
  <2> QED
    BY <1>4, <1>8
<1> QED
  BY <1>9, <1>10, <1>11, <1>12, <1>13, <1>14, <1>15, <1>16 DEF ReadsAsStage, words

\* The fields of a job that a stage is described by.
StageFields ==
  {"inputFilename", "outputFilename", "outputSampleRate", "bMinPhase", "bUseDoublePrecision",
   "maxStages", "lpf", "bMultiStage", "bNormalize", "limit"}

\* The limits that a band is read with.
Cutoffs == Scale .. (999 * Scale) \div 10
Transitions == Scale \div 10 .. 400 * Scale

\* A job whose stages can be described by a line.
Describable(job) ==
  /\ StageFields \subseteq DOMAIN job
  /\ job.inputFilename \in PlainFiles
  /\ job.outputFilename \in PlainFiles \ {job.inputFilename, None}
  /\ job.outputSampleRate \in Int \ {0}
  /\ job.bMinPhase \in BOOLEAN /\ job.bUseDoublePrecision \in BOOLEAN
  /\ job.bNormalize \in BOOLEAN
  /\ job.limit \in Nat \ {0}
  /\ ~job.bNormalize => job.limit = Scale
  /\ DOMAIN job.lpf = {"mode", "cutoff", "transition"}
  /\ job.lpf.cutoff \in Cutoffs /\ job.lpf.transition \in Transitions

\* A number that is printed is no option, and is read as the number.
LEMMA Printed ==
  ASSUME PlainWords, Readable, Printable, NEW value \in Int
  PROVE  LET word == to_string(value)
         IN word \in PlainFiles /\ word \in DOMAIN Number /\ Number[word] = value
<1> DEFINE word == to_string(value)
<1>1. \E w \in DOMAIN Number : Number[w] = value
  BY DEF Printable
<1>2. word \in DOMAIN Number /\ Number[word] = value
  BY <1>1 DEF to_string
<1> HIDE DEF word
<1>3. word \in STRING /\ sanitize(word) \notin Options
  BY <1>2 DEF Readable, PlainWords
<1> QED
  BY <1>2, <1>3 DEF word, PlainFiles

\* An exact product is divided without a rest.
LEMMA QuotientOfProduct ==
  ASSUME NEW a \in Int, NEW b \in Nat \ {0}
  PROVE  a * b \in Int /\ (a * b) \div b = a
OBVIOUS

\* The bands of the stages are within the limits that a band is read with.
LEMMA BandsAreRead ==
  /\ Scale \in Cutoffs /\ 50 * Scale \in Cutoffs /\ 95 * Scale \in Transitions
  /\ Cutoffs \subseteq Int /\ Transitions \subseteq Int
<1>1. PICK k \in Nat \ {0} : Scale = 110 * k
  BY UnitOfScale
<1>2. (999 * Scale) \div 10 = 10989 * k /\ Scale \div 10 = 11 * k
  BY <1>1
<1> QED
  BY <1>1, <1>2 DEF Cutoffs, Transitions

\* The line of a stage is read as a job that filters as the stage does.
LEMMA StageKept ==
  ASSUME PlainWords, Readable, Printable, Describable(ci), ci.bMultiStage = TRUE, NEW rate \in Int \ {0},
         NEW lpf, lpf[1] \in Cutoffs, lpf[2] \in Transitions
  PROVE  LET stage == StageOf(rate, lpf)
             again == fromCmdLineArgs(toCmdLineArgs(stage))
         IN ~again.bBadParams /\ Filtering(again) = Filtering(stage)
<1> DEFINE stage == StageOf(rate, lpf)
           filter == [mode |-> "custom", cutoff |-> lpf[1], transition |-> lpf[2]]
           in == ci.inputFilename
           out == ci.outputFilename
           r == to_string(rate * Scale)
           n == to_string(ci.limit)
           c == to_string(lpf[1])
           t == to_string(lpf[2])
           one == to_string(Scale)
           dp == ci.bUseDoublePrecision
           norm == ci.bNormalize
           mp == ci.bMinPhase
           words == toCmdLineArgs(stage)
           again == fromCmdLineArgs(words)
<1>1. /\ stage.inputFilename = in /\ stage.outputFilename = out
      /\ stage.outputSampleRate = rate /\ stage.bMinPhase = mp /\ stage.bUseDoublePrecision = dp
      /\ stage.maxStages = 1 /\ stage.lpf = filter /\ stage.bMultiStage = TRUE
      /\ stage.limit = ci.limit /\ stage.bNormalize = norm
  BY DEF StageOf, Describable, StageFields
<1>2. filter.mode = "custom" /\ filter.cutoff = lpf[1] /\ filter.transition = lpf[2]
  OBVIOUS
<1> HIDE DEF filter, stage
<1>3. words = StageWords(in, out, r, n, c, t, one, dp, norm, mp)
  <2> HIDE DEF in, out, dp, norm, mp
  <2> QED
    BY <1>1, <1>2 DEF toCmdLineArgs, StageWords, words
<1>4. /\ in \in PlainFiles /\ out \in PlainFiles \ {in, None}
      /\ dp \in BOOLEAN /\ norm \in BOOLEAN /\ mp \in BOOLEAN
      /\ ci.limit \in Nat \ {0} /\ (~norm => ci.limit = Scale)
  BY DEF Describable
<1>5. Scale \in Nat \ {0} /\ rate * Scale \in Int /\ lpf[1] \in Int /\ lpf[2] \in Int /\ ci.limit \in Int
  <2>1. Scale \in Nat \ {0} /\ ci.limit \in Int
    BY <1>4, CommandLineAssumption
  <2>2. rate * Scale \in Int
    BY <2>1, QuotientOfProduct
  <2>3. lpf[1] \in Cutoffs /\ lpf[2] \in Transitions
    OBVIOUS
  <2>4. lpf[1] \in Int /\ lpf[2] \in Int
    BY ONLY <2>3, BandsAreRead
  <2> QED
    BY <2>1, <2>2, <2>4
<1>6. /\ r \in PlainFiles /\ r \in DOMAIN Number /\ Number[r] = rate * Scale
      /\ n \in PlainFiles /\ n \in DOMAIN Number /\ Number[n] = ci.limit
      /\ c \in PlainFiles /\ c \in DOMAIN Number /\ Number[c] = lpf[1]
      /\ t \in PlainFiles /\ t \in DOMAIN Number /\ Number[t] = lpf[2]
      /\ one \in PlainFiles /\ one \in DOMAIN Number /\ Number[one] = Scale
  BY <1>5, Printed
<1> HIDE DEF in, out, r, n, c, t, one, dp, norm, mp, words
<1>7. ReadsAsStage(words, in, out, r, n, c, t, one, dp, norm, mp)
  <2>1. /\ in \in PlainFiles /\ out \in PlainFiles /\ r \in PlainFiles /\ n \in PlainFiles
        /\ c \in PlainFiles /\ t \in PlainFiles /\ one \in PlainFiles
        /\ dp \in BOOLEAN /\ norm \in BOOLEAN /\ mp \in BOOLEAN
    BY <1>4, <1>6
  <2>2. PlainWords /\ Readable
    OBVIOUS
  <2> QED
    <3>1. ReadsAsStage(StageWords(in, out, r, n, c, t, one, dp, norm, mp),
                       in, out, r, n, c, t, one, dp, norm, mp)
      BY ONLY <2>1, <2>2, StageRead, Zenon
    <3> QED
      BY ONLY <1>3, <3>1, Zenon
<1> USE DEF ReadsAsStage
<1>8. /\ \A d : TextOf(words, "-i", None) = in /\ TextOf(words, "-o", None) = out
      /\ IntOf(words, "-r", 0) = rate
      /\ IntOf(words, "--maxStages", 3) = 1
      /\ \A d : NumberOf(words, "--lpf-cutoff", d) = lpf[1]
      /\ \A d : NumberOf(words, "--lpf-transition", d) = lpf[2]
      /\ norm => NumberOf(words, "-n", Scale) = ci.limit
  <2>1. TextOf(words, "-i", None) = in /\ TextOf(words, "-o", None) = out
    BY <1>7 DEF TextOf
  <2>2. /\ \A d : NumberOf(words, "-r", d) = rate * Scale
        /\ \A d : NumberOf(words, "--maxStages", d) = Scale
        /\ \A d : NumberOf(words, "--lpf-cutoff", d) = lpf[1]
        /\ \A d : NumberOf(words, "--lpf-transition", d) = lpf[2]
        /\ norm => \A d : NumberOf(words, "-n", d) = ci.limit
    BY <1>6, <1>7 DEF NumberOf
  <2>3. (rate * Scale) \div Scale = rate
    BY <1>5, QuotientOfProduct
  <2>4. Scale \div Scale = 1
    BY <1>5
  <2> QED
    BY <2>1, <2>2, <2>3, <2>4 DEF IntOf
<1>9. lpfOf(words) = filter
  <2> DEFINE relaxed == Found(words, "--relaxedLPF")
             steep == Found(words, "--steepLPF")
             cut == Limited(lpf[1], Scale, (999 * Scale) \div 10)
             tra == Limited(lpf[2], Scale \div 10, 400 * Scale)
  <2>1. cut = lpf[1] /\ tra = lpf[2]
    <3>1. (999 * Scale) \div 10 \in Int /\ Scale \div 10 \in Int /\ 400 * Scale \in Int
      BY <1>5
    <3>2. lpf[1] \in Cutoffs /\ lpf[2] \in Transitions
      OBVIOUS
    <3> QED
      BY <1>5, <3>1, <3>2 DEF Limited, Cutoffs, Transitions
  <2>2. lpfOf(words) = [mode |-> "custom", cutoff |-> cut, transition |-> tra]
    <3> HIDE DEF cut, tra
    <3> QED
      BY <1>7, <1>8 DEF lpfOf, cut, tra
  <2> HIDE DEF cut, tra
  <2> QED
    BY <2>1, <2>2 DEF filter
<1>10. /\ again.inputFilename = in /\ again.outputFilename = out
       /\ again.outputSampleRate = rate /\ again.bMinPhase = mp /\ again.bUseDoublePrecision = dp
       /\ again.maxStages = 1 /\ again.lpf = filter /\ again.bMultiStage = TRUE
       /\ again.limit = ci.limit
       /\ again.bBadParams = FALSE
  <2>1. /\ again.inputFilename = TextOf(words, "-i", None)
        /\ again.outputFilename = IF TextOf(words, "-o", None) = None /\ TextOf(words, "-i", None) # None
                                    THEN Converted[TextOf(words, "-i", None)]
                                    ELSE TextOf(words, "-o", None)
        /\ again.outputSampleRate = IntOf(words, "-r", 0)
        /\ again.bMinPhase = Found(words, "--minphase")
        /\ again.bUseDoublePrecision = (Found(words, "--doubleprecision") \/ Found(words, "--demodulateIQ"))
        /\ again.maxStages = Limited(IntOf(words, "--maxStages", 3), 1, 10)
        /\ again.lpf = lpfOf(words)
        /\ again.bMultiStage = ~(Found(words, "--singleStage") /\ ~Found(words, "--multiStage"))
        /\ again.limit = IF Found(words, "-n") THEN Positive(NumberOf(words, "-n", Scale), Scale) ELSE Scale
        /\ again.bBadParams = (TextOf(words, "-i", None) = TextOf(words, "-o", None) \/ IntOf(words, "-r", 0) = 0)
    BY DEF fromCmdLineArgs
  <2> HIDE DEF again
  <2>2. Limited(1, 1, 10) = 1
    BY DEF Limited
  <2>3. Positive(ci.limit, Scale) = ci.limit
    BY <1>4 DEF Positive
  <2>4. Found(words, "--minphase") = mp /\ Found(words, "--doubleprecision") = dp
    <3>1. Found(words, "--minphase") \in BOOLEAN /\ Found(words, "--doubleprecision") \in BOOLEAN
      BY DEF Found
    <3> QED
      BY <1>4, <1>7, <3>1
  <2>5. again.limit = ci.limit
    BY <1>4, <1>7, <1>8, <2>1, <2>3
  <2>6. again.maxStages = 1 /\ again.outputSampleRate = rate /\ again.lpf = filter
    BY <1>8, <1>9, <2>1, <2>2
  <2>7. again.inputFilename = in /\ again.outputFilename = out /\ again.bBadParams = FALSE
    BY <1>4, <1>8, <2>1
  <2>8. again.bMinPhase = mp /\ again.bUseDoublePrecision = dp /\ again.bMultiStage = TRUE
    BY <1>4, <1>7, <2>1, <2>4
  <2> QED
    BY <2>5, <2>6, <2>7, <2>8
<1> QED
  <2> HIDE DEF again
  <2>1. Filtering(again) = Filtering(stage)
    BY <1>1, <1>10 DEF Filtering
  <2> QED
    BY <1>10, <2>1 DEF again, words, stage

\* The words of a line are those of its groups.
LEMMA WordsOfLine ==
  ASSUME NEW line, Grammatical(line)
  PROVE  Range(line) \in SUBSET OptionGroups /\ Consists(FlattenSeq(line), Range(line))
<1>1. line \in Seq(OptionGroups) /\ Len(line) \in Nat
  BY DEF Grammatical
<1>2. Range(line) \in SUBSET OptionGroups
  BY <1>1 DEF Range
<1>3. CASE Len(line) = 0
  <2>1. line = <<>> /\ Range(line) = {}
    BY <1>1, <1>3 DEF Range
  <2>2. FlattenSeq(line) = <<>>
    BY <1>3, <2>1 DEF FlattenSeq
  <2> QED
    BY <2>1, <2>2, NoGroup
<1>4. CASE Len(line) # 0
  BY <1>2, <1>4, FlatConsists
<1> QED
  BY <1>2, <1>3, <1>4

\* The name of a file that a line gives is none of the options.
LEMMA FileRead ==
  ASSUME PlainWords, Readable, NEW line, Grammatical(line), NEW option \in {"-i", "-o"}
  PROVE  TextOf(FlattenSeq(line), option, None) \in PlainFiles
<1> DEFINE words == FlattenSeq(line)
           set == Range(line)
           word == WordAfter(words, option)
<1>1. set \in SUBSET OptionGroups /\ Consists(words, set) /\ option \in Options
  BY WordsOfLine DEF Options
<1>2. None \in PlainFiles
  BY DEF PlainFiles, PlainWords, Readable
<1> HIDE DEF words, set
<1>3. CASE \A group \in set : optionOf(group) # option
  <2>1. PlaceOf(words, option) = 0
    BY <1>1, <1>3, NoPlace
  <2>2. word = None
    BY <2>1 DEF WordAfter
  <2> HIDE DEF word
  <2> QED
    BY <1>2, <2>2 DEF TextOf, word, words
<1>4. CASE \E group \in set : optionOf(group) = option
  <2>1. PICK group \in set : optionOf(group) = option
    BY <1>4
  <2>2. /\ group \in Seq(STRING) /\ Len(group) >= 2
        /\ \A k \in 2 .. Len(group) : sanitize(group[k]) \notin Options
    BY <1>1, <2>1 DEF OptionGroups
  <2>3. 2 \in 2 .. Len(group) /\ group[2] \in STRING
    BY <2>2
  <2>4. word = group[2]
    BY <1>1, <2>1, <2>2, WordAfterGroup
  <2>5. word \in PlainFiles
    BY <2>2, <2>3, <2>4 DEF PlainFiles
  <2> HIDE DEF word
  <2> QED
    BY <1>2, <2>5 DEF TextOf, word, words
<1> QED
  BY <1>3, <1>4

\* The filter of a demodulation is made for the music at these rates, and can be printed.
MusicSuits(job) ==
  job.bDemodulateIQ /\ job.IQModulationType = "WFM" => MusicFits(job.outputSampleRate)

\* The fields that are looked at or changed on the way to convert().
OtherFields == {"outputFormat", "outBitFormat", "bDemodulateIQ", "IQModulationType"}

\* A line that is accepted gives a job whose stages can be described.
LEMMA DescribableRead ==
  ASSUME PlainWords, Readable, NEW line, Grammatical(line), Repeatable(line),
         ~fromCmdLineArgs(FlattenSeq(line)).bBadParams
  PROVE  LET job == fromCmdLineArgs(FlattenSeq(line))
         IN Describable(job) /\ OtherFields \subseteq DOMAIN job /\ MusicSuits(job)
<1> DEFINE words == FlattenSeq(line)
           input == TextOf(words, "-i", None)
           output == TextOf(words, "-o", None)
           rate == IntOf(words, "-r", 0)
           job == fromCmdLineArgs(words)
<1>1. input \in PlainFiles /\ output \in PlainFiles
  BY FileRead
<1>2. /\ input # None /\ output = None => Converted[input] \in PlainFiles \ {input, None}
      /\ Found(words, "--demodulateIQ") /\ modulationOf(words) = "WFM" => MusicFits(rate)
  BY DEF Repeatable
<1> HIDE DEF words
<1>3. StageFields \cup OtherFields \subseteq DOMAIN job
  BY DEF fromCmdLineArgs, StageFields, OtherFields
<1>4. /\ job.inputFilename = input
      /\ job.outputFilename = IF output = None /\ input # None THEN Converted[input] ELSE output
      /\ job.outputSampleRate = rate
      /\ job.bMinPhase = Found(words, "--minphase")
      /\ job.bUseDoublePrecision = (Found(words, "--doubleprecision") \/ Found(words, "--demodulateIQ"))
      /\ job.bNormalize = Found(words, "-n")
      /\ job.limit = IF Found(words, "-n") THEN Positive(NumberOf(words, "-n", Scale), Scale) ELSE Scale
      /\ job.lpf = lpfOf(words)
      /\ job.bDemodulateIQ = Found(words, "--demodulateIQ")
      /\ job.IQModulationType = IF Found(words, "--demodulateIQ") THEN modulationOf(words) ELSE "NONE"
      /\ job.bBadParams = (input = output \/ rate = 0)
  BY DEF fromCmdLineArgs
<1>5. ~job.bBadParams
  BY DEF words
<1>6. rate \in Int
  <2>1. rate = job.outputSampleRate
    BY <1>4
  <2> QED
    BY RadioRead, <2>1
<1> HIDE DEF job, input, output, rate
<1>7. input # output /\ rate \in Int \ {0}
  BY <1>4, <1>5, <1>6
<1>8. \A option : Found(words, option) \in BOOLEAN
  BY DEF Found
<1>9. /\ job.bMinPhase \in BOOLEAN /\ job.bUseDoublePrecision \in BOOLEAN
      /\ job.bNormalize \in BOOLEAN
  BY <1>4, <1>8
<1>10. job.limit \in Nat \ {0} /\ (~job.bNormalize => job.limit = Scale)
  <2>1. Scale \in Nat \ {0} /\ NumberOf(words, "-n", Scale) \in Int
    BY CommandLineAssumption, NumberInt
  <2>2. Positive(NumberOf(words, "-n", Scale), Scale) \in Nat \ {0}
    BY <2>1 DEF Positive
  <2> QED
    BY <1>4, <2>1, <2>2
<1>11. /\ DOMAIN job.lpf = {"mode", "cutoff", "transition"}
       /\ job.lpf.cutoff \in Cutoffs /\ job.lpf.transition \in Transitions
  BY <1>4, FilterRead DEF Cutoffs, Transitions
<1>12. job.inputFilename \in PlainFiles /\ job.outputFilename \in PlainFiles \ {job.inputFilename, None}
  BY <1>1, <1>2, <1>4, <1>7
<1>13. Describable(job)
  BY <1>3, <1>4, <1>7, <1>9, <1>10, <1>11, <1>12 DEF Describable
<1>14. MusicSuits(job)
  BY <1>2, <1>4 DEF MusicSuits
<1> QED
  BY <1>3, <1>13, <1>14 DEF job, words

\* a is between two multiples of b.
Between(a, b, least, most) ==
  /\ a \in Int /\ b \in Nat \ {0} /\ least \in Int /\ most \in Int
  /\ least * b <= a /\ a <= most * b

QuotientIn(a, b, least, most) == a \div b \in least .. most

\* A quotient between two bounds.
LEMMA QuotientBetween ==
  ASSUME NEW a, NEW b, NEW least, NEW most, Between(a, b, least, most)
  PROVE  QuotientIn(a, b, least, most)
<1>1. /\ a \in Int /\ b \in Nat \ {0} /\ least \in Int /\ most \in Int
      /\ least * b <= a /\ a <= most * b
  BY DEF Between
<1> DEFINE r == a \div b
<1>2. r <= most
  BY <1>1, QuotientBound
<1>3. r \in Int /\ a < r * b + b
  BY <1>1
<1> HIDE DEF r
<1>4. least <= r
  <2> SUFFICES ASSUME r + 1 <= least PROVE FALSE
    BY <1>1, <1>3
  <2> DEFINE more == least - (r + 1)
  <2>1. more \in Nat /\ least = r + 1 + more
    BY <1>1, <1>3
  <2> HIDE DEF more
  <2>2. least * b = r * b + b + more * b /\ more * b \in Nat /\ r * b \in Int
    BY <1>1, <1>3, <2>1
  <2> QED
    BY <1>1, <1>3, <2>2
<1> QED
  BY <1>1, <1>2, <1>3, <1>4 DEF r, QuotientIn

\* The filter that runCommand() makes for the music is one that can be read.
MusicBandIn(rate) ==
  /\ (100 * Scale * lpfT * 2) \div rate \in Cutoffs
  /\ (100 * Scale * lpfW * 2) \div rate \in Transitions

LEMMA MusicIsRead ==
  ASSUME NEW rate \in Int, 31032 <= rate, rate <= 96000
  PROVE  MusicBandIn(rate)
<1>1. PICK k \in Nat \ {0} : Scale = 110 * k
  BY UnitOfScale
<1> DEFINE p == k * rate
           music == 341000000 * k
           edge == 77000000 * k
<1>2. /\ 100 * Scale * lpfT * 2 = music /\ 100 * Scale * lpfW * 2 = edge
      /\ (999 * Scale) \div 10 = 10989 * k /\ Scale \div 10 = 11 * k /\ 400 * Scale = 44000 * k
  BY <1>1 DEF lpfT, lpfW
<1>3. p \in Int /\ 31032 * k <= p /\ p <= 96000 * k
  <2>1. p \in Int
    OBVIOUS
  <2>2. k * 31032 <= k * rate /\ k * rate <= k * 96000
    OBVIOUS
  <2> QED
    BY <2>1, <2>2
<1>4. (10989 * k) * rate = 10989 * p /\ (110 * k) * rate = 110 * p
      /\ (44000 * k) * rate = 44000 * p /\ (11 * k) * rate = 11 * p
  OBVIOUS
<1>5. /\ music \in Int /\ edge \in Int /\ rate \in Nat \ {0}
      /\ 10989 * k \in Int /\ 110 * k \in Int /\ 44000 * k \in Int /\ 11 * k \in Int
  OBVIOUS
<1>6. /\ music <= (10989 * k) * rate /\ (110 * k) * rate <= music
      /\ edge <= (44000 * k) * rate /\ (11 * k) * rate <= edge
  <2> HIDE DEF p
  <2>1. /\ music <= 10989 * p /\ 110 * p <= music /\ edge <= 44000 * p /\ 11 * p <= edge
    BY <1>3
  <2> QED
    BY <1>4, <2>1
<1>7. music \div rate \in 110 * k .. 10989 * k /\ edge \div rate \in 11 * k .. 44000 * k
  <2> DEFINE lo == 110 * k
             hi == 10989 * k
             lo2 == 11 * k
             hi2 == 44000 * k
  <2>1. Between(music, rate, lo, hi) /\ Between(edge, rate, lo2, hi2)
    BY <1>5, <1>6 DEF Between
  <2> HIDE DEF music, edge, lo, hi, lo2, hi2
  <2>2. QuotientIn(music, rate, lo, hi) /\ QuotientIn(edge, rate, lo2, hi2)
    BY ONLY <2>1, QuotientBetween
  <2> QED
    BY <2>2 DEF QuotientIn, lo, hi, lo2, hi2
<1> DEFINE c == music \div rate
           t == edge \div rate
<1>8. c \in Cutoffs /\ t \in Transitions
  <2>1. c \in 110 * k .. 10989 * k /\ t \in 11 * k .. 44000 * k
    BY <1>7
  <2> HIDE DEF c, t
  <2> QED
    BY <1>1, <1>2, <2>1 DEF Cutoffs, Transitions
<1> QED
  <2> HIDE DEF music, edge
  <2> QED
    BY <1>2, <1>8 DEF MusicBandIn

\* What runCommand() makes of the options of a demodulation leaves the job describable.
LEMMA DescribableJob ==
  ASSUME Describable(ci), OtherFields \subseteq DOMAIN ci, MusicSuits(ci), ci' = Job
  PROVE  Describable(ci')
<1> DEFINE rate == ci.outputSampleRate
<1>1. /\ StageFields \cup OtherFields \subseteq DOMAIN ci
      /\ DOMAIN ci.lpf = {"mode", "cutoff", "transition"} /\ rate \in Int
  BY DEF Describable
<1> HIDE DEF rate
<1>2. CASE ~ci.bDemodulateIQ \/ dsd
  <2>1. ci' = ci
    BY <1>2 DEF Job
  <2> QED
    BY <2>1
<1>3. CASE ~(~ci.bDemodulateIQ \/ dsd) /\ ci.IQModulationType # "WFM"
  <2>1. ci' = [ci EXCEPT !.bNormalize = TRUE]
    BY <1>3 DEF Job
  <2> QED
    BY <1>1, <2>1 DEF Describable, StageFields
<1>4. CASE ~(~ci.bDemodulateIQ \/ dsd) /\ ci.IQModulationType = "WFM"
  <2>1. CASE rate <= 30000
    <3>1. ci' = [ci EXCEPT !.IQModulationType = "WFM_NO_LOWPASS"]
      BY <1>4, <2>1 DEF Job, rate
    <3> QED
      BY <1>1, <3>1 DEF Describable, StageFields
  <2>2. CASE ~(rate <= 30000) /\ rate <= 96000
    <3> DEFINE c == (100 * Scale * lpfT * 2) \div rate
               t == (100 * Scale * lpfW * 2) \div rate
    <3>1. ci' = [ci EXCEPT !.IQModulationType = "WFM_NO_LOWPASS",
                           !.lpf.cutoff = c, !.lpf.transition = t]
      BY <1>4, <2>2 DEF Job, PercentOfNyquist, rate
    <3>2. MusicFits(rate)
      BY <1>4 DEF MusicSuits, rate
    <3>3. rate \in Int /\ 31032 <= rate /\ rate <= 96000
      <4>1. rate \in Int
        BY <1>1
      <4> QED
        BY ONLY <2>2, <3>2, <4>1 DEF MusicFits
    <3>4. c \in Cutoffs /\ t \in Transitions
      <4>1. MusicBandIn(rate)
        BY ONLY <3>3, MusicIsRead
      <4> QED
        BY <4>1 DEF MusicBandIn
    <3> HIDE DEF c, t
    <3> DEFINE one == [ci EXCEPT !.IQModulationType = "WFM_NO_LOWPASS"]
               two == [one EXCEPT !.lpf = [one.lpf EXCEPT !.cutoff = c]]
               three == [two EXCEPT !.lpf = [two.lpf EXCEPT !.transition = t]]
               Kept(job) == /\ \A field \in StageFields \ {"lpf"} : job[field] = ci[field]
                            /\ DOMAIN job = DOMAIN ci
    <3>5. /\ Kept(one) /\ one.lpf = ci.lpf /\ DOMAIN one.lpf = {"mode", "cutoff", "transition"}
      BY <1>1 DEF StageFields
    <3>6. ci' = three
      BY <3>1
    <3> HIDE DEF one
    <3>7. Kept(two) /\ two.lpf = [one.lpf EXCEPT !.cutoff = c]
      BY <1>1, <3>5 DEF StageFields
    <3>8. two.lpf.cutoff = c /\ DOMAIN two.lpf = {"mode", "cutoff", "transition"}
      BY <3>5, <3>7
    <3> HIDE DEF two
    <3>9. Kept(three) /\ three.lpf = [two.lpf EXCEPT !.transition = t]
      BY <1>1, <3>7 DEF StageFields
    <3>10. /\ three.lpf.cutoff = c /\ three.lpf.transition = t
           /\ DOMAIN three.lpf = {"mode", "cutoff", "transition"}
      BY <3>8, <3>9
    <3> HIDE DEF three
    <3>11. Describable(three)
      <4>1. \A field \in StageFields \ {"lpf"} : three[field] = ci[field]
        BY <3>9
      <4>2. /\ three.inputFilename = ci.inputFilename /\ three.outputFilename = ci.outputFilename
            /\ three.outputSampleRate = ci.outputSampleRate /\ three.bMinPhase = ci.bMinPhase
            /\ three.bUseDoublePrecision = ci.bUseDoublePrecision
            /\ three.bNormalize = ci.bNormalize /\ three.limit = ci.limit
        BY <4>1 DEF StageFields
      <4>3. StageFields \subseteq DOMAIN three
        BY <1>1, <3>9
      <4> QED
        BY <3>4, <3>10, <4>2, <4>3 DEF Describable
    <3> QED
      BY <3>6, <3>11
  <2>3. CASE ~(rate <= 30000) /\ ~(rate <= 96000)
    <3>1. ci' = ci
      BY <1>4, <2>3 DEF Job, rate
    <3> QED
      BY <3>1
  <2> QED
    BY <2>1, <2>2, <2>3
<1> QED
  BY <1>2, <1>3, <1>4

\* The job's stages can be described, from the words on.
DescribableInv ==
  /\ groups \in Lines
  /\ step \in {"format", "extension", "dispatch"} =>
       Describable(ci) /\ OtherFields \subseteq DOMAIN ci /\ MusicSuits(ci)
  /\ step = "run" => Describable(ci)

\* Each step of runCommand() does.
LEMMA DescribableStep ==
  ASSUME PlainWords, Readable, \A line \in Lines : Grammatical(line) /\ Repeatable(line),
         DescribableInv, [ProgramNext]_programVars
  PROVE  DescribableInv'
<1>1. CASE ParseGlobalOptions
  BY <1>1 DEF ParseGlobalOptions, Exit, GoOn, DescribableInv
<1>2. CASE FromCmdLineArgs
  <2>1. groups' = groups /\ step' \in {"exit", "dispatch", "format"}
    BY <1>2 DEF FromCmdLineArgs, Exit, GoOn
  <2>2. step' # "exit" => ci' = fromCmdLineArgs(args) /\ ~fromCmdLineArgs(args).bBadParams
    BY <1>2 DEF FromCmdLineArgs, Exit
  <2>3. step' # "exit" => Describable(ci') /\ OtherFields \subseteq DOMAIN ci' /\ MusicSuits(ci')
    BY <2>2, DescribableRead DEF DescribableInv, args
  <2> QED
    BY <2>1, <2>3 DEF DescribableInv
<1>3. CASE RequestedBitFormat \/ NewExtension
  <2>1. /\ groups' = groups /\ step \in {"format", "extension"}
        /\ step' \in {"extension", "dispatch", "exit"}
    BY <1>3 DEF RequestedBitFormat, NewExtension, TakesBest, Exit, GoOn
  <2>2. Describable(ci) /\ OtherFields \subseteq DOMAIN ci /\ MusicSuits(ci)
    BY <2>1 DEF DescribableInv
  <2>3. (\E bitFormat : Takes(bitFormat)) \/ UNCHANGED ci
    BY <1>3 DEF RequestedBitFormat, NewExtension, TakesBest
  <2>4. \/ UNCHANGED ci
        \/ \E bitFormat, format :
             ci' = [ci EXCEPT !.outputFormat = format, !.outBitFormat = bitFormat]
        \/ \E format : ci' = [ci EXCEPT !.outputFormat = format]
    BY <2>3 DEF Takes
  <2>5. \/ UNCHANGED ci
        \/ /\ DOMAIN ci' = DOMAIN ci
           /\ \A field \in StageFields \cup {"bDemodulateIQ", "IQModulationType"} : ci'[field] = ci[field]
    <3>1. StageFields \subseteq DOMAIN ci
      BY <2>2 DEF Describable
    <3> QED
      BY <2>2, <2>4, <3>1 DEF OtherFields, StageFields
  <2>6. Describable(ci') /\ OtherFields \subseteq DOMAIN ci' /\ MusicSuits(ci')
    <3>1. CASE UNCHANGED ci
      BY <2>2, <3>1
    <3>2. CASE /\ DOMAIN ci' = DOMAIN ci
               /\ \A field \in StageFields \cup {"bDemodulateIQ", "IQModulationType"} : ci'[field] = ci[field]
      <4>1. /\ ci'.inputFilename = ci.inputFilename /\ ci'.outputFilename = ci.outputFilename
            /\ ci'.outputSampleRate = ci.outputSampleRate /\ ci'.bMinPhase = ci.bMinPhase
            /\ ci'.bUseDoublePrecision = ci.bUseDoublePrecision
            /\ ci'.bNormalize = ci.bNormalize /\ ci'.limit = ci.limit /\ ci'.lpf = ci.lpf
            /\ ci'.bDemodulateIQ = ci.bDemodulateIQ /\ ci'.IQModulationType = ci.IQModulationType
        BY <3>2 DEF StageFields
      <4>2. Describable(ci')
        BY <2>2, <3>2, <4>1 DEF Describable
      <4>3. MusicSuits(ci')
        BY <2>2, <4>1 DEF MusicSuits
      <4> QED
        BY <2>2, <3>2, <4>2, <4>3
    <3> QED
      BY <2>5, <3>1, <3>2
  <2> QED
    BY <2>1, <2>6 DEF DescribableInv
<1>4. CASE Dispatch
  <2>1. ci' = Job /\ groups' = groups /\ step = "dispatch" /\ step' = "run"
    BY <1>4 DEF Dispatch, GoOn
  <2>2. Describable(ci')
    BY <2>1, DescribableJob DEF DescribableInv
  <2> QED
    BY <2>1, <2>2 DEF DescribableInv
<1>5. CASE InputRefused \/ Return
  BY <1>5 DEF InputRefused, Return, Exit, DescribableInv
<1>6. CASE RunConvert \/ UNCHANGED programVars
  <2>1. UNCHANGED <<groups, ci, step>>
    BY <1>6 DEF RunConvert, programVars
  <2> QED
    BY <2>1 DEF DescribableInv
<1> QED
  BY <1>1, <1>2, <1>3, <1>4, <1>5, <1>6 DEF ProgramNext

\* "Command lines to do this conversion in discreet steps": whatever the job, the line that
\* is printed for a stage is read as a job with the rate, the band, the phase, the precision
\* and the limit of the stage.
THEOREM StagesAreReadAgain ==
  ASSUME PlainWords, Readable, Printable,
         \A line \in Lines : Grammatical(line) /\ Repeatable(line)
  PROVE  ProgramSpec => []StagesInDiscreteSteps
<1>1. ProgramInit => DescribableInv
  BY DEF ProgramInit, DescribableInv
<1>2. DescribableInv /\ [ProgramNext]_programVars => DescribableInv'
  BY DescribableStep
<1>3. DescribableInv => StagesInDiscreteSteps
  <2> SUFFICES ASSUME DescribableInv, step = "run", ci.bMultiStage,
                      NEW rate \in {ci.outputSampleRate, 88200}, NEW lpf \in StageBands
               PROVE  LET stage == StageOf(rate, lpf)
                          again == fromCmdLineArgs(toCmdLineArgs(stage))
                      IN ~again.bBadParams /\ Filtering(again) = Filtering(stage)
    BY DEF StagesInDiscreteSteps
  <2>1. Describable(ci)
    BY DEF DescribableInv
  <2>2. rate \in Int \ {0} /\ lpf[1] \in Cutoffs /\ lpf[2] \in Transitions
    BY <2>1, BandsAreRead DEF Describable, StageBands
  <2> QED
    BY <2>1, <2>2, StageKept
<1> QED
  BY <1>1, <1>2, <1>3, PTL DEF ProgramSpec
===============================================================================

------------------------------- MODULE Convert -------------------------------
(***************************************************************************)
(* The passes of convert() in ReSampler.cpp: the conversion of the input   *)
(* file into the output file or into a temporary file, the check of the    *)
(* peak against the limit, and the repetition with less gain, from the     *)
(* temporary file or from the input.  One pass over a file is one step     *)
(* (BlockLoop is about what happens in it).                                *)
(*                                                                         *)
(* A file's contents are the peaks of the conversions written to it.  Peaks*)
(* are integers, a gain is in units of Unity, rounded up in a product and  *)
(* down in an adjustment, where the code multiplies by clippingTrim.       *)
(* libsndfile says how much of a write it wrote and nobody looks; a csv    *)
(* file's stream throws.                                                   *)
(***************************************************************************)
EXTENDS Integers, Sequences, SequencesExt

CONSTANTS
  Signals,       \* the peak of the converted input at unity gain
  Gains,         \* the initial gains
  Unity, Limit,  \* unity gain; ci.limit
  OutputKinds,   \* "csv"; libsndfile's, "sndfile", or "unseekable" while they are written
  DitherPeaks,   \* by how much the dither of a pass may raise the peak
  Effects,       \* what the effects multiply the peak by, in percent
  CutPeaks,      \* the peaks of what may be left of a temporary file
  MaxAttempts    \* maxClippingProtectionAttempts

ASSUME ConvertAssumption ==
  /\ Signals \subseteq Nat /\ Gains \subseteq Nat /\ DitherPeaks \subseteq Nat
  /\ CutPeaks \subseteq Nat
  /\ Unity \in Nat \ {0} /\ Limit \in Nat \ {0} /\ MaxAttempts \in Nat \ {0}
  /\ OutputKinds \subseteq {"sndfile", "unseekable", "csv"} /\ Effects \subseteq Nat

VARIABLES
  bTmpFile, bDither, disableClippingProtection, outputKind, effect, signal,
  initialGain,
  pc,
  gain, peakOutputSample, clippingProtectionAttempts,
  converters, ditherers,  \* "fresh", or "used": they carry state of a conversion
  tmpFile,                \* the peak of what is in the temporary file
  tmpCut,                 \* a write to it was cut short
  csvErr,                 \* the csv file could not be opened
  outFile                 \* the peaks of the conversions in the output file, in order

options == <<bDither, disableClippingProtection, outputKind, effect, signal, initialGain>>
files == <<tmpFile, tmpCut, csvErr, outFile>>
vars == <<bTmpFile, options, pc, gain, peakOutputSample, clippingProtectionAttempts,
          converters, ditherers, files>>

CeilDiv(a, b) == (a + b - 1) \div b
NoFile == -1
Partial == -1  \* in the output: a conversion of which a part is missing

Init ==
  /\ bTmpFile \in BOOLEAN /\ bDither \in BOOLEAN
  /\ disableClippingProtection \in BOOLEAN
  /\ outputKind \in OutputKinds /\ effect \in Effects /\ signal \in Signals
  /\ initialGain \in Gains
  /\ pc = "open"
  /\ gain = initialGain
  /\ peakOutputSample = 0 /\ clippingProtectionAttempts = 0
  /\ converters = "fresh" /\ ditherers = "fresh"
  /\ tmpFile = NoFile /\ tmpCut = FALSE
  /\ csvErr = FALSE
  /\ outFile = <<>>
-------------------------------------------------------------------------------
\* libsndfile cannot open the output: convert returns false.
OpenFails ==
  /\ pc = "open" /\ outputKind # "csv"
  /\ pc' = "failed"
  /\ UNCHANGED <<bTmpFile, options, gain, peakOutputSample, clippingProtectionAttempts,
                 converters, ditherers, files>>

\* Opening the output for writing empties it; whether a csv file was opened is not asked.
\* When there is no temporary file to be had the conversion goes on without.
Open ==
  /\ pc = "open"
  /\ csvErr' \in IF outputKind = "csv" THEN BOOLEAN ELSE {FALSE}
  /\ outFile' = IF csvErr' THEN outFile ELSE <<>>
  /\ \/ bTmpFile /\ tmpFile' = 0 /\ UNCHANGED bTmpFile
     \/ bTmpFile' = FALSE /\ UNCHANGED tmpFile
  /\ pc' = "convert"
  /\ UNCHANGED <<options, gain, peakOutputSample, clippingProtectionAttempts,
                 converters, ditherers, tmpCut>>

Amplified(peak) == CeilDiv(peak * gain, Unity)

\* What dithering may add to the peak of a pass.
Noise(dithered) == IF dithered THEN DitherPeaks ELSE {0}

\* Mutant: the temporary file's gain is applied a second time.
GainAfterConvertKept == UNCHANGED gain

\* "output file must start with unity gain relative to temp file"
GainAfterConvert == gain' = IF bTmpFile THEN Unity ELSE gain

\* The temporary file has all that was written, or what was left of it.
WriteTmp(peak) ==
  \/ tmpFile' = peak /\ UNCHANGED tmpCut
  \/ tmpFile' \in {p \in CutPeaks : p <= peak} /\ tmpCut' = TRUE

\* What the output may hold of a conversion: what is missing in the temporary file is
\* missing here, and libsndfile may write a part.
Held(peak) ==
  IF tmpCut THEN {Partial} ELSE IF outputKind = "csv" THEN {peak} ELSE {peak, Partial}

\* A conversion is written behind the contents; a csv file that is not open takes nothing.
WriteOut(contents, peak) ==
  \E held \in Held(peak) : outFile' = IF csvErr THEN outFile ELSE Append(contents, held)

\* The central conversion loop: the peak is taken before the effects; a temporary file
\* is not dithered.
ConvertAll ==
  /\ pc = "convert"
  /\ \E noise \in Noise(bDither /\ ~bTmpFile) :
       LET peak == Amplified(signal) + noise
           written == CeilDiv(peak * effect, 100)
       IN /\ peakOutputSample' = peak
          /\ IF bTmpFile THEN WriteTmp(written) /\ UNCHANGED outFile
                         ELSE WriteOut(outFile, written) /\ UNCHANGED <<tmpFile, tmpCut>>
  /\ converters' = "used"
  /\ ditherers' = IF bDither /\ ~bTmpFile THEN "used" ELSE ditherers
  /\ GainAfterConvert
  /\ pc' = "test"
  /\ UNCHANGED <<bTmpFile, options, clippingProtectionAttempts, csvErr>>

Clipping == peakOutputSample > Limit

\* Mutant: the converters keep their history.
ResetDitherersOnly ==
  /\ ditherers' = "fresh"
  /\ UNCHANGED converters

\* The ditherers and the converters start over.
Reset ==
  /\ ditherers' = "fresh"
  /\ converters' = "fresh"

\* Mutant: the gain is set for the limit at unity.
AdjustGainFromUnity == gain' = (Unity * Limit) \div peakOutputSample

AdjustGain == gain' = (gain * Limit) \div peakOutputSample

TestForClipping ==
  /\ pc = "test"
  /\ IF ~disableClippingProtection /\ Clipping
       THEN AdjustGain /\ Reset
       ELSE UNCHANGED <<gain, converters, ditherers>>
  /\ pc' = IF bTmpFile THEN "rewrite" ELSE "decide"
  /\ UNCHANGED <<bTmpFile, options, peakOutputSample, clippingProtectionAttempts, files>>

\* Mutant: the output file is not rewound.
RewoundNever == outFile

\* The output file is rewound and overwritten, if libsndfile can go back in it: whether it
\* could is not asked.  A csv file is not rewound at all.
Rewound == IF outputKind = "sndfile" THEN <<>> ELSE outFile

\* From the temporary file to the output file, with gain and dither.
Rewrite ==
  /\ pc = "rewrite"
  /\ \E noise \in Noise(bDither) :
       LET peak == Amplified(tmpFile) + noise
       IN /\ peakOutputSample' = peak
          /\ WriteOut(Rewound, peak)
  /\ ditherers' = IF bDither THEN "used" ELSE ditherers
  /\ pc' = "decide"
  /\ UNCHANGED <<bTmpFile, options, gain, clippingProtectionAttempts, converters,
                 tmpFile, tmpCut, csvErr>>

CountAttempt ==
  clippingProtectionAttempts' = clippingProtectionAttempts + IF Clipping THEN 1 ELSE 0

\* Mutant: || for the && between the clipping and the attempts.
AgainEither ==
  /\ ~disableClippingProtection
  /\ Clipping \/ clippingProtectionAttempts' < MaxAttempts

Again ==
  /\ Clipping /\ ~disableClippingProtection
  /\ clippingProtectionAttempts' < MaxAttempts

\* The conditions of the two while loops.
Decide ==
  /\ pc = "decide"
  /\ CountAttempt
  /\ pc' = IF Again THEN IF bTmpFile THEN "test" ELSE "open" ELSE "returned"
  /\ UNCHANGED <<bTmpFile, options, gain, peakOutputSample, converters, ditherers, files>>

\* A write to a csv file fails: its stream throws, out of convert.  The destructor closes
\* the file, and when that fails, too, the exception from a destructor is the end.
CsvThrows ==
  /\ \/ pc = "rewrite"
     \/ pc = "convert" /\ ~bTmpFile
  /\ outputKind = "csv" /\ ~csvErr
  /\ outFile' = Append(outFile, Partial)
  /\ pc' \in {"thrown", "killed"}
  /\ UNCHANGED <<bTmpFile, options, gain, peakOutputSample, clippingProtectionAttempts,
                 converters, ditherers, tmpFile, tmpCut, csvErr>>

\* So is one when the loop is left, or goes back to open the file again.
CsvCloseThrows ==
  /\ pc = "decide"
  /\ CountAttempt /\ ~(Again /\ bTmpFile)
  /\ outputKind = "csv" /\ ~csvErr
  /\ outFile' = Append(Front(outFile), Partial)
  /\ pc' = "killed"
  /\ UNCHANGED <<bTmpFile, options, gain, peakOutputSample, converters, ditherers,
                 tmpFile, tmpCut, csvErr>>

Next ==
  \/ OpenFails \/ Open \/ ConvertAll \/ TestForClipping \/ Rewrite \/ Decide
  \/ CsvThrows \/ CsvCloseThrows

Spec == Init /\ [][Next]_vars
-------------------------------------------------------------------------------
(***************************************************************************)
(* Properties.                                                             *)
(***************************************************************************)
Places == {"open", "convert", "test", "rewrite", "decide",
           "returned", "failed", "thrown", "killed"}

TypeOK ==
  /\ bTmpFile \in BOOLEAN
  /\ pc \in Places
  /\ gain \in Nat /\ peakOutputSample \in Nat
  /\ clippingProtectionAttempts \in 0 .. MaxAttempts
  /\ converters \in {"fresh", "used"} /\ ditherers \in {"fresh", "used"}
  /\ tmpFile \in Nat \cup {NoFile} /\ tmpCut \in BOOLEAN
  /\ csvErr \in BOOLEAN
  /\ outFile \in Seq(Nat \cup {Partial})

\* Every conversion, the first or a repetition, starts with filters and dither that
\* know nothing of an earlier one, so it repeats the earlier one but for the gain.
FreshStart ==
  /\ pc \in {"open", "convert"} => converters = "fresh" /\ ditherers = "fresh"
  /\ pc = "rewrite" => ditherers = "fresh"

\* The conversion that was written last is in the output as a whole.
WrittenWhole == ~csvErr /\ outFile # <<>> /\ Last(outFile) # Partial

\* "it will re-do the conversion with the overall gain adjusted appropriately to avoid
\* clipping": where no effects come between the peak and the file, the output does not
\* clip, unless dither raised the peak again in each of the attempts.  Of an output with
\* a part missing, which may also have one of an earlier conversion, nothing is said.
WithinLimit ==
  pc = "returned" /\ ~disableClippingProtection /\ effect = 100 /\ WrittenWhole =>
    \/ Last(outFile) <= Limit
    \/ bDither /\ clippingProtectionAttempts = MaxAttempts

\* A file that cannot go back is not rewound between the rewrites from a temporary file.
NeverRewound == outputKind # "sndfile" /\ bTmpFile

\* How often the output was written since it was opened: every time but the last clipped.
TimesWritten ==
  IF bTmpFile THEN clippingProtectionAttempts + IF Clipping THEN 0 ELSE 1 ELSE 1

\* The re-done conversion replaces the one that clipped: the output file holds the input
\* once, unless it is never rewound, when it holds one conversion for each rewrite.  (Of a
\* csv file that could not be opened nothing is known but that convert returns.)
ConversionsInOutput ==
  pc = "returned" /\ ~csvErr => Len(outFile) = IF NeverRewound THEN TimesWritten ELSE 1

\* The gain is taken back no more than the limit asks for, and is not applied twice:
\* what is written without dither and effects is as loud as it would have been, or
\* just below the limit.
LoudAsAllowed ==
  pc = "returned" /\ ~bDither /\ effect = 100 /\ WrittenWhole =>
    \/ Last(outFile) = CeilDiv(signal * initialGain, Unity)
    \/ Last(outFile) \in Limit - 1 .. Limit
===============================================================================

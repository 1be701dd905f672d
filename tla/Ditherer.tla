------------------------------- MODULE Ditherer -------------------------------
(***************************************************************************)
(* The Ditherer of a channel: how much noise is added to each sample, what *)
(* auto-blanking makes of silence, and what is left of a pass when convert *)
(* repeats it with less gain.  A random number is known by its place after *)
(* the seed, a quantisation error by the pass and sample it comes from.    *)
(* Scale factors are integers; the values of the samples are left out.     *)
(***************************************************************************)
EXTENDS Integers, Sequences, SequencesExt

CONSTANTS
  FIRLength,
  FullScale,              \* maxDitherScaleFactor at a gain of 100
  autoBlankTimeThreshold, \* silent samples before blanking, 30000 in the code
  autoBlankDecayFactor,   \* in percent
  autoBlankDecayCutoff,
  Adjustments,            \* gain adjustments, in percent
  MaxSamples,             \* bound: samples in a pass
  MaxPasses               \* bound: passes

ASSUME DithererAssumption ==
  /\ FIRLength \in Nat \ {0} /\ FullScale \in Nat \ {0}
  /\ autoBlankTimeThreshold \in Nat /\ autoBlankDecayCutoff \in Nat \ {0}
  /\ autoBlankDecayFactor \in 1 .. 99 /\ Adjustments \subseteq 1 .. 99
  /\ MaxSamples \in Nat /\ MaxPasses \in Nat \ {0}

VARIABLES
  bAutoBlankingEnabled, generator, shaper,  \* the options
  gain, maxDitherScaleFactor,
  ditherScaleFactor, masterVolume, zeroCount,
  drawn,      \* random numbers drawn since the generator was seeded
  oldRandom,  \* the place of the last one, 0 for none
  f,          \* the passes whose noise is in the biquads f1 and f2
  Z1,         \* the sample whose error it is, <<>> for none
  FIRHistory, \* those of the errors in the filter
  pass, heard, \* the pass, and the levels of its samples so far
  out         \* what was made of the last sample

options  == <<bAutoBlankingEnabled, generator, shaper>>
level    == <<ditherScaleFactor, masterVolume, zeroCount>>
noise    == <<drawn, oldRandom, f>>
feedback == <<Z1, FIRHistory>>
vars == <<options, gain, maxDitherScaleFactor, level, noise, feedback, pass, heard, out>>

None == <<>>

\* The generators and noise-shaping filters of ditherProfileList; "none" is a profile
\* without error feedback.
profiles ==
  {<<"flat", "none">>, <<"legacy", "passThrough">>, <<"flat", "fir">>, <<"sloped", "fir">>,
   <<"rpdf", "none">>, <<"rpdf", "passThrough">>}
-------------------------------------------------------------------------------
\* The initial state of auto-blanking is silence.
InitialScale(max) == IF bAutoBlankingEnabled THEN 0 ELSE max

Init ==
  /\ bAutoBlankingEnabled \in BOOLEAN
  /\ \E p \in profiles : generator = p[1] /\ shaper = p[2]
  /\ gain = 100
  /\ maxDitherScaleFactor = FullScale
  /\ ditherScaleFactor = InitialScale(FullScale)
  /\ masterVolume = 1
  /\ zeroCount = 0
  /\ drawn = 0 /\ oldRandom = 0 /\ f = {}
  /\ Z1 = None /\ FIRHistory = [k \in 1 .. FIRLength |-> None]
  /\ pass = 1 /\ heard = <<>>
  /\ out = None

\* Mutant: the count goes on after a sound.
AutoBlankWithoutReset(sample) ==
  LET decayed == (ditherScaleFactor * autoBlankDecayFactor) \div 100
  IN IF ~bAutoBlankingEnabled THEN UNCHANGED level
     ELSE IF sample = "sound"
       THEN /\ ditherScaleFactor' = maxDitherScaleFactor
            /\ masterVolume' = 1
            /\ UNCHANGED zeroCount
     ELSE /\ zeroCount' = zeroCount + 1
          /\ IF zeroCount' <= autoBlankTimeThreshold
               THEN UNCHANGED <<ditherScaleFactor, masterVolume>>
             ELSE IF decayed < autoBlankDecayCutoff
               THEN ditherScaleFactor' = 0 /\ masterVolume' = 0
             ELSE ditherScaleFactor' = decayed /\ UNCHANGED masterVolume

\* Silence is counted; when there has been enough the noise decays and is then cut off,
\* and the output muted.  A sound brings both back.
AutoBlank(sample) ==
  LET decayed == (ditherScaleFactor * autoBlankDecayFactor) \div 100
  IN IF ~bAutoBlankingEnabled THEN UNCHANGED level
     ELSE IF sample = "sound"
       THEN /\ ditherScaleFactor' = maxDitherScaleFactor
            /\ masterVolume' = 1
            /\ zeroCount' = 0
     ELSE /\ zeroCount' = zeroCount + 1
          /\ IF zeroCount' <= autoBlankTimeThreshold
               THEN UNCHANGED <<ditherScaleFactor, masterVolume>>
             ELSE IF decayed < autoBlankDecayCutoff
               THEN ditherScaleFactor' = 0 /\ masterVolume' = 0
             ELSE ditherScaleFactor' = decayed /\ UNCHANGED masterVolume

\* The random numbers a sample's noise is made of, newest first; the difference of the
\* sloped generators is with the number of the sample before.
Numbers ==
  CASE generator = "flat" -> <<drawn + 2, drawn + 1>>
    [] generator = "rpdf" -> <<drawn + 1>>
    [] OTHER              -> <<drawn + 1, oldRandom>>

noiseGenerator ==
  /\ drawn' = drawn + IF generator = "flat" THEN 2 ELSE 1
  /\ oldRandom' = IF generator \in {"sloped", "legacy"} THEN drawn' ELSE oldRandom
  /\ f' = IF generator = "legacy" THEN f \cup {pass} ELSE f

\* The errors that are taken from a sample, newest first; the filter is shifted
\* backwards when it has been summed up.
noiseShapingFilter ==
  FIRHistory' = IF shaper = "fir"
                  THEN [k \in 1 .. FIRLength |-> IF k = 1 THEN Z1 ELSE FIRHistory[k - 1]]
                  ELSE FIRHistory

Errors ==
  CASE shaper = "none"        -> <<>>
    [] shaper = "passThrough" -> <<Z1>>
    [] OTHER                  -> FIRHistory'

dither(sample) ==
  /\ Len(heard) < MaxSamples
  /\ heard' = Append(heard, sample)
  /\ AutoBlank(sample)
  /\ noiseGenerator
  /\ noiseShapingFilter
  /\ Z1' = <<pass, Len(heard')>>
  /\ out' = [numbers |-> Numbers, filters |-> f', errors |-> Errors,
             scale |-> ditherScaleFactor', volume |-> masterVolume']
  /\ UNCHANGED <<options, gain, maxDitherScaleFactor, pass>>

adjustGain(factor) ==
  /\ gain' = (gain * factor) \div 100
  /\ maxDitherScaleFactor' = (FullScale * gain') \div 100

\* Mutant: the number that the sloped generators remember stays.
resetButOldRandom(max) ==
  /\ f' = {} /\ FIRHistory' = [k \in 1 .. FIRLength |-> None]
  /\ drawn' = 0 /\ Z1' = None /\ UNCHANGED oldRandom
  /\ zeroCount' = 0 /\ masterVolume' = 1 /\ ditherScaleFactor' = InitialScale(max)

\* Everything but the gain is as in a new ditherer.
reset(max) ==
  /\ f' = {} /\ FIRHistory' = [k \in 1 .. FIRLength |-> None]
  /\ drawn' = 0 /\ oldRandom' = 0 /\ Z1' = None
  /\ zeroCount' = 0 /\ masterVolume' = 1 /\ ditherScaleFactor' = InitialScale(max)

\* Mutant: reset before the gain is adjusted.
RepeatResetFirst(factor) ==
  /\ pass < MaxPasses
  /\ pass' = pass + 1 /\ heard' = <<>> /\ out' = None
  /\ adjustGain(factor)
  /\ reset(maxDitherScaleFactor)
  /\ UNCHANGED options

\* When convert has found clipping it calls adjustGain, then reset.
Repeat(factor) ==
  /\ pass < MaxPasses
  /\ pass' = pass + 1 /\ heard' = <<>> /\ out' = None
  /\ adjustGain(factor)
  /\ reset(maxDitherScaleFactor')
  /\ UNCHANGED options

Next ==
  \/ \E sample \in {"sound", "silence"} : dither(sample)
  \/ \E factor \in Adjustments : Repeat(factor)

Spec == Init /\ [][Next]_vars
-------------------------------------------------------------------------------
(***************************************************************************)
(* Properties.                                                             *)
(***************************************************************************)
\* The silent samples in a row at the end of what was heard in this pass.
SilentRun ==
  LET k == SelectLastInSeq(heard, LAMBDA s : s = "sound") IN Len(heard) - k

\* The noise after n samples of decay.
Decayed[n \in Nat] ==
  IF n = 0 THEN maxDitherScaleFactor ELSE (Decayed[n - 1] * autoBlankDecayFactor) \div 100

\* "Dithering is re-enabled immediately upon a non-zero input sample being detected", at
\* the level that goes with the gain of this pass; without auto-blanking every sample is
\* dithered at that level.
SoundIsDithered ==
  out # None /\ (~bAutoBlankingEnabled \/ Last(heard) = "sound") =>
    out.scale = maxDitherScaleFactor /\ out.volume = 1

\* "Dithering [switches] off after 30,000 consecutive input samples of silence": the
\* output is not muted before, it is when the noise has had time to decay, and the noise
\* never grows in silence.
BlankingFollowsSilence ==
  out # None /\ bAutoBlankingEnabled =>
    /\ out.volume = 0 => SilentRun > autoBlankTimeThreshold /\ out.scale = 0
    /\ \A n \in 1 .. MaxSamples :
         SilentRun >= autoBlankTimeThreshold + n =>
           /\ out.scale <= Decayed[n]
           /\ Decayed[n] < autoBlankDecayCutoff => out.volume = 0

\* A repetition is dithered as the first pass was: the noise of its samples is made of
\* the same random numbers, and no error or filtered noise of another pass is in it.
RepetitionIsTheSame ==
  out # None =>
    LET n == Len(heard)
    IN /\ out.numbers = CASE generator = "flat" -> <<2 * n, 2 * n - 1>>
                          [] generator = "rpdf" -> <<n>>
                          [] OTHER              -> <<n, n - 1>>
       /\ out.filters \subseteq {pass}
       /\ \A k \in DOMAIN out.errors :
            out.errors[k] = IF k < n THEN <<pass, n - k>> ELSE None
===============================================================================

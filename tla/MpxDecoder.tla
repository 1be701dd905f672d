------------------------------ MODULE MpxDecoder ------------------------------
(***************************************************************************)
(* MpxDecoder of mpxdecode.h, which makes two stereo channels of a         *)
(* demodulated FM broadcast.  A sample goes into a delay line, the mono    *)
(* signal, and into the band filters of the pilot tone and of the side     *)
(* signal (the variables of FIRFilter are those of filters.at(1)); a gain  *)
(* is searched for that brings the pilot to a stable level, and what it    *)
(* finds decides whether the two signals are mixed.                        *)
(*                                                                         *)
(* Levels are logarithmic: where the code multiplies by a rate the model   *)
(* adds to an integer.  What the filters and the oscillator compute is     *)
(* left out; the pilot filter's output has any of a few levels.            *)
(***************************************************************************)
EXTENDS FIRFilter

CONSTANTS
  Levels,               \* the levels of the pilot filter's output
  NoPeak,               \* the level of pilotPeak when nothing was put: a zero
  pilotMaxGain,         \* above the initial gain, which is level 0
  pilotStableLow, pilotStableHigh,
  increaseRate, decreaseRate

ASSUME MpxDecoderAssumption ==
  /\ Length % 2 = 1
  /\ Levels \subseteq Int /\ NoPeak \in Int
  /\ pilotMaxGain \in Nat \ {0}
  /\ pilotStableLow \in Int /\ pilotStableHigh \in Int
  /\ NoPeak < pilotStableLow
  /\ increaseRate \in Nat \ {0} /\ decreaseRate \in Nat \ {0}
  /\ decreaseRate <= pilotStableHigh - pilotStableLow

VARIABLES
  delayLine, delayIndex,   \* the mono signal's history and its currentIndex
  pilotGain, pilotPeak,
  pilotPresence            \* "Unknown", "Present", "NotPresent"

delayVars == <<delayLine, delayIndex>>
pilotVars == <<pilotGain, pilotPeak, pilotPresence>>
mpxVars == <<firVars, delayVars, pilotVars>>

centerTap == (Length - 1) \div 2

InitMpx ==
  /\ InitFIR
  /\ delayLine = [i \in 0 .. Length - 1 |-> Zero]
  /\ delayIndex = Length - 1
  /\ pilotGain = 0 /\ pilotPeak = NoPeak
  /\ pilotPresence = "Unknown"
-------------------------------------------------------------------------------
\* Placing the input into the history.
Delay(x) ==
  /\ delayLine' = [delayLine EXCEPT ![delayIndex] = x]
  /\ delayIndex' = IF delayIndex = 0 THEN Length - 1 ELSE delayIndex - 1

\* Mutant: the place of the centre tap as if the newest sample were at the index.
monoFromIndex ==
  LET d == delayIndex + centerTap + 1
  IN delayLine[IF d >= Length THEN d - Length ELSE d]

\* The sample that is half a filter old, read after the index has moved on.
mono ==
  LET d == delayIndex + centerTap
  IN delayLine[IF d >= Length THEN d - Length ELSE d]

Louder(a, b) == IF a > b THEN a ELSE b

\* Too much gain would be needed: there is no pilot.
GainExhausted ==
  /\ pilotGain >= pilotMaxGain
  /\ pilotGain' = pilotMaxGain
  /\ pilotPresence' = "NotPresent"

\* Mutant: the gain is kept below its maximum, which it is then never seen to reach.
PilotTooQuietKept(peak) ==
  /\ pilotGain < pilotMaxGain
  /\ peak < pilotStableLow
  /\ pilotGain' = IF pilotGain + increaseRate < pilotMaxGain THEN pilotGain + increaseRate
                                                            ELSE pilotMaxGain - 1
  /\ UNCHANGED pilotPresence

PilotTooQuiet(peak) ==
  /\ pilotGain < pilotMaxGain
  /\ peak < pilotStableLow
  /\ pilotGain' = pilotGain + increaseRate
  /\ UNCHANGED pilotPresence

\* Mutant: the gain is lowered, and the peak forgotten.
PilotTooLoudForgetting(peak) ==
  /\ pilotGain < pilotMaxGain
  /\ peak > pilotStableHigh
  /\ pilotGain' = pilotGain - decreaseRate
  /\ pilotPeak' = NoPeak
  /\ UNCHANGED pilotPresence

PilotTooLoud(peak) ==
  /\ pilotGain < pilotMaxGain
  /\ peak > pilotStableHigh
  /\ pilotGain' = pilotGain - decreaseRate
  /\ pilotPeak' = peak - decreaseRate
  /\ UNCHANGED pilotPresence

PilotStable(peak) ==
  /\ pilotGain < pilotMaxGain
  /\ peak \in pilotStableLow .. pilotStableHigh
  /\ pilotPresence' = "Present"
  /\ UNCHANGED pilotGain

\* The pilot of this sample at the gain of the last one.
FollowPilot(level) ==
  LET peak == Louder(pilotPeak, level + pilotGain)
  IN \/ GainExhausted /\ pilotPeak' = peak
     \/ PilotTooQuiet(peak) /\ pilotPeak' = peak
     \/ PilotTooLoud(peak)
     \/ PilotStable(peak) /\ pilotPeak' = peak

decode(x, level) ==
  /\ Delay(x)
  /\ put(x)
  /\ FollowPilot(level)

NextMpx == \E x \in Samples, level \in Levels : decode(x, level)

SpecMpx == InitMpx /\ [][NextMpx]_mpxVars

\* IQFile::read decodes frame after frame.
FairSpecMpx == SpecMpx /\ WF_mpxVars(NextMpx)
-------------------------------------------------------------------------------
(***************************************************************************)
(* Properties.                                                             *)
(***************************************************************************)
MpxTypeOK ==
  /\ delayLine \in [0 .. Length - 1 -> Samples]
  /\ delayIndex \in 0 .. Length - 1
  /\ pilotGain \in Int /\ pilotPeak \in Int
  /\ pilotPresence \in {"Unknown", "Present", "NotPresent"}

\* The mono signal and the side signal are mixed without a shift in time: the sample
\* taken from the delay line is the one that the middle tap of the side's (symmetric)
\* filter meets.  (The products of the vector loop are the same, VectorDropsTail says.)
MonoMeetsCentreTap == <<centerTap, mono>> \in ScalarGet

\* Once it is known whether there is a pilot it never changes: a broadcast does not
\* fall back to mono and come again, and one whose pilot comes late stays mono.
DecidedOnce == [][pilotPresence # "Unknown" => UNCHANGED pilotPresence]_mpxVars

\* The search for the gain comes to an end, with a pilot or without.
Decided == <>(pilotPresence # "Unknown")

\* What the search keeps to.  A peak that has reached the lower bound stays above it, so
\* the gain only falls from then on; a gain at the maximum stays there.
PilotInv ==
  /\ pilotPresence = "Present" => pilotPeak >= pilotStableLow /\ pilotGain < pilotMaxGain
  /\ pilotPresence = "NotPresent" => pilotGain >= pilotMaxGain

\* The delay line holds what the lower half of the side filter's ring holds.
SameHistory ==
  /\ delayIndex = currentIndex
  /\ \A k \in 0 .. Length - 1 : delayLine[k] = signal[k]

MpxInv == IInv /\ MpxTypeOK /\ PilotInv /\ SameHistory
===============================================================================

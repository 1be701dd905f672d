----------------------------- MODULE EffectChain -----------------------------
(***************************************************************************)
(* The output effects of a pass: the chain of effectchain.h, with the      *)
(* stereo imager and the fade as convert() puts them into it.  Each effect *)
(* fills the first frames of a buffer of its own and hands it on; a fade   *)
(* that has nothing (more) to do hands on what it was given.               *)
(*                                                                         *)
(* A frame is what its channels hold, and the gain it was given.  A gain   *)
(* of 0 is unity; its unit is such that the steps of both fades are        *)
(* integers, and a fade in starts and a fade out ends at quietDb.          *)
(***************************************************************************)
EXTENDS Integers

CONSTANTS
  Channels,
  Slots,    \* the frames of a buffer
  Unset,    \* what a buffer holds when it is new
  Garbled   \* what comes of mixing samples of different frames

VARIABLES
  bAdjustStereoWidth, fadeInTime, fadeOutTime,  \* options, times in output frames (0: not asked for)
  totalFrames,
  imagerBuffer, fadeBuffer,
  fade      \* fadeType, position and gain of the FadeEffect

Lower(a, b)  == IF a < b THEN a ELSE b
Higher(a, b) == IF a > b THEN a ELSE b
-------------------------------------------------------------------------------
hasStereoImager == bAdjustStereoWidth /\ Channels = {1, 2}
hasFade         == fadeInTime > 0 \/ fadeOutTime > 0
hasOutputFX     == hasStereoImager \/ hasFade

shortestPossibleFade == 2

fadeInStopPosition ==
  IF fadeInTime >= shortestPossibleFade THEN Lower(fadeInTime, totalFrames - 1) ELSE 0

fadeOutStartPosition == Higher(fadeInStopPosition, totalFrames - 1 - fadeOutTime)

FadesIn  == fadeInStopPosition > 0
FadesOut == fadeOutTime >= shortestPossibleFade /\ fadeOutStartPosition < totalFrames - 1

\* The steps of the gain, up and down.
gainIncreaseRate == IF FadesOut THEN totalFrames - fadeOutStartPosition ELSE 1
gainDecreaseRate == IF FadesIn THEN fadeInStopPosition ELSE 1

outputBuffer == [f \in Slots |-> [frame |-> [c \in Channels |-> Unset], gain |-> 0]]

InitChain ==
  /\ imagerBuffer = outputBuffer /\ fadeBuffer = outputBuffer
  /\ fade = [fadeType |-> (IF FadesIn THEN {"in"} ELSE {}) \cup (IF FadesOut THEN {"out"} ELSE {}),
             position |-> 0,
             gain |-> IF FadesIn THEN -(fadeInStopPosition * gainIncreaseRate) ELSE 0]
-------------------------------------------------------------------------------
\* StereoImager: mid and side of each frame.
Imaged(input, n) ==
  [f \in Slots |->
     IF f < n
       THEN [input[f] EXCEPT !.frame = [c \in Channels |->
               IF \A d \in Channels : @[d] = @[c] THEN @[c] ELSE Garbled]]
       ELSE imagerBuffer[f]]

\* FadeEffect, from a frame to the next: a fade in is switched off when it is complete.
NextFrame(s) ==
  LET risen    == s.gain + gainIncreaseRate
      rises    == "in" \in s.fadeType /\ s.gain < 0
      complete == rises /\ risen >= 0
      gain     == IF complete THEN 0 ELSE IF rises THEN risen ELSE s.gain
      falls    == "out" \in s.fadeType /\ s.position >= fadeOutStartPosition
  IN [fadeType |-> IF complete THEN s.fadeType \ {"in"} ELSE s.fadeType,
      position |-> s.position + 1,
      gain     |-> IF falls THEN gain - gainDecreaseRate ELSE gain]

\* Mutant: the place in the file starts over with each block.
AfterFramesOfBlock(n) ==
  LET after[i \in 0 .. n] ==
        IF i = 0 THEN [fade EXCEPT !.position = 0] ELSE NextFrame(after[i - 1])
  IN after

AfterFrames(n) ==
  LET after[i \in 0 .. n] == IF i = 0 THEN fade ELSE NextFrame(after[i - 1])
  IN after

bypass == ~hasFade \/ fade.fadeType = {}

Fade(input, n) ==
  IF bypass THEN UNCHANGED <<fadeBuffer, fade>>
  ELSE /\ fadeBuffer' = [f \in Slots |->
            IF f < n THEN [input[f] EXCEPT !.gain = AfterFrames(n)[f].gain] ELSE fadeBuffer[f]]
       /\ fade' = AfterFrames(n)[n]

\* process(), for so many frames (none, if there are fewer).
process(input, count) ==
  LET n == Higher(0, count)
  IN /\ imagerBuffer' = IF hasStereoImager THEN Imaged(input, n) ELSE imagerBuffer
     /\ Fade(IF hasStereoImager THEN imagerBuffer' ELSE input, n)

\* The buffer that process() returns.
Processed(input) ==
  IF ~bypass THEN fadeBuffer' ELSE IF hasStereoImager THEN imagerBuffer' ELSE input
-------------------------------------------------------------------------------
\* The gain that a file's frame should have: up to unity where the fade in stops, and
\* down from where the fade out starts.
Shape(k) ==
  (IF FadesIn /\ k < fadeInStopPosition
     THEN -((fadeInStopPosition - k) * gainIncreaseRate) ELSE 0)
  - (IF FadesOut /\ k > fadeOutStartPosition
       THEN (k - fadeOutStartPosition) * gainDecreaseRate ELSE 0)
===============================================================================

------------------------------ MODULE DelayLine ------------------------------
(***************************************************************************)
(* What an FIR filter needs of its memory: the last Length samples it was  *)
(* given, newest first, zeros before the first one.  FIRFilter keeps them  *)
(* in a double-length ring and implements this module.                     *)
(***************************************************************************)
EXTENDS Integers

CONSTANTS
  Length,    \* the number of filter taps, positive
  Samples,   \* the values a sample may have
  Zero       \* silence, one of Samples

VARIABLE
  age        \* age[k] is the sample that was put k puts ago (0: the newest)

Silence == [k \in 0 .. Length - 1 |-> Zero]

Init == age = Silence

Shift(x) == age' = [k \in 0 .. Length - 1 |-> IF k = 0 THEN x ELSE age[k - 1]]

Clear == age' = Silence

Next ==
  \/ \E x \in Samples : Shift(x)
  \/ Clear

Spec == Init /\ [][Next]_age
===============================================================================

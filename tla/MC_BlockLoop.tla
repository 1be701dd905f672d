----------------------------- MODULE MC_BlockLoop -----------------------------
(***************************************************************************)
(* Group delays without effects, and fades of several lengths, one of them *)
(* too short to be made, without a delay.                                  *)
(***************************************************************************)
EXTENDS BlockLoop

Setting(delay, stereo, fadeIn, fadeOut) ==
  [delay |-> delay, stereo |-> stereo, fadeIn |-> fadeIn, fadeOut |-> fadeOut]

DelaysOrFades ==
  {Setting(delay, FALSE, 0, 0) : delay \in 0 .. 2}
    \cup {Setting(0, FALSE, fadeIn, fadeOut) : fadeIn \in {0, 1, 2, 4}, fadeOut \in {0, 2, 3}}

\* A delay and effects together.
DelayAndStereo == {Setting(1, TRUE, 0, 0)}
===============================================================================

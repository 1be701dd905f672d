------------------------------ MODULE SerialPass ------------------------------
(***************************************************************************)
(* What one pass of the conversion promises, whatever its blocks, threads  *)
(* and buffers: the frames of the converted stream, every channel at the   *)
(* same place, one after another, without the first Delay of them, and at  *)
(* least as many as last as long as the input.  BlockLoop implements it.   *)
(***************************************************************************)
EXTENDS Integers, Sequences

CONSTANTS
  Channels,  \* the channels of the input file
  L, M       \* the conversion ratio, positive

VARIABLES
  frames,    \* the length of the input
  delay,     \* the frames to leave out
  consumed,  \* the frames of the input, and of the silence after it, converted so far
  file,      \* the frames written: for each channel, which one of the stream
  done

passVars == <<frames, delay, consumed, file, done>>

\* The number of output frames that so many input frames make.
Made(n) == (n * L + M - 1) \div M

Kept(n) == IF Made(n) > delay THEN Made(n) - delay ELSE 0

StreamUpTo(n) == [k \in 1 .. Kept(n) |-> [c \in Channels |-> delay + k - 1]]

Init ==
  /\ frames \in Nat /\ delay \in Nat
  /\ consumed = 0
  /\ file = <<>>
  /\ done = FALSE

Block ==
  /\ ~done
  /\ consumed' >= consumed
  /\ file' = StreamUpTo(consumed')
  /\ UNCHANGED <<frames, delay, done>>

End ==
  /\ ~done
  /\ Len(file) >= Made(frames)
  /\ done' = TRUE
  /\ UNCHANGED <<frames, delay, consumed, file>>

Next == Block \/ End

Spec == Init /\ [][Next]_passVars

FairSpec == Spec /\ <>done
===============================================================================

---------------------------- MODULE SampleStream ----------------------------
(***************************************************************************)
(* What convert() takes an input file to be: the samples of all channels,  *)
(* frame after frame, which are read in blocks of any size and can be read *)
(* again from the start.  At the end of a file that lacks a part a read    *)
(* fails instead of coming back empty.                                     *)
(***************************************************************************)
EXTENDS Integers, Sequences

CONSTANT ReadSizes  \* how many samples the caller may ask for

VARIABLES
  phase,     \* "opening", "open", "refused" (an error is reported), "failed" (thrown)
  stream,    \* the samples that can be read
  complete,  \* the file holds all that its headers promise
  position,  \* samples read since the start
  block      \* what the last read delivered

vars == <<phase, stream, complete, position, block>>
-------------------------------------------------------------------------------
Init ==
  /\ phase = "opening"
  /\ complete \in BOOLEAN
  /\ position = 0
  /\ block = <<>>

Open ==
  /\ phase = "opening"
  /\ phase' \in {"open", "refused", "failed"}
  /\ UNCHANGED <<stream, complete, position, block>>

Rest == Len(stream) - position

Read(n) ==
  /\ phase = "open"
  /\ n <= Rest \/ complete
  /\ LET k == IF n <= Rest THEN n ELSE Rest
     IN /\ block' = SubSeq(stream, position + 1, position + k)
        /\ position' = position + k
  /\ UNCHANGED <<phase, stream, complete>>

ReadFails(n) ==
  /\ phase = "open"
  /\ n > Rest /\ ~complete
  /\ phase' = "failed"
  /\ position' \in position .. Len(stream)
  /\ UNCHANGED <<stream, complete, block>>

Rewind ==
  /\ phase = "open"
  /\ position' = 0
  /\ block' = <<>>
  /\ UNCHANGED <<phase, stream, complete>>

Next == Open \/ (\E n \in ReadSizes : Read(n) \/ ReadFails(n)) \/ Rewind

Spec == Init /\ [][Next]_vars
===============================================================================

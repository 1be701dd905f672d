-------------------------------- MODULE IQFile --------------------------------
(***************************************************************************)
(* The reader of iqdemodulator.h: a sound file of two channels, the I and  *)
(* the Q component, of which the caller gets the demodulated signal.  A    *)
(* frame of the file is known by its number.  For AM and the sidebands a   *)
(* sample is made of its frame alone; for FM the differentiator sums up    *)
(* the phases of the last frames, and as its coefficients add up to zero   *)
(* the sample depends on the phase's changes within that window: an FM     *)
(* sample is known by the frames in the window, newest first.  Wideband FM *)
(* feeds it to an MpxDecoder, which makes two samples of it, one for each  *)
(* channel; MpxDecoder is about what else they are made of.                *)
(***************************************************************************)
EXTENDS Integers, Sequences

CONSTANTS
  IQFiles,          \* the files that may be opened
  ModulationTypes,  \* a subset of AM, LSB, USB, NFM, WFM
  ReadSizes,        \* how many samples the caller may be given
  MaxSeeks          \* bound: how often the caller goes back to the start

VARIABLES
  file,            \* what is on the disk: samplerate (0: not a sound file), channels, frames
  modulationType,
  status,          \* "opening", "open", "refused"
  reader,          \* the place in the file, the seeks so far, the phase history and its index
  block            \* what the last read put into the caller's buffer

vars == <<file, modulationType, status, reader, block>>
-------------------------------------------------------------------------------
\* differentiators.at(5) and .at(8)
differentiatorLength == IF file.samplerate < 248000 THEN 10 ELSE 19

Init ==
  /\ file \in IQFiles
  /\ modulationType \in ModulationTypes
  /\ status = "opening"
  /\ reader = [frame |-> 0, seeks |-> 0,
               phaseHistory |-> [k \in 0 .. differentiatorLength - 1 |-> 0],
               differentiatorIndex |-> differentiatorLength - 1,
               out |-> <<>>]
  /\ block = <<>>

FM == modulationType \in {"NFM", "WFM"}

\* channels(): "FM stereo"
channels == IF modulationType = "WFM" THEN 2 ELSE 1

\* error(), which convert() asks for.
error ==
  \/ file.samplerate = 0
  \/ modulationType = "WFM" /\ file.samplerate < 116000
  \/ file.channels # 2

Open ==
  /\ status = "opening"
  /\ status' = IF error THEN "refused" ELSE "open"
  /\ UNCHANGED <<file, modulationType, reader, block>>

\* A demodulated sample as the caller gets it, once for each channel.
ForEachChannel(x) == IF channels = 2 THEN <<<<1, x>>, <<2, x>>>> ELSE <<x>>

\* The next frame goes into the history, which is summed up from the index on.
demodulateFM(r) ==
  LET p == r.differentiatorIndex
      history == [r.phaseHistory EXCEPT ![p] = r.frame + 1]
  IN [r EXCEPT !.phaseHistory = history,
               !.differentiatorIndex = IF p = 0 THEN differentiatorLength - 1 ELSE p - 1,
               !.out = @ \o ForEachChannel([j \in 0 .. differentiatorLength - 1 |->
                                              history[(p + j) % differentiatorLength]])]

Demodulate(r) ==
  LET d == IF FM THEN demodulateFM(r) ELSE [r EXCEPT !.out = Append(@, r.frame + 1)]
  IN [d EXCEPT !.frame = @ + 1]

\* A call asks for both components of so many frames and gets their samples.
AfterRead(frames) ==
  LET turn[i \in 0 .. frames] ==
        IF i = 0 THEN reader
        ELSE LET r == turn[i - 1] IN IF r.frame < file.frames THEN Demodulate(r) ELSE r
  IN turn[frames]

\* A read that delivers n samples, if there are so many left.
Read(n) ==
  /\ status = "open"
  /\ n % channels = 0
  /\ block' = AfterRead(n \div channels).out
  /\ reader' = [AfterRead(n \div channels) EXCEPT !.out = <<>>]
  /\ UNCHANGED <<file, modulationType, status>>

\* Only the file goes back to the start: the demodulator keeps its history.
Seek ==
  /\ status = "open" /\ reader.seeks < MaxSeeks
  /\ reader' = [reader EXCEPT !.frame = 0, !.seeks = @ + 1]
  /\ block' = <<>>
  /\ UNCHANGED <<file, modulationType, status>>

Next == Open \/ (\E n \in ReadSizes : Read(n)) \/ Seek

Spec == Init /\ [][Next]_vars
-------------------------------------------------------------------------------
(***************************************************************************)
(* The file as a stream of samples.                                        *)
(***************************************************************************)
Sample(n) ==
  IF FM THEN [j \in 0 .. differentiatorLength - 1 |-> IF j < n THEN n - j ELSE 0] ELSE n

Stream ==
  [k \in 1 .. channels * file.frames |->
     IF channels = 2 THEN <<1 + ((k - 1) % 2), Sample(1 + (k - 1) \div 2)>> ELSE Sample(k)]

Position == channels * reader.frame

\* An FM sample at the start of a pass, when the window is in the pass before, as it was
\* in the first pass.
Settle(x) == IF x[0] < differentiatorLength THEN Sample(x[0]) ELSE x

\* What was delivered, but for those samples.
Settled ==
  [k \in DOMAIN block |->
     IF ~FM THEN block[k]
     ELSE IF channels = 2 THEN <<block[k][1], Settle(block[k][2])>> ELSE Settle(block[k])]
===============================================================================

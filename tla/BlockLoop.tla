------------------------------ MODULE BlockLoop ------------------------------
(***************************************************************************)
(* The central conversion loop of convert() in ReSampler.cpp, for one pass *)
(* over the input file: a block is read and taken apart into its channels, *)
(* each channel is converted (by a task of the thread pool, or in turn),   *)
(* and the block is written out without the group delay of its filters.    *)
(* The tasks share the buffers with the loop by reference.                 *)
(*                                                                         *)
(* A sample stands for its place: an output frame is, for each channel,    *)
(* the number of the converted stream's frame it holds.  The pool is the   *)
(* abstract one, which ThreadPool implements; the effects are EffectChain. *)
(***************************************************************************)
EXTENDS Integers, Sequences, FiniteSetsExt

CONSTANTS
  nChannels,
  L, M,             \* the conversion ratio
  BUFFERSIZE,       \* frames of a full block
  FileLengths,      \* the lengths of input file
  Settings,         \* the group delay of the converter, in output frames, and the effects
  ProgressSettings  \* the values of --progress-updates

ASSUME BlockLoopAssumption ==
  /\ nChannels \in Nat \ {0} /\ L \in Nat \ {0} /\ M \in Nat \ {0}
  /\ BUFFERSIZE \in Nat \ {0}
  /\ FileLengths \subseteq Nat \ {0}
  /\ Settings \subseteq [delay : Nat, stereo : BOOLEAN, fadeIn : Nat, fadeOut : Nat]
  /\ ProgressSettings \subseteq 0 .. 100

VARIABLES
  multiThreaded, inputFrames, groupDelay, progressUpdates,
  bAdjustStereoWidth, fadeInTime, fadeOutTime,
  pc, ch, block,    \* where the loop is, at which channel of which block
  eof,
  chunk,            \* the channels' input buffers: <<first frame, number of frames>>
  totalRead,        \* totalSamplesRead, in frames
  position,         \* of each channel's converter: the input frames it has consumed
  made,             \* of each channel: the output frames of its last block
  outputBlock,      \* outputBlock[f][c]: what channel c put into frame f
  imagerBuffer, fadeBuffer, fade,  \* of the effects
  outputBlockIndex, outStartOffset,
  file,             \* the frames that have been written, and their gains
  consumed,         \* the input frames that went into what has been written
  nextProgressThreshold, updates,
  waiting, running, finished, discarded, closed  \* the pool

options == <<multiThreaded, inputFrames, groupDelay, progressUpdates, bAdjustStereoWidth,
             fadeInTime, fadeOutTime>>
input   == <<eof, chunk, totalRead>>
convert == <<position, made, outputBlock>>
effects == <<imagerBuffer, fadeBuffer, fade>>
output  == <<effects, outStartOffset, file, consumed, nextProgressThreshold, updates>>
poolVars == <<waiting, running, finished, discarded, closed>>
vars == <<options, pc, ch, block, input, convert, outputBlockIndex, output, poolVars>>

Channels == 1 .. nChannels
Lower(a, b) == IF a < b THEN a ELSE b
CeilDiv(a, b) == (a + b - 1) \div b
Made(n) == CeilDiv(n * L, M)

\* What a frame holds that no conversion has put there.
Unset   == -1
Garbled == -2

\* outputChannelBufferSize, and the frames of the interleaved outputBlock.
outputChannelBufferSize == 1 + Made(BUFFERSIZE)
outputBlockFrames == 1 + outputChannelBufferSize
Slots == 0 .. outputBlockFrames - 1

FX == INSTANCE EffectChain WITH totalFrames <- (inputFrames * L) \div M

\* tailSize, in frames: enough silence to push the last frames through the filters.
tailFrames == CeilDiv(groupDelay * M, L)

\* One task for every channel of every block, the one of the tail included.
Tasks == (1 .. CeilDiv(Max(FileLengths), BUFFERSIZE) + 1) \X Channels
Pool == INSTANCE TaskPool WITH MayAbandon <- FALSE, MayShrink <- FALSE, loose <- {}

Init ==
  /\ multiThreaded \in BOOLEAN
  /\ inputFrames \in FileLengths
  /\ \E s \in Settings :
       /\ groupDelay = s.delay /\ bAdjustStereoWidth = s.stereo
       /\ fadeInTime = s.fadeIn /\ fadeOutTime = s.fadeOut
  /\ progressUpdates \in ProgressSettings
  /\ pc = "read" /\ ch = 1 /\ block = 0
  /\ eof = FALSE /\ chunk = <<0, 0>> /\ totalRead = 0
  /\ position = [c \in Channels |-> 0]
  /\ made = [c \in Channels |-> 0]
  /\ outputBlock = [f \in Slots |-> [c \in Channels |-> Unset]]
  /\ FX!InitChain
  /\ outputBlockIndex = 0
  /\ outStartOffset = Lower(groupDelay, outputBlockFrames - 1)
  /\ file = <<>> /\ consumed = 0
  /\ nextProgressThreshold =
       (IF progressUpdates > 0 THEN (inputFrames * nChannels) \div progressUpdates
                               ELSE inputFrames * nChannels + 1)
  /\ updates = 0
  /\ Pool!Init
-------------------------------------------------------------------------------
\* infile.read and the de-interleaving; at the end of the file a tail of silence.
Read ==
  LET left == inputFrames - totalRead
      n == IF left > 0 THEN Lower(left, BUFFERSIZE) ELSE Lower(tailFrames, BUFFERSIZE)
  IN /\ pc = "read"
     /\ eof' = (left <= 0)
     /\ chunk' = <<totalRead, n>>
     /\ totalRead' = totalRead + n
     /\ block' = block + 1
     /\ ch' = 1
     /\ outputBlockIndex' = 0
     /\ pc' = IF multiThreaded THEN "push" ELSE "process"
     /\ UNCHANGED <<options, convert, output, poolVars>>

\* processingFunc: the channel's converter takes its input buffer and fills its
\* places in the output block.
Process(c) ==
  LET n == Made(position[c] + chunk[2]) - Made(position[c])
      sample(f) == IF chunk[1] = position[c] THEN Made(position[c]) + f ELSE Garbled
  IN /\ position' = [position EXCEPT ![c] = @ + chunk[2]]
     /\ made' = [made EXCEPT ![c] = n]
     /\ outputBlock' = [f \in Slots |->
          IF f < n THEN [outputBlock[f] EXCEPT ![c] = sample(f)] ELSE outputBlock[f]]

NextChannel(after) ==
  IF ch = nChannels THEN ch' = 1 /\ pc' = after ELSE ch' = ch + 1 /\ UNCHANGED pc

ProcessInTurn ==
  /\ pc = "process"
  /\ Process(ch)
  /\ outputBlockIndex' = made'[ch]
  /\ NextChannel("write")
  /\ UNCHANGED <<options, block, input, output, poolVars>>

PushTask ==
  /\ pc = "push"
  /\ Pool!Submit(<<block, ch>>)
  /\ NextChannel("collect")
  /\ UNCHANGED <<options, block, input, convert, outputBlockIndex, output>>

TaskBegins ==
  /\ Pool!Begin
  /\ UNCHANGED <<options, pc, ch, block, input, convert, outputBlockIndex, output>>

TaskFinishes(t) ==
  /\ Pool!Finish(t)
  /\ Process(t[2])
  /\ UNCHANGED <<options, pc, ch, block, input, outputBlockIndex, output>>

\* Mutant: the result of the last channel is not waited for.
CollectButLast ==
  /\ pc = "collect"
  /\ ch = nChannels \/ <<block, ch>> \in finished
  /\ outputBlockIndex' = made[ch]
  /\ NextChannel("write")
  /\ UNCHANGED <<options, block, input, convert, output, poolVars>>

\* results[ch].get()
Collect ==
  /\ pc = "collect"
  /\ <<block, ch>> \in finished
  /\ outputBlockIndex' = made[ch]
  /\ NextChannel("write")
  /\ UNCHANGED <<options, block, input, convert, output, poolVars>>

outputFrameCount == outputBlockIndex - outStartOffset

outputFrames == [f \in Slots |-> [frame |-> outputBlock[f], gain |-> 0]]

\* Mutant: the offset is applied to every block.
OffsetForGood == UNCHANGED outStartOffset

\* outStartOffset = 0: reset after first use.
OffsetOnce == outStartOffset' = 0

\* The effects process the block from its start, as many frames as will be written; a
\* write of no or fewer frames writes nothing.
WriteOut ==
  /\ FX!process(outputFrames, outputFrameCount)
  /\ file' = file \o [k \in 1 .. outputFrameCount |->
       FX!Processed(outputFrames)[outStartOffset + k - 1]]
  /\ consumed' = totalRead
  /\ OffsetOnce

incrementalProgressThreshold ==
  IF progressUpdates > 0 THEN (inputFrames * nChannels) \div progressUpdates
                         ELSE inputFrames * nChannels + 1

Progress ==
  IF totalRead * nChannels > nextProgressThreshold
    THEN /\ updates' = updates + 1
         /\ nextProgressThreshold' = nextProgressThreshold + incrementalProgressThreshold
    ELSE UNCHANGED <<updates, nextProgressThreshold>>

Write ==
  /\ pc = "write"
  /\ WriteOut
  /\ Progress
  /\ pc' = IF eof THEN "close" ELSE "read"
  /\ UNCHANGED <<options, ch, block, input, convert, outputBlockIndex, poolVars>>

\* The end of the pass: the pool goes out of scope.
DestroyPool ==
  /\ pc = "close"
  /\ Pool!Close
  /\ pc' = "done"
  /\ UNCHANGED <<options, ch, block, input, convert, outputBlockIndex, output>>

Loop == Read \/ ProcessInTurn \/ PushTask \/ Collect \/ Write \/ DestroyPool

Next == Loop \/ TaskBegins \/ \E t \in Tasks : TaskFinishes(t)

Spec == Init /\ [][Next]_vars

\* The main thread is scheduled, and so is what the pool promises to run.
Fairness ==
  /\ WF_vars(Loop)
  /\ WF_vars(TaskBegins)
  /\ \A t \in Tasks : WF_vars(TaskFinishes(t))

FairSpec == Spec /\ Fairness
-------------------------------------------------------------------------------
(***************************************************************************)
(* Properties.                                                             *)
(***************************************************************************)
\* The buffers belong to the tasks only while the loop collects their results: when it
\* reads, writes or ends, no task is queued or running.  What the tasks make has room.
BuffersAreOurs ==
  /\ pc \in {"read", "write", "close", "done"} => waiting = <<>> /\ running = {}
  /\ \A c \in Channels : made[c] \in 0 .. outputChannelBufferSize
  /\ outputBlockIndex \in 0 .. outputBlockFrames

\* Every frame written is the next one of the converted stream after the delay, on
\* every channel: "process output (with Group Delay Compensation)".
DelayIsTrimmed ==
  \A k \in DOMAIN file : \A c \in Channels : file[k].frame[c] = groupDelay + k - 1

\* The fades take place where they were asked for, whatever blocks the frames come in and
\* whatever happens between them: each frame written has the gain of its place in the file.
FadesInPlace ==
  \A k \in DOMAIN file : file[k].gain = FX!Shape(k - 1)

Serial == INSTANCE SerialPass WITH
  frames <- inputFrames,
  delay  <- groupDelay,
  file   <- [k \in DOMAIN file |-> file[k].frame],
  done   <- pc = "done"

\* Whatever the tasks do when, a pass writes the stream a single thread would, starts it
\* at the delay, makes it last as long as the input, and ends.
ImplementsSerialPass == Serial!FairSpec
===============================================================================

------------------------------ MODULE InputFile ------------------------------
(***************************************************************************)
(* An input file and its reader: runCommand picks DsfFile or DffFile by    *)
(* the extension of the name, IQFile by an option, and the same convert()  *)
(* reads through any of them.                                              *)
(***************************************************************************)
EXTENDS Integers, Sequences

CONSTANTS DsfFiles, DffFiles, IQFiles, ModulationTypes, BlockSize, ReadSizes, MaxSeeks

VARIABLES
  kind,    \* "dsf", "dff" or "iq": which of the readers the object is
  file, status, reader, block,
  reversed,                                                        \* of DsfFile
  modulationType,                                                  \* of IQFile
  filePos, err, dataRemaining, numChannels, totalSoundDataBytes, startOfData \* of DffFile

ofDsf == <<reversed>>
ofDff == <<filePos, err, dataRemaining, numChannels, totalSoundDataBytes, startOfData>>
ofIQ  == <<modulationType>>
vars  == <<kind, file, status, reader, block, ofDsf, ofDff, ofIQ>>

Dsf == INSTANCE DsfFile
Dff == INSTANCE DffFile
IQ  == INSTANCE IQFile

\* Files keep to their formats, though they may be cut short after the headers.  A DSF file
\* has no more channels than there are buffers; its samples fill all groups but a part of
\* the last one.
DsfLayout(f) ==
  /\ f.blockSize \in Nat \ {0} /\ f.channels \in 1 .. Dsf!MaxChannels
  /\ f.bitOrder \in {1, 8}
  /\ {f.fmtLength, f.groups, f.frames, f.size} \subseteq Nat
  /\ f.size >= Dsf!SizeOfDSD + f.fmtLength + Dsf!SizeOfData
  /\ f.frames <= 8 * f.blockSize * f.groups
  /\ f.frames > 8 * f.blockSize * (f.groups - 1)

\* In a DSDIFF file a chunk has the size of what is in it; the properties are chunks
\* within their own chunk, that of the channels one of them and before the sound data.
DffLayout(f) ==
  LET place    == Dff!PlaceIn(f)
      chunk    == f.chunks
      Chunks   == 1 .. Len(chunk)
      EndOf(p) == place[p] + Dff!SizeOfHeader + chunk[p].size
  IN /\ f.channels \in Nat \ {0} /\ Len(chunk) \in Nat
     /\ f.size \in Nat /\ f.size <= place[Len(chunk) + 1]
     /\ \A k \in Chunks :
          /\ chunk[k].size \in Nat
          /\ chunk[k].id = "FVER" => chunk[k].size = 4
          /\ chunk[k].id \notin {"PROP", "DSD"} =>
               \/ Dff!Consumed(chunk[k]) = chunk[k].size
               \/ chunk[k].id = "CHNL" /\ f.channels > Dff!MaxChannels
          /\ chunk[k].id = "CHNL" =>
               /\ chunk[k].channels = f.channels
               /\ \E p \in 1 .. k - 1 : chunk[p].id = "PROP" /\ place[k] < EndOf(p)
          /\ chunk[k].id = "PROP" =>
               /\ \A j \in Chunks : chunk[j].id = "PROP" => j = k
               /\ \E q \in k + 1 .. Len(chunk) :
                    /\ place[q + 1] = EndOf(k)
                    /\ \A j \in k + 1 .. q : chunk[j].id \notin {"PROP", "DSD"}
          /\ chunk[k].id = "DSD" =>
               /\ \A j \in Chunks : chunk[j].id = "DSD" => j = k
               /\ \A j \in Chunks : chunk[j].id = "CMPR" => chunk[j].type = "DSD"
               /\ \E j \in 1 .. k - 1 : chunk[j].id = "CHNL"
               /\ chunk[k].size % f.channels = 0
               /\ f.size >= place[k] + Dff!SizeOfHeader

ASSUME InputFileAssumption ==
  /\ \A f \in DsfFiles : DsfLayout(f)
  /\ \A f \in DffFiles : DffLayout(f)
  /\ \A f \in IQFiles : f.frames \in Nat
  /\ BlockSize \in Nat \ {0}
  /\ ReadSizes \subseteq Nat \ {0}
-------------------------------------------------------------------------------
NotDsf == reversed = FALSE
NotIQ  == modulationType = "none"
NotDff ==
  /\ filePos = 0 /\ err = FALSE /\ dataRemaining = 0 /\ numChannels = 0
  /\ totalSoundDataBytes = 0 /\ startOfData = 0

Init ==
  \/ kind = "dsf" /\ Dsf!Init /\ NotDff /\ NotIQ
  \/ kind = "dff" /\ Dff!Init /\ NotDsf /\ NotIQ
  \/ kind = "iq"  /\ IQ!Init  /\ NotDsf /\ NotDff

DsfStep == kind = "dsf" /\ Dsf!Next /\ UNCHANGED <<kind, ofDff, ofIQ>>
DffStep == kind = "dff" /\ Dff!Next /\ UNCHANGED <<kind, ofDsf, ofIQ>>
IQStep  == kind = "iq"  /\ IQ!Next  /\ UNCHANGED <<kind, ofDsf, ofDff>>

Next == DsfStep \/ DffStep \/ IQStep

Spec == Init /\ [][Next]_vars
-------------------------------------------------------------------------------
\* The open reader as a stream of samples.
StreamPhase ==
  CASE status \in {"chunks", "props"} -> "opening"
    [] status = "lost" -> "failed"
    [] OTHER -> status

StreamSamples ==
  CASE kind = "dsf" -> Dsf!Stream
    [] kind = "dff" -> Dff!Stream
    [] kind = "iq"  -> IQ!Stream

StreamComplete ==
  CASE kind = "dsf" -> Dsf!Complete
    [] kind = "dff" -> Dff!Complete
    [] kind = "iq"  -> TRUE

StreamPosition ==
  CASE kind = "dsf" -> Dsf!Position
    [] kind = "dff" -> Dff!Position
    [] kind = "iq"  -> IQ!Position

StreamBlock == IF kind = "iq" THEN IQ!Settled ELSE block

AsStream ==
  INSTANCE SampleStream WITH
    phase <- StreamPhase, stream <- StreamSamples, complete <- StreamComplete,
    position <- StreamPosition, block <- StreamBlock
-------------------------------------------------------------------------------
(***************************************************************************)
(* Properties.                                                             *)
(***************************************************************************)
\* In a DSF file the bits of a byte are played in the order of a table that was made
\* before the file's bit order was known.
PlaysInOrder == kind = "dsf" => Dsf!TableFits

\* Each reader delivers the samples of the file in the order of play, however they are
\* laid out in the file and whatever sizes of reads they are asked for in, to the last
\* one and again from the first after a rewind; only a file cut short makes it fail.
\* This is so for a DSF file whose bit order is that of the reader's table; of one with the
\* other order each byte is played backwards.  What FM demodulation keeps of the pass
\* before is gone after as many samples as the differentiator is long.
ImplementsSampleStream ==
  /\ PlaysInOrder => AsStream!Init
  /\ [][PlaysInOrder => AsStream!Next]_(AsStream!vars)

\* A read that comes back empty has reached the end that the header announces (samples(),
\* from which convert() works out its progress and the length of the output); blocks
\* being filled up, a DSF file may have less than a group more.
EndAsAnnounced ==
  status = "open" /\ block = <<>> =>
    \/ kind = "dsf" /\ \/ Dsf!Position = 0
                       \/ Dsf!Position - Dsf!samples \in 0 .. 8 * Dsf!groupSize - 1
    \/ kind = "dff" /\ (Dff!Position = 0 \/ Dff!Position = Dff!samples)
    \/ kind = "iq" /\ (IQ!Position = 0 \/ IQ!Position = IQ!channels * file.frames)

\* In a DSDIFF file the reader takes a header for one of the properties exactly where it
\* is one, through chunks it knows and chunks it skips, until it is at the sound data (or
\* has found what it cannot handle).
ChunksInStep ==
  kind = "dff" /\ ~err =>
    /\ status # "lost"
    /\ status \in {"chunks", "props"} =>
         \A k \in Dff!Here : (status = "props") = Dff!IsProperty(k)
===============================================================================

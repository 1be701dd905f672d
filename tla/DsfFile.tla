------------------------------- MODULE DsfFile -------------------------------
(***************************************************************************)
(* The reader of dsf.h.  In a DSF file a group has one block of bytes for  *)
(* each channel, and a byte holds eight samples; the caller gets the       *)
(* samples of all channels frame after frame.  A sample is known by the    *)
(* place of its byte in the file and its bit, a channel's buffer by the    *)
(* place its bytes come from.                                              *)
(***************************************************************************)
EXTENDS Integers, Sequences

CONSTANTS
  DsfFiles,   \* the files that may be opened
  ReadSizes   \* how many samples the caller may ask for

\* sizeof(DsfDSDChunk), sizeof(DsfFmtChunk), sizeof(DsfDataChunk)
SizeOfDSD  == 28
SizeOfFmt  == 52
SizeOfData == 12
MaxFmtChunkSize == 1024
MaxBlockSize == 32768
MaxChannels == 6  \* the buffers there are; the reader does not look whether they suffice

VARIABLES
  file,      \* what is on the disk
  status,    \* "opening", "open", "refused" (error() is true), "failed" (thrown)
  reversed,  \* the table of samples was made for the most significant bit first
  reader,    \* the reader's place in the file, its buffers and its cursors
  block      \* what the last read put into the caller's buffer

vars == <<file, status, reversed, reader, block>>
-------------------------------------------------------------------------------
numChannels == file.channels
blockSize   == file.blockSize  \* of a channel in a group
groupSize   == numChannels * blockSize
startOfData == SizeOfDSD + file.fmtLength + SizeOfData

\* Mutant: the data go on to the end of the file.
endOfDataAndMetadata == file.size

\* The length in the data chunk's header covers the header and all groups.
endOfData == SizeOfDSD + file.fmtLength + (SizeOfData + file.groups * groupSize)

\* numSamples: what the file says it holds.
samples == file.frames * numChannels

\* Nothing is buffered: the first read fetches.
AtStart ==
  [filePos |-> startOfData, channelBuffer |-> <<>>, bufferIndex |-> blockSize,
   currentBit |-> 0, currentChannel |-> 0, loop |-> "on", out |-> <<>>]

\* The constructor makes the table from a bit order that it has not read yet, so the
\* table is one or the other whatever the file says (TableFits).
Init ==
  /\ file \in DsfFiles
  /\ status = "opening"
  /\ reversed \in BOOLEAN
  /\ reader = AtStart
  /\ block = <<>>

\* readHeaders, and the buffers.
Open ==
  /\ status = "opening"
  /\ status' = IF file.dsdChunk /\ file.fmtChunk /\ file.fmtLength <= MaxFmtChunkSize
                  /\ file.dataChunk /\ blockSize <= MaxBlockSize
                 THEN "open" ELSE "refused"
  /\ UNCHANGED <<file, reversed, reader, block>>

\* readBlocks: a block for each channel; the stream throws when the file ends in one.
readBlocks(r) ==
  IF r.filePos >= endOfData THEN [r EXCEPT !.loop = "over"]
  ELSE IF r.filePos + groupSize > file.size THEN [r EXCEPT !.loop = "thrown"]
  ELSE [r EXCEPT !.channelBuffer = [ch \in 0 .. numChannels - 1 |-> r.filePos + ch * blockSize],
                 !.filePos = @ + groupSize,
                 !.bufferIndex = 0]

Bit(r) == IF reversed THEN 7 - r.currentBit ELSE r.currentBit

\* The channels are cycled through, then the bits, then the bytes.
Advance(r) ==
  LET lastBit == r.currentBit = 7
      lastChannel == r.currentChannel + 1 = numChannels
  IN [r EXCEPT !.currentChannel = IF lastChannel THEN 0 ELSE @ + 1,
               !.currentBit = IF ~lastChannel THEN @ ELSE IF lastBit THEN 0 ELSE @ + 1,
               !.bufferIndex = IF lastChannel /\ lastBit THEN @ + 1 ELSE @]

\* One turn of read's loop.
ReadSample(r) ==
  LET f == IF r.bufferIndex = blockSize THEN readBlocks(r) ELSE r
  IN IF f.loop # "on" THEN f
     ELSE LET place == f.channelBuffer[f.currentChannel] + f.bufferIndex
          IN Advance([f EXCEPT !.out = Append(@, <<place, Bit(f)>>)])

\* The reader after a read of n samples.
AfterRead(n) ==
  LET turn[i \in 0 .. n] ==
        IF i = 0 THEN reader
        ELSE LET r == turn[i - 1] IN IF r.loop = "on" THEN ReadSample(r) ELSE r
  IN turn[n]

Read(n) ==
  /\ status = "open"
  /\ LET r == AfterRead(n)
     IN /\ reader' = [r EXCEPT !.loop = "on", !.out = <<>>]
        /\ status' = IF r.loop = "thrown" THEN "failed" ELSE status
        /\ block' = IF r.loop = "thrown" THEN block ELSE r.out
  /\ UNCHANGED <<file, reversed>>

\* seek(0, SEEK_SET), the only one convert() asks for.
Seek ==
  /\ status = "open"
  /\ reader' = AtStart
  /\ block' = <<>>
  /\ UNCHANGED <<file, status, reversed>>

Next == Open \/ (\E n \in ReadSizes : Read(n)) \/ Seek

Spec == Init /\ [][Next]_vars
-------------------------------------------------------------------------------
(***************************************************************************)
(* The file as a stream of samples, from its layout and its bit order      *)
(* alone.                                                                  *)
(***************************************************************************)
\* The groups that are in the file as a whole.
WholeGroups ==
  LET held == (file.size - startOfData) \div groupSize
  IN IF held < file.groups THEN held ELSE file.groups

Complete == WholeGroups = file.groups

\* "if(bitOrder == 1) the LSB is played first [...] if(bitOrder == 8) the MSB is played
\* first"
Sample(n) ==
  LET frame == n \div numChannels
      byte  == frame \div 8
      place == startOfData + (byte \div blockSize) * groupSize
                 + (n % numChannels) * blockSize + (byte % blockSize)
  IN <<place, IF file.bitOrder = 8 THEN 7 - (frame % 8) ELSE frame % 8>>

Stream == [n \in 1 .. 8 * groupSize * WholeGroups |-> Sample(n - 1)]

\* The table plays the bits of a byte in the order of the file.
TableFits == reversed = (file.bitOrder = 8)

\* Where the reader is in that stream: what was fetched less what is buffered.
Position ==
  LET fetched == 8 * (reader.filePos - startOfData)
      taken   == (8 * reader.bufferIndex + reader.currentBit) * numChannels
                   + reader.currentChannel
  IN IF reader.channelBuffer = <<>> THEN 0 ELSE fetched - 8 * groupSize + taken
===============================================================================

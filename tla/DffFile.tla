------------------------------- MODULE DffFile -------------------------------
(***************************************************************************)
(* The reader of dff.h.  A DSDIFF file is a list of chunks; the one with   *)
(* the properties has chunks of its own.  The reader goes through them to  *)
(* the sound data, in which a byte holds eight samples of one channel and  *)
(* the bytes of the channels alternate.  A sample is known by the place of *)
(* its byte in the file and its bit, the input buffer by the place its     *)
(* bytes come from.                                                        *)
(***************************************************************************)
EXTENDS Integers, Sequences

CONSTANTS
  DffFiles,   \* the files that may be opened
  BlockSize,  \* bytes of a channel in a block, 4096 in the code
  ReadSizes   \* how many samples the caller may ask for

MaxChannels == 6
SizeOfForm  == 16   \* ID, size and type of the FORM chunk
SizeOfHeader == 12  \* sizeof(dffChunkHeader), packed
SizeOfPropType == 4

VARIABLES
  file,       \* what is on the disk: its chunks in order, and its size
  status,     \* "opening", "chunks", "props", "open", "refused", "failed", "lost"
  filePos,
  err,                  \* what error() will say
  dataRemaining,        \* of the chunk with the properties
  numChannels,
  totalSoundDataBytes,
  startOfData,
  reader,     \* the input buffer and the cursors
  block       \* what the last read put into the caller's buffer

header == <<err, dataRemaining, numChannels, totalSoundDataBytes, startOfData>>
vars == <<file, status, filePos, header, reader, block>>
-------------------------------------------------------------------------------
bufferSize == BlockSize * numChannels

\* Nothing is buffered: the first read fetches.
AtStart ==
  [inputBuffer |-> 0, endOfBlock |-> bufferSize, bufferIndex |-> bufferSize,
   totalBytesRead |-> 0, currentBit |-> 0, currentChannel |-> 0]

Init ==
  /\ file \in DffFiles
  /\ status = "opening"
  /\ filePos = 0
  /\ err = FALSE /\ dataRemaining = 0 /\ numChannels = 0 /\ totalSoundDataBytes = 0 /\ startOfData = 0
  /\ reader = AtStart
  /\ block = <<>>

\* Where the header of each chunk is: those of the properties follow their type.
PlaceIn(f) ==
  LET at[k \in 1 .. Len(f.chunks) + 1] ==
        IF k = 1 THEN SizeOfForm
        ELSE at[k - 1] + SizeOfHeader
               + IF f.chunks[k - 1].id = "PROP" THEN SizeOfPropType ELSE f.chunks[k - 1].size
  IN at

Place == PlaceIn(file)

Here == {k \in 1 .. Len(file.chunks) : Place[k] = filePos}

ReadForm ==
  /\ status = "opening"
  /\ filePos' = SizeOfForm
  /\ status' = IF file.formType = "DSD" THEN "chunks" ELSE "refused"
  /\ UNCHANGED <<file, header, reader, block>>

\* Where there is no header to read, the stream throws at the end of the file; elsewhere
\* the reader takes some other bytes for a header.
NoHeader ==
  /\ status \in {"chunks", "props"}
  /\ Here = {}
  /\ status' = IF filePos >= file.size THEN "failed" ELSE "lost"
  /\ UNCHANGED <<file, filePos, header, reader, block>>

\* The bytes of a property that are read or skipped.
Consumed(c) ==
  CASE c.id = "FS"   -> 4
    [] c.id = "CHNL" -> 2 + 4 * (IF c.channels < MaxChannels THEN c.channels ELSE MaxChannels)
    [] c.id = "CMPR" -> 4 + 1 + (c.count + 1)
    [] c.id = "ABSS" -> 8
    [] c.id = "LSCO" -> 2
    [] OTHER         -> c.size

Chunk(k) ==
  LET c == file.chunks[k]
  IN /\ status = "chunks"
     /\ c.id \notin {"PROP", "DSD"}
     /\ filePos' = filePos + SizeOfHeader + IF c.id = "FVER" THEN 4 ELSE c.size
     /\ UNCHANGED <<file, status, header, reader, block>>

\* Mutant: the type of the properties is taken for a part of their chunks.
PropertiesWithType(k) ==
  LET c == file.chunks[k]
  IN /\ status = "chunks"
     /\ c.id = "PROP"
     /\ status' = "props"
     /\ filePos' = filePos + SizeOfHeader + SizeOfPropType
     /\ dataRemaining' = c.size
     /\ UNCHANGED <<file, err, numChannels, totalSoundDataBytes, startOfData, reader, block>>

Properties(k) ==
  LET c == file.chunks[k]
  IN /\ status = "chunks"
     /\ c.id = "PROP"
     /\ status' = "props"
     /\ filePos' = filePos + SizeOfHeader + SizeOfPropType
     /\ dataRemaining' = c.size - SizeOfPropType
     /\ UNCHANGED <<file, err, numChannels, totalSoundDataBytes, startOfData, reader, block>>

\* A chunk of the properties; the last one leads back to the chunks of the file, and so
\* does one that the reader cannot handle: it is readHeaders that goes on, to the data.
Property(k) ==
  LET c == file.chunks[k]
  IN /\ status = "props"
     /\ filePos' = filePos + SizeOfHeader + Consumed(c)
     /\ numChannels' = IF c.id = "CHNL" THEN c.channels ELSE numChannels
     /\ IF \/ c.id = "CHNL" /\ c.channels > MaxChannels
           \/ c.id = "CMPR" /\ c.type # "DSD"
          THEN err' = TRUE /\ status' = "chunks" /\ UNCHANGED dataRemaining
          ELSE /\ dataRemaining' = dataRemaining - (SizeOfHeader + c.size)
               /\ status' = IF dataRemaining' > 0 THEN status ELSE "chunks"
               /\ UNCHANGED err
     /\ UNCHANGED <<file, totalSoundDataBytes, startOfData, reader, block>>

\* The sound data: the end of readHeaders, and the rest of the constructor.
SoundData(k) ==
  LET c == file.chunks[k]
  IN /\ status = "chunks"
     /\ c.id = "DSD"
     /\ status' = IF err THEN "refused" ELSE "open"
     /\ totalSoundDataBytes' = c.size
     /\ filePos' = filePos + SizeOfHeader
     /\ startOfData' = filePos'
     /\ reader' = AtStart
     /\ UNCHANGED <<file, err, dataRemaining, numChannels, block>>

Opening ==
  \/ ReadForm
  \/ NoHeader
  \/ \E k \in Here : Chunk(k) \/ Properties(k) \/ Property(k) \/ SoundData(k)
-------------------------------------------------------------------------------
\* numSamples: what the file says it holds.
samples == 8 * totalSoundDataBytes

\* The reader, its place in the file and what it has put out, while a read goes on.
Reading ==
  [inputBuffer |-> reader.inputBuffer, endOfBlock |-> reader.endOfBlock,
   bufferIndex |-> reader.bufferIndex, totalBytesRead |-> reader.totalBytesRead,
   currentBit |-> reader.currentBit, currentChannel |-> reader.currentChannel,
   filePos |-> filePos, loop |-> "on", out |-> <<>>]

\* readBlocks: the rest of the sound data, or as much as the buffer holds; the stream
\* throws when the file ends in it.
readBlocks(r) ==
  LET rest  == totalSoundDataBytes - r.totalBytesRead
      bytes == IF rest < bufferSize THEN rest ELSE bufferSize
  IN IF bytes = 0 THEN [r EXCEPT !.endOfBlock = 0, !.loop = "over"]
     ELSE IF r.filePos + bytes > file.size THEN [r EXCEPT !.loop = "thrown"]
     ELSE [r EXCEPT !.inputBuffer = r.filePos, !.endOfBlock = bytes,
                    !.totalBytesRead = @ + bytes, !.filePos = @ + bytes,
                    !.bufferIndex = 0]

\* The channels are cycled through, then the bits, then the bytes of all channels.
Advance(r) ==
  LET lastBit == r.currentBit = 7
      lastChannel == r.currentChannel + 1 = numChannels
  IN [r EXCEPT !.currentChannel = IF lastChannel THEN 0 ELSE @ + 1,
               !.currentBit = IF ~lastChannel THEN @ ELSE IF lastBit THEN 0 ELSE @ + 1,
               !.bufferIndex = IF lastChannel /\ lastBit THEN @ + numChannels ELSE @]

\* One turn of read's loop.
ReadSample(r) ==
  LET f == IF r.bufferIndex >= r.endOfBlock THEN readBlocks(r) ELSE r
  IN IF f.loop # "on" THEN f
     ELSE LET place == f.inputBuffer + f.bufferIndex + f.currentChannel
          IN Advance([f EXCEPT !.out = Append(@, <<place, 7 - f.currentBit>>)])

\* What stays of it when the read is over.
Kept(r) ==
  [inputBuffer |-> r.inputBuffer, endOfBlock |-> r.endOfBlock, bufferIndex |-> r.bufferIndex,
   totalBytesRead |-> r.totalBytesRead, currentBit |-> r.currentBit,
   currentChannel |-> r.currentChannel]

AfterRead(n) ==
  LET turn[i \in 0 .. n] ==
        IF i = 0 THEN Reading
        ELSE LET r == turn[i - 1] IN IF r.loop = "on" THEN ReadSample(r) ELSE r
  IN turn[n]

Read(n) ==
  /\ status = "open"
  /\ LET r == AfterRead(n)
     IN /\ reader' = Kept(r)
        /\ filePos' = r.filePos
        /\ status' = IF r.loop = "thrown" THEN "failed" ELSE status
        /\ block' = IF r.loop = "thrown" THEN block ELSE r.out
  /\ UNCHANGED <<file, header>>

\* Mutant: the bytes read so far still count.
SeekKeepingCount ==
  /\ status = "open"
  /\ reader' = [AtStart EXCEPT !.totalBytesRead = reader.totalBytesRead]
  /\ filePos' = startOfData
  /\ block' = <<>>
  /\ UNCHANGED <<file, status, header>>

\* seek(0, SEEK_SET), the only one convert() asks for.
Seek ==
  /\ status = "open"
  /\ reader' = AtStart
  /\ filePos' = startOfData
  /\ block' = <<>>
  /\ UNCHANGED <<file, status, header>>

Next == Opening \/ (\E n \in ReadSizes : Read(n)) \/ Seek

Spec == Init /\ [][Next]_vars
-------------------------------------------------------------------------------
(***************************************************************************)
(* The file as a stream of samples, from its layout alone.                 *)
(***************************************************************************)
SoundDataChunks == {k \in 1 .. Len(file.chunks) : file.chunks[k].id = "DSD"}

Start ==
  IF SoundDataChunks = {} THEN file.size
  ELSE Place[CHOOSE k \in SoundDataChunks : TRUE] + SizeOfHeader

Bytes ==
  IF SoundDataChunks = {} THEN 0
  ELSE file.chunks[CHOOSE k \in SoundDataChunks : TRUE].size

\* A chunk within the chunk of the properties.
IsProperty(k) ==
  \E p \in 1 .. k - 1 :
    /\ file.chunks[p].id = "PROP"
    /\ Place[k] < Place[p] + SizeOfHeader + file.chunks[p].size

\* The bytes that a reader of whole blocks can get.
Readable ==
  LET held == file.size - Start
      unit == BlockSize * file.channels
  IN IF Bytes <= held THEN Bytes ELSE (held \div unit) * unit

Complete == Bytes = Readable

Sample(n) ==
  LET frame == n \div file.channels
  IN <<Start + (frame \div 8) * file.channels + (n % file.channels), 7 - (frame % 8)>>

Stream == [n \in 1 .. 8 * Readable |-> Sample(n - 1)]

\* Where the reader is in that stream: what was fetched less what is buffered.
Position ==
  LET buffered == IF reader.bufferIndex >= reader.endOfBlock THEN 0
                  ELSE reader.endOfBlock - reader.bufferIndex
  IN 8 * (reader.totalBytesRead - buffered)
       + reader.currentBit * numChannels + reader.currentChannel
===============================================================================

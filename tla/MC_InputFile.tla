----------------------------- MODULE MC_InputFile -----------------------------
(***************************************************************************)
(* DSD files of at most two groups or blocks, whole and cut short: DSF     *)
(* with the usual format chunk, and with a longer one and the other bit    *)
(* order, with metadata after the data and with padding in the last group; *)
(* DSDIFF with the chunks in various orders, unknown ones among them, and  *)
(* with what the reader refuses.  I/Q files are shorter and longer than    *)
(* either differentiator.                                                  *)
(***************************************************************************)
EXTENDS InputFile

SmallBlock == 2

DsfFile(length, channels, groups, padding, metadata, cut) ==
  LET bytes == groups * channels * SmallBlock
  IN [dsdChunk |-> TRUE, fmtChunk |-> TRUE, dataChunk |-> TRUE, fmtLength |-> length,
      bitOrder |-> IF length = 52 THEN 1 ELSE 8, blockSize |-> SmallBlock, channels |-> channels, groups |-> groups,
      frames |-> IF groups = 0 THEN 0 ELSE 8 * SmallBlock * groups - padding,
      size |-> 40 + length + bytes + metadata - IF cut THEN metadata + 1 ELSE 0]

SomeDsfFiles ==
  {DsfFile(length, channels, groups, padding, metadata, cut) :
     length \in {52, 56}, channels \in {1, 2, 3}, groups \in 0 .. 2, padding \in {0, 5},
     metadata \in {0, 12}, cut \in BOOLEAN}

RefusedDsfFiles ==
  LET f == DsfFile(52, 2, 1, 0, 0, FALSE)
  IN {[f EXCEPT !.dsdChunk = FALSE], [f EXCEPT !.fmtChunk = FALSE],
      [f EXCEPT !.dataChunk = FALSE], DsfFile(1025, 2, 1, 0, 0, FALSE),
      [f EXCEPT !.blockSize = 32769]}

AllDsfFiles == {f \in SomeDsfFiles : f.size >= 40 + f.fmtLength} \cup RefusedDsfFiles
-------------------------------------------------------------------------------
Chunk(id, size)   == [id |-> id, size |-> size]
Channels(n)       == [id |-> "CHNL", size |-> 2 + 4 * n, channels |-> n]
Compression(type) == [id |-> "CMPR", size |-> 20, count |-> 14, type |-> type]

SizeOf(chunks) ==
  LET upTo[k \in 0 .. Len(chunks)] ==
        IF k = 0 THEN 0 ELSE upTo[k - 1] + 12 + chunks[k].size
  IN upTo[Len(chunks)]

PropertyLists(n, type) ==
  {<<Channels(n), Compression(type)>>,
   <<Chunk("FS", 4), Channels(n), Compression(type), Chunk("LSCO", 2)>>,
   <<Compression(type), Chunk("ID3", 6), Chunk("ABSS", 8), Channels(n)>>}

\* A file: its chunks before the sound data, the data, what follows, what is missing.
DffFile(n, type, before, props, between, bytes, after, cut) ==
  LET prop   == Chunk("PROP", 4 + SizeOf(props))
      chunks == before \o <<prop>> \o props \o between \o <<Chunk(type, bytes)>> \o after
      length == 16 + 4 + SizeOf(before) + 12 + SizeOf(props) + SizeOf(between)
                  + 12 + bytes + SizeOf(after)
  IN [formType |-> "DSD", channels |-> n, chunks |-> chunks,
      size |-> length - IF cut /\ bytes > 0 THEN SizeOf(after) + 1 ELSE 0]

\* Chunks before and after the properties.
Layouts ==
  {<<<<Chunk("FVER", 4)>>, <<>>>>,
   <<<<Chunk("FVER", 4), Chunk("COMT", 10)>>, <<Chunk("DIIN", 0)>>>>}

SomeDffFiles ==
  UNION {{DffFile(n, "DSD", layout[1], props, layout[2], n * bytes, after, cut) :
            layout \in Layouts, props \in PropertyLists(n, "DSD"), bytes \in 0 .. 4,
            after \in {<<>>, <<Chunk("DIIN", 16)>>}, cut \in BOOLEAN} : n \in {1, 2, 3}}

RefusedDffFiles ==
  UNION {{DffFile(2, "DST", <<>>, props, <<>>, 4, <<>>, FALSE) : props \in PropertyLists(2, "DST")},
         {DffFile(7, "DSD", <<>>, props, <<>>, 7, <<>>, FALSE) : props \in PropertyLists(7, "DSD")},
         {[DffFile(2, "DSD", <<>>, props, <<>>, 4, <<>>, FALSE) EXCEPT !.formType = "other"] :
            props \in PropertyLists(2, "DSD")}}

\* A file that ends before its sound data.
EndsEarly(f) ==
  LET k == CHOOSE i \in 1 .. Len(f.chunks) : f.chunks[i].id = "DSD"
  IN [f EXCEPT !.chunks = SubSeq(f.chunks, 1, k - 1), !.size = @ - (12 + f.chunks[k].size)]

FilesWithoutData ==
  {EndsEarly(DffFile(2, "DSD", layout[1], props, layout[2], 4, <<>>, FALSE)) :
     layout \in Layouts, props \in PropertyLists(2, "DSD")}

AllDffFiles == SomeDffFiles \cup RefusedDffFiles \cup FilesWithoutData
-------------------------------------------------------------------------------
AllIQFiles ==
  [samplerate : {192000, 300000}, channels : {2}, frames : {0, 5, 21}]
    \cup {[samplerate |-> 0, channels |-> 0, frames |-> 0],
          [samplerate |-> 192000, channels |-> 1, frames |-> 12],
          [samplerate |-> 96000, channels |-> 2, frames |-> 12]}
===============================================================================

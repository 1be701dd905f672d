---------------------------- MODULE InputFileProofs ----------------------------
(***************************************************************************)
(* What holds of the readers for all files that keep to their formats, all *)
(* sizes of blocks and of reads, and all modulations.  For each reader an  *)
(* invariant says where in the file's samples it is; a turn of its loop is *)
(* shown to deliver the next one, by induction a read the next so many,    *)
(* and with that every step of the reader is one of SampleStream.          *)
(* At the end, what holds of the MpxDecoder that the I/Q reader feeds, for *)
(* every odd filter length, every set of pilot levels and all rates and    *)
(* bounds that satisfy its assumption.                                     *)
(***************************************************************************)
EXTENDS InputFile, MpxDecoder, FIRFilterProofs

\* A quotient and its rest.
LEMMA Divided ==
  ASSUME NEW a \in Nat, NEW n \in Nat \ {0}, NEW r \in 0 .. n - 1
  PROVE  (a * n + r) % n = r /\ (a * n + r) \div n = a
OBVIOUS

\* One step of what a read has delivered.
LEMMA OneMoreDelivered ==
  ASSUME NEW T, NEW s \in Seq(T), NEW p \in Nat, NEW k \in Nat, p + k < Len(s)
  PROVE  Append(SubSeq(s, p + 1, p + k), s[p + k + 1]) = SubSeq(s, p + 1, p + (k + 1))
OBVIOUS

LEMMA NothingDelivered ==
  ASSUME NEW T, NEW s \in Seq(T), NEW p \in Nat, p <= Len(s)
  PROVE  SubSeq(s, p + 1, p + 0) = <<>>
OBVIOUS

LEMMA DeliveredNothing ==
  ASSUME NEW T, NEW s \in Seq(T), NEW p \in Nat, NEW k \in Nat, p + k <= Len(s),
         SubSeq(s, p + 1, p + k) = <<>>
  PROVE  k = 0
OBVIOUS
-------------------------------------------------------------------------------
(***************************************************************************)
(* The DSF reader: reading.                                                *)
(***************************************************************************)
\* Where the reader can be: g groups were fetched, and b bytes of each channel, and some
\* bits of the next one, are used up.
DsfPlace(g, b, bit, ch) ==
  /\ g \in 0 .. Dsf!WholeGroups
  /\ b \in 0 .. Dsf!blockSize /\ bit \in 0 .. 7 /\ ch \in 0 .. Dsf!numChannels - 1
  /\ g = 0 => b = Dsf!blockSize
  /\ b = Dsf!blockSize => bit = 0 /\ ch = 0

\* Blocks of a channel before that place, bytes, frames, samples.
DsfByte(g, b)             == (g - 1) * Dsf!blockSize + b
DsfFrame(g, b, bit)       == DsfByte(g, b) * 8 + bit
DsfSample(g, b, bit, ch)  == DsfFrame(g, b, bit) * Dsf!numChannels + ch

DsfRecord(place, buffer, b, bit, ch, loop, out) ==
  [filePos |-> place, channelBuffer |-> buffer, bufferIndex |-> b, currentBit |-> bit,
   currentChannel |-> ch, loop |-> loop, out |-> out]

\* The blocks of the g-th group.
DsfBuffer(g) ==
  IF g = 0 THEN <<>>
  ELSE [c \in 0 .. Dsf!numChannels - 1 |->
          Dsf!startOfData + (g - 1) * Dsf!groupSize + c * Dsf!blockSize]

DsfReader(g, b, bit, ch, loop, out) ==
  DsfRecord(Dsf!startOfData + g * Dsf!groupSize, DsfBuffer(g), b, bit, ch, loop, out)

DsfLength == 8 * Dsf!groupSize * Dsf!WholeGroups

\* The samples as the reader plays them: by its table, whatever the bit order of the file.
DsfPlayed(n) ==
  LET bit == (n \div Dsf!numChannels) % 8
  IN <<Dsf!Sample(n)[1], IF reversed THEN 7 - bit ELSE bit>>

DsfHeard == [n \in 1 .. DsfLength |-> DsfPlayed(n - 1)]

LEMMA DsfTypes ==
  ASSUME file \in DsfFiles
  PROVE  /\ Dsf!blockSize \in Nat \ {0} /\ Dsf!numChannels \in Nat \ {0}
         /\ Dsf!groupSize \in Nat \ {0} /\ Dsf!startOfData \in Nat
         /\ file.groups \in Nat /\ file.size \in Nat /\ file.size >= Dsf!startOfData
         /\ Dsf!endOfData = Dsf!startOfData + file.groups * Dsf!groupSize
<1>1. DsfLayout(file)
  BY InputFileAssumption
<1>2. Dsf!blockSize \in Nat \ {0} /\ Dsf!numChannels \in Nat \ {0}
  BY <1>1 DEF DsfLayout, Dsf!blockSize, Dsf!numChannels, Dsf!MaxChannels
<1>3. Dsf!groupSize \in Nat \ {0}
  <2> SUFFICES ASSUME NEW a \in Nat \ {0}, NEW b \in Nat \ {0} PROVE a * b \in Nat \ {0}
    BY <1>2 DEF Dsf!groupSize
  <2> QED
    OBVIOUS
<1>4. file.groups \in Nat /\ file.groups * Dsf!groupSize \in Nat
  BY <1>1, <1>3 DEF DsfLayout
<1>5. Dsf!startOfData \in Nat /\ file.size \in Nat /\ file.size >= Dsf!startOfData
  BY <1>1 DEF DsfLayout, Dsf!startOfData, Dsf!SizeOfDSD, Dsf!SizeOfFmt, Dsf!SizeOfData
<1>6. Dsf!endOfData = Dsf!startOfData + file.groups * Dsf!groupSize
  <2>1. file.fmtLength \in Nat
    BY <1>1 DEF DsfLayout
  <2> QED
    BY <1>4, <2>1 DEF Dsf!startOfData, Dsf!SizeOfDSD, Dsf!SizeOfData, Dsf!endOfData
<1> QED
  BY <1>2, <1>3, <1>4, <1>5, <1>6

\* A group is in the file as a whole if it ends within it.
LEMMA DsfGroups ==
  ASSUME file \in DsfFiles
  PROVE  /\ Dsf!WholeGroups \in 0 .. file.groups
         /\ \A g \in 0 .. file.groups :
              g <= Dsf!WholeGroups <=> Dsf!startOfData + g * Dsf!groupSize <= file.size
<1> DEFINE size == Dsf!groupSize
           room == file.size - Dsf!startOfData
           held == room \div size
<1>1. size \in Nat \ {0} /\ room \in Nat /\ file.groups \in Nat
      /\ Dsf!startOfData \in Nat /\ file.size \in Nat
  BY DsfTypes
<1>2. Dsf!WholeGroups = IF held < file.groups THEN held ELSE file.groups
  BY DEF Dsf!WholeGroups
<1> HIDE DEF size
<1>3. held \in Nat /\ size * held <= room /\ room < size * held + size
  <2> HIDE DEF room
  <2> QED
    BY <1>1
<1>4. ASSUME NEW g \in 0 .. file.groups
      PROVE  g <= held <=> g * size <= room
  <2>1. g \in Nat
    BY <1>1
  <2> HIDE DEF held, room
  <2>2. g <= held => g * size <= size * held
    BY <1>1, <1>3, <2>1
  <2>3. g >= held + 1 => g * size >= size * held + size
    BY <1>1, <1>3, <2>1
  <2>4. g * size \in Nat /\ size * held \in Nat
    BY <1>1, <1>3, <2>1
  <2> QED
    BY <1>1, <1>3, <2>1, <2>2, <2>3, <2>4
<1>5. ASSUME NEW g \in 0 .. file.groups
      PROVE  g <= Dsf!WholeGroups <=> Dsf!startOfData + g * size <= file.size
  <2>1. g * size \in Nat
    BY <1>1
  <2> QED
    BY <1>1, <1>2, <1>3, <1>4, <1>5, <2>1
<1> QED
  BY <1>1, <1>2, <1>3, <1>5 DEF size

\* What is played is what is in the file, if the table is the file's.
LEMMA DsfInOrder ==
  ASSUME Dsf!TableFits
  PROVE  Dsf!Stream = DsfHeard
<1>1. \A n : DsfPlayed(n) = Dsf!Sample(n)
  BY DEF DsfPlayed, Dsf!Sample, Dsf!TableFits
<1> QED
  BY <1>1 DEF Dsf!Stream, DsfHeard, DsfLength

LEMMA DsfSamples ==
  ASSUME file \in DsfFiles
  PROVE  /\ DsfLength \in Nat
         /\ DsfHeard \in Seq({DsfPlayed(n - 1) : n \in 1 .. DsfLength})
         /\ Len(DsfHeard) = DsfLength
         /\ \A n \in 1 .. DsfLength : DsfHeard[n] = DsfPlayed(n - 1)
<1>1. DsfLength \in Nat
  <2>1. Dsf!groupSize \in Nat /\ Dsf!WholeGroups \in Nat
    BY DsfTypes, DsfGroups
  <2> QED
    BY <2>1 DEF DsfLength
<1>2. DsfHeard = [n \in 1 .. DsfLength |-> DsfPlayed(n - 1)]
  BY DEF DsfHeard
<1>3. ASSUME NEW f, NEW len \in Nat, NEW T, f = [n \in 1 .. len |-> DsfPlayed(n - 1)],
             \A n \in 1 .. len : DsfPlayed(n - 1) \in T
      PROVE  f \in Seq(T) /\ Len(f) = len
  BY <1>3
<1> DEFINE T == {DsfPlayed(n - 1) : n \in 1 .. DsfLength}
<1>4. \A n \in 1 .. DsfLength : DsfPlayed(n - 1) \in T
  OBVIOUS
<1> HIDE DEF T
<1>5. DsfHeard \in Seq(T) /\ Len(DsfHeard) = DsfLength
  BY <1>1, <1>2, <1>3, <1>4
<1>6. \A n \in 1 .. DsfLength : DsfHeard[n] = DsfPlayed(n - 1)
  BY <1>2
<1> QED
  BY <1>1, <1>5, <1>6 DEF T

LEMMA DsfStreamIs ==
  ASSUME file \in DsfFiles
  PROVE  Len(Dsf!Stream) = DsfLength
<1>1. ASSUME NEW f, NEW len \in Nat, f = [n \in 1 .. len |-> Dsf!Sample(n - 1)]
      PROVE  Len(f) = len
  BY <1>1
<1> QED
  BY <1>1, DsfSamples DEF Dsf!Stream, DsfLength

\* The layout of the file has the byte that the reader takes for the next sample.
LEMMA DsfNextSample ==
  ASSUME file \in DsfFiles, NEW g, NEW b, NEW bit, NEW ch,
         DsfPlace(g, b, bit, ch), b # Dsf!blockSize
  PROVE  /\ DsfSample(g, b, bit, ch) \in Nat
         /\ DsfSample(g, b, bit, ch) < DsfLength
         /\ DsfPlayed(DsfSample(g, b, bit, ch)) =
              <<Dsf!startOfData + (g - 1) * Dsf!groupSize + ch * Dsf!blockSize + b,
                IF reversed THEN 7 - bit ELSE bit>>
<1> DEFINE bs == Dsf!blockSize
           nc == Dsf!numChannels
           frame == DsfFrame(g, b, bit)
           byte == DsfByte(g, b)
           n == DsfSample(g, b, bit, ch)
           W == Dsf!WholeGroups
<1>1. /\ bs \in Nat \ {0} /\ nc \in Nat \ {0} /\ W \in Nat
      /\ g \in Nat /\ g >= 1 /\ g <= W /\ b \in 0 .. bs - 1 /\ bit \in 0 .. 7 /\ ch \in 0 .. nc - 1
  BY DsfTypes, DsfGroups DEF DsfPlace
<1>2. byte = (g - 1) * bs + b /\ frame = byte * 8 + bit /\ n = frame * nc + ch
  BY DEF DsfByte, DsfFrame, DsfSample
<1>3. Dsf!groupSize = nc * bs
  BY DEF Dsf!groupSize
<1>4. (g - 1) * bs \in Nat /\ g * bs \in Nat /\ (g - 1) * bs = g * bs - bs /\ g * bs <= W * bs
      /\ W * bs \in Nat
  <2> HIDE DEF bs, W
  <2> QED
    BY <1>1
<1>5. byte \in Nat /\ byte \div bs = g - 1 /\ byte % bs = b /\ byte + 1 <= W * bs
  <2> HIDE DEF bs, byte, W
  <2>1. g - 1 \in Nat
    BY <1>1
  <2>2. byte \div bs = g - 1 /\ byte % bs = b
    <3> DEFINE a == g - 1
    <3>1. a \in Nat /\ byte = a * bs + b
      BY <1>2, <2>1
    <3> HIDE DEF a
    <3>2. byte \div bs = a /\ byte % bs = b
      BY ONLY <1>1, <3>1, Divided
    <3> QED
      BY <3>2 DEF a
  <2> QED
    BY <1>1, <1>2, <1>4, <2>2
<1>6. frame \in Nat /\ frame \div 8 = byte /\ frame % 8 = bit /\ frame + 1 <= (W * bs) * 8
  <2> HIDE DEF bs, byte, frame, W
  <2> QED
    BY <1>1, <1>2, <1>4, <1>5
<1>7. n \in Nat /\ n \div nc = frame /\ n % nc = ch
  <2> HIDE DEF nc, frame, n
  <2>1. frame * nc \in Nat
    BY <1>1, <1>6
  <2>2. n \div nc = frame /\ n % nc = ch
    <3>1. n = frame * nc + ch /\ nc \in Nat \ {0} /\ ch \in 0 .. nc - 1 /\ frame \in Nat
      BY <1>1, <1>2, <1>6
    <3> QED
      BY ONLY <3>1, Divided
  <2> QED
    BY <1>1, <1>2, <1>6, <2>1, <2>2
<1>8. n < DsfLength
  <2>1. DsfLength = ((W * bs) * 8) * nc
    <3>1. DsfLength = (8 * (nc * bs)) * W
      BY <1>3 DEF DsfLength, W
    <3> HIDE DEF W, nc, bs
    <3>2. (8 * (nc * bs)) * W = ((W * bs) * 8) * nc
      BY <1>1
    <3> QED
      BY <3>1, <3>2
  <2> HIDE DEF W, nc, bs, frame, n
  <2>2. (frame + 1) * nc = frame * nc + nc /\ frame * nc \in Nat
    BY <1>1, <1>6
  <2>3. (frame + 1) * nc <= ((W * bs) * 8) * nc
    <3> SUFFICES ASSUME NEW x \in Nat, NEW y \in Nat, x <= y PROVE x * nc <= y * nc
      BY <1>1, <1>4, <1>6
    <3> QED
      BY <1>1
  <2>4. ((W * bs) * 8) * nc \in Nat
    BY <1>1, <1>4
  <2> QED
    BY <1>1, <1>2, <2>1, <2>2, <2>3, <2>4
<1>9. DsfPlayed(n) = <<Dsf!startOfData + (g - 1) * Dsf!groupSize + ch * bs + b,
                        IF reversed THEN 7 - bit ELSE bit>>
  <2> HIDE DEF n, frame, byte
  <2> QED
    BY <1>5, <1>6, <1>7 DEF DsfPlayed, Dsf!Sample
<1> QED
  BY <1>7, <1>8, <1>9

\* What EXCEPT makes of the reader's state.
LEMMA DsfFields ==
  ASSUME NEW p, NEW m, NEW b, NEW bit, NEW ch, NEW loop, NEW out, NEW r,
         r = DsfRecord(p, m, b, bit, ch, loop, out)
  PROVE  /\ r.filePos = p /\ r.channelBuffer = m
         /\ r.bufferIndex = b /\ r.currentBit = bit /\ r.currentChannel = ch
         /\ r.loop = loop /\ r.out = out
BY DEF DsfRecord

\* The changes that a turn makes, and what comes of them.
DsfMoved(r, ch, bit, b)     == [r EXCEPT !.currentChannel = ch, !.currentBit = bit, !.bufferIndex = b]
DsfFilled(r, m, p, b)       == [r EXCEPT !.channelBuffer = m, !.filePos = p, !.bufferIndex = b]
DsfDelivered(r, out)        == [r EXCEPT !.out = out]
DsfEnded(r, loop)           == [r EXCEPT !.loop = loop]
DsfRested(r, loop, out)     == [r EXCEPT !.loop = loop, !.out = out]

LEMMA DsfMovedIs ==
  ASSUME NEW p, NEW m, NEW b, NEW bit, NEW ch, NEW loop, NEW out, NEW r,
         r = DsfRecord(p, m, b, bit, ch, loop, out), NEW x, NEW y, NEW z
  PROVE  DsfMoved(r, x, y, z) = DsfRecord(p, m, z, y, x, loop, out)
<1> DEFINE one == [r EXCEPT !.currentChannel = x]
           two == [one EXCEPT !.currentBit = y]
<1>1. one = DsfRecord(p, m, b, bit, x, loop, out)
  BY SMTT(10) DEF DsfRecord
<1> HIDE DEF one
<1>2. two = DsfRecord(p, m, b, y, x, loop, out)
  BY <1>1, SMTT(10) DEF DsfRecord
<1> HIDE DEF two
<1>3. [two EXCEPT !.bufferIndex = z] = DsfRecord(p, m, z, y, x, loop, out)
  BY <1>2, SMTT(10) DEF DsfRecord
<1> QED
  BY <1>3 DEF one, two, DsfMoved

LEMMA DsfFilledIs ==
  ASSUME NEW p, NEW m, NEW b, NEW bit, NEW ch, NEW loop, NEW out, NEW r,
         r = DsfRecord(p, m, b, bit, ch, loop, out), NEW x, NEW y, NEW z
  PROVE  DsfFilled(r, x, y, z) = DsfRecord(y, x, z, bit, ch, loop, out)
<1> DEFINE one == [r EXCEPT !.channelBuffer = x]
           two == [one EXCEPT !.filePos = y]
<1>1. one = DsfRecord(p, x, b, bit, ch, loop, out)
  BY SMTT(10) DEF DsfRecord
<1> HIDE DEF one
<1>2. two = DsfRecord(y, x, b, bit, ch, loop, out)
  BY <1>1, SMTT(10) DEF DsfRecord
<1> HIDE DEF two
<1>3. [two EXCEPT !.bufferIndex = z] = DsfRecord(y, x, z, bit, ch, loop, out)
  BY <1>2, SMTT(10) DEF DsfRecord
<1> QED
  BY <1>3 DEF one, two, DsfFilled

LEMMA DsfDeliveredIs ==
  ASSUME NEW p, NEW m, NEW b, NEW bit, NEW ch, NEW loop, NEW out, NEW r,
         r = DsfRecord(p, m, b, bit, ch, loop, out), NEW x
  PROVE  DsfDelivered(r, x) = DsfRecord(p, m, b, bit, ch, loop, x)
BY SMTT(10) DEF DsfRecord, DsfDelivered

LEMMA DsfEndedIs ==
  ASSUME NEW p, NEW m, NEW b, NEW bit, NEW ch, NEW loop, NEW out, NEW r,
         r = DsfRecord(p, m, b, bit, ch, loop, out), NEW x
  PROVE  DsfEnded(r, x) = DsfRecord(p, m, b, bit, ch, x, out)
BY SMTT(10) DEF DsfRecord, DsfEnded

LEMMA DsfRestedIs ==
  ASSUME NEW p, NEW m, NEW b, NEW bit, NEW ch, NEW loop, NEW out, NEW r,
         r = DsfRecord(p, m, b, bit, ch, loop, out), NEW x, NEW y
  PROVE  DsfRested(r, x, y) = DsfRecord(p, m, b, bit, ch, x, y)
<1> DEFINE one == [r EXCEPT !.loop = x]
<1>1. one = DsfRecord(p, m, b, bit, ch, x, out)
  BY SMTT(10) DEF DsfRecord
<1> HIDE DEF one
<1>2. [one EXCEPT !.out = y] = DsfRecord(p, m, b, bit, ch, x, y)
  BY <1>1, SMTT(10) DEF DsfRecord
<1> QED
  BY <1>2 DEF one, DsfRested

\* The cursors move on by one sample.
LEMMA DsfAdvance ==
  ASSUME file \in DsfFiles, NEW g, NEW b, NEW bit, NEW ch, NEW out,
         DsfPlace(g, b, bit, ch), b # Dsf!blockSize,
         NEW r, r = DsfReader(g, b, bit, ch, "on", out)
  PROVE  \E b2, bit2, ch2 :
           /\ DsfPlace(g, b2, bit2, ch2)
           /\ DsfSample(g, b2, bit2, ch2) = DsfSample(g, b, bit, ch) + 1
           /\ Dsf!Advance(r) = DsfReader(g, b2, bit2, ch2, "on", out)
<1> DEFINE nc == Dsf!numChannels
           lastBit == bit = 7
           lastChannel == ch + 1 = nc
           b2 == IF lastChannel /\ lastBit THEN b + 1 ELSE b
           bit2 == IF ~lastChannel THEN bit ELSE IF lastBit THEN 0 ELSE bit + 1
           ch2 == IF lastChannel THEN 0 ELSE ch + 1
<1>1. /\ Dsf!blockSize \in Nat \ {0} /\ nc \in Nat \ {0}
      /\ g \in Nat /\ g >= 1 /\ g \in 0 .. Dsf!WholeGroups
      /\ b \in 0 .. Dsf!blockSize - 1 /\ bit \in 0 .. 7 /\ ch \in 0 .. nc - 1
  BY DsfTypes, DsfGroups DEF DsfPlace
<1>2. DsfPlace(g, b2, bit2, ch2)
  BY <1>1 DEF DsfPlace
<1>3. DsfSample(g, b2, bit2, ch2) = DsfSample(g, b, bit, ch) + 1
  <2> DEFINE frame == DsfFrame(g, b, bit)
  <2>1. (g - 1) * Dsf!blockSize \in Int
    BY <1>1
  <2>2. frame \in Int /\ DsfFrame(g, b2, bit2) = IF lastChannel THEN frame + 1 ELSE frame
    <3> DEFINE x == (g - 1) * Dsf!blockSize
    <3>1. frame = (x + b) * 8 + bit /\ DsfFrame(g, b2, bit2) = (x + b2) * 8 + bit2
      BY DEF DsfFrame, DsfByte
    <3>2. x \in Int
      BY <2>1
    <3> HIDE DEF x, frame
    <3> QED
      BY <1>1, <3>1, <3>2
  <2> HIDE DEF frame
  <2>3. (frame + 1) * nc = frame * nc + nc /\ frame * nc \in Int
    BY <1>1, <2>2
  <2>4. DsfSample(g, b2, bit2, ch2) = DsfFrame(g, b2, bit2) * nc + ch2
        /\ DsfSample(g, b, bit, ch) = frame * nc + ch
    BY DEF DsfSample, frame
  <2>5. CASE lastChannel
    BY <1>1, <2>2, <2>3, <2>4, <2>5
  <2>6. CASE ~lastChannel
    BY <1>1, <2>2, <2>3, <2>4, <2>6
  <2> QED
    BY <2>5, <2>6
<1>4. Dsf!Advance(r) = DsfReader(g, b2, bit2, ch2, "on", out)
  <2>1. r.bufferIndex = b /\ r.currentBit = bit /\ r.currentChannel = ch
    BY DsfFields DEF DsfReader
  <2>2. Dsf!Advance(r) = DsfMoved(r, ch2, bit2, b2)
    BY <2>1 DEF Dsf!Advance, DsfMoved
  <2> HIDE DEF b2, bit2, ch2
  <2> QED
    BY <2>2, DsfMovedIs DEF DsfReader
<1> HIDE DEF b2, bit2, ch2
<1> QED
  BY <1>2, <1>3, <1>4

\* A place at the end of one group is that before the next group's first byte.
LEMMA DsfNextGroup ==
  ASSUME file \in DsfFiles, NEW g, NEW b, NEW bit, NEW ch,
         DsfPlace(g, b, bit, ch), b = Dsf!blockSize
  PROVE  /\ bit = 0 /\ ch = 0
         /\ g < Dsf!WholeGroups => DsfPlace(g + 1, 0, 0, 0)
         /\ DsfSample(g + 1, 0, 0, 0) = DsfSample(g, b, bit, ch)
         /\ DsfSample(g, b, bit, ch) = 8 * Dsf!groupSize * g
<1> DEFINE bs == Dsf!blockSize
           nc == Dsf!numChannels
<1>1. bs \in Nat \ {0} /\ nc \in Nat \ {0} /\ Dsf!WholeGroups \in Nat /\ g \in 0 .. Dsf!WholeGroups
  BY DsfTypes, DsfGroups DEF DsfPlace
<1>2. bit = 0 /\ ch = 0
  BY DEF DsfPlace
<1>3. g < Dsf!WholeGroups => DsfPlace(g + 1, 0, 0, 0)
  BY <1>1 DEF DsfPlace
<1>4. (g - 1) * bs + bs = g * bs /\ (g + 1 - 1) * bs + 0 = g * bs /\ g * bs \in Nat
  <2> HIDE DEF bs
  <2> QED
    BY <1>1
<1>5. DsfByte(g + 1, 0) = g * bs /\ DsfByte(g, b) = g * bs
  <2>1. DsfByte(g + 1, 0) = (g + 1 - 1) * bs + 0 /\ DsfByte(g, b) = (g - 1) * bs + bs
    BY <1>1 DEF DsfByte
  <2> QED
    BY <1>4, <2>1
<1>6. DsfFrame(g + 1, 0, 0) = (g * bs) * 8 /\ DsfFrame(g, b, bit) = (g * bs) * 8
  BY <1>2, <1>4, <1>5 DEF DsfFrame
<1>7. ((g * bs) * 8) * nc = 8 * (nc * bs) * g /\ ((g * bs) * 8) * nc \in Nat
  <2> HIDE DEF bs, nc
  <2> QED
    BY <1>1
<1>8. DsfSample(g + 1, 0, 0, 0) = ((g * bs) * 8) * nc
      /\ DsfSample(g, b, bit, ch) = ((g * bs) * 8) * nc
  BY <1>2, <1>6, <1>7 DEF DsfSample
<1> QED
  BY <1>2, <1>3, <1>7, <1>8 DEF Dsf!groupSize

\* A turn that puts out sample n.
DsfGoesOn(s, n, out) ==
  \E g, b, bit, ch :
    /\ DsfPlace(g, b, bit, ch)
    /\ DsfSample(g, b, bit, ch) = n + 1
    /\ s = DsfReader(g, b, bit, ch, "on", Append(out, DsfPlayed(n)))

\* A byte is buffered.
LEMMA DsfPutsOut ==
  ASSUME file \in DsfFiles, NEW g, NEW b, NEW bit, NEW ch, NEW out, NEW r,
         DsfPlace(g, b, bit, ch), b # Dsf!blockSize,
         r = DsfReader(g, b, bit, ch, "on", out)
  PROVE  /\ DsfSample(g, b, bit, ch) \in 0 .. DsfLength - 1
         /\ DsfGoesOn(Dsf!Advance([r EXCEPT !.out = Append(@,
                         <<r.channelBuffer[r.currentChannel] + r.bufferIndex, Dsf!Bit(r)>>)]),
                      DsfSample(g, b, bit, ch), out)
<1> DEFINE n == DsfSample(g, b, bit, ch)
           sample == <<Dsf!startOfData + (g - 1) * Dsf!groupSize + ch * Dsf!blockSize + b,
                       IF reversed THEN 7 - bit ELSE bit>>
           laid == <<r.channelBuffer[r.currentChannel] + r.bufferIndex, Dsf!Bit(r)>>
<1>1. n \in 0 .. DsfLength - 1 /\ DsfPlayed(n) = sample
  BY DsfNextSample, DsfSamples
<1>2. laid = sample
  <2>1. g # 0 /\ ch \in 0 .. Dsf!numChannels - 1
    BY DEF DsfPlace
  <2>2. /\ r.channelBuffer = DsfBuffer(g) /\ r.currentChannel = ch
        /\ r.bufferIndex = b /\ r.currentBit = bit /\ r.out = out
    BY DsfFields DEF DsfReader
  <2>3. DsfBuffer(g)[ch] = Dsf!startOfData + (g - 1) * Dsf!groupSize + ch * Dsf!blockSize
    BY <2>1 DEF DsfBuffer
  <2> QED
    BY <2>2, <2>3 DEF Dsf!Bit
<1>3. r.out = out
  BY DsfFields DEF DsfReader
<1> HIDE DEF n, sample, laid
<1> DEFINE d == DsfDelivered(r, Append(out, DsfPlayed(n)))
<1>4. [r EXCEPT !.out = Append(@, laid)] = d
  BY <1>1, <1>2, <1>3 DEF DsfDelivered
<1>5. d = DsfReader(g, b, bit, ch, "on", Append(out, DsfPlayed(n)))
  BY DsfDeliveredIs DEF DsfReader
<1> HIDE DEF d
<1>6. DsfGoesOn(Dsf!Advance(d), n, out)
  BY <1>5, DsfAdvance DEF DsfGoesOn, n
<1> QED
  BY <1>1, <1>4, <1>6 DEF laid, n

\* One turn of read's loop puts out the next sample, or it is at the end: of a whole file
\* it says so, of another it throws.
LEMMA DsfTurn ==
  ASSUME file \in DsfFiles, NEW g, NEW b, NEW bit, NEW ch, NEW out, NEW r,
         DsfPlace(g, b, bit, ch), r = DsfReader(g, b, bit, ch, "on", out)
  PROVE  \/ /\ DsfSample(g, b, bit, ch) \in 0 .. DsfLength - 1
            /\ DsfGoesOn(Dsf!ReadSample(r), DsfSample(g, b, bit, ch), out)
         \/ /\ DsfSample(g, b, bit, ch) = DsfLength
            /\ Dsf!ReadSample(r) =
                 DsfReader(g, b, bit, ch, IF Dsf!Complete THEN "over" ELSE "thrown", out)
<1> DEFINE n == DsfSample(g, b, bit, ch)
<1>0. /\ r.bufferIndex = b /\ r.loop = "on" /\ r.filePos = Dsf!startOfData + g * Dsf!groupSize
      /\ r.currentBit = bit /\ r.currentChannel = ch
  BY DsfFields DEF DsfReader
<1>1. CASE b # Dsf!blockSize
  <2>1. Dsf!ReadSample(r) = Dsf!Advance([r EXCEPT !.out = Append(@,
                         <<r.channelBuffer[r.currentChannel] + r.bufferIndex, Dsf!Bit(r)>>)])
    BY <1>0, <1>1 DEF Dsf!ReadSample
  <2> QED
    BY <1>1, <2>1, DsfPutsOut
<1>2. CASE b = Dsf!blockSize
  <2>1. /\ bit = 0 /\ ch = 0 /\ n = 8 * Dsf!groupSize * g /\ DsfSample(g + 1, 0, 0, 0) = n
        /\ g < Dsf!WholeGroups => DsfPlace(g + 1, 0, 0, 0)
    BY <1>2, DsfNextGroup
  <2>2. /\ g \in Nat /\ g <= Dsf!WholeGroups /\ Dsf!WholeGroups \in 0 .. file.groups
        /\ file.groups \in Nat /\ Dsf!groupSize \in Nat \ {0} /\ Dsf!startOfData \in Nat
        /\ Dsf!blockSize \in Nat \ {0} /\ file.size \in Nat
        /\ Dsf!endOfData = Dsf!startOfData + file.groups * Dsf!groupSize
    BY DsfTypes, DsfGroups DEF DsfPlace
  <2>3. /\ g * Dsf!groupSize \in Nat /\ file.groups * Dsf!groupSize \in Nat
        /\ (g + 1) * Dsf!groupSize = g * Dsf!groupSize + Dsf!groupSize
        /\ g < file.groups => g * Dsf!groupSize < file.groups * Dsf!groupSize
    <3> SUFFICES ASSUME NEW x \in Nat, NEW y \in Nat, NEW z \in Nat \ {0}
                 PROVE  /\ x * z \in Nat /\ y * z \in Nat /\ (x + 1) * z = x * z + z
                        /\ x < y => x * z < y * z
      BY <2>2
    <3> QED
      OBVIOUS
  <2>4. r.filePos >= Dsf!endOfData <=> g = file.groups
    BY <1>0, <2>2, <2>3
  <2>5. g < file.groups => (r.filePos + Dsf!groupSize > file.size <=> g = Dsf!WholeGroups)
    <3>1. g < file.groups => (g + 1 <= Dsf!WholeGroups <=>
                                Dsf!startOfData + (g + 1) * Dsf!groupSize <= file.size)
      BY <2>2, DsfGroups
    <3> QED
      BY <1>0, <2>2, <2>3, <3>1
  <2>6. ASSUME NEW loop, loop # "on", Dsf!readBlocks(r) = DsfEnded(r, loop)
        PROVE  Dsf!ReadSample(r) = DsfReader(g, b, bit, ch, loop, out)
    <3>1. DsfEnded(r, loop) = DsfReader(g, b, bit, ch, loop, out)
      BY DsfEndedIs DEF DsfReader
    <3>2. DsfEnded(r, loop).loop = loop
      BY <3>1, DsfFields DEF DsfReader
    <3> QED
      BY <1>0, <1>2, <2>6, <3>1, <3>2 DEF Dsf!ReadSample
  <2>7. CASE g = file.groups
    <3>1. Dsf!WholeGroups = g
      BY <2>2, <2>7
    <3>2. Dsf!Complete /\ n = DsfLength
      BY <2>1, <2>7, <3>1 DEF Dsf!Complete, DsfLength
    <3>3. Dsf!readBlocks(r) = DsfEnded(r, "over")
      BY <2>4, <2>7 DEF Dsf!readBlocks, DsfEnded
    <3> QED
      BY <2>6, <3>2, <3>3
  <2>8. CASE g < file.groups /\ g = Dsf!WholeGroups
    <3>1. ~Dsf!Complete /\ n = DsfLength
      BY <2>1, <2>8, <2>2 DEF Dsf!Complete, DsfLength
    <3>2. Dsf!readBlocks(r) = DsfEnded(r, "thrown")
      BY <2>2, <2>4, <2>5, <2>8 DEF Dsf!readBlocks, DsfEnded
    <3> QED
      BY <2>6, <3>1, <3>2
  <2>9. CASE g < Dsf!WholeGroups
    <3> DEFINE buffer == [c \in 0 .. Dsf!numChannels - 1 |-> r.filePos + c * Dsf!blockSize]
               f == DsfFilled(r, buffer, r.filePos + Dsf!groupSize, 0)
    <3>1. Dsf!readBlocks(r) = f
      BY <2>2, <2>4, <2>5, <2>9 DEF Dsf!readBlocks, DsfFilled
    <3>2. f = DsfReader(g + 1, 0, 0, 0, "on", out)
      <4>1. g + 1 # 0 /\ g + 1 - 1 = g
            /\ Dsf!startOfData + (g + 1) * Dsf!groupSize = r.filePos + Dsf!groupSize
        BY <1>0, <2>2, <2>3
      <4>2. buffer = DsfBuffer(g + 1)
        <5>1. DsfBuffer(g + 1) = [c \in 0 .. Dsf!numChannels - 1 |->
                 Dsf!startOfData + g * Dsf!groupSize + c * Dsf!blockSize]
          BY <2>2, <4>1 DEF DsfBuffer
        <5> QED
          BY <1>0, <5>1
      <4> HIDE DEF buffer
      <4> QED
        BY <2>1, <4>1, <4>2, DsfFilledIs DEF DsfReader
    <3> HIDE DEF f
    <3>3. f.loop = "on"
      BY <3>2, DsfFields DEF DsfReader
    <3>4. DsfPlace(g + 1, 0, 0, 0) /\ 0 # Dsf!blockSize
      BY <2>1, <2>2, <2>9
    <3>5. Dsf!ReadSample(r) = Dsf!Advance([f EXCEPT !.out = Append(@,
                         <<f.channelBuffer[f.currentChannel] + f.bufferIndex, Dsf!Bit(f)>>)])
      BY <1>0, <1>2, <3>1, <3>3 DEF Dsf!ReadSample
    <3> QED
      BY <2>1, <3>2, <3>4, <3>5, DsfPutsOut
  <2> QED
    BY <2>2, <2>7, <2>8, <2>9
<1> QED
  BY <1>1, <1>2

\* The loop of a read: its turns are well-defined.
DsfLoop(r)     == IF r.loop = "on" THEN Dsf!ReadSample(r) ELSE r
DsfTurns(n, f) == [i \in 0 .. n |-> IF i = 0 THEN reader ELSE DsfLoop(f[i - 1])]

LEMMA DsfTurnsExist == \A n \in Nat : \E f : f = DsfTurns(n, f)
<1> DEFINE S == {n \in Nat : \E f : f = DsfTurns(n, f)}
<1>1. 0 \in S
  <2> DEFINE f == [i \in 0 .. 0 |-> reader]
  <2>1. f = DsfTurns(0, f)
    BY DEF DsfTurns
  <2> QED
    BY <2>1
<1>2. ASSUME NEW n \in Nat, n \in S PROVE n + 1 \in S
  <2>1. PICK f : f = DsfTurns(n, f)
    BY <1>2
  <2> DEFINE h == [i \in 0 .. n + 1 |-> IF i = n + 1 THEN DsfLoop(f[n]) ELSE f[i]]
  <2>2. \A i \in 0 .. n : f[i] = IF i = 0 THEN reader ELSE DsfLoop(f[i - 1])
    BY <2>1 DEF DsfTurns
  <2>3. \A i \in 0 .. n + 1 : h[i] = IF i = 0 THEN reader ELSE DsfLoop(h[i - 1])
    <3> SUFFICES ASSUME NEW i \in 0 .. n + 1
                 PROVE  h[i] = IF i = 0 THEN reader ELSE DsfLoop(h[i - 1])
      OBVIOUS
    <3>1. CASE i = n + 1
      <4>1. i - 1 = n /\ n \in 0 .. n + 1 /\ n # n + 1 /\ i # 0
        BY <3>1
      <4>2. h[i] = DsfLoop(f[n]) /\ h[n] = f[n]
        BY <3>1, <4>1
      <4> HIDE DEF h
      <4> QED
        BY <4>1, <4>2
    <3>2. CASE i = 0
      <4>1. 0 \in 0 .. n /\ i # n + 1
        BY <3>2
      <4> QED
        BY <2>2, <3>2, <4>1
    <3>3. CASE i \in 1 .. n
      <4>1. i \in 0 .. n /\ i # n + 1 /\ i # 0 /\ i - 1 \in 0 .. n + 1 /\ i - 1 # n + 1
        BY <3>3
      <4>2. h[i] = f[i] /\ h[i - 1] = f[i - 1]
        BY <4>1
      <4> HIDE DEF h
      <4> QED
        BY <2>2, <4>1, <4>2
    <3> QED
      BY <3>1, <3>2, <3>3
  <2>4. h = [i \in 0 .. n + 1 |-> h[i]]
    OBVIOUS
  <2> HIDE DEF h
  <2>5. h = DsfTurns(n + 1, h)
    BY <2>3, <2>4 DEF DsfTurns
  <2> QED
    BY <2>5
<1> HIDE DEF S
<1>3. Nat \subseteq S
  BY <1>1, <1>2, InductiveSet
<1> QED
  BY <1>3 DEF S

\* What a read has done after i turns, from sample p on.
DsfGot(s, p, i) ==
  \E g, b, bit, ch, k :
    /\ DsfPlace(g, b, bit, ch)
    /\ k \in 0 .. DsfLength - p
    /\ DsfSample(g, b, bit, ch) = p + k
    /\ \/ /\ k = i
          /\ s = DsfReader(g, b, bit, ch, "on", SubSeq(DsfHeard, p + 1, p + k))
       \/ /\ k < i /\ p + k = DsfLength
          /\ s = DsfReader(g, b, bit, ch, IF Dsf!Complete THEN "over" ELSE "thrown",
                           SubSeq(DsfHeard, p + 1, p + k))

LEMMA DsfGotMore ==
  ASSUME file \in DsfFiles, NEW s, NEW p \in Nat, NEW i \in Nat, DsfGot(s, p, i)
  PROVE  DsfGot(DsfLoop(s), p, i + 1)
<1>0. DsfLength \in Nat
  BY DsfSamples
<1>1. PICK g, b, bit, ch, k :
        /\ DsfPlace(g, b, bit, ch)
        /\ k \in 0 .. DsfLength - p
        /\ DsfSample(g, b, bit, ch) = p + k
        /\ \/ /\ k = i
              /\ s = DsfReader(g, b, bit, ch, "on", SubSeq(DsfHeard, p + 1, p + k))
           \/ /\ k < i /\ p + k = DsfLength
              /\ s = DsfReader(g, b, bit, ch, IF Dsf!Complete THEN "over" ELSE "thrown",
                               SubSeq(DsfHeard, p + 1, p + k))
  BY DEF DsfGot
<1> DEFINE out == SubSeq(DsfHeard, p + 1, p + k)
           end == IF Dsf!Complete THEN "over" ELSE "thrown"
<1>2. end # "on"
  OBVIOUS
<1> HIDE DEF out, end
<1>3. CASE k = i /\ s = DsfReader(g, b, bit, ch, "on", out)
  <2>1. DsfLoop(s) = Dsf!ReadSample(s)
    BY <1>3, DsfFields DEF DsfReader, DsfLoop
  <2>2. CASE p + k \in 0 .. DsfLength - 1 /\ DsfGoesOn(Dsf!ReadSample(s), p + k, out)
    <3>1. PICK g2, b2, bit2, ch2 :
            /\ DsfPlace(g2, b2, bit2, ch2)
            /\ DsfSample(g2, b2, bit2, ch2) = p + k + 1
            /\ Dsf!ReadSample(s) = DsfReader(g2, b2, bit2, ch2, "on", Append(out, DsfPlayed(p + k)))
      BY <2>2 DEF DsfGoesOn
    <3>2. k \in Nat /\ p + k < DsfLength /\ p + k + 1 \in 1 .. DsfLength
          /\ k + 1 \in 0 .. DsfLength - p /\ k + 1 = i + 1 /\ p + (k + 1) = p + k + 1
          /\ (p + k + 1) - 1 = p + k
      BY <1>0, <1>1, <1>3, <2>2
    <3>3. Append(out, DsfHeard[p + k + 1]) = SubSeq(DsfHeard, p + 1, p + (k + 1))
      BY <3>2, DsfSamples, OneMoreDelivered DEF out
    <3>4. DsfHeard[p + k + 1] = DsfPlayed(p + k)
      BY <3>2, DsfSamples
    <3> QED
      BY <2>1, <3>1, <3>2, <3>3, <3>4 DEF DsfGot
  <2>3. CASE /\ p + k = DsfLength
             /\ Dsf!ReadSample(s) = DsfReader(g, b, bit, ch, end, out)
    <3>1. k < i + 1
      BY <1>1, <1>3
    <3> QED
      BY <1>1, <2>1, <2>3, <3>1 DEF DsfGot, out, end
  <2> QED
    BY <1>1, <1>3, <2>2, <2>3, DsfTurn DEF end
<1>4. CASE k < i /\ p + k = DsfLength /\ s = DsfReader(g, b, bit, ch, end, out)
  <2>1. DsfLoop(s) = s
    BY <1>2, <1>4, DsfFields DEF DsfReader, DsfLoop
  <2>2. k < i + 1
    BY <1>1, <1>4
  <2> QED
    BY <1>1, <1>4, <2>1, <2>2 DEF DsfGot, out, end
<1> QED
  BY <1>1, <1>3, <1>4 DEF out, end

LEMMA DsfReads ==
  ASSUME file \in DsfFiles, NEW n \in Nat, NEW g, NEW b, NEW bit, NEW ch,
         DsfPlace(g, b, bit, ch), DsfSample(g, b, bit, ch) \in 0 .. DsfLength,
         reader = DsfReader(g, b, bit, ch, "on", <<>>)
  PROVE  DsfGot(Dsf!AfterRead(n), DsfSample(g, b, bit, ch), n)
<1> DEFINE p == DsfSample(g, b, bit, ch)
           turn == CHOOSE f : f = DsfTurns(n, f)
           S == {i \in Nat : i <= n => DsfGot(turn[i], p, i)}
<1>0. DsfLength \in Nat
  BY DsfSamples
<1>1. Dsf!AfterRead(n) = turn[n]
  BY DEF Dsf!AfterRead, DsfTurns, DsfLoop
<1>2. turn = DsfTurns(n, turn)
  BY DsfTurnsExist
<1> HIDE DEF turn
<1>3. \A i \in 0 .. n : turn[i] = IF i = 0 THEN reader ELSE DsfLoop(turn[i - 1])
  BY <1>2 DEF DsfTurns
<1>4. 0 \in S
  <2>1. SubSeq(DsfHeard, p + 1, p + 0) = <<>>
    BY DsfSamples, NothingDelivered
  <2>2. turn[0] = reader /\ 0 \in 0 .. DsfLength - p /\ p + 0 = p
    BY <1>0, <1>3
  <2>3. DsfGot(turn[0], p, 0)
    BY <2>1, <2>2 DEF DsfGot
  <2> QED
    BY <2>3
<1>5. ASSUME NEW i \in Nat, i \in S PROVE i + 1 \in S
  <2> SUFFICES ASSUME i + 1 <= n PROVE DsfGot(turn[i + 1], p, i + 1)
    OBVIOUS
  <2>1. DsfGot(turn[i], p, i) /\ i + 1 \in 0 .. n /\ i + 1 # 0 /\ (i + 1) - 1 = i
    BY <1>5
  <2>2. turn[i + 1] = DsfLoop(turn[i])
    BY <1>3, <2>1
  <2> QED
    BY <1>0, <2>1, <2>2, DsfGotMore
<1> HIDE DEF S
<1>6. n \in S
  BY <1>4, <1>5, InductiveSet
<1> QED
  BY <1>1, <1>6 DEF S

\* What the reader's state says of the place in the stream.
LEMMA DsfPosition ==
  ASSUME file \in DsfFiles, NEW g, NEW b, NEW bit, NEW ch, NEW loop, NEW out,
         DsfPlace(g, b, bit, ch), reader = DsfReader(g, b, bit, ch, loop, out)
  PROVE  /\ Dsf!Position = DsfSample(g, b, bit, ch)
         /\ DsfSample(g, b, bit, ch) \in 0 .. DsfLength
<1> DEFINE bs == Dsf!blockSize
           nc == Dsf!numChannels
           gs == Dsf!groupSize
<1>1. /\ bs \in Nat \ {0} /\ nc \in Nat \ {0} /\ Dsf!startOfData \in Nat
      /\ g \in Nat /\ b \in 0 .. bs /\ bit \in 0 .. 7 /\ ch \in 0 .. nc - 1
      /\ g <= Dsf!WholeGroups /\ Dsf!WholeGroups \in Nat
      /\ gs = nc * bs /\ gs \in Nat
  BY DsfTypes, DsfGroups DEF DsfPlace, Dsf!groupSize
<1>2. /\ reader.filePos = Dsf!startOfData + g * gs /\ reader.channelBuffer = DsfBuffer(g)
      /\ reader.bufferIndex = b /\ reader.currentBit = bit /\ reader.currentChannel = ch
  BY DsfFields DEF DsfReader
<1>3. DsfSample(g, b, bit, ch) = (((g - 1) * bs + b) * 8 + bit) * nc + ch
  BY DEF DsfSample, DsfFrame, DsfByte
<1>4. DsfSample(g, b, bit, ch) \in 0 .. DsfLength
  <2>1. CASE b # bs
    BY <2>1, DsfNextSample, DsfSamples
  <2>2. CASE b = bs
    <3>1. DsfSample(g, b, bit, ch) = 8 * gs * g
      BY <2>2, DsfNextGroup
    <3> DEFINE W == Dsf!WholeGroups
               e == 8 * gs
    <3>2. DsfLength = e * W /\ W \in Nat /\ e \in Nat /\ g <= W /\ g \in Nat
      BY <1>1 DEF DsfLength
    <3> HIDE DEF W, e
    <3>3. e * g \in Nat /\ e * g <= e * W
      BY <3>2
    <3> QED
      BY <3>1, <3>2, <3>3 DEF e
  <2> QED
    BY <2>1, <2>2
<1>5. Dsf!Position = DsfSample(g, b, bit, ch)
  <2>1. CASE g = 0
    <3>1. Dsf!Position = 0
      BY <1>2, <2>1 DEF Dsf!Position, DsfBuffer
    <3>2. b = bs /\ bit = 0 /\ ch = 0
      BY <2>1 DEF DsfPlace
    <3>3. DsfSample(g, b, bit, ch) = 8 * gs * 0
      BY <2>1, <3>2, DsfNextGroup
    <3> QED
      BY <1>1, <3>1, <3>3
  <2>2. CASE g # 0
    <3>1. DsfBuffer(g) # <<>>
      <4>1. 0 \in DOMAIN DsfBuffer(g)
        BY <1>1, <2>2 DEF DsfBuffer
      <4>2. 0 \notin DOMAIN <<>>
        OBVIOUS
      <4> QED
        BY <4>1, <4>2
    <3>2. Dsf!Position = 8 * (Dsf!startOfData + g * gs - Dsf!startOfData) - 8 * gs
                           + ((8 * b + bit) * nc + ch)
      <4> DEFINE fetched == 8 * (reader.filePos - Dsf!startOfData)
                 taken == (8 * reader.bufferIndex + reader.currentBit) * Dsf!numChannels
                            + reader.currentChannel
      <4>1. Dsf!Position = fetched - 8 * Dsf!groupSize + taken
        BY <1>2, <3>1 DEF Dsf!Position
      <4>2. fetched = 8 * (Dsf!startOfData + g * gs - Dsf!startOfData)
            /\ taken = (8 * b + bit) * nc + ch
        BY <1>1, <1>2
      <4> HIDE DEF fetched, taken
      <4> QED
        BY <4>1, <4>2
    <3> HIDE DEF bs, nc, gs
    <3>3. g * gs \in Nat /\ (8 * b + bit) * nc \in Nat
      BY <1>1
    <3>4. (((g - 1) * bs + b) * 8 + bit) * nc = 8 * (g * gs) - 8 * gs + (8 * b + bit) * nc
      BY <1>1
    <3> QED
      BY <1>1, <1>3, <3>2, <3>3, <3>4
  <2> QED
    BY <2>1, <2>2
<1> QED
  BY <1>4, <1>5

\* The operators about a file stay what they are while it does.
LEMMA DsfSame ==
  ASSUME file' = file, reversed' = reversed
  PROVE  /\ \A g, b, bit, ch : DsfPlace(g, b, bit, ch)' <=> DsfPlace(g, b, bit, ch)
         /\ \A g, b, bit, ch, loop, out :
              DsfReader(g, b, bit, ch, loop, out)' = DsfReader(g, b, bit, ch, loop, out)
         /\ \A g, b, bit, ch : DsfSample(g, b, bit, ch)' = DsfSample(g, b, bit, ch)
         /\ DsfLength' = DsfLength /\ Dsf!Stream' = Dsf!Stream
         /\ Dsf!Complete' <=> Dsf!Complete
BY DEF DsfPlace, DsfReader, DsfRecord, DsfBuffer, DsfSample, DsfFrame, DsfByte, DsfLength,
       Dsf!Stream, Dsf!Complete, Dsf!WholeGroups, Dsf!groupSize, Dsf!blockSize,
       Dsf!numChannels, Dsf!startOfData, Dsf!Sample
-------------------------------------------------------------------------------
(***************************************************************************)
(* From a reader's steps to those of SampleStream.                         *)
(***************************************************************************)
\* A step of an open reader that delivers the next k samples, all that were asked for or
\* all that are left of a whole file.
LEMMA DeliveryIsRead ==
  ASSUME NEW n \in ReadSizes, NEW k \in Nat, Len(StreamSamples) \in Nat, StreamPosition \in Nat,
         StreamPhase = "open", StreamPhase' = "open",
         StreamSamples' = StreamSamples, StreamComplete' = StreamComplete,
         StreamPosition + k <= Len(StreamSamples),
         StreamPosition' = StreamPosition + k,
         StreamBlock' = SubSeq(StreamSamples, StreamPosition + 1, StreamPosition + k),
         k = n \/ (k < n /\ StreamPosition + k = Len(StreamSamples) /\ StreamComplete)
  PROVE  AsStream!Next
<1>1. n \in Nat
  BY InputFileAssumption
<1>2. AsStream!Rest = Len(StreamSamples) - StreamPosition
  BY DEF AsStream!Rest
<1>3. /\ n <= AsStream!Rest \/ StreamComplete
      /\ k = IF n <= AsStream!Rest THEN n ELSE AsStream!Rest
  BY <1>1, <1>2
<1> HIDE DEF AsStream!Rest
<1>4. AsStream!Read(n)
  BY <1>3 DEF AsStream!Read
<1> QED
  BY <1>4 DEF AsStream!Next

\* A step in which the end of a file that lacks a part makes the reader fail.
LEMMA FailureIsReadFails ==
  ASSUME NEW n \in ReadSizes, NEW k \in Nat, Len(StreamSamples) \in Nat, StreamPosition \in Nat,
         StreamPhase = "open", StreamPhase' = "failed",
         StreamSamples' = StreamSamples, StreamComplete' = StreamComplete, ~StreamComplete,
         StreamPosition' = StreamPosition + k,
         StreamPosition + k = Len(StreamSamples), k < n,
         StreamBlock' = StreamBlock
  PROVE  AsStream!Next
<1>1. n \in Nat
  BY InputFileAssumption
<1>2. n > AsStream!Rest
  BY <1>1 DEF AsStream!Rest
<1>3. StreamPosition' \in StreamPosition .. Len(StreamSamples)
  OBVIOUS
<1>4. AsStream!ReadFails(n)
  BY <1>2, <1>3 DEF AsStream!ReadFails
<1> QED
  BY <1>4 DEF AsStream!Next

LEMMA SeekIsRewind ==
  ASSUME StreamPhase = "open", StreamPhase' = "open",
         StreamSamples' = StreamSamples, StreamComplete' = StreamComplete,
         StreamPosition' = 0, StreamBlock' = <<>>
  PROVE  AsStream!Next
<1>1. AsStream!Rewind
  BY DEF AsStream!Rewind
<1> QED
  BY <1>1 DEF AsStream!Next

\* The steps of opening.
LEMMA OpeningIsOpen ==
  ASSUME StreamPhase = "opening", StreamPhase' \in {"opening", "open", "refused", "failed"},
         StreamSamples' = StreamSamples, StreamComplete' = StreamComplete,
         StreamPosition' = StreamPosition, StreamBlock' = StreamBlock
  PROVE  AsStream!Next \/ UNCHANGED AsStream!vars
<1>1. CASE StreamPhase' = "opening"
  BY <1>1 DEF AsStream!vars
<1>2. CASE StreamPhase' \in {"open", "refused", "failed"}
  <2>1. AsStream!Open
    BY <1>2 DEF AsStream!Open
  <2> QED
    BY <2>1 DEF AsStream!Next
<1> QED
  BY <1>1, <1>2
-------------------------------------------------------------------------------
(***************************************************************************)
(* The DSF reader: its invariant.                                          *)
(***************************************************************************)
DsfAtRest ==
  \E g, b, bit, ch : DsfPlace(g, b, bit, ch) /\ reader = DsfReader(g, b, bit, ch, "on", <<>>)

DsfInv ==
  /\ file \in DsfFiles
  /\ status \in {"opening", "open", "refused", "failed"}
  /\ DsfAtRest
  /\ status = "opening" => Dsf!Position = 0
  /\ status = "open" /\ block = <<>> =>
       Dsf!Position = 0 \/ (Dsf!Complete /\ Dsf!Position = DsfLength)

LEMMA DsfStart ==
  ASSUME file \in DsfFiles
  PROVE  /\ DsfPlace(0, Dsf!blockSize, 0, 0)
         /\ Dsf!AtStart = DsfReader(0, Dsf!blockSize, 0, 0, "on", <<>>)
         /\ DsfSample(0, Dsf!blockSize, 0, 0) = 0
<1>1. /\ Dsf!blockSize \in Nat \ {0} /\ Dsf!numChannels \in Nat \ {0} /\ Dsf!WholeGroups \in Nat
      /\ Dsf!groupSize \in Nat /\ Dsf!startOfData \in Nat
  BY DsfTypes, DsfGroups
<1>2. DsfPlace(0, Dsf!blockSize, 0, 0)
  BY <1>1 DEF DsfPlace
<1>3. Dsf!startOfData + 0 * Dsf!groupSize = Dsf!startOfData
  BY <1>1
<1>4. Dsf!AtStart = DsfReader(0, Dsf!blockSize, 0, 0, "on", <<>>)
  BY <1>3 DEF Dsf!AtStart, DsfReader, DsfRecord, DsfBuffer
<1>5. DsfSample(0, Dsf!blockSize, 0, 0) = 8 * Dsf!groupSize * 0
  BY <1>2, DsfNextGroup
<1> QED
  BY <1>1, <1>2, <1>4, <1>5

LEMMA DsfInit == Dsf!Init => DsfInv
<1> SUFFICES ASSUME Dsf!Init PROVE DsfInv
  OBVIOUS
<1>1. file \in DsfFiles /\ status = "opening" /\ reader = Dsf!AtStart
  BY DEF Dsf!Init
<1>2. DsfAtRest /\ Dsf!Position = 0
  BY <1>1, DsfStart, DsfPosition DEF DsfAtRest
<1> QED
  BY <1>1, <1>2 DEF DsfInv

\* At rest the state is that of a place.
DsfRestIs ==
  \A g, b, bit, ch :
    /\ file \in DsfFiles /\ DsfPlace(g, b, bit, ch)
    /\ reader = DsfReader(g, b, bit, ch, "on", <<>>)
    => DsfAtRest /\ Dsf!Position = DsfSample(g, b, bit, ch)

LEMMA DsfRest == DsfRestIs
BY DsfPosition DEF DsfAtRest, DsfRestIs

LEMMA DsfRestNext ==
  ASSUME file \in DsfFiles, file' = file, reversed' = reversed,
         NEW g, NEW b, NEW bit, NEW ch, DsfPlace(g, b, bit, ch),
         reader' = DsfReader(g, b, bit, ch, "on", <<>>)
  PROVE  DsfAtRest' /\ Dsf!Position' = DsfSample(g, b, bit, ch)
<1>1. /\ DsfPlace(g, b, bit, ch)' /\ reader' = DsfReader(g, b, bit, ch, "on", <<>>)'
      /\ (file \in DsfFiles)' /\ DsfSample(g, b, bit, ch)' = DsfSample(g, b, bit, ch)
  BY DsfSame
<1>2. DsfRestIs'
  BY DsfRest, PTL
<1> QED
  BY <1>1, <1>2 DEF DsfRestIs

\* What SampleStream is about, for this reader.
LEMMA DsfAsStream ==
  ASSUME kind = "dsf", status \in {"opening", "open", "refused", "failed"}
  PROVE  /\ StreamPhase = status /\ StreamSamples = Dsf!Stream
         /\ StreamComplete <=> Dsf!Complete
         /\ StreamPosition = Dsf!Position /\ StreamBlock = block
BY DEF StreamPhase, StreamSamples, StreamComplete, StreamPosition, StreamBlock

\* What a step has to leave behind it.
LEMMA DsfInvNext ==
  ASSUME file \in DsfFiles, file' = file, reversed' = reversed,
         NEW g, NEW b, NEW bit, NEW ch, DsfPlace(g, b, bit, ch),
         reader' = DsfReader(g, b, bit, ch, "on", <<>>),
         status' \in {"opening", "open", "refused", "failed"},
         status' = "opening" => DsfSample(g, b, bit, ch) = 0,
         status' = "open" /\ block' = <<>> =>
           DsfSample(g, b, bit, ch) = 0 \/ (Dsf!Complete /\ DsfSample(g, b, bit, ch) = DsfLength)
  PROVE  DsfInv' /\ Dsf!Position' = DsfSample(g, b, bit, ch)
<1>1. DsfAtRest' /\ Dsf!Position' = DsfSample(g, b, bit, ch)
  BY DsfRestNext
<1>2. (Dsf!Complete' <=> Dsf!Complete) /\ DsfLength' = DsfLength /\ file' \in DsfFiles
  BY DsfSame
<1>3. status' = "open" /\ block' = <<>> =>
        Dsf!Position' = 0 \/ (Dsf!Complete' /\ Dsf!Position' = DsfLength')
  BY <1>1, <1>2
<1>4. status' = "opening" => Dsf!Position' = 0
  BY <1>1
<1>5. DsfFiles' = DsfFiles
  OBVIOUS
<1> QED
  BY ONLY status' \in {"opening", "open", "refused", "failed"}, <1>1, <1>2, <1>3, <1>4, <1>5, Zenon DEF DsfInv

\* What comes of a read of n samples.
DsfHasRead(s, p, n, g, b, bit, ch, k) ==
  /\ DsfPlace(g, b, bit, ch)
  /\ k \in 0 .. DsfLength - p
  /\ DsfSample(g, b, bit, ch) = p + k
  /\ DsfRested(s, "on", <<>>) = DsfReader(g, b, bit, ch, "on", <<>>)
  /\ s.out = SubSeq(DsfHeard, p + 1, p + k)
  /\ \/ s.loop # "thrown" /\ k = n
     \/ s.loop # "thrown" /\ k < n /\ p + k = DsfLength /\ Dsf!Complete
     \/ s.loop = "thrown" /\ k < n /\ p + k = DsfLength /\ ~Dsf!Complete

LEMMA DsfReadIs ==
  ASSUME NEW s, NEW p, NEW n, DsfGot(s, p, n)
  PROVE  \E g, b, bit, ch, k : DsfHasRead(s, p, n, g, b, bit, ch, k)
<1>1. PICK g, b, bit, ch, k :
        /\ DsfPlace(g, b, bit, ch)
        /\ k \in 0 .. DsfLength - p
        /\ DsfSample(g, b, bit, ch) = p + k
        /\ \/ /\ k = n
              /\ s = DsfReader(g, b, bit, ch, "on", SubSeq(DsfHeard, p + 1, p + k))
           \/ /\ k < n /\ p + k = DsfLength
              /\ s = DsfReader(g, b, bit, ch, IF Dsf!Complete THEN "over" ELSE "thrown",
                               SubSeq(DsfHeard, p + 1, p + k))
  BY DEF DsfGot
<1> DEFINE out == SubSeq(DsfHeard, p + 1, p + k)
<1> HIDE DEF out
<1>2. ASSUME NEW loop, s = DsfReader(g, b, bit, ch, loop, out)
      PROVE  /\ s.loop = loop /\ s.out = out
             /\ DsfRested(s, "on", <<>>) = DsfReader(g, b, bit, ch, "on", <<>>)
  <2> DEFINE P == Dsf!startOfData + g * Dsf!groupSize
             M == DsfBuffer(g)
  <2>1. s = DsfRecord(P, M, b, bit, ch, loop, out)
    BY <1>2 DEF DsfReader
  <2>2. DsfReader(g, b, bit, ch, "on", <<>>) = DsfRecord(P, M, b, bit, ch, "on", <<>>)
    BY DEF DsfReader
  <2> HIDE DEF P, M
  <2>3. s.loop = loop /\ s.out = out
    BY <2>1, DsfFields
  <2>4. DsfRested(s, "on", <<>>) = DsfRecord(P, M, b, bit, ch, "on", <<>>)
    BY <2>1, DsfRestedIs
  <2> QED
    BY <2>2, <2>3, <2>4
<1>3. CASE k = n /\ s = DsfReader(g, b, bit, ch, "on", out)
  <2>1. s.loop = "on" /\ s.out = out /\ DsfRested(s, "on", <<>>) = DsfReader(g, b, bit, ch, "on", <<>>)
    BY <1>2, <1>3
  <2>2. DsfHasRead(s, p, n, g, b, bit, ch, k)
    BY <1>1, <1>3, <2>1 DEF DsfHasRead, out
  <2> QED
    BY <2>2
<1>4. CASE k < n /\ p + k = DsfLength /\ Dsf!Complete /\ s = DsfReader(g, b, bit, ch, "over", out)
  <2>1. s.loop = "over" /\ s.out = out /\ DsfRested(s, "on", <<>>) = DsfReader(g, b, bit, ch, "on", <<>>)
    BY <1>2, <1>4
  <2>2. DsfHasRead(s, p, n, g, b, bit, ch, k)
    BY <1>1, <1>4, <2>1 DEF DsfHasRead, out
  <2> QED
    BY <2>2
<1>5. CASE k < n /\ p + k = DsfLength /\ ~Dsf!Complete /\ s = DsfReader(g, b, bit, ch, "thrown", out)
  <2>1. s.loop = "thrown" /\ s.out = out /\ DsfRested(s, "on", <<>>) = DsfReader(g, b, bit, ch, "on", <<>>)
    BY <1>2, <1>5
  <2>2. DsfHasRead(s, p, n, g, b, bit, ch, k)
    BY <1>1, <1>5, <2>1 DEF DsfHasRead, out
  <2> QED
    BY <2>2
<1> QED
  BY <1>1, <1>3, <1>4, <1>5 DEF out

LEMMA DsfStepIs ==
  ASSUME kind = "dsf", kind' = "dsf", DsfInv, Dsf!Next
  PROVE  DsfInv' /\ (PlaysInOrder => AsStream!Next \/ UNCHANGED AsStream!vars)
<1>1. file' = file /\ reversed' = reversed
  BY DEF Dsf!Next, Dsf!Open, Dsf!Read, Dsf!Seek
<1>2. PICK g, b, bit, ch :
        DsfPlace(g, b, bit, ch) /\ reader = DsfReader(g, b, bit, ch, "on", <<>>)
  BY DEF DsfInv, DsfAtRest
<1> DEFINE p == DsfSample(g, b, bit, ch)
           L == DsfLength
           S == Dsf!Stream
           H == DsfHeard
<1>3. file \in DsfFiles /\ Dsf!Position = p /\ p \in 0 .. L /\ L \in Nat
      /\ Len(S) = L /\ Len(H) = L
  BY <1>2, DsfPosition, DsfSamples, DsfStreamIs DEF DsfInv
<1>4. S' = S /\ (Dsf!Complete' <=> Dsf!Complete)
  BY <1>1, DsfSame
<1> Dsf!Complete \in BOOLEAN
  BY DEF Dsf!Complete
<1>5. /\ StreamPhase = status /\ StreamSamples = S
      /\ StreamComplete <=> Dsf!Complete
      /\ StreamPosition = p /\ StreamBlock = block
  BY <1>3, DsfAsStream DEF DsfInv
<1>6. status' \in {"opening", "open", "refused", "failed"} =>
        /\ StreamPhase' = status' /\ StreamSamples' = S
        /\ StreamPosition' = Dsf!Position' /\ StreamBlock' = block'
  BY <1>4 DEF StreamPhase, StreamSamples, StreamPosition, StreamBlock
<1>7. StreamComplete' = StreamComplete
  BY <1>4 DEF StreamComplete
<1>8. CASE Dsf!Open
  <2>1. /\ status = "opening" /\ status' \in {"open", "refused"}
        /\ reader' = reader /\ block' = block /\ p = 0
    BY <1>3, <1>8 DEF Dsf!Open, DsfInv
  <2>2. DsfInv' /\ Dsf!Position' = p
    <3>1. status' = "open" /\ block' = <<>> => p = 0 \/ (Dsf!Complete /\ p = L)
      BY <2>1
    <3>2. status' \in {"opening", "open", "refused", "failed"} /\ (status' = "opening" => p = 0)
      BY <2>1
    <3>3. reader' = DsfReader(g, b, bit, ch, "on", <<>>)
      BY <1>2, <2>1
    <3> QED
      BY <1>1, <1>2, <1>3, <3>1, <3>2, <3>3, DsfInvNext
  <2> HIDE DEF S, L
  <2> HIDE DEF p
  <2>3. /\ StreamPhase = "opening" /\ StreamPhase' \in {"opening", "open", "refused", "failed"}
        /\ StreamSamples' = StreamSamples /\ StreamPosition' = StreamPosition
        /\ StreamBlock' = StreamBlock
    BY <1>5, <1>6, <2>1, <2>2
  <2> QED
    BY <1>7, <2>2, <2>3, OpeningIsOpen
<1>9. ASSUME NEW n \in ReadSizes, Dsf!Read(n)
      PROVE  DsfInv' /\ (PlaysInOrder => AsStream!Next)
  <2> DEFINE s == Dsf!AfterRead(n)
  <2>1. n \in Nat /\ n # 0
    BY InputFileAssumption
  <2>2. DsfGot(s, p, n)
    BY <1>2, <1>3, <2>1, DsfReads
  <2>3. /\ status = "open" /\ reader' = DsfRested(s, "on", <<>>)
        /\ status' = IF s.loop = "thrown" THEN "failed" ELSE status
        /\ block' = IF s.loop = "thrown" THEN block ELSE s.out
    BY <1>9 DEF Dsf!Read, DsfRested
  <2> HIDE DEF s
  <2>4. PICK g2, b2, bit2, ch2, k : DsfHasRead(s, p, n, g2, b2, bit2, ch2, k)
    BY <2>2, DsfReadIs
  <2> DEFINE got == SubSeq(H, p + 1, p + k)
             q == DsfSample(g2, b2, bit2, ch2)
  <2>5. /\ DsfPlace(g2, b2, bit2, ch2) /\ k \in 0 .. L - p /\ q = p + k
        /\ reader' = DsfReader(g2, b2, bit2, ch2, "on", <<>>)
        /\ s.out = got
        /\ \/ s.loop # "thrown" /\ k = n
           \/ s.loop # "thrown" /\ k < n /\ p + k = L /\ Dsf!Complete
           \/ s.loop = "thrown" /\ k < n /\ p + k = L /\ ~Dsf!Complete
    BY <2>3, <2>4 DEF DsfHasRead
  <2>6. got = <<>> => k = 0
    <3> HIDE DEF p, L
    <3>1. k \in Nat /\ p \in Nat /\ p + k <= L
      BY <1>3, <2>5
    <3>2. H \in Seq({DsfPlayed(i - 1) : i \in 1 .. L})
      BY <1>3, DsfSamples DEF L
    <3> HIDE DEF H
    <3> QED
      BY <1>3, <3>1, <3>2, DeliveredNothing
  <2>7. (status' = "open" /\ block' = got) \/ (status' = "failed" /\ block' = block)
    <3> HIDE DEF got
    <3> QED
      BY <2>3, <2>5
  <2>8. DsfInv' /\ Dsf!Position' = p + k
    <3>1. status' = "open" /\ block' = <<>> => Dsf!Complete /\ q = L
      <4> HIDE DEF got, S, H, L, q, p
      <4> QED
        BY <2>1, <2>3, <2>5, <2>6
    <3>2. status' \in {"opening", "open", "refused", "failed"} /\ status' # "opening"
      BY <2>7
    <3>3. DsfInv' /\ Dsf!Position' = q
      BY <1>1, <1>3, <2>5, <3>1, <3>2, DsfInvNext
    <3> QED
      BY <2>5, <3>3
  <2>9. /\ StreamPhase = "open" /\ StreamSamples' = StreamSamples
        /\ StreamPosition' = StreamPosition + k /\ StreamPosition \in Nat
        /\ Len(StreamSamples) = L /\ Len(StreamSamples) \in Nat
        /\ StreamPhase' = status' /\ StreamBlock' = block'
    BY <1>3, <1>5, <1>6, <2>3, <2>7, <2>8
  <2> HIDE DEF p, q, got, L, S, H
  <2>10. k \in Nat /\ StreamPosition + k <= Len(StreamSamples)
    BY <1>3, <1>5, <2>5, <2>9
  <2>11. CASE s.loop # "thrown"
    <3>1. k = n \/ (k < n /\ StreamPosition + k = Len(StreamSamples) /\ StreamComplete)
      <4>1. k = n \/ (k < n /\ p + k = L /\ Dsf!Complete)
        BY <2>5, <2>11
      <4> QED
        BY <1>5, <2>9, <4>1
    <3>2. StreamPhase' = "open" /\ StreamBlock' = got
      BY <2>3, <2>5, <2>9, <2>11
    <3>3. PlaysInOrder => got = SubSeq(StreamSamples, StreamPosition + 1, StreamPosition + k)
      <4>1. PlaysInOrder => H = S
        BY DsfInOrder DEF PlaysInOrder, H, S
      <4> QED
        BY <1>5, <4>1 DEF got
    <3> QED
      BY <1>7, <2>8, <2>9, <2>10, <3>1, <3>2, <3>3, DeliveryIsRead
  <2>12. CASE s.loop = "thrown"
    <3>1. k < n /\ StreamPosition + k = Len(StreamSamples) /\ ~StreamComplete
      BY <1>5, <2>5, <2>9, <2>12
    <3>2. StreamPhase' = "failed" /\ StreamBlock' = StreamBlock
      BY <1>5, <2>3, <2>9, <2>12
    <3> QED
      BY <1>7, <2>8, <2>9, <2>10, <3>1, <3>2, FailureIsReadFails
  <2> QED
    BY <2>11, <2>12
<1>10. CASE Dsf!Seek
  <2>1. status = "open" /\ status' = "open" /\ reader' = Dsf!AtStart /\ block' = <<>>
    BY <1>10 DEF Dsf!Seek
  <2> DEFINE bs == Dsf!blockSize
  <2>2. /\ DsfPlace(0, bs, 0, 0) /\ reader' = DsfReader(0, bs, 0, 0, "on", <<>>)
        /\ DsfSample(0, bs, 0, 0) = 0
    BY <1>3, <2>1, DsfStart
  <2> HIDE DEF bs
  <2>3. DsfInv' /\ Dsf!Position' = 0
    <3> DEFINE q == DsfSample(0, bs, 0, 0)
    <3>1. status' = "open" /\ block' = <<>> => q = 0 \/ (Dsf!Complete /\ q = L)
      BY <2>2
    <3>2. status' \in {"opening", "open", "refused", "failed"} /\ (status' = "opening" => q = 0)
      BY <2>1
    <3>3. DsfInv' /\ Dsf!Position' = q
      BY <1>1, <1>3, <2>2, <3>1, <3>2, DsfInvNext
    <3> QED
      BY <2>2, <3>3
  <2> HIDE DEF S, L, p
  <2>4. /\ StreamPhase = "open" /\ StreamPhase' = "open" /\ StreamSamples' = StreamSamples
        /\ StreamPosition' = 0 /\ StreamBlock' = <<>>
    BY <1>5, <1>6, <2>1, <2>3
  <2> QED
    BY <1>7, <2>3, <2>4, SeekIsRewind
<1> QED
  BY <1>8, <1>9, <1>10 DEF Dsf!Next
-------------------------------------------------------------------------------
(***************************************************************************)
(* The DSDIFF reader: the way to the sound data.                           *)
(***************************************************************************)
Chunks    == 1 .. Len(file.chunks)
Places    == 1 .. Len(file.chunks) + 1
EndOf(p)  == Dff!Place[p] + Dff!SizeOfHeader + file.chunks[p].size
SizeIn(c) == IF c.id = "PROP" THEN Dff!SizeOfPropType ELSE c.size

\* The places of the chunks are well-defined.
PlacesTo(n, f) ==
  [k \in 1 .. n |-> IF k = 1 THEN Dff!SizeOfForm ELSE f[k - 1] + Dff!SizeOfHeader + SizeIn(file.chunks[k - 1])]

LEMMA PlacesExist == \A n \in Nat : \E f : f = PlacesTo(n, f)
<1> DEFINE S == {n \in Nat : \E f : f = PlacesTo(n, f)}
<1>1. 0 \in S
  <2> DEFINE f == [k \in 1 .. 0 |-> 0]
  <2>1. f = PlacesTo(0, f)
    <3>1. 1 .. 0 = {}
      OBVIOUS
    <3> QED
      BY <3>1 DEF PlacesTo
  <2> QED
    BY <2>1
<1>2. ASSUME NEW n \in Nat, n \in S PROVE n + 1 \in S
  <2>1. PICK f : f = PlacesTo(n, f)
    BY <1>2
  <2> DEFINE At(g, k) == IF k = 1 THEN Dff!SizeOfForm ELSE g[k - 1] + Dff!SizeOfHeader + SizeIn(file.chunks[k - 1])
             h == [k \in 1 .. n + 1 |-> IF k = n + 1 THEN At(f, k) ELSE f[k]]
  <2>2. \A k \in 1 .. n : f[k] = At(f, k)
    BY <2>1 DEF PlacesTo
  <2>3. ASSUME NEW k \in 1 .. n + 1 PROVE h[k] = At(h, k)
    <3>1. h[k] = At(f, k)
      BY <2>2
    <3>2. k # 1 => k - 1 \in 1 .. n + 1 /\ k - 1 # n + 1
      OBVIOUS
    <3>3. k # 1 => h[k - 1] = f[k - 1]
      BY <3>2
    <3> HIDE DEF h
    <3> QED
      BY <3>1, <3>3
  <2>4. h = [k \in 1 .. n + 1 |-> h[k]]
    OBVIOUS
  <2> HIDE DEF h
  <2>5. h = PlacesTo(n + 1, h)
    BY <2>3, <2>4 DEF PlacesTo
  <2> QED
    BY <2>5
<1> HIDE DEF S
<1>3. Nat \subseteq S
  BY <1>1, <1>2, InductiveSet
<1> QED
  BY <1>3 DEF S

LEMMA PlaceIs ==
  ASSUME file \in DffFiles
  PROVE  /\ Len(file.chunks) \in Nat
         /\ Dff!Place[1] = Dff!SizeOfForm
         /\ \A k \in Chunks : Dff!Place[k + 1] = Dff!Place[k] + Dff!SizeOfHeader + SizeIn(file.chunks[k])
<1> DEFINE n == Len(file.chunks) + 1
           f == CHOOSE g : g = PlacesTo(n, g)
<1>1. DffLayout(file)
  BY InputFileAssumption
<1>2. Len(file.chunks) \in Nat /\ n \in Nat
  BY <1>1 DEF DffLayout
<1>3. Dff!Place = f
  <2>1. \A g : PlacesTo(n, g) =
               [k \in 1 .. n |-> IF k = 1 THEN Dff!SizeOfForm
                                ELSE g[k - 1] + Dff!SizeOfHeader
                                       + IF file.chunks[k - 1].id = "PROP" THEN Dff!SizeOfPropType
                                         ELSE file.chunks[k - 1].size]
    BY DEF PlacesTo, SizeIn
  <2> QED
    BY <2>1 DEF Dff!Place, Dff!PlaceIn
<1>4. f = PlacesTo(n, f)
  BY <1>2, PlacesExist
<1> HIDE DEF f
<1>5. \A k \in 1 .. n : f[k] = IF k = 1 THEN Dff!SizeOfForm ELSE f[k - 1] + Dff!SizeOfHeader + SizeIn(file.chunks[k - 1])
  BY <1>4 DEF PlacesTo
<1>6. 1 \in 1 .. n
  BY <1>2
<1>7. ASSUME NEW k \in Chunks
      PROVE  f[k + 1] = f[k] + Dff!SizeOfHeader + SizeIn(file.chunks[k])
  <2>1. k + 1 \in 1 .. n /\ k + 1 # 1 /\ (k + 1) - 1 = k
    BY <1>2 DEF Chunks
  <2> QED
    BY <1>5, <2>1
<1> QED
  BY <1>2, <1>3, <1>5, <1>6, <1>7

\* One after another.
LEMMA PlacesRise ==
  ASSUME file \in DffFiles
  PROVE  /\ \A k \in Places : Dff!Place[k] \in Nat
         /\ \A j, k \in Places : j < k => Dff!Place[j] < Dff!Place[k]
<1>1. DffLayout(file) /\ Len(file.chunks) \in Nat
  BY InputFileAssumption, PlaceIs
<1>2. \A k \in Chunks : SizeIn(file.chunks[k]) \in Nat
  BY <1>1 DEF DffLayout, Chunks, SizeIn, Dff!SizeOfPropType
<1> DEFINE P(k) == Dff!Place[k]
           S == {n \in Nat : n \in Chunks =>
                   P(n + 1) \in Nat /\ \A j \in 1 .. n : P(j) \in Nat /\ P(j) < P(n + 1)}
<1>3. P(1) = 16 /\ \A k \in Chunks : P(k + 1) = P(k) + 12 + SizeIn(file.chunks[k])
  BY PlaceIs DEF Dff!SizeOfForm, Dff!SizeOfHeader
<1> HIDE DEF P
<1>4. 0 \in S
  BY <1>1 DEF Chunks
<1>5. ASSUME NEW n \in Nat, n \in S PROVE n + 1 \in S
  <2> SUFFICES ASSUME n + 1 \in Chunks
               PROVE  /\ P(n + 1 + 1) \in Nat
                      /\ \A j \in 1 .. n + 1 : P(j) \in Nat /\ P(j) < P(n + 1 + 1)
    OBVIOUS
  <2>1. P(n + 1) \in Nat /\ \A j \in 1 .. n : P(j) \in Nat /\ P(j) < P(n + 1)
    <3>1. CASE n = 0
      BY <1>3, <3>1
    <3>2. CASE n # 0
      <4>1. n \in Chunks
        BY <1>1, <3>2 DEF Chunks
      <4>2. P(n + 1) \in Nat /\ \A j \in 1 .. n : P(j) \in Nat /\ P(j) < P(n + 1)
        BY <1>5, <4>1
      <4> QED
        BY <4>2
    <3> QED
      BY <3>1, <3>2
  <2>2. P(n + 1 + 1) = P(n + 1) + 12 + SizeIn(file.chunks[n + 1])
    BY <1>3
  <2> QED
    BY <1>2, <2>1, <2>2
<1> HIDE DEF S
<1>6. Nat \subseteq S
  BY <1>4, <1>5, InductiveSet
<1>7. ASSUME NEW k \in Places, k # 1
      PROVE  P(k) \in Nat /\ \A j \in 1 .. k - 1 : P(j) < P(k)
  <2>1. k - 1 \in Chunks /\ k - 1 \in Nat /\ (k - 1) + 1 = k
    BY <1>1, <1>7 DEF Places, Chunks
  <2> QED
    BY <1>6, <2>1 DEF S
<1>8. \A k \in Places : P(k) \in Nat
  BY <1>3, <1>7
<1>9. ASSUME NEW j \in Places, NEW k \in Places, j < k PROVE P(j) < P(k)
  BY <1>1, <1>7, <1>9 DEF Places
<1> QED
  BY <1>8, <1>9 DEF P

Id(k) == file.chunks[k].id

\* The properties that chunk p holds go on to chunk q.
Holds(p, q) ==
  /\ p \in Chunks /\ Id(p) = "PROP" /\ q \in p + 1 .. Len(file.chunks)
  /\ Dff!Place[q + 1] = EndOf(p)

\* What the layout says of a chunk.
LEMMA DffChunk ==
  ASSUME file \in DffFiles, NEW k \in Chunks
  PROVE  /\ file.chunks[k].size \in Nat
         /\ Id(k) = "FVER" => file.chunks[k].size = 4
         /\ Id(k) \notin {"PROP", "DSD"} =>
              \/ Dff!Consumed(file.chunks[k]) = file.chunks[k].size
              \/ Id(k) = "CHNL" /\ file.channels > Dff!MaxChannels
         /\ Id(k) = "CHNL" => file.chunks[k].channels = file.channels /\ Dff!IsProperty(k)
         /\ Id(k) = "PROP" =>
              /\ \A j \in Chunks : Id(j) = "PROP" => j = k
              /\ \E q : Holds(k, q) /\ \A j \in k + 1 .. q : Id(j) \notin {"PROP", "DSD"}
         /\ Id(k) = "DSD" =>
              /\ \A j \in Chunks : Id(j) = "DSD" => j = k
              /\ \E j \in 1 .. k - 1 : Id(j) = "CHNL"
              /\ file.chunks[k].size % file.channels = 0
              /\ file.size >= Dff!Place[k] + Dff!SizeOfHeader
<1> DEFINE c == file.chunks[k]
<1>1. DffLayout(file)
  BY InputFileAssumption
<1>2. Dff!PlaceIn(file) = Dff!Place
  BY DEF Dff!Place
<1>3. /\ c.size \in Nat
      /\ c.id = "FVER" => c.size = 4
      /\ c.id \notin {"PROP", "DSD"} =>
           \/ Dff!Consumed(c) = c.size
           \/ c.id = "CHNL" /\ file.channels > Dff!MaxChannels
  BY <1>1 DEF DffLayout, Chunks
<1>4. c.id = "CHNL" =>
        /\ c.channels = file.channels
        /\ \E p \in 1 .. k - 1 :
             file.chunks[p].id = "PROP"
             /\ Dff!Place[k] < Dff!Place[p] + Dff!SizeOfHeader + file.chunks[p].size
  BY <1>1, <1>2 DEF DffLayout, Chunks
<1>5. c.id = "PROP" =>
        /\ \A j \in Chunks : file.chunks[j].id = "PROP" => j = k
        /\ \E q \in k + 1 .. Len(file.chunks) :
             /\ Dff!Place[q + 1] = Dff!Place[k] + Dff!SizeOfHeader + c.size
             /\ \A j \in k + 1 .. q : file.chunks[j].id \notin {"PROP", "DSD"}
  BY <1>1, <1>2 DEF DffLayout, Chunks
<1>6. c.id = "DSD" =>
        /\ \A j \in Chunks : file.chunks[j].id = "DSD" => j = k
        /\ \E j \in 1 .. k - 1 : file.chunks[j].id = "CHNL"
        /\ c.size % file.channels = 0
        /\ file.size >= Dff!Place[k] + Dff!SizeOfHeader
  BY <1>1, <1>2 DEF DffLayout, Chunks
<1>7. Id(k) = "CHNL" => file.chunks[k].channels = file.channels /\ Dff!IsProperty(k)
  BY <1>4 DEF Dff!IsProperty, Id
<1>8. Id(k) = "PROP" =>
        /\ \A j \in Chunks : Id(j) = "PROP" => j = k
        /\ \E q : Holds(k, q) /\ \A j \in k + 1 .. q : Id(j) \notin {"PROP", "DSD"}
  <2> SUFFICES ASSUME Id(k) = "PROP"
               PROVE  /\ \A j \in Chunks : Id(j) = "PROP" => j = k
                      /\ \E q : Holds(k, q) /\ \A j \in k + 1 .. q : Id(j) \notin {"PROP", "DSD"}
    OBVIOUS
  <2>1. \A j \in Chunks : Id(j) = "PROP" => j = k
    BY <1>5 DEF Id
  <2>2. PICK q \in k + 1 .. Len(file.chunks) :
          /\ Dff!Place[q + 1] = Dff!Place[k] + Dff!SizeOfHeader + c.size
          /\ \A j \in k + 1 .. q : file.chunks[j].id \notin {"PROP", "DSD"}
    BY <1>5 DEF Id
  <2>3. Holds(k, q)
    BY <2>2 DEF Id, Holds, EndOf
  <2>4. \A j \in k + 1 .. q : Id(j) \notin {"PROP", "DSD"}
    BY <2>2 DEF Id
  <2> QED
    BY <2>1, <2>3, <2>4, Zenon
<1> QED
  BY <1>3, <1>6, <1>7, <1>8 DEF Id

\* A property is a chunk within that of the properties.
LEMMA PropertyIs ==
  ASSUME file \in DffFiles, NEW p, NEW q, Holds(p, q), NEW k \in Places
  PROVE  Dff!IsProperty(k) <=> k \in p + 1 .. q
<1>1. /\ p \in Chunks /\ Id(p) = "PROP" /\ q \in p + 1 .. Len(file.chunks)
      /\ Dff!Place[q + 1] = EndOf(p) /\ Len(file.chunks) \in Nat
  BY PlaceIs DEF Holds
<1>2. \A j \in Chunks : Id(j) = "PROP" => j = p
  BY <1>1, DffChunk
<1>3. Dff!IsProperty(k) <=> p \in 1 .. k - 1 /\ Dff!Place[k] < Dff!Place[q + 1]
  <2>1. Dff!IsProperty(k) <=> \E j \in 1 .. k - 1 : Id(j) = "PROP" /\ Dff!Place[k] < EndOf(j)
    BY DEF Dff!IsProperty, Id, EndOf
  <2>2. \A j \in 1 .. k - 1 : j \in Chunks
    BY <1>1 DEF Chunks, Places
  <2>3. (\E j \in 1 .. k - 1 : Id(j) = "PROP" /\ Dff!Place[k] < EndOf(j))
          <=> p \in 1 .. k - 1 /\ Dff!Place[k] < EndOf(p)
    BY <1>1, <1>2, <2>2, Zenon
  <2> QED
    BY <1>1, <2>1, <2>3, Zenon
<1>4. q + 1 \in Places /\ k \in Nat /\ p \in Nat /\ p >= 1 /\ q \in Nat
  BY <1>1 DEF Places, Chunks
<1>5. Dff!Place[k] < Dff!Place[q + 1] <=> k <= q
  <2>1. /\ k < q + 1 => Dff!Place[k] < Dff!Place[q + 1]
        /\ q + 1 < k => Dff!Place[q + 1] < Dff!Place[k]
        /\ Dff!Place[k] \in Nat /\ Dff!Place[q + 1] \in Nat
    BY <1>4, PlacesRise
  <2>2. k < q + 1 \/ k = q + 1 \/ q + 1 < k
    BY <1>4
  <2> QED
    BY <1>4, <2>1, <2>2
<1> QED
  BY <1>3, <1>4, <1>5

\* On the way.
DffWalk(k) ==
  /\ k \in Places /\ filePos = Dff!Place[k]
  /\ (\E j \in 1 .. k - 1 : Id(j) = "CHNL") => numChannels = file.channels
  /\ status = "chunks" => ~Dff!IsProperty(k)
  /\ status = "props" =>
       \E p, q : Holds(p, q) /\ k \in p + 1 .. q /\ dataRemaining = EndOf(p) - Dff!Place[k]

LEMMA HereIs ==
  ASSUME file \in DffFiles, NEW k, DffWalk(k)
  PROVE  \A j \in Dff!Here : j = k /\ j \in Chunks
<1> SUFFICES ASSUME NEW j \in Dff!Here PROVE j = k /\ j \in Chunks
  OBVIOUS
<1>1. j \in Chunks /\ Dff!Place[j] = filePos
  BY DEF Dff!Here, Chunks
<1>2. k \in Places /\ Dff!Place[k] = filePos /\ Len(file.chunks) \in Nat
  BY PlaceIs DEF DffWalk
<1>3. j \in Places /\ j \in Nat /\ k \in Nat
  BY <1>1, <1>2 DEF Chunks, Places
<1>4. /\ j < k => Dff!Place[j] < Dff!Place[k]
      /\ k < j => Dff!Place[k] < Dff!Place[j]
      /\ Dff!Place[k] \in Nat
  BY <1>2, <1>3, PlacesRise
<1> QED
  BY <1>1, <1>2, <1>3, <1>4

LEMMA WalkStarts ==
  ASSUME file \in DffFiles, file' = file, filePos' = Dff!SizeOfForm, status' = "chunks"
  PROVE  DffWalk(1)'
<1>1. 1 \in Places /\ Dff!Place[1] = Dff!SizeOfForm
  BY PlaceIs DEF Places
<1>2. Places' = Places /\ Dff!Place' = Dff!Place /\ (\A k : Id(k)' = Id(k))
      /\ (\A k : Dff!IsProperty(k)' <=> Dff!IsProperty(k))
  BY DEF Places, Dff!Place, Id, Dff!IsProperty
<1>3. ~Dff!IsProperty(1) /\ ~\E j \in 1 .. 0 : Id(j) = "CHNL"
  BY DEF Dff!IsProperty
<1> QED
  BY <1>1, <1>2, <1>3 DEF DffWalk

\* The next chunk.
LEMMA WalkGoesOn ==
  ASSUME file \in DffFiles, file' = file, NEW k \in Chunks, DffWalk(k),
         filePos' = filePos + Dff!SizeOfHeader + SizeIn(file.chunks[k]),
         Id(k) = "CHNL" => numChannels' = file.channels,
         Id(k) # "CHNL" => numChannels' = numChannels,
         numChannels' \in {numChannels, file.channels},
         status' = "chunks" => ~Dff!IsProperty(k + 1),
         status' = "props" =>
           \E p, q : Holds(p, q) /\ k + 1 \in p + 1 .. q
                     /\ dataRemaining' = EndOf(p) - Dff!Place[k + 1]
  PROVE  DffWalk(k + 1)'
<1>1. /\ Places' = Places /\ Dff!Place' = Dff!Place /\ (\A j : Id(j)' = Id(j))
      /\ (\A j : Dff!IsProperty(j)' <=> Dff!IsProperty(j))
      /\ (\A p, q : Holds(p, q)' <=> Holds(p, q)) /\ (\A p : EndOf(p)' = EndOf(p))
      /\ file'.channels = file.channels
  BY DEF Places, Dff!Place, Id, Dff!IsProperty, Holds, EndOf, Chunks
<1>2. k + 1 \in Places /\ k \in Nat
  BY PlaceIs DEF Places, Chunks
<1>3. filePos' = Dff!Place[k + 1]
  BY PlaceIs DEF DffWalk
<1>4. ASSUME NEW j \in 1 .. k, Id(j) = "CHNL" PROVE numChannels' = file.channels
  <2>1. CASE j = k
    BY <1>4, <2>1
  <2>2. CASE j # k
    <3>1. j \in 1 .. k - 1
      BY <1>2, <2>2
    <3>2. numChannels = file.channels
      BY <1>4, <3>1 DEF DffWalk
    <3> QED
      BY <3>2
  <2> QED
    BY <2>1, <2>2
<1>5. (\E j \in 1 .. (k + 1) - 1 : Id(j) = "CHNL") => numChannels' = file.channels
  BY <1>2, <1>4
<1> QED
  BY <1>1, <1>2, <1>3, <1>5 DEF DffWalk

LEMMA SoundDataIs ==
  ASSUME file \in DffFiles, NEW k \in Chunks, Id(k) = "DSD"
  PROVE  Dff!Start = Dff!Place[k] + Dff!SizeOfHeader /\ Dff!Bytes = file.chunks[k].size
<1>1. \A j : j \in Dff!SoundDataChunks <=> j = k
  BY DffChunk DEF Dff!SoundDataChunks, Chunks, Id
<1>2. Dff!SoundDataChunks # {} /\ (CHOOSE j \in Dff!SoundDataChunks : TRUE) = k
  BY <1>1
<1> QED
  BY <1>2 DEF Dff!Start, Dff!Bytes

Unit == BlockSize * file.channels

LEMMA DffTypes ==
  ASSUME file \in DffFiles
  PROVE  /\ file.channels \in Nat \ {0} /\ BlockSize \in Nat \ {0} /\ Unit \in Nat \ {0}
         /\ Dff!Start \in Nat /\ Dff!Bytes \in Nat /\ file.size \in Nat
         /\ file.size >= Dff!Start
         /\ \E m \in Nat : Dff!Bytes = m * file.channels
<1>1. DffLayout(file) /\ BlockSize \in Nat \ {0}
  BY InputFileAssumption
<1>2. file.channels \in Nat \ {0} /\ file.size \in Nat
  BY <1>1 DEF DffLayout
<1>3. /\ Dff!Start \in Nat /\ Dff!Bytes \in Nat /\ file.size >= Dff!Start
      /\ Dff!Bytes % file.channels = 0
  <2>1. CASE Dff!SoundDataChunks = {}
    <3>1. Dff!Start = file.size /\ Dff!Bytes = 0
      BY <2>1 DEF Dff!Start, Dff!Bytes
    <3> HIDE DEF Dff!Start
    <3>2. \A n \in Nat \ {0} : 0 % n = 0
      OBVIOUS
    <3> QED
      BY <1>2, <3>1, <3>2
  <2>2. CASE Dff!SoundDataChunks # {}
    <3>1. PICK k \in Chunks : Id(k) = "DSD"
      BY <2>2 DEF Dff!SoundDataChunks, Chunks, Id
    <3>2. k \in Places
      BY <1>1, PlaceIs DEF Chunks, Places
    <3> QED
      BY <1>2, <3>1, <3>2, SoundDataIs, DffChunk, PlacesRise DEF Dff!SizeOfHeader
  <2> QED
    BY <2>1, <2>2
<1>4. Unit \in Nat \ {0}
  <2> SUFFICES ASSUME NEW a \in Nat \ {0}, NEW b \in Nat \ {0} PROVE a * b \in Nat \ {0}
    BY <1>1, <1>2 DEF Unit
  <2> QED
    OBVIOUS
<1>5. \E m \in Nat : Dff!Bytes = m * file.channels
  <2> DEFINE a == Dff!Bytes
             n == file.channels
  <2> HIDE DEF a, n
  <2>1. a \in Nat /\ n \in Nat \ {0} /\ a % n = 0
    BY <1>2, <1>3 DEF a, n
  <2>2. a \div n \in Nat /\ a = (a \div n) * n
    BY <2>1
  <2> QED
    BY <2>2 DEF a, n
<1> QED
  BY <1>1, <1>2, <1>3, <1>4, <1>5

\* A number of bytes that the reader can have got, block by block.
DffFetched(t) ==
  t \in 0 .. Dff!Readable /\ (t = Dff!Bytes \/ \E g \in Nat : t = g * Unit)

\* What it asks for next.
NextBytes(t) == IF Dff!Bytes - t < Unit THEN Dff!Bytes - t ELSE Unit

LEMMA DffReadable ==
  ASSUME file \in DffFiles
  PROVE  /\ Dff!Readable \in 0 .. Dff!Bytes
         /\ \/ Dff!Readable = Dff!Bytes /\ Dff!Start + Dff!Bytes <= file.size
            \/ /\ Dff!Start + Dff!Bytes > file.size /\ Dff!Readable < Dff!Bytes
               /\ \E m \in Nat : /\ Dff!Readable = m * Unit
                                 /\ Dff!Start + m * Unit <= file.size
                                 /\ Dff!Start + m * Unit + Unit > file.size
<1> DEFINE held == file.size - Dff!Start
           m == held \div Unit
<1>1. /\ Unit \in Nat \ {0} /\ Dff!Start \in Nat /\ Dff!Bytes \in Nat /\ file.size \in Nat
      /\ held \in Nat
  BY DffTypes
<1>2. Dff!Readable = IF Dff!Bytes <= held THEN Dff!Bytes ELSE m * Unit
  BY DEF Dff!Readable, Unit
<1>3. m \in Nat /\ m * Unit <= held /\ held < m * Unit + Unit /\ m * Unit \in Nat
  <2> HIDE DEF held
  <2>1. m \in Nat /\ Unit * m <= held /\ held < Unit * m + Unit
    BY <1>1
  <2> QED
    BY <1>1, <2>1
<1> HIDE DEF m
<1> QED
  BY <1>1, <1>2, <1>3

LEMMA DffFetch ==
  ASSUME file \in DffFiles, NEW t, DffFetched(t)
  PROVE  /\ t \in Nat /\ t <= Dff!Bytes /\ NextBytes(t) \in 0 .. Unit
         /\ NextBytes(t) = 0 <=> t = Dff!Bytes
         /\ t = Dff!Bytes => Dff!Readable = t
         /\ t # Dff!Bytes =>
              (Dff!Start + t + NextBytes(t) > file.size <=> t = Dff!Readable)
         /\ t # Dff!Readable => DffFetched(t + NextBytes(t))
<1>1. /\ Unit \in Nat \ {0} /\ Dff!Start \in Nat /\ Dff!Bytes \in Nat /\ file.size \in Nat
      /\ t \in 0 .. Dff!Readable /\ Dff!Readable \in 0 .. Dff!Bytes
  BY DffTypes, DffReadable DEF DffFetched
<1>2. /\ t \in Nat /\ t <= Dff!Bytes /\ NextBytes(t) \in 0 .. Unit
      /\ (NextBytes(t) = 0 <=> t = Dff!Bytes)
      /\ (t = Dff!Bytes => Dff!Readable = t)
      /\ t + NextBytes(t) <= Dff!Bytes
  BY <1>1 DEF NextBytes
<1>3. CASE Dff!Readable = Dff!Bytes /\ Dff!Start + Dff!Bytes <= file.size
  <2>1. ~(Dff!Start + t + NextBytes(t) > file.size)
    BY <1>1, <1>2, <1>3
  <2>2. t # Dff!Readable => DffFetched(t + NextBytes(t))
    <3> SUFFICES ASSUME t # Dff!Bytes PROVE DffFetched(t + NextBytes(t))
      BY <1>3
    <3>1. PICK g \in Nat : t = g * Unit
      BY DEF DffFetched
    <3>2. t + Unit = (g + 1) * Unit /\ g + 1 \in Nat
      BY <1>1, <3>1
    <3>3. t + NextBytes(t) = Dff!Bytes \/ t + NextBytes(t) = t + Unit
      BY <1>1 DEF NextBytes
    <3>4. t + NextBytes(t) \in 0 .. Dff!Readable
      BY <1>1, <1>2, <1>3
    <3> QED
      BY <3>2, <3>3, <3>4 DEF DffFetched
  <2> QED
    BY <1>2, <1>3, <2>1, <2>2
<1>4. CASE Dff!Start + Dff!Bytes > file.size /\ Dff!Readable < Dff!Bytes
  <2>1. PICK m \in Nat : /\ Dff!Readable = m * Unit
                         /\ Dff!Start + m * Unit <= file.size
                         /\ Dff!Start + m * Unit + Unit > file.size
    BY <1>1, <1>4, DffReadable
  <2>2. t # Dff!Bytes
    BY <1>1, <1>4
  <2>3. PICK g \in Nat : t = g * Unit
    BY <2>2 DEF DffFetched
  <2>4. t = Dff!Readable => Dff!Start + t + NextBytes(t) > file.size
    BY <1>1, <1>4, <2>1 DEF NextBytes
  <2>5. t # Dff!Readable => t + Unit <= Dff!Readable /\ t + Unit = (g + 1) * Unit
    <3> DEFINE u == Unit
    <3>1. u \in Nat \ {0} /\ (g < m => g * u + u <= m * u) /\ (g * u <= m * u => g <= m)
          /\ g * u + u = (g + 1) * u
      <4> u \in Nat \ {0}
        BY <1>1
      <4> HIDE DEF u
      <4>1. g < m => g * u + u <= m * u
        <5> SUFFICES ASSUME g < m PROVE g * u + u <= m * u
          OBVIOUS
        <5>1. PICK d \in Nat : m = g + 1 + d
          <6>1. m - g - 1 \in Nat /\ m = g + 1 + (m - g - 1)
            OBVIOUS
          <6> QED
            BY <6>1
        <5>2. m * u = g * u + u + d * u /\ d * u \in Nat /\ g * u \in Nat
          BY <5>1
        <5> QED
          BY <5>2
      <4>2. g * u <= m * u => g <= m
        <5> SUFFICES ASSUME m < g PROVE m * u < g * u
          <6>1. m * u \in Nat /\ g * u \in Nat
            OBVIOUS
          <6> QED
            BY <6>1
        <5>1. PICK d \in Nat : g = m + 1 + d
          <6>1. g - m - 1 \in Nat /\ g = m + 1 + (g - m - 1)
            OBVIOUS
          <6> QED
            BY <6>1
        <5>2. g * u = m * u + u + d * u /\ d * u \in Nat /\ m * u \in Nat
          BY <5>1
        <5> QED
          BY <5>2
      <4> QED
        BY <4>1, <4>2
    <3>2. t = g * u /\ Dff!Readable = m * u
      BY <2>1, <2>3
    <3> HIDE DEF u
    <3>3. t # Dff!Readable => g < m
      BY <1>1, <3>1, <3>2
    <3> QED
      BY <3>1, <3>2, <3>3 DEF u
  <2>6. t # Dff!Readable => NextBytes(t) = Unit
    BY <1>1, <1>4, <2>5 DEF NextBytes
  <2>7. t # Dff!Readable => DffFetched(t + NextBytes(t))
    <3> SUFFICES ASSUME t # Dff!Readable PROVE DffFetched(t + Unit)
      BY <2>6
    <3>1. t + Unit \in 0 .. Dff!Readable /\ t + Unit = (g + 1) * Unit /\ g + 1 \in Nat
      BY <1>1, <2>5
    <3> QED
      BY <3>1 DEF DffFetched
  <2>8. t # Dff!Readable => ~(Dff!Start + t + NextBytes(t) > file.size)
    BY <1>1, <2>1, <2>5, <2>6
  <2> QED
    BY <1>2, <2>2, <2>4, <2>7, <2>8
<1> QED
  BY <1>3, <1>4, DffReadable
-------------------------------------------------------------------------------
(***************************************************************************)
(* The DSDIFF reader: reading.                                             *)
(***************************************************************************)
DffRecord(m, e, b, t, bit, ch, place, loop, out) ==
  [inputBuffer |-> m, endOfBlock |-> e, bufferIndex |-> b, totalBytesRead |-> t,
   currentBit |-> bit, currentChannel |-> ch, filePos |-> place, loop |-> loop, out |-> out]

\* Of each channel v bytes were fetched, and w of them are still in the buffer, the first
\* of these perhaps in part.
DffPlace(m, e, b, v, w, bit, ch) ==
  /\ m \in Nat /\ e \in Nat /\ b \in Nat
  /\ v \in Nat /\ w \in 0 .. v /\ DffFetched(v * file.channels)
  /\ bit \in 0 .. 7 /\ ch \in 0 .. file.channels - 1
  /\ w = 0 => b >= e /\ bit = 0 /\ ch = 0
  /\ w # 0 => /\ e = b + w * file.channels
              /\ m + b = Dff!Start + (v - w) * file.channels

DffState(m, e, b, v, bit, ch, loop, out) ==
  DffRecord(m, e, b, v * file.channels, bit, ch, Dff!Start + v * file.channels, loop, out)

DffSample(v, w, bit, ch) == (8 * (v - w) + bit) * file.channels + ch

DffLength == 8 * Dff!Readable

\* The headers were read.
DffOpened ==
  /\ file \in DffFiles /\ numChannels = file.channels
  /\ totalSoundDataBytes = Dff!Bytes /\ startOfData = Dff!Start

LEMMA DffFields ==
  ASSUME NEW m, NEW e, NEW b, NEW t, NEW bit, NEW ch, NEW place, NEW loop, NEW out, NEW r,
         r = DffRecord(m, e, b, t, bit, ch, place, loop, out)
  PROVE  /\ r.inputBuffer = m /\ r.endOfBlock = e /\ r.bufferIndex = b /\ r.totalBytesRead = t
         /\ r.currentBit = bit /\ r.currentChannel = ch /\ r.filePos = place
         /\ r.loop = loop /\ r.out = out
BY DEF DffRecord

DffMoved(r, ch, bit, b) == [r EXCEPT !.currentChannel = ch, !.currentBit = bit, !.bufferIndex = b]
DffFilled(r, m, e, t, place, b) ==
  [r EXCEPT !.inputBuffer = m, !.endOfBlock = e, !.totalBytesRead = t, !.filePos = place,
            !.bufferIndex = b]
DffOver(r, e, loop)     == [r EXCEPT !.endOfBlock = e, !.loop = loop]
DffThrown(r, loop)      == [r EXCEPT !.loop = loop]
DffDelivered(r, out)    == [r EXCEPT !.out = out]

LEMMA DffMovedIs ==
  ASSUME NEW m, NEW e, NEW b, NEW t, NEW bit, NEW ch, NEW place, NEW loop, NEW out, NEW r,
         r = DffRecord(m, e, b, t, bit, ch, place, loop, out), NEW x, NEW y, NEW z
  PROVE  DffMoved(r, x, y, z) = DffRecord(m, e, z, t, y, x, place, loop, out)
<1> DEFINE one == [r EXCEPT !.currentChannel = x]
           two == [one EXCEPT !.currentBit = y]
<1>1. one = DffRecord(m, e, b, t, bit, x, place, loop, out)
  BY SMTT(10) DEF DffRecord
<1> HIDE DEF one
<1>2. two = DffRecord(m, e, b, t, y, x, place, loop, out)
  BY <1>1, SMTT(10) DEF DffRecord
<1> HIDE DEF two
<1>3. [two EXCEPT !.bufferIndex = z] = DffRecord(m, e, z, t, y, x, place, loop, out)
  BY <1>2, SMTT(10) DEF DffRecord
<1> QED
  BY <1>3 DEF one, two, DffMoved

LEMMA DffFilledIs ==
  ASSUME NEW m, NEW e, NEW b, NEW t, NEW bit, NEW ch, NEW place, NEW loop, NEW out, NEW r,
         r = DffRecord(m, e, b, t, bit, ch, place, loop, out),
         NEW m2, NEW e2, NEW t2, NEW place2, NEW b2
  PROVE  DffFilled(r, m2, e2, t2, place2, b2) =
           DffRecord(m2, e2, b2, t2, bit, ch, place2, loop, out)
<1> DEFINE one == [r EXCEPT !.inputBuffer = m2]
           two == [one EXCEPT !.endOfBlock = e2]
           three == [two EXCEPT !.totalBytesRead = t2]
           four == [three EXCEPT !.filePos = place2]
<1>1. one = DffRecord(m2, e, b, t, bit, ch, place, loop, out)
  BY SMTT(10) DEF DffRecord
<1> HIDE DEF one
<1>2. two = DffRecord(m2, e2, b, t, bit, ch, place, loop, out)
  BY <1>1, SMTT(10) DEF DffRecord
<1> HIDE DEF two
<1>3. three = DffRecord(m2, e2, b, t2, bit, ch, place, loop, out)
  BY <1>2, SMTT(10) DEF DffRecord
<1> HIDE DEF three
<1>4. four = DffRecord(m2, e2, b, t2, bit, ch, place2, loop, out)
  BY <1>3, SMTT(10) DEF DffRecord
<1> HIDE DEF four
<1>5. [four EXCEPT !.bufferIndex = b2] = DffRecord(m2, e2, b2, t2, bit, ch, place2, loop, out)
  BY <1>4, SMTT(10) DEF DffRecord
<1> QED
  BY <1>5 DEF one, two, three, four, DffFilled

LEMMA DffOverIs ==
  ASSUME NEW m, NEW e, NEW b, NEW t, NEW bit, NEW ch, NEW place, NEW loop, NEW out, NEW r,
         r = DffRecord(m, e, b, t, bit, ch, place, loop, out), NEW x, NEW y
  PROVE  /\ DffOver(r, x, y) = DffRecord(m, x, b, t, bit, ch, place, y, out)
         /\ DffThrown(r, y) = DffRecord(m, e, b, t, bit, ch, place, y, out)
         /\ DffDelivered(r, x) = DffRecord(m, e, b, t, bit, ch, place, loop, x)
<1> DEFINE one == [r EXCEPT !.endOfBlock = x]
<1>1. one = DffRecord(m, x, b, t, bit, ch, place, loop, out)
  BY SMTT(10) DEF DffRecord
<1> HIDE DEF one
<1>2. [one EXCEPT !.loop = y] = DffRecord(m, x, b, t, bit, ch, place, y, out)
  BY <1>1, SMTT(10) DEF DffRecord
<1>3. DffThrown(r, y) = DffRecord(m, e, b, t, bit, ch, place, y, out)
  BY SMTT(10) DEF DffRecord, DffThrown
<1>4. DffDelivered(r, x) = DffRecord(m, e, b, t, bit, ch, place, loop, x)
  BY SMTT(10) DEF DffRecord, DffDelivered
<1> QED
  BY <1>2, <1>3, <1>4 DEF one, DffOver

\* The layout of the file has the byte that the reader takes for the next sample.
LEMMA DffNextSample ==
  ASSUME file \in DffFiles, NEW m, NEW e, NEW b, NEW v, NEW w, NEW bit, NEW ch,
         DffPlace(m, e, b, v, w, bit, ch)
  PROVE  /\ DffSample(v, w, bit, ch) \in 0 .. DffLength
         /\ w = 0 => DffSample(v, w, bit, ch) = 8 * (v * file.channels)
         /\ w # 0 =>
              /\ DffSample(v, w, bit, ch) < DffLength
              /\ Dff!Sample(DffSample(v, w, bit, ch)) = <<m + b + ch, 7 - bit>>
<1> DEFINE nc == file.channels
           x == v - w
           frame == 8 * x + bit
           n == DffSample(v, w, bit, ch)
<1>1. /\ nc \in Nat \ {0} /\ v \in Nat /\ w \in 0 .. v /\ bit \in 0 .. 7 /\ ch \in 0 .. nc - 1
      /\ v * nc <= Dff!Readable /\ Dff!Readable \in Nat /\ x \in Nat
      /\ DffLength \in Nat
  BY DffTypes, DffReadable DEF DffPlace, DffFetched, DffLength
<1>2. n = frame * nc + ch
  BY DEF DffSample
<1>3. frame \in Nat /\ frame \div 8 = x /\ frame % 8 = bit
  <2> HIDE DEF x
  <2> QED
    BY <1>1
<1>4. frame * nc \in Nat /\ frame * nc = 8 * (x * nc) + bit * nc /\ bit * nc <= 7 * nc
      /\ v * nc = x * nc + w * nc /\ x * nc \in Nat /\ w * nc \in Nat /\ (w # 0 => w * nc >= nc)
      /\ bit * nc \in Nat
  <2>1. v = x + w
    BY <1>1
  <2> HIDE DEF x, nc
  <2>2. frame * nc = 8 * (x * nc) + bit * nc /\ frame * nc \in Nat
    BY <1>1
  <2>3. v * nc = x * nc + w * nc
    BY <1>1, <2>1
  <2>4. bit * nc <= 7 * nc /\ x * nc \in Nat /\ w * nc \in Nat /\ bit * nc \in Nat
    BY <1>1
  <2>5. w # 0 => w * nc >= nc
    <3> SUFFICES ASSUME NEW d \in Nat, w = d + 1 PROVE w * nc >= nc
      <4>1. w # 0 => w - 1 \in Nat /\ w = (w - 1) + 1
        BY <1>1
      <4> QED
        BY <4>1
    <3>1. w * nc = d * nc + nc /\ d * nc \in Nat
      BY <1>1
    <3> QED
      BY <1>1, <3>1
  <2> QED
    BY <2>2, <2>3, <2>4, <2>5
<1>5. CASE w = 0
  <2>1. bit = 0 /\ ch = 0 /\ x = v
    BY <1>1, <1>5 DEF DffPlace
  <2>2. n = 8 * (v * nc)
    <3> HIDE DEF x, n
    <3> QED
      BY <1>1, <1>2, <1>4, <2>1
  <2>3. n \in 0 .. DffLength
    <3>1. v * nc \in Nat
      BY <1>1
    <3> HIDE DEF n
    <3> QED
      BY <1>1, <2>2, <3>1 DEF DffLength
  <2> QED
    BY <1>5, <2>2, <2>3
<1>6. CASE w # 0
  <2>1. n \in Nat /\ n \div nc = frame /\ n % nc = ch
    <3> HIDE DEF n, frame, x, nc
    <3>1. n \in Nat
      BY <1>1, <1>2, <1>4
    <3>2. n \div nc = frame /\ n % nc = ch
      BY <1>1, <1>2, <1>3, Divided
    <3> QED
      BY <3>1, <3>2
  <2>2. n < DffLength
    <3> HIDE DEF n, frame, x, nc
    <3> QED
      BY <1>1, <1>2, <1>4, <1>6 DEF DffLength
  <2>3. Dff!Sample(n) = <<Dff!Start + x * nc + ch, 7 - bit>>
    <3> HIDE DEF n, frame
    <3> QED
      BY <1>3, <2>1 DEF Dff!Sample
  <2>4. Dff!Sample(n) = <<m + b + ch, 7 - bit>>
    BY <1>6, <2>3 DEF DffPlace
  <2> QED
    BY <1>1, <1>6, <2>1, <2>2, <2>4
<1> QED
  BY <1>5, <1>6

\* The cursors move on by one sample.
LEMMA DffAdvance ==
  ASSUME DffOpened, NEW m, NEW e, NEW b, NEW v, NEW w, NEW bit, NEW ch, NEW out,
         DffPlace(m, e, b, v, w, bit, ch), w # 0,
         NEW r, r = DffState(m, e, b, v, bit, ch, "on", out)
  PROVE  \E b2, w2, bit2, ch2 :
           /\ DffPlace(m, e, b2, v, w2, bit2, ch2)
           /\ DffSample(v, w2, bit2, ch2) = DffSample(v, w, bit, ch) + 1
           /\ Dff!Advance(r) = DffState(m, e, b2, v, bit2, ch2, "on", out)
<1> DEFINE nc == file.channels
           lastBit == bit = 7
           lastChannel == ch + 1 = nc
           b2 == IF lastChannel /\ lastBit THEN b + nc ELSE b
           w2 == IF lastChannel /\ lastBit THEN w - 1 ELSE w
           bit2 == IF ~lastChannel THEN bit ELSE IF lastBit THEN 0 ELSE bit + 1
           ch2 == IF lastChannel THEN 0 ELSE ch + 1
<1>1. /\ nc \in Nat \ {0} /\ numChannels = nc /\ Dff!Start \in Nat
      /\ m \in Nat /\ e \in Nat /\ b \in Nat /\ v \in Nat /\ w \in 1 .. v
      /\ bit \in 0 .. 7 /\ ch \in 0 .. nc - 1
      /\ DffFetched(v * nc)
      /\ e = b + w * nc /\ m + b = Dff!Start + (v - w) * nc
  BY DffTypes DEF DffPlace, DffOpened
<1>2. /\ w - 1 \in 0 .. v /\ (w - 1) * nc = w * nc - nc
      /\ (v - (w - 1)) * nc = (v - w) * nc + nc
      /\ w * nc \in Nat /\ (v - w) * nc \in Nat /\ (w = 1 => w * nc = nc)
  <2>1. v - w \in Nat /\ v - (w - 1) = (v - w) + 1
    BY <1>1
  <2> DEFINE x == v - w
  <2> HIDE DEF x, nc
  <2>2. w - 1 \in 0 .. v /\ (w - 1) * nc = w * nc - nc /\ w * nc \in Nat /\ (w = 1 => w * nc = nc)
    BY <1>1
  <2>3. (x + 1) * nc = x * nc + nc /\ x * nc \in Nat
    BY <1>1, <2>1 DEF x
  <2> QED
    BY <2>1, <2>2, <2>3 DEF x
<1>3. DffPlace(m, e, b2, v, w2, bit2, ch2)
  <2>1. CASE lastChannel /\ lastBit
    <3>1. b2 = b + nc /\ w2 = w - 1 /\ bit2 = 0 /\ ch2 = 0
      BY <2>1
    <3> HIDE DEF b2, w2, bit2, ch2
    <3>2. /\ e = b2 + w2 * nc /\ m + b2 = Dff!Start + (v - w2) * nc
          /\ w2 \in 0 .. v /\ b2 \in Nat /\ (w2 = 0 => b2 >= e)
      <4> HIDE DEF nc
      <4> QED
        BY <1>1, <1>2, <3>1
    <3> QED
      BY <1>1, <3>1, <3>2 DEF DffPlace
  <2>2. CASE ~(lastChannel /\ lastBit)
    <3>1. b2 = b /\ w2 = w
      BY <2>2
    <3>2. bit2 \in 0 .. 7 /\ ch2 \in 0 .. nc - 1
      <4>1. nc \in Nat \ {0} /\ bit \in 0 .. 7 /\ ch \in 0 .. nc - 1
        BY <1>1
      <4> HIDE DEF nc
      <4> QED
        BY <2>2, <4>1
    <3> HIDE DEF b2, w2, bit2, ch2
    <3> QED
      BY <1>1, <3>1, <3>2 DEF DffPlace
  <2> QED
    BY <2>1, <2>2
<1>4. DffSample(v, w2, bit2, ch2) = DffSample(v, w, bit, ch) + 1
  <2> DEFINE frame == 8 * (v - w) + bit
             frame2 == 8 * (v - w2) + bit2
  <2>1. frame \in Nat /\ frame2 = IF lastChannel THEN frame + 1 ELSE frame
    BY <1>1
  <2>2. DffSample(v, w2, bit2, ch2) = frame2 * nc + ch2 /\ DffSample(v, w, bit, ch) = frame * nc + ch
    BY DEF DffSample
  <2>3. nc \in Nat \ {0} /\ ch \in 0 .. nc - 1
    BY <1>1
  <2> HIDE DEF frame, frame2, w2, bit2, nc
  <2>4. (frame + 1) * nc = frame * nc + nc /\ frame * nc \in Nat
    BY <2>1, <2>3
  <2>5. CASE lastChannel
    BY <2>1, <2>2, <2>3, <2>4, <2>5
  <2>6. CASE ~lastChannel
    BY <2>1, <2>2, <2>3, <2>4, <2>6
  <2> QED
    BY <2>5, <2>6
<1>5. Dff!Advance(r) = DffState(m, e, b2, v, bit2, ch2, "on", out)
  <2> DEFINE T == v * nc
             F == Dff!Start + v * nc
  <2>1. r = DffRecord(m, e, b, T, bit, ch, F, "on", out)
    BY DEF DffState
  <2>2. DffState(m, e, b2, v, bit2, ch2, "on", out) = DffRecord(m, e, b2, T, bit2, ch2, F, "on", out)
    BY DEF DffState
  <2> HIDE DEF T, F
  <2>3. r.bufferIndex = b /\ r.currentBit = bit /\ r.currentChannel = ch
    BY <2>1, DffFields
  <2>4. Dff!Advance(r) = DffMoved(r, ch2, bit2, b2)
    BY <1>1, <2>3 DEF Dff!Advance, DffMoved
  <2> HIDE DEF b2, bit2, ch2
  <2> QED
    BY <2>1, <2>2, <2>4, DffMovedIs
<1> HIDE DEF b2, w2, bit2, ch2
<1> QED
  BY <1>3, <1>4, <1>5

\* A turn that puts out sample n.
DffGoesOn(s, n, out) ==
  \E m, e, b, v, w, bit, ch :
    /\ DffPlace(m, e, b, v, w, bit, ch)
    /\ DffSample(v, w, bit, ch) = n + 1
    /\ s = DffState(m, e, b, v, bit, ch, "on", Append(out, Dff!Sample(n)))

\* A byte is buffered.
LEMMA DffPutsOut ==
  ASSUME DffOpened, NEW m, NEW e, NEW b, NEW v, NEW w, NEW bit, NEW ch, NEW out, NEW r,
         DffPlace(m, e, b, v, w, bit, ch), w # 0,
         r = DffState(m, e, b, v, bit, ch, "on", out)
  PROVE  /\ DffSample(v, w, bit, ch) \in 0 .. DffLength - 1
         /\ DffGoesOn(Dff!Advance([r EXCEPT !.out = Append(@,
                         <<r.inputBuffer + r.bufferIndex + r.currentChannel, 7 - r.currentBit>>)]),
                      DffSample(v, w, bit, ch), out)
<1> DEFINE n == DffSample(v, w, bit, ch)
           laid == <<r.inputBuffer + r.bufferIndex + r.currentChannel, 7 - r.currentBit>>
           T == v * file.channels
           F == Dff!Start + v * file.channels
<1>1. n \in 0 .. DffLength - 1 /\ Dff!Sample(n) = <<m + b + ch, 7 - bit>>
  <2>1. n \in 0 .. DffLength /\ n < DffLength /\ DffLength \in Nat
        /\ Dff!Sample(n) = <<m + b + ch, 7 - bit>>
    BY DffNextSample, DffReadable, DffTypes DEF DffLength, DffOpened
  <2> HIDE DEF n
  <2> QED
    BY <2>1
<1>2. r = DffRecord(m, e, b, T, bit, ch, F, "on", out)
  BY DEF DffState
<1> DEFINE d == DffDelivered(r, Append(out, Dff!Sample(n)))
<1>3. DffState(m, e, b, v, bit, ch, "on", Append(out, Dff!Sample(n)))
        = DffRecord(m, e, b, T, bit, ch, F, "on", Append(out, Dff!Sample(n)))
  BY DEF DffState
<1> HIDE DEF T, F, n
<1>4. laid = <<m + b + ch, 7 - bit>> /\ r.out = out
  BY <1>2, DffFields
<1> HIDE DEF laid
<1>5. [r EXCEPT !.out = Append(@, laid)] = d
  BY <1>1, <1>4 DEF DffDelivered
<1>6. d = DffState(m, e, b, v, bit, ch, "on", Append(out, Dff!Sample(n)))
  BY <1>2, <1>3, DffOverIs
<1> HIDE DEF d
<1>7. DffGoesOn(Dff!Advance(d), n, out)
  BY <1>6, DffAdvance DEF DffGoesOn, n
<1> QED
  BY <1>1, <1>5, <1>7 DEF laid, n

\* One turn of read's loop puts out the next sample, or it is at the end: of a whole file
\* it says so, of another it throws.
LEMMA DffTurn ==
  ASSUME DffOpened, NEW m, NEW e, NEW b, NEW v, NEW w, NEW bit, NEW ch, NEW out, NEW r,
         DffPlace(m, e, b, v, w, bit, ch), r = DffState(m, e, b, v, bit, ch, "on", out)
  PROVE  \/ /\ DffSample(v, w, bit, ch) \in 0 .. DffLength - 1
            /\ DffGoesOn(Dff!ReadSample(r), DffSample(v, w, bit, ch), out)
         \/ /\ DffSample(v, w, bit, ch) = DffLength /\ w = 0 /\ bit = 0 /\ ch = 0
            /\ IF Dff!Complete
                 THEN Dff!ReadSample(r) = DffState(m, 0, b, v, bit, ch, "over", out)
                 ELSE Dff!ReadSample(r) = DffState(m, e, b, v, bit, ch, "thrown", out)
<1> DEFINE n == DffSample(v, w, bit, ch)
           nc == file.channels
           T == v * nc
           F == Dff!Start + v * nc
<1>1. /\ nc \in Nat \ {0} /\ numChannels = nc /\ Dff!Start \in Nat /\ Dff!Bytes \in Nat
      /\ file.size \in Nat /\ Unit \in Nat \ {0} /\ Dff!bufferSize = Unit
      /\ totalSoundDataBytes = Dff!Bytes /\ file \in DffFiles
      /\ m \in Nat /\ e \in Nat /\ b \in Nat /\ v \in Nat /\ w \in 0 .. v /\ DffFetched(T)
  BY DffTypes DEF DffPlace, DffOpened, Dff!bufferSize, Unit
<1>2. r = DffRecord(m, e, b, T, bit, ch, F, "on", out)
  BY DEF DffState
<1>3. /\ r.bufferIndex = b /\ r.endOfBlock = e /\ r.loop = "on" /\ r.filePos = F
      /\ r.totalBytesRead = T
  <2> HIDE DEF T, F
  <2> QED
    BY <1>2, DffFields
<1>4. CASE w # 0
  <2>1. b < e
    <3>1. e = b + w * nc /\ w * nc > 0 /\ w * nc \in Nat
      <4> SUFFICES ASSUME NEW i \in Nat \ {0}, NEW j \in Nat \ {0} PROVE i * j > 0 /\ i * j \in Nat
        BY <1>1, <1>4 DEF DffPlace
      <4> QED
        OBVIOUS
    <3> QED
      BY <1>1, <3>1
  <2>2. Dff!ReadSample(r) = Dff!Advance([r EXCEPT !.out = Append(@,
                         <<r.inputBuffer + r.bufferIndex + r.currentChannel, 7 - r.currentBit>>)])
    <3>1. ~(r.bufferIndex >= r.endOfBlock) /\ r.loop = "on"
      BY <1>1, <1>3, <2>1
    <3> QED
      BY <3>1 DEF Dff!ReadSample
  <2> QED
    BY <1>4, <2>2, DffPutsOut
<1>5. CASE w = 0
  <2>1. b >= e /\ bit = 0 /\ ch = 0 /\ n = 8 * T
    <3>1. n = 8 * T
      <4> HIDE DEF n, T
      <4> QED
        BY <1>1, <1>5, DffNextSample DEF n, T
    <3> QED
      BY <1>5, <3>1 DEF DffPlace
  <2> DEFINE f == Dff!readBlocks(r)
             y == NextBytes(T)
  <2>2. Dff!ReadSample(r) =
          IF f.loop # "on" THEN f
          ELSE Dff!Advance([f EXCEPT !.out = Append(@,
                         <<f.inputBuffer + f.bufferIndex + f.currentChannel, 7 - f.currentBit>>)])
    BY <1>3, <2>1 DEF Dff!ReadSample
  <2>3. f = IF y = 0 THEN DffOver(r, 0, "over")
            ELSE IF F + y > file.size THEN DffThrown(r, "thrown")
            ELSE DffFilled(r, F, y, T + y, F + y, 0)
    <3> HIDE DEF T, F
    <3> QED
      BY <1>1, <1>3 DEF Dff!readBlocks, NextBytes, DffOver, DffThrown, DffFilled
  <2>4. /\ T \in Nat /\ T <= Dff!Bytes /\ y \in 0 .. Unit
        /\ y = 0 <=> T = Dff!Bytes
        /\ T = Dff!Bytes => Dff!Readable = T
        /\ T # Dff!Bytes => (Dff!Start + T + y > file.size <=> T = Dff!Readable)
        /\ T # Dff!Readable => DffFetched(T + y)
    <3> HIDE DEF T
    <3> QED
      BY <1>1, DffFetch
  <2> HIDE DEF f, y
  <2>5. CASE T = Dff!Bytes
    <3>1. Dff!Complete /\ n = DffLength
      <4> HIDE DEF T, n
      <4> QED
        BY <2>1, <2>4, <2>5 DEF Dff!Complete, DffLength
    <3>2. f = DffState(m, 0, b, v, bit, ch, "over", out)
      <4>1. f = DffOver(r, 0, "over")
        BY <2>3, <2>4, <2>5
      <4>2. DffState(m, 0, b, v, bit, ch, "over", out) = DffRecord(m, 0, b, T, bit, ch, F, "over", out)
        BY DEF DffState
      <4> HIDE DEF T, F
      <4> QED
        BY <1>2, <4>1, <4>2, DffOverIs
    <3>3. f.loop = "over"
      BY <3>2, DffFields DEF DffState
    <3> QED
      BY <1>5, <2>1, <2>2, <3>1, <3>2, <3>3
  <2>6. CASE T # Dff!Bytes /\ T = Dff!Readable
    <3>1. ~Dff!Complete /\ n = DffLength
      <4> HIDE DEF T, n
      <4> QED
        BY <2>1, <2>4, <2>6 DEF Dff!Complete, DffLength
    <3>2. f = DffState(m, e, b, v, bit, ch, "thrown", out)
      <4>1. f = DffThrown(r, "thrown")
        BY <2>3, <2>4, <2>6
      <4>2. DffState(m, e, b, v, bit, ch, "thrown", out) = DffRecord(m, e, b, T, bit, ch, F, "thrown", out)
        BY DEF DffState
      <4> HIDE DEF T, F
      <4> QED
        BY <1>2, <4>1, <4>2, DffOverIs
    <3>3. f.loop = "thrown"
      BY <3>2, DffFields DEF DffState
    <3> QED
      BY <1>5, <2>1, <2>2, <3>1, <3>2, <3>3
  <2>7. CASE T # Dff!Bytes /\ T # Dff!Readable
    <3>1. f = DffFilled(r, F, y, T + y, F + y, 0)
      BY <2>3, <2>4, <2>7
    <3>2. PICK z \in Nat : y = z * nc /\ z # 0
      <4>1. PICK t \in Nat : Dff!Bytes = t * nc
        BY <1>1, DffTypes
      <4>2. y = t * nc - v * nc \/ y = BlockSize * nc
        BY <4>1 DEF y, NextBytes, Unit
      <4>3. y > 0
        BY <2>4, <2>7, <1>1
      <4> HIDE DEF nc
      <4>4. CASE y = BlockSize * nc
        <5>1. BlockSize \in Nat /\ BlockSize # 0
          BY InputFileAssumption
        <5> QED
          BY <4>4, <5>1
      <4>5. CASE y = t * nc - v * nc
        <5>1. t * nc - v * nc = (t - v) * nc
          BY <1>1
        <5>2. t - v > 0
          <6>1. t <= v => t * nc <= v * nc
            <7> SUFFICES ASSUME NEW d \in Nat, v = t + d PROVE t * nc <= v * nc
              <8>1. t <= v => v - t \in Nat /\ v = t + (v - t)
                BY <1>1
              <8> QED
                BY <8>1
            <7>1. v * nc = t * nc + d * nc /\ d * nc \in Nat /\ t * nc \in Nat
              BY <1>1
            <7> QED
              BY <7>1
          <6>2. t * nc \in Nat /\ v * nc \in Nat
            BY <1>1
          <6> QED
            BY <1>1, <4>3, <4>5, <6>1, <6>2
        <5>3. t - v \in Nat /\ t - v # 0
          BY <1>1, <5>2
        <5> QED
          BY <4>5, <5>1, <5>3
      <4> QED
        BY <4>2, <4>4, <4>5
    <3>3. /\ (v + z) * nc = T + y /\ v + z \in Nat /\ (v + z) - z = v /\ z \in 0 .. v + z
          /\ Dff!Start + (v + z) * nc = F + y
      <4>1. (v + z) * nc = v * nc + z * nc /\ v * nc \in Nat /\ z * nc \in Nat
        <5> HIDE DEF nc
        <5> QED
          BY <1>1
      <4> HIDE DEF nc
      <4> QED
        BY <1>1, <3>2, <4>1
    <3>4. DffPlace(F, y, 0, v + z, z, 0, 0)
      <4>1. DffFetched((v + z) * nc)
        BY <2>4, <2>7, <3>3
      <4>2. F \in Nat /\ y \in Nat /\ F + 0 = F /\ y = 0 + z * nc
        <5> HIDE DEF T, nc
        <5>1. v * nc \in Nat
          BY <1>1
        <5> QED
          BY <1>1, <2>4, <3>2, <5>1
      <4> QED
        BY <1>1, <3>2, <3>3, <4>1, <4>2 DEF DffPlace
    <3>5. f = DffState(F, y, 0, v + z, 0, 0, "on", out)
      <4>1. DffState(F, y, 0, v + z, 0, 0, "on", out) =
              DffRecord(F, y, 0, T + y, 0, 0, F + y, "on", out)
        BY <3>3 DEF DffState
      <4>2. DffFilled(r, F, y, T + y, F + y, 0) =
              DffRecord(F, y, 0, T + y, bit, ch, F + y, "on", out)
        <5> HIDE DEF T, F
        <5> QED
          BY <1>2, DffFilledIs
      <4> QED
        BY <2>1, <3>1, <4>1, <4>2
    <3>6. f.loop = "on"
      BY <3>5, DffFields DEF DffState
    <3>7. DffSample(v + z, z, 0, 0) = n
      <4>1. DffSample(v + z, z, 0, 0) = (8 * v + 0) * nc + 0
        BY <3>3 DEF DffSample
      <4>2. (8 * v + 0) * nc + 0 = 8 * T
        <5> HIDE DEF nc
        <5> QED
          BY <1>1
      <4> QED
        BY <2>1, <4>1, <4>2
    <3> HIDE DEF n, F, T
    <3>8. /\ n \in 0 .. DffLength - 1
          /\ DffGoesOn(Dff!Advance([f EXCEPT !.out = Append(@,
                         <<f.inputBuffer + f.bufferIndex + f.currentChannel, 7 - f.currentBit>>)]),
                       n, out)
      BY <3>2, <3>4, <3>5, <3>7, DffPutsOut
    <3> QED
      BY <2>2, <3>6, <3>8 DEF n
  <2> QED
    BY <2>5, <2>6, <2>7
<1> QED
  BY <1>4, <1>5

\* The loop of a read: its turns are well-defined.
DffLoop(r)     == IF r.loop = "on" THEN Dff!ReadSample(r) ELSE r
DffTurns(n, f) == [i \in 0 .. n |-> IF i = 0 THEN Dff!Reading ELSE DffLoop(f[i - 1])]

LEMMA DffTurnsExist == \A n \in Nat : \E f : f = DffTurns(n, f)
<1> DEFINE S == {n \in Nat : \E f : f = DffTurns(n, f)}
<1>1. 0 \in S
  <2> DEFINE f == [i \in 0 .. 0 |-> Dff!Reading]
  <2>1. f = DffTurns(0, f)
    BY DEF DffTurns
  <2> QED
    BY <2>1
<1>2. ASSUME NEW n \in Nat, n \in S PROVE n + 1 \in S
  <2>1. PICK f : f = DffTurns(n, f)
    BY <1>2
  <2> DEFINE h == [i \in 0 .. n + 1 |-> IF i = n + 1 THEN DffLoop(f[n]) ELSE f[i]]
  <2>2. \A i \in 0 .. n : f[i] = IF i = 0 THEN Dff!Reading ELSE DffLoop(f[i - 1])
    BY <2>1 DEF DffTurns
  <2>3. \A i \in 0 .. n + 1 : h[i] = IF i = 0 THEN Dff!Reading ELSE DffLoop(h[i - 1])
    <3> SUFFICES ASSUME NEW i \in 0 .. n + 1
                 PROVE  h[i] = IF i = 0 THEN Dff!Reading ELSE DffLoop(h[i - 1])
      OBVIOUS
    <3>1. CASE i = n + 1
      <4>1. i - 1 = n /\ n \in 0 .. n + 1 /\ n # n + 1 /\ i # 0
        BY <3>1
      <4>2. h[i] = DffLoop(f[n]) /\ h[n] = f[n]
        BY <3>1, <4>1
      <4> HIDE DEF h
      <4> QED
        BY <4>1, <4>2
    <3>2. CASE i = 0
      <4>1. 0 \in 0 .. n /\ i # n + 1
        BY <3>2
      <4> QED
        BY <2>2, <3>2, <4>1
    <3>3. CASE i \in 1 .. n
      <4>1. i \in 0 .. n /\ i # n + 1 /\ i # 0 /\ i - 1 \in 0 .. n + 1 /\ i - 1 # n + 1
        BY <3>3
      <4>2. h[i] = f[i] /\ h[i - 1] = f[i - 1]
        BY <4>1
      <4> HIDE DEF h
      <4> QED
        BY <2>2, <4>1, <4>2
    <3> QED
      BY <3>1, <3>2, <3>3
  <2>4. h = [i \in 0 .. n + 1 |-> h[i]]
    OBVIOUS
  <2> HIDE DEF h
  <2>5. h = DffTurns(n + 1, h)
    BY <2>3, <2>4 DEF DffTurns
  <2> QED
    BY <2>5
<1> HIDE DEF S
<1>3. Nat \subseteq S
  BY <1>1, <1>2, InductiveSet
<1> QED
  BY <1>3 DEF S

\* What a read has done after i turns, from sample p on.
DffGot(s, p, i) ==
  \E m, e, b, v, w, bit, ch, k, loop :
    /\ DffPlace(m, e, b, v, w, bit, ch)
    /\ k \in 0 .. DffLength - p
    /\ DffSample(v, w, bit, ch) = p + k
    /\ s = DffState(m, e, b, v, bit, ch, loop, SubSeq(Dff!Stream, p + 1, p + k))
    /\ \/ loop = "on" /\ k = i
       \/ loop = "over" /\ k < i /\ p + k = DffLength /\ Dff!Complete
       \/ loop = "thrown" /\ k < i /\ p + k = DffLength /\ ~Dff!Complete

LEMMA DffStream ==
  ASSUME file \in DffFiles
  PROVE  /\ DffLength \in Nat
         /\ Dff!Stream \in Seq({Dff!Sample(n - 1) : n \in 1 .. DffLength})
         /\ Len(Dff!Stream) = DffLength
         /\ \A n \in 1 .. DffLength : Dff!Stream[n] = Dff!Sample(n - 1)
<1>1. DffLength \in Nat
  BY DffTypes, DffReadable DEF DffLength
<1>2. Dff!Stream = [n \in 1 .. DffLength |-> Dff!Sample(n - 1)]
  BY DEF Dff!Stream, DffLength
<1>3. ASSUME NEW f, NEW len \in Nat, NEW T, f = [n \in 1 .. len |-> Dff!Sample(n - 1)],
             \A n \in 1 .. len : Dff!Sample(n - 1) \in T
      PROVE  f \in Seq(T) /\ Len(f) = len
  BY <1>3
<1> DEFINE T == {Dff!Sample(n - 1) : n \in 1 .. DffLength}
<1>4. \A n \in 1 .. DffLength : Dff!Sample(n - 1) \in T
  OBVIOUS
<1> HIDE DEF T
<1>5. Dff!Stream \in Seq(T) /\ Len(Dff!Stream) = DffLength
  BY <1>1, <1>2, <1>3, <1>4
<1>6. \A n \in 1 .. DffLength : Dff!Stream[n] = Dff!Sample(n - 1)
  BY <1>2
<1> QED
  BY <1>1, <1>5, <1>6 DEF T

LEMMA DffStateIs ==
  ASSUME NEW m, NEW e, NEW b, NEW v, NEW bit, NEW ch, NEW loop, NEW out, NEW r,
         r = DffState(m, e, b, v, bit, ch, loop, out)
  PROVE  r.loop = loop /\ r.out = out
BY DffFields DEF DffState

LEMMA DffGotMore ==
  ASSUME DffOpened, NEW s, NEW p \in Nat, NEW i \in Nat, DffGot(s, p, i)
  PROVE  DffGot(DffLoop(s), p, i + 1)
<1>0. DffLength \in Nat /\ file \in DffFiles
  BY DffStream DEF DffOpened
<1>1. PICK m, e, b, v, w, bit, ch, k, loop :
        /\ DffPlace(m, e, b, v, w, bit, ch)
        /\ k \in 0 .. DffLength - p
        /\ DffSample(v, w, bit, ch) = p + k
        /\ s = DffState(m, e, b, v, bit, ch, loop, SubSeq(Dff!Stream, p + 1, p + k))
        /\ \/ loop = "on" /\ k = i
           \/ loop = "over" /\ k < i /\ p + k = DffLength /\ Dff!Complete
           \/ loop = "thrown" /\ k < i /\ p + k = DffLength /\ ~Dff!Complete
  BY DEF DffGot
<1> DEFINE out == SubSeq(Dff!Stream, p + 1, p + k)
<1> HIDE DEF out
<1>2. s = DffState(m, e, b, v, bit, ch, loop, out) /\ s.loop = loop
  BY <1>1, DffStateIs DEF out
<1>3. CASE loop = "on"
  <2>1. DffLoop(s) = Dff!ReadSample(s) /\ k = i
    BY <1>1, <1>2, <1>3 DEF DffLoop
  <2>2. CASE p + k \in 0 .. DffLength - 1 /\ DffGoesOn(Dff!ReadSample(s), p + k, out)
    <3>1. PICK m2, e2, b2, v2, w2, bit2, ch2 :
            /\ DffPlace(m2, e2, b2, v2, w2, bit2, ch2)
            /\ DffSample(v2, w2, bit2, ch2) = p + k + 1
            /\ Dff!ReadSample(s) =
                 DffState(m2, e2, b2, v2, bit2, ch2, "on", Append(out, Dff!Sample(p + k)))
      BY <2>2 DEF DffGoesOn
    <3>2. k \in Nat /\ p + k < DffLength /\ p + k + 1 \in 1 .. DffLength
          /\ k + 1 \in 0 .. DffLength - p /\ k + 1 = i + 1 /\ p + (k + 1) = p + k + 1
          /\ (p + k + 1) - 1 = p + k
      BY <1>0, <1>1, <2>1, <2>2
    <3>3. Append(out, Dff!Stream[p + k + 1]) = SubSeq(Dff!Stream, p + 1, p + (k + 1))
      BY <1>0, <3>2, DffStream, OneMoreDelivered DEF out
    <3>4. Dff!Stream[p + k + 1] = Dff!Sample(p + k)
      BY <1>0, <3>2, DffStream
    <3>5. DffLoop(s) = DffState(m2, e2, b2, v2, bit2, ch2, "on",
                                SubSeq(Dff!Stream, p + 1, p + (k + 1)))
      BY <2>1, <3>1, <3>3, <3>4
    <3> QED
      BY <3>1, <3>2, <3>5 DEF DffGot
  <2>3. CASE /\ p + k = DffLength /\ w = 0 /\ bit = 0 /\ ch = 0
             /\ IF Dff!Complete
                  THEN Dff!ReadSample(s) = DffState(m, 0, b, v, bit, ch, "over", out)
                  ELSE Dff!ReadSample(s) = DffState(m, e, b, v, bit, ch, "thrown", out)
    <3>1. k < i + 1 /\ p + k = DffLength
      BY <1>1, <2>1, <2>3
    <3>2. DffPlace(m, 0, b, v, w, bit, ch)
      BY <1>1, <2>3 DEF DffPlace
    <3>3. CASE Dff!Complete
      <4>1. DffLoop(s) = DffState(m, 0, b, v, bit, ch, "over", SubSeq(Dff!Stream, p + 1, p + k))
        BY <2>1, <2>3, <3>3 DEF out
      <4> QED
        BY <1>1, <3>1, <3>2, <3>3, <4>1 DEF DffGot
    <3>4. CASE ~Dff!Complete
      <4>1. DffLoop(s) = DffState(m, e, b, v, bit, ch, "thrown", SubSeq(Dff!Stream, p + 1, p + k))
        BY <2>1, <2>3, <3>4 DEF out
      <4>2. /\ k \in 0 .. DffLength - p
            /\ DffPlace(m, e, b, v, w, bit, ch)
            /\ DffSample(v, w, bit, ch) = p + k
        BY <1>1
      <4> QED
        BY <3>1, <3>4, <4>1, <4>2, Zenon DEF DffGot
    <3> QED
      BY <3>3, <3>4
  <2>4. s = DffState(m, e, b, v, bit, ch, "on", out) /\ DffSample(v, w, bit, ch) = p + k
    BY <1>1, <1>2, <1>3
  <2> QED
    BY <1>1, <2>2, <2>3, <2>4, DffTurn
<1>4. CASE loop # "on"
  <2>1. DffLoop(s) = s
    BY <1>2, <1>4 DEF DffLoop
  <2>2. k < i + 1
    BY <1>1, <1>4
  <2> QED
    BY <1>1, <1>4, <2>1, <2>2 DEF DffGot
<1> QED
  BY <1>3, <1>4

LEMMA DffReads ==
  ASSUME DffOpened, NEW n \in Nat,
         NEW m, NEW e, NEW b, NEW v, NEW w, NEW bit, NEW ch,
         DffPlace(m, e, b, v, w, bit, ch),
         Dff!Reading = DffState(m, e, b, v, bit, ch, "on", <<>>)
  PROVE  DffGot(Dff!AfterRead(n), DffSample(v, w, bit, ch), n)
<1> DEFINE p == DffSample(v, w, bit, ch)
           turn == CHOOSE f : f = DffTurns(n, f)
           S == {i \in Nat : i <= n => DffGot(turn[i], p, i)}
<1>0. DffLength \in Nat /\ p \in 0 .. DffLength /\ file \in DffFiles
  BY DffStream, DffNextSample DEF DffOpened
<1>1. Dff!AfterRead(n) = turn[n]
  BY DEF Dff!AfterRead, DffTurns, DffLoop
<1>2. turn = DffTurns(n, turn)
  BY DffTurnsExist
<1> HIDE DEF turn
<1>3. \A i \in 0 .. n : turn[i] = IF i = 0 THEN Dff!Reading ELSE DffLoop(turn[i - 1])
  BY <1>2 DEF DffTurns
<1>4. 0 \in S
  <2>1. SubSeq(Dff!Stream, p + 1, p + 0) = <<>>
    <3> HIDE DEF p
    <3> QED
      BY <1>0, DffStream, NothingDelivered
  <2>2. turn[0] = Dff!Reading /\ 0 \in 0 .. DffLength - p /\ p + 0 = p
    <3> HIDE DEF p
    <3> QED
      BY <1>0, <1>3
  <2>3. DffGot(turn[0], p, 0)
    BY <2>1, <2>2 DEF DffGot
  <2> QED
    BY <2>3
<1>5. ASSUME NEW i \in Nat, i \in S PROVE i + 1 \in S
  <2> SUFFICES ASSUME i + 1 <= n PROVE DffGot(turn[i + 1], p, i + 1)
    OBVIOUS
  <2>1. DffGot(turn[i], p, i) /\ i + 1 \in 0 .. n /\ i + 1 # 0 /\ (i + 1) - 1 = i
    BY <1>5
  <2>2. turn[i + 1] = DffLoop(turn[i])
    BY <1>3, <2>1
  <2> HIDE DEF p
  <2> QED
    BY <1>0, <2>1, <2>2, DffGotMore
<1> HIDE DEF S
<1>6. n \in S
  BY <1>4, <1>5, InductiveSet
<1> QED
  BY <1>1, <1>6 DEF S

\* What the reader's state says of the place in the stream.
LEMMA DffPosition ==
  ASSUME DffOpened,
         NEW m, NEW e, NEW b, NEW v, NEW w, NEW bit, NEW ch, NEW loop, NEW out,
         DffPlace(m, e, b, v, w, bit, ch),
         Dff!Reading = DffState(m, e, b, v, bit, ch, loop, out)
  PROVE  /\ Dff!Position = DffSample(v, w, bit, ch)
         /\ DffSample(v, w, bit, ch) \in 0 .. DffLength
<1> DEFINE nc == file.channels
           T == v * nc
<1>1. /\ file \in DffFiles /\ numChannels = nc /\ nc \in Nat \ {0}
      /\ v \in Nat /\ w \in 0 .. v /\ e \in Nat /\ b \in Nat /\ bit \in 0 .. 7 /\ ch \in 0 .. nc - 1
  BY DffTypes DEF DffOpened, DffPlace
<1>2. Dff!Reading = DffRecord(m, e, b, T, bit, ch, Dff!Start + T, loop, out)
  BY DEF DffState
<1>3. /\ reader.bufferIndex = b /\ reader.endOfBlock = e /\ reader.totalBytesRead = T
      /\ reader.currentBit = bit /\ reader.currentChannel = ch
  <2> DEFINE F == Dff!Start + T
  <2> HIDE DEF T, F
  <2>1. Dff!Reading = DffRecord(m, e, b, T, bit, ch, F, loop, out)
    BY <1>2 DEF F
  <2>2. /\ Dff!Reading.bufferIndex = b /\ Dff!Reading.endOfBlock = e
        /\ Dff!Reading.totalBytesRead = T
        /\ Dff!Reading.currentBit = bit /\ Dff!Reading.currentChannel = ch
    BY <2>1, DffFields
  <2>3. /\ Dff!Reading.bufferIndex = reader.bufferIndex
        /\ Dff!Reading.endOfBlock = reader.endOfBlock
        /\ Dff!Reading.totalBytesRead = reader.totalBytesRead
        /\ Dff!Reading.currentBit = reader.currentBit
        /\ Dff!Reading.currentChannel = reader.currentChannel
    BY DEF Dff!Reading
  <2> QED
    BY <2>2, <2>3
<1> DEFINE buffered == IF b >= e THEN 0 ELSE e - b
<1>4. buffered = w * nc
  <2>1. CASE w = 0
    <3>1. b >= e
      BY <2>1 DEF DffPlace
    <3>2. 0 * nc = 0
      BY <1>1
    <3> QED
      BY <2>1, <3>1, <3>2
  <2>2. CASE w # 0
    <3>1. e = b + w * nc
      BY <2>2 DEF DffPlace
    <3>2. w * nc \in Nat \ {0}
      <4> SUFFICES ASSUME NEW i \in Nat \ {0}, NEW j \in Nat \ {0} PROVE i * j \in Nat \ {0}
        BY <1>1, <2>2
      <4> QED
        OBVIOUS
    <3> HIDE DEF nc
    <3> QED
      BY <1>1, <3>1, <3>2
  <2> QED
    BY <2>1, <2>2
<1>5. Dff!Position = 8 * (v * nc - w * nc) + bit * nc + ch
  BY <1>1, <1>3, <1>4 DEF Dff!Position
<1>6. DffSample(v, w, bit, ch) = (8 * (v - w) + bit) * nc + ch
  BY DEF DffSample
<1>7. (8 * (v - w) + bit) * nc = 8 * (v * nc - w * nc) + bit * nc
  <2> HIDE DEF nc
  <2> QED
    BY <1>1
<1> QED
  BY <1>1, <1>5, <1>6, <1>7, DffNextSample
-------------------------------------------------------------------------------
(***************************************************************************)
(* The DSDIFF reader: its invariant.                                       *)
(***************************************************************************)
\* No sound data were read.
DffUnread ==
  /\ reader.totalBytesRead = 0 /\ reader.currentBit = 0 /\ reader.currentChannel = 0
  /\ reader.bufferIndex >= reader.endOfBlock

DffAtRest ==
  \E m, e, b, v, w, bit, ch :
    DffPlace(m, e, b, v, w, bit, ch) /\ Dff!Reading = DffState(m, e, b, v, bit, ch, "on", <<>>)

DffInv ==
  /\ file \in DffFiles
  /\ status \in {"opening", "chunks", "props", "open", "refused", "failed", "lost"}
  /\ err \in BOOLEAN /\ numChannels \in Nat
  /\ status = "opening" => ~err
  /\ status \in {"opening", "chunks", "props"} => DffUnread /\ block = <<>>
  /\ status \in {"chunks", "props"} => err \/ \E k : DffWalk(k)
  /\ status = "lost" => err
  /\ status = "open" => DffOpened /\ DffAtRest
  /\ status = "open" /\ block = <<>> =>
       Dff!Position = 0 \/ (Dff!Complete /\ Dff!Position = DffLength)

UnreadIs == DffUnread /\ numChannels \in Nat => Dff!Position = 0

LEMMA UnreadIsAtZero == UnreadIs
BY DEF DffUnread, Dff!Position, UnreadIs

LEMMA DffSame ==
  ASSUME file' = file
  PROVE  /\ \A m, e, b, v, w, bit, ch :
              DffPlace(m, e, b, v, w, bit, ch)' <=> DffPlace(m, e, b, v, w, bit, ch)
         /\ \A m, e, b, v, bit, ch, loop, out :
              DffState(m, e, b, v, bit, ch, loop, out)' = DffState(m, e, b, v, bit, ch, loop, out)
         /\ \A v, w, bit, ch : DffSample(v, w, bit, ch)' = DffSample(v, w, bit, ch)
         /\ DffLength' = DffLength /\ Dff!Stream' = Dff!Stream
         /\ Dff!Complete' <=> Dff!Complete
         /\ Dff!Bytes' = Dff!Bytes /\ Dff!Start' = Dff!Start
<1>1. Dff!Bytes' = Dff!Bytes /\ Dff!Start' = Dff!Start
  BY DEF Dff!Bytes, Dff!Start, Dff!Place, Dff!SoundDataChunks
<1>2. Dff!Readable' = Dff!Readable
  BY <1>1 DEF Dff!Readable
<1>3. DffLength' = DffLength /\ Dff!Stream' = Dff!Stream /\ (Dff!Complete' <=> Dff!Complete)
  BY <1>1, <1>2 DEF DffLength, Dff!Stream, Dff!Complete, Dff!Sample
<1>4. \A t : DffFetched(t)' <=> DffFetched(t)
  BY <1>1, <1>2 DEF DffFetched, Unit
<1>5. /\ \A m, e, b, v, w, bit, ch :
           DffPlace(m, e, b, v, w, bit, ch)' <=> DffPlace(m, e, b, v, w, bit, ch)
      /\ \A m, e, b, v, bit, ch, loop, out :
           DffState(m, e, b, v, bit, ch, loop, out)' = DffState(m, e, b, v, bit, ch, loop, out)
      /\ \A v, w, bit, ch : DffSample(v, w, bit, ch)' = DffSample(v, w, bit, ch)
  BY <1>1, <1>4 DEF DffPlace, DffState, DffRecord, DffSample
<1> QED
  BY <1>1, <1>3, <1>5

LEMMA DffStart ==
  ASSUME DffOpened
  PROVE  /\ DffPlace(0, Unit, Unit, 0, 0, 0, 0) /\ DffSample(0, 0, 0, 0) = 0
         /\ reader = Dff!AtStart /\ filePos = startOfData =>
              Dff!Reading = DffState(0, Unit, Unit, 0, 0, 0, "on", <<>>)
<1>1. /\ file.channels \in Nat \ {0} /\ Unit \in Nat \ {0} /\ Dff!Start \in Nat
      /\ Dff!Readable \in Nat /\ Dff!bufferSize = Unit /\ startOfData = Dff!Start
  BY DffTypes, DffReadable DEF DffOpened, Dff!bufferSize, Unit
<1>2. DffFetched(0 * file.channels)
  <2>1. 0 * file.channels = 0 /\ 0 = 0 * Unit /\ 0 \in 0 .. Dff!Readable
    BY <1>1
  <2> QED
    BY <2>1 DEF DffFetched
<1>3. DffPlace(0, Unit, Unit, 0, 0, 0, 0)
  BY <1>1, <1>2 DEF DffPlace
<1>4. DffSample(0, 0, 0, 0) = 0
  BY <1>1 DEF DffSample
<1>5. ASSUME reader = Dff!AtStart, filePos = startOfData
      PROVE  Dff!Reading = DffState(0, Unit, Unit, 0, 0, 0, "on", <<>>)
  <2>1. 0 * file.channels = 0 /\ Dff!Start + 0 * file.channels = Dff!Start
    BY <1>1
  <2>2. /\ reader.inputBuffer = 0 /\ reader.endOfBlock = Unit /\ reader.bufferIndex = Unit
        /\ reader.totalBytesRead = 0 /\ reader.currentBit = 0 /\ reader.currentChannel = 0
    BY <1>1, <1>5 DEF Dff!AtStart
  <2> QED
    BY <1>1, <1>5, <2>1, <2>2 DEF Dff!Reading, DffState, DffRecord
<1> QED
  BY <1>3, <1>4, <1>5

LEMMA DffInit == Dff!Init => DffInv
<1> SUFFICES ASSUME Dff!Init PROVE DffInv
  OBVIOUS
<1>1. /\ file \in DffFiles /\ status = "opening" /\ err = FALSE /\ numChannels = 0
      /\ reader = Dff!AtStart /\ block = <<>>
  BY DEF Dff!Init
<1>2. Dff!bufferSize \in Nat
  BY <1>1, InputFileAssumption DEF Dff!bufferSize
<1>3. DffUnread
  BY <1>1, <1>2 DEF DffUnread, Dff!AtStart
<1> QED
  BY <1>1, <1>3 DEF DffInv

\* What the steps of opening keep.
LEMMA DffOpens ==
  ASSUME file \in DffFiles, file' = file, reader' = reader, block' = block,
         DffUnread, block = <<>>, numChannels' \in Nat, err' \in BOOLEAN,
         status' \in {"chunks", "props", "refused", "failed", "lost"},
         status' \in {"chunks", "props"} => err' \/ \E k : DffWalk(k)',
         status' = "lost" => err'
  PROVE  DffInv' /\ DffUnread' /\ block' = block
<1>1. DffUnread'
  BY DEF DffUnread
<1>2. status' \in {"opening", "chunks", "props", "open", "refused", "failed", "lost"}
      /\ status' # "opening" /\ status' # "open"
  OBVIOUS
<1>3. (file \in DffFiles)' /\ block' = <<>>
  OBVIOUS
<1> QED
  BY <1>1, <1>2, <1>3 DEF DffInv

LEMMA DffReadForm ==
  ASSUME DffInv, Dff!ReadForm
  PROVE  DffInv' /\ DffUnread' /\ block' = block
<1>1. /\ file \in DffFiles /\ err \in BOOLEAN /\ numChannels \in Nat /\ DffUnread /\ block = <<>>
      /\ status = "opening" /\ status' \in {"chunks", "refused"}
      /\ filePos' = Dff!SizeOfForm /\ file' = file /\ reader' = reader /\ block' = block
      /\ err' = err /\ numChannels' = numChannels
  BY DEF DffInv, Dff!ReadForm, Dff!header
<1>2. status' = "chunks" => DffWalk(1)'
  BY <1>1, WalkStarts
<1> QED
  BY <1>1, <1>2, DffOpens

LEMMA DffNoHeader ==
  ASSUME DffInv, Dff!NoHeader
  PROVE  DffInv' /\ DffUnread' /\ block' = block
<1>1. /\ file \in DffFiles /\ err \in BOOLEAN /\ numChannels \in Nat /\ DffUnread /\ block = <<>>
      /\ status \in {"chunks", "props"} /\ Dff!Here = {}
      /\ status' = IF filePos >= file.size THEN "failed" ELSE "lost"
      /\ file' = file /\ reader' = reader /\ block' = block
      /\ err' = err /\ numChannels' = numChannels
  BY DEF DffInv, Dff!NoHeader, Dff!header
<1>2. ASSUME ~err PROVE filePos >= file.size
  <2>1. PICK k : DffWalk(k)
    BY <1>1, <1>2 DEF DffInv
  <2>2. k \in Places /\ filePos = Dff!Place[k]
    BY <2>1 DEF DffWalk
  <2>3. k \notin Chunks
    BY <1>1, <2>2 DEF Dff!Here, Chunks
  <2>4. k = Len(file.chunks) + 1
    BY <1>1, <2>2, <2>3, PlaceIs DEF Chunks, Places
  <2>5. file.size <= Dff!Place[k] /\ file.size \in Nat
    <3>1. DffLayout(file)
      BY <1>1, InputFileAssumption
    <3> QED
      BY <2>4, <3>1 DEF DffLayout, Dff!Place
  <2>6. Dff!Place[k] \in Nat
    BY <1>1, <2>2, PlacesRise
  <2> QED
    BY <2>2, <2>5, <2>6
<1> QED
  BY <1>1, <1>2, DffOpens

LEMMA DffChunkStep ==
  ASSUME DffInv, NEW k \in Dff!Here, Dff!Chunk(k)
  PROVE  DffInv' /\ DffUnread' /\ block' = block
<1>1. /\ file \in DffFiles /\ err \in BOOLEAN /\ numChannels \in Nat /\ DffUnread /\ block = <<>>
      /\ status = "chunks" /\ status' = "chunks" /\ Id(k) \notin {"PROP", "DSD"}
      /\ filePos' = filePos + Dff!SizeOfHeader + IF Id(k) = "FVER" THEN 4 ELSE file.chunks[k].size
      /\ file' = file /\ reader' = reader /\ block' = block
      /\ err' = err /\ numChannels' = numChannels
  BY DEF DffInv, Dff!Chunk, Dff!header, Id
<1>2. ASSUME ~err PROVE \E j : DffWalk(j)'
  <2>1. PICK j : DffWalk(j)
    BY <1>1, <1>2 DEF DffInv
  <2>2. j = k /\ k \in Chunks
    BY <1>1, <2>1, HereIs
  <2>3. ~Dff!IsProperty(k)
    BY <1>1, <2>1, <2>2 DEF DffWalk
  <2>4. Id(k) # "CHNL"
    BY <1>1, <2>2, <2>3, DffChunk
  <2>5. filePos' = filePos + Dff!SizeOfHeader + SizeIn(file.chunks[k])
    <3>1. Id(k) = "FVER" => file.chunks[k].size = 4
      BY <1>1, <2>2, DffChunk
    <3> QED
      BY <1>1, <3>1 DEF SizeIn, Id
  <2>6. ~Dff!IsProperty(k + 1)
    <3> SUFFICES ASSUME NEW p \in 1 .. k, file.chunks[p].id = "PROP",
                        Dff!Place[k + 1] < Dff!Place[p] + Dff!SizeOfHeader + file.chunks[p].size
                 PROVE  FALSE
      <4>1. (k + 1) - 1 = k
        BY <2>2 DEF Chunks
      <4> QED
        BY <4>1 DEF Dff!IsProperty
    <3>1. p # k
      BY <1>1 DEF Id
    <3>2. k \in Nat /\ p \in 1 .. k - 1 /\ p \in Chunks /\ k \in Places /\ k + 1 \in Places /\ p \in Places
      BY <1>1, <2>2, <3>1, PlaceIs DEF Chunks, Places
    <3>3. Dff!Place[k] < Dff!Place[k + 1] /\ Dff!Place[k] \in Nat /\ Dff!Place[k + 1] \in Nat
          /\ Dff!Place[p] \in Nat /\ file.chunks[p].size \in Nat
      BY <1>1, <3>2, PlacesRise, DffChunk
    <3>4. Dff!Place[k] < Dff!Place[p] + Dff!SizeOfHeader + file.chunks[p].size
      BY <3>3 DEF Dff!SizeOfHeader
    <3> QED
      BY <2>3, <3>2, <3>4 DEF Dff!IsProperty
  <2>7. DffWalk(k + 1)'
    BY <1>1, <2>1, <2>2, <2>4, <2>5, <2>6, WalkGoesOn
  <2> QED
    BY <2>7
<1> QED
  BY <1>1, <1>2, DffOpens

LEMMA DffProperties ==
  ASSUME DffInv, NEW k \in Dff!Here, Dff!Properties(k)
  PROVE  DffInv' /\ DffUnread' /\ block' = block
<1>1. /\ file \in DffFiles /\ err \in BOOLEAN /\ numChannels \in Nat /\ DffUnread /\ block = <<>>
      /\ status = "chunks" /\ status' = "props" /\ Id(k) = "PROP"
      /\ filePos' = filePos + Dff!SizeOfHeader + Dff!SizeOfPropType
      /\ dataRemaining' = file.chunks[k].size - Dff!SizeOfPropType
      /\ file' = file /\ reader' = reader /\ block' = block
      /\ err' = err /\ numChannels' = numChannels
  BY DEF DffInv, Dff!Properties, Dff!header, Id
<1>2. ASSUME ~err PROVE \E j : DffWalk(j)'
  <2>1. PICK j : DffWalk(j)
    BY <1>1, <1>2 DEF DffInv
  <2>2. j = k /\ k \in Chunks
    BY <1>1, <2>1, HereIs
  <2>3. SizeIn(file.chunks[k]) = Dff!SizeOfPropType
    BY <1>1 DEF SizeIn, Id
  <2>4. PICK q : Holds(k, q)
    BY <1>1, <2>2, DffChunk
  <2>5. k + 1 \in k + 1 .. q
    BY <2>2, <2>4, <1>1, PlaceIs DEF Holds, Chunks
  <2>6. dataRemaining' = EndOf(k) - Dff!Place[k + 1]
    <3>1. Dff!Place[k + 1] = Dff!Place[k] + Dff!SizeOfHeader + Dff!SizeOfPropType
      BY <1>1, <2>2, <2>3, PlaceIs
    <3>2. Dff!Place[k] \in Nat /\ file.chunks[k].size \in Nat
      BY <1>1, <2>2, PlaceIs, PlacesRise, DffChunk DEF Chunks, Places
    <3> QED
      BY <1>1, <3>1, <3>2 DEF EndOf, Dff!SizeOfHeader, Dff!SizeOfPropType
  <2>7. DffWalk(k + 1)'
    <3>1. \E p, q2 : Holds(p, q2) /\ k + 1 \in p + 1 .. q2
                     /\ dataRemaining' = EndOf(p) - Dff!Place[k + 1]
      BY <2>4, <2>5, <2>6
    <3> QED
      BY <1>1, <2>1, <2>2, <2>3, <3>1, WalkGoesOn
  <2> QED
    BY <2>7
<1> QED
  BY <1>1, <1>2, DffOpens

LEMMA DffProperty ==
  ASSUME DffInv, NEW k \in Dff!Here, Dff!Property(k)
  PROVE  DffInv' /\ DffUnread' /\ block' = block
<1> DEFINE c == file.chunks[k]
           unusable == (c.id = "CHNL" /\ c.channels > Dff!MaxChannels)
                         \/ (c.id = "CMPR" /\ c.type # "DSD")
<1>1. /\ file \in DffFiles /\ err \in BOOLEAN /\ numChannels \in Nat /\ DffUnread /\ block = <<>>
      /\ status = "props" /\ k \in Chunks
      /\ filePos' = filePos + Dff!SizeOfHeader + Dff!Consumed(c)
      /\ numChannels' = IF c.id = "CHNL" THEN c.channels ELSE numChannels
      /\ file' = file /\ reader' = reader /\ block' = block
  BY DEF DffInv, Dff!Property, Dff!header, Dff!Here, Chunks
<1>2. unusable => err' = TRUE /\ status' = "chunks"
  BY DEF Dff!Property
<1>3. ~unusable =>
        /\ dataRemaining' = dataRemaining - (Dff!SizeOfHeader + c.size)
        /\ status' = IF dataRemaining' > 0 THEN "props" ELSE "chunks"
        /\ err' = err
  BY <1>1 DEF Dff!Property
<1>4. c.id = "CHNL" => c.channels = file.channels
  BY <1>1, DffChunk DEF Id
<1>5. numChannels' \in Nat
  BY <1>1, <1>4, DffTypes
<1>6. ASSUME ~unusable, ~err PROVE \E j : DffWalk(j)'
  <2>1. PICK j : DffWalk(j)
    BY <1>1, <1>6 DEF DffInv
  <2>2. j = k
    BY <1>1, <2>1, HereIs
  <2>3. PICK p, q : Holds(p, q) /\ k \in p + 1 .. q /\ dataRemaining = EndOf(p) - Dff!Place[k]
    BY <1>1, <2>1, <2>2 DEF DffWalk
  <2>4. /\ p \in Nat /\ q \in Nat /\ k \in Nat /\ q <= Len(file.chunks) /\ Len(file.chunks) \in Nat
        /\ p \in Chunks /\ Id(p) = "PROP" /\ Dff!Place[q + 1] = EndOf(p)
    BY <1>1, <2>3, PlaceIs DEF Holds, Chunks
  <2>5. Id(k) \notin {"PROP", "DSD"}
    <3>1. PICK q2 : Holds(p, q2) /\ \A i \in p + 1 .. q2 : Id(i) \notin {"PROP", "DSD"}
      BY <1>1, <2>4, DffChunk
    <3>2. Dff!IsProperty(k)
      BY <1>1, <2>3, <2>4, PropertyIs DEF Places, Chunks
    <3>3. k \in p + 1 .. q2
      BY <1>1, <2>4, <3>1, <3>2, PropertyIs DEF Places, Chunks
    <3> QED
      BY <3>1, <3>3
  <2>6. SizeIn(c) = c.size /\ Dff!Consumed(c) = c.size /\ c.size \in Nat
    <3>1. \/ Dff!Consumed(c) = c.size
          \/ c.id = "CHNL" /\ file.channels > Dff!MaxChannels
      BY <1>1, <2>5, DffChunk DEF Id
    <3>2. Dff!Consumed(c) = c.size
      BY <1>4, <1>6, <3>1
    <3> QED
      BY <1>1, <2>5, <3>2, DffChunk DEF SizeIn, Id
  <2>7. Dff!Place[k + 1] = Dff!Place[k] + Dff!SizeOfHeader + c.size
        /\ Dff!Place[k] \in Nat /\ Dff!Place[k + 1] \in Nat /\ Dff!Place[q + 1] \in Nat
        /\ k + 1 \in Places /\ q + 1 \in Places
    <3>1. k \in Chunks /\ k \in Places /\ k + 1 \in Places /\ q + 1 \in Places
      BY <1>1, <2>3, <2>4 DEF Places, Chunks
    <3>2. Dff!Place[k + 1] = Dff!Place[k] + Dff!SizeOfHeader + c.size
      BY <1>1, <2>6, <3>1, PlaceIs
    <3>3. Dff!Place[k] \in Nat /\ Dff!Place[k + 1] \in Nat /\ Dff!Place[q + 1] \in Nat
      BY <1>1, <3>1, PlacesRise
    <3> QED
      BY <3>1, <3>2, <3>3
  <2>8. dataRemaining' = EndOf(p) - Dff!Place[k + 1]
    <3>1. dataRemaining' = dataRemaining - (Dff!SizeOfHeader + c.size)
      BY <1>3, <1>6
    <3>2. EndOf(p) \in Nat
      BY <2>4, <2>7
    <3> HIDE DEF c
    <3> QED
      BY <2>3, <2>6, <2>7, <3>1, <3>2 DEF Dff!SizeOfHeader
  <2>9. dataRemaining' > 0 <=> k + 1 <= q
    <3>1. /\ k + 1 < q + 1 => Dff!Place[k + 1] < Dff!Place[q + 1]
          /\ q + 1 < k + 1 => Dff!Place[q + 1] < Dff!Place[k + 1]
      BY <1>1, <2>7, PlacesRise
    <3>2. k + 1 < q + 1 \/ k + 1 = q + 1 \/ q + 1 < k + 1
      BY <2>4
    <3> QED
      BY <2>4, <2>7, <2>8, <3>1, <3>2
  <2>10. status' = "props" => k + 1 \in p + 1 .. q
    BY <1>3, <1>6, <2>3, <2>4, <2>9
  <2>11. status' = "chunks" => ~Dff!IsProperty(k + 1)
    <3> SUFFICES ASSUME status' = "chunks" PROVE ~Dff!IsProperty(k + 1)
      OBVIOUS
    <3>1. k + 1 \notin p + 1 .. q
      BY <1>3, <1>6, <2>4, <2>9
    <3> QED
      BY <1>1, <2>3, <2>7, <3>1, PropertyIs
  <2>12. DffWalk(k + 1)'
    <3>1. status' = "props" =>
            \E p2, q2 : Holds(p2, q2) /\ k + 1 \in p2 + 1 .. q2
                        /\ dataRemaining' = EndOf(p2) - Dff!Place[k + 1]
      BY <2>3, <2>8, <2>10
    <3>2. filePos' = filePos + Dff!SizeOfHeader + SizeIn(file.chunks[k])
      BY <1>1, <2>6
    <3>3. /\ Id(k) = "CHNL" => numChannels' = file.channels
          /\ Id(k) # "CHNL" => numChannels' = numChannels
          /\ numChannels' \in {numChannels, file.channels}
      BY <1>1, <1>4 DEF Id
    <3> QED
      BY <1>1, <2>1, <2>2, <2>11, <3>1, <3>2, <3>3, WalkGoesOn
  <2> QED
    BY <2>12
<1>7. status' \in {"chunks", "props"} /\ err' \in BOOLEAN
  <2> HIDE DEF unusable
  <2> QED
    BY <1>1, <1>2, <1>3
<1>8. err' \/ \E j : DffWalk(j)'
  <2> HIDE DEF unusable
  <2> QED
    BY <1>1, <1>2, <1>3, <1>6
<1> QED
  BY <1>1, <1>5, <1>7, <1>8, DffOpens

\* At rest the state is that of a place.
DffStartIs ==
  DffOpened /\ reader = Dff!AtStart /\ filePos = startOfData => DffAtRest

LEMMA DffStartRests == DffStartIs
BY DffStart DEF DffAtRest, DffStartIs

DffRestIs ==
  \A m, e, b, v, w, bit, ch :
    /\ DffOpened /\ DffPlace(m, e, b, v, w, bit, ch)
    /\ Dff!Reading = DffState(m, e, b, v, bit, ch, "on", <<>>)
    => DffAtRest /\ Dff!Position = DffSample(v, w, bit, ch)

LEMMA DffRest == DffRestIs
BY DffPosition DEF DffAtRest, DffRestIs

\* At the sound data.
LEMMA DffSoundData ==
  ASSUME DffInv, NEW k \in Dff!Here, Dff!SoundData(k)
  PROVE  DffInv' /\ Dff!Position' = 0 /\ block' = block
<1>1. /\ file \in DffFiles /\ err \in BOOLEAN /\ numChannels \in Nat /\ block = <<>>
      /\ status = "chunks" /\ Id(k) = "DSD" /\ status' = IF err THEN "refused" ELSE "open"
      /\ totalSoundDataBytes' = file.chunks[k].size
      /\ filePos' = filePos + Dff!SizeOfHeader /\ startOfData' = filePos'
      /\ reader' = Dff!AtStart' /\ file' = file /\ block' = block
      /\ err' = err /\ numChannels' = numChannels
  BY DEF DffInv, Dff!SoundData, Id, Dff!AtStart, Dff!bufferSize
<1>2. DffUnread'
  <2>1. Dff!bufferSize' \in Nat
    BY <1>1, InputFileAssumption DEF Dff!bufferSize
  <2> QED
    BY <1>1, <2>1 DEF DffUnread, Dff!AtStart
<1>3. Dff!Position' = 0
  BY <1>1, <1>2 DEF DffUnread, Dff!Position
<1>4. ASSUME ~err PROVE DffOpened' /\ DffAtRest'
  <2>1. PICK j : DffWalk(j)
    BY <1>1, <1>4 DEF DffInv
  <2>2. j = k /\ k \in Chunks
    BY <1>1, <2>1, HereIs
  <2>3. numChannels = file.channels /\ filePos = Dff!Place[k]
    BY <1>1, <2>1, <2>2, DffChunk DEF DffWalk
  <2>4. Dff!Start = filePos' /\ Dff!Bytes = totalSoundDataBytes'
    BY <1>1, <2>2, <2>3, SoundDataIs
  <2>5. Dff!Bytes' = Dff!Bytes /\ Dff!Start' = Dff!Start
    BY <1>1, DffSame
  <2>6. DffOpened'
    BY <1>1, <2>3, <2>4, <2>5 DEF DffOpened
  <2>7. DffStartIs'
    BY DffStartRests, PTL
  <2> QED
    BY <1>1, <2>6, <2>7 DEF DffStartIs
<1>5. file' \in DffFiles /\ err' \in BOOLEAN /\ numChannels' \in Nat
  BY <1>1
<1> QED
  BY <1>1, <1>3, <1>4, <1>5 DEF DffInv

LEMMA DffOpening ==
  ASSUME DffInv, Dff!Opening
  PROVE  /\ DffInv' /\ Dff!Position' = 0 /\ block' = block /\ file' = file
         /\ status \in {"opening", "chunks", "props"} /\ Dff!Position = 0
         /\ status' \in {"chunks", "props", "open", "refused", "failed", "lost"}
<1>1. /\ status \in {"opening", "chunks", "props"} /\ file' = file
      /\ status' \in {"chunks", "props", "open", "refused", "failed", "lost"}
  BY DEF Dff!Opening, Dff!ReadForm, Dff!NoHeader, Dff!Chunk, Dff!Properties, Dff!Property,
         Dff!SoundData
<1>2. Dff!Position = 0
  BY <1>1, UnreadIsAtZero DEF DffInv, UnreadIs
<1>3. ASSUME DffInv', DffUnread' PROVE Dff!Position' = 0
  <2>1. numChannels' \in Nat
    BY <1>3 DEF DffInv
  <2>2. UnreadIs'
    BY UnreadIsAtZero, PTL
  <2> QED
    BY <1>3, <2>1, <2>2 DEF UnreadIs
<1>4. CASE Dff!ReadForm
  BY <1>1, <1>2, <1>3, <1>4, DffReadForm
<1>5. CASE Dff!NoHeader
  BY <1>1, <1>2, <1>3, <1>5, DffNoHeader
<1>6. ASSUME NEW k \in Dff!Here, Dff!Chunk(k) \/ Dff!Properties(k) \/ Dff!Property(k) \/ Dff!SoundData(k)
      PROVE  DffInv' /\ Dff!Position' = 0 /\ block' = block
  BY <1>3, <1>6, DffChunkStep, DffProperties, DffProperty, DffSoundData
<1> QED
  BY <1>1, <1>2, <1>4, <1>5, <1>6 DEF Dff!Opening

\* What a step of the open reader has to leave behind it.
LEMMA DffInvNext ==
  ASSUME DffInv, DffOpened, UNCHANGED <<file, Dff!header>>,
         NEW m, NEW e, NEW b, NEW v, NEW w, NEW bit, NEW ch,
         DffPlace(m, e, b, v, w, bit, ch),
         Dff!Reading' = DffState(m, e, b, v, bit, ch, "on", <<>>),
         status' \in {"open", "failed"},
         status' = "open" /\ block' = <<>> =>
           DffSample(v, w, bit, ch) = 0 \/ (Dff!Complete /\ DffSample(v, w, bit, ch) = DffLength)
  PROVE  DffInv' /\ Dff!Position' = DffSample(v, w, bit, ch)
<1>1. /\ file' = file /\ numChannels' = numChannels /\ err' = err
      /\ totalSoundDataBytes' = totalSoundDataBytes /\ startOfData' = startOfData
  BY DEF Dff!header
<1>2. /\ DffPlace(m, e, b, v, w, bit, ch)'
      /\ Dff!Reading' = DffState(m, e, b, v, bit, ch, "on", <<>>)'
      /\ DffSample(v, w, bit, ch)' = DffSample(v, w, bit, ch)
      /\ (Dff!Complete' <=> Dff!Complete) /\ DffLength' = DffLength
      /\ Dff!Bytes' = Dff!Bytes /\ Dff!Start' = Dff!Start
  BY <1>1, DffSame
<1>3. DffOpened'
  BY <1>1, <1>2 DEF DffOpened
<1>4. DffRestIs'
  BY DffRest, PTL
<1>5. DffAtRest' /\ Dff!Position' = DffSample(v, w, bit, ch)
  BY <1>2, <1>3, <1>4 DEF DffRestIs
<1>6. status' = "open" /\ block' = <<>> =>
        Dff!Position' = 0 \/ (Dff!Complete' /\ Dff!Position' = DffLength')
  BY <1>2, <1>5
<1>7. file' \in DffFiles /\ err' \in BOOLEAN /\ numChannels' \in Nat
  BY <1>1 DEF DffInv
<1>8. status' \in {"opening", "chunks", "props", "open", "refused", "failed", "lost"}
      /\ status' \notin {"opening", "chunks", "props", "lost"}
  OBVIOUS
<1> QED
  BY ONLY <1>3, <1>5, <1>6, <1>7, <1>8 DEF DffInv

\* What comes of a read of n samples.
DffHasRead(s, p, n, m, e, b, v, w, bit, ch, k) ==
  /\ DffPlace(m, e, b, v, w, bit, ch)
  /\ k \in 0 .. DffLength - p
  /\ DffSample(v, w, bit, ch) = p + k
  /\ s.out = SubSeq(Dff!Stream, p + 1, p + k)
  /\ \/ s.loop # "thrown" /\ k = n
     \/ s.loop # "thrown" /\ k < n /\ p + k = DffLength /\ Dff!Complete
     \/ s.loop = "thrown" /\ k < n /\ p + k = DffLength /\ ~Dff!Complete

LEMMA DffReadIs ==
  ASSUME NEW s, NEW p, NEW n, DffGot(s, p, n), reader' = Dff!Kept(s), filePos' = s.filePos
  PROVE  \E m, e, b, v, w, bit, ch, k :
           /\ DffHasRead(s, p, n, m, e, b, v, w, bit, ch, k)
           /\ Dff!Reading' = DffState(m, e, b, v, bit, ch, "on", <<>>)
<1>1. PICK m, e, b, v, w, bit, ch, k, loop :
        /\ DffPlace(m, e, b, v, w, bit, ch)
        /\ k \in 0 .. DffLength - p
        /\ DffSample(v, w, bit, ch) = p + k
        /\ s = DffState(m, e, b, v, bit, ch, loop, SubSeq(Dff!Stream, p + 1, p + k))
        /\ \/ loop = "on" /\ k = n
           \/ loop = "over" /\ k < n /\ p + k = DffLength /\ Dff!Complete
           \/ loop = "thrown" /\ k < n /\ p + k = DffLength /\ ~Dff!Complete
  BY DEF DffGot
<1> DEFINE out == SubSeq(Dff!Stream, p + 1, p + k)
           T == v * file.channels
           F == Dff!Start + T
<1>2. s = DffRecord(m, e, b, T, bit, ch, F, loop, out)
  BY <1>1 DEF DffState
<1>3. DffState(m, e, b, v, bit, ch, "on", <<>>) = DffRecord(m, e, b, T, bit, ch, F, "on", <<>>)
  BY DEF DffState
<1> HIDE DEF T, F, out
<1>4. /\ s.inputBuffer = m /\ s.endOfBlock = e /\ s.bufferIndex = b /\ s.totalBytesRead = T
      /\ s.currentBit = bit /\ s.currentChannel = ch /\ s.filePos = F
      /\ s.loop = loop /\ s.out = out
  BY <1>2, DffFields
<1>5. Dff!Reading' = DffRecord(m, e, b, T, bit, ch, F, "on", <<>>)
  <2>1. /\ reader'.inputBuffer = m /\ reader'.endOfBlock = e /\ reader'.bufferIndex = b
        /\ reader'.totalBytesRead = T /\ reader'.currentBit = bit /\ reader'.currentChannel = ch
    BY <1>4 DEF Dff!Kept
  <2> QED
    BY <1>4, <2>1 DEF Dff!Reading, DffRecord
<1>6. DffHasRead(s, p, n, m, e, b, v, w, bit, ch, k)
  BY <1>1, <1>4 DEF DffHasRead, out
<1> QED
  BY <1>3, <1>5, <1>6

\* The phase that SampleStream sees.
PhaseOf(x) ==
  CASE x \in {"chunks", "props"} -> "opening" [] x = "lost" -> "failed" [] OTHER -> x

LEMMA DffStepIs ==
  ASSUME kind = "dff", kind' = "dff", DffInv, Dff!Next
  PROVE  DffInv' /\ (AsStream!Next \/ UNCHANGED AsStream!vars)
<1> DEFINE S == Dff!Stream
           L == DffLength
<1>1. file' = file /\ file \in DffFiles
  BY DEF Dff!Next, Dff!Opening, Dff!ReadForm, Dff!NoHeader, Dff!Chunk, Dff!Properties,
         Dff!Property, Dff!SoundData, Dff!Read, Dff!Seek, DffInv
<1>2. S' = S /\ (Dff!Complete' <=> Dff!Complete)
  BY <1>1, DffSame
<1>3. /\ StreamPhase = PhaseOf(status) /\ StreamSamples = S
      /\ StreamComplete <=> Dff!Complete
      /\ StreamPosition = Dff!Position /\ StreamBlock = block
  BY DEF StreamPhase, StreamSamples, StreamComplete, StreamPosition, StreamBlock, PhaseOf
<1>4. /\ StreamPhase' = PhaseOf(status') /\ StreamSamples' = S
      /\ StreamPosition' = Dff!Position' /\ StreamBlock' = block'
  BY <1>2 DEF StreamPhase, StreamSamples, StreamPosition, StreamBlock, PhaseOf
<1>5. StreamComplete' = StreamComplete
  BY <1>2 DEF StreamComplete
<1> Dff!Complete \in BOOLEAN
  BY DEF Dff!Complete
<1>6. CASE Dff!Opening
  <2>1. /\ DffInv' /\ Dff!Position' = Dff!Position /\ block' = block
        /\ status \in {"opening", "chunks", "props"}
        /\ status' \in {"chunks", "props", "open", "refused", "failed", "lost"}
    BY <1>6, DffOpening
  <2>2. StreamPhase = "opening" /\ StreamPhase' \in {"opening", "open", "refused", "failed"}
    BY <1>3, <1>4, <2>1 DEF PhaseOf
  <2> HIDE DEF S
  <2>3. /\ StreamSamples' = StreamSamples /\ StreamPosition' = StreamPosition
        /\ StreamBlock' = StreamBlock
    BY <1>3, <1>4, <2>1
  <2> QED
    BY <1>5, <2>1, <2>2, <2>3, OpeningIsOpen
<1>7. ASSUME status = "open"
      PROVE  /\ DffOpened /\ StreamPhase = "open" /\ Dff!Position \in 0 .. L /\ L \in Nat
             /\ Len(S) = L
             /\ \E m, e, b, v, w, bit, ch :
                  /\ DffPlace(m, e, b, v, w, bit, ch)
                  /\ Dff!Reading = DffState(m, e, b, v, bit, ch, "on", <<>>)
                  /\ Dff!Position = DffSample(v, w, bit, ch)
  <2>1. DffOpened /\ DffAtRest
    BY <1>7 DEF DffInv
  <2>2. PICK m, e, b, v, w, bit, ch :
          /\ DffPlace(m, e, b, v, w, bit, ch)
          /\ Dff!Reading = DffState(m, e, b, v, bit, ch, "on", <<>>)
    BY <2>1 DEF DffAtRest
  <2>3. Dff!Position = DffSample(v, w, bit, ch) /\ DffSample(v, w, bit, ch) \in 0 .. L
    BY <2>1, <2>2, DffPosition
  <2>4. StreamPhase = "open"
    BY <1>3, <1>7 DEF PhaseOf
  <2>5. L \in Nat /\ Len(S) = L
    BY <1>1, DffStream
  <2> HIDE DEF S, L
  <2> QED
    BY <2>1, <2>2, <2>3, <2>4, <2>5
<1>8. ASSUME NEW n \in ReadSizes, Dff!Read(n)
      PROVE  DffInv' /\ AsStream!Next
  <2> DEFINE s == Dff!AfterRead(n)
             p == Dff!Position
  <2>1. n \in Nat /\ n # 0
    BY InputFileAssumption
  <2>2. /\ status = "open" /\ reader' = Dff!Kept(s) /\ filePos' = s.filePos
        /\ status' = IF s.loop = "thrown" THEN "failed" ELSE status
        /\ block' = IF s.loop = "thrown" THEN block ELSE s.out
        /\ UNCHANGED <<file, Dff!header>>
    BY <1>8 DEF Dff!Read
  <2> HIDE DEF s, p
  <2>3. p \in 0 .. L /\ L \in Nat /\ Len(S) = L /\ DffOpened /\ StreamPhase = "open"
    BY <1>7, <2>2 DEF p
  <2>4. DffGot(s, p, n)
    <3>1. PICK m, e, b, v, w, bit, ch :
            /\ DffPlace(m, e, b, v, w, bit, ch)
            /\ Dff!Reading = DffState(m, e, b, v, bit, ch, "on", <<>>)
            /\ p = DffSample(v, w, bit, ch)
      BY <1>7, <2>2 DEF p
    <3> QED
      BY <2>1, <2>3, <3>1, DffReads DEF s
  <2>5. PICK m, e, b, v, w, bit, ch, k :
          /\ DffHasRead(s, p, n, m, e, b, v, w, bit, ch, k)
          /\ Dff!Reading' = DffState(m, e, b, v, bit, ch, "on", <<>>)
    BY <2>2, <2>4, DffReadIs
  <2> DEFINE got == SubSeq(S, p + 1, p + k)
             q == DffSample(v, w, bit, ch)
  <2>6. /\ DffPlace(m, e, b, v, w, bit, ch) /\ k \in 0 .. L - p /\ q = p + k
        /\ s.out = got
        /\ \/ s.loop # "thrown" /\ k = n
           \/ s.loop # "thrown" /\ k < n /\ p + k = L /\ Dff!Complete
           \/ s.loop = "thrown" /\ k < n /\ p + k = L /\ ~Dff!Complete
    BY <2>5 DEF DffHasRead
  <2>7. got = <<>> => k = 0
    <3> HIDE DEF L
    <3>1. k \in Nat /\ p \in Nat /\ p + k <= L
      BY <2>3, <2>6
    <3>2. S \in Seq({Dff!Sample(i - 1) : i \in 1 .. L})
      BY <1>1, DffStream DEF L
    <3> HIDE DEF S
    <3> QED
      BY <2>3, <3>1, <3>2, DeliveredNothing
  <2>8. (status' = "open" /\ block' = got) \/ (status' = "failed" /\ block' = block)
    <3> HIDE DEF got
    <3> QED
      BY <2>2, <2>6
  <2>9. DffInv' /\ Dff!Position' = p + k
    <3>1. status' = "open" /\ block' = <<>> => q = 0 \/ (Dff!Complete /\ q = L)
      <4> HIDE DEF got, S, L, q
      <4> QED
        BY <2>1, <2>2, <2>6, <2>7
    <3>2. status' \in {"open", "failed"}
      BY <2>8
    <3>3. DffInv' /\ Dff!Position' = q
      BY <2>2, <2>3, <2>5, <2>6, <3>1, <3>2, DffInvNext
    <3> QED
      BY <2>6, <3>3
  <2>10. /\ StreamSamples' = StreamSamples
         /\ StreamPosition' = StreamPosition + k /\ StreamPosition \in Nat
         /\ Len(StreamSamples) = L /\ Len(StreamSamples) \in Nat
         /\ StreamPhase' = status' /\ StreamBlock' = block' /\ StreamPosition = p
    <3>1. PhaseOf(status') = status'
      BY <2>8 DEF PhaseOf
    <3> QED
      BY <1>3, <1>4, <2>3, <2>9, <3>1 DEF p
  <2> HIDE DEF q, got, L, S
  <2>11. k \in Nat /\ StreamPosition + k <= Len(StreamSamples)
    BY <2>3, <2>6, <2>10
  <2>12. CASE s.loop # "thrown"
    <3>1. k = n \/ (k < n /\ StreamPosition + k = Len(StreamSamples) /\ StreamComplete)
      BY <1>3, <2>6, <2>10, <2>12
    <3>2. StreamPhase' = "open" /\ StreamBlock' = got
      BY <2>2, <2>6, <2>10, <2>12
    <3>3. got = SubSeq(StreamSamples, StreamPosition + 1, StreamPosition + k)
      BY <1>3, <2>10 DEF got
    <3> QED
      BY <1>5, <2>3, <2>9, <2>10, <2>11, <3>1, <3>2, <3>3, DeliveryIsRead
  <2>13. CASE s.loop = "thrown"
    <3>1. k < n /\ StreamPosition + k = Len(StreamSamples) /\ ~StreamComplete
      BY <1>3, <2>6, <2>10, <2>13
    <3>2. StreamPhase' = "failed" /\ StreamBlock' = StreamBlock
      BY <1>3, <2>2, <2>10, <2>13
    <3> QED
      BY <1>5, <2>3, <2>9, <2>10, <2>11, <3>1, <3>2, FailureIsReadFails
  <2> QED
    BY <2>12, <2>13
<1>9. CASE Dff!Seek
  <2>1. /\ status = "open" /\ status' = "open" /\ reader' = Dff!AtStart /\ block' = <<>>
        /\ filePos' = startOfData /\ UNCHANGED <<file, Dff!header>>
    BY <1>9 DEF Dff!Seek
  <2>2. DffOpened /\ StreamPhase = "open"
    BY <1>7, <2>1
  <2>3. DffPlace(0, Unit, Unit, 0, 0, 0, 0) /\ DffSample(0, 0, 0, 0) = 0
    BY <2>2, DffStart
  <2>4. Dff!Reading' = DffState(0, Unit, Unit, 0, 0, 0, "on", <<>>)
    <3>1. /\ file.channels \in Nat /\ Dff!Start \in Nat /\ Dff!bufferSize = Unit
          /\ startOfData = Dff!Start
      BY <2>2, DffTypes DEF DffOpened, Dff!bufferSize, Unit
    <3>2. 0 * file.channels = 0 /\ Dff!Start + 0 * file.channels = Dff!Start
      BY <3>1
    <3>3. /\ reader'.inputBuffer = 0 /\ reader'.endOfBlock = Unit /\ reader'.bufferIndex = Unit
          /\ reader'.totalBytesRead = 0 /\ reader'.currentBit = 0 /\ reader'.currentChannel = 0
      BY <2>1, <3>1 DEF Dff!AtStart
    <3> QED
      BY <2>1, <3>1, <3>2, <3>3 DEF Dff!Reading, DffState, DffRecord
  <2>5. DffInv' /\ Dff!Position' = 0
    <3> DEFINE q == DffSample(0, 0, 0, 0)
    <3>1. status' = "open" /\ block' = <<>> => q = 0 \/ (Dff!Complete /\ q = L)
      BY <2>3
    <3>2. DffInv' /\ Dff!Position' = q
      BY <2>1, <2>2, <2>3, <2>4, <3>1, DffInvNext
    <3> QED
      BY <2>3, <3>2
  <2> HIDE DEF S, L
  <2>6. /\ StreamPhase' = "open" /\ StreamSamples' = StreamSamples
        /\ StreamPosition' = 0 /\ StreamBlock' = <<>>
    BY <1>3, <1>4, <2>1, <2>5 DEF PhaseOf
  <2> QED
    BY <1>5, <2>2, <2>5, <2>6, SeekIsRewind
<1> QED
  BY <1>6, <1>8, <1>9 DEF Dff!Next
-------------------------------------------------------------------------------
(***************************************************************************)
(* The I/Q reader: reading.                                                *)
(***************************************************************************)
IQRecord(f, seeks, h, p, out) ==
  [frame |-> f, seeks |-> seeks, phaseHistory |-> h, differentiatorIndex |-> p, out |-> out]

\* The newest frames are in the history, from the index on.
IsHistory(h, p, f, len) ==
  /\ p \in 0 .. len - 1 /\ h = [k \in 0 .. len - 1 |-> h[k]]
  /\ \A k \in 0 .. len - 1 : k < f => h[(p + 1 + k) % len] = f - k

IQHistory(h, p, f) == IsHistory(h, p, f, IQ!differentiatorLength)

\* So they are from an index on, before it moves.
IQWindow(h, p, f) ==
  \A j \in 0 .. IQ!differentiatorLength - 1 :
    j < f => h[(p + j) % IQ!differentiatorLength] = f - j

\* What Settled makes of one sample.
SettledOne(x) ==
  IF ~IQ!FM THEN x
  ELSE IF IQ!channels = 2 THEN <<x[1], IQ!Settle(x[2])>> ELSE IQ!Settle(x)

IQLength == IQ!channels * file.frames

IsSequence(s) == Len(s) \in Nat /\ s = [i \in 1 .. Len(s) |-> s[i]]

LEMMA SequenceIs ==
  ASSUME NEW s, IsSequence(s)
  PROVE  \E T : s \in Seq(T)
<1> DEFINE T == {s[i] : i \in 1 .. Len(s)}
<1>1. ASSUME NEW n \in Nat, n = Len(s) PROVE s \in Seq(T)
  <2>1. s = [i \in 1 .. n |-> s[i]] /\ \A i \in 1 .. n : s[i] \in T
    BY <1>1 DEF IsSequence
  <2> HIDE DEF T
  <2> QED
    BY <2>1
<1>2. s \in Seq(T)
  BY <1>1 DEF IsSequence
<1> QED
  BY <1>2

LEMMA IsSequenceIs ==
  ASSUME NEW T, NEW s \in Seq(T)
  PROVE  IsSequence(s)
BY DEF IsSequence

LEMMA AppendIs ==
  ASSUME NEW s, IsSequence(s), NEW x
  PROVE  /\ IsSequence(Append(s, x)) /\ Len(Append(s, x)) = Len(s) + 1
         /\ \A i \in 1 .. Len(s) : Append(s, x)[i] = s[i]
         /\ Append(s, x)[Len(s) + 1] = x
<1>1. PICK T : s \in Seq(T)
  BY SequenceIs
<1> DEFINE U == T \cup {x}
<1>2. s \in Seq(U) /\ x \in U
  BY <1>1
<1> HIDE DEF U
<1>3. Append(s, x) \in Seq(U) /\ Len(Append(s, x)) = Len(s) + 1
  BY <1>2
<1>4. IsSequence(Append(s, x))
  BY <1>3, IsSequenceIs
<1> QED
  BY <1>2, <1>3, <1>4

LEMMA ConcatIs ==
  ASSUME NEW s, IsSequence(s), NEW x, NEW y
  PROVE  /\ s \o <<x>> = Append(s, x)
         /\ s \o <<x, y>> = Append(Append(s, x), y)
<1>1. PICK T : s \in Seq(T)
  BY SequenceIs
<1> DEFINE U == T \cup {x, y}
<1>2. s \in Seq(U) /\ x \in U /\ y \in U
  BY <1>1
<1> HIDE DEF U
<1> QED
  BY <1>2

LEMMA IQTypes ==
  ASSUME file \in IQFiles
  PROVE  /\ IQ!channels \in {1, 2} /\ IQ!differentiatorLength \in {10, 19}
         /\ file.frames \in Nat /\ IQLength \in Nat
         /\ IQ!channels = 2 => IQ!FM
<1>1. IQ!channels \in {1, 2} /\ file.frames \in Nat
  BY InputFileAssumption DEF IQ!channels
<1>2. IQLength \in Nat
  BY <1>1 DEF IQLength
<1> QED
  BY <1>1, <1>2 DEF IQ!channels, IQ!differentiatorLength, IQ!FM

LEMMA IQStream ==
  ASSUME file \in IQFiles
  PROVE  /\ Len(IQ!Stream) = IQLength /\ IQ!Stream \in Seq({IQ!Stream[k] : k \in 1 .. IQLength})
         /\ \A f \in Nat : f < file.frames =>
              IF IQ!channels = 2
                THEN /\ IQ!Stream[2 * f + 1] = <<1, IQ!Sample(f + 1)>>
                     /\ IQ!Stream[2 * f + 2] = <<2, IQ!Sample(f + 1)>>
                ELSE IQ!Stream[f + 1] = IQ!Sample(f + 1)
<1> DEFINE Elt(k) == IF IQ!channels = 2
                       THEN <<1 + ((k - 1) % 2), IQ!Sample(1 + (k - 1) \div 2)>>
                       ELSE IQ!Sample(k)
<1>1. IQ!Stream = [k \in 1 .. IQLength |-> Elt(k)]
  BY DEF IQ!Stream, IQLength
<1>2. ASSUME NEW s, NEW len \in Nat, s = [k \in 1 .. len |-> Elt(k)]
      PROVE  Len(s) = len /\ s \in Seq({s[k] : k \in 1 .. len})
  <2> DEFINE T == {s[k] : k \in 1 .. len}
  <2>1. \A k \in 1 .. len : s[k] \in T
    OBVIOUS
  <2> HIDE DEF T, Elt
  <2>2. s = [k \in 1 .. len |-> s[k]]
    BY <1>2
  <2>3. s \in Seq(T) /\ Len(s) = len
    BY <2>1, <2>2
  <2> QED
    BY <2>3 DEF T
<1>3. IQLength \in Nat /\ file.frames \in Nat /\ IQ!channels \in {1, 2}
  BY IQTypes
<1>4. ASSUME NEW f \in Nat, f < file.frames, IQ!channels = 2
      PROVE  /\ IQ!Stream[2 * f + 1] = <<1, IQ!Sample(f + 1)>>
             /\ IQ!Stream[2 * f + 2] = <<2, IQ!Sample(f + 1)>>
  <2>1. 2 * f + 1 \in 1 .. IQLength /\ 2 * f + 2 \in 1 .. IQLength
    BY <1>3, <1>4 DEF IQLength
  <2>2. /\ (2 * f) % 2 = 0 /\ (2 * f) \div 2 = f /\ (2 * f + 1) % 2 = 1 /\ (2 * f + 1) \div 2 = f
        /\ (2 * f + 1) - 1 = 2 * f /\ (2 * f + 2) - 1 = 2 * f + 1 /\ 1 + f = f + 1
    OBVIOUS
  <2>3. Elt(2 * f + 1) = <<1, IQ!Sample(f + 1)>> /\ Elt(2 * f + 2) = <<2, IQ!Sample(f + 1)>>
    BY <1>4, <2>2
  <2> QED
    BY <1>1, <2>1, <2>3
<1>5. ASSUME NEW f \in Nat, f < file.frames, IQ!channels # 2
      PROVE  IQ!Stream[f + 1] = IQ!Sample(f + 1)
  <2>1. f + 1 \in 1 .. IQLength
    BY <1>3, <1>5 DEF IQLength
  <2> QED
    BY <1>1, <1>5, <2>1
<1> HIDE DEF Elt
<1>6. Len(IQ!Stream) = IQLength /\ IQ!Stream \in Seq({IQ!Stream[k] : k \in 1 .. IQLength})
  BY <1>1, <1>2, <1>3
<1> QED
  BY <1>4, <1>5, <1>6

\* An index that has gone round the ring at most once.
LEMMA RoundTheRing ==
  ASSUME NEW m \in {10, 19}, NEW s \in 0 .. 2 * m - 1
  PROVE  s % m = IF s < m THEN s ELSE s - m
<1>1. CASE m = 10
  BY <1>1
<1>2. CASE m = 19
  BY <1>2
<1> QED
  BY <1>1, <1>2

\* A frame goes into the history.
LEMMA HistoryGoesOn ==
  ASSUME file \in IQFiles, NEW h, NEW p, NEW f \in Nat, IQHistory(h, p, f), NEW h2, NEW p2,
         h2 = [h EXCEPT ![p] = f + 1],
         p2 = IF p = 0 THEN IQ!differentiatorLength - 1 ELSE p - 1
  PROVE  IQHistory(h2, p2, f + 1) /\ IQWindow(h2, p, f + 1)
<1> DEFINE m == IQ!differentiatorLength
<1>1. m \in {10, 19} /\ p \in 0 .. m - 1 /\ h = [k \in 0 .. m - 1 |-> h[k]]
      /\ \A k \in 0 .. m - 1 : k < f => h[(p + 1 + k) % m] = f - k
  BY IQTypes DEF IQHistory, IsHistory
<1> HIDE DEF m
<1>2. h2 = [k \in 0 .. m - 1 |-> h2[k]] /\ h2[p] = f + 1
      /\ \A k \in 0 .. m - 1 : k # p => h2[k] = h[k]
  BY <1>1
<1>3. ASSUME NEW j \in 0 .. m - 1, j < f + 1
      PROVE  h2[(p + j) % m] = f + 1 - j
  <2>1. CASE j = 0
    <3>1. p \in 0 .. 2 * m - 1 /\ p < m /\ p + j = p
      BY <1>1, <2>1
    <3>2. (p + j) % m = p
      BY <1>1, <3>1, RoundTheRing
    <3> QED
      BY <1>2, <2>1, <3>2
  <2>2. CASE j # 0
    <3>1. /\ j - 1 \in 0 .. m - 1 /\ j - 1 < f /\ p + 1 + (j - 1) = p + j
          /\ f - (j - 1) = f + 1 - j
      BY <1>1, <1>3, <2>2
    <3>2. (p + j) % m \in 0 .. m - 1 /\ (p + j) % m # p
      <4> DEFINE s == p + j
      <4>1. s \in 0 .. 2 * m - 1 /\ s # p /\ s - m # p /\ m \in Nat
        BY <1>1, <2>2
      <4> HIDE DEF s
      <4>2. s % m = IF s < m THEN s ELSE s - m
        BY ONLY <1>1, <4>1, RoundTheRing
      <4>3. s % m \in 0 .. m - 1 /\ s % m # p
        BY ONLY <4>1, <4>2
      <4> QED
        BY <4>3 DEF s
    <3>3. h[(p + j) % m] = f + 1 - j
      BY <1>1, <3>1
    <3> QED
      BY <1>2, <3>2, <3>3
  <2> QED
    BY <2>1, <2>2
<1>4. p2 \in 0 .. m - 1 /\ \A k \in 0 .. m - 1 : (p2 + 1 + k) % m = (p + k) % m
  <2>1. p2 = IF p = 0 THEN m - 1 ELSE p - 1
    BY DEF m
  <2>2. m \in Nat /\ m > 0
    BY <1>1
  <2>3. p2 \in 0 .. m - 1
    BY ONLY <1>1, <2>1, <2>2
  <2>4. ASSUME NEW k \in 0 .. m - 1 PROVE (p2 + 1 + k) % m = (p + k) % m
    <3>1. CASE p # 0
      <4>1. p2 + 1 + k = p + k
        BY ONLY <1>1, <2>1, <2>2, <2>4, <3>1
      <4> QED
        BY <4>1
    <3>2. CASE p = 0
      <4> DEFINE s == m + k
      <4>1. p2 + 1 + k = s /\ p + k = k /\ s \in 0 .. 2 * m - 1 /\ k \in 0 .. 2 * m - 1
            /\ ~(s < m) /\ s - m = k /\ k < m
        BY ONLY <1>1, <2>1, <2>2, <2>4, <3>2
      <4> HIDE DEF s
      <4>2. s % m = k /\ k % m = k
        BY ONLY <1>1, <4>1, RoundTheRing
      <4> QED
        BY <4>1, <4>2
    <3> QED
      BY <3>1, <3>2
  <2> QED
    BY <2>3, <2>4
<1>5. IQHistory(h2, p2, f + 1)
  <2>1. ASSUME NEW k \in 0 .. m - 1, k < f + 1 PROVE h2[(p2 + 1 + k) % m] = f + 1 - k
    BY <1>3, <1>4, <2>1
  <2>2. \A k \in 0 .. m - 1 : k < f + 1 => h2[(p2 + 1 + k) % m] = f + 1 - k
    BY <2>1
  <2>3. p2 \in 0 .. m - 1 /\ h2 = [k \in 0 .. m - 1 |-> h2[k]]
    BY <1>2, <1>4
  <2> QED
    <3>1. IsHistory(h2, p2, f + 1, m)
      <4> DEFINE g == f + 1
      <4>1. \A k \in 0 .. m - 1 : k < g => h2[(p2 + 1 + k) % m] = g - k
        BY <2>2
      <4> HIDE DEF g
      <4>2. IsHistory(h2, p2, g, m)
        BY ONLY <4>1, <2>3, Zenon DEF IsHistory
      <4> QED
        BY <4>2 DEF g
    <3> QED
      BY <3>1 DEF IQHistory, m
<1>6. IQWindow(h2, p, f + 1)
  <2> DEFINE g == f + 1
  <2>1. \A j \in 0 .. m - 1 : j < g => h2[(p + j) % m] = g - j
    BY <1>3
  <2> HIDE DEF g
  <2>2. IQWindow(h2, p, g)
    BY ONLY <2>1, Zenon DEF IQWindow, m
  <2> QED
    BY <2>2 DEF g
<1> QED
  BY <1>5, <1>6

\* What EXCEPT makes of the reader's state.
LEMMA IQFields ==
  ASSUME NEW f, NEW sk, NEW h, NEW p, NEW out, NEW r, r = IQRecord(f, sk, h, p, out)
  PROVE  /\ r.frame = f /\ r.seeks = sk /\ r.phaseHistory = h
         /\ r.differentiatorIndex = p /\ r.out = out
BY DEF IQRecord

IQFed(r, h, p, out)  == [r EXCEPT !.phaseHistory = h, !.differentiatorIndex = p, !.out = out]
IQDelivered(r, out)  == [r EXCEPT !.out = out]
IQMoved(r, f)        == [r EXCEPT !.frame = f]
IQRewound(r, f, sk)  == [r EXCEPT !.frame = f, !.seeks = sk]

LEMMA IQFedIs ==
  ASSUME NEW f, NEW sk, NEW h, NEW p, NEW out, NEW r, r = IQRecord(f, sk, h, p, out),
         NEW x, NEW y, NEW z
  PROVE  IQFed(r, x, y, z) = IQRecord(f, sk, x, y, z)
<1> DEFINE one == [r EXCEPT !.phaseHistory = x]
           two == [one EXCEPT !.differentiatorIndex = y]
<1>1. one = IQRecord(f, sk, x, p, out)
  BY SMTT(10) DEF IQRecord
<1> HIDE DEF one
<1>2. two = IQRecord(f, sk, x, y, out)
  BY <1>1, SMTT(10) DEF IQRecord
<1> HIDE DEF two
<1>3. [two EXCEPT !.out = z] = IQRecord(f, sk, x, y, z)
  BY <1>2, SMTT(10) DEF IQRecord
<1> QED
  BY <1>3 DEF one, two, IQFed

LEMMA IQRewoundIs ==
  ASSUME NEW f, NEW sk, NEW h, NEW p, NEW out, NEW r, r = IQRecord(f, sk, h, p, out),
         NEW x, NEW y
  PROVE  IQRewound(r, x, y) = IQRecord(x, y, h, p, out)
<1> DEFINE one == [r EXCEPT !.frame = x]
<1>1. one = IQRecord(x, sk, h, p, out)
  BY SMTT(10) DEF IQRecord
<1> HIDE DEF one
<1>2. [one EXCEPT !.seeks = y] = IQRecord(x, y, h, p, out)
  BY <1>1, SMTT(10) DEF IQRecord
<1> QED
  BY <1>2 DEF one, IQRewound

LEMMA IQDeliveredIs ==
  ASSUME NEW f, NEW sk, NEW h, NEW p, NEW out, NEW r, r = IQRecord(f, sk, h, p, out), NEW x
  PROVE  IQDelivered(r, x) = IQRecord(f, sk, h, p, x)
BY SMTT(10) DEF IQRecord, IQDelivered

LEMMA IQMovedIs ==
  ASSUME NEW f, NEW sk, NEW h, NEW p, NEW out, NEW r, r = IQRecord(f, sk, h, p, out), NEW x
  PROVE  IQMoved(r, x) = IQRecord(x, sk, h, p, out)
BY SMTT(10) DEF IQRecord, IQMoved

\* What the caller gets of one frame is that frame of the stream, once settled.
LEMMA FrameSettles ==
  ASSUME file \in IQFiles, IQ!FM, NEW f \in Nat, NEW h2, NEW p,
         IQWindow(h2, p, f + 1), NEW x,
         x = [j \in 0 .. IQ!differentiatorLength - 1 |-> h2[(p + j) % IQ!differentiatorLength]]
  PROVE  IQ!Settle(x) = IQ!Sample(f + 1)
<1> DEFINE m == IQ!differentiatorLength
           g == f + 1
<1>1. m \in {10, 19} /\ g \in Nat /\ g # 0
  BY IQTypes
<1>2. \A j \in 0 .. m - 1 : j < g => x[j] = g - j
  <2> HIDE DEF g
  <2>1. \A j \in 0 .. m - 1 : j < g => h2[(p + j) % m] = g - j
    <3>1. IQWindow(h2, p, g)
      BY DEF g
    <3> QED
      BY ONLY <3>1, Zenon DEF IQWindow, m
  <2> QED
    BY <2>1
<1>3. x = [j \in 0 .. m - 1 |-> x[j]]
  OBVIOUS
<1>4. IQ!Sample(g) = [j \in 0 .. m - 1 |-> IF j < g THEN g - j ELSE 0]
  BY DEF IQ!Sample
<1>5. IQ!Settle(x) = IF x[0] < m THEN IQ!Sample(x[0]) ELSE x
  BY DEF IQ!Settle
<1> HIDE DEF m, g
<1>6. x[0] = g
  <2>1. 0 \in 0 .. m - 1 /\ 0 < g /\ g - 0 = g
    BY <1>1
  <2>2. x[0] = g - 0
    BY <1>2, <2>1
  <2> QED
    BY <2>1, <2>2
<1>7. CASE g < m
  BY <1>5, <1>6, <1>7 DEF g
<1>8. CASE ~(g < m)
  <2>1. \A j \in 0 .. m - 1 : j < g
    BY <1>1, <1>8
  <2>2. \A j \in 0 .. m - 1 : x[j] = IF j < g THEN g - j ELSE 0
    BY <1>2, <2>1
  <2>3. x = [j \in 0 .. m - 1 |-> IF j < g THEN g - j ELSE 0]
    BY <1>3, <2>2
  <2> QED
    BY <1>4, <1>5, <1>6, <1>8, <2>3 DEF g
<1> QED
  BY <1>7, <1>8

\* How the caller's buffer grows by one frame of the stream.
IQGrown(out2, out, f) ==
  /\ IsSequence(out2) /\ Len(out2) = Len(out) + IQ!channels
  /\ \A i \in 1 .. Len(out) : out2[i] = out[i]
  /\ \A c \in 1 .. IQ!channels : SettledOne(out2[Len(out) + c]) = IQ!Stream[IQ!channels * f + c]

LEMMA IQPutsOut ==
  ASSUME file \in IQFiles, NEW f \in Nat, f < file.frames, NEW x, NEW out, IsSequence(out),
         IF IQ!FM THEN IQ!Settle(x) = IQ!Sample(f + 1) ELSE x = IQ!Sample(f + 1)
  PROVE  IQGrown(out \o IQ!ForEachChannel(x), out, f)
<1> DEFINE n == Len(out)
<1>1. n \in Nat /\ IQ!channels \in {1, 2} /\ (IQ!channels = 2 => IQ!FM)
  BY IQTypes DEF IsSequence
<1>2. CASE IQ!channels = 2
  <2> DEFINE one == Append(out, <<1, x>>)
             two == Append(one, <<2, x>>)
  <2>1. out \o IQ!ForEachChannel(x) = two
    BY <1>2, ConcatIs DEF IQ!ForEachChannel
  <2>2. /\ IsSequence(one) /\ Len(one) = n + 1 /\ \A i \in 1 .. n : one[i] = out[i]
        /\ one[n + 1] = <<1, x>>
    BY AppendIs
  <2> HIDE DEF one
  <2>3. /\ IsSequence(two) /\ Len(two) = Len(one) + 1
        /\ \A i \in 1 .. Len(one) : two[i] = one[i]
        /\ two[Len(one) + 1] = <<2, x>>
    BY <2>2, AppendIs
  <2> HIDE DEF two, n
  <2>4. /\ Len(two) = n + 2 /\ two[n + 1] = <<1, x>> /\ two[n + 2] = <<2, x>>
        /\ \A i \in 1 .. n : two[i] = out[i]
    BY <1>1, <2>2, <2>3
  <2>5. SettledOne(<<1, x>>) = <<1, IQ!Sample(f + 1)>> /\ SettledOne(<<2, x>>) = <<2, IQ!Sample(f + 1)>>
    BY <1>1, <1>2 DEF SettledOne
  <2>6. \A c \in 1 .. 2 : SettledOne(two[n + c]) = IQ!Stream[2 * f + c]
    <3>1. SettledOne(two[n + 1]) = IQ!Stream[2 * f + 1] /\ SettledOne(two[n + 2]) = IQ!Stream[2 * f + 2]
      BY <1>2, <2>4, <2>5, IQStream
    <3> QED
      BY <3>1
  <2> QED
    BY <1>2, <2>1, <2>3, <2>4, <2>6 DEF IQGrown, n
<1>3. CASE IQ!channels = 1
  <2> DEFINE one == Append(out, x)
  <2>1. out \o IQ!ForEachChannel(x) = one
    BY <1>3, ConcatIs DEF IQ!ForEachChannel
  <2>2. /\ IsSequence(one) /\ Len(one) = n + 1 /\ \A i \in 1 .. n : one[i] = out[i]
        /\ one[n + 1] = x
    BY AppendIs
  <2> HIDE DEF one, n
  <2>3. SettledOne(x) = IQ!Sample(f + 1)
    BY <1>3 DEF SettledOne
  <2>4. \A c \in 1 .. 1 : SettledOne(one[n + c]) = IQ!Stream[1 * f + c]
    <3>1. IQ!Stream[f + 1] = IQ!Sample(f + 1)
      BY <1>3, IQStream
    <3> QED
      BY <2>2, <2>3, <3>1
  <2> QED
    BY <1>3, <2>1, <2>2, <2>4 DEF IQGrown, n
<1> QED
  BY <1>1, <1>2, <1>3

\* One turn of a read's loop, when there is a frame left.
IQGoesOn(s, f, sk, out) ==
  \E h2, p2, out2 :
    /\ IQ!FM => IQHistory(h2, p2, f + 1)
    /\ s = IQRecord(f + 1, sk, h2, p2, out2)
    /\ IQGrown(out2, out, f)

LEMMA IQTurn ==
  ASSUME file \in IQFiles, NEW f \in Nat, f < file.frames, NEW sk, NEW h, NEW p, NEW out,
         IsSequence(out), IQ!FM => IQHistory(h, p, f), NEW r, r = IQRecord(f, sk, h, p, out)
  PROVE  IQGoesOn(IQ!Demodulate(r), f, sk, out)
<1>0. r.frame = f /\ r.phaseHistory = h /\ r.differentiatorIndex = p /\ r.out = out
  BY IQFields
<1>1. CASE IQ!FM
  <2> DEFINE m == IQ!differentiatorLength
             h2 == [h EXCEPT ![p] = f + 1]
             p2 == IF p = 0 THEN m - 1 ELSE p - 1
             x == [j \in 0 .. m - 1 |-> h2[(p + j) % m]]
             out2 == out \o IQ!ForEachChannel(x)
             d == IQFed(r, h2, p2, out2)
  <2>1. IQ!demodulateFM(r) = d
    BY <1>0 DEF IQ!demodulateFM, IQFed
  <2>2. IQHistory(h2, p2, f + 1) /\ IQWindow(h2, p, f + 1)
    BY <1>1, HistoryGoesOn
  <2> HIDE DEF h2, p2
  <2>3. IQ!Settle(x) = IQ!Sample(f + 1)
    BY <1>1, <2>2, FrameSettles
  <2> HIDE DEF x, m
  <2>4. IQGrown(out2, out, f)
    BY <1>1, <2>3, IQPutsOut
  <2> HIDE DEF out2
  <2>5. d = IQRecord(f, sk, h2, p2, out2)
    BY IQFedIs
  <2> HIDE DEF d
  <2>6. d.frame = f /\ IQMoved(d, f + 1) = IQRecord(f + 1, sk, h2, p2, out2)
    BY <2>5, IQFields, IQMovedIs
  <2>7. IQ!Demodulate(r) = IQMoved(d, f + 1)
    BY <1>1, <2>1, <2>6 DEF IQ!Demodulate, IQMoved
  <2> QED
    BY <2>2, <2>4, <2>6, <2>7 DEF IQGoesOn
<1>2. CASE ~IQ!FM
  <2> DEFINE out2 == Append(out, f + 1)
             d == IQDelivered(r, out2)
  <2>1. IQ!channels = 1 /\ IQ!Sample(f + 1) = f + 1
    BY <1>2, IQTypes DEF IQ!Sample
  <2>2. out2 = out \o IQ!ForEachChannel(f + 1)
    BY <2>1, ConcatIs DEF IQ!ForEachChannel
  <2>3. IQGrown(out2, out, f)
    BY <1>2, <2>1, <2>2, IQPutsOut
  <2>4. d = IQRecord(f, sk, h, p, out2)
    BY IQDeliveredIs
  <2>5. IQ!Demodulate(r) = [d EXCEPT !.frame = d.frame + 1]
    BY <1>0, <1>2 DEF IQ!Demodulate, IQDelivered
  <2> HIDE DEF d
  <2> HIDE DEF out2
  <2>6. d.frame = f /\ IQMoved(d, f + 1) = IQRecord(f + 1, sk, h, p, out2)
    BY <2>4, IQFields, IQMovedIs
  <2>7. IQ!Demodulate(r) = IQMoved(d, f + 1)
    BY <2>5, <2>6 DEF IQMoved
  <2> QED
    BY <1>2, <2>3, <2>6, <2>7 DEF IQGoesOn
<1> QED
  BY <1>1, <1>2

\* The loop of a read: its turns are well-defined.
IQLoop(r)     == IF r.frame < file.frames THEN IQ!Demodulate(r) ELSE r
IQTurns(n, f) == [i \in 0 .. n |-> IF i = 0 THEN reader ELSE IQLoop(f[i - 1])]

LEMMA IQTurnsExist == \A n \in Nat : \E f : f = IQTurns(n, f)
<1> DEFINE S == {n \in Nat : \E f : f = IQTurns(n, f)}
<1>1. 0 \in S
  <2> DEFINE f == [i \in 0 .. 0 |-> reader]
  <2>1. f = IQTurns(0, f)
    BY DEF IQTurns
  <2> QED
    BY <2>1
<1>2. ASSUME NEW n \in Nat, n \in S PROVE n + 1 \in S
  <2>1. PICK f : f = IQTurns(n, f)
    BY <1>2
  <2> DEFINE h == [i \in 0 .. n + 1 |-> IF i = n + 1 THEN IQLoop(f[n]) ELSE f[i]]
  <2>2. \A i \in 0 .. n : f[i] = IF i = 0 THEN reader ELSE IQLoop(f[i - 1])
    BY <2>1 DEF IQTurns
  <2>3. \A i \in 0 .. n + 1 : h[i] = IF i = 0 THEN reader ELSE IQLoop(h[i - 1])
    <3> SUFFICES ASSUME NEW i \in 0 .. n + 1
                 PROVE  h[i] = IF i = 0 THEN reader ELSE IQLoop(h[i - 1])
      OBVIOUS
    <3>1. CASE i = n + 1
      <4>1. i - 1 = n /\ n \in 0 .. n + 1 /\ n # n + 1 /\ i # 0
        BY <3>1
      <4>2. h[i] = IQLoop(f[n]) /\ h[n] = f[n]
        BY <3>1, <4>1
      <4> HIDE DEF h
      <4> QED
        BY <4>1, <4>2
    <3>2. CASE i = 0
      <4>1. 0 \in 0 .. n /\ i # n + 1
        BY <3>2
      <4> QED
        BY <2>2, <3>2, <4>1
    <3>3. CASE i \in 1 .. n
      <4>1. i \in 0 .. n /\ i # n + 1 /\ i # 0 /\ i - 1 \in 0 .. n + 1 /\ i - 1 # n + 1
        BY <3>3
      <4>2. h[i] = f[i] /\ h[i - 1] = f[i - 1]
        BY <4>1
      <4> HIDE DEF h
      <4> QED
        BY <2>2, <4>1, <4>2
    <3> QED
      BY <3>1, <3>2, <3>3
  <2>4. h = [i \in 0 .. n + 1 |-> h[i]]
    OBVIOUS
  <2> HIDE DEF h
  <2>5. h = IQTurns(n + 1, h)
    BY <2>3, <2>4 DEF IQTurns
  <2> QED
    BY <2>5
<1> HIDE DEF S
<1>3. Nat \subseteq S
  BY <1>1, <1>2, InductiveSet
<1> QED
  BY <1>3 DEF S

\* What a read has done after i turns, from frame f on.
IQHasRead(s, f, sk, i, k, h, p, out) ==
  /\ k \in 0 .. file.frames - f
  /\ k = i \/ (k < i /\ f + k = file.frames)
  /\ IQ!FM => IQHistory(h, p, f + k)
  /\ s = IQRecord(f + k, sk, h, p, out)
  /\ IsSequence(out) /\ Len(out) = IQ!channels * k
  /\ \A j \in 1 .. IQ!channels * k : SettledOne(out[j]) = IQ!Stream[IQ!channels * f + j]

IQGot(s, f, sk, i) == \E k, h, p, out : IQHasRead(s, f, sk, i, k, h, p, out)

LEMMA IQGotMore ==
  ASSUME file \in IQFiles, NEW s, NEW f \in 0 .. file.frames, NEW sk, NEW i \in Nat, IQGot(s, f, sk, i)
  PROVE  IQGot(IQLoop(s), f, sk, i + 1)
<1>0. file.frames \in Nat /\ IQ!channels \in {1, 2} /\ f \in Nat
  BY IQTypes
<1>a. PICK k, h, p, out : IQHasRead(s, f, sk, i, k, h, p, out)
  BY DEF IQGot
<1>1.   /\ k \in 0 .. file.frames - f
        /\ k = i \/ (k < i /\ f + k = file.frames)
        /\ IQ!FM => IQHistory(h, p, f + k)
        /\ s = IQRecord(f + k, sk, h, p, out)
        /\ IsSequence(out) /\ Len(out) = IQ!channels * k
        /\ \A j \in 1 .. IQ!channels * k : SettledOne(out[j]) = IQ!Stream[IQ!channels * f + j]
  BY <1>a DEF IQHasRead
<1>2. s.frame = f + k /\ k \in Nat /\ f + k <= file.frames
  BY <1>0, <1>1, IQFields
<1>3. CASE f + k = file.frames
  <2>1. IQLoop(s) = s
    BY <1>0, <1>2, <1>3 DEF IQLoop
  <2>2. k = i + 1 \/ (k < i + 1 /\ f + k = file.frames)
    BY <1>1, <1>2, <1>3
  <2> QED
    <3>1. IQHasRead(s, f, sk, i + 1, k, h, p, out)
      BY <1>1, <2>2 DEF IQHasRead
    <3> QED
      BY <2>1, <3>1 DEF IQGot
<1>4. CASE f + k < file.frames
  <2> DEFINE g == f + k
             ch == IQ!channels
  <2>1. IQLoop(s) = IQ!Demodulate(s) /\ g \in Nat /\ g < file.frames
    BY <1>0, <1>2, <1>4 DEF IQLoop
  <2>2. IQGoesOn(IQLoop(s), g, sk, out)
    BY <1>1, <2>1, IQTurn
  <2> HIDE DEF g
  <2>3. PICK h2, p2, out2 :
          /\ IQ!FM => IQHistory(h2, p2, g + 1)
          /\ IQLoop(s) = IQRecord(g + 1, sk, h2, p2, out2)
          /\ IQGrown(out2, out, g)
    BY <2>2, Zenon DEF IQGoesOn
  <2>4. /\ k + 1 \in 0 .. file.frames - f /\ k + 1 = i + 1 /\ g + 1 = f + (k + 1)
    BY <1>0, <1>1, <1>2, <1>4 DEF g
  <2>5. /\ IsSequence(out2) /\ Len(out2) = Len(out) + ch
        /\ \A j \in 1 .. Len(out) : out2[j] = out[j]
        /\ \A c \in 1 .. ch : SettledOne(out2[Len(out) + c]) = IQ!Stream[ch * g + c]
    BY <2>3 DEF IQGrown
  <2>6. Len(out) = ch * k /\ ch * (k + 1) = ch * k + ch /\ ch * g = ch * f + ch * k
    BY <1>0, <1>1, <1>2 DEF g
  <2>7. ASSUME NEW j \in 1 .. ch * (k + 1)
        PROVE  SettledOne(out2[j]) = IQ!Stream[ch * f + j]
    <3>1. CASE j <= ch * k
      <4>1. j \in 1 .. ch * k
        BY <1>0, <1>2, <2>6, <2>7, <3>1
      <4> QED
        BY <1>1, <2>5, <2>6, <4>1
    <3>2. CASE j > ch * k
      <4> DEFINE c == j - ch * k
      <4>1. c \in 1 .. ch /\ Len(out) + c = j /\ ch * g + c = ch * f + j
        BY <1>0, <1>2, <2>6, <2>7, <3>2
      <4> HIDE DEF c, ch
      <4> QED
        BY <2>5, <4>1
    <3> QED
      BY <1>0, <1>2, <2>6, <3>1, <3>2
  <2> HIDE DEF ch
  <2>8. Len(out2) = ch * (k + 1)
    BY <2>5, <2>6
  <2> DEFINE kk == k + 1
  <2> HIDE DEF kk
  <2>9. /\ kk \in 0 .. file.frames - f /\ kk = i + 1
        /\ IQ!FM => IQHistory(h2, p2, f + kk)
        /\ IQLoop(s) = IQRecord(f + kk, sk, h2, p2, out2)
        /\ IsSequence(out2) /\ Len(out2) = ch * kk
        /\ \A j \in 1 .. ch * kk : SettledOne(out2[j]) = IQ!Stream[ch * f + j]
    BY <2>3, <2>4, <2>5, <2>7, <2>8 DEF kk
  <2> QED
    <3>1. IQHasRead(IQLoop(s), f, sk, i + 1, kk, h2, p2, out2)
      BY <2>9 DEF IQHasRead, ch
    <3> QED
      BY <3>1 DEF IQGot
<1> QED
  BY <1>0, <1>2, <1>3, <1>4

LEMMA IQReads ==
  ASSUME file \in IQFiles, NEW n \in Nat, NEW f \in 0 .. file.frames, NEW sk, NEW h, NEW p,
         IQ!FM => IQHistory(h, p, f), reader = IQRecord(f, sk, h, p, <<>>)
  PROVE  IQGot(IQ!AfterRead(n), f, sk, n)
<1> DEFINE turn == CHOOSE t : t = IQTurns(n, t)
           S == {i \in Nat : i <= n => IQGot(turn[i], f, sk, i)}
<1>0. file.frames \in Nat /\ IQ!channels \in {1, 2} /\ f \in Nat
  BY IQTypes
<1>1. IQ!AfterRead(n) = turn[n]
  BY DEF IQ!AfterRead, IQTurns, IQLoop
<1>2. turn = IQTurns(n, turn)
  BY IQTurnsExist
<1> HIDE DEF turn
<1>3. \A i \in 0 .. n : turn[i] = IF i = 0 THEN reader ELSE IQLoop(turn[i - 1])
  BY <1>2 DEF IQTurns
<1>4. 0 \in S
  <2> DEFINE k == 0
             out == <<>>
  <2>1. turn[0] = reader /\ k \in 0 .. file.frames - f /\ f + k = f /\ k = 0
    BY <1>0, <1>3
  <2>2. IsSequence(out) /\ Len(out) = IQ!channels * k /\ IQ!channels * k = 0
    BY <1>0 DEF IsSequence
  <2>3. \A j \in 1 .. IQ!channels * k : SettledOne(out[j]) = IQ!Stream[IQ!channels * f + j]
    <3> HIDE DEF k, out
    <3> QED
      BY <2>2
  <2>4. reader = IQRecord(f, sk, h, p, out)
    OBVIOUS
  <2> HIDE DEF k, out
  <2>5. IQGot(turn[0], f, sk, 0)
    <3>1. IQHasRead(turn[0], f, sk, 0, k, h, p, out)
      BY <2>1, <2>2, <2>3, <2>4 DEF IQHasRead
    <3> QED
      BY <3>1 DEF IQGot
  <2> QED
    BY <2>5
<1>5. ASSUME NEW i \in Nat, i \in S PROVE i + 1 \in S
  <2> SUFFICES ASSUME i + 1 <= n PROVE IQGot(turn[i + 1], f, sk, i + 1)
    OBVIOUS
  <2>1. IQGot(turn[i], f, sk, i) /\ i + 1 \in 0 .. n /\ i + 1 # 0 /\ (i + 1) - 1 = i
    BY <1>5
  <2>2. turn[i + 1] = IQLoop(turn[i])
    BY <1>3, <2>1
  <2> QED
    BY <2>1, <2>2, IQGotMore
<1> HIDE DEF S
<1>6. n \in S
  BY <1>4, <1>5, InductiveSet
<1> QED
  BY <1>1, <1>6 DEF S
-------------------------------------------------------------------------------
(***************************************************************************)
(* The I/Q reader: its invariant.                                          *)
(***************************************************************************)
LEMMA SubSeqIs ==
  ASSUME NEW T, NEW s \in Seq(T), NEW p \in Nat, NEW k \in Nat, p + k <= Len(s)
  PROVE  SubSeq(s, p + 1, p + k) = [j \in 1 .. k |-> s[p + j]]
OBVIOUS

\* What was delivered is, once settled, that part of the stream.
SettledAll(out) == [j \in DOMAIN out |-> SettledOne(out[j])]

LEMMA IQSettles ==
  ASSUME file \in IQFiles, NEW p \in Nat, NEW k \in Nat, NEW out, IsSequence(out), Len(out) = k,
         p + k <= IQLength,
         \A j \in 1 .. k : SettledOne(out[j]) = IQ!Stream[p + j]
  PROVE  SettledAll(out) = SubSeq(IQ!Stream, p + 1, p + k)
<1> DEFINE S == IQ!Stream
<1>1. SubSeq(S, p + 1, p + k) = [j \in 1 .. k |-> S[p + j]]
  BY IQStream, SubSeqIs
<1>2. DOMAIN out = 1 .. k
  BY DEF IsSequence
<1>3. SettledAll(out) = [j \in 1 .. k |-> SettledOne(out[j])]
  BY <1>2 DEF SettledAll
<1>4. [j \in 1 .. k |-> SettledOne(out[j])] = [j \in 1 .. k |-> S[p + j]]
  <2> HIDE DEF S
  <2> QED
    BY DEF S
<1> QED
  BY <1>1, <1>3, <1>4

LEMMA NothingSettles ==
  SettledAll(<<>>) = <<>>
<1>1. DOMAIN <<>> = {}
  OBVIOUS
<1>2. SettledAll(<<>>) = [j \in {} |-> SettledOne(<<>>[j])]
  BY <1>1 DEF SettledAll
<1>3. <<>> = [j \in {} |-> SettledOne(<<>>[j])]
  OBVIOUS
<1> QED
  BY <1>2, <1>3

LEMMA SettledIs ==
  IQ!Settled = SettledAll(block)
BY DEF IQ!Settled, SettledAll, SettledOne

LEMMA IQSame ==
  ASSUME file' = file, modulationType' = modulationType
  PROVE  /\ IQ!Stream' = IQ!Stream /\ IQ!channels' = IQ!channels /\ IQLength' = IQLength
         /\ IQ!FM' <=> IQ!FM
         /\ \A h, p, f : IQHistory(h, p, f)' <=> IQHistory(h, p, f)
         /\ IQ!Settled' = SettledAll(block')
<1>1. /\ IQ!Stream' = IQ!Stream /\ IQ!channels' = IQ!channels /\ IQLength' = IQLength
      /\ (IQ!FM' <=> IQ!FM)
  BY DEF IQ!Stream, IQ!channels, IQLength, IQ!Sample, IQ!FM, IQ!differentiatorLength
<1>2. \A h, p, f : IQHistory(h, p, f)' <=> IQHistory(h, p, f)
  BY DEF IQHistory, IsHistory, IQ!differentiatorLength
<1>3. IQ!Settled' = SettledAll(block')
  BY DEF IQ!Settled, SettledAll, SettledOne, IQ!Settle, IQ!Sample, IQ!FM, IQ!channels,
         IQ!differentiatorLength
<1> QED
  BY <1>1, <1>2, <1>3

\* The reader between two calls, f frames into the file.
IQAt(f) ==
  /\ f \in 0 .. file.frames
  /\ \E sk, h, p : (IQ!FM => IQHistory(h, p, f)) /\ reader = IQRecord(f, sk, h, p, <<>>)

IQInv ==
  /\ file \in IQFiles
  /\ status \in {"opening", "open", "refused"}
  /\ \E f : IQAt(f)
  /\ status = "opening" => IQ!Position = 0
  /\ status = "open" /\ block = <<>> => IQ!Position = 0 \/ IQ!Position = IQLength

LEMMA IQPosition ==
  ASSUME file \in IQFiles, NEW f, IQAt(f)
  PROVE  IQ!Position = IQ!channels * f /\ IQ!Position \in 0 .. IQLength /\ f \in Nat
<1>1. f \in 0 .. file.frames /\ file.frames \in Nat /\ IQ!channels \in {1, 2}
  BY IQTypes DEF IQAt
<1>2. reader.frame = f
  BY IQFields DEF IQAt
<1> QED
  BY <1>1, <1>2 DEF IQ!Position, IQLength

LEMMA IQInit == IQ!Init => IQInv
<1> SUFFICES ASSUME IQ!Init PROVE IQInv
  OBVIOUS
<1> DEFINE m == IQ!differentiatorLength
           h == [k \in 0 .. m - 1 |-> 0]
           p == m - 1
<1>1. /\ file \in IQFiles /\ status = "opening" /\ reader = IQRecord(0, 0, h, p, <<>>)
  BY DEF IQ!Init, IQRecord
<1>2. m \in {10, 19} /\ file.frames \in Nat
  BY <1>1, IQTypes
<1>3. IQHistory(h, p, 0)
  <2>1. p \in 0 .. m - 1 /\ \A k \in 0 .. m - 1 : ~(k < 0)
    BY <1>2
  <2>2. h = [k \in 0 .. m - 1 |-> h[k]]
    OBVIOUS
  <2> HIDE DEF h, p
  <2> QED
    BY <2>1, <2>2 DEF IQHistory, IsHistory
<1> HIDE DEF h, p, m
<1>4. IQAt(0)
  BY <1>1, <1>2, <1>3 DEF IQAt
<1>5. IQ!Position = 0
  BY <1>1, <1>2, <1>4, IQPosition, IQTypes
<1> QED
  BY <1>1, <1>4, <1>5 DEF IQInv

\* What a step has to leave behind it.
LEMMA IQInvNext ==
  ASSUME file \in IQFiles, file' = file, modulationType' = modulationType,
         NEW f \in 0 .. file.frames, NEW sk, NEW h, NEW p, IQ!FM => IQHistory(h, p, f),
         reader' = IQRecord(f, sk, h, p, <<>>),
         status' \in {"opening", "open", "refused"},
         status' = "opening" => f = 0,
         status' = "open" /\ block' = <<>> => f = 0 \/ f = file.frames
  PROVE  IQInv' /\ IQ!Position' = IQ!channels * f
<1>0. IQ!channels \in {1, 2} /\ file.frames \in Nat
  BY IQTypes
<1>1. reader'.frame = f
  BY IQFields
<1>2. IQ!Position' = IQ!channels * f
  BY <1>1, IQSame DEF IQ!Position
<1>3. IQAt(f)'
  <2>1. (IQ!FM' => IQHistory(h, p, f)') /\ reader' = IQRecord(f, sk, h, p, <<>>)
    BY IQSame
  <2>2. f \in 0 .. file'.frames
    OBVIOUS
  <2> QED
    BY <2>1, <2>2 DEF IQAt, IQRecord
<1>4. f = 0 => IQ!Position' = 0
  BY <1>0, <1>2
<1>5. f = file.frames => IQ!Position' = IQLength'
  BY <1>2, IQSame DEF IQLength
<1>6. /\ status' = "opening" => IQ!Position' = 0
      /\ status' = "open" /\ block' = <<>> => IQ!Position' = 0 \/ IQ!Position' = IQLength'
  BY <1>4, <1>5
<1>7. file' \in IQFiles
  OBVIOUS
<1>8. IQInv'
  BY <1>3, <1>6, <1>7 DEF IQInv
<1> QED
  BY <1>2, <1>8

LEMMA IQStepIs ==
  ASSUME kind = "iq", kind' = "iq", IQInv, IQ!Next
  PROVE  IQInv' /\ (AsStream!Next \/ UNCHANGED AsStream!vars)
<1>1. file' = file /\ modulationType' = modulationType
  BY DEF IQ!Next, IQ!Open, IQ!Read, IQ!Seek
<1>2. PICK f : IQAt(f)
  BY DEF IQInv
<1>3. PICK sk, h, p : (IQ!FM => IQHistory(h, p, f)) /\ reader = IQRecord(f, sk, h, p, <<>>)
  BY <1>2 DEF IQAt
<1> DEFINE ch == IQ!channels
           F == file.frames
           S == IQ!Stream
           L == IQLength
<1>4. /\ file \in IQFiles /\ f \in 0 .. F /\ F \in Nat /\ ch \in {1, 2} /\ L = ch * F /\ L \in Nat
      /\ Len(S) = L /\ IQ!Position = ch * f /\ f \in Nat
  BY <1>2, IQPosition, IQTypes, IQStream DEF IQInv, IQAt, IQLength
<1>5. /\ StreamPhase = status /\ StreamSamples = S /\ StreamPosition = ch * f
      /\ StreamBlock = SettledAll(block) /\ StreamComplete = TRUE
  BY <1>4, SettledIs
     DEF IQInv, StreamPhase, StreamSamples, StreamPosition, StreamBlock, StreamComplete
<1>6. status' \in {"opening", "open", "refused"} =>
        /\ StreamPhase' = status' /\ StreamSamples' = S
        /\ StreamPosition' = IQ!Position' /\ StreamBlock' = SettledAll(block')
  BY <1>1, IQSame DEF StreamPhase, StreamSamples, StreamPosition, StreamBlock
<1>7. StreamComplete' = StreamComplete
  BY DEF StreamComplete
<1> HIDE DEF S, L
<1>8. CASE IQ!Open
  <2>1. /\ status = "opening" /\ status' \in {"open", "refused"}
        /\ reader' = reader /\ block' = block
    BY <1>8 DEF IQ!Open
  <2>2. f = 0
    BY <1>4, <2>1 DEF IQInv
  <2>3. status' \in {"opening", "open", "refused"} /\ reader' = IQRecord(f, sk, h, p, <<>>)
    BY <1>3, <2>1
  <2>4. IQInv' /\ IQ!Position' = ch * f
    BY <1>1, <1>3, <1>4, <2>2, <2>3, IQInvNext
  <2>5. /\ StreamPhase = "opening" /\ StreamPhase' \in {"opening", "open", "refused", "failed"}
        /\ StreamSamples' = StreamSamples /\ StreamPosition' = StreamPosition
        /\ StreamBlock' = StreamBlock
    BY <1>5, <1>6, <2>1, <2>4
  <2> QED
    BY <1>7, <2>4, <2>5, OpeningIsOpen
<1>9. ASSUME NEW n \in ReadSizes, IQ!Read(n)
      PROVE  IQInv' /\ AsStream!Next
  <2> DEFINE i == n \div ch
             s == IQ!AfterRead(i)
  <2>1. n \in Nat /\ n # 0 /\ n % ch = 0 /\ status = "open" /\ status' = status
        /\ block' = s.out /\ reader' = IQDelivered(s, <<>>)
    BY <1>9, InputFileAssumption DEF IQ!Read, IQDelivered
  <2>2. i \in Nat /\ i # 0 /\ n = ch * i
    <3> HIDE DEF ch
    <3>1. CASE ch = 1
      BY <2>1, <3>1
    <3>2. CASE ch = 2
      BY <2>1, <3>2
    <3> QED
      BY <1>4, <3>1, <3>2 DEF ch
  <2> HIDE DEF i
  <2>3. IQGot(s, f, sk, i)
    BY <1>3, <1>4, <2>2, IQReads
  <2> HIDE DEF s
  <2>4. PICK k, h2, p2, out : IQHasRead(s, f, sk, i, k, h2, p2, out)
    BY <2>3 DEF IQGot
  <2>5. /\ k \in 0 .. F - f /\ (k = i \/ (k < i /\ f + k = F))
        /\ IQ!FM => IQHistory(h2, p2, f + k)
        /\ s = IQRecord(f + k, sk, h2, p2, out)
        /\ IsSequence(out) /\ Len(out) = ch * k
        /\ \A j \in 1 .. ch * k : SettledOne(out[j]) = S[ch * f + j]
    BY <2>4 DEF IQHasRead, S
  <2> HIDE DEF ch, F
  <2>6. block' = out /\ reader' = IQRecord(f + k, sk, h2, p2, <<>>)
    BY <2>1, <2>5, IQFields, IQDeliveredIs
  <2>7. k \in Nat /\ f + k \in 0 .. F /\ ch * k \in Nat /\ ch * f \in Nat
        /\ ch * (f + k) = ch * f + ch * k /\ ch * f + ch * k <= L
        /\ (k < i => ch * k < ch * i) /\ (ch * k = 0 => k = 0)
    <3>1. k \in Nat /\ f + k \in 0 .. F
      BY <1>4, <2>5
    <3>2. CASE ch = 1
      BY <1>4, <2>2, <3>1, <3>2
    <3>3. CASE ch = 2
      BY <1>4, <2>2, <3>1, <3>3
    <3> QED
      BY <1>4, <3>1, <3>2, <3>3
  <2>8. SettledAll(out) = SubSeq(S, ch * f + 1, ch * f + ch * k)
    <3> DEFINE a == ch * f
               b == ch * k
    <3>1. a \in Nat /\ b \in Nat /\ a + b <= L /\ Len(out) = b /\ IsSequence(out)
          /\ \A j \in 1 .. b : SettledOne(out[j]) = IQ!Stream[a + j]
      BY <2>5, <2>7 DEF S
    <3> HIDE DEF a, b
    <3>2. SettledAll(out) = SubSeq(IQ!Stream, a + 1, a + b)
      BY <1>4, <3>1, IQSettles DEF L
    <3> QED
      BY <3>2 DEF a, b, S
  <2>9. block' = <<>> => f + k = F
    <3>1. block' = <<>> => Len(out) = 0
      BY <2>6
    <3> QED
      BY <2>2, <2>5, <2>7, <3>1
  <2>10. IQInv' /\ IQ!Position' = ch * f + ch * k
    <3> DEFINE g == f + k
    <3>1. /\ g \in 0 .. file.frames /\ (IQ!FM => IQHistory(h2, p2, g))
          /\ reader' = IQRecord(g, sk, h2, p2, <<>>)
          /\ status' \in {"opening", "open", "refused"} /\ status' # "opening"
          /\ (status' = "open" /\ block' = <<>> => g = 0 \/ g = file.frames)
      BY <2>1, <2>5, <2>6, <2>7, <2>9 DEF F
    <3> HIDE DEF g
    <3>2. IQInv' /\ IQ!Position' = IQ!channels * g
      BY <1>1, <1>4, <3>1, IQInvNext
    <3> QED
      BY <2>7, <3>2 DEF g, ch
  <2>11. /\ StreamPhase = "open" /\ StreamPhase' = "open" /\ StreamSamples' = StreamSamples
         /\ Len(StreamSamples) = L /\ StreamSamples = S
         /\ StreamPosition = ch * f /\ StreamPosition' = ch * f + ch * k
         /\ StreamBlock' = SettledAll(out)
    BY <1>4, <1>5, <1>6, <2>1, <2>6, <2>10 DEF ch
  <2> DEFINE b == ch * k
  <2>12. b = n \/ (b < n /\ StreamPosition + b = Len(StreamSamples) /\ StreamComplete)
    <3>1. CASE k = i
      BY <2>2, <3>1
    <3>2. CASE k < i /\ f + k = F
      BY <1>4, <1>5, <2>2, <2>7, <2>11, <3>2 DEF ch, F
    <3> QED
      BY <2>5, <3>1, <3>2
  <2>13. /\ b \in Nat /\ StreamPosition + b <= Len(StreamSamples)
         /\ StreamPosition' = StreamPosition + b
         /\ StreamBlock' = SubSeq(StreamSamples, StreamPosition + 1, StreamPosition + b)
         /\ Len(StreamSamples) \in Nat /\ StreamPosition \in Nat
    BY <1>4, <2>7, <2>8, <2>11
  <2> HIDE DEF b
  <2> QED
    BY <1>7, <2>10, <2>11, <2>12, <2>13, DeliveryIsRead
<1>10. CASE IQ!Seek
  <2> DEFINE n == reader.seeks + 1
  <2>1. /\ status = "open" /\ status' = "open" /\ block' = <<>>
        /\ reader' = IQRewound(reader, 0, n)
    BY <1>10 DEF IQ!Seek, IQRewound
  <2> HIDE DEF n
  <2>2. reader' = IQRecord(0, n, h, p, <<>>)
    BY <1>3, <2>1, IQRewoundIs
  <2>3. IQ!FM => IQHistory(h, p, 0)
    <3>1. IQ!differentiatorLength \in {10, 19} /\ \A k \in 0 .. IQ!differentiatorLength - 1 : ~(k < 0)
      BY <1>4, IQTypes
    <3> QED
      BY <1>3, <3>1 DEF IQHistory, IsHistory
  <2>4. IQInv' /\ IQ!Position' = IQ!channels * 0
    BY <1>1, <1>4, <2>1, <2>2, <2>3, IQInvNext
  <2>5. /\ StreamPhase = "open" /\ StreamPhase' = "open" /\ StreamSamples' = StreamSamples
        /\ StreamPosition' = 0 /\ StreamBlock' = <<>>
    BY <1>4, <1>5, <1>6, <2>1, <2>4, NothingSettles
  <2> QED
    BY <1>7, <2>4, <2>5, SeekIsRewind
<1> QED
  BY <1>8, <1>9, <1>10 DEF IQ!Next
-------------------------------------------------------------------------------
(***************************************************************************)
(* All readers.                                                            *)
(***************************************************************************)
FileInv ==
  \/ kind = "dsf" /\ DsfInv
  \/ kind = "dff" /\ DffInv
  \/ kind = "iq" /\ IQInv

LEMMA FileInit == Init => FileInv /\ AsStream!Init
<1> SUFFICES ASSUME Init PROVE FileInv /\ AsStream!Init
  OBVIOUS
<1>1. ASSUME StreamPhase = "opening", StreamComplete \in BOOLEAN, StreamPosition = 0,
             StreamBlock = <<>>
      PROVE  AsStream!Init
  BY <1>1 DEF AsStream!Init
<1>2. CASE kind = "dsf" /\ Dsf!Init
  <2>1. DsfInv /\ status = "opening" /\ block = <<>>
    BY <1>2, DsfInit DEF Dsf!Init
  <2>2. Dsf!Position = 0
    BY <2>1 DEF DsfInv
  <2>3. StreamComplete \in BOOLEAN
    BY <1>2 DEF StreamComplete, Dsf!Complete
  <2>4. StreamPhase = "opening" /\ StreamPosition = 0 /\ StreamBlock = <<>>
    BY <1>2, <2>1, <2>2 DEF StreamPhase, StreamPosition, StreamBlock
  <2> QED
    BY <1>1, <1>2, <2>1, <2>3, <2>4 DEF FileInv
<1>3. CASE kind = "dff" /\ Dff!Init
  <2>1. DffInv /\ status = "opening" /\ block = <<>>
    BY <1>3, DffInit DEF Dff!Init
  <2>2. Dff!Position = 0
    BY <2>1, UnreadIsAtZero DEF DffInv, UnreadIs
  <2>3. StreamComplete \in BOOLEAN
    BY <1>3 DEF StreamComplete, Dff!Complete
  <2>4. StreamPhase = "opening" /\ StreamPosition = 0 /\ StreamBlock = <<>>
    BY <1>3, <2>1, <2>2 DEF StreamPhase, StreamPosition, StreamBlock
  <2> QED
    BY <1>1, <1>3, <2>1, <2>3, <2>4 DEF FileInv
<1>4. CASE kind = "iq" /\ IQ!Init
  <2>1. IQInv /\ status = "opening" /\ block = <<>>
    BY <1>4, IQInit DEF IQ!Init
  <2>2. IQ!Position = 0
    BY <2>1 DEF IQInv
  <2>3. StreamComplete \in BOOLEAN
    BY <1>4 DEF StreamComplete
  <2>4. StreamPhase = "opening" /\ StreamPosition = 0 /\ StreamBlock = <<>>
    BY <1>4, <2>1, <2>2, SettledIs, NothingSettles DEF StreamPhase, StreamPosition, StreamBlock
  <2> QED
    BY <1>1, <1>4, <2>1, <2>3, <2>4 DEF FileInv
<1> QED
  BY <1>2, <1>3, <1>4 DEF Init

\* Steps that change nothing.
LEMMA FileStutters ==
  ASSUME FileInv, UNCHANGED vars
  PROVE  FileInv' /\ UNCHANGED AsStream!vars
<1>1. /\ kind' = kind /\ file' = file /\ status' = status /\ reader' = reader /\ block' = block
      /\ reversed' = reversed /\ modulationType' = modulationType
      /\ filePos' = filePos /\ err' = err /\ dataRemaining' = dataRemaining
      /\ numChannels' = numChannels /\ totalSoundDataBytes' = totalSoundDataBytes
      /\ startOfData' = startOfData
  BY DEF vars, ofDsf, ofDff, ofIQ
<1>2. CASE kind = "dsf" /\ DsfInv
  <2>1. Dsf!Position' = Dsf!Position /\ Dsf!Stream' = Dsf!Stream /\ DsfLength' = DsfLength
        /\ (Dsf!Complete' <=> Dsf!Complete)
    BY <1>1, DsfSame DEF Dsf!Position, Dsf!startOfData, Dsf!numChannels, Dsf!groupSize, Dsf!blockSize
  <2>2. DsfAtRest'
    BY <1>1, <1>2, DsfSame DEF DsfInv, DsfAtRest
  <2>3. DsfInv'
    BY <1>1, <1>2, <2>1, <2>2 DEF DsfInv
  <2>4. UNCHANGED AsStream!vars
    BY <1>1, <1>2, <2>1
       DEF AsStream!vars, StreamPhase, StreamSamples, StreamComplete, StreamPosition, StreamBlock
  <2> QED
    BY <1>1, <1>2, <2>3, <2>4 DEF FileInv
<1>3. CASE kind = "dff" /\ DffInv
  <2>1. Dff!Position' = Dff!Position /\ Dff!Stream' = Dff!Stream /\ DffLength' = DffLength
        /\ (Dff!Complete' <=> Dff!Complete) /\ Dff!Start' = Dff!Start /\ Dff!Bytes' = Dff!Bytes
    BY <1>1, DffSame DEF Dff!Position
  <2>2. /\ DffOpened' <=> DffOpened
        /\ DffUnread' <=> DffUnread
    BY <1>1, <2>1 DEF DffOpened, DffUnread
  <2>3. DffAtRest' <=> DffAtRest
    BY <1>1, DffSame DEF DffAtRest, Dff!Reading
  <2>4. \A k : DffWalk(k)' <=> DffWalk(k)
    BY <1>1 DEF DffWalk, Places, Dff!Place, Id, Dff!IsProperty, Holds, EndOf, Chunks
  <2>5. DffInv'
    BY <1>1, <1>3, <2>1, <2>2, <2>3, <2>4 DEF DffInv
  <2>6. UNCHANGED AsStream!vars
    BY <1>1, <1>3, <2>1
       DEF AsStream!vars, StreamPhase, StreamSamples, StreamComplete, StreamPosition, StreamBlock
  <2> QED
    BY <1>1, <1>3, <2>5, <2>6 DEF FileInv
<1>4. CASE kind = "iq" /\ IQInv
  <2>1. IQ!Position' = IQ!Position /\ IQ!Stream' = IQ!Stream /\ IQLength' = IQLength
        /\ IQ!Settled' = IQ!Settled
    BY <1>1, IQSame, SettledIs DEF IQ!Position
  <2>2. \A f : IQAt(f)' <=> IQAt(f)
    BY <1>1, IQSame DEF IQAt, IQRecord
  <2>3. IQInv'
    BY <1>1, <1>4, <2>1, <2>2 DEF IQInv
  <2>4. UNCHANGED AsStream!vars
    BY <1>1, <1>4, <2>1
       DEF AsStream!vars, StreamPhase, StreamSamples, StreamComplete, StreamPosition, StreamBlock
  <2> QED
    BY <1>1, <1>4, <2>3, <2>4 DEF FileInv
<1> QED
  BY <1>2, <1>3, <1>4 DEF FileInv

LEMMA FileStep ==
  ASSUME FileInv, [Next]_vars
  PROVE  FileInv' /\ (PlaysInOrder => AsStream!Next \/ UNCHANGED AsStream!vars)
<1>1. CASE DsfStep
  BY <1>1, DsfStepIs DEF DsfStep, FileInv
<1>2. CASE DffStep
  BY <1>2, DffStepIs DEF DffStep, FileInv
<1>3. CASE IQStep
  BY <1>3, IQStepIs DEF IQStep, FileInv
<1>4. CASE UNCHANGED vars
  BY <1>4, FileStutters
<1> QED
  BY <1>1, <1>2, <1>3, <1>4 DEF Next

\* What every reader's place means, through its opening, its reads of any size, its
\* rewinds and the end of its file, whatever the files.
THEOREM FileInvariant == Spec => []FileInv
<1>1. FileInv /\ [Next]_vars => FileInv'
  BY FileStep
<1> QED
  BY FileInit, <1>1, PTL DEF Spec

\* The readers of DSDIFF and I/Q files are, step by step, streams of the file's samples in
\* the order of play; the DSF reader is one of the samples that the file's own bit order
\* makes of its bytes, when that is the order of the reader's table: for any files that keep
\* to their formats, any sizes of reads and blocks.
THEOREM ReadersAreStreams == Spec => ImplementsSampleStream
<1>1. FileInv /\ [Next]_vars => [PlaysInOrder => AsStream!Next]_(AsStream!vars)
  BY FileStep
<1> QED
  BY FileInit, <1>1, FileInvariant, PTL DEF Spec, ImplementsSampleStream

LEMMA DsfEnd ==
  ASSUME file \in DsfFiles, Dsf!Complete
  PROVE  DsfLength - Dsf!samples \in 0 .. 8 * Dsf!groupSize - 1
<1> DEFINE a == 8 * Dsf!blockSize
           nc == Dsf!numChannels
           G == file.groups
           F == file.frames
<1>1. /\ a \in Nat \ {0} /\ nc \in Nat \ {0} /\ G \in Nat /\ F \in Nat
      /\ F <= a * G /\ F > a * (G - 1)
  BY DsfTypes, InputFileAssumption DEF DsfLayout, Dsf!blockSize
<1>2. DsfLength = nc * (a * G) /\ 8 * Dsf!groupSize = nc * a /\ Dsf!samples = F * nc
  <2>1. Dsf!blockSize \in Nat /\ nc \in Nat /\ G \in Nat /\ Dsf!groupSize = nc * Dsf!blockSize
    BY <1>1, DsfTypes DEF Dsf!groupSize
  <2>2. DsfLength = 8 * Dsf!groupSize * G
    BY DEF DsfLength, Dsf!Complete
  <2>3. Dsf!samples = F * nc
    BY DEF Dsf!samples
  <2> QED
    BY <2>1, <2>2, <2>3
<1> HIDE DEF a, nc, G, F
<1> DEFINE x == a * G - F
<1>3. a * G \in Nat /\ a * (G - 1) = a * G - a
  BY <1>1
<1>4. x \in 0 .. a - 1
  BY <1>1, <1>3
<1>5. nc * (a * G) - F * nc = nc * x
  BY <1>1, <1>3
<1> HIDE DEF x
<1>6. nc * x \in Nat /\ nc * x <= nc * (a - 1) /\ nc * (a - 1) = nc * a - nc /\ nc * a \in Nat
  BY <1>1, <1>4
<1> QED
  BY <1>1, <1>2, <1>5, <1>6

LEMMA EndIsAnnounced == FileInv => EndAsAnnounced
<1> SUFFICES ASSUME FileInv, status = "open", block = <<>> PROVE EndAsAnnounced
  BY DEF EndAsAnnounced
<1>1. CASE kind = "dsf" /\ DsfInv
  <2>1. Dsf!Position = 0 \/ Dsf!Position - Dsf!samples \in 0 .. 8 * Dsf!groupSize - 1
    BY <1>1, DsfEnd DEF DsfInv
  <2> QED
    BY <1>1, <2>1 DEF EndAsAnnounced
<1>2. CASE kind = "dff" /\ DffInv
  <2>1. Dff!Complete /\ Dff!Position = DffLength => Dff!Position = Dff!samples
    BY <1>2 DEF DffInv, DffOpened, DffLength, Dff!samples, Dff!Complete
  <2>2. Dff!Position = 0 \/ Dff!Position = Dff!samples
    BY <1>2, <2>1 DEF DffInv
  <2> QED
    BY <1>2, <2>2 DEF EndAsAnnounced
<1>3. CASE kind = "iq" /\ IQInv
  <2>1. IQ!Position = 0 \/ IQ!Position = IQ!channels * file.frames
    BY <1>3 DEF IQInv, IQLength
  <2> QED
    BY <1>3, <2>1 DEF EndAsAnnounced
<1> QED
  BY <1>1, <1>2, <1>3 DEF FileInv

\* A read comes back empty only at the end that the header announces: for any files that
\* keep to their formats, any modulation and any sizes of reads.
THEOREM EndIsWhereAnnounced == Spec => []EndAsAnnounced
BY FileInvariant, EndIsAnnounced, PTL

LEMMA ChunksAreInStep == FileInv => ChunksInStep
<1> SUFFICES ASSUME FileInv, kind = "dff", ~err PROVE
      /\ status # "lost"
      /\ status \in {"chunks", "props"} =>
           \A k \in Dff!Here : (status = "props") = Dff!IsProperty(k)
  BY DEF ChunksInStep
<1>1. DffInv
  BY DEF FileInv
<1>2. status # "lost"
  BY <1>1 DEF DffInv
<1>3. ASSUME status \in {"chunks", "props"}, NEW k \in Dff!Here
      PROVE  (status = "props") = Dff!IsProperty(k)
  <2>1. PICK j : DffWalk(j)
    BY <1>1, <1>3 DEF DffInv
  <2>2. file \in DffFiles /\ k = j
    BY <1>1, <1>3, <2>1, HereIs DEF DffInv
  <2>3. Dff!IsProperty(k) \in BOOLEAN
    BY DEF Dff!IsProperty
  <2>4. CASE status = "chunks"
    BY <2>1, <2>2, <2>3, <2>4 DEF DffWalk
  <2>5. CASE status = "props"
    <3>1. k \in Places /\ \E p, q : Holds(p, q) /\ k \in p + 1 .. q
      BY <2>1, <2>2, <2>5 DEF DffWalk
    <3>2. Dff!IsProperty(k)
      BY <2>2, <3>1, PropertyIs
    <3> QED
      BY <2>3, <2>5, <3>2
  <2> QED
    BY <1>3, <2>4, <2>5
<1> QED
  BY <1>2, <1>3

\* In any DSDIFF file that keeps to its format, the reader takes for a property's header
\* what is one, and nothing else for a header, up to the sound data.
THEOREM ReaderKeepsStep == Spec => []ChunksInStep
BY FileInvariant, ChunksAreInStep, PTL
-------------------------------------------------------------------------------
(***************************************************************************)
(* The decoder of wideband FM.                                             *)
(***************************************************************************)
\* The middle tap is one of the filter's.
LEMMA CenterTapInFilter ==
  /\ centerTap \in 0 .. Length - 1
  /\ Length = 2 * centerTap + 1
BY FIRFilterAssumption, MpxDecoderAssumption DEF centerTap

LEMMA InitMpxInv == InitMpx => MpxInv
<1> SUFFICES ASSUME InitMpx PROVE MpxInv
  OBVIOUS
<1> USE FIRFilterAssumption, MpxDecoderAssumption DEF InitMpx
<1>1. IInv
  BY InitIInv
<1>2. MpxTypeOK
  BY DEF MpxTypeOK
<1>3. PilotInv
  BY DEF PilotInv
<1>4. SameHistory
  BY SlotsFacts DEF SameHistory, InitFIR, Slots
<1> QED BY <1>1, <1>2, <1>3, <1>4 DEF MpxInv

\* One sample's pilot: what the four branches do to the gain, the peak and the presence.
LEMMA PilotStep ==
  ASSUME MpxTypeOK, PilotInv, NEW level \in Levels, FollowPilot(level)
  PROVE  /\ pilotGain' \in Int /\ pilotPeak' \in Int
         /\ pilotPresence' \in {"Unknown", "Present", "NotPresent"}
         /\ PilotInv'
         /\ pilotPresence # "Unknown" => pilotPresence' = pilotPresence
<1> DEFINE peak == Louder(pilotPeak, level + pilotGain)
<1>1. peak \in Int /\ peak >= pilotPeak
  BY MpxDecoderAssumption DEF Louder, MpxTypeOK
<1> HIDE DEF peak
<1> USE MpxDecoderAssumption, <1>1 DEF MpxTypeOK, PilotInv
<1>2. CASE GainExhausted /\ pilotPeak' = peak
  BY <1>2 DEF GainExhausted
<1>3. CASE PilotTooQuiet(peak) /\ pilotPeak' = peak
  BY <1>3 DEF PilotTooQuiet
<1>4. CASE PilotTooLoud(peak)
  BY <1>4 DEF PilotTooLoud
<1>5. CASE PilotStable(peak) /\ pilotPeak' = peak
  BY <1>5 DEF PilotStable
<1> QED BY <1>2, <1>3, <1>4, <1>5 DEF FollowPilot, peak

\* One sample's history: the delay line and the lower half of the ring are written alike.
LEMMA HistoryStep ==
  ASSUME IInv, MpxTypeOK, SameHistory, NEW x \in Samples, Delay(x), put(x)
  PROVE  SameHistory'
<1> USE FIRFilterAssumption, SlotsFacts DEF IInv, TypeOK, MpxTypeOK, SameHistory
<1>1. delayIndex' = currentIndex'
  BY DEF Delay, put, NextIndex
<1>2. ASSUME NEW k \in 0 .. Length - 1 PROVE delayLine'[k] = signal'[k]
  <2>1. k \in Slots /\ k \notin Length .. 2 * Length - 1
    BY DEF Slots
  <2>2. signal'[k] = IF k = currentIndex THEN x ELSE signal[k]
    BY <2>1 DEF put, Written
  <2>3. delayLine'[k] = IF k = delayIndex THEN x ELSE delayLine[k]
    BY DEF Delay
  <2> QED BY <2>2, <2>3
<1> QED BY <1>1, <1>2

LEMMA StepMpxInv == MpxInv /\ [NextMpx]_mpxVars => MpxInv'
<1> SUFFICES ASSUME MpxInv, [NextMpx]_mpxVars PROVE MpxInv'
  OBVIOUS
<1>1. ASSUME NEW x \in Samples, NEW level \in Levels, decode(x, level)
      PROVE  MpxInv'
  <2>1. Delay(x) /\ put(x) /\ FollowPilot(level)
    BY <1>1 DEF decode
  <2>2. IInv'
    BY <2>1, StepIInv DEF MpxInv, NextFIR
  <2>3. SameHistory'
    BY <2>1, HistoryStep DEF MpxInv
  <2>4. PilotInv' /\ pilotGain' \in Int /\ pilotPeak' \in Int
        /\ pilotPresence' \in {"Unknown", "Present", "NotPresent"}
    BY <2>1, PilotStep DEF MpxInv
  <2>5. delayLine' \in [0 .. Length - 1 -> Samples] /\ delayIndex' \in 0 .. Length - 1
    BY <2>1, FIRFilterAssumption DEF Delay, MpxInv, MpxTypeOK
  <2> QED BY <2>2, <2>3, <2>4, <2>5 DEF MpxInv, MpxTypeOK
<1>2. CASE UNCHANGED mpxVars
  BY <1>2 DEF mpxVars, firVars, delayVars, pilotVars, MpxInv, IInv, TypeOK, UpperHalf,
              MpxTypeOK, PilotInv, SameHistory
<1> QED BY <1>1, <1>2 DEF NextMpx

\* The delay line and the ring have the same history, and the search for the pilot's gain
\* keeps to its bounds.
THEOREM MpxInvariant == SpecMpx => []MpxInv
BY InitMpxInv, StepMpxInv, PTL DEF SpecMpx

\* The decision about the pilot is made once, whatever the levels that follow.
THEOREM PresenceIsFinal == SpecMpx => DecidedOnce
<1>1. MpxInv /\ [NextMpx]_mpxVars => [pilotPresence # "Unknown" => UNCHANGED pilotPresence]_mpxVars
  <2> SUFFICES ASSUME MpxInv, [NextMpx]_mpxVars
               PROVE  [pilotPresence # "Unknown" => UNCHANGED pilotPresence]_mpxVars
    OBVIOUS
  <2>1. ASSUME NEW x \in Samples, NEW level \in Levels, decode(x, level)
        PROVE  pilotPresence # "Unknown" => UNCHANGED pilotPresence
    BY <2>1, PilotStep DEF decode, MpxInv
  <2> QED BY <2>1 DEF NextMpx
<1> QED BY <1>1, MpxInvariant, PTL DEF SpecMpx, DecidedOnce

\* To its side filter the decoder is a caller like any other, so what is proved of the
\* filter's ring holds in it.
LEMMA DecoderCallsFilter == SpecMpx => SpecFIR
<1>1. InitMpx => InitFIR
  BY DEF InitMpx
<1>2. [NextMpx]_mpxVars => [NextFIR]_firVars
  BY DEF NextMpx, decode, NextFIR, mpxVars
<1> QED BY <1>1, <1>2, PTL DEF SpecMpx, SpecFIR

\* The side filter of a decoder keeps the last Length samples in order, and its vector
\* loop stays in the buffer.
THEOREM SideFilterIsDelayLine == SpecMpx => ImplementsDelayLine /\ []VectorReadsInBounds
BY DecoderCallsFilter, RingIsDelayLine, ReadsInBounds, PTL

\* Mono and side signal are aligned, for every odd length of the filters.
THEOREM MonoIsAligned == SpecMpx => []MonoMeetsCentreTap
<1>1. MpxInv => MonoMeetsCentreTap
  <2> SUFFICES ASSUME MpxInv PROVE MonoMeetsCentreTap
    OBVIOUS
  <2> USE FIRFilterAssumption, CenterTapInFilter, SlotsFacts
      DEF MpxInv, IInv, TypeOK, SameHistory
  <2>1. mono = signal[currentIndex + centerTap]
    <3>1. CASE currentIndex + centerTap >= Length
      <4>1. /\ currentIndex + centerTap - Length \in 0 .. currentIndex
            /\ currentIndex + centerTap - Length \in 0 .. Length - 1
        BY <3>1
      <4>2. signal[(currentIndex + centerTap - Length) + Length]
              = signal[currentIndex + centerTap - Length]
        BY <4>1 DEF UpperHalf
      <4>3. (currentIndex + centerTap - Length) + Length = currentIndex + centerTap
        OBVIOUS
      <4> QED BY <3>1, <4>1, <4>2, <4>3 DEF mono
    <3>2. CASE ~(currentIndex + centerTap >= Length)
      <4>1. currentIndex + centerTap \in 0 .. Length - 1
        BY <3>2
      <4> QED BY <3>2, <4>1 DEF mono
    <3> QED BY <3>1, <3>2
  <2> QED BY <2>1 DEF MonoMeetsCentreTap, ScalarGet
<1> QED BY <1>1, MpxInvariant, PTL
===============================================================================

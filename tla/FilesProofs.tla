---------------------------- MODULE FilesProofs ----------------------------
(***************************************************************************)
(* Theorems about Files.  What an OS reads through a partition package,    *)
(* for every disk, partition, sequence of seeks and reads, and disk error, *)
(* with the file system readers running in between; and what a load or a   *)
(* listing of an OFS or FFS volume returns, for every sound volume.        *)
(***************************************************************************)
EXTENDS Files, SequenceTheorems, TLAPS

(* The numbers from a on, as the bytes of the disk are. *)
Counts(s, a) == s \in Seq(Nat) /\ s = [i \in 1 .. Len(s) |-> a + i - 1]

(* The bytes memcpy takes out of a block: k of them from offset skip. *)
Part(t, skip, k) == SubSeq(t, skip + 1, skip + k)

PartFits(t, skip, k) ==
  skip \in Nat /\ k \in Nat /\ 1 <= k /\ skip + k <= Len(t)

LEMMA CountsPart ==
  ASSUME NEW first \in Nat, NEW t, Counts(t, first),
         NEW skip, NEW k, PartFits(t, skip, k)
  PROVE  Counts(Part(t, skip, k), first + skip) /\ Len(Part(t, skip, k)) = k
<1> USE DEF PartFits
<1> DEFINE a == skip + 1
           b == skip + k
           s == SubSeq(t, a, b)
<1>1. Len(t) \in Nat /\ \A i \in 1 .. Len(t) : t[i] = first + i - 1
  BY LenProperties DEF Counts
<1>2. a \in Int /\ b \in Int /\ a <= b /\ b - a + 1 = k
  OBVIOUS
<1>3. \A i \in a .. b : t[i] \in Nat
  <2>1. ASSUME NEW i \in a .. b PROVE i \in 1 .. Len(t) /\ first + i - 1 \in Nat
    BY <1>1
  <2>2. QED
    BY <1>1, <2>1
<1> HIDE DEF a, b
<1>4. /\ SubSeq(t, a, b) \in Seq(Nat)
      /\ Len(SubSeq(t, a, b)) = IF a <= b THEN b - a + 1 ELSE 0
      /\ \A i \in 1 .. b - a + 1 : SubSeq(t, a, b)[i] = t[a + i - 1]
  BY <1>2, <1>3, SubSeqProperties
<1>5. s \in Seq(Nat) /\ Len(s) = k /\ \A i \in 1 .. k : s[i] = t[a + i - 1]
  BY <1>2, <1>4
<1> HIDE DEF s
<1>6. ASSUME NEW i \in 1 .. k PROVE s[i] = (first + skip) + i - 1
  <2>1. s[i] = t[a + i - 1]
    BY <1>5
  <2>2. a + i - 1 = skip + i /\ skip + i \in 1 .. Len(t)
    BY <1>1 DEF a
  <2>3. t[skip + i] = first + (skip + i) - 1
    BY <1>1, <2>2
  <2>4. first + (skip + i) - 1 = (first + skip) + i - 1
    OBVIOUS
  <2>5. QED
    BY <2>1, <2>2, <2>3, <2>4
<1>7. s = [i \in 1 .. k |-> s[i]]
  BY <1>5, LenProperties
<1>8. s = [i \in 1 .. k |-> (first + skip) + i - 1]
  BY <1>6, <1>7
<1>9. Counts(s, first + skip) /\ Len(s) = k
  BY <1>5, <1>8 DEF Counts
<1>10. QED
  BY <1>9 DEF s, a, b, Part

LEMMA DivisionBounds ==
  ASSUME NEW a \in Nat, NEW b \in Nat \ {0}
  PROVE  /\ a \div b \in Nat
         /\ a - (a \div b) * b \in Nat /\ a - (a \div b) * b < b
OBVIOUS

(* How much of a block the loop copies at this byte of the disk, and what. *)
Offset(byte) == byte - (byte \div Unit) * Unit

ChunkLen(byte, left) == Least(Unit - Offset(byte), left)

Chunk(byte, left) ==
  LET base == (byte \div Unit) * Unit
      blkbuf == [i \in 1 .. Unit |-> IF i <= Unit THEN base + i - 1 ELSE -1]
  IN SubSeq(blkbuf, Offset(byte) + 1, Offset(byte) + ChunkLen(byte, left))

(* The chunk loop of f_part_read: with the disk's block size, the bytes     *)
(* copied out of blkbuf are the next ones of the disk, at least one and at  *)
(* most as many as are left.                                                *)
LEMMA NextBytes ==
  ASSUME NEW byte \in Nat, NEW left \in Nat, left > 0
  PROVE  /\ ChunkLen(byte, left) \in Nat
         /\ 1 <= ChunkLen(byte, left) /\ ChunkLen(byte, left) <= left
         /\ Counts(Chunk(byte, left), byte)
         /\ Len(Chunk(byte, left)) = ChunkLen(byte, left)
<1> DEFINE q == byte \div Unit
           base == q * Unit
           off == byte - base
           n == Least(Unit - off, left)
           blkbuf == [i \in 1 .. Unit |-> IF i <= Unit THEN base + i - 1 ELSE -1]
<1>1. Unit \in Nat \ {0}
  BY ReaderAssumption
<1>2. q \in Nat /\ off \in Nat /\ off < Unit
  BY <1>1, DivisionBounds
<1>3. base \in Nat
  <2> HIDE DEF q
  <2>1. QED
    BY <1>1, <1>2
<1>4. /\ Offset(byte) = off /\ ChunkLen(byte, left) = n
      /\ Chunk(byte, left) = SubSeq(blkbuf, off + 1, off + n)
  BY DEF Offset, ChunkLen, Chunk
<1> HIDE DEF base
<1>5. byte = base + off
  BY <1>3
<1> HIDE DEF off
<1>6. n \in Nat /\ 1 <= n /\ n <= left /\ off + n <= Unit
  BY <1>1, <1>2 DEF Least
<1>7. Counts(blkbuf, base) /\ Len(blkbuf) = Unit
  <2>1. blkbuf \in [1 .. Unit -> Nat]
    BY <1>1, <1>3
  <2>2. blkbuf \in Seq(Nat) /\ Len(blkbuf) = Unit
    BY <1>1, <2>1
  <2>3. blkbuf = [i \in 1 .. Unit |-> base + i - 1]
    BY <1>1
  <2> HIDE DEF blkbuf
  <2>4. QED
    BY <2>2, <2>3 DEF Counts
<1> HIDE DEF n, blkbuf
<1>8. PartFits(blkbuf, off, n)
  BY <1>2, <1>6, <1>7 DEF PartFits
<1>9. /\ Counts(Part(blkbuf, off, n), base + off)
      /\ Len(Part(blkbuf, off, n)) = n
  BY <1>3, <1>7, <1>8, CountsPart
<1>10. Chunk(byte, left) = Part(blkbuf, off, n)
  BY <1>4 DEF Part
<1>11. QED
  BY <1>4, <1>5, <1>6, <1>9, <1>10

LEMMA CountsOn ==
  ASSUME NEW a \in Nat, NEW s, Counts(s, a), NEW t, Counts(t, a + Len(s))
  PROVE  Counts(s \o t, a) /\ Len(s \o t) = Len(s) + Len(t)
<1>1. s \in Seq(Nat) /\ t \in Seq(Nat) /\ Len(s) \in Nat /\ Len(t) \in Nat
  BY LenProperties DEF Counts
<1>2. /\ s \o t \in Seq(Nat)
      /\ Len(s \o t) = Len(s) + Len(t)
      /\ \A i \in 1 .. Len(s) + Len(t) : (s \o t)[i] =
                 IF i <= Len(s) THEN s[i] ELSE t[i - Len(s)]
  BY <1>1, ConcatProperties, Zenon
<1> DEFINE m == Len(s) + Len(t)
<1>3. ASSUME NEW i \in 1 .. m PROVE (s \o t)[i] = a + i - 1
  <2>1. CASE i <= Len(s)
    <3>1. i \in 1 .. Len(s)
      BY <1>1, <2>1
    <3>2. s[i] = a + i - 1
      BY <3>1 DEF Counts
    <3>3. QED
      BY <1>2, <2>1, <3>2
  <2>2. CASE ~(i <= Len(s))
    <3>1. i - Len(s) \in 1 .. Len(t)
      BY <1>1, <2>2
    <3>2. t[i - Len(s)] = (a + Len(s)) + (i - Len(s)) - 1
      BY <3>1 DEF Counts
    <3>3. (s \o t)[i] = t[i - Len(s)]
      BY <1>2, <2>2
    <3>4. QED
      BY <1>1, <3>2, <3>3
  <2>3. QED
    BY <2>1, <2>2
<1>4. (s \o t) \in [1 .. m -> Nat]
  BY <1>2, LenProperties
<1> DEFINE st == s \o t
<1> HIDE DEF st, m
<1>5. st = [i \in 1 .. m |-> st[i]] /\ \A i \in 1 .. m : st[i] = a + i - 1
  BY <1>3, <1>4 DEF st
<1>6. st = [i \in 1 .. m |-> a + i - 1]
  BY <1>5
<1>7. QED
  BY <1>2, <1>6 DEF Counts, st, m

-----------------------------------------------------------------------------
(* The readers *)

(* A step of a reader begins and ends outside f_part_read, leaves the       *)
(* partition's instance alone and never returns what f_part_read returns.   *)
ReaderKeeps ==
  /\ pc \notin {"done", "part_read"}
  /\ pc' # "part_read" /\ (pc' = "done" => ret' # "ok")
  /\ vol' = vol

LEMMA FfsKeeps == FfsNext => ReaderKeeps
<1> USE DEF ReaderKeeps, Step, Return, Broken
<1>1. ASSUME FfsBoot \/ FfsProbe PROVE ReaderKeeps
  BY <1>1 DEF FfsBoot, FfsProbe
<1>2. ASSUME FfsOpen PROVE ReaderKeeps
  BY <1>2 DEF FfsOpen
<1>3. ASSUME FfsLookup PROVE ReaderKeeps
  BY <1>3 DEF FfsLookup
<1>4. ASSUME FfsFound PROVE ReaderKeeps
  BY <1>4 DEF FfsFound
<1>5. ASSUME FfsData \/ FfsExtension PROVE ReaderKeeps
  BY <1>5 DEF FfsData, FfsExtension
<1>6. ASSUME FfsList PROVE ReaderKeeps
  BY <1>6 DEF FfsList
<1>7. QED
  BY <1>1, <1>2, <1>3, <1>4, <1>5, <1>6 DEF FfsNext

LEMMA SfsKeeps == SfsNext => ReaderKeeps
<1> USE DEF ReaderKeeps, Step, Return, Broken
<1>1. ASSUME SfsBoot PROVE ReaderKeeps
  BY <1>1 DEF SfsBoot
<1>2. ASSUME SfsRoot PROVE ReaderKeeps
  BY <1>2 DEF SfsRoot
<1>3. ASSUME SfsRootObject PROVE ReaderKeeps
  BY <1>3 DEF SfsRootObject
<1>4. ASSUME SfsDir PROVE ReaderKeeps
  BY <1>4 DEF SfsDir
<1>5. ASSUME SfsList PROVE ReaderKeeps
  BY <1>5 DEF SfsList
<1>6. ASSUME SfsExtent PROVE ReaderKeeps
  BY <1>6 DEF SfsExtent
<1>7. ASSUME SfsNode PROVE ReaderKeeps
  BY <1>7 DEF SfsNode
<1>8. ASSUME SfsData PROVE ReaderKeeps
  BY <1>8 DEF SfsData
<1>9. QED
  BY <1>1, <1>2, <1>3, <1>4, <1>5, <1>6, <1>7, <1>8 DEF SfsNext

LEMMA PfsKeeps == PfsNext => ReaderKeeps
<1> USE DEF ReaderKeeps, Step, Return, Broken
<1>1. ASSUME PfsBoot PROVE ReaderKeeps
  BY <1>1 DEF PfsBoot
<1>2. ASSUME PfsRoot PROVE ReaderKeeps
  BY <1>2 DEF PfsRoot
<1>3. ASSUME PfsDir PROVE ReaderKeeps
  BY <1>3 DEF PfsDir
<1>4. ASSUME PfsDirBlock PROVE ReaderKeeps
  BY <1>4 DEF PfsDirBlock
<1>5. ASSUME PfsList PROVE ReaderKeeps
  BY <1>5 DEF PfsList
<1>6. ASSUME PfsFile PROVE ReaderKeeps
  BY <1>6 DEF PfsFile
<1>7. ASSUME PfsData PROVE ReaderKeeps
  BY <1>7 DEF PfsData
<1>8. QED
  BY <1>1, <1>2, <1>3, <1>4, <1>5, <1>6, <1>7 DEF PfsNext

LEMMA ExKeeps == ExNext => ReaderKeeps
<1> USE DEF ReaderKeeps, Step, Return, Broken
<1>1. ASSUME ExOpen PROVE ReaderKeeps
  BY <1>1 DEF ExOpen
<1>2. ASSUME ExCluster PROVE ReaderKeeps
  BY <1>2 DEF ExCluster, WalkReturn, After
<1>3. ASSUME ExSector PROVE ReaderKeeps
  BY <1>3 DEF ExSector, WalkReturn, After
<1>4. ASSUME ExSlot PROVE ReaderKeeps
  BY <1>4 DEF ExSlot, WalkReturn, After
<1>5. ASSUME ExSet PROVE ReaderKeeps
  BY <1>5 DEF ExSet, WalkReturn, After
<1>6. ASSUME ExVisit PROVE ReaderKeeps
  BY <1>6 DEF ExVisit, WalkReturn, After
<1>7. ASSUME ExFat PROVE ReaderKeeps
  BY <1>7 DEF ExFat, WalkReturn, After
<1>8. ASSUME ExData PROVE ReaderKeeps
  BY <1>8 DEF ExData
<1>9. ASSUME ExDataNext PROVE ReaderKeeps
  BY <1>9 DEF ExDataNext
<1>10. QED
  BY <1>1, <1>2, <1>3, <1>4, <1>5, <1>6, <1>7, <1>8, <1>9 DEF ExNext

-----------------------------------------------------------------------------
(* Reading a partition *)

(* A partition with the disk's block size. *)
SameBlocks == vol.fs = "raw" /\ vol.bs = Unit

(* f_part_read, between two chunks and when it has returned: the buffer     *)
(* holds the bytes from the old cursor to the new one, and what is left is  *)
(* what was asked for, clipped to the partition, without them.              *)
ReadInv ==
  /\ w = [Idle EXCEPT !.at = w.at, !.out = w.out]
  /\ from \in Nat /\ asked \in Nat /\ w.at \in Nat
  /\ from <= vol.psize
  /\ Counts(w.out, vol.start + from)
  /\ cursor = from + Len(w.out)
  /\ w.at + Len(w.out) = Least(asked, vol.psize - from)
  /\ pc = "done" => failed \/ w.at = 0

PartInv ==
  /\ vol \in Volumes /\ turn \in 1 .. 4
  /\ cursor # Closed => vol.fs = "raw"
  /\ pc = "part_read" => vol.fs = "raw"
  /\ SameBlocks /\ (cursor # Closed \/ pc = "part_read") => cursor \in 0 .. vol.psize
  /\ SameBlocks /\ (pc = "part_read" \/ (pc = "done" /\ ret = "ok")) => ReadInv

LEMMA RawTyped ==
  ASSUME vol \in Volumes, SameBlocks
  PROVE  vol.start \in Nat /\ vol.psize \in Nat
BY PartitionAssumption DEF SameBlocks

(* One round of the loop. *)
LEMMA ChunkKeeps ==
  ASSUME vol \in Volumes, SameBlocks, ReadInv, w.at > 0,
         NEW n, n = ChunkLen(vol.start + cursor, w.at),
         NEW s, s = Chunk(vol.start + cursor, w.at)
  PROVE  /\ n \in Nat /\ n <= w.at /\ w.at - n \in Nat
         /\ Counts(w.out \o s, vol.start + from)
         /\ cursor + n = from + Len(w.out \o s)
         /\ cursor + n \in 0 .. vol.psize
         /\ (w.at - n) + Len(w.out \o s) = Least(asked, vol.psize - from)
<1> DEFINE byte == vol.start + cursor
<1>1. vol.start \in Nat /\ vol.psize \in Nat
  BY RawTyped
<1>3. /\ from \in Nat /\ asked \in Nat /\ w.at \in Nat
      /\ from <= vol.psize
      /\ Counts(w.out, vol.start + from)
      /\ cursor = from + Len(w.out)
      /\ w.at + Len(w.out) = Least(asked, vol.psize - from)
  BY DEF ReadInv
<1>4. Len(w.out) \in Nat
  BY <1>3, LenProperties DEF Counts
<1>5. byte \in Nat /\ byte = (vol.start + from) + Len(w.out)
  BY <1>1, <1>3, <1>4
<1>10. /\ n \in Nat /\ 1 <= n /\ n <= w.at
       /\ Counts(s, byte) /\ Len(s) = n
  <2>1. n = ChunkLen(byte, w.at) /\ s = Chunk(byte, w.at)
    OBVIOUS
  <2> HIDE DEF byte
  <2>2. QED
    BY <1>3, <1>5, <2>1, NextBytes
<1> HIDE DEF byte
<1>11. Counts(w.out \o s, vol.start + from) /\ Len(w.out \o s) = Len(w.out) + n
  <2> DEFINE a == vol.start + from
             o == w.out
  <2>1. a \in Nat /\ Counts(o, a)
    BY <1>1, <1>3
  <2>2. Counts(s, a + Len(o))
    BY <1>5, <1>10
  <2> HIDE DEF a, o
  <2>3. Counts(o \o s, a) /\ Len(o \o s) = Len(o) + Len(s)
    BY <2>1, <2>2, CountsOn, Zenon
  <2>4. QED
    BY <1>10, <2>3 DEF a, o
<1>12. w.at + Len(w.out) <= vol.psize - from
  BY <1>1, <1>3 DEF Least
<1>13. w.at - n \in Nat
  BY <1>3, <1>10
<1>14. cursor + n = from + (Len(w.out) + n) /\ (w.at - n) + (Len(w.out) + n) = w.at + Len(w.out)
  <2>1. ASSUME NEW f \in Nat, NEW l \in Nat, NEW a \in Nat, NEW m \in Nat
        PROVE  (f + l) + m = f + (l + m) /\ (a - m) + (l + m) = a + l
    OBVIOUS
  <2>2. QED
    BY <1>3, <1>4, <1>10, <2>1
<1>15. cursor + n \in 0 .. vol.psize
  <2>1. ASSUME NEW f \in Nat, NEW l \in Nat, NEW a \in Nat, NEW m \in Nat, NEW p \in Nat,
               m <= a, a + l <= p - f
        PROVE  (f + l) + m \in 0 .. p
    BY <2>1
  <2>2. QED
    BY <1>1, <1>3, <1>4, <1>10, <1>12, <2>1
<1>16. QED
  BY <1>3, <1>10, <1>11, <1>13, <1>14, <1>15

LEMMA PartInvInit == Init => PartInv
BY DEF Init, ReaderInit, PartInit, PartInv, Closed, Order

LEMMA PartInvStep == PartInv /\ [Next]_vars => PartInv'
<1> SUFFICES ASSUME PartInv, [Next]_vars PROVE PartInv'
  OBVIOUS
<1>0. vol \in Volumes /\ turn \in 1 .. 4
  BY DEF PartInv
<1>1. CASE Call
  BY <1>1 DEF Call, Enter, PartInv, SameBlocks, partVars
<1>2. CASE Start
  BY <1>2 DEF Start, Order, Broken, Step, PartInv, SameBlocks, partVars
<1>3. CASE AskNext
  <2>1. turn < 4 /\ turn' = turn + 1 /\ pc' = Order[turn'] /\ ret' = "none" /\ vol' = vol
        /\ UNCHANGED partVars
    BY <1>3 DEF AskNext, Order
  <2>2. turn' \in {2, 3, 4}
    BY <1>0, <2>1
  <2>3. pc' \notin {"done", "part_read"}
    BY <2>1, <2>2 DEF Order
  <2>4. QED
    BY <2>1, <2>2, <2>3 DEF PartInv, SameBlocks, partVars
<1>4. CASE Reading
  <2>1. ReaderKeeps /\ UNCHANGED <<partVars, turn>>
    BY <1>4, FfsKeeps, SfsKeeps, PfsKeeps, ExKeeps DEF Reading
  <2>2. QED
    BY <2>1 DEF ReaderKeeps, PartInv, SameBlocks, partVars
<1>5. CASE PartOpen /\ turn' = turn
  <2>1. vol' = vol /\ vol.fs = "raw" /\ cursor' = 0 /\ pc' = "done" /\ ret' = "none"
    BY <1>5 DEF PartOpen, Moved
  <2>2. SameBlocks => 0 \in 0 .. vol.psize
    BY <1>0, RawTyped
  <2>3. QED
    BY <1>5, <2>1, <2>2 DEF PartInv, SameBlocks
<1>6. CASE PartClose /\ turn' = turn
  BY <1>6 DEF PartClose, Moved, PartInv, SameBlocks
<1>7. CASE PartSeek /\ turn' = turn
  <2>1. PICK pos \in Positions : Moved(IF pos > vol.psize THEN cursor ELSE pos)
    BY <1>7 DEF PartSeek
  <2>2. vol' = vol /\ pc' = "done" /\ ret' = "none" /\ pc = "done" /\ cursor # Closed
        /\ cursor' = IF pos > vol.psize THEN cursor ELSE pos
    BY <1>7, <2>1 DEF PartSeek, Moved
  <2>3. vol.fs = "raw" /\ (SameBlocks => cursor \in 0 .. vol.psize)
    BY <2>2 DEF PartInv
  <2>4. SameBlocks => cursor' \in 0 .. vol.psize
    BY <1>0, <2>2, <2>3, RawTyped, PartitionAssumption
  <2>5. QED
    BY <1>7, <1>0, <2>2, <2>3, <2>4 DEF PartInv, SameBlocks
<1>8. CASE PartRead /\ turn' = turn
  <2>1. PICK len \in Lengths : w' = [Idle EXCEPT !.at = Remain(len)] /\ asked' = len
    BY <1>8 DEF PartRead
  <2>2. vol' = vol /\ pc' = "part_read" /\ from' = cursor /\ cursor' = cursor /\ cursor # Closed
    BY <1>8 DEF PartRead
  <2>3. ASSUME SameBlocks PROVE ReadInv'
    <3>1. vol.psize \in Nat /\ vol.start \in Nat /\ cursor \in 0 .. vol.psize /\ len \in Nat
      BY <1>0, <2>2, <2>3, RawTyped, PartitionAssumption DEF PartInv
    <3>2. w'.at = Remain(len) /\ w'.out = << >>
      BY <2>1 DEF Idle
    <3>3. w' = [Idle EXCEPT !.at = w'.at, !.out = w'.out]
      BY <2>1, <3>2 DEF Idle
    <3>4. Remain(len) \in Nat /\ Remain(len) = Least(len, vol.psize - cursor)
      BY <3>1 DEF Remain, Least
    <3>5. Counts(<< >>, vol.start + cursor) /\ Len(<< >>) = 0
      BY DEF Counts
    <3>6. QED
      BY <2>1, <2>2, <3>1, <3>2, <3>3, <3>4, <3>5 DEF ReadInv
  <2>4. QED
    BY <1>8, <1>0, <2>2, <2>3 DEF PartInv, SameBlocks
<1>9. CASE PartChunk /\ turn' = turn
  <2> DEFINE byte == vol.start + cursor
             block == byte \div vol.bs
             off == byte - block * vol.bs
             n == Least(vol.bs - off, w.at)
             blkbuf == [i \in 1 .. vol.bs |-> IF i <= Unit THEN block * Unit + i - 1 ELSE -1]
             s == SubSeq(blkbuf, off + 1, off + n)
  <2>1. pc = "part_read" /\ w.at > 0 /\ vol.fs = "raw" /\ vol' = vol
    BY <1>9 DEF PartChunk, PartInv, Broken, Step
  <2>2. CASE (Broken("error") \/ Broken("ok")) /\ UNCHANGED partVars
    <3>1. pc' = "done" /\ failed' = TRUE /\ UNCHANGED <<vol, w, cursor, from, asked>>
      BY <2>2 DEF Broken, partVars
    <3>2. SameBlocks => ReadInv'
      BY <2>1, <3>1 DEF PartInv, ReadInv
    <3>3. QED
      BY <1>9, <2>1, <3>1, <3>2 DEF PartInv, SameBlocks
  <2>3. CASE /\ Step("part_read", [w EXCEPT !.at = @ - n, !.out = @ \o s])
             /\ cursor' = cursor + n
             /\ UNCHANGED <<from, asked>>
    <3>1. /\ pc' = "part_read" /\ w' = [w EXCEPT !.at = w.at - n, !.out = w.out \o s]
          /\ cursor' = cursor + n /\ from' = from /\ asked' = asked
      BY <2>3 DEF Step
    <3>2. ASSUME SameBlocks PROVE ReadInv' /\ cursor' \in 0 .. vol.psize
      <4>1. ReadInv /\ cursor \in 0 .. vol.psize
        BY <2>1, <3>2 DEF PartInv
      <4>2. /\ n \in Nat /\ n <= w.at /\ w.at - n \in Nat
            /\ Counts(w.out \o s, vol.start + from)
            /\ cursor + n = from + Len(w.out \o s)
            /\ cursor + n \in 0 .. vol.psize
            /\ (w.at - n) + Len(w.out \o s) = Least(asked, vol.psize - from)
        <5>1. n = ChunkLen(byte, w.at) /\ s = Chunk(byte, w.at)
          BY <3>2 DEF SameBlocks, ChunkLen, Chunk, Offset
        <5> HIDE DEF n, s
        <5>2. QED
          BY <1>0, <2>1, <3>2, <4>1, <5>1, ChunkKeeps
      <4> HIDE DEF n, s
      <4>3. w = [Idle EXCEPT !.at = w.at, !.out = w.out]
        BY <4>1 DEF ReadInv
      <4>4. w'.at = w.at - n /\ w'.out = w.out \o s
        BY <3>1, <4>3 DEF Idle
      <4>5. w' = [Idle EXCEPT !.at = w'.at, !.out = w'.out]
        BY <3>1, <4>3, <4>4 DEF Idle
      <4>6. QED
        BY <2>1, <3>1, <4>1, <4>2, <4>4, <4>5 DEF ReadInv
    <3>3. QED
      BY <1>9, <1>0, <2>1, <3>1, <3>2 DEF PartInv, SameBlocks
  <2>4. QED
    BY <1>9, <2>2, <2>3 DEF PartChunk
<1>10. CASE PartReadEnds /\ turn' = turn
  <2>1. pc = "part_read" /\ w.at = 0 /\ pc' = "done"
        /\ UNCHANGED <<vol, w, cursor, from, asked, failed>>
    BY <1>10 DEF PartReadEnds, Return, partVars
  <2>2. SameBlocks => ReadInv'
    BY <2>1 DEF PartInv, ReadInv
  <2>3. QED
    BY <1>10, <2>1, <2>2 DEF PartInv, SameBlocks
<1>11. CASE UNCHANGED vars
  BY <1>11 DEF vars, readerVars, partVars, PartInv, SameBlocks, ReadInv
<1>12. QED
  BY <1>1, <1>2, <1>3, <1>4, <1>5, <1>6, <1>7, <1>8, <1>9, <1>10, <1>11
     DEF Next, Methods, PartNext

(* For every disk, every partition with the disk's block size, every        *)
(* sequence of seeks and reads of any length and every disk error: f_part_  *)
(* read returns the partition's bytes from the cursor on, in order, never a *)
(* byte behind its end, and moves the cursor by exactly what it returned.   *)
THEOREM PartitionIsRead == Spec => []ReadsPartition
<1>1. PartInv => ReadsPartition
  <2> SUFFICES ASSUME PartInv, vol.fs = "raw", vol.bs = Unit, pc = "done", ret = "ok"
               PROVE  /\ w.out = [i \in 1 .. Len(w.out) |-> vol.start + from + i - 1]
                      /\ cursor = from + Len(w.out) /\ cursor <= vol.psize
                      /\ failed \/ Len(w.out) = Least(asked, vol.psize - from)
    BY DEF ReadsPartition
  <2>1. vol \in Volumes /\ SameBlocks /\ ReadInv
    BY DEF PartInv, SameBlocks
  <2>2. vol.psize \in Nat
    BY <2>1, RawTyped
  <2>3. Len(w.out) \in Nat
    BY <2>1, LenProperties DEF ReadInv, Counts
  <2>4. w.out = [i \in 1 .. Len(w.out) |-> vol.start + from + i - 1]
    BY <2>1 DEF ReadInv, Counts
  <2>5. cursor = from + Len(w.out) /\ cursor <= vol.psize
    BY <2>1, <2>2, <2>3 DEF ReadInv, Least
  <2>6. failed \/ Len(w.out) = Least(asked, vol.psize - from)
    BY <2>1, <2>3 DEF ReadInv
  <2>7. QED
    BY <2>4, <2>5, <2>6
<1>2. QED
  BY <1>1, PartInvInit, PartInvStep, PTL DEF Spec

-----------------------------------------------------------------------------
(* Loads and listings of FFS volumes *)

(* The volumes LoadsWhatIsStored and ListsWhatIsStored speak of. *)
SoundFfs == vol \in Volumes /\ vol.fs = "ffs" /\ vol.sound /\ KnownLayout

LEMMA Laid ==
  ASSUME SoundFfs
  PROVE  FfsLaid(vol) /\ (vol.hint => vol.n % 2 = 0 /\ vol.n * Unit < Wrap)
BY FfsVolumesAssumption DEF SoundFfs, KnownLayout

LEMMA PathParts ==
  ASSUME NEW S, NEW p \in Seq(S)
  PROVE  /\ Len(p) \in Nat
         /\ SubSeq(p, 1, 0) = << >> /\ SubSeq(p, 1, Len(p)) = p
         /\ \A k \in 1 .. Len(p) :
              /\ SubSeq(p, 1, k - 1) \in Seq(S) /\ p[k] \in S
              /\ SubSeq(p, 1, k) = Append(SubSeq(p, 1, k - 1), p[k])
<1>1. Len(p) \in Nat /\ p \in [1 .. Len(p) -> S]
  BY LenProperties
<1>2. SubSeq(p, 1, 0) = << >>
  OBVIOUS
<1>3. SubSeq(p, 1, Len(p)) = p
  BY <1>1
<1>4. ASSUME NEW k \in 1 .. Len(p)
      PROVE  /\ SubSeq(p, 1, k - 1) \in Seq(S) /\ p[k] \in S
             /\ SubSeq(p, 1, k) = Append(SubSeq(p, 1, k - 1), p[k])
  BY <1>1
<1>5. QED
  BY <1>1, <1>2, <1>3, <1>4

LEMMA PathGrows ==
  ASSUME NEW S, NEW p \in Seq(S), NEW k \in 1 .. Len(p)
  PROVE  p[k] \in S /\ SubSeq(p, 1, k) = Append(SubSeq(p, 1, k - 1), p[k])
BY PathParts

LEMMA ProductDivided ==
  ASSUME NEW a \in Nat, NEW b \in Nat \ {0}
  PROVE  (a * b) \div b = a
OBVIOUS

LEMMA Halved ==
  ASSUME NEW a \in Nat
  PROVE  (2 * a) \div 2 = a /\ (a * 2) \div 2 = a
         /\ (a % 2 = 0 => (2 + a - 1) \div 2 = a \div 2)
OBVIOUS

LEMMA RootFound ==
  ASSUME SoundFfs, w.at = vol.at[<< >>]
  PROVE  RootBlock = vol.at[<< >>]
<1> DEFINE r == vol.at[<< >>]
<1>1. FfsLaid(vol) /\ (vol.hint => vol.n % 2 = 0 /\ vol.n * Unit < Wrap)
  BY Laid
<1>2. r \in Nat /\ vol.n \in Nat /\ vol.hint \in BOOLEAN
      /\ (vol.hint => r = (2 + vol.n - 1) \div 2) /\ (~vol.hint => r * 2 * Unit < Wrap)
  BY <1>1 DEF FfsLaid, RootLaid, Paths
<1>3. Unit \in Nat \ {0} /\ Wrap \in Nat \ {0}
  BY ReaderAssumption, FfsAssumption
<1>4. CASE vol.hint
  <2>1. SizeGuess = vol.n * Unit
    BY <1>1, <1>4 DEF SizeGuess
  <2>2. SizeGuess \div Unit = vol.n
    BY <1>2, <1>3, <2>1, ProductDivided
  <2>3. QED
    BY <1>1, <1>2, <1>4, <2>2, Halved DEF RootBlock
<1>5. CASE ~vol.hint
  <2>1. SizeGuess = (r * 2 * Unit) % Wrap
    BY <1>5 DEF SizeGuess
  <2>2. r * 2 * Unit \in Nat
    <3>1. r * 2 \in Nat
      BY <1>2
    <3>2. ASSUME NEW x \in Nat PROVE x * Unit \in Nat
      BY <1>3
    <3>3. QED
      BY <3>1, <3>2
  <2>3. (r * 2 * Unit) % Wrap = r * 2 * Unit
    <3>1. ASSUME NEW x \in Nat, x < Wrap PROVE x % Wrap = x
      BY <1>3, <3>1
    <3>2. QED
      BY <1>2, <1>5, <2>2, <3>1
  <2>4. r * 2 \in Nat
    BY <1>2
  <2>5. SizeGuess \div Unit = r * 2
    BY <1>3, <2>1, <2>3, <2>4, ProductDivided
  <2>6. QED
    BY <1>2, <2>5, Halved DEF RootBlock
<1>6. QED
  BY <1>2, <1>4, <1>5

(* What w always is. *)
Locals ==
  w = [at |-> w.at, guard |-> w.guard, idx |-> w.idx, comp |-> w.comp, buf |-> w.buf,
       hdr |-> w.hdr, size |-> w.size, out |-> w.out, shown |-> w.shown]

Root == vol.at[<< >>]

(* The directory walk_path is in, and the name of the i-th block of a chain. *)
Here == SubSeq(call.path, 1, w.comp - 1)

NameAt(v, c, i) == v.blk[c[i]].name

Fresh == w.out = << >> /\ w.shown = {}

(* The search for the root block has not gone past it, unless a read failed. *)
ProbeInv ==
  /\ Fresh /\ w.comp = 1 /\ w.idx \in Nat /\ (w.idx = 0 => vol.hint)
  /\ ~failed => IF vol.hint THEN w.idx = 0
                ELSE \E i \in w.idx .. Len(ProbeMids) : ProbeMids[i] = Root

OpenInv == Fresh /\ w.comp = 1 /\ w.at = Root /\ w.buf = vol.blk[Root]

(* The look-up is at a block of its chain, or behind it, and has not passed *)
(* the name.                                                                *)
OnChain(v, c, n, b) ==
  \E j \in 1 .. Len(c) + 1 : b = Link(c, j) /\ \A i \in 1 .. j - 1 : NameAt(v, c, i) # n

LookupInv ==
  /\ Fresh /\ w.idx = 0 /\ w.comp \in 1 .. Len(call.path)
  /\ Here \in DOMAIN vol.dirs
  /\ OnChain(vol, vol.chain[Here][Hash[Name]], Name, w.at)

FoundInv ==
  /\ Fresh /\ w.idx = 0 /\ w.at = 0
  /\ call.path \in Paths(vol) /\ w.hdr = vol.blk[vol.at[call.path]]

(* The data pointers behind and before retbuf's end. *)
DataAt(p, j) ==
  /\ w.hdr = vol.blk[vol.lists[p][j]]
  /\ w.out = SubSeq(vol.files[p], 1, vol.off[p][j][w.idx + 1])

DataInv ==
  /\ call.what = "load" /\ call.path \in DOMAIN vol.files
  /\ w.size = Len(vol.files[call.path]) /\ w.idx \in 0 .. DbMax
  /\ \E j \in 1 .. Len(vol.lists[call.path]) : DataAt(call.path, j)

(* The names of the chains before h, and of the blocks before j of chain h. *)
NamesBefore(v, p, h, j) ==
  {n \in v.dirs[p] :
     \/ Hash[n] < h
     \/ Hash[n] = h /\ \E i \in 1 .. j - 1 : NameAt(v, v.chain[p][h], i) = n}

ListInv ==
  /\ call.what = "list" /\ call.path \in DOMAIN vol.dirs
  /\ w.hdr = vol.blk[vol.at[call.path]] /\ w.idx \in 0 .. Len(w.hdr.ht)
  /\ w.idx = 0 => w.at = 0 /\ w.shown = {}
  /\ w.idx # 0 => \E j \in 1 .. Len(vol.chain[call.path][w.idx]) + 1 :
                    /\ w.at = Link(vol.chain[call.path][w.idx], j)
                    /\ w.shown = NamesBefore(vol, call.path, w.idx, j)

(* What a call that has returned says. *)
LoadAnswer ==
  IF ret = "end" THEN call.path \in DOMAIN vol.files /\ w.out = vol.files[call.path]
  ELSE failed \/ (ret = "nofile" /\ call.path \notin DOMAIN vol.files)

ListAnswer ==
  failed \/ IF call.path \in DOMAIN vol.dirs
            THEN ret = "end" /\ w.shown = vol.dirs[call.path]
            ELSE ret \in {"end", "nofile"} /\ w.shown = {}

Answer ==
  /\ call.what = "load" => LoadAnswer
  /\ call.what = "list" => ListAnswer

FfsPlaces == {"start", "ffs_boot", "ffs_probe", "ffs_open", "ffs_lookup", "ffs_found",
              "ffs_data", "ffs_list"}

OtherPlaces == {"sfs_boot", "pfs_boot", "ex_boot"}

(* During a call and after it.  The readers behind amiga_ffs in g_filesys  *)
(* are asked only when a read has failed, and do not know the volume.      *)
CallInv ==
  /\ call \in vol.calls
  /\ pc \in FfsPlaces \cup OtherPlaces \cup {"done"}
  /\ pc \in FfsPlaces => turn = 1
  /\ pc \in OtherPlaces => failed
  /\ pc \in {"start", "ffs_boot"} => Fresh /\ w.comp = 1
  /\ pc = "ffs_probe" => ProbeInv
  /\ pc = "ffs_open" => OpenInv
  /\ pc = "ffs_lookup" => LookupInv
  /\ pc = "ffs_found" => FoundInv
  /\ pc = "ffs_data" => DataInv
  /\ pc = "ffs_list" => ListInv
  /\ pc = "done" => Answer

FfsInv ==
  SoundFfs =>
    Locals /\ (CallInv \/ (pc = "done" /\ ret = "none" /\ call.what = "load"))

LEMMA DirFacts ==
  ASSUME SoundFfs, NEW p \in DOMAIN vol.dirs
  PROVE  LET d == vol.blk[vol.at[p]]
         IN /\ IsDir(d) /\ Block(vol.at[p]) = d /\ Len(d.ht) \in Nat
            /\ \A h \in 1 .. Len(d.ht) : d.ht[h] = Link(vol.chain[p][h], 1)
            /\ \A n \in DOMAIN Hash : Hash[n] \in 1 .. Len(d.ht)
<1>1. FfsLaid(vol)
  BY Laid
<1>2. DirLaid(vol, p) /\ vol.at[p] \in DOMAIN vol.blk
  BY <1>1 DEF FfsLaid, Paths
<1>3. QED
  BY <1>2 DEF DirLaid, IsDir, Block

(* What block j of chain h of directory p holds. *)
ChainHeader(v, p, h, j) ==
  LET c == v.chain[p][h]
      b == v.blk[c[j]]
  IN /\ c[j] # 0 /\ c[j] \in DOMAIN v.blk /\ b.id = "header" /\ b.next = Link(c, j + 1)
     /\ b.name \in v.dirs[p] /\ Hash[b.name] = h
     /\ c[j] = v.at[Append(p, b.name)] /\ Append(p, b.name) \in Paths(v)

LEMMA ChainTyped ==
  ASSUME SoundFfs, NEW p \in DOMAIN vol.dirs, NEW h \in 1 .. Len(vol.blk[vol.at[p]].ht)
  PROVE  /\ vol.chain[p][h] \in Seq(DOMAIN vol.blk \ {0}) /\ Len(vol.chain[p][h]) \in Nat
         /\ ChainLaid(vol, p, h)
<1>1. FfsLaid(vol)
  BY Laid
<1>2. DirLaid(vol, p)
  BY <1>1 DEF FfsLaid
<1>3. ChainLaid(vol, p, h)
  BY <1>2 DEF DirLaid
<1>4. QED
  BY <1>3, LenProperties DEF ChainLaid

LEMMA ChainBlock ==
  ASSUME SoundFfs, NEW p \in DOMAIN vol.dirs, NEW h \in 1 .. Len(vol.blk[vol.at[p]].ht),
         NEW j \in 1 .. Len(vol.chain[p][h])
  PROVE  ChainHeader(vol, p, h, j)
<1> DEFINE c == vol.chain[p][h]
           b == vol.blk[c[j]]
<1>1. c \in Seq(DOMAIN vol.blk \ {0}) /\ ChainLaid(vol, p, h)
  BY ChainTyped
<1>2. c[j] \in DOMAIN vol.blk /\ c[j] # 0
  BY <1>1
<1>3. /\ b.id = "header" /\ b.next = Link(c, j + 1)
      /\ b.name \in vol.dirs[p] /\ Hash[b.name] = h
      /\ c[j] = vol.at[Append(p, b.name)]
  BY <1>1 DEF ChainLaid
<1>4. FfsLaid(vol)
  BY Laid
<1>5. DirLaid(vol, p)
  BY <1>4 DEF FfsLaid
<1>6. Append(p, b.name) \in Paths(vol)
  BY <1>3, <1>5 DEF DirLaid
<1>7. QED
  BY <1>2, <1>3, <1>6 DEF ChainHeader

(* A name of the directory is on its chain. *)
LEMMA OnItsChain ==
  ASSUME SoundFfs, NEW p \in DOMAIN vol.dirs, NEW n \in vol.dirs[p]
  PROVE  n \in DOMAIN Hash
         /\ \E i \in 1 .. Len(vol.chain[p][Hash[n]]) : NameAt(vol, vol.chain[p][Hash[n]], i) = n
<1>1. FfsLaid(vol)
  BY Laid
<1>2. DirLaid(vol, p)
  BY <1>1 DEF FfsLaid
<1>3. QED
  BY <1>2 DEF DirLaid, NameAt

LEMMA HeaderKind ==
  ASSUME SoundFfs, NEW q \in Paths(vol)
  PROVE  LET b == vol.blk[vol.at[q]]
         IN /\ q \in DOMAIN vol.dirs => IsDir(b) /\ q \notin DOMAIN vol.files
            /\ q \in DOMAIN vol.files => b.id = "header" /\ b.sec = "file" /\ ~IsDir(b)
<1>1. FfsLaid(vol)
  BY Laid
<1>2. ASSUME q \in DOMAIN vol.dirs PROVE vol.blk[vol.at[q]].sec \in {"root", "dir"} /\ IsDir(vol.blk[vol.at[q]])
  <2>1. DirLaid(vol, q)
    BY <1>1, <1>2 DEF FfsLaid
  <2>2. QED
    BY <2>1 DEF DirLaid, IsDir
<1>3. ASSUME q \in DOMAIN vol.files
      PROVE  vol.blk[vol.at[q]].id = "header" /\ vol.blk[vol.at[q]].sec = "file" /\ ~IsDir(vol.blk[vol.at[q]])
  <2>1. FileLaid(vol, q)
    BY <1>1, <1>3 DEF FfsLaid
  <2>2. QED
    BY <2>1 DEF FileLaid, IsDir
<1>4. QED
  BY <1>2, <1>3

(* A path is stored only if all its beginnings are directories. *)
LEMMA NotStored ==
  ASSUME SoundFfs, NEW p \in Seq(DOMAIN Hash), NEW k \in 1 .. Len(p),
         \/ SubSeq(p, 1, k) \notin Paths(vol)
         \/ k < Len(p) /\ SubSeq(p, 1, k) \notin DOMAIN vol.dirs
  PROVE  p \notin Paths(vol)
<1>1. FfsLaid(vol) /\ Len(p) \in Nat /\ SubSeq(p, 1, Len(p)) = p
  BY Laid, PathParts
<1>2. CASE k = Len(p)
  <2>1. ~(k < Len(p))
    BY <1>1, <1>2
  <2>2. SubSeq(p, 1, k) = p
    BY <1>1, <1>2
  <2>3. SubSeq(p, 1, k) \notin Paths(vol)
    BY <2>1
  <2>4. QED
    BY <2>2, <2>3, Zenon
<1>3. CASE k < Len(p)
  <2>1. SubSeq(p, 1, k) \notin DOMAIN vol.dirs
    BY <1>3 DEF Paths
  <2>2. k \in 0 .. Len(p) - 1
    BY <1>1, <1>3
  <2>3. QED
    BY <1>1, <2>1, <2>2 DEF FfsLaid
<1>4. k = Len(p) \/ k < Len(p)
  <2>1. ASSUME NEW l \in Nat, NEW i \in 1 .. l PROVE i = l \/ i < l
    OBVIOUS
  <2>2. Len(p) \in Nat
    BY <1>1
  <2>3. QED
    BY <2>1, <2>2, Zenon
<1>5. QED
  BY <1>2, <1>3, <1>4, Zenon

(* A chain that is used up does not have the name. *)
LEMMA EndOfChain ==
  ASSUME SoundFfs, NEW p \in DOMAIN vol.dirs, NEW n \in DOMAIN Hash,
         OnChain(vol, vol.chain[p][Hash[n]], n, 0)
  PROVE  Append(p, n) \notin Paths(vol)
<1> DEFINE c == vol.chain[p][Hash[n]]
<1>1. Hash[n] \in 1 .. Len(vol.blk[vol.at[p]].ht)
  BY DirFacts
<1>2. Len(c) \in Nat /\ \A j \in 1 .. Len(c) : c[j] # 0
  BY <1>1, ChainTyped, ChainBlock DEF ChainHeader
<1>3. PICK j \in 1 .. Len(c) + 1 : 0 = Link(c, j) /\ \A i \in 1 .. j - 1 : NameAt(vol, c, i) # n
  BY DEF OnChain
<1>4. j = Len(c) + 1
  BY <1>2, <1>3 DEF Link
<1>5. \A i \in 1 .. Len(c) : NameAt(vol, c, i) # n
  BY <1>2, <1>3, <1>4
<1>6. n \notin vol.dirs[p]
  BY <1>5, OnItsChain
<1>7. FfsLaid(vol)
  BY Laid
<1>8. DirLaid(vol, p)
  BY <1>7 DEF FfsLaid
<1>9. QED
  BY <1>6, <1>8 DEF DirLaid

(* One block of a chain: it is the header of the path so far, and behind it *)
(* the look-up is still on the chain.                                       *)
LEMMA NextOnChain ==
  ASSUME SoundFfs, NEW p \in DOMAIN vol.dirs, NEW n \in DOMAIN Hash, NEW a, a # 0,
         OnChain(vol, vol.chain[p][Hash[n]], n, a)
  PROVE  /\ Block(a).id = "header"
         /\ Block(a).name # n => OnChain(vol, vol.chain[p][Hash[n]], n, Block(a).next)
         /\ Block(a).name = n => /\ Append(p, n) \in Paths(vol)
                                 /\ Block(a) = vol.blk[vol.at[Append(p, n)]]
<1> DEFINE c == vol.chain[p][Hash[n]]
<1>1. Hash[n] \in 1 .. Len(vol.blk[vol.at[p]].ht)
  BY DirFacts
<1>2. PICK j \in 1 .. Len(c) + 1 : a = Link(c, j) /\ \A i \in 1 .. j - 1 : NameAt(vol, c, i) # n
  BY DEF OnChain
<1>3. Len(c) \in Nat
  BY <1>1, ChainTyped
<1>4. j \in 1 .. Len(c) /\ a = c[j]
  BY <1>2, <1>3 DEF Link
<1>5. LET b == vol.blk[c[j]]
      IN /\ Block(c[j]) = b /\ b.id = "header" /\ b.next = Link(c, j + 1)
         /\ c[j] = vol.at[Append(p, b.name)] /\ Append(p, b.name) \in Paths(vol)
  <2>1. ChainHeader(vol, p, Hash[n], j)
    BY <1>1, <1>4, ChainBlock
  <2>2. QED
    BY <2>1 DEF ChainHeader, Block
<1>6. ASSUME Block(a).name # n PROVE OnChain(vol, c, n, Block(a).next)
  <2>1. j + 1 \in 1 .. Len(c) + 1 /\ Block(a).next = Link(c, j + 1)
    BY <1>3, <1>4, <1>5
  <2>2. ASSUME NEW i \in 1 .. (j + 1) - 1 PROVE NameAt(vol, c, i) # n
    <3>1. i \in 1 .. j - 1 \/ i = j
      BY <1>4
    <3>2. NameAt(vol, c, j) # n
      BY <1>4, <1>5, <1>6 DEF NameAt
    <3>3. QED
      BY <1>2, <3>1, <3>2
  <2>3. QED
    BY <2>1, <2>2 DEF OnChain
<1>7. QED
  BY <1>4, <1>5, <1>6

-----------------------------------------------------------------------------
(* How a step of amiga_ffs ends: with an answer, or further on. *)

LEMMA Answers ==
  ASSUME CallInv, UNCHANGED <<vol, call, turn>>, pc' = "done", Answer'
  PROVE  CallInv'
BY DEF CallInv, FfsPlaces, OtherPlaces

LEMMA BrokenAnswers ==
  ASSUME CallInv, Locals, NEW r, r # "end" \/ call.what = "list", Broken(r), UNCHANGED turn
  PROVE  CallInv' /\ Locals'
<1>1. UNCHANGED <<vol, call, turn, w>> /\ pc' = "done" /\ ret' = r /\ failed'
  BY DEF Broken
<1>2. call.what # "load" \/ r # "end"
  OBVIOUS
<1>3. Answer'
  BY <1>1, <1>2 DEF Answer, LoadAnswer, ListAnswer
<1>4. QED
  BY <1>1, <1>3, Answers DEF Locals

LEMMA NoFileAnswers ==
  ASSUME SoundFfs, CallInv, Locals, Fresh, Return("nofile"), UNCHANGED turn,
         call.path \notin Paths(vol)
  PROVE  CallInv' /\ Locals'
<1>1. UNCHANGED <<vol, call, turn, w>> /\ pc' = "done" /\ ret' = "nofile"
  BY DEF Return
<1>2. call.path \notin DOMAIN vol.files /\ call.path \notin DOMAIN vol.dirs
  BY DEF Paths
<1>3. Answer'
  BY <1>1, <1>2 DEF Answer, LoadAnswer, ListAnswer, Fresh
<1>4. QED
  BY <1>1, <1>3, Answers DEF Locals

(* The parts of CallInv about places inside amiga_ffs. *)
PlaceInv ==
  /\ pc \in FfsPlaces
  /\ pc \in {"start", "ffs_boot"} => Fresh /\ w.comp = 1
  /\ pc = "ffs_probe" => ProbeInv
  /\ pc = "ffs_open" => OpenInv
  /\ pc = "ffs_lookup" => LookupInv
  /\ pc = "ffs_found" => FoundInv
  /\ pc = "ffs_data" => DataInv
  /\ pc = "ffs_list" => ListInv

LEMMA GoesOn ==
  ASSUME CallInv, UNCHANGED <<vol, call, turn>>, pc \in FfsPlaces, PlaceInv'
  PROVE  CallInv'
BY DEF CallInv, PlaceInv, FfsPlaces, OtherPlaces

LEMMA CallFacts ==
  ASSUME SoundFfs, CallInv
  PROVE  call.what \in {"load", "list"} /\ call.path \in Seq(DOMAIN Hash) /\ Len(call.path) \in Nat
<1>1. FfsLaid(vol) /\ call \in vol.calls
  BY Laid DEF CallInv
<1>2. call.what \in {"load", "list"} /\ call.path \in Seq(DOMAIN Hash)
  BY <1>1 DEF FfsLaid
<1>3. QED
  BY <1>2, LenProperties

LEMMA RootFacts ==
  ASSUME SoundFfs
  PROVE  /\ << >> \in DOMAIN vol.dirs /\ Root \in DOMAIN vol.blk /\ Root \in Nat
         /\ IsRoot(vol.blk[Root]) /\ Block(Root) = vol.blk[Root]
         /\ Block(0).id = "boot" /\ vol.hint \in BOOLEAN
         /\ \A b : IsRoot(Block(b)) => b = Root
         /\ vol.hint => (2 + vol.n - 1) \div 2 = Root
         /\ ~vol.hint => \E i \in 1 .. Len(ProbeMids) : ProbeMids[i] = Root
<1>1. FfsLaid(vol)
  BY Laid
<1>2. << >> \in DOMAIN vol.dirs /\ Root \in DOMAIN vol.blk /\ Root \in Nat
  BY <1>1 DEF FfsLaid, Paths, Root
<1>3. RootLaid(vol) /\ Block(0).id = "boot"
  BY <1>1 DEF FfsLaid, Block
<1>4. IsRoot(vol.blk[Root]) /\ \A b \in DOMAIN vol.blk : IsRoot(vol.blk[b]) => b = Root
  BY <1>2, <1>3 DEF RootLaid, Root
<1>5. ASSUME NEW b, IsRoot(Block(b)) PROVE b = Root
  <2>1. b \in DOMAIN vol.blk
    BY <1>5 DEF Block, IsRoot, Junk
  <2>2. QED
    BY <1>4, <1>5, <2>1 DEF Block
<1>6. QED
  BY <1>2, <1>3, <1>4, <1>5 DEF RootLaid, Root, Block

LEMMA FfsBootStep ==
  ASSUME SoundFfs, CallInv, Locals, FfsBoot, UNCHANGED turn
  PROVE  CallInv' /\ Locals'
<1> USE DEF FfsBoot
<1>1. ASSUME Broken("nofs") PROVE CallInv' /\ Locals'
  BY <1>1, BrokenAnswers
<1>2. ASSUME Step("ffs_probe", [w EXCEPT !.idx = IF vol.hint THEN 0 ELSE 1])
      PROVE  CallInv' /\ Locals'
  <2>1. /\ UNCHANGED <<vol, call, turn, failed>> /\ pc' = "ffs_probe"
        /\ w' = [w EXCEPT !.idx = IF vol.hint THEN 0 ELSE 1]
    BY <1>2 DEF Step
  <2>2. Fresh /\ w.comp = 1 /\ pc = "ffs_boot"
    BY DEF CallInv
  <2>3. /\ w'.out = w.out /\ w'.shown = w.shown /\ w'.comp = w.comp
        /\ w'.idx = IF vol.hint THEN 0 ELSE 1
        /\ Locals'
    BY <2>1 DEF Locals
  <2>4. ProbeInv'
    BY <2>1, <2>2, <2>3, RootFacts DEF ProbeInv, Fresh, Root
  <2>5. QED
    BY <2>1, <2>2, <2>3, <2>4, GoesOn DEF PlaceInv, FfsPlaces
<1>3. Block(0).id = "boot"
  BY RootFacts
<1>4. QED
  BY <1>1, <1>2, <1>3

LEMMA FfsProbeStep ==
  ASSUME SoundFfs, CallInv, Locals, FfsProbe, UNCHANGED turn
  PROVE  CallInv' /\ Locals'
<1>1. pc = "ffs_probe" /\ ProbeInv
  BY DEF FfsProbe, CallInv
<1>2. ProbeMids \in Seq(Nat) /\ Len(ProbeMids) \in Nat
  BY FfsAssumption, LenProperties
<1>3. ~failed => InTable
  BY <1>1, <1>2 DEF ProbeInv, InTable
<1>4. ASSUME ~InTable, Return("nofs") PROVE CallInv' /\ Locals'
  <2>1. UNCHANGED <<vol, call, turn, w, failed>> /\ pc' = "done" /\ ret' = "nofs" /\ failed
    BY <1>3, <1>4 DEF Return
  <2>2. Answer'
    BY <2>1 DEF Answer, LoadAnswer, ListAnswer
  <2>3. QED
    BY <2>1, <2>2, Answers DEF Locals
<1>5. ASSUME Broken("nofs") PROVE CallInv' /\ Locals'
  BY <1>5, BrokenAnswers
<1>6. ASSUME w.idx = 0, failed' = TRUE, w' = [w EXCEPT !.idx = 1],
             UNCHANGED <<vol, call, pc, ret>>
      PROVE  CallInv' /\ Locals'
  <2>1. /\ w'.out = w.out /\ w'.shown = w.shown /\ w'.comp = w.comp /\ w'.idx = 1 /\ Locals'
    BY <1>6 DEF Locals
  <2>2. ProbeInv'
    BY <1>1, <1>6, <2>1 DEF ProbeInv, Fresh
  <2>3. QED
    BY <1>1, <1>6, <2>1, <2>2, GoesOn DEF PlaceInv, FfsPlaces
<1> DEFINE b == Block(Candidate)
<1>7. ASSUME IsRoot(b), Step("ffs_open", [w EXCEPT !.buf = b, !.at = Candidate])
      PROVE  CallInv' /\ Locals'
  <2>1. Candidate = Root /\ b = vol.blk[Root]
    BY <1>7, RootFacts
  <2> HIDE DEF b
  <2>2. /\ UNCHANGED <<vol, call, turn, failed>> /\ pc' = "ffs_open"
        /\ w' = [w EXCEPT !.buf = b, !.at = Candidate]
    BY <1>7 DEF Step
  <2>3. /\ w'.out = w.out /\ w'.shown = w.shown /\ w'.comp = w.comp
        /\ w'.at = Candidate /\ w'.buf = b /\ Locals'
    BY <2>2 DEF Locals
  <2>4. OpenInv'
    BY <1>1, <2>1, <2>2, <2>3 DEF OpenInv, ProbeInv, Fresh, Root
  <2>5. QED
    BY <1>1, <2>2, <2>3, <2>4, GoesOn DEF PlaceInv, FfsPlaces
<1>8. ASSUME InTable, ~IsRoot(b),
             Step("ffs_probe", [w EXCEPT !.buf = b, !.idx = @ + 1])
      PROVE  CallInv' /\ Locals'
  <2>1. Candidate # Root
    BY <1>8, RootFacts
  <2> HIDE DEF b
  <2>2. /\ UNCHANGED <<vol, call, turn, failed>> /\ pc' = "ffs_probe"
        /\ w' = [w EXCEPT !.buf = b, !.idx = w.idx + 1]
    BY <1>8 DEF Step
  <2>3. /\ w'.out = w.out /\ w'.shown = w.shown /\ w'.comp = w.comp
        /\ w'.idx = w.idx + 1 /\ Locals'
    BY <2>2 DEF Locals
  <2>4. ASSUME ~failed
        PROVE  ~vol.hint /\ \E i \in w.idx + 1 .. Len(ProbeMids) : ProbeMids[i] = Root
    <3>1. ~vol.hint
      BY <1>1, <2>1, <2>4, RootFacts DEF ProbeInv, Candidate
    <3>2. w.idx # 0 /\ w.idx \in Nat
      BY <1>1, <3>1 DEF ProbeInv
    <3>3. PICK i \in w.idx .. Len(ProbeMids) : ProbeMids[i] = Root
      BY <1>1, <2>4, <3>1 DEF ProbeInv
    <3>4. i # w.idx
      BY <2>1, <3>2, <3>3 DEF Candidate
    <3>5. i \in w.idx + 1 .. Len(ProbeMids)
      BY <1>2, <3>2, <3>3, <3>4
    <3>6. QED
      BY <3>1, <3>3, <3>5
  <2>5. ProbeInv'
    BY <1>1, <2>2, <2>3, <2>4 DEF ProbeInv, Fresh, Root
  <2>6. QED
    BY <1>1, <2>2, <2>3, <2>5, GoesOn DEF PlaceInv, FfsPlaces
<1>9. QED
  BY <1>4, <1>5, <1>6, <1>7, <1>8 DEF FfsProbe

(* The look-up of a name that begins in directory p. *)
LEMMA ChainBegins ==
  ASSUME SoundFfs, NEW p \in DOMAIN vol.dirs, NEW n \in DOMAIN Hash
  PROVE  OnChain(vol, vol.chain[p][Hash[n]], n, vol.blk[vol.at[p]].ht[Hash[n]])
<1> DEFINE c == vol.chain[p][Hash[n]]
<1>1. Hash[n] \in 1 .. Len(vol.blk[vol.at[p]].ht)
  BY DirFacts
<1>2. vol.blk[vol.at[p]].ht[Hash[n]] = Link(c, 1)
  BY <1>1, DirFacts
<1>3. Len(c) \in Nat
  BY <1>1, ChainTyped
<1>4. 1 \in 1 .. Len(c) + 1 /\ \A i \in 1 .. 1 - 1 : NameAt(vol, c, i) # n
  BY <1>3
<1>5. QED
  BY <1>2, <1>4 DEF OnChain

LEMMA FfsOpenStep ==
  ASSUME SoundFfs, CallInv, Locals, FfsOpen, UNCHANGED turn
  PROVE  CallInv' /\ Locals'
<1>1. pc = "ffs_open" /\ OpenInv
  BY DEF FfsOpen, CallInv
<1>2. RootBlock = Root /\ Block(Root) = vol.blk[Root] /\ w.buf = vol.blk[Root]
  BY <1>1, RootFound, RootFacts DEF OpenInv, Root
<1> DEFINE b == vol.blk[Root]
<1>3. << >> \in DOMAIN vol.dirs /\ IsDir(b)
  BY RootFacts, DirFacts DEF Root
<1>4. /\ UNCHANGED <<vol, call, turn>>
      /\ \/ /\ call.path = << >> /\ pc' = "ffs_found"
            /\ w' = [w EXCEPT !.buf = b, !.hdr = b, !.at = 0, !.idx = 0]
         \/ /\ call.path # << >> /\ pc' = "ffs_lookup"
            /\ \E c \in Chains(b, call.path[1]) :
                 w' = [w EXCEPT !.buf = b, !.hdr = b, !.at = c, !.idx = 0]
  BY <1>2 DEF FfsOpen
<1> HIDE DEF b
<1>5. ASSUME call.path = << >>, pc' = "ffs_found",
             w' = [w EXCEPT !.buf = b, !.hdr = b, !.at = 0, !.idx = 0]
      PROVE  CallInv' /\ Locals'
  <2>1. /\ w'.out = w.out /\ w'.shown = w.shown /\ w'.idx = 0 /\ w'.at = 0 /\ w'.hdr = b
        /\ Locals'
    BY <1>5 DEF Locals
  <2>2. FoundInv'
    BY <1>1, <1>3, <1>4, <1>5, <2>1 DEF FoundInv, OpenInv, Fresh, Paths, b, Root
  <2>3. QED
    BY <1>1, <1>4, <1>5, <2>1, <2>2, GoesOn DEF PlaceInv, FfsPlaces
<1>6. ASSUME call.path # << >>, pc' = "ffs_lookup", NEW c \in Chains(b, call.path[1]),
             w' = [w EXCEPT !.buf = b, !.hdr = b, !.at = c, !.idx = 0]
      PROVE  CallInv' /\ Locals'
  <2>1. /\ w'.out = w.out /\ w'.shown = w.shown /\ w'.idx = 0 /\ w'.at = c
        /\ w'.comp = w.comp /\ Locals'
    BY <1>6 DEF Locals
  <2>2. call.path \in Seq(DOMAIN Hash) /\ Len(call.path) \in Nat
    BY CallFacts
  <2>3. 1 \in 1 .. Len(call.path) /\ call.path[1] \in DOMAIN Hash
    BY <1>6, <2>2, EmptySeq
  <2>4. c = b.ht[Hash[call.path[1]]]
    BY <1>3, <1>6 DEF Chains
  <2>5. OnChain(vol, vol.chain[<< >>][Hash[call.path[1]]], call.path[1], c)
    BY <1>3, <2>3, <2>4, ChainBegins DEF b, Root
  <2>6. Here' = << >> /\ Name' = call.path[1] /\ w'.comp = 1
    <3>1. SubSeq(call.path, 1, 0) = << >>
      BY <2>2, PathParts, Zenon
    <3>2. w'.comp = 1 /\ 1 - 1 = 0
      BY <1>1, <2>1 DEF OpenInv
    <3>3. QED
      BY <1>4, <3>1, <3>2 DEF Here, Name
  <2>7. LookupInv'
    BY <1>1, <1>3, <1>4, <2>1, <2>3, <2>5, <2>6 DEF LookupInv, OpenInv, Fresh
  <2>8. QED
    BY <1>1, <1>4, <1>6, <2>1, <2>7, GoesOn DEF PlaceInv, FfsPlaces
<1>7. QED
  BY <1>4, <1>5, <1>6

LEMMA FfsLookupStep ==
  ASSUME SoundFfs, CallInv, Locals, FfsLookup, UNCHANGED turn
  PROVE  CallInv' /\ Locals'
<1> DEFINE b == Block(w.at)
           p == SubSeq(call.path, 1, w.comp - 1)
           q == SubSeq(call.path, 1, w.comp)
<1>1. pc = "ffs_lookup" /\ LookupInv
  BY DEF FfsLookup, CallInv
<1>2. /\ call.path \in Seq(DOMAIN Hash) /\ Len(call.path) \in Nat
      /\ call.what \in {"load", "list"}
  BY CallFacts
<1>3. /\ Fresh /\ w.idx = 0 /\ w.comp \in 1 .. Len(call.path)
      /\ p \in DOMAIN vol.dirs /\ Here = p
      /\ OnChain(vol, vol.chain[p][Hash[Name]], Name, w.at)
  BY <1>1 DEF LookupInv, Here
<1>4. q = Append(p, Name) /\ Name \in DOMAIN Hash
  BY <1>2, <1>3, PathGrows DEF Name
<1> HIDE DEF p, q
<1>5. ASSUME w.at = 0, Return("nofile") PROVE CallInv' /\ Locals'
  <2>1. q \notin Paths(vol)
    BY <1>3, <1>4, <1>5, EndOfChain
  <2>2. call.path \notin Paths(vol)
    BY <1>2, <1>3, <2>1, NotStored DEF q
  <2>3. QED
    BY <1>3, <1>5, <2>2, NoFileAnswers
<1>6. ASSUME Broken("nofile") PROVE CallInv' /\ Locals'
  BY <1>6, BrokenAnswers
<1>7. ASSUME w.at # 0
      PROVE  /\ b.id = "header"
             /\ b.name # Name => OnChain(vol, vol.chain[p][Hash[Name]], Name, b.next)
             /\ b.name = Name => q \in Paths(vol) /\ b = vol.blk[vol.at[q]]
  BY <1>3, <1>4, <1>7, NextOnChain
<1> HIDE DEF b
<1>8. ASSUME w.at # 0, b.name # Name, Step("ffs_lookup", [w EXCEPT !.at = b.next])
      PROVE  CallInv' /\ Locals'
  <2>1. /\ UNCHANGED <<vol, call, turn, failed>> /\ pc' = "ffs_lookup"
        /\ w' = [w EXCEPT !.at = b.next]
    BY <1>8 DEF Step
  <2>2. /\ w'.out = w.out /\ w'.shown = w.shown /\ w'.idx = w.idx /\ w'.comp = w.comp
        /\ w'.at = b.next /\ Locals'
    BY <2>1 DEF Locals
  <2>3. Here' = p /\ Name' = Name
    BY <1>3, <2>1, <2>2 DEF Here, Name
  <2>4. LookupInv'
    BY <1>3, <1>7, <1>8, <2>1, <2>2, <2>3 DEF LookupInv, Fresh
  <2>5. QED
    BY <1>1, <2>1, <2>2, <2>4, GoesOn DEF PlaceInv, FfsPlaces
<1>9. ASSUME w.at # 0, b.name = Name, LastPart,
             Step("ffs_found", [w EXCEPT !.hdr = b, !.at = 0])
      PROVE  CallInv' /\ Locals'
  <2>1. /\ UNCHANGED <<vol, call, turn, failed>> /\ pc' = "ffs_found"
        /\ w' = [w EXCEPT !.hdr = b, !.at = 0]
    BY <1>9 DEF Step
  <2>2. /\ w'.out = w.out /\ w'.shown = w.shown /\ w'.idx = w.idx
        /\ w'.at = 0 /\ w'.hdr = b /\ Locals'
    BY <2>1 DEF Locals
  <2>3. q = call.path
    BY <1>2, <1>9, PathParts DEF q, LastPart
  <2>4. FoundInv'
    BY <1>3, <1>7, <1>9, <2>1, <2>2, <2>3 DEF FoundInv, Fresh
  <2>5. QED
    BY <1>1, <2>1, <2>2, <2>4, GoesOn DEF PlaceInv, FfsPlaces
<1>10. ASSUME ~LastPart PROVE w.comp + 1 \in 1 .. Len(call.path) /\ w.comp < Len(call.path)
  BY <1>2, <1>3, <1>10 DEF LastPart
<1>11. ASSUME w.at # 0, b.name = Name, ~LastPart, ~IsDir(b), Return("nofile")
       PROVE  CallInv' /\ Locals'
  <2>1. q \notin DOMAIN vol.dirs
    BY <1>7, <1>11, HeaderKind
  <2>2. call.path \notin Paths(vol)
    BY <1>2, <1>3, <1>10, <1>11, <2>1, NotStored DEF q
  <2>3. QED
    BY <1>3, <1>11, <2>2, NoFileAnswers
<1>12. ASSUME w.at # 0, b.name = Name, ~LastPart, IsDir(b),
              Step("ffs_lookup", [w EXCEPT !.at = b.ht[Hash[call.path[w.comp + 1]]],
                                           !.comp = w.comp + 1])
       PROVE  CallInv' /\ Locals'
  <2> DEFINE n == call.path[w.comp + 1]
  <2>1. /\ UNCHANGED <<vol, call, turn, failed>> /\ pc' = "ffs_lookup"
        /\ w' = [w EXCEPT !.at = b.ht[Hash[n]], !.comp = w.comp + 1]
    BY <1>12 DEF Step
  <2>2. n \in DOMAIN Hash
    BY <1>2, <1>10, <1>12
  <2> HIDE DEF n
  <2>3. /\ w'.out = w.out /\ w'.shown = w.shown /\ w'.idx = w.idx
        /\ w'.at = b.ht[Hash[n]] /\ w'.comp = w.comp + 1 /\ Locals'
    BY <2>1 DEF Locals
  <2>4. q \in DOMAIN vol.dirs
    BY <1>7, <1>12, HeaderKind DEF Paths
  <2>5. OnChain(vol, vol.chain[q][Hash[n]], n, b.ht[Hash[n]])
    BY <1>7, <1>12, <2>2, <2>4, ChainBegins
  <2>6. Here' = q /\ Name' = n
    <3>1. (w.comp + 1) - 1 = w.comp
      BY <1>3
    <3>2. QED
      BY <2>1, <2>3, <3>1 DEF Here, Name, q, n
  <2>7. LookupInv'
    BY <1>3, <1>10, <1>12, <2>1, <2>3, <2>4, <2>5, <2>6 DEF LookupInv, Fresh
  <2>8. QED
    BY <1>1, <2>1, <2>3, <2>7, GoesOn DEF PlaceInv, FfsPlaces
<1>13. QED
  BY <1>5, <1>6, <1>7, <1>8, <1>9, <1>11, <1>12 DEF FfsLookup, b

LEMMA FfsFoundStep ==
  ASSUME SoundFfs, CallInv, Locals, FfsFound, UNCHANGED turn
  PROVE  CallInv' /\ Locals'
<1>1. pc = "ffs_found" /\ FoundInv
  BY DEF FfsFound, CallInv
<1>2. call.what \in {"load", "list"}
  BY CallFacts
<1>3. /\ call.path \in DOMAIN vol.dirs => IsDir(w.hdr) /\ call.path \notin DOMAIN vol.files
      /\ call.path \in DOMAIN vol.files => w.hdr.id = "header" /\ w.hdr.sec = "file" /\ ~IsDir(w.hdr)
      /\ call.path \in DOMAIN vol.files \/ call.path \in DOMAIN vol.dirs
  BY <1>1, HeaderKind DEF FoundInv, Paths
<1>4. ASSUME call.what = "list", IsDir(w.hdr), Step("ffs_list", w)
      PROVE  CallInv' /\ Locals'
  <2>1. UNCHANGED <<vol, call, turn, failed, w>> /\ pc' = "ffs_list"
    BY <1>4 DEF Step
  <2>2. call.path \in DOMAIN vol.dirs
    BY <1>3, <1>4
  <2>3. Len(w.hdr.ht) \in Nat
    BY <1>1, <2>2, DirFacts DEF FoundInv
  <2>4. ListInv'
    BY <1>1, <1>4, <2>1, <2>2, <2>3 DEF ListInv, FoundInv, Fresh
  <2>5. QED
    BY <1>1, <2>1, <2>4, GoesOn DEF PlaceInv, FfsPlaces, Locals
<1>5. ASSUME call.what = "list", ~IsDir(w.hdr), Return("end") PROVE CallInv' /\ Locals'
  <2>1. UNCHANGED <<vol, call, turn, w, failed>> /\ pc' = "done" /\ ret' = "end"
    BY <1>5 DEF Return
  <2>2. Answer'
    BY <1>1, <1>3, <1>5, <2>1 DEF Answer, LoadAnswer, ListAnswer, FoundInv, Fresh
  <2>3. QED
    BY <2>1, <2>2, Answers DEF Locals
<1>6. ASSUME call.what = "load", ~(w.hdr.id = "header" /\ w.hdr.sec = "file"), Return("nofile")
      PROVE  CallInv' /\ Locals'
  <2>1. UNCHANGED <<vol, call, turn, w, failed>> /\ pc' = "done" /\ ret' = "nofile"
    BY <1>6 DEF Return
  <2>2. Answer'
    BY <1>3, <1>6, <2>1 DEF Answer, LoadAnswer, ListAnswer
  <2>3. QED
    BY <2>1, <2>2, Answers DEF Locals
<1>7. ASSUME call.what = "load", w.hdr.id = "header", w.hdr.sec = "file",
             Step("ffs_data", [w EXCEPT !.size = w.hdr.size])
      PROVE  CallInv' /\ Locals'
  <2>1. /\ UNCHANGED <<vol, call, turn, failed>> /\ pc' = "ffs_data"
        /\ w' = [w EXCEPT !.size = w.hdr.size]
    BY <1>7 DEF Step
  <2>2. /\ w'.out = w.out /\ w'.hdr = w.hdr /\ w'.idx = w.idx /\ w'.size = w.hdr.size
        /\ Locals'
    BY <2>1 DEF Locals
  <2>3. call.path \in DOMAIN vol.files
    BY <1>3, <1>7 DEF IsDir
  <2>4. FfsLaid(vol)
    BY Laid
  <2>5. FileLaid(vol, call.path)
    BY <2>3, <2>4 DEF FfsLaid
  <2> DEFINE f == vol.files[call.path]
             l == vol.lists[call.path]
  <2>6. /\ l # << >> /\ Len(l) \in Nat /\ l[1] = vol.at[call.path] /\ vol.blk[l[1]].size = Len(f)
        /\ vol.off[call.path][1][1] = 0 /\ l \in Seq(DOMAIN vol.blk \ {0})
    BY <2>5, LenProperties DEF FileLaid
  <2>7. 1 \in 1 .. Len(l)
    BY <2>6, EmptySeq
  <2>8. SubSeq(f, 1, 0) = << >>
    OBVIOUS
  <2>9. w.hdr = vol.blk[vol.at[call.path]] /\ w.idx = 0 /\ w.out = << >>
    BY <1>1 DEF FoundInv, Fresh
  <2>10. DataAt(call.path, 1)'
    <3>1. w'.idx + 1 = 1
      BY <2>2, <2>9
    <3>2. w'.hdr = vol.blk[l[1]] /\ w'.out = SubSeq(f, 1, vol.off[call.path][1][1])
      BY <2>2, <2>6, <2>8, <2>9
    <3>3. QED
      BY <2>1, <3>1, <3>2, Zenon DEF DataAt
  <2>11. DbMax \in Nat
    BY FfsAssumption
  <2>12. DataInv'
    BY <1>7, <2>1, <2>2, <2>3, <2>6, <2>7, <2>9, <2>10, <2>11 DEF DataInv
  <2>13. QED
    BY <1>1, <2>1, <2>2, <2>12, GoesOn DEF PlaceInv, FfsPlaces
<1>8. QED
  BY <1>4, <1>5, <1>6, <1>7 DEF FfsFound

(* File f has units 1 to m of block p behind its first o. *)
HasUnits(f, o, m, p) == \A u \in 1 .. m : f[o + u] = <<p, u>>

Units(p, m) == [u \in 1 .. m |-> <<p, u>>]

LEMMA Copying ==
  ASSUME NEW T, NEW f \in Seq(T), NEW o \in Nat, NEW m \in Nat, o + m <= Len(f),
         NEW p, HasUnits(f, o, m, p)
  PROVE  SubSeq(f, 1, o) \o Units(p, m) = SubSeq(f, 1, o + m)
<1> USE DEF HasUnits
<1> DEFINE s == SubSeq(f, 1, o)
           t == [u \in 1 .. m |-> <<p, u>>]
           r == SubSeq(f, 1, o + m)
<1>1. Len(f) \in Nat /\ f \in [1 .. Len(f) -> T]
  BY LenProperties
<1>2. s \in Seq(T) /\ Len(s) = o /\ \A i \in 1 .. o : s[i] = f[i]
  BY <1>1
<1>3. r \in Seq(T) /\ Len(r) = o + m /\ \A i \in 1 .. o + m : r[i] = f[i]
  BY <1>1
<1>4. ASSUME NEW u \in 1 .. m PROVE <<p, u>> \in T /\ o + u \in 1 .. Len(f)
  <2>1. o + u \in 1 .. Len(f)
    BY <1>1
  <2>2. f[o + u] \in T
    BY <1>1, <2>1
  <2>3. QED
    BY <2>1, <2>2
<1>5. t \in [1 .. m -> T]
  BY <1>4
<1>6. t \in Seq(T) /\ Len(t) = m
  BY <1>5
<1>7. \A u \in 1 .. m : t[u] = f[o + u]
  OBVIOUS
<1> HIDE DEF s, t, r
<1>8. /\ s \o t \in Seq(T) /\ Len(s \o t) = o + m
      /\ \A i \in 1 .. o + m : (s \o t)[i] = IF i <= o THEN s[i] ELSE t[i - o]
  BY <1>2, <1>6, ConcatProperties
<1>9. ASSUME NEW i \in 1 .. o + m PROVE (s \o t)[i] = r[i]
  <2>1. CASE i <= o
    <3>1. i \in 1 .. o
      BY <2>1
    <3>2. QED
      BY <1>2, <1>3, <1>8, <2>1, <3>1
  <2>2. CASE ~(i <= o)
    <3>1. i - o \in 1 .. m /\ o + (i - o) = i
      BY <2>2
    <3>2. t[i - o] = f[i]
      BY <1>7, <3>1
    <3>3. QED
      BY <1>3, <1>8, <2>2, <3>2
  <2>3. QED
    BY <2>1, <2>2
<1>10. s \o t = r
  BY <1>3, <1>8, <1>9, SeqEqual
<1>11. QED
  BY <1>10 DEF s, t, r, Units

(* Where the loop of read_file_contents is. *)
LEMMA DataFacts ==
  ASSUME SoundFfs, DataInv,
         NEW j \in 1 .. Len(vol.lists[call.path]), DataAt(call.path, j)
  PROVE  LET f == vol.files[call.path]
             o == vol.off[call.path][j]
             b == vol.blk[vol.lists[call.path][j]]
         IN /\ f \in Seq((DOMAIN vol.blk) \X (1 .. Unit)) /\ Len(f) \in Nat
            /\ o[w.idx + 1] \in Nat /\ o[w.idx + 1] <= Len(f) /\ Len(w.out) = o[w.idx + 1]
            /\ w.out = SubSeq(f, 1, o[w.idx + 1])
            /\ Whole => w.out = f
            /\ ~Whole => o[w.idx + 1] < Len(f)
            /\ ~Whole /\ w.idx < DbMax =>
                 DataLaid(vol, f, b, w.idx + 1, o[w.idx + 1], o[w.idx + 1 + 1])
            /\ ~Whole /\ w.idx = DbMax =>
                 /\ j + 1 \in 1 .. Len(vol.lists[call.path])
                 /\ b.ext = vol.lists[call.path][j + 1]
                 /\ vol.off[call.path][j + 1][1] = o[w.idx + 1]
                 /\ Block(b.ext) = vol.blk[b.ext] /\ Block(b.ext).id = "list" /\ b.ext # 0
<1> DEFINE p == call.path
           f == vol.files[p]
           l == vol.lists[p]
           o == vol.off[p][j]
           b == vol.blk[l[j]]
<1>1. FfsLaid(vol) /\ p \in DOMAIN vol.files
  BY Laid DEF DataInv
<1>2. FileLaid(vol, p)
  BY <1>1 DEF FfsLaid
<1>3. /\ f \in Seq((DOMAIN vol.blk) \X (1 .. Unit)) /\ l \in Seq(DOMAIN vol.blk \ {0})
      /\ \A k \in 1 .. Len(l) : k > 1 => vol.blk[l[k]].id = "list"
      /\ IF j < Len(l) THEN b.ext = l[j + 1] /\ vol.off[p][j + 1][1] = o[DbMax + 1]
                       ELSE o[DbMax + 1] = Len(f)
      /\ \A i \in 1 .. DbMax + 1 : o[i] \in 0 .. Len(f)
      /\ \A i \in 1 .. DbMax : o[i] < Len(f) => DataLaid(vol, f, b, i, o[i], o[i + 1])
  BY <1>2 DEF FileLaid
<1>4. Len(f) \in Nat /\ Len(l) \in Nat
  BY <1>3, LenProperties
<1>5. DbMax \in Nat \ {0} /\ w.idx \in 0 .. DbMax /\ w.size = Len(f)
      /\ w.out = SubSeq(f, 1, o[w.idx + 1])
  BY FfsAssumption DEF DataInv, DataAt
<1>6. w.idx + 1 \in 1 .. DbMax + 1
  BY <1>5
<1>7. o[w.idx + 1] \in 0 .. Len(f)
  BY <1>3, <1>6
<1> HIDE DEF f, l, b, o
<1>8. o[w.idx + 1] \in Nat /\ o[w.idx + 1] <= Len(f)
  BY <1>4, <1>7
<1>9. Len(SubSeq(f, 1, o[w.idx + 1])) = o[w.idx + 1]
  BY <1>3, <1>4, <1>8
<1>10. Len(w.out) = o[w.idx + 1] /\ (Whole <=> o[w.idx + 1] = Len(f))
       /\ (~Whole => o[w.idx + 1] < Len(f))
  BY <1>4, <1>5, <1>8, <1>9 DEF Whole
<1>11. ASSUME Whole PROVE w.out = f
  <2>1. SubSeq(f, 1, Len(f)) = f
    BY <1>3, PathParts
  <2>2. QED
    BY <1>5, <1>10, <1>11, <2>1
<1>12. ASSUME ~Whole, w.idx < DbMax
       PROVE  DataLaid(vol, f, b, w.idx + 1, o[w.idx + 1], o[w.idx + 1 + 1])
  <2>1. w.idx + 1 \in 1 .. DbMax
    BY <1>5, <1>12
  <2>2. QED
    BY <1>3, <1>10, <1>12, <2>1
<1>13. ASSUME ~Whole, w.idx = DbMax
       PROVE  /\ j + 1 \in 1 .. Len(l) /\ b.ext = l[j + 1]
              /\ vol.off[p][j + 1][1] = o[w.idx + 1]
              /\ Block(b.ext) = vol.blk[b.ext] /\ Block(b.ext).id = "list" /\ b.ext # 0
  <2>1. j \in 1 .. Len(l)
    BY DEF l
  <2>2. j < Len(l)
    BY <1>3, <1>4, <1>8, <1>10, <1>13, <2>1
  <2>3. j + 1 \in 1 .. Len(l) /\ j + 1 > 1
    BY <1>4, <2>1, <2>2
  <2>4. l[j + 1] \in DOMAIN vol.blk \ {0}
    BY <1>3, <2>3
  <2>5. b.ext = l[j + 1] /\ vol.off[p][j + 1][1] = o[w.idx + 1]
    BY <1>3, <1>13, <2>2
  <2>6. vol.blk[l[j + 1]].id = "list"
    BY <1>3, <2>3
  <2>7. QED
    BY <2>3, <2>4, <2>5, <2>6 DEF Block
<1>14. QED
  BY <1>3, <1>4, <1>5, <1>8, <1>10, <1>11, <1>12, <1>13 DEF f, l, b, o

LEMMA FfsDataStep ==
  ASSUME SoundFfs, CallInv, Locals, FfsData, UNCHANGED turn
  PROVE  CallInv' /\ Locals'
<1>1. pc = "ffs_data" /\ DataInv
  BY DEF FfsData, CallInv
<1>2. PICK j \in 1 .. Len(vol.lists[call.path]) : DataAt(call.path, j)
  BY <1>1 DEF DataInv
<1> DEFINE p == call.path
           f == vol.files[p]
           o == vol.off[p][j]
           b == vol.blk[vol.lists[p][j]]
           d == w.hdr.data[w.idx + 1]
           n == IF vol.ffs THEN Unit ELSE Least(Block(d).len, Unit)
<1>3. /\ f \in Seq((DOMAIN vol.blk) \X (1 .. Unit)) /\ Len(f) \in Nat
      /\ o[w.idx + 1] \in Nat /\ o[w.idx + 1] <= Len(f) /\ Len(w.out) = o[w.idx + 1]
      /\ w.out = SubSeq(f, 1, o[w.idx + 1])
      /\ Whole => w.out = f
      /\ ~Whole => o[w.idx + 1] < Len(f)
      /\ ~Whole /\ w.idx < DbMax =>
           DataLaid(vol, f, b, w.idx + 1, o[w.idx + 1], o[w.idx + 1 + 1])
  BY <1>1, <1>2, DataFacts
<1>4. call.what = "load" /\ p \in DOMAIN vol.files /\ w.size = Len(f)
      /\ w.idx \in 0 .. DbMax /\ w.hdr = b
  BY <1>1, <1>2 DEF DataInv, DataAt
<1>5. ASSUME Whole, Return("end") PROVE CallInv' /\ Locals'
  <2>1. UNCHANGED <<vol, call, turn, w, failed>> /\ pc' = "done" /\ ret' = "end"
    BY <1>5 DEF Return
  <2>2. Answer'
    BY <1>3, <1>4, <1>5, <2>1 DEF Answer, LoadAnswer
  <2>3. QED
    BY <2>1, <2>2, Answers DEF Locals
<1>6. ASSUME Broken("error") PROVE CallInv' /\ Locals'
  BY <1>6, BrokenAnswers
<1>7. ASSUME ~Whole, w.idx < DbMax
      PROVE  /\ d # 0 /\ (vol.ffs \/ Block(d).id = "data")
             /\ n \in Nat /\ o[w.idx + 1 + 1] = o[w.idx + 1] + Least(n, Len(f) - o[w.idx + 1])
             /\ \A u \in 1 .. Least(n, Len(f) - o[w.idx + 1]) : f[o[w.idx + 1] + u] = <<d, u>>
  <2> HIDE DEF f, o, b
  <2>1. /\ d \in DOMAIN vol.blk \ {0} /\ d = b.data[w.idx + 1] /\ Block(d) = vol.blk[d]
    BY <1>3, <1>4, <1>7 DEF DataLaid, Block
  <2>2. QED
    BY <1>3, <1>4, <1>7, <2>1 DEF DataLaid
<1>8. ASSUME ~Whole, w.idx < DbMax, Step("ffs_data", [w EXCEPT !.out = Copied(d, n), !.idx = w.idx + 1])
      PROVE  CallInv' /\ Locals'
  <2> DEFINE m == Least(n, Len(f) - o[w.idx + 1])
             x == o[w.idx + 1]
  <2>1. /\ UNCHANGED <<vol, call, turn, failed>> /\ pc' = "ffs_data"
        /\ w' = [w EXCEPT !.out = Copied(d, n), !.idx = w.idx + 1]
    BY <1>8 DEF Step
  <2>2. Copied(d, n) = SubSeq(f, 1, x) \o [u \in 1 .. m |-> <<d, u>>]
    BY <1>3, <1>4 DEF Copied
  <2>3. /\ n \in Nat /\ o[w.idx + 1 + 1] = x + m /\ x \in Nat /\ x < Len(f) /\ Len(f) \in Nat
        /\ f \in Seq((DOMAIN vol.blk) \X (1 .. Unit))
        /\ \A u \in 1 .. m : f[x + u] = <<d, u>>
    BY <1>3, <1>7, <1>8
  <2> HIDE DEF d, n, f, o, b, x
  <2>4. m \in Nat /\ x + m <= Len(f)
    BY <2>3 DEF Least, x
  <2> HIDE DEF m
  <2>5. SubSeq(f, 1, x) \o [u \in 1 .. m |-> <<d, u>>] = SubSeq(f, 1, x + m)
    <3>1. HasUnits(f, x, m, d)
      BY <2>3 DEF HasUnits
    <3>2. SubSeq(f, 1, x) \o Units(d, m) = SubSeq(f, 1, x + m)
      BY <2>3, <2>4, <3>1, Copying
    <3>3. QED
      BY <3>2 DEF Units
  <2>6. /\ w'.hdr = w.hdr /\ w'.size = w.size /\ w'.idx = w.idx + 1 /\ w'.out = Copied(d, n)
        /\ Locals'
    BY <2>1 DEF Locals
  <2>7. DataAt(call.path, j)'
    <3>1. w'.out = SubSeq(f, 1, o[w'.idx + 1])
      BY <2>2, <2>3, <2>5, <2>6
    <3>2. w'.hdr = vol.blk[vol.lists[p][j]]
      BY <1>4, <2>6 DEF b
    <3>3. QED
      BY <2>1, <3>1, <3>2, Zenon DEF DataAt, f, o
  <2>8. w'.idx \in 0 .. DbMax
    BY <1>4, <1>8, <2>6, FfsAssumption
  <2>9. DataInv'
    BY <1>4, <2>1, <2>6, <2>7, <2>8 DEF DataInv, f
  <2>10. QED
    BY <1>1, <2>1, <2>6, <2>9, GoesOn DEF PlaceInv, FfsPlaces
<1>9. QED
  BY <1>5, <1>6, <1>7, <1>8 DEF FfsData

LEMMA FfsExtensionStep ==
  ASSUME SoundFfs, CallInv, Locals, FfsExtension, UNCHANGED turn
  PROVE  CallInv' /\ Locals'
<1>1. pc = "ffs_data" /\ DataInv /\ ~Whole /\ w.idx = DbMax
  BY DEF FfsExtension, CallInv
<1>2. PICK j \in 1 .. Len(vol.lists[call.path]) : DataAt(call.path, j)
  BY <1>1 DEF DataInv
<1> DEFINE x == w.hdr.ext
<1>3. /\ j + 1 \in 1 .. Len(vol.lists[call.path])
      /\ x = vol.lists[call.path][j + 1]
      /\ vol.off[call.path][j + 1][1] = vol.off[call.path][j][w.idx + 1]
      /\ Block(x) = vol.blk[x] /\ Block(x).id = "list" /\ x # 0
      /\ w.out = SubSeq(vol.files[call.path], 1, vol.off[call.path][j][w.idx + 1])
  <2>1. w.hdr = vol.blk[vol.lists[call.path][j]]
    BY <1>2 DEF DataAt
  <2>2. QED
    BY <1>1, <1>2, <2>1, DataFacts
<1>4. ASSUME Broken("error") PROVE CallInv' /\ Locals'
  BY <1>4, BrokenAnswers
<1> HIDE DEF x
<1>5. ASSUME Step("ffs_data", [w EXCEPT !.hdr = Block(x), !.idx = 0]) PROVE CallInv' /\ Locals'
  <2>1. /\ UNCHANGED <<vol, call, turn, failed>> /\ pc' = "ffs_data"
        /\ w' = [w EXCEPT !.hdr = Block(x), !.idx = 0]
    BY <1>5 DEF Step
  <2>2. /\ w'.hdr = Block(x) /\ w'.size = w.size /\ w'.idx = 0 /\ w'.out = w.out /\ Locals'
    BY <2>1 DEF Locals
  <2>3. DataAt(call.path, j + 1)'
    <3>1. w'.idx + 1 = 1
      BY <2>2
    <3>2. w'.out = SubSeq(vol.files[call.path], 1, vol.off[call.path][j + 1][1])
      BY <1>3, <2>2
    <3>3. w'.hdr = vol.blk[vol.lists[call.path][j + 1]]
      BY <1>3, <2>2
    <3>4. QED
      BY <2>1, <3>1, <3>2, <3>3, Zenon DEF DataAt
  <2>4. DbMax \in Nat /\ 0 \in 0 .. DbMax
    BY FfsAssumption
  <2>5. DataInv'
    BY <1>1, <1>3, <2>1, <2>2, <2>3, <2>4 DEF DataInv
  <2>6. QED
    BY <1>1, <2>1, <2>2, <2>5, GoesOn DEF PlaceInv, FfsPlaces
<1>6. QED
  BY <1>3, <1>4, <1>5 DEF FfsExtension, x

(* What list_directory has printed when it is between two chains. *)
NamesUpto(v, p, h) == {n \in v.dirs[p] : Hash[n] <= h}

LEMMA HashTyped ==
  ASSUME SoundFfs, NEW p \in DOMAIN vol.dirs, NEW n \in vol.dirs[p]
  PROVE  Hash[n] \in 1 .. Len(vol.blk[vol.at[p]].ht) /\ Hash[n] \in Nat /\ Hash[n] >= 1
<1>1. n \in DOMAIN Hash
  BY OnItsChain
<1>2. Hash[n] \in 1 .. Len(vol.blk[vol.at[p]].ht) /\ Len(vol.blk[vol.at[p]].ht) \in Nat
  BY <1>1, DirFacts
<1>3. QED
  BY <1>2

LEMMA BetweenChains ==
  ASSUME SoundFfs, ListInv, w.at = 0
  PROVE  w.shown = NamesUpto(vol, call.path, w.idx)
<1> DEFINE p == call.path
<1>1. p \in DOMAIN vol.dirs /\ w.hdr = vol.blk[vol.at[p]] /\ w.idx \in 0 .. Len(w.hdr.ht)
      /\ Len(w.hdr.ht) \in Nat
  BY DirFacts DEF ListInv
<1>2. CASE w.idx = 0
  <2>1. \A n \in vol.dirs[p] : ~(Hash[n] <= 0)
    BY <1>1, HashTyped
  <2>2. w.shown = {}
    BY <1>2 DEF ListInv
  <2>3. QED
    BY <1>2, <2>1, <2>2 DEF NamesUpto
<1>3. CASE w.idx # 0
  <2> DEFINE c == vol.chain[p][w.idx]
  <2>1. PICK j \in 1 .. Len(c) + 1 : w.at = Link(c, j) /\ w.shown = NamesBefore(vol, p, w.idx, j)
    BY <1>3 DEF ListInv
  <2>2. w.idx \in 1 .. Len(w.hdr.ht) /\ w.idx \in Nat
    BY <1>1, <1>3
  <2>3. Len(c) \in Nat /\ \A k \in 1 .. Len(c) : c[k] # 0
    <3>1. w.idx \in 1 .. Len(vol.blk[vol.at[p]].ht)
      BY <1>1, <2>2
    <3>2. Len(c) \in Nat
      BY <1>1, <3>1, ChainTyped
    <3>3. ASSUME NEW k \in 1 .. Len(c) PROVE c[k] # 0
      <4>1. ChainHeader(vol, p, w.idx, k)
        BY <1>1, <3>1, <3>3, ChainBlock
      <4>2. QED
        BY <4>1 DEF ChainHeader
    <3>4. QED
      BY <3>2, <3>3
  <2> HIDE DEF c
  <2>4. j = Len(c) + 1 /\ j - 1 = Len(c)
    <3>1. ~(j \in 1 .. Len(c))
      BY <2>1, <2>3 DEF Link
    <3>2. QED
      BY <2>1, <2>3, <3>1
  <2>5. ASSUME NEW n \in vol.dirs[p]
        PROVE  n \in NamesBefore(vol, p, w.idx, j) <=> Hash[n] <= w.idx
    <3>1. Hash[n] \in Nat
      BY <1>1, HashTyped
    <3>2. ASSUME Hash[n] = w.idx PROVE \E i \in 1 .. j - 1 : NameAt(vol, vol.chain[p][w.idx], i) = n
      BY <1>1, <2>4, <3>2, OnItsChain DEF c
    <3>3. QED
      BY <2>2, <3>1, <3>2 DEF NamesBefore
  <2>6. NamesBefore(vol, p, w.idx, j) \subseteq vol.dirs[p]
    BY DEF NamesBefore
  <2>7. QED
    BY <2>1, <2>5, <2>6 DEF NamesUpto
<1>4. QED
  BY <1>2, <1>3

LEMMA FfsListStep ==
  ASSUME SoundFfs, CallInv, Locals, FfsList, UNCHANGED turn
  PROVE  CallInv' /\ Locals'
<1> DEFINE p == call.path
           b == Block(w.at)
<1>1. pc = "ffs_list" /\ ListInv
  BY DEF FfsList, CallInv
<1>2. call.what = "list" /\ p \in DOMAIN vol.dirs /\ w.hdr = vol.blk[vol.at[p]]
      /\ w.idx \in 0 .. Len(w.hdr.ht) /\ Len(w.hdr.ht) \in Nat
  BY <1>1, DirFacts DEF ListInv
<1>3. ASSUME w.at = 0, w.idx = Len(w.hdr.ht), Return("end") PROVE CallInv' /\ Locals'
  <2>1. UNCHANGED <<vol, call, turn, w, failed>> /\ pc' = "done" /\ ret' = "end"
    BY <1>3 DEF Return
  <2>2. \A n \in vol.dirs[p] : Hash[n] <= w.idx
    BY <1>2, <1>3, HashTyped
  <2>3. w.shown = vol.dirs[p]
    BY <1>1, <1>3, <2>2, BetweenChains DEF NamesUpto
  <2>4. Answer'
    BY <1>2, <2>1, <2>3 DEF Answer, LoadAnswer, ListAnswer
  <2>5. QED
    BY <2>1, <2>4, Answers DEF Locals
<1>4. ASSUME w.at = 0, w.idx < Len(w.hdr.ht),
             Step("ffs_list", [w EXCEPT !.at = w.hdr.ht[w.idx + 1], !.idx = w.idx + 1])
      PROVE  CallInv' /\ Locals'
  <2> DEFINE h == w.idx + 1
             c == vol.chain[p][h]
  <2>1. /\ UNCHANGED <<vol, call, turn, failed>> /\ pc' = "ffs_list"
        /\ w' = [w EXCEPT !.at = w.hdr.ht[h], !.idx = h]
    BY <1>4 DEF Step
  <2>2. h \in 1 .. Len(w.hdr.ht) /\ h \in Nat /\ h # 0 /\ h \in 0 .. Len(w.hdr.ht)
    <3>1. ASSUME NEW l \in Nat, NEW i \in 0 .. l, i < l
          PROVE  i + 1 \in 1 .. l /\ i + 1 \in Nat /\ i + 1 # 0 /\ i + 1 \in 0 .. l
      BY <3>1
    <3>2. QED
      BY <1>2, <1>4, <3>1
  <2>3. w.hdr.ht[h] = Link(c, 1) /\ Len(c) \in Nat
    <3> HIDE DEF h
    <3>1. h \in 1 .. Len(vol.blk[vol.at[p]].ht)
      BY <1>2, <2>2
    <3>2. Len(c) \in Nat
      BY <1>2, <3>1, ChainTyped
    <3>3. vol.blk[vol.at[p]].ht[h] = Link(c, 1)
      BY <1>2, <3>1, DirFacts
    <3>4. QED
      BY <1>2, <3>2, <3>3
  <2>4. w.shown = NamesUpto(vol, p, w.idx)
    BY <1>1, <1>4, BetweenChains
  <2>5. ASSUME NEW n \in vol.dirs[p]
        PROVE  n \in NamesBefore(vol, p, h, 1) <=> Hash[n] <= w.idx
    <3>1. Hash[n] \in Nat /\ w.idx \in Nat
      BY <1>2, HashTyped
    <3>2. Hash[n] < h <=> Hash[n] <= w.idx
      BY <3>1
    <3>3. ~ \E i \in 1 .. 1 - 1 : NameAt(vol, vol.chain[p][h], i) = n
      OBVIOUS
    <3> HIDE DEF h
    <3>4. QED
      BY <3>2, <3>3 DEF NamesBefore
  <2>6. NamesBefore(vol, p, h, 1) = NamesUpto(vol, p, w.idx)
    <3>1. NamesBefore(vol, p, h, 1) \subseteq vol.dirs[p]
      BY DEF NamesBefore
    <3>2. QED
      BY <2>5, <3>1 DEF NamesUpto
  <2> HIDE DEF h, c
  <2>7. /\ w'.hdr = w.hdr /\ w'.shown = w.shown /\ w'.at = w.hdr.ht[h] /\ w'.idx = h
        /\ Locals'
    BY <2>1 DEF Locals
  <2>8. \E j \in 1 .. Len(c) + 1 : w'.at = Link(c, j) /\ w'.shown = NamesBefore(vol, p, h, j)
    <3>1. 1 \in 1 .. Len(c) + 1
      BY <2>3
    <3>2. QED
      BY <2>3, <2>4, <2>6, <2>7, <3>1
  <2>9. ListInv'
    BY <1>2, <2>1, <2>2, <2>7, <2>8 DEF ListInv, c
  <2>10. QED
    BY <1>1, <2>1, <2>7, <2>9, GoesOn DEF PlaceInv, FfsPlaces
<1>5. ASSUME Broken("end") PROVE CallInv' /\ Locals'
  BY <1>2, <1>5, BrokenAnswers
<1>6. ASSUME w.at # 0,
             NEW nx \in (IF b.id = "header" THEN {b.next} ELSE {0} \cup DOMAIN vol.blk),
             Step("ffs_list", [w EXCEPT !.at = nx,
                       !.shown = IF b.id = "header" THEN w.shown \cup {b.name} ELSE w.shown])
      PROVE  CallInv' /\ Locals'
  <2> DEFINE h == w.idx
             c == vol.chain[p][h]
  <2>1. h # 0 /\ h \in 1 .. Len(w.hdr.ht)
    BY <1>1, <1>2, <1>6 DEF ListInv
  <2>2. PICK j \in 1 .. Len(c) + 1 : w.at = Link(c, j) /\ w.shown = NamesBefore(vol, p, h, j)
    BY <1>1, <2>1 DEF ListInv
  <2>3. h \in 1 .. Len(vol.blk[vol.at[p]].ht)
    BY <1>2, <2>1
  <2>4. Len(c) \in Nat /\ j \in 1 .. Len(c) /\ w.at = c[j]
    <3>1. Len(c) \in Nat
      BY <1>2, <2>3, ChainTyped
    <3> HIDE DEF c
    <3>2. QED
      BY <1>6, <2>2, <3>1 DEF Link
  <2>5. /\ b = vol.blk[c[j]] /\ b.id = "header" /\ b.next = Link(c, j + 1)
        /\ b.name \in vol.dirs[p] /\ Hash[b.name] = h
    <3>1. LET hd == vol.blk[c[j]]
          IN /\ Block(c[j]) = hd /\ hd.id = "header" /\ hd.next = Link(c, j + 1)
             /\ hd.name \in vol.dirs[p] /\ Hash[hd.name] = h
      <4>1. ChainHeader(vol, p, h, j)
        BY <1>2, <2>3, <2>4, ChainBlock
      <4>2. QED
        BY <4>1 DEF ChainHeader, Block
    <3>2. QED
      BY <2>4, <3>1
  <2> HIDE DEF b, c
  <2>6. /\ UNCHANGED <<vol, call, turn, failed>> /\ pc' = "ffs_list"
        /\ w' = [w EXCEPT !.at = Link(c, j + 1), !.shown = w.shown \cup {b.name}]
    BY <1>6, <2>5 DEF Step
  <2>7. /\ w'.hdr = w.hdr /\ w'.shown = w.shown \cup {b.name} /\ w'.at = Link(c, j + 1)
        /\ w'.idx = w.idx /\ Locals'
    BY <2>6 DEF Locals
  <2>8. NamesBefore(vol, p, h, j + 1) = NamesBefore(vol, p, h, j) \cup {b.name}
    <3>1. ASSUME NEW n
          PROVE  (\E i \in 1 .. (j + 1) - 1 : NameAt(vol, c, i) = n)
                 <=> (\E i \in 1 .. j - 1 : NameAt(vol, c, i) = n) \/ n = b.name
      <4>1. \A i : i \in 1 .. (j + 1) - 1 <=> i \in 1 .. j - 1 \/ i = j
        BY <2>4
      <4>2. NameAt(vol, c, j) = b.name
        BY <2>5 DEF NameAt
      <4>3. QED
        BY <4>1, <4>2, Zenon
    <3> HIDE DEF h
    <3>2. ASSUME NEW n
          PROVE  n \in NamesBefore(vol, p, h, j + 1)
                 <=> n \in NamesBefore(vol, p, h, j) \/ n = b.name
      BY <2>5, <3>1, Zenon DEF NamesBefore, c
    <3>3. QED
      BY <3>2
  <2>9. \E k \in 1 .. Len(c) + 1 : w'.at = Link(c, k) /\ w'.shown = NamesBefore(vol, p, h, k)
    <3>1. j + 1 \in 1 .. Len(c) + 1
      BY <2>4
    <3>2. QED
      BY <2>2, <2>7, <2>8, <3>1
  <2>10. ListInv'
    BY <1>2, <2>1, <2>6, <2>7, <2>9 DEF ListInv, c
  <2>11. QED
    BY <1>1, <2>6, <2>7, <2>10, GoesOn DEF PlaceInv, FfsPlaces
<1>7. QED
  BY <1>3, <1>4, <1>5, <1>6 DEF FfsList

(* The readers behind amiga_ffs in g_filesys do not know the volume. *)
LEMMA OthersRefuse ==
  ASSUME SoundFfs, CallInv, Locals, SfsNext \/ PfsNext \/ ExNext, UNCHANGED turn
  PROVE  CallInv' /\ Locals'
<1>1. Block(0).id = "boot"
  BY RootFacts
<1>2. pc \in FfsPlaces \cup OtherPlaces \cup {"done"} /\ (pc \in OtherPlaces => failed)
  BY DEF CallInv
<1>3. pc \notin {"sfs_root", "sfs_objc", "sfs_dir", "sfs_list", "sfs_extent", "sfs_node", "sfs_data",
                 "pfs_root", "pfs_dir", "pfs_dirblock", "pfs_list", "pfs_file", "pfs_data",
                 "ex_cluster", "ex_sector", "ex_slot", "ex_set", "ex_visit", "ex_fat", "ex_data",
                 "ex_datanext"}
  BY <1>2 DEF FfsPlaces, OtherPlaces
<1>4. ASSUME failed, Return("nofs") PROVE CallInv' /\ Locals'
  <2>1. UNCHANGED <<vol, call, turn, w, failed>> /\ pc' = "done" /\ ret' = "nofs"
    BY <1>4 DEF Return
  <2>2. Answer'
    BY <1>4, <2>1 DEF Answer, LoadAnswer, ListAnswer
  <2>3. QED
    BY <2>1, <2>2, Answers DEF Locals
<1>5. ASSUME NEW r \in {"nofs", "error"}, Broken(r) PROVE CallInv' /\ Locals'
  BY <1>5, BrokenAnswers
<1>6. ASSUME SfsNext PROVE CallInv' /\ Locals'
  <2>1. SfsBoot
    BY <1>3, <1>6 DEF SfsNext, SfsRoot, SfsRootObject, SfsDir, SfsList, SfsExtent, SfsNode, SfsData
  <2>2. failed
    BY <1>2, <2>1 DEF SfsBoot, OtherPlaces
  <2>3. QED
    BY <1>1, <1>4, <1>5, <2>1, <2>2 DEF SfsBoot
<1>7. ASSUME PfsNext PROVE CallInv' /\ Locals'
  <2>1. PfsBoot
    BY <1>3, <1>7 DEF PfsNext, PfsRoot, PfsDir, PfsDirBlock, PfsList, PfsFile, PfsData
  <2>2. failed
    BY <1>2, <2>1 DEF PfsBoot, OtherPlaces
  <2>3. QED
    BY <1>1, <1>4, <1>5, <2>1, <2>2 DEF PfsBoot
<1>8. ASSUME ExNext PROVE CallInv' /\ Locals'
  <2>1. ExOpen
    BY <1>3, <1>8 DEF ExNext, ExCluster, ExSector, ExSlot, ExSet, ExVisit, ExFat, ExData, ExDataNext
  <2>2. failed
    BY <1>2, <2>1 DEF ExOpen, OtherPlaces
  <2>3. QED
    BY <1>1, <1>4, <1>5, <2>1, <2>2 DEF ExOpen
<1>9. QED
  BY <1>6, <1>7, <1>8

LEMMA FfsSteps ==
  ASSUME SoundFfs, CallInv, Locals, FfsNext, UNCHANGED turn
  PROVE  CallInv' /\ Locals'
BY FfsBootStep, FfsProbeStep, FfsOpenStep, FfsLookupStep, FfsFoundStep, FfsDataStep,
   FfsExtensionStep, FfsListStep DEF FfsNext

NotCalled == pc = "done" /\ ret = "none" /\ call.what = "load"

LEMMA VolumeStays == [Next]_vars => vol' = vol
<1> SUFFICES ASSUME [Next]_vars PROVE vol' = vol
  OBVIOUS
<1>1. CASE Call \/ Start \/ AskNext \/ UNCHANGED vars
  BY <1>1 DEF Call, Start, AskNext, Enter, Broken, Step, vars, readerVars
<1>2. CASE Reading
  BY <1>2, FfsKeeps, SfsKeeps, PfsKeeps, ExKeeps DEF Reading, ReaderKeeps
<1>3. CASE Methods
  BY <1>3 DEF Methods, PartNext, PartOpen, PartClose, PartSeek, PartRead, PartChunk,
     PartReadEnds, Moved, Broken, Step, Return
<1>4. QED
  BY <1>1, <1>2, <1>3 DEF Next

LEMMA FfsInvInit == Init => FfsInv
BY DEF Init, ReaderInit, FfsInv, Locals, Idle

LEMMA FfsInvStep == PartInv /\ FfsInv /\ [Next]_vars => FfsInv'
<1> SUFFICES ASSUME PartInv, FfsInv, [Next]_vars, SoundFfs'
             PROVE  Locals' /\ (CallInv' \/ NotCalled')
  BY DEF FfsInv, NotCalled
<1>1. vol' = vol
  BY VolumeStays
<1>2. SoundFfs
  <2>1. vol \in Volumes /\ vol.fs = "ffs" /\ vol.sound
    BY <1>1 DEF SoundFfs
  <2>2. vol.hint => vol.n % 2 = 0 /\ vol.n * Unit < Wrap
    BY <1>1 DEF SoundFfs, KnownLayout
  <2>3. QED
    BY <2>1, <2>2 DEF SoundFfs, KnownLayout
<1>3. Locals /\ (CallInv \/ NotCalled)
  BY <1>2 DEF FfsInv, NotCalled
<1>4. CASE Call
  <2>1. /\ call' \in vol.calls /\ pc' = "start" /\ w' = Idle /\ turn' = 1
    BY <1>4 DEF Call, Enter
  <2>2. Locals' /\ w'.out = << >> /\ w'.shown = {} /\ w'.comp = 1
    BY <2>1 DEF Locals, Idle
  <2>3. CallInv'
    BY <1>1, <2>1, <2>2 DEF CallInv, FfsPlaces, OtherPlaces, Fresh
  <2>4. QED
    BY <2>2, <2>3
<1>5. CASE Start
  <2>1. CallInv /\ pc = "start" /\ UNCHANGED turn
    BY <1>3, <1>5 DEF Start, NotCalled
  <2>2. CASE Broken("error")
    BY <1>3, <2>1, <2>2, BrokenAnswers
  <2>3. CASE Step(Order[1], w)
    <3>1. UNCHANGED <<vol, call, turn, w, failed>> /\ pc' = "ffs_boot"
      BY <2>1, <2>3 DEF Step, Order
    <3>2. PlaceInv'
      BY <2>1, <3>1 DEF PlaceInv, CallInv, FfsPlaces, Fresh
    <3>3. QED
      BY <1>3, <2>1, <3>1, <3>2, GoesOn DEF Locals, FfsPlaces
  <2>4. QED
    BY <1>5, <2>2, <2>3 DEF Start
<1>6. CASE AskNext
  <2>1. /\ pc = "done" /\ ret = "nofs" /\ turn \in 1 .. 3 /\ turn' = turn + 1
        /\ pc' = Order[turn + 1] /\ w' = Idle /\ UNCHANGED <<vol, call, failed>>
    BY <1>6 DEF AskNext, Order, PartInv
  <2>2. CallInv
    BY <1>3, <2>1 DEF NotCalled
  <2>3. failed
    <3>1. Answer /\ call.what \in {"load", "list"}
      BY <1>2, <2>1, <2>2, CallFacts DEF CallInv
    <3>2. QED
      BY <2>1, <3>1 DEF Answer, LoadAnswer, ListAnswer
  <2>4. pc' \in OtherPlaces
    BY <2>1 DEF Order, OtherPlaces
  <2>5. Locals'
    BY <2>1 DEF Locals, Idle
  <2>6. CallInv'
    BY <2>1, <2>2, <2>3, <2>4 DEF CallInv, OtherPlaces, FfsPlaces
  <2>7. QED
    BY <2>5, <2>6
<1>7. CASE Reading
  <2>1. UNCHANGED turn /\ (FfsNext \/ SfsNext \/ PfsNext \/ ExNext)
    BY <1>7 DEF Reading
  <2>2. CallInv
    <3>1. pc # "done"
      BY <2>1, FfsKeeps, SfsKeeps, PfsKeeps, ExKeeps DEF ReaderKeeps
    <3>2. QED
      BY <1>3, <3>1 DEF NotCalled
  <2>3. QED
    BY <1>2, <1>3, <2>1, <2>2, FfsSteps, OthersRefuse
<1>8. CASE Methods
  <2>1. vol.fs # "raw"
    BY <1>2 DEF SoundFfs
  <2>2. cursor = Closed /\ pc # "part_read"
    BY <2>1 DEF PartInv
  <2>3. QED
    BY <1>8, <2>1, <2>2 DEF Methods, PartNext, PartOpen, PartClose, PartSeek, PartRead, PartChunk,
       PartReadEnds
<1>9. CASE UNCHANGED vars
  <2>1. UNCHANGED <<vol, call, pc, w, ret, failed, turn>>
    BY <1>9 DEF vars, readerVars
  <2>2. Locals'
    BY <1>3, <2>1 DEF Locals
  <2>3. ASSUME CallInv PROVE CallInv'
    BY <2>1, <2>3 DEF CallInv, Fresh, ProbeInv, OpenInv, LookupInv, FoundInv, DataInv, ListInv, Answer,
       LoadAnswer, ListAnswer, Root, Here, Name, DataAt
  <2>4. QED
    BY <1>3, <2>1, <2>2, <2>3 DEF NotCalled
<1>10. QED
  BY <1>4, <1>5, <1>6, <1>7, <1>8, <1>9 DEF Next

LEMMA FfsInvHolds == Spec => [](PartInv /\ FfsInv)
<1>1. PartInv /\ FfsInv /\ [Next]_vars => PartInv' /\ FfsInv'
  BY PartInvStep, FfsInvStep
<1>2. QED
  BY <1>1, PartInvInit, FfsInvInit, PTL DEF Spec

(* A load of amiga_ffs on any sound OFS or FFS volume, with any disk error: *)
(* success means the whole file, in order, and "no file" that there is none.*)
THEOREM FfsLoads == Spec => [](vol.fs = "ffs" => LoadsWhatIsStored)
<1>1. PartInv /\ FfsInv => (vol.fs = "ffs" => LoadsWhatIsStored)
  <2> SUFFICES ASSUME PartInv, FfsInv, vol.fs = "ffs", Finished, ret # "none",
                      call.what = "load", vol.sound, KnownLayout
               PROVE  /\ ret = "end" => /\ call.path \in DOMAIN vol.files
                                        /\ w.out = vol.files[call.path]
                      /\ ret # "end" => failed \/ (ret = "nofile" /\ call.path \notin DOMAIN vol.files)
    BY DEF LoadsWhatIsStored, Stored
  <2>1. SoundFfs
    BY DEF SoundFfs, PartInv
  <2>2. CallInv /\ pc = "done"
    BY <2>1 DEF FfsInv, Finished
  <2>3. LoadAnswer
    BY <2>2 DEF CallInv, Answer
  <2>4. QED
    BY <2>3 DEF LoadAnswer
<1>2. QED
  BY <1>1, FfsInvHolds, PTL

(* A listing of amiga_ffs on any sound volume that no disk error cut short  *)
(* shows all names of the directory and no other.                           *)
THEOREM FfsLists == Spec => [](vol.fs = "ffs" => ListsWhatIsStored)
<1>1. PartInv /\ FfsInv => (vol.fs = "ffs" => ListsWhatIsStored)
  <2> SUFFICES ASSUME PartInv, FfsInv, vol.fs = "ffs", Finished,
                      call.what = "list", vol.sound, KnownLayout, ~failed
               PROVE  /\ call.path \in DOMAIN vol.dirs => ret = "end" /\ w.shown = vol.dirs[call.path]
                      /\ call.path \notin DOMAIN vol.dirs => w.shown = {}
    BY DEF ListsWhatIsStored, Listed
  <2>1. SoundFfs
    BY DEF SoundFfs, PartInv
  <2>2. CallInv /\ pc = "done"
    BY <2>1 DEF FfsInv, Finished
  <2>3. ListAnswer
    BY <2>2 DEF CallInv, Answer
  <2>4. QED
    BY <2>3 DEF ListAnswer
<1>2. QED
  BY <1>1, FfsInvHolds, PTL

=============================================================================

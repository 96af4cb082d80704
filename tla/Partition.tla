----------------------------- MODULE Partition -----------------------------
(***************************************************************************)
(* An open instance of a partition package (partition_pkg.c), as an OS     *)
(* uses it through the client interface: seek and read in bytes, on top of *)
(* the disk's read-blocks.  Byte n of the disk is the number n.  A volume  *)
(* of kind "raw" is [start, psize, bs]; the disk's own blocks hold Unit    *)
(* bytes.                                                                  *)
(***************************************************************************)
EXTENDS Reader

CONSTANTS Positions,  \* the arguments of seek
          Lengths     \* the arguments of read

ASSUME PartitionAssumption ==
  /\ Positions \subseteq Nat /\ Lengths \subseteq Nat
  /\ \A v \in Volumes : v.fs = "raw" => v.start \in Nat /\ v.psize \in Nat

VARIABLES cursor,   \* PartitionInst.cursor, Closed while there is no instance
          from,     \* ghost: the cursor when the last read began
          asked     \* ghost: the length it was asked for

partVars == <<cursor, from, asked>>

Closed == -1

PartInit == cursor = Closed /\ from = 0 /\ asked = 0

\* A method that only moves the cursor has ended.
Moved(c) ==
  /\ cursor' = c /\ from' = 0 /\ asked' = 0
  /\ ret' = "none" /\ w' = Idle /\ failed' = FALSE
  /\ UNCHANGED <<vol, call, pc>>

PartOpen == pc = "done" /\ vol.fs = "raw" /\ cursor = Closed /\ Moved(0)

PartClose == pc = "done" /\ cursor # Closed /\ Moved(Closed)

PartSeek ==
  /\ pc = "done" /\ cursor # Closed
  /\ \E pos \in Positions : Moved(IF pos > vol.psize THEN cursor ELSE pos)

\* Mutant of Remain: the length is not clipped to the partition.
RemainAsAsked(len) == IF cursor >= vol.psize THEN 0 ELSE len

\* How much read is going to read.
Remain(len) == IF cursor >= vol.psize THEN 0 ELSE Least(len, vol.psize - cursor)

PartRead ==
  /\ pc = "done" /\ cursor # Closed
  /\ \E len \in Lengths :
       /\ w' = [Idle EXCEPT !.at = Remain(len)]
       /\ asked' = len
  /\ pc' = "part_read" /\ from' = cursor
  /\ ret' = "none" /\ failed' = FALSE
  /\ UNCHANGED <<vol, call, cursor>>

\* One block: the part of it that is wanted is copied out of blkbuf, which
\* holds what the disk's read-blocks put there.  The disk may read nothing,
\* which ends the loop, or fail.
PartChunk ==
  LET byte == vol.start + cursor
      block == byte \div vol.bs
      off == byte - block * vol.bs
      n == Least(vol.bs - off, w.at)
      blkbuf == [i \in 1 .. vol.bs |-> IF i <= Unit THEN block * Unit + i - 1 ELSE -1]
  IN /\ pc = "part_read" /\ w.at > 0
     /\ \/ Broken("error") /\ UNCHANGED partVars
        \/ Broken("ok") /\ UNCHANGED partVars
        \/ /\ Step("part_read", [w EXCEPT !.at = @ - n, !.out = @ \o SubSeq(blkbuf, off + 1, off + n)])
           /\ cursor' = cursor + n
           /\ UNCHANGED <<from, asked>>

PartReadEnds == pc = "part_read" /\ w.at = 0 /\ Return("ok") /\ UNCHANGED partVars

PartNext == PartOpen \/ PartClose \/ PartSeek \/ PartRead \/ PartChunk \/ PartReadEnds

-----------------------------------------------------------------------------
\* What read returns are the partition's bytes from the cursor on, in order, up
\* to what was asked for and no byte of the next partition; the cursor stands
\* behind what was returned, also when the disk cut the read short.  (For
\* partitions with the disk's block size; see README.md for the others.)
ReadsPartition ==
  vol.fs = "raw" /\ vol.bs = Unit /\ pc = "done" /\ ret = "ok" =>
    /\ w.out = [i \in 1 .. Len(w.out) |-> vol.start + from + i - 1]
    /\ cursor = from + Len(w.out) /\ cursor <= vol.psize
    /\ failed \/ Len(w.out) = Least(asked, vol.psize - from)

\* The same for every block size rdb_SizeBlock may give.
ReadsAnyPartition ==
  vol.fs = "raw" /\ pc = "done" /\ ret = "ok"
    => w.out = [i \in 1 .. Len(w.out) |-> vol.start + from + i - 1]

=============================================================================

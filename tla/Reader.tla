------------------------------- MODULE Reader -------------------------------
(***************************************************************************)
(* What the file system readers of the firmware share: the volume they are *)
(* called on, the request, and the locals of the reader that runs.         *)
(* file_system (fs.c) calls one reader at a time; each step of a reader is *)
(* one call of filesys_read_bytes and what is done with the block, and the *)
(* disk may fail any of them.                                              *)
(***************************************************************************)
EXTENDS Integers, Sequences, FiniteSets, SequencesExt

CONSTANTS Volumes,   \* the volumes: [fs, blk, files, dirs, sound, ...] records
          Unit,      \* how many units of data a block or sector holds
          DirGuard,  \* the guard of the walks along directories: 4096 in SFS
                     \* and PFS3, 65536 in exFAT, none in FFS
          FileGuard  \* the guard of the walks along files: 65536 and 100000

ASSUME ReaderAssumption == Unit \in Nat \ {0} /\ DirGuard \in Nat /\ FileGuard \in Nat

VARIABLES vol,     \* the partition's contents
          call,    \* [what, path]: FS_LOAD or FS_LIST, and the path in parts
          pc,
          w,       \* the locals of the reader, see Idle
          ret,     \* the return code
          failed   \* ghost: the disk failed a read of this call

readerVars == <<vol, call, pc, w, ret, failed>>

\* A block of something else: no identifier, no pointers.
Junk == [id |-> "junk"]

\* What a successful read of block b brings.  A block behind the end of the
\* volume belongs to another partition.
Block(b) == IF b \in DOMAIN vol.blk THEN vol.blk[b] ELSE Junk

Least(a, b) == IF a < b THEN a ELSE b

\* retbuf after a memcpy of n units of block b, as far as the file goes.
Copied(b, n) == w.out \o [u \in 1 .. Least(n, w.size - Len(w.out)) |-> <<b, u>>]

Whole == Len(w.out) >= w.size

\* The part of the path that is looked for, the file or directory if it is last.
Name == call.path[w.comp]

LastPart == w.comp = Len(call.path)

\* The reader goes on at p with locals l, or returns r, or returns r because
\* the disk failed the read.
Step(p, l) == pc' = p /\ w' = l /\ UNCHANGED <<vol, call, ret, failed>>

Return(r) == pc' = "done" /\ ret' = r /\ UNCHANGED <<vol, call, w, failed>>

Broken(r) == pc' = "done" /\ ret' = r /\ failed' = TRUE /\ UNCHANGED <<vol, call, w>>

Idle == [at |-> 0,        \* the block, cluster, anode or key the reader is at
         guard |-> 0,     \* its guard against cycles
         idx |-> 0,       \* its loop index
         comp |-> 1,      \* the part of the path it looks for
         buf |-> Junk,    \* the block in its buffer
         hdr |-> Junk,    \* what it has found: a directory, header or extent
         size |-> 0,      \* the size of the file
         out |-> <<>>,    \* retbuf, as the sequence of data units copied to it
         shown |-> {}]    \* the names FS_LIST has printed

ReaderInit ==
  /\ vol \in Volumes
  /\ call = [what |-> "load", path |-> <<>>]
  /\ pc = "done" /\ w = Idle
  /\ ret = "none" /\ failed = FALSE

\* file_system calls the reader that knows the volume, at its entry p.
Enter(c, p) ==
  /\ pc = "done"
  /\ call' = c /\ pc' = p /\ w' = Idle
  /\ ret' = "none" /\ failed' = FALSE
  /\ UNCHANGED vol

=============================================================================

-------------------------------- MODULE Ffs --------------------------------
(***************************************************************************)
(* amiga_ffs.c: OFS and FFS volumes.  The root block is found from the     *)
(* size amiga_rdb published or by a table of likely places, the path is    *)
(* walked through hash chains, and a file's data follows from its header   *)
(* and the extension blocks behind it.  No walk has a guard.               *)
(*                                                                         *)
(* vol.n is the number of blocks, vol.hint says that the volume was        *)
(* reached through the RDB, vol.ffs that data blocks have no header.       *)
(***************************************************************************)
EXTENDS Reader

CONSTANTS Wrap,      \* 2^32, where part_size wraps
          ProbeMids, \* probe_mids
          DbMax,     \* DB_MAX, the data pointers of a block
          Hash       \* name_hash of the names of the model

ASSUME FfsAssumption ==
  /\ Wrap \in Nat \ {0} /\ DbMax \in Nat \ {0}
  /\ ProbeMids \in Seq(Nat)

IsRoot(b) == b.id = "header" /\ b.sec = "root"

IsDir(b) == b.id = "header" /\ b.sec \in {"root", "dir"}

(***************************************************************************)
(* A sound volume is laid out the way its writer records it: v.at is the   *)
(* block of every path, v.chain the blocks of every hash chain of a        *)
(* directory, v.lists the header and extension blocks of a file, and       *)
(* v.off where in the file each of their data pointers begins.             *)
(***************************************************************************)
Paths(v) == DOMAIN v.files \cup DOMAIN v.dirs

\* The i-th block of chain c, or the 0 behind its last.
Link(c, i) == IF i <= Len(c) THEN c[i] ELSE 0

ChainLaid(v, p, h) ==
  LET c == v.chain[p][h]
      header(i) == v.blk[c[i]]
  IN /\ c \in Seq(DOMAIN v.blk \ {0})
     /\ \A i \in 1 .. Len(c) :
          /\ header(i).id = "header" /\ header(i).next = Link(c, i + 1)
          /\ header(i).name \in v.dirs[p] /\ Hash[header(i).name] = h
          /\ c[i] = v.at[Append(p, header(i).name)]

DirLaid(v, p) ==
  LET d == v.blk[v.at[p]]
  IN /\ d.id = "header" /\ d.sec = IF p = <<>> THEN "root" ELSE "dir"
     /\ Len(d.ht) \in Nat
     /\ \A h \in 1 .. Len(d.ht) : ChainLaid(v, p, h) /\ d.ht[h] = Link(v.chain[p][h], 1)
     /\ \A n \in DOMAIN Hash :
          /\ Hash[n] \in 1 .. Len(d.ht)
          /\ n \in v.dirs[p] <=> Append(p, n) \in Paths(v)
     /\ \A n \in v.dirs[p] :
          /\ n \in DOMAIN Hash
          /\ \E i \in 1 .. Len(v.chain[p][Hash[n]]) : v.blk[v.chain[p][Hash[n]][i]].name = n

\* Pointer i of a header or extension block b, from unit o of file f to o2.
DataLaid(v, f, b, i, o, o2) ==
  LET p == b.data[i]
      n == IF v.ffs THEN Unit ELSE Least(v.blk[p].len, Unit)
      m == Least(n, Len(f) - o)
  IN /\ p \in DOMAIN v.blk \ {0} /\ (v.ffs \/ v.blk[p].id = "data")
     /\ n \in Nat /\ o2 = o + m
     /\ \A u \in 1 .. m : f[o + u] = <<p, u>>

FileLaid(v, p) ==
  LET f == v.files[p]
      l == v.lists[p]
      o == v.off[p]
      b(j) == v.blk[l[j]]
  IN /\ f \in Seq((DOMAIN v.blk) \X (1 .. Unit))
     /\ l \in Seq(DOMAIN v.blk \ {0}) /\ l # <<>>
     /\ l[1] = v.at[p] /\ b(1).id = "header" /\ b(1).sec = "file" /\ b(1).size = Len(f)
     /\ o[1][1] = 0
     /\ \A j \in 1 .. Len(l) :
          /\ j > 1 => b(j).id = "list"
          /\ IF j < Len(l) THEN b(j).ext = l[j + 1] /\ o[j + 1][1] = o[j][DbMax + 1]
                           ELSE o[j][DbMax + 1] = Len(f)
          /\ \A i \in 1 .. DbMax + 1 : o[j][i] \in 0 .. Len(f)
          /\ \A i \in 1 .. DbMax : o[j][i] < Len(f) => DataLaid(v, f, b(j), i, o[j][i], o[j][i + 1])

\* The root block is half way along the partition when its size is published,
\* and otherwise at a place of the table, of a volume of less than 4 GiB.
RootLaid(v) ==
  /\ \A b \in DOMAIN v.blk : IsRoot(v.blk[b]) <=> b = v.at[<<>>]
  /\ v.hint \in BOOLEAN /\ v.n \in Nat
  /\ v.hint => v.at[<<>>] = (2 + v.n - 1) \div 2
  /\ ~v.hint => /\ \E i \in 1 .. Len(ProbeMids) : ProbeMids[i] = v.at[<<>>]
                /\ v.at[<<>>] * 2 * Unit < Wrap

FfsLaid(v) ==
  /\ v.blk[0].id = "boot" /\ 0 \in DOMAIN v.blk
  /\ \A c \in v.calls : c.what \in {"load", "list"} /\ c.path \in Seq(DOMAIN Hash)
  /\ v.at \in [Paths(v) -> (DOMAIN v.blk \cap Nat) \ {0}]
  /\ \A p \in Paths(v) : \A k \in 0 .. Len(p) - 1 : SubSeq(p, 1, k) \in DOMAIN v.dirs
  /\ <<>> \in DOMAIN v.dirs /\ RootLaid(v)
  /\ \A p \in DOMAIN v.dirs : DirLaid(v, p)
  /\ \A p \in DOMAIN v.files : FileLaid(v, p)

ASSUME FfsVolumesAssumption == \A v \in Volumes : v.fs = "ffs" /\ v.sound => FfsLaid(v)

\* amiga_ffs up to the first look for the root.
FfsBoot ==
  /\ pc = "ffs_boot"
  /\ \/ Broken("nofs")
     \/ Block(0).id # "boot" /\ Return("nofs")
     \/ /\ Block(0).id = "boot"
        /\ Step("ffs_probe", [w EXCEPT !.idx = IF vol.hint THEN 0 ELSE 1])

\* (low_key + high_key) / 2 from the published size first, then the table.
Candidate == IF w.idx = 0 THEN (2 + vol.n - 1) \div 2 ELSE ProbeMids[w.idx]

InTable == \/ w.idx = 0
           \/ w.idx \in 1 .. Len(ProbeMids) /\ (vol.hint => ProbeMids[w.idx] < vol.n)

\* One candidate for the root.  A failed read ends the table, not the first try.
FfsProbe ==
  LET b == Block(Candidate)
  IN /\ pc = "ffs_probe"
     /\ \/ ~InTable /\ Return("nofs")
        \/ InTable /\ w.idx > 0 /\ Broken("nofs")
        \/ /\ w.idx = 0
           /\ failed' = TRUE /\ w' = [w EXCEPT !.idx = 1]
           /\ UNCHANGED <<vol, call, pc, ret>>
        \/ /\ InTable /\ IsRoot(b)
           /\ Step("ffs_open", [w EXCEPT !.buf = b, !.at = Candidate])
        \/ /\ InTable /\ ~IsRoot(b)
           /\ Step("ffs_probe", [w EXCEPT !.buf = b, !.idx = @ + 1])

\* part_size_guess, and the root_block open_volume makes of it
SizeGuess == IF vol.hint /\ vol.n * Unit < Wrap THEN vol.n * Unit ELSE (w.at * 2 * Unit) % Wrap

RootBlock == (SizeGuess \div Unit) \div 2

\* Where a name's chain begins.  In a block that is no directory the table is
\* whatever is there.
Chains(b, n) == IF IsDir(b) THEN {b.ht[Hash[n]]} ELSE {0} \cup DOMAIN vol.blk

\* open_volume.  It reads into the buffer that holds the block that was found;
\* when what it reads is no root, the fallback copies that buffer all the same.
FfsOpen ==
  /\ pc = "ffs_open"
  /\ \E ok \in BOOLEAN : LET b == IF ok THEN Block(RootBlock) ELSE w.buf IN
       /\ failed' = (failed \/ ~ok)
       /\ IF call.path = <<>>
          THEN /\ w' = [w EXCEPT !.buf = b, !.hdr = b, !.at = 0, !.idx = 0]
               /\ pc' = "ffs_found"
          ELSE /\ \E c \in Chains(b, call.path[1]) :
                    w' = [w EXCEPT !.buf = b, !.hdr = b, !.at = c, !.idx = 0]
               /\ pc' = "ffs_lookup"
  /\ UNCHANGED <<vol, call, ret>>

\* One block of a hash chain in lookup_in_hash, and walk_path's step into it.
FfsLookup ==
  LET b == Block(w.at)
  IN /\ pc = "ffs_lookup"
     /\ \/ w.at = 0 /\ Return("nofile")
        \/ w.at # 0 /\ Broken("nofile")
        \/ w.at # 0 /\ b.id # "header" /\ Return("nofile")
        \/ /\ w.at # 0 /\ b.id = "header" /\ b.name # Name
           /\ Step("ffs_lookup", [w EXCEPT !.at = b.next])
        \/ /\ w.at # 0 /\ b.id = "header" /\ b.name = Name
           /\ \/ LastPart /\ Step("ffs_found", [w EXCEPT !.hdr = b, !.at = 0])
              \/ ~LastPart /\ ~IsDir(b) /\ Return("nofile")
              \/ /\ ~LastPart /\ IsDir(b)
                 /\ Step("ffs_lookup", [w EXCEPT !.at = b.ht[Hash[call.path[w.comp + 1]]],
                                                 !.comp = @ + 1])

\* walk_path has found its block: FS_LIST lists a directory or prints the line
\* of a file, FS_LOAD wants a file.
FfsFound ==
  /\ pc = "ffs_found"
  /\ \/ call.what = "list" /\ IsDir(w.hdr) /\ Step("ffs_list", w)
     \/ call.what = "list" /\ ~IsDir(w.hdr) /\ Return("end")
     \/ call.what = "load" /\ ~ (w.hdr.id = "header" /\ w.hdr.sec = "file") /\ Return("nofile")
     \/ /\ call.what = "load" /\ w.hdr.id = "header" /\ w.hdr.sec = "file"
        /\ Step("ffs_data", [w EXCEPT !.size = w.hdr.size])

\* One data block of read_file_contents: OFS blocks say how much they hold.
FfsData ==
  LET p == w.hdr.data[w.idx + 1]
      n == IF vol.ffs THEN Unit ELSE Least(Block(p).len, Unit)
  IN /\ pc = "ffs_data"
     /\ \/ Whole /\ Return("end")
        \/ /\ ~Whole /\ w.idx < DbMax
           /\ \/ p = 0 /\ Return("end")
              \/ p # 0 /\ Broken("error")
              \/ p # 0 /\ ~vol.ffs /\ Block(p).id # "data" /\ Return("readerr")
              \/ /\ p # 0 /\ (vol.ffs \/ Block(p).id = "data")
                 /\ Step("ffs_data", [w EXCEPT !.out = Copied(p, n), !.idx = @ + 1])

\* On to the extension block.
FfsExtension ==
  LET x == w.hdr.ext
  IN /\ pc = "ffs_data" /\ ~Whole /\ w.idx = DbMax
     /\ \/ x = 0 /\ Return("end")
        \/ x # 0 /\ Broken("error")
        \/ x # 0 /\ Block(x).id # "list" /\ Return("readerr")
        \/ x # 0 /\ Block(x).id = "list" /\ Step("ffs_data", [w EXCEPT !.hdr = Block(x), !.idx = 0])

\* list_directory: idx chains are begun, at is the place in the last.  Any block
\* is printed, and followed at its next_hash.
FfsList ==
  LET b == Block(w.at)
  IN /\ pc = "ffs_list"
     /\ \/ w.at = 0 /\ w.idx = Len(w.hdr.ht) /\ Return("end")
        \/ /\ w.at = 0 /\ w.idx < Len(w.hdr.ht)
           /\ Step("ffs_list", [w EXCEPT !.at = w.hdr.ht[w.idx + 1], !.idx = @ + 1])
        \/ w.at # 0 /\ Broken("end")
        \/ /\ w.at # 0
           /\ \E nx \in IF b.id = "header" THEN {b.next} ELSE {0} \cup DOMAIN vol.blk :
                Step("ffs_list", [w EXCEPT !.at = nx,
                       !.shown = IF b.id = "header" THEN @ \cup {b.name} ELSE @])

FfsNext == FfsBoot \/ FfsProbe \/ FfsOpen \/ FfsLookup \/ FfsFound
           \/ FfsData \/ FfsExtension \/ FfsList

=============================================================================

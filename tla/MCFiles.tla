------------------------------ MODULE MCFiles ------------------------------
(***************************************************************************)
(* Volumes for Files: for each file system one with files and a directory  *)
(* with a file of its own, written out as its formatter would, in the layouts that make *)
(* a difference, and the same with one pointer changed to anything.        *)
(***************************************************************************)
EXTENDS Files

MCHash == [n \in {"a", "b", "d", "z"} |-> IF n = "d" THEN 2 ELSE 1]
MCProbeMids == <<10, 14>>

Data(b, n) == [u \in 1 .. n |-> <<b, u>>]

Call2(what, path) == [what |-> what, path |-> path]

TreeCalls ==
  {Call2("load", p) : p \in {<<"a">>, <<"b">>, <<"d", "a">>, <<"z">>, <<"d">>, <<>>, <<"a", "b">>}}
  \cup {Call2("list", p) : p \in {<<>>, <<"d">>, <<"b">>, <<"z">>}}

TreeDirs == (<<>> :> {"a", "b", "d"}) @@ (<<"d">> :> {"a"})

-----------------------------------------------------------------------------
(* FFS: a in two blocks of pointers, b behind a in its chain. *)

FileHeader(name, next, data, ext, sz) ==
  [id |-> "header", sec |-> "file", name |-> name, next |-> next, data |-> data,
   ext |-> ext, size |-> sz]

Directory(sec, name, ht) ==
  [id |-> "header", sec |-> sec, name |-> name, next |-> 0, ht |-> ht, size |-> 0]

OfsData(n) == [id |-> "data", len |-> n]

FfsVolume(n, hint, ffs, root) ==
  [fs |-> "ffs", n |-> n, hint |-> hint, ffs |-> ffs, sound |-> TRUE,
   calls |-> TreeCalls, dirs |-> TreeDirs,
   files |-> (<<"a">> :> IF ffs THEN Data(6, 2) \o Data(7, 2) \o Data(8, 1)
                                ELSE Data(6, 1) \o Data(7, 2) \o Data(8, 2))
             @@ (<<"b">> :> Data(9, 1)) @@ (<<"d", "a">> :> Data(12, 2)),
   at |-> (<<>> :> root) @@ (<<"a">> :> 1) @@ (<<"b">> :> 2) @@ (<<"d">> :> 4) @@ (<<"d", "a">> :> 5),
   chain |-> (<<>> :> <<<<1, 2>>, <<4>>>>) @@ (<<"d">> :> <<<<5>>, <<>>>>),
   lists |-> (<<"a">> :> <<1, 3>>) @@ (<<"b">> :> <<2>>) @@ (<<"d", "a">> :> <<5>>),
   off |-> (<<"a">> :> IF ffs THEN <<<<0, 2, 4>>, <<4, 5, 5>>>> ELSE <<<<0, 1, 3>>, <<3, 5, 5>>>>)
           @@ (<<"b">> :> <<<<0, 1, 1>>>>) @@ (<<"d", "a">> :> <<<<0, 2, 2>>>>),
   blk |-> (0 :> [id |-> "boot"])
           @@ (1 :> FileHeader("a", 2, <<6, 7>>, 3, 5))
           @@ (2 :> FileHeader("b", 0, <<9, 0>>, 0, 1))
           @@ (3 :> [id |-> "list", data |-> <<8, 0>>, ext |-> 0])
           @@ (4 :> Directory("dir", "d", <<5, 0>>))
           @@ (5 :> FileHeader("a", 0, <<12, 0>>, 0, 2))
           @@ (6 :> OfsData(1)) @@ (7 :> OfsData(2)) @@ (8 :> OfsData(2))
           @@ (9 :> OfsData(1)) @@ (12 :> OfsData(2))
           @@ (root :> Directory("root", "vol", <<1, 4>>))]

FfsVolumes ==
  {FfsVolume(20, hint, ffs, 10) : hint \in BOOLEAN, ffs \in BOOLEAN}
  \cup {FfsVolume(28, FALSE, TRUE, 14), FfsVolume(21, TRUE, TRUE, 11), FfsVolume(40, TRUE, TRUE, 20)}

-----------------------------------------------------------------------------
(* SFS: the directory in two containers, a in two extents of two leaves. *)

Object(name, kind, where, sz) == [name |-> name, kind |-> kind, at |-> where, size |-> sz]

Container(own, objs, next) == [id |-> "objc", own |-> own, objs |-> objs, next |-> next]

Extent(key, blocks, next) == [key |-> key, blocks |-> blocks, next |-> next]

SfsVolume(rootAt) ==
  [fs |-> "sfs", sound |-> TRUE, calls |-> TreeCalls, dirs |-> TreeDirs,
   files |-> (<<"a">> :> Data(10, 2) \o Data(11, 2) \o Data(14, 1))
             @@ (<<"b">> :> Data(12, 2)) @@ (<<"d", "a">> :> Data(16, 1)),
   blk |-> (0 :> [id |-> "sfsboot"])
           @@ (2 :> Container(2, <<Object("vol", "dir", 3, 0)>>, 0))
           @@ (3 :> Container(3, <<Object("a", "file", 10, 5), Object("d", "dir", 5, 0)>>, 4))
           @@ (4 :> Container(4, <<Object("b", "file", 12, 2)>>, 0))
           @@ (5 :> Container(5, <<Object("a", "file", 16, 1)>>, 0))
           @@ (6 :> [id |-> "bndc", leaf |-> FALSE,
                     nodes |-> <<[key |-> 10, data |-> 7], [key |-> 14, data |-> 8]>>])
           @@ (7 :> [id |-> "bndc", leaf |-> TRUE, nodes |-> <<Extent(10, 2, 14), Extent(12, 1, 0)>>])
           @@ (8 :> [id |-> "bndc", leaf |-> TRUE, nodes |-> <<Extent(14, 1, 0), Extent(16, 1, 0)>>])]

\* Broken pointers of every kind: to a block of another kind, to nothing, back.
DamagedFfs ==
  LET v == [FfsVolume(20, TRUE, FALSE, 10) EXCEPT !.sound = FALSE]
  IN {[v EXCEPT !.blk[b].next = x] : b \in 1 .. 2, x \in {0, 1, 6, 13}}
     \cup {[v EXCEPT !.blk[b].ext = x] : b \in {1, 3}, x \in {0, 3, 6, 13}}
     \cup {[v EXCEPT !.blk[1].data[i] = x] : i \in 1 .. 2, x \in {0, 2, 13}}
     \cup {[v EXCEPT !.blk[6].len = 0, !.blk[0] = Junk]}

SfsRootBlock(own) == [id |-> "sfsroot", own |-> own, objc |-> 2, total |-> 20, tree |-> 6]

SoundSfs == {[SfsVolume(r) EXCEPT !.blk = (r :> SfsRootBlock(r)) @@ @] : r \in {0, 1}}

DamagedSfs ==
  LET v == [SfsVolume(1) EXCEPT !.blk = (1 :> SfsRootBlock(1)) @@ @, !.sound = FALSE]
  IN {[v EXCEPT !.blk[b].next = x] : b \in 3 .. 5, x \in 0 .. 9}
     \cup {[v EXCEPT !.blk[1].objc = x] : x \in {0, 4, 7, 20}}
     \cup {[v EXCEPT !.blk[b] = Junk] : b \in 0 .. 2} \cup {[v EXCEPT !.blk[3].own = 9]}
     \cup {[v EXCEPT !.blk[2].objs = <<>>], [v EXCEPT !.blk[7].nodes = <<>>],
           [v EXCEPT !.blk[7].nodes[1].blocks = 0], [v EXCEPT !.blk[1].tree = 0],
           [v EXCEPT !.blk[3].objs[1].size = 20, !.blk[7].nodes[1].next = 10]}
     \cup {[v EXCEPT !.blk[7].nodes[1].next = x] : x \in {0, 10, 12, 16, 18}}
     \cup {[v EXCEPT !.blk[6].nodes[i].data = x] : i \in 1 .. 2, x \in 0 .. 9}
     \cup {[v EXCEPT !.blk[3].objs[2].at = x] : x \in 0 .. 9}

-----------------------------------------------------------------------------
(* PFS3: the directory in two anodes of one and two blocks. *)

AnodeRec(b, blocks, next) == [id |-> "anode", blk |-> b, blocks |-> blocks, next |-> next]

Entry(name, kind, anode, sz) == [name |-> name, kind |-> kind, anode |-> anode, size |-> sz]

DirBlock(ents) == [id |-> "db", ents |-> ents]

PfsVolume ==
  [fs |-> "pfs", sound |-> TRUE, calls |-> TreeCalls, dirs |-> TreeDirs,
   files |-> (<<"a">> :> Data(14, 2) \o Data(15, 2) \o Data(17, 1))
             @@ (<<"b">> :> Data(18, 2)) @@ (<<"d", "a">> :> Data(19, 1)),
   blk |-> (0 :> [id |-> "pfsboot"])
           @@ (2 :> [id |-> "pfsroot", index |-> <<3, 4>>])
           @@ (3 :> [id |-> "ib", index |-> <<7, 8>>]) @@ (4 :> [id |-> "ib", index |-> <<5, 6>>])
           @@ (7 :> [id |-> "ab", nodes |-> <<AnodeRec(0, 0, 0), AnodeRec(19, 1, 0)>>])
           @@ (8 :> [id |-> "ab", nodes |-> <<AnodeRec(14, 2, 3), AnodeRec(17, 1, 0)>>])
           @@ (5 :> [id |-> "ab", nodes |-> <<AnodeRec(18, 1, 0), AnodeRec(10, 1, 6)>>])
           @@ (6 :> [id |-> "ab", nodes |-> <<AnodeRec(11, 2, 0), AnodeRec(13, 1, 0)>>])
           @@ (10 :> DirBlock(<<Entry("a", "file", 2, 5)>>))
           @@ (11 :> DirBlock(<<Entry("d", "dir", 7, 0)>>))
           @@ (12 :> DirBlock(<<Entry("b", "file", 4, 2)>>))
           @@ (13 :> DirBlock(<<Entry("a", "file", 1, 1)>>))]

DamagedPfs ==
  LET v == [PfsVolume EXCEPT !.sound = FALSE]
  IN {[v EXCEPT !.blk[b].nodes[i].next = x] : b \in {5, 6, 8}, i \in 1 .. 2, x \in 0 .. 8}
     \cup {[v EXCEPT !.blk[b].index[i] = x] : b \in 2 .. 4, i \in 1 .. 2, x \in 0 .. 9}
     \cup {[v EXCEPT !.blk[11].ents[1].anode = x] : x \in 0 .. 8}
     \cup {[v EXCEPT !.blk[b] = Junk] : b \in {0, 2, 5, 12}}
     \cup {[v EXCEPT !.blk[8].nodes[1].blocks = 0],
           [v EXCEPT !.blk[10].ents[1].size = 20, !.blk[8].nodes[1].next = 2]}

-----------------------------------------------------------------------------
(* exFAT: a in the FAT, b contiguous with a name of two slots, c empty, and  *)
(* the directory d with the empty file e; the sets cross a sector and a      *)
(* cluster.  The attributes of a File slot, which tell a directory from a    *)
(* file, only change how a listing prints it.                                *)

Skip == [t |-> "skip"]
End == [t |-> "end"]
FileSlot(n) == [t |-> "file", n |-> n]
Stream(len, first, sz, nofat) ==
  [t |-> "stream", len |-> len, first |-> first, size |-> sz, nofat |-> nofat, big |-> FALSE]
NameSlot(p) == [t |-> "name", part |-> p]

SetA == <<FileSlot(2), Stream(1, 3, 7, FALSE), NameSlot("a")>>
SetB == <<FileSlot(3), Stream(2, 6, 8, TRUE), NameSlot("b1"), NameSlot("b2")>>
SetC == <<FileSlot(2), Stream(1, 0, 0, FALSE), NameSlot("c")>>
SetD == <<FileSlot(2), Stream(1, 9, 4, FALSE), NameSlot("d")>>
SetE == <<FileSlot(2), Stream(1, 0, 0, FALSE), NameSlot("e")>>

DirSector(s) == [id |-> "dir", slots |-> s]

\* Clusters 2, 4 and 8 of the root directory, pad slots before b; cluster 9 is d.
ExVolume(pad) ==
  LET Free(n) == [k \in 1 .. n |-> Skip]
      s == Free(2) \o SetA \o Free(pad) \o SetB \o SetC \o Free(1) \o SetD \o [k \in 1 .. 8 |-> End]
      Part(k) == DirSector(SubSeq(s, 4 * k + 1, 4 * k + 4))
      root == {<<"a">>, <<"b1", "b2">>, <<"c">>, <<"d">>}
  IN [fs |-> "exfat", sound |-> TRUE, fat |-> 1, heap |-> 2, count |-> 8, root |-> 2,
      calls |-> {Call2("load", <<n>>) : n \in root \cup {<<"b1">>}}
                \cup {Call2("load", <<<<"d">>, n>>) : n \in {<<"a">>, <<"e">>, <<"d">>}}
                \cup {Call2("load", <<>>)}
                \cup {Call2("list", p) : p \in {<<>>, <<<<"d">>>>, <<<<"a">>>>, <<<<"b1">>>>}},
      dirs |-> (<<>> :> root) @@ (<<<<"d">>>> :> {<<"e">>}),
      files |-> (<<<<"a">>>> :> Data(4, 2) \o Data(5, 2) \o Data(8, 2) \o Data(9, 1))
                @@ (<<<<"b1", "b2">>>> :> Data(10, 2) \o Data(11, 2) \o Data(12, 2) \o Data(13, 2))
                @@ (<<<<"c">>>> :> <<>>) @@ (<<<<"d">>, <<"e">>>> :> <<>>),
      blk |-> (0 :> [id |-> "exboot"])
              @@ (1 :> [id |-> "fat", next |-> <<10, 10, 4, 5, 8, 10, 0, 0, 10, 10, 0, 0>>])
              @@ (2 :> Part(0)) @@ (3 :> Part(1)) @@ (6 :> Part(2)) @@ (7 :> Part(3))
              @@ (14 :> Part(4)) @@ (15 :> DirSector([k \in 1 .. 4 |-> End]))
              @@ (16 :> DirSector(Append(SetE, End))) @@ (17 :> DirSector([k \in 1 .. 4 |-> End]))]

DamagedEx ==
  LET v == [ExVolume(2) EXCEPT !.sound = FALSE]
  IN {[v EXCEPT !.blk[1].next[i] = x] : i \in {3, 4, 5, 6, 9}, x \in 0 .. 10}
     \cup {[v EXCEPT !.blk[2].slots[4].first = x, !.blk[2].slots[4].nofat = f] :
             x \in 0 .. 11, f \in BOOLEAN}
     \cup {[v EXCEPT !.root = 1], [v EXCEPT !.blk[0] = Junk], [v EXCEPT !.blk[2].slots[4].big = TRUE],
           [v EXCEPT !.blk[2].slots[3].n = 1], [v EXCEPT !.blk[2].slots[4] = Skip]}

-----------------------------------------------------------------------------
(* Partitions for the partition packages. *)

Raw(start, psize, bs) ==
  [fs |-> "raw", start |-> start, psize |-> psize, bs |-> bs, blk |-> <<>>, calls |-> {},
   sound |-> FALSE]

MCVolumes ==
  FfsVolumes \cup DamagedFfs \cup SoundSfs \cup DamagedSfs \cup {PfsVolume} \cup DamagedPfs
  \cup {Raw(4, 8, 2), Raw(6, 6, 2), Raw(4, 8, 4)}
  \cup {ExVolume(pad) : pad \in 0 .. 3} \cup DamagedEx
=============================================================================

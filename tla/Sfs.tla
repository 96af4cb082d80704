-------------------------------- MODULE Sfs --------------------------------
(***************************************************************************)
(* amiga_sfs.c: directories are chains of object containers, a file is a   *)
(* chain of extents, and each extent is looked up by its key (its first    *)
(* block) in a B+-tree.  Every walk has a guard.                           *)
(***************************************************************************)
EXTENDS Reader

CONSTANT MaxDepth   \* 32, the levels of the extent tree

ASSUME SfsAssumption == MaxDepth \in Nat

\* amiga_sfs's look at the DosType, and sfs_open_volume's at blocks 0 and 1.
SfsBoot ==
  /\ pc = "sfs_boot"
  /\ \/ Broken("error")
     \/ Block(0).id \notin {"sfsboot", "sfsroot"} /\ Return("nofs")
     \/ Block(0).id \in {"sfsboot", "sfsroot"} /\ Step("sfs_root", w)

\* A candidate: idx is its block number.  A failed read passes it over.
SfsRoot ==
  LET b == Block(w.idx)
      valid == b.id = "sfsroot" /\ b.own = w.idx
  IN /\ pc = "sfs_root"
     /\ \/ w.idx > 1 /\ Return("nofs")
        \/ /\ w.idx <= 1
           /\ failed' = TRUE /\ w' = [w EXCEPT !.idx = @ + 1]
           /\ UNCHANGED <<vol, call, pc, ret>>
        \/ w.idx <= 1 /\ ~valid /\ Step("sfs_root", [w EXCEPT !.idx = @ + 1])
        \/ w.idx <= 1 /\ valid /\ b.objc \notin 1 .. b.total - 1 /\ Return("nofs")
        \/ /\ w.idx <= 1 /\ valid /\ b.objc \in 1 .. b.total - 1
           /\ Step("sfs_objc", [w EXCEPT !.buf = b, !.at = b.objc, !.idx = 0])

\* The root object in its container: the top-level directory is where it points.
SfsRootObject ==
  LET b == Block(w.at)
      ok == b.id = "objc" /\ b.objs # <<>>
  IN /\ pc = "sfs_objc"
     /\ \/ Broken("nofs")
        \/ ~ok /\ Return("nofs")
        \/ /\ ok
           /\ \/ call.path # <<>> /\ Step("sfs_dir", [w EXCEPT !.at = b.objs[1].at])
              \/ call.path = <<>> /\ call.what = "load" /\ Return("nofile")
              \/ /\ call.path = <<>> /\ call.what = "list"
                 /\ Step("sfs_list", [w EXCEPT !.at = b.objs[1].at])

\* Mutant of PastGuard: the cycle guard of sfs_dir_lookup is not there.
NeverPastGuard == FALSE

\* ++guard > 4096
PastGuard == w.guard + 1 > DirGuard

\* One container of sfs_dir_lookup, and sfs_walk_path's step into the object.
SfsDir ==
  LET b == Block(w.at)
      ok == w.at # 0 /\ ~PastGuard
      valid == b.id = "objc" /\ b.own = w.at
      hits == SelectSeq(b.objs, LAMBDA o : o.name = Name)
      o == hits[1]
  IN /\ pc = "sfs_dir"
     /\ \/ ~ok /\ Return("nofile")
        \/ ok /\ Broken("nofile")
        \/ ok /\ ~valid /\ Return("nofile")
        \/ /\ ok /\ valid /\ hits = <<>>
           /\ Step("sfs_dir", [w EXCEPT !.at = b.next, !.guard = Least(@ + 1, DirGuard)])
        \/ /\ ok /\ valid /\ hits # <<>> /\ ~LastPart
           /\ \/ (o.kind # "dir" \/ o.at = 0) /\ Return("nofile")
              \/ /\ o.kind = "dir" /\ o.at # 0
                 /\ Step("sfs_dir", [w EXCEPT !.at = o.at, !.guard = 0, !.comp = @ + 1])
        \/ /\ ok /\ valid /\ hits # <<>> /\ LastPart
           /\ \/ call.what = "list" /\ o.kind = "dir"
                 /\ Step("sfs_list", [w EXCEPT !.at = o.at, !.guard = 0])
              \/ call.what = "list" /\ o.kind # "dir" /\ Return("end")
              \/ call.what = "load" /\ o.kind # "file" /\ Return("nofile")
              \/ call.what = "load" /\ o.kind = "file"
                 /\ Step("sfs_extent", [w EXCEPT !.at = o.at, !.size = o.size, !.guard = 0])

\* Mutant of SfsList: each container's names take the place of the last one's.
SfsListLastOnly ==
  LET b == Block(w.at)
      ok == w.at # 0 /\ ~PastGuard
  IN /\ pc = "sfs_list"
     /\ \/ ~ok /\ Return("end")
        \/ ok /\ Broken("end")
        \/ ok /\ b.id # "objc" /\ Return("end")
        \/ /\ ok /\ b.id = "objc"
           /\ Step("sfs_list", [w EXCEPT !.at = b.next, !.guard = Least(@ + 1, DirGuard),
                                         !.shown = {o.name : o \in Range(b.objs)}])

\* sfs_list_directory does not compare the container's own number.
SfsList ==
  LET b == Block(w.at)
      ok == w.at # 0 /\ ~PastGuard
  IN /\ pc = "sfs_list"
     /\ \/ ~ok /\ Return("end")
        \/ ok /\ Broken("end")
        \/ ok /\ b.id # "objc" /\ Return("end")
        \/ /\ ok /\ b.id = "objc"
           /\ Step("sfs_list", [w EXCEPT !.at = b.next, !.guard = Least(@ + 1, DirGuard),
                                         !.shown = @ \cup {o.name : o \in Range(b.objs)}])

\* The loop head of sfs_read_file_contents: at is cur_key; the look-up begins
\* at the root of the tree, which hdr holds while it goes on.
SfsExtent ==
  /\ pc = "sfs_extent"
  /\ \/ (Whole \/ w.at = 0) /\ Return("end")
     \/ ~Whole /\ w.at # 0 /\ w.guard + 1 > FileGuard /\ Return("readerr")
     \/ /\ ~Whole /\ w.at # 0 /\ w.guard + 1 <= FileGuard
        /\ Step("sfs_node", [w EXCEPT !.guard = @ + 1, !.idx = 0,
                                      !.hdr = [id |-> "node", blk |-> w.buf.tree]])

\* Mutant of ChildOf: a key equal to a separator goes to the left.
ChildOfBelow(nodes, key) ==
  LET below == {i \in DOMAIN nodes : \A j \in 1 .. i : nodes[j].key < key}
  IN IF below = {} \/ nodes[Cardinality(below)].data = 0
     THEN nodes[1].data ELSE nodes[Cardinality(below)].data

\* The child sfs_lookup_extent descends into: the last before the first key
\* above the one it looks for, else the leftmost.
ChildOf(nodes, key) ==
  LET below == {i \in DOMAIN nodes : \A j \in 1 .. i : nodes[j].key <= key}
  IN IF below = {} \/ nodes[Cardinality(below)].data = 0
     THEN nodes[1].data ELSE nodes[Cardinality(below)].data

\* One node of the tree in sfs_lookup_extent; idx is the depth.
SfsNode ==
  LET b == Block(w.hdr.blk)
      ok == w.hdr.blk # 0 /\ w.idx < MaxDepth
      valid == b.id = "bndc" /\ b.nodes # <<>>
      hits == SelectSeq(b.nodes, LAMBDA e : e.key = w.at)
  IN /\ pc = "sfs_node"
     /\ \/ ~ok /\ Return("nofile")
        \/ ok /\ Broken("error")
        \/ ok /\ ~valid /\ Return("nofile")
        \/ ok /\ valid /\ b.leaf /\ hits = <<>> /\ Return("nofile")
        \/ /\ ok /\ valid /\ b.leaf /\ hits # <<>>
           /\ Step("sfs_data", [w EXCEPT !.idx = 0,
                       !.hdr = [id |-> "extent", blocks |-> hits[1].blocks, next |-> hits[1].next]])
        \/ /\ ok /\ valid /\ ~b.leaf
           /\ Step("sfs_node", [w EXCEPT !.hdr.blk = ChildOf(b.nodes, w.at), !.idx = @ + 1])

\* One block of an extent; blocks = 0 ends the file.
SfsData ==
  /\ pc = "sfs_data"
  /\ \/ w.hdr.blocks = 0 /\ Return("end")
     \/ /\ w.hdr.blocks > 0 /\ (w.idx = w.hdr.blocks \/ Whole)
        /\ Step("sfs_extent", [w EXCEPT !.at = w.hdr.next])
     \/ w.idx < w.hdr.blocks /\ ~Whole /\ Broken("error")
     \/ /\ w.idx < w.hdr.blocks /\ ~Whole
        /\ Step("sfs_data", [w EXCEPT !.out = Copied(w.at + w.idx, Unit), !.idx = @ + 1])

SfsNext == SfsBoot \/ SfsRoot \/ SfsRootObject \/ SfsDir \/ SfsList
           \/ SfsExtent \/ SfsNode \/ SfsData

=============================================================================

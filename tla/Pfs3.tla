-------------------------------- MODULE Pfs3 --------------------------------
(***************************************************************************)
(* amiga_pfs3.c: directories and files alike are chains of anodes, each a  *)
(* run of blocks, and an anode's number says through two levels of index   *)
(* blocks where it is stored.                                              *)
(***************************************************************************)
EXTENDS Reader

CONSTANTS Apb,         \* anodes_per_block
          Epi,         \* entries_per_ib
          RootAnode    \* ANODE_ROOTDIR, 5

ASSUME PfsAssumption == Apb \in Nat \ {0} /\ Epi \in Nat \ {0} /\ RootAnode \in Nat \ {0}

\* amiga_pfs3's look at block 0.
PfsBoot ==
  /\ pc = "pfs_boot"
  /\ \/ Broken("nofs")
     \/ Block(0).id # "pfsboot" /\ Return("nofs")
     \/ Block(0).id = "pfsboot" /\ Step("pfs_root", w)

\* pfs_open_volume and the start of pfs_walk_path.
PfsRoot ==
  LET b == Block(2)
  IN /\ pc = "pfs_root"
     /\ \/ Broken("nofs")
        \/ b.id # "pfsroot" /\ Return("nofs")
        \/ b.id = "pfsroot" /\ call.path = <<>> /\ call.what = "load" /\ Return("nofile")
        \/ /\ b.id = "pfsroot" /\ (call.path # <<>> \/ call.what = "list")
           /\ Step(IF call.path = <<>> THEN "pfs_list" ELSE "pfs_dir",
                   [w EXCEPT !.buf = b, !.at = RootAnode])

\* pfs_get_anode; Junk stands for E_READ_ERROR.
Anode(nr) ==
  LET ab == nr \div Apb
      ib == ab \div Epi
      ibBlk == IF ib < Len(w.buf.index) THEN w.buf.index[ib + 1] ELSE 0
      abBlk == IF Block(ibBlk).id = "ib" THEN Block(ibBlk).index[(ab % Epi) + 1] ELSE 0
      b == Block(abBlk)
  IN IF ibBlk # 0 /\ abBlk # 0 /\ b.id = "ab" THEN b.nodes[(nr % Apb) + 1] ELSE Junk

\* The head of the loop of pfs_dir_lookup.
PfsDir ==
  LET a == Anode(w.at)
      ok == w.at # 0 /\ w.guard < DirGuard
      empty == a.blk = 0 \/ a.blocks = 0
  IN /\ pc = "pfs_dir"
     /\ \/ ~ok /\ Return("nofile")
        \/ ok /\ Broken("nofile")
        \/ ok /\ (IF a = Junk THEN TRUE ELSE empty) /\ Return("nofile")
        \/ /\ ok /\ a # Junk /\ ~empty
           /\ Step("pfs_dirblock", [w EXCEPT !.hdr = a, !.idx = 0, !.guard = @ + 1])

\* One directory block, scanned by pfs_scan_dirblock.
PfsDirBlock ==
  LET b == Block(w.hdr.blk + w.idx)
      more == w.idx < w.hdr.blocks
      hits == SelectSeq(b.ents, LAMBDA d : d.name = Name)
      d == hits[1]
  IN /\ pc = "pfs_dirblock"
     /\ \/ ~more /\ Step("pfs_dir", [w EXCEPT !.at = w.hdr.next])
        \/ more /\ Broken("nofile")
        \/ more /\ b.id # "db" /\ Return("nofile")
        \/ more /\ b.id = "db" /\ hits = <<>> /\ Step("pfs_dirblock", [w EXCEPT !.idx = @ + 1])
        \/ /\ more /\ b.id = "db" /\ hits # <<>> /\ ~LastPart
           /\ \/ d.kind # "dir" /\ Return("nofile")
              \/ d.kind = "dir"
                 /\ Step("pfs_dir", [w EXCEPT !.at = d.anode, !.guard = 0, !.comp = @ + 1])
        \/ /\ more /\ b.id = "db" /\ hits # <<>> /\ LastPart
           /\ \/ call.what = "list" /\ d.kind = "dir"
                 /\ Step("pfs_list", [w EXCEPT !.at = d.anode, !.guard = 0])
              \/ call.what = "list" /\ d.kind # "dir" /\ Return("end")
              \/ call.what = "load" /\ d.kind # "file" /\ Return("nofile")
              \/ call.what = "load" /\ d.kind = "file"
                 /\ Step("pfs_file", [w EXCEPT !.at = d.anode, !.size = d.size, !.guard = 0])

\* pfs_list_dir: a block that is no directory block is passed over.
PfsList ==
  LET a == Anode(w.at)
      ok == w.at # 0 /\ w.guard < DirGuard
      empty == a.blk = 0 \/ a.blocks = 0
  IN /\ pc = "pfs_list"
     /\ \/ ~ok /\ Return("end")
        \/ ok /\ Broken("end")
        \/ ok /\ (IF a = Junk THEN TRUE ELSE empty) /\ Return("end")
        \/ /\ ok /\ a # Junk /\ ~empty
           /\ LET blks == {Block(a.blk + i) : i \in 0 .. a.blocks - 1}
                  ents == UNION {Range(b.ents) : b \in {c \in blks : c.id = "db"}}
              IN Step("pfs_list", [w EXCEPT !.at = a.next, !.guard = @ + 1,
                                            !.shown = @ \cup {d.name : d \in ents}])

\* The head of the loop of pfs_read_file.
PfsFile ==
  LET a == Anode(w.at)
      ok == ~Whole /\ w.at # 0
  IN /\ pc = "pfs_file"
     /\ \/ ~ok /\ Return("end")
        \/ ok /\ w.guard + 1 > FileGuard /\ Return("readerr")
        \/ /\ ok /\ w.guard + 1 <= FileGuard
           /\ \/ Broken("error")
              \/ a = Junk /\ Return("readerr")
              \/ a # Junk /\ a.blocks = 0 /\ Return("end")
              \/ a # Junk /\ a.blocks > 0
                 /\ Step("pfs_data", [w EXCEPT !.hdr = a, !.idx = 0, !.guard = @ + 1])

\* One block of the anode's run.
PfsData ==
  /\ pc = "pfs_data"
  /\ \/ /\ (w.idx = w.hdr.blocks \/ Whole)
        /\ Step("pfs_file", [w EXCEPT !.at = w.hdr.next])
     \/ w.idx < w.hdr.blocks /\ ~Whole /\ Broken("error")
     \/ /\ w.idx < w.hdr.blocks /\ ~Whole
        /\ Step("pfs_data", [w EXCEPT !.out = Copied(w.hdr.blk + w.idx, Unit), !.idx = @ + 1])

PfsNext == PfsBoot \/ PfsRoot \/ PfsDir \/ PfsDirBlock \/ PfsList \/ PfsFile \/ PfsData

=============================================================================

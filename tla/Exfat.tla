------------------------------- MODULE Exfat -------------------------------
(***************************************************************************)
(* fs_exfat.c: the root directory is a chain of clusters of slots, a file  *)
(* in it a set of consecutive slots (File, Stream Extension, File Names)   *)
(* that may go on in the next sector or cluster; files are chains in the   *)
(* FAT or contiguous.  A path is looked up by its last part.               *)
(*                                                                         *)
(* vol.fat and vol.heap are the sectors where the FAT and the clusters     *)
(* begin, vol.count is cluster_count, vol.root the root's first cluster.   *)
(***************************************************************************)
EXTENDS Reader

CONSTANTS Spc,      \* sectors_per_cluster
          Slots,    \* directory slots in a sector
          FatPer    \* FAT entries in a sector

ASSUME ExfatAssumption ==
  /\ Spc \in Nat \ {0} /\ Slots \in Nat \ {0} /\ FatPer \in Nat \ {0} /\ FatPer % Slots = 0

InHeap(c) == c >= 2 /\ c <= vol.count + 1

\* exfat_cluster_to_sector
Sector(c) == vol.heap + (c - 2) * Spc

\* exfat_fat_next: the FAT sector it reads into the caller's buffer, and the
\* entry; a number out of range gives the end of chain, 0xFFFFFFFF.
Eoc == vol.count + 2

FatSector(c) == Block(vol.fat + c \div FatPer)

FatNext(c) == IF InHeap(c) THEN FatSector(c).next[(c % FatPer) + 1] ELSE Eoc

\* A sector as slots.  In a FAT sector a slot is free space of the FAT, which
\* reads as the end of the directory, or an entry that is no File.
SlotsOf(b) ==
  CASE b.id = "dir" -> b.slots
    [] b.id = "fat" -> [k \in 1 .. Slots |->
                          IF b.next[(k - 1) * (FatPer \div Slots) + 1] = 0
                          THEN [t |-> "end"] ELSE [t |-> "skip"]]
    [] OTHER -> [k \in 1 .. Slots |-> [t |-> "skip"]]

\* exfat_open_volume
ExOpen ==
  /\ pc = "ex_boot"
  /\ \/ Broken("nofs")
     \/ ~ (Block(0).id = "exboot" /\ InHeap(vol.root)) /\ Return("nofs")
     \/ /\ Block(0).id = "exboot" /\ InHeap(vol.root)
        /\ \/ call.what = "load" /\ call.path = <<>> /\ Return("nofile")
           \/ /\ call.what = "list" \/ call.path # <<>>
              /\ Step("ex_cluster", [w EXCEPT !.at = vol.root])

\* The walk is over and visit() did not stop it.
WalkReturn == IF call.what = "list" THEN "end" ELSE "nofile"

\* The head of the loop of exfat_walk_dir.
ExCluster ==
  LET ok == InHeap(w.at) /\ w.guard < DirGuard
  IN /\ pc = "ex_cluster"
     /\ \/ ~ok /\ Return(WalkReturn)
        \/ ok /\ Step("ex_sector", [w EXCEPT !.guard = @ + 1, !.idx = 0])

\* A sector of the cluster into the scratch buffer; list ignores the error.
ExSector ==
  /\ pc = "ex_sector"
  /\ \/ Broken(IF call.what = "list" THEN "end" ELSE "error")
     \/ Step("ex_slot", [w EXCEPT !.buf = Block(Sector(w.at) + w.idx \div Slots)])

\* Where the slot loop goes after slot i.
After(i) == IF i + 1 = Spc * Slots THEN "ex_fat"
            ELSE IF (i + 1) % Slots = 0 THEN "ex_sector" ELSE "ex_slot"

\* One slot of the buffer; a File slot begins a set.
ExSlot ==
  LET s == SlotsOf(w.buf)[(w.idx % Slots) + 1]
  IN /\ pc = "ex_slot"
     /\ \/ s.t = "end" /\ Return(WalkReturn)
        \/ s.t # "end" /\ (IF s.t = "file" THEN s.n < 2 ELSE TRUE)
           /\ Step(After(w.idx), [w EXCEPT !.idx = @ + 1])
        \/ /\ s.t = "file" /\ s.n >= 2
           /\ Step("ex_set", [w EXCEPT !.hdr = [need |-> s.n, clu |-> w.at, pos |-> w.idx + 1,
                                                stream |-> [t |-> "none"], parts |-> <<>>]])

\* The set is dropped (ok = 0).
Drop == [w EXCEPT !.hdr = Junk, !.idx = @ + 1]

\* The set h with slot n added to it.
WithSlot(h, n) ==
  CASE n.t = "stream" /\ h.stream.t = "none" -> [h EXCEPT !.stream = n]
    [] n.t = "name" /\ h.stream.t # "none" /\ Len(h.parts) < h.stream.len ->
         [h EXCEPT !.parts = Append(@, n.part)]
    [] OTHER -> h

\* One secondary of the set, read ahead through a second buffer; but the FAT is
\* read into the first.
ExSet ==
  LET h == w.hdr
      over == h.pos = Spc * Slots
      clu == IF over THEN FatNext(h.clu) ELSE h.clu
      pos == IF over THEN 0 ELSE h.pos
      fat == IF over /\ InHeap(h.clu) THEN FatSector(h.clu) ELSE w.buf
      n == SlotsOf(Block(Sector(clu) + pos \div Slots))[(pos % Slots) + 1]
  IN /\ pc = "ex_set" /\ h.need > 0
     /\ \/ /\ failed' = TRUE /\ pc' = After(w.idx)
           /\ w' \in {Drop, [Drop EXCEPT !.buf = fat]}
           /\ UNCHANGED <<vol, call, ret>>
        \/ ~InHeap(clu) /\ Step(After(w.idx), [Drop EXCEPT !.buf = fat])
        \/ /\ InHeap(clu)
           /\ Step("ex_set", [w EXCEPT !.buf = fat,
                     !.hdr = [WithSlot(h, n) EXCEPT !.need = @ - 1, !.clu = clu, !.pos = pos + 1]])

\* visit(): exfat_visit_list prints, exfat_visit_find looks for the last part
\* of the path.
ExVisit ==
  LET h == w.hdr
      hit == h.stream.t # "none" /\ call.what = "load" /\ h.parts = Last(call.path)
      names == IF h.stream.t # "none" /\ call.what = "list" THEN {h.parts} ELSE {}
  IN /\ pc = "ex_set" /\ h.need = 0
     /\ \/ hit /\ h.stream.big /\ Return("readerr")
        \/ /\ hit /\ ~h.stream.big
           /\ Step("ex_data", [w EXCEPT !.hdr = h.stream, !.at = h.stream.first,
                                        !.size = h.stream.size, !.idx = 0, !.guard = 0])
        \/ ~hit /\ Step(After(w.idx), [Drop EXCEPT !.shown = @ \cup names])

\* The end of a cluster of the directory: a failed read is an end of chain.
ExFat ==
  /\ pc = "ex_fat"
  /\ \/ Broken(WalkReturn)
     \/ FatNext(w.at) < 2 /\ Return(WalkReturn)
     \/ FatNext(w.at) >= 2 /\ Step("ex_cluster", [w EXCEPT !.at = FatNext(w.at)])

\* One sector of exfat_read_contents, at the head of its loops.
ExData ==
  LET ok == ~Whole /\ (w.idx > 0 \/ (InHeap(w.at) /\ w.guard < FileGuard))
  IN /\ pc = "ex_data" /\ (w.idx < Spc \/ Whole)
     /\ \/ ~ok /\ Return("end")
        \/ ok /\ Broken("error")
        \/ /\ ok
           /\ Step("ex_data", [w EXCEPT !.out = Copied(Sector(w.at) + w.idx, Unit), !.idx = @ + 1,
                                        !.guard = IF w.idx = 0 THEN @ + 1 ELSE @])

\* On to the next cluster of the file, in line or along the FAT.
ExDataNext ==
  /\ pc = "ex_data" /\ w.idx = Spc /\ ~Whole
  /\ \/ w.hdr.nofat /\ Step("ex_data", [w EXCEPT !.at = @ + 1, !.idx = 0])
     \/ ~w.hdr.nofat /\ Broken("end")
     \/ ~w.hdr.nofat /\ Step("ex_data", [w EXCEPT !.at = FatNext(w.at), !.idx = 0])

ExNext == ExOpen \/ ExCluster \/ ExSector \/ ExSlot \/ ExSet \/ ExVisit \/ ExFat
          \/ ExData \/ ExDataNext

=============================================================================

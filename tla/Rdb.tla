-------------------------------- MODULE Rdb --------------------------------
(***************************************************************************)
(* The Amiga Rigid Disk Block of the hard disk and the two walks of its    *)
(* partition chain:                                                        *)
(*                                                                         *)
(*   - install_partition_packages, once at start-up, makes a child package *)
(*     of the disk for each PartitionBlock (partition_pkg.c);              *)
(*   - amiga_rdb, at each load from "hd:N", walks the chain again to find  *)
(*     partition N and reads its file system (amiga_rdb.c).                *)
(*                                                                         *)
(* The chain is data on a disk: a block may be unreadable, lack its magic, *)
(* fail its checksum, hold an impossible geometry, or link back.           *)
(***************************************************************************)
EXTENDS Integers, Sequences

CONSTANTS
  Disks,         \* the disks to consider: [first, blocks] records
  MaxPartitions  \* MAX_PARTITIONS, the same guard in both walks

ASSUME MaxPartitionsAssumption == MaxPartitions \in Nat

VARIABLES
  disk,      \* the disk: rdb_PartitionList and the blocks it may name
  ipc,       \* the installer: "walk" or "done"
  iblk,      \* the installer's part_blknum
  children,  \* the disk's child packages in the order of hd->children
  lpc,       \* amiga_rdb: "idle", "walk", "found", "failed"
  lsel,      \* amiga_rdb's selected_partition
  lblk,      \* amiga_rdb's chain_blkno
  lidx       \* amiga_rdb's partition_idx

rdbVars == <<disk, ipc, iblk, children, lpc, lsel, lblk, lidx>>
lookupVars == <<lpc, lsel, lblk, lidx>>

EndOfChain == 0     \* pb_Next = 0 or 0xFFFFFFFF

(* A disk has a block behind every block number that its chain names. *)
Block(links) ==
  [readable : BOOLEAN, magic : BOOLEAN, checksum : BOOLEAN, geometry : BOOLEAN,
   dostype : STRING, pri : Int, next : links \union {EndOfChain}]

ASSUME DisksAssumption ==
  \A d \in Disks :
    /\ EndOfChain \notin DOMAIN d.blocks
    /\ d.first \in DOMAIN d.blocks \union {EndOfChain}
    /\ \A b \in DOMAIN d.blocks : d.blocks[b] \in Block(DOMAIN d.blocks)

RdbInit ==
  /\ disk \in Disks
  /\ ipc = "walk" /\ iblk = disk.first /\ children = << >>
  /\ lpc = "idle" /\ lsel = 0 /\ lblk = EndOfChain /\ lidx = 0

-----------------------------------------------------------------------------
(* install_partition_packages *)

InstallMore == ipc = "walk" /\ iblk # EndOfChain /\ Len(children) < MaxPartitions

(* The installer stops at the first block it does not like. *)
Installable(b) == b.readable /\ b.magic /\ b.checksum /\ b.geometry

(* new_package puts the newest child at the head of the list. *)
InstallPartition ==
  LET b == disk.blocks[iblk] IN
  /\ InstallMore /\ Installable(b)
  /\ children' = <<[reg |-> Len(children), block |-> iblk,
                    dostype |-> b.dostype, pri |-> b.pri]>> \o children
  /\ iblk' = b.next
  /\ UNCHANGED <<disk, ipc, lookupVars>>

InstallStops ==
  /\ ipc = "walk"
  /\ ~ (InstallMore /\ Installable(disk.blocks[iblk]))
  /\ ipc' = "done"
  /\ UNCHANGED <<disk, iblk, children, lookupVars>>

-----------------------------------------------------------------------------
(* amiga_rdb with FS_LOAD *)

(* Mutant: the partitions are counted from one. *)
LookupFromOne(n) ==
  /\ lsel' = n
  /\ lblk' = disk.first /\ lidx' = 1
  /\ lpc' = IF disk.first = EndOfChain THEN "failed" ELSE "walk"

(* An RDB without a partition list is E_NO_FILESYS at once. *)
Lookup(n) ==
  /\ lsel' = n
  /\ lblk' = disk.first /\ lidx' = 0
  /\ lpc' = IF disk.first = EndOfChain THEN "failed" ELSE "walk"

LookupMore == lpc = "walk" /\ lblk # EndOfChain /\ lidx < MaxPartitions

(* The checksum of a PartitionBlock is not verified here, and a block with  *)
(* a bad geometry is passed over, keeping its number.                       *)
LookupStep ==
  LET b == disk.blocks[lblk] IN
  /\ LookupMore
  /\ \/ /\ ~ (b.readable /\ b.magic)
        /\ lpc' = "failed"
        /\ UNCHANGED <<lblk, lidx>>
     \/ /\ b.readable /\ b.magic /\ b.geometry /\ lidx = lsel
        /\ lpc' = "found"
        /\ UNCHANGED <<lblk, lidx>>
     \/ /\ b.readable /\ b.magic /\ ~ (b.geometry /\ lidx = lsel)
        /\ lblk' = b.next /\ lidx' = lidx + 1
        /\ UNCHANGED lpc
  /\ UNCHANGED <<disk, ipc, iblk, children, lsel>>

(* The chain ended: "no partition N", or R_END with nothing loaded. *)
LookupEnds ==
  /\ lpc = "walk" /\ ~ LookupMore
  /\ lpc' = "failed"
  /\ UNCHANGED <<disk, ipc, iblk, children, lsel, lblk, lidx>>

(* amiga_rdb returns; its locals are gone. *)
LookupReturns ==
  /\ lpc' = "idle" /\ lsel' = 0 /\ lblk' = EndOfChain /\ lidx' = 0
  /\ UNCHANGED <<disk, ipc, iblk, children>>

-----------------------------------------------------------------------------
(* Both walks number the partitions alike: what a load from "hd:N" reads is *)
(* the partition whose package has reg = N, and a package of that number    *)
(* is always found again.                                                   *)
NumberingAgrees ==
  ipc = "done" =>
    \A i \in DOMAIN children :
      lpc \in {"found", "failed"} /\ lsel = children[i].reg
        => lpc = "found" /\ lblk = children[i].block
=============================================================================

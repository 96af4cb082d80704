------------------------------- MODULE Files -------------------------------
(***************************************************************************)
(* file_system (fs.c) with the readers of the firmware's own file systems, *)
(* in the order of g_filesys: each is asked until one knows the volume;    *)
(* and the partition packages, which read the disk without a file system.  *)
(***************************************************************************)
EXTENDS Ffs, Sfs, Pfs3, Exfat, Partition

VARIABLE turn   \* the reader that is asked, an index of g_filesys

vars == <<readerVars, partVars, turn>>

\* The part of g_filesys this module models, by the readers' first steps.
Order == <<"ffs_boot", "sfs_boot", "pfs_boot", "ex_boot">>

Finished == pc = "done" /\ (ret # "nofs" \/ turn = Len(Order))

Init == ReaderInit /\ PartInit /\ turn = Len(Order)

\* load or list-files reaches file_system, which reads a block itself first.
Call ==
  /\ Finished
  /\ \E c \in vol.calls : Enter(c, "start")
  /\ turn' = 1
  /\ UNCHANGED partVars

Start ==
  /\ pc = "start"
  /\ Broken("error") \/ Step(Order[1], w)
  /\ UNCHANGED <<partVars, turn>>

\* E_NO_FILESYS: on to the next reader.
AskNext ==
  /\ pc = "done" /\ ret = "nofs" /\ turn < Len(Order)
  /\ turn' = turn + 1
  /\ pc' = Order[turn + 1] /\ ret' = "none" /\ w' = Idle
  /\ UNCHANGED <<vol, call, failed, partVars>>

Reading == (FfsNext \/ SfsNext \/ PfsNext \/ ExNext) /\ UNCHANGED <<partVars, turn>>

Methods == PartNext /\ UNCHANGED turn

Next == Call \/ Start \/ AskNext \/ Reading \/ Methods

\* The processor runs the reader until it returns; the user need not call.
Fairness == WF_vars(Start \/ AskNext \/ Reading)

Spec == Init /\ [][Next]_vars /\ Fairness

-----------------------------------------------------------------------------
\* An exFAT entry set that begins before the last slot of its sector and goes
\* on in the next cluster.
SetCrosses ==
  \E c \in 2 .. vol.count + 1, s \in 0 .. Spc - 1 :
    LET b == Block(Sector(c) + s)
    IN b.id = "dir" /\ \E k \in 1 .. Slots - 1 :
         b.slots[k].t = "file" /\ s * Slots + k + b.slots[k].n > Spc * Slots

\* The volumes whose layout the readers know: for FFS an even number of blocks
\* and less than 4 GiB, for exFAT no set as above.  README.md says what becomes
\* of the others.
KnownLayout ==
  CASE vol.fs = "ffs" -> vol.hint => vol.n % 2 = 0 /\ vol.n * Unit < Wrap
    [] vol.fs = "exfat" -> ~SetCrosses
    [] OTHER -> TRUE

\* fs_exfat knows the root directory only: a file is looked up there by the
\* last part of its path, and a listing is one of the root.
Stored(p) == IF vol.fs = "exfat" THEN <<Last(p)>> ELSE p
Listed(p) == IF vol.fs = "exfat" THEN <<>> ELSE p

\* exfat_visit_find takes a directory for a file; see ExfatLoadsOnlyFiles.
TakenForFile(p) == vol.fs = "exfat" /\ Stored(p) \in DOMAIN vol.dirs

\* What a load returns is what the writer of the volume stored there: with
\* success the whole file, in order, and "no file" only when there is none,
\* or when the disk failed.  Two things exFAT does are left out: a load ends
\* with success and part of the file when the disk fails a read of the FAT
\* (exfat_read_contents), and the load of a directory succeeds.
LoadsWhatIsStored ==
  Finished /\ ret # "none" /\ call.what = "load" /\ call.path # <<>> /\ vol.sound /\ KnownLayout =>
    LET p == Stored(call.path)
        there == p \in DOMAIN vol.files
    IN /\ ret = "end" => \/ there /\ (w.out = vol.files[p] \/ (vol.fs = "exfat" /\ failed))
                         \/ TakenForFile(call.path)
       /\ ret # "end" => failed \/ (ret = "nofile" /\ ~there)

\* A listing that no disk error cut short shows the names of the directory,
\* all of them and nothing else; on exFAT the names of the root, whatever
\* directory was asked for (ExfatListsPath).
ListsWhatIsStored ==
  Finished /\ call.what = "list" /\ vol.sound /\ KnownLayout /\ ~failed =>
    LET p == Listed(call.path)
    IN /\ p \in DOMAIN vol.dirs => ret = "end" /\ w.shown = vol.dirs[p]
       /\ p \notin DOMAIN vol.dirs => w.shown = {}

\* A load or listing ends whatever the chains of the volume look like, as the
\* "cycle guard" of each walk promises; FFS has no guards and ends on a sound
\* volume.
LoadEnds == (vol.fs = "ffs" => vol.sound) => (pc = "start" ~> Finished)

-----------------------------------------------------------------------------
\* What comments of the readers say and the code does not do; see README.md.

\* amiga_ffs: when open_volume does not find the root where it looks, "fall
\* back to using the probed block directly".
ProbedRootUsed ==
  vol.fs = "ffs" /\ vol.sound /\ ~failed /\ pc \in {"ffs_lookup", "ffs_found", "ffs_data", "ffs_list"}
    => w.buf.id = "header" /\ w.buf.sec = "root"

\* exfat_walk_dir: "The outer `scratch` buffer is mid-use (we hold `ent` inside
\* it).  Switch to a second scratch sector and come back."
BufferKept == pc = "ex_slot" => w.buf.id # "fat"

\* exfat_read_contents: "copying data_len bytes into `out`".
SuccessIsWhole == Finished /\ ret = "end" /\ call.what = "load" /\ vol.sound => Whole

\* fs_exfat.c: "This reader implements enough of the spec to find and load a named
\* file from the root directory": a load that succeeds found a file.
\* exfat_visit_find does not look at FE_FILEATTRS.
ExfatLoadsOnlyFiles ==
  Finished /\ ret = "end" /\ call.what = "load" /\ vol.fs = "exfat" /\ vol.sound /\ KnownLayout
    => Stored(call.path) \in DOMAIN vol.files

\* f_disklbl_list_files: "list-files (args alen --)" lists what its argument names.
\* fs_exfat prints the root ("We ignore sub-directory walking for now").
ExfatListsPath ==
  Finished /\ call.what = "list" /\ vol.fs = "exfat" /\ vol.sound /\ KnownLayout /\ ~failed
    => w.shown = IF call.path \in DOMAIN vol.dirs THEN vol.dirs[call.path] ELSE {}

=============================================================================

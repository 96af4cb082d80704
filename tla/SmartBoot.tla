----------------------------- MODULE SmartBoot -----------------------------
(***************************************************************************)
(* From the ok prompt to the operating system: smart-boot (smart_boot.c)   *)
(* picks partitions and files by boot-os-priority and issues boot commands;*)
(* boot, load and go (admin.c, machine_hooks.c) open the device, set       *)
(* /chosen, read the file to the load address, recognise it and jump.      *)
(*                                                                         *)
(* Everything runs on one thread.  What makes it hard is the state that    *)
(* outlives a failed command: the load buffer, state_valid, /chosen, and   *)
(* get_config's one static buffer, through which smart-boot reads its list *)
(* while the commands it issues may call get_config themselves.            *)
(***************************************************************************)
EXTENDS Rdb

CONSTANTS
  PriorityLists,  \* values of boot-os-priority: sequences of tokens
  BootDevices,    \* the devices boot-device names, in order
  TypedCommands,  \* the load and boot commands the user may type
  MaxCommands     \* bound: commands typed at the prompt

VARIABLES
  hd, cd,         \* a hard disk, a CD drive is attached (and its alias set)
  priority,       \* boot-os-priority in /options
  strbuf,         \* what get_config's static buffer holds
  locked,         \* security-mode is command and no password was given
  pc,             \* "ok", "smart", "devices", "lookup", "load", "walking",
                  \* "bootargs", "go", "os"
  pass, cur,      \* f_smart_boot: hard disk 1, CD 2, plain boot 3; list position
  queue,          \* the commands the per-family loader has still to try
  command,        \* the command being executed
  devices,        \* do_load: the devices still to be tried
  image,          \* what lies at e->load
  stateValid,     \* e->state_valid
  chosen,         \* /chosen bootpath and bootargs
  typed,          \* how many commands were typed at the prompt
  tried           \* history: the commands this smart-boot has issued

envVars == <<hd, cd, priority, locked>>
smartVars == <<pass, cur, queue, tried>>
loadVars == <<image, stateValid, chosen>>
vars == <<rdbVars, envVars, strbuf, pc, smartVars, command, devices, loadVars, typed>>

None == "none"
Junk == "junk"    \* a token that names no family, as any device or file name

-----------------------------------------------------------------------------
(* Tables *)

classify_dostype(d) ==
  CASE d \in {"DOS", "SFS", "PFS", "AFS"} -> "amigaos"
    [] d = "MOR"                          -> "morphos"
    [] d \in {"LNX", "EXT"}               -> "linux"
    [] OTHER                              -> None

resolve_family_token(t) ==
  CASE t \in {"amigaos", "amigaos4", "amigaos3", "amiga"} -> "amigaos"
    [] t \in {"linux", "morphos"}                         -> t
    [] OTHER                                              -> None

(* A command: load the file, set bootargs unless None, go unless it was a   *)
(* plain "load".  Slot is the N of "hd:N".                                  *)
Command(dev, slot, file, args) ==
  [dev |-> dev, slot |-> slot, file |-> file, args |-> args, go |-> TRUE]

NoCommand == [dev |-> None, slot |-> 0, file |-> None, args |-> None, go |-> FALSE]
PlainBoot == Command(None, 0, None, None)

Candidates(family) ==
  {i \in DOMAIN children : /\ classify_dostype(children[i].dostype) = family
                           /\ children[i].pri >= 0}

(* The first of the children with the highest BootPri: "pri > best_pri". *)
pick_partition_for_family(family) ==
  CHOOSE i \in Candidates(family) :
    \A j \in Candidates(family) :
      \/ children[i].pri > children[j].pri
      \/ children[i].pri = children[j].pri /\ i <= j

loader_linux(part) ==
  [f \in 1 .. 4 |-> Command("hd", part.reg,
     <<"/boot/vmlinux", "/vmlinux", "/boot/vmlinuz", "/yaboot">>[f], None)]

HdLoader(family, part) ==
  CASE family = "amigaos" -> <<Command("hd", 0, "amigaboot.of", None)>>
    [] family = "linux"   -> loader_linux(part)
    [] family = "morphos" -> << >>

(* Mutant: the AmigaOS CD loader leaves the file to boot-file. *)
CdLoaderNoFile(family) ==
  CASE family = "amigaos" -> <<Command("cd", 0, None, None)>>
    [] family = "linux"   -> <<Command("cd", 0, "boot/vmlinux", None)>>
    [] family = "morphos" -> <<Command("cd", 0, "/boot.img", "rds=0")>>

CdLoader(family) ==
  CASE family = "amigaos" -> <<Command("cd", 0, "amigaboot.of", None)>>
    [] family = "linux"   ->
         << Command("cd", 0, "vmlinuz-chrp.initrd", "console=ttyS0,9600"),
            Command("cd", 0, "boot/vmlinux", None),
            Command("cd", 0, "vmlinux", None),
            Command("cd", 0, "yaboot", None) >>
    [] family = "morphos" -> <<Command("cd", 0, "/boot.img", "rds=0")>>

ASSUME PriorityListsAssumption == PriorityLists \subseteq Seq(STRING)

(* bootargs are set by smart-boot's loaders alone, never by a typed command. *)
ASSUME TypedCommandsAssumption ==
  TypedCommands \subseteq
    [dev : STRING, slot : Int, file : STRING, args : {None}, go : BOOLEAN]

-----------------------------------------------------------------------------
(* from and whole are kept only for an image that can run: the command of   *)
(* the load that put it there, and whether it read the file to its end.     *)
NoImage == [from |-> NoCommand, whole |-> FALSE, kind |-> "data"]

Init ==
  /\ RdbInit
  /\ hd \in BOOLEAN /\ cd \in BOOLEAN
  /\ ~hd => disk.first = EndOfChain
  /\ priority \in PriorityLists /\ locked \in BOOLEAN
  /\ strbuf = << >>
  /\ pc = "ok" /\ pass = 1 /\ cur = 1 /\ queue = << >> /\ tried = << >>
  /\ command = NoCommand /\ devices = << >>
  /\ image = NoImage /\ stateValid = FALSE
  /\ chosen = [bootpath |-> None, bootargs |-> None]
  /\ typed = 0

(* install_partition_packages runs before the prompt. *)
Install ==
  /\ InstallPartition \/ InstallStops
  /\ UNCHANGED <<envVars, strbuf, pc, smartVars, command, devices, loadVars, typed>>

AtPrompt == pc = "ok" /\ ipc = "done" /\ typed < MaxCommands

-----------------------------------------------------------------------------
(* f_smart_boot *)

FallbackList == <<"amigaos", "morphos", "linux">>

(* prio is a pointer: into strbuf, or to the built-in fallback list when    *)
(* the option is empty, which no get_config overwrites.                     *)
PriorityNow == IF priority = << >> THEN FallbackList ELSE strbuf

smart_boot ==
  /\ AtPrompt
  /\ typed' = typed + 1
  /\ strbuf' = priority
  /\ pc' = "smart" /\ cur' = 1 /\ tried' = << >>
  /\ pass' = IF hd THEN 1 ELSE IF cd THEN 2 ELSE 3
  /\ queue' = IF pass' = 3 THEN <<PlainBoot>> ELSE << >>
  /\ UNCHANGED <<rdbVars, envVars, command, devices, loadVars>>

(* Mutant: an unknown token is not stepped over. *)
NextCurStuck == IF resolve_family_token(PriorityNow[cur]) = None THEN cur ELSE cur + 1

NextCur == cur + 1

(* One token of the list: the commands of its family's loader. *)
SmartToken ==
  /\ pc = "smart" /\ queue = << >> /\ pass \in {1, 2} /\ cur <= Len(PriorityNow)
  /\ LET family == resolve_family_token(PriorityNow[cur]) IN
     queue' = CASE family = None -> << >>
                [] family # None /\ pass = 1 ->
                     IF Candidates(family) = {} THEN << >>
                     ELSE HdLoader(family, children[pick_partition_for_family(family)])
                [] family # None /\ pass = 2 -> CdLoader(family)
  /\ cur' = NextCur
  /\ UNCHANGED <<rdbVars, envVars, strbuf, pc, pass, tried, command, devices,
                 loadVars, typed>>

(* The list is exhausted: the CD, then a plain boot. *)
SmartNextPass ==
  /\ pc = "smart" /\ queue = << >> /\ pass \in {1, 2} /\ cur > Len(PriorityNow)
  /\ pass' = IF pass = 1 /\ cd THEN 2 ELSE 3
  /\ cur' = 1
  /\ queue' = IF pass' = 3 THEN <<PlainBoot>> ELSE << >>
  /\ UNCHANGED <<rdbVars, envVars, strbuf, pc, tried, command, devices, loadVars, typed>>

(* smart-boot's last resort failed too: back to the prompt. *)
SmartReturns ==
  /\ pc = "smart" /\ queue = << >> /\ pass = 3
  /\ pc' = "ok"
  /\ UNCHANGED <<rdbVars, envVars, strbuf, smartVars, command, devices, loadVars, typed>>

-----------------------------------------------------------------------------
(* f_load and do_load *)

(* tried is empty unless smart-boot issued the command. *)
Caller(commands) == IF commands = << >> THEN "ok" ELSE "smart"

Attached(dev) == (dev = "hd" /\ hd) \/ (dev = "cd" /\ cd)

(* A device that is neither a path nor an alias is taken for arguments of   *)
(* the default boot-device; no arguments mean boot-file.  Both come from    *)
(* get_config and overwrite its buffer.                                     *)
do_load(c) ==
  LET given == Attached(c.dev) IN
  /\ devices' = IF given THEN <<[dev |-> c.dev, slot |-> c.slot]>> ELSE BootDevices
  /\ command' = [c EXCEPT !.file = IF c.file = None THEN "boot-file"
                                   ELSE IF given THEN c.file ELSE Junk]
  /\ strbuf' = IF given /\ c.file # None THEN strbuf ELSE <<Junk>>
  /\ pc' = "devices"

(* "load" asks for the password when it has arguments. *)
f_load(c) ==
  \/ do_load(c)
  \/ /\ locked /\ c.dev # None
     /\ pc' = Caller(tried')
     /\ UNCHANGED <<strbuf, command, devices>>

SmartCommand ==
  /\ pc = "smart" /\ queue # << >>
  /\ tried' = Append(tried, Head(queue))
  /\ queue' = Tail(queue)
  /\ f_load(Head(queue))
  /\ UNCHANGED <<rdbVars, envVars, pass, cur, loadVars, typed>>

(* "load" or "boot" typed at the prompt. *)
TypeLoad(c) ==
  /\ AtPrompt
  /\ typed' = typed + 1
  /\ tried' = << >>
  /\ f_load(c)
  /\ UNCHANGED <<rdbVars, envVars, pass, cur, queue, loadVars>>

TypeGo ==
  /\ AtPrompt
  /\ typed' = typed + 1
  /\ tried' = << >>
  /\ pc' = "go" /\ command' = [NoCommand EXCEPT !.go = TRUE]
  /\ UNCHANGED <<rdbVars, envVars, strbuf, pass, cur, queue, devices, loadVars>>

-----------------------------------------------------------------------------
(* try_load, for one device after the other *)

(* This device failed: try the next, or give the command up. *)
TryNext ==
  /\ devices' = Tail(devices)
  /\ pc' = IF Len(devices) > 1 THEN "devices" ELSE Caller(tried)

(* open-dev returned 0: nothing has been touched yet. *)
OpenFails ==
  /\ pc = "devices"
  /\ TryNext
  /\ UNCHANGED <<rdbVars, envVars, strbuf, smartVars, command, loadVars, typed>>

(* Mutant: the earlier image stays valid. *)
OpensKeepingState ==
  LET d == Head(devices) IN
  /\ pc = "devices" /\ Attached(d.dev)
  /\ chosen' = [bootpath |-> d.dev, bootargs |-> command.file]
  /\ IF d.dev = "hd" THEN Lookup(d.slot) /\ pc' = "lookup"
                     ELSE UNCHANGED lookupVars /\ pc' = "load"
  /\ UNCHANGED <<disk, ipc, iblk, children, envVars, strbuf, smartVars, command,
                 devices, image, stateValid, typed>>

(* The device is open: /chosen names it, and whatever was loaded before is  *)
(* no longer valid.  A hard disk first looks for the partition.             *)
Opens ==
  LET d == Head(devices) IN
  /\ pc = "devices" /\ Attached(d.dev)
  /\ chosen' = [bootpath |-> d.dev, bootargs |-> command.file]
  /\ stateValid' = FALSE
  /\ IF d.dev = "hd" THEN Lookup(d.slot) /\ pc' = "lookup"
                     ELSE UNCHANGED lookupVars /\ pc' = "load"
  /\ UNCHANGED <<disk, ipc, iblk, children, envVars, strbuf, smartVars, command,
                 devices, image, typed>>

WalkChain ==
  /\ pc = "lookup" /\ lpc = "walk"
  /\ LookupStep \/ LookupEnds
  /\ UNCHANGED <<envVars, strbuf, pc, smartVars, command, devices, loadVars, typed>>

PartitionFound ==
  /\ pc = "lookup" /\ lpc = "found"
  /\ pc' = "load"
  /\ LookupReturns
  /\ UNCHANGED <<envVars, strbuf, smartVars, command, devices, loadVars, typed>>

NoPartition ==
  /\ pc = "lookup" /\ lpc = "failed"
  /\ TryNext
  /\ LookupReturns
  /\ UNCHANGED <<envVars, strbuf, smartVars, command, loadVars, typed>>

(* The file is missing or empty, or a read fails half way through it. *)
LoadFails ==
  /\ pc = "load"
  /\ \/ UNCHANGED image
     \/ image' = [NoImage EXCEPT !.kind = "exec"]
  /\ TryNext
  /\ UNCHANGED <<rdbVars, envVars, strbuf, smartVars, command, stateValid, chosen, typed>>

(* A chain of the file system links back to itself: lookup_in_hash and      *)
(* read_file_contents have no guard and never return.                       *)
WalkNeverEnds ==
  /\ pc = "load"
  /\ pc' = "walking"
  /\ UNCHANGED <<rdbVars, envVars, strbuf, smartVars, command, devices, loadVars, typed>>

(* The reader reported success, with the whole file at the load address or  *)
(* with its head: a chain that ends early or a FAT that cannot be read ends *)
(* the file, and nobody compares lengths.  init-program recognises an       *)
(* executable, which may still be rejected when its segments are placed.    *)
Loads(kind, whole) ==
  /\ pc = "load"
  /\ image' = IF kind = "exec"
                THEN [from |-> [command EXCEPT !.dev = Head(devices).dev],
                      whole |-> whole, kind |-> kind]
                ELSE [NoImage EXCEPT !.kind = kind]
  /\ stateValid' = (kind # "data")
  /\ IF kind = "data"
       THEN TryNext
       ELSE /\ devices' = << >>
            /\ pc' = IF ~command.go THEN "ok"
                     ELSE IF command.args # None THEN "bootargs" ELSE "go"
  /\ UNCHANGED <<rdbVars, envVars, strbuf, smartVars, command, chosen, typed>>

(* loader_linux_cd_chrp and loader_morphos_cd: set-bootargs between the two. *)
SetBootargs ==
  /\ pc = "bootargs"
  /\ chosen' = [chosen EXCEPT !.bootargs = command.args]
  /\ pc' = "go"
  /\ UNCHANGED <<rdbVars, envVars, strbuf, smartVars, command, devices, image,
                 stateValid, typed>>

(* f_go and machine_go; the jump does not return. *)
Go ==
  /\ pc = "go"
  /\ pc' = IF stateValid /\ image.kind = "exec" THEN "os" ELSE Caller(tried)
  /\ UNCHANGED <<rdbVars, envVars, strbuf, smartVars, command, devices, loadVars, typed>>

-----------------------------------------------------------------------------
TryLoad ==
  \/ OpenFails \/ Opens
  \/ WalkChain \/ PartitionFound \/ NoPartition
  \/ LoadFails \/ WalkNeverEnds
  \/ \E k \in {"exec", "badelf", "data"}, w \in BOOLEAN : Loads(k, w)

Firmware ==
  \/ Install
  \/ SmartToken \/ SmartNextPass \/ SmartReturns \/ SmartCommand
  \/ TryLoad
  \/ SetBootargs \/ Go

User == smart_boot \/ TypeGo \/ \E c \in TypedCommands : TypeLoad(c)

Next == Firmware \/ User

Spec == Init /\ [][Next]_vars
(* The firmware's own steps are taken; nothing makes the user type. *)
FairSpec == Spec /\ WF_vars(Firmware)

-----------------------------------------------------------------------------
(* Properties *)

(* The first i of the sequences, one after the other, for every i. *)
Upto(ss) ==
  LET upto[i \in 0 .. Len(ss)] == IF i = 0 THEN << >> ELSE upto[i - 1] \o ss[i]
  IN upto
Concat(ss) == Upto(ss)[Len(ss)]

List == IF priority = << >> THEN FallbackList ELSE priority

(* The partition that counts for a family: not opted out, of the highest    *)
(* BootPri, and the last such on the disk.                                  *)
Eligible(family) ==
  {c \in {children[i] : i \in DOMAIN children} :
     classify_dostype(c.dostype) = family /\ c.pri >= 0}
Best(family) ==
  CHOOSE c \in Eligible(family) :
    \A d \in Eligible(family) : d.pri < c.pri \/ (d.pri = c.pri /\ d.reg <= c.reg)

(* What each name of the list calls for; an unknown name, nothing. *)
HdParts == [i \in 1 .. Len(List) |->
  LET family == resolve_family_token(List[i]) IN
  IF family = None \/ Eligible(family) = {} THEN << >> ELSE HdLoader(family, Best(family))]
CdParts == [i \in 1 .. Len(List) |->
  LET family == resolve_family_token(List[i]) IN
  IF family = None THEN << >> ELSE CdLoader(family)]
HdPlan == IF hd THEN Concat(HdParts) ELSE << >>
CdPlan == IF cd THEN Concat(CdParts) ELSE << >>
Plan == HdPlan \o CdPlan \o <<PlainBoot>>

(* smart-boot issues exactly the commands boot-os-priority calls for, in    *)
(* its order, the hard disk before the CD and a plain boot last, and gives  *)
(* up only when all of them have failed: although the list is read through  *)
(* get_config's static buffer and each failed command runs through load,    *)
(* which reads options of its own.  The Linux commands for the hard disk    *)
(* and the CD's are part of the plan, as they are of smart_boot.c, whatever *)
(* the documentation says: see OnlyAmigaosFromHd and NoCdBoot.              *)
SmartBootFollowsPriority ==
  /\ Len(tried) <= Len(Plan) /\ tried = SubSeq(Plan, 1, Len(tried))
  /\ pc = "ok" /\ tried # << >> => tried = Plan

(* Control only passes to what a load that reported success put there and   *)
(* init-program recognised, with /chosen naming the device it came from and *)
(* its own arguments, whatever sequence of failed loads, boots and go came  *)
(* before.  That the file was read to its end is not part of it: see        *)
(* JumpsToWholeImage.                                                       *)
JumpIsSound ==
  pc = "os" =>
    /\ image.from # NoCommand /\ image.kind = "exec"
    /\ chosen.bootpath = image.from.dev
    /\ chosen.bootargs = IF image.from.args = None THEN image.from.file
                                                   ELSE image.from.args

(* Every command comes to an end, with the system running or back at the    *)
(* prompt, with a partition chain that links back to itself and a list with *)
(* unknown names too, unless it is caught in a cyclic chain of the file     *)
(* system itself: smart-boot's lists, the devices of load and the chain of  *)
(* partition blocks add no endless loop of their own.                       *)
CommandsEnd ==
  /\ <>(ipc = "done")
  /\ pc # "ok" ~> pc \in {"ok", "os", "walking"}

-----------------------------------------------------------------------------
(* What the repository says and the code does not do. *)

(* "picks the highest-priority bootable partition" (README.md) and "We      *)
(* treat any negative value as opt-out" (pick_partition_for_family): from   *)
(* the hard disk smart-boot loads from a partition of the family it is      *)
(* trying that has not opted out.                                           *)
LoadsFromPickedPartition ==
  tried # << >> /\ pass = 1 /\ pc = "lookup" /\ lpc = "found" =>
    /\ disk.blocks[lblk].pri >= 0
    /\ classify_dostype(disk.blocks[lblk].dostype) = resolve_family_token(List[cur - 1])

(* "Linux and MorphOS loaders print a "not implemented yet" message and let *)
(* smart-boot continue to the next family" (BOOT.md): from the hard disk    *)
(* smart-boot issues AmigaOS's command alone.  loader_linux issues four.    *)
OnlyAmigaosFromHd ==
  \A i \in DOMAIN tried : tried[i].dev = "hd" => tried[i].file = "amigaboot.of"

(* "CD-ROM / USB / network / floppy boot: not implemented" (README.md):     *)
(* smart-boot issues no command for the CD.  f_smart_boot has a pass of     *)
(* its own for it.                                                          *)
NoCdBoot == \A i \in DOMAIN tried : tried[i].dev # "cd"

(* "copying data_len bytes" (exfat_read_contents) and "Validates the image" *)
(* (elf32_ppc_be_load): what is jumped to was read to its end.  A reader    *)
(* that stops early reports success and no length is compared.              *)
JumpsToWholeImage == pc = "os" => image.whole

(* "an error code on failure (smart-boot will continue to the next family   *)
(* in the priority list)" (smart_boot.c): every command ends.  One that is  *)
(* caught in an unguarded file-system walk does not.                        *)
CommandsAlwaysEnd == pc # "ok" ~> pc \in {"ok", "os"}
=============================================================================

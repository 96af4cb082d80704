------------------------------- MODULE IdeDma -------------------------------
(***************************************************************************)
(* read-blocks of an ATA disk: f_dma_read_blocks splits the request into   *)
(* PRD-sized chunks, dma_read_one runs one bus-master transfer per chunk,  *)
(* and what DMA did not read is read by the PIO loop of atadisk.c.         *)
(*                                                                         *)
(* The firmware polls registers while the disk and the bus master work on  *)
(* their own: they move data, finish, fail or stay silent between any two  *)
(* register accesses.  A spin loop with a bound is a wait that may time    *)
(* out at any moment.  A block is represented by its LBA, and buffer slot  *)
(* i should end up with LBA block + i.                                     *)
(***************************************************************************)
EXTENDS Integers

CONSTANTS
  Blocks,     \* first LBAs a caller may ask for
  MaxCount,   \* bound: blocks per request
  PrdMax,     \* blocks in 64 KiB, the reach of one PRD entry
  DrqInDma    \* the disk drops BSY and shows DRQ while it moves DMA data

ASSUME BlocksAssumption == Blocks \subseteq Nat
ASSUME MaxCountAssumption == MaxCount \in Nat
ASSUME PrdMaxAssumption == PrdMax \in Nat \ {0}
ASSUME DrqInDmaAssumption == DrqInDma \in BOOLEAN

VARIABLES
  hasDma,         \* LBA disk on a controller with a bus-master base
  cmd,            \* the disk: "none", "dma", "pio" (running), "data" (PIO data ready)
  lba, left,      \* the disk: next LBA, and blocks left of the command
  err,            \* the disk: ERR in the status register
  start,          \* bus master: BMI_CMD_START
  intr, bmErr,    \* bus master: BMI_STS_INTR, BMI_STS_ERROR
  prdAt, prdLen,  \* s_prd: buffer slot and encoded length (0 means PrdMax)
  moved,          \* bus master: blocks moved under the current PRD
  mem,            \* the caller's buffer
  pc,             \* the firmware
  block, count, done, chunk,
  result          \* what the last call returned

disk  == <<hasDma, cmd, lba, left, err>>
bmi   == <<start, intr, bmErr, prdAt, prdLen, moved>>
local == <<block, count, done, chunk>>
vars  == <<disk, bmi, mem, pc, local, result>>

Junk == -1                \* a buffer slot nothing was read into
NoResult == -1
E_ABORT == -2
Slots == 0 .. MaxCount - 1
Bsy == cmd = "pio" \/ (cmd = "dma" /\ ~DrqInDma)

Init ==
  /\ hasDma \in BOOLEAN
  /\ cmd = "none" /\ lba = 0 /\ left = 0 /\ err = FALSE
  /\ start = FALSE /\ intr = FALSE /\ bmErr = FALSE
  /\ prdAt = 0 /\ prdLen = 0 /\ moved = 0
  /\ mem = [i \in Slots |-> Junk]
  /\ pc = "idle"
  /\ block = 0 /\ count = 0 /\ done = 0 /\ chunk = 0
  /\ result = NoResult

-----------------------------------------------------------------------------
(* The disk and the bus master (hardware). *)

PrdBlocks == IF prdLen = 0 THEN PrdMax ELSE prdLen

(* The bus master stores the next block of a READ DMA command in memory.    *)
DmaMove ==
  /\ cmd = "dma" /\ start /\ left > 0 /\ moved < PrdBlocks
  /\ mem' = [mem EXCEPT ![prdAt + moved] = lba]
  /\ moved' = moved + 1
  /\ lba' = lba + 1 /\ left' = left - 1
  /\ UNCHANGED <<hasDma, cmd, err, start, intr, bmErr, prdAt, prdLen, pc, local, result>>

(* All blocks moved: the disk raises its interrupt. *)
DmaFinish ==
  /\ cmd = "dma" /\ left = 0
  /\ cmd' = "none" /\ intr' = TRUE
  /\ UNCHANGED <<hasDma, lba, left, err, start, bmErr, prdAt, prdLen, moved, mem, pc, local, result>>

(* The disk gives a command up, and raises its interrupt as well. *)
DiskFails ==
  /\ cmd \in {"dma", "pio"}
  /\ cmd' = "none" /\ err' = TRUE /\ intr' = TRUE
  /\ UNCHANGED <<hasDma, lba, left, start, bmErr, prdAt, prdLen, moved, mem, pc, local, result>>

(* A PCI error stops the bus master; the disk is left waiting. *)
BusError ==
  /\ cmd = "dma" /\ start /\ left > 0
  /\ bmErr' = TRUE
  /\ UNCHANGED <<disk, start, intr, prdAt, prdLen, moved, mem, pc, local, result>>

(* A PIO READ has its sector ready. *)
PioReady ==
  /\ cmd = "pio"
  /\ cmd' = "data" /\ intr' = TRUE
  /\ UNCHANGED <<hasDma, lba, left, err, start, bmErr, prdAt, prdLen, moved, mem, pc, local, result>>

(* The sector has been read, and what follows it, if anything: the disk     *)
(* drops DRQ.  Nothing says that it does.                                   *)
DrqDrops ==
  /\ cmd = "data" /\ left = 0
  /\ cmd' = "none"
  /\ UNCHANGED <<hasDma, lba, left, err, bmi, mem, pc, local, result>>

-----------------------------------------------------------------------------
(* f_dma_read_blocks *)

Return(r) ==
  /\ pc' = "idle" /\ result' = r

(* A request for n blocks from LBA b into a fresh buffer.  A disk without   *)
(* LBA, or a controller without a bus-master base, goes to PIO at once.     *)
Call(b, n) ==
  /\ pc = "idle"
  /\ mem' = [i \in Slots |-> Junk]
  /\ block' = b /\ count' = n /\ done' = 0 /\ chunk' = 0
  /\ IF n = 0 THEN Return(0)
              ELSE pc' = (IF hasDma THEN "prep" ELSE "pioSelect") /\ UNCHANGED result
  /\ UNCHANGED <<disk, bmi>>

Lesser(a, b) == IF a < b THEN a ELSE b

-----------------------------------------------------------------------------
(* dma_read_one *)

(* The chunk, its PRD entry (65536 bytes are encoded as 0), STS cleared,    *)
(* the direction set and the bus master not yet started.                    *)
DmaPrep ==
  /\ pc = "prep"
  /\ chunk' = Lesser(count - done, PrdMax)
  /\ prdAt' = done /\ prdLen' = chunk' % PrdMax /\ moved' = 0
  /\ intr' = FALSE /\ bmErr' = FALSE /\ start' = FALSE
  /\ pc' = "wait"
  /\ UNCHANGED <<disk, mem, block, count, done, result>>

(* wait_status(DRDY, 0), before and after drive select: satisfied once BSY  *)
(* is clear, ERR or not.                                                    *)
DmaWait ==
  /\ pc \in {"wait", "wait2"}
  /\ ~Bsy
  /\ pc' = IF pc = "wait" THEN "wait2" ELSE "issue"
  /\ UNCHANGED <<disk, bmi, mem, local, result>>

DmaWaitTimeout ==
  /\ pc \in {"wait", "wait2"}
  /\ Bsy
  /\ pc' = "pioSelect"
  /\ UNCHANGED <<disk, bmi, mem, local, result>>

(* The taskfile and READ_DMA.  A command clears ERR; one written while the  *)
(* disk still works on another replaces it.                                 *)
DmaIssue ==
  /\ pc = "issue"
  /\ cmd' = "dma" /\ lba' = block + done /\ left' = chunk /\ err' = FALSE
  /\ pc' = "start"
  /\ UNCHANGED <<hasDma, bmi, mem, local, result>>

DmaStart ==
  /\ pc = "start"
  /\ start' = TRUE
  /\ pc' = "poll"
  /\ UNCHANGED <<disk, intr, bmErr, prdAt, prdLen, moved, mem, local, result>>

(* The poll of BMI_STS: ERROR or INTR ends it, and so does the bound. *)
DmaPoll ==
  /\ pc = "poll"
  /\ \/ bmErr /\ pc' = "stopBad"
     \/ ~bmErr /\ intr /\ pc' = "stopOk"
  /\ UNCHANGED <<disk, bmi, mem, local, result>>

(* Mutant: the poll loop has no bound. *)
DmaPollForever == FALSE /\ UNCHANGED vars

DmaPollTimeout ==
  /\ pc = "poll" /\ ~bmErr /\ ~intr
  /\ pc' = "stopBad"
  /\ UNCHANGED <<disk, bmi, mem, local, result>>

(* Mutant: a failed transfer returns without stopping the bus master. *)
DmaStopOnlyOnSuccess ==
  /\ pc \in {"stopOk", "stopBad"}
  /\ start' = (start /\ pc = "stopBad") /\ intr' = FALSE /\ bmErr' = FALSE
  /\ pc' = IF pc = "stopOk" THEN "check" ELSE "pioSelect"
  /\ UNCHANGED <<disk, prdAt, prdLen, moved, mem, local, result>>

(* CMD = 0 and STS cleared, whatever the outcome. *)
DmaStop ==
  /\ pc \in {"stopOk", "stopBad"}
  /\ start' = FALSE /\ intr' = FALSE /\ bmErr' = FALSE
  /\ pc' = IF pc = "stopOk" THEN "check" ELSE "pioSelect"
  /\ UNCHANGED <<disk, prdAt, prdLen, moved, mem, local, result>>

(* Mutant: the status register is not read after the transfer. *)
DmaCheckNothing ==
  /\ pc = "check"
  /\ done' = done + chunk
  /\ IF done' < count THEN pc' = "prep" /\ UNCHANGED result
                      ELSE Return(done')
  /\ UNCHANGED <<disk, bmi, mem, block, count, chunk>>

(* The disk's status, and the loop of f_dma_read_blocks: a failure leaves   *)
(* the rest to PIO.                                                         *)
DmaCheck ==
  /\ pc = "check"
  /\ IF Bsy \/ err
       THEN pc' = "pioSelect" /\ UNCHANGED <<done, result>>
       ELSE /\ done' = done + chunk
            /\ IF done' < count THEN pc' = "prep" /\ UNCHANGED result
                                ELSE Return(done')
  /\ UNCHANGED <<disk, bmi, mem, block, count, chunk>>

-----------------------------------------------------------------------------
(* f_ata_disk_read_blocks on the rest of the request, one block at a time.  *)

Abort == Return(E_ABORT)

(* Drive select and wait_ready(S_READY), which gives up on ERR. *)
PioSelect ==
  /\ pc = "pioSelect" /\ ~Bsy
  /\ IF err THEN Abort
            ELSE pc' = "pioIssue" /\ UNCHANGED result
  /\ UNCHANGED <<disk, bmi, mem, local>>

PioSelectTimeout ==
  /\ pc = "pioSelect" /\ Bsy
  /\ Abort
  /\ UNCHANGED <<disk, bmi, mem, local>>

PioIssue ==
  /\ pc = "pioIssue"
  /\ cmd' = "pio" /\ lba' = block + done /\ left' = 1 /\ err' = FALSE
  /\ pc' = "pioWait"
  /\ UNCHANGED <<hasDma, bmi, mem, local, result>>

(* wait_ready(S_DREADY), then the sector. *)
PioData ==
  /\ pc = "pioWait" /\ cmd = "data"
  /\ mem' = [mem EXCEPT ![done] = lba]
  /\ left' = 0
  /\ done' = done + 1
  /\ pc' = "pioSkip"
  /\ UNCHANGED <<hasDma, cmd, lba, err, bmi, block, count, chunk, result>>

(* "skip ECC bytes, if any": while the status shows DRQ a word is read and  *)
(* dropped, and nothing bounds the loop.                                    *)
PioSkip ==
  /\ pc = "pioSkip" /\ cmd = "data"
  /\ UNCHANGED vars

(* DRQ is clear: the next block, or the end of the request. *)
PioSkipped ==
  /\ pc = "pioSkip" /\ cmd # "data"
  /\ IF done < count THEN pc' = "pioSelect" /\ UNCHANGED result
                     ELSE Return(done)
  /\ UNCHANGED <<disk, bmi, mem, local>>

PioDataFails ==
  /\ pc = "pioWait" /\ cmd # "data"        \* ERR, or the wait timed out
  /\ Abort
  /\ UNCHANGED <<disk, bmi, mem, local>>

-----------------------------------------------------------------------------
Hardware == DmaMove \/ DmaFinish \/ DiskFails \/ BusError \/ PioReady \/ DrqDrops

Firmware ==
  \/ DmaPrep \/ DmaWait \/ DmaWaitTimeout \/ DmaIssue \/ DmaStart
  \/ DmaPoll \/ DmaPollTimeout \/ DmaStop \/ DmaCheck
  \/ PioSelect \/ PioSelectTimeout \/ PioIssue
  \/ PioData \/ PioSkip \/ PioSkipped \/ PioDataFails

Next ==
  \/ Hardware \/ Firmware
  \/ \E b \in Blocks, n \in 0 .. MaxCount : Call(b, n)

Spec == Init /\ [][Next]_vars

(* The CPU keeps executing; nothing is assumed of the disk. *)
FairSpec == Spec /\ WF_vars(Firmware)

-----------------------------------------------------------------------------
\* The type of every variable; a chunk of f_dma_read_blocks never exceeds what
\* one PRD entry reaches, and its encoded length fits the 16-bit count.
TypeOK ==
  /\ hasDma \in BOOLEAN
  /\ cmd \in {"none", "dma", "pio", "data"}
  /\ lba \in Nat /\ left \in 0 .. MaxCount
  /\ err \in BOOLEAN /\ start \in BOOLEAN /\ intr \in BOOLEAN /\ bmErr \in BOOLEAN
  /\ prdAt \in 0 .. MaxCount /\ prdLen \in 0 .. PrdMax - 1 /\ moved \in 0 .. PrdMax
  /\ mem \in [Slots -> Nat \union {Junk}]
  /\ pc \in {"idle", "prep", "wait", "wait2", "issue", "start", "poll", "stopOk",
             "stopBad", "check", "pioSelect", "pioIssue", "pioWait", "pioSkip"}
  /\ block \in Nat /\ count \in 0 .. MaxCount /\ done \in 0 .. count
  /\ chunk \in 0 .. PrdMax
  /\ result \in 0 .. MaxCount \union {NoResult, E_ABORT}

Filled(n) == \A i \in 0 .. n - 1 : mem[i] = block + i

(* A call that reports success has read everything that was asked for, each *)
(* block from its own LBA into its own slot, however the request was split  *)
(* into chunks and wherever DMA handed over to PIO.  Blocks counted as done *)
(* on the way are in place too.                                             *)
ReadCorrect ==
  /\ pc = "idle" /\ result \notin {NoResult, E_ABORT} => result = count /\ Filled(count)
  /\ Filled(done)

(* The bus master runs only while dma_read_one polls it, and a step of the  *)
(* hardware then touches only the chunk being read: no DMA into a buffer    *)
(* after the call has returned, into blocks already read, or past the end.  *)
DmaStaysInChunk ==
  [][DmaMove => /\ pc \in {"poll", "stopOk", "stopBad"}
                /\ prdAt + moved \in done .. done + chunk - 1]_vars

(* The firmware skips what the disk has to say after a sector. *)
SkippingEcc == pc = "pioSkip" /\ cmd = "data"

(* Every call returns, even if the disk never answers, fails or answers     *)
(* late, provided it does not keep DRQ set for ever after a sector: the     *)
(* waits are bounded, only the loop that skips ECC bytes is not.            *)
CallReturns == []<>~SkippingEcc => (pc # "idle" ~> pc = "idle")

-----------------------------------------------------------------------------
(* What the repository says and the code does not do. *)

(* "DRQ should be clear too -- the bus master drained the data": a chunk is *)
(* counted as read only when the disk has finished its command.             *)
AcceptedChunkDrained ==
  [][pc = "check" /\ pc' \in {"prep", "idle"} => cmd = "none"]_vars

(* "Bound the spin so a stuck transfer can't hang the firmware": every call *)
(* returns whatever the disk does, also with DRQ stuck after a PIO sector.  *)
CallAlwaysReturns == pc # "idle" ~> pc = "idle"

(* "falls back to PIO on any DMA failure": no call is aborted before PIO    *)
(* has sent a command of its own, for an error DMA left in the status.      *)
AbortOnlyAfterPio ==
  [][result' = E_ABORT /\ pc = "pioSelect" /\ hasDma => ~err]_vars
=============================================================================

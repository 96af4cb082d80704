# Verification of the Pegasos II firmware

TLA+ models of the parts of the Pegasos II firmware that are hard to test: what
runs under interrupts, what talks to hardware that answers late or never, what
does arithmetic at the edge of 32 bits, and what keeps state over failed
commands. TLC checks every module on small instances, and TLAPS proves the
results that matter most for all of them.

The models follow the code under `src/machdep/pegasos2/` and the parts of the
vendored SmartFirmware core (`src/upstream/smartfirmware/bin/of/`) that it
drives. `PROJECT.json` holds the details: every modelled definition with the
source lines it stands for (`map`), the runs, the hazards, and for every checked
property a mutation of the code under which TLC finds it violated (`mutants`).

- [The system](#the-system)
- [Modules and the code](#modules-and-the-code)
- [Runs](#runs)
- [Fairness](#fairness)
- [Proofs](#proofs)
- [Where the code and its text disagree](#where-the-code-and-its-text-disagree)
- [What is not modelled](#what-is-not-modelled)
- [Plan](#plan)
- [Running the checks](#running-the-checks)

## The system

The firmware starts in flash at the reset vector, brings up DRAM, exception
vectors, timer and interrupts in assembler and C without any OS (Phase 1), then
enters SmartFirmware, an Open Firmware implementation: a Forth interpreter, a
device tree and drivers. From its `ok` prompt, or from `smart-boot` at start-up,
it loads an operating system from disk or CD, and stays resident as the OS's
client interface.

One CPU runs everything. There are no threads, and still several actors: the
mainline, the interrupt handlers, the devices (UART, disk and bus master, time
base, decrementer), the user at the console, the power switch, and, after
hand-off, the OS that calls back.

| Component | State | Operations | Meets the others through |
|---|---|---|---|
| Reset and Phase 1 (`reset.S`, `phase1.c`, `exceptions.S`, `timer.c`) | MSR, vectors at 0, `_dec_reload`, `_ms_tick_count` | the steps from reset to `main`, the 0x500 and 0x900 vectors, `reset-all` | opens the interrupt gates everything later depends on |
| External interrupts (`extint.c`) | `g_ei_handlers`, CPU mask, i8259 and GPP masks | `ei_init`, `ei_install`, `ei_dispatch` | vector 0x500; the UART handler |
| Serial console input (`extint.c`, `uart16550.c`, `failsafe_read`) | UART FIFO, i8259 IRR/ISR, `g_rx_ring`, head, tail | `uart_rx_handler`, `extint_uart_pop`, `failsafe_read` | shares ring and UART between handler and mainline |
| Configuration variables (`nvram.c`, `table.c`, CMOS in `machdep.c`) | `/options`, `g_nvram_image`, CMOS bytes | set, set-defaults, store, load | CMOS survives a power cut; `get_config` feeds `smart-boot` |
| IDE reads (`ide_dma.c`, `atadisk.c`) | disk status, bus-master registers, PRD, buffer | `read-blocks`: DMA chunks, PIO fallback | polled hardware; below every load |
| PCI enumeration (`pci_walker.c`) | three allocators, bus counter, bridge registers | the depth-first walk | run in Phase 1; the device tree reports it |
| DRAM probe (`machine_initialize`) | memory, candidate address | the downward probe | sizes the allocator and `/memory` |
| Busy wait (`u_sleep`) | time base, locals | `u_sleep` | every driver, and the countdown |
| Memory claims (`alloc.c`, `memory.c`, `rtc_word.c`, `client.c`, `cpu-ppc.c`) | the free list, the "available" property, Forth memory left | `install_memory`, claim, release | begins with what the probe found; the OS calls it through the client interface |
| Start-up (`main.c`) | the time-out | the countdown, the boot command | sleeps with `u_sleep` |
| File systems (`amiga_ffs.c`, `amiga_sfs.c`, `amiga_pfs3.c`, `fs_exfat.c`, `fs.c`) | the reader's locals and its one buffer | `load` and `list-files` | read blocks through the partition; each is asked in turn |
| Partition instances (`partition_pkg.c`) | the cursor | `open`, `close`, `seek`, `read` | read the disk's blocks for the OS |
| RDB partitions (`partition_pkg.c`, `amiga_rdb.c`) | chain on disk, child packages | the start-up walk and the walk of each load | numbered alike or the wrong partition is read |
| smart-boot, boot, load, go (`smart_boot.c`, `admin.c`, `disklbl.c`, `machine_hooks.c`) | `boot-os-priority` and its static buffer, load buffer, `state_valid`, `/chosen` | the four commands | issue commands to each other through the interpreter |
| ELF loader and hand-off (`boot_kernel.c`, `boot_kernel.S`, `machine_go`) | load buffer, memory, `high_end`, r1 | two passes over the headers, the jump | writes over the memory it reads from |
| Client interface (`ci_entry.c`, `client.c`) | `g_last_ihandle`, Forth stack, MSR[EE], property lists | one call of the OS | the OS chooses calls, order and MSR |

The behaviours that are hard, and the properties they ask for:

- **interrupts between any two instructions**: the ring is shared without a
  lock; the edge-triggered i8259 forgets an edge that is acknowledged at the
  wrong moment; every gate between UART and CPU must open after what it leads to
  is ready (`RingIsQueue`, `NoLostEdge`, `InterruptsServed`);
- **hardware that answers late, wrongly or never**: a DMA transfer must not go on
  after the poll for it gave up, and no wait that has a bound may be endless
  (`DmaStaysInChunk`, `CallReturns`);
- **loss of power and warm reset**: between two bytes of a store, or with
  interrupts enabled (`NeverLoadsTornImage`, `ResetAllReboots`);
- **32-bit edges**: sums of addresses, products of times, bridge limits that
  cover a granule, the last candidate of the probe (`FlashUntouched`,
  `SleptLongEnough`, `WindowsRoute`, `TopIsExact`); where the code compares wrapped
  sums a disagreement below says so (`DisjointAlways`, `SleepsAtLeast`);
- **long sequences of legal calls**: claims and releases that split and join
  blocks until one address is in two of them, or in none (`ClaimsDisjoint`,
  `ServesMemory`);
- **memory that runs out** in the middle of a call that has already changed
  something (`AvailableNotHeld`);
- **state that outlives a failure**: a load that fails half way and a `go` after
  it, a service that fails with arguments on the stack (`JumpIsSound`,
  `CallLeavesNoTrace`);
- **data from a disk that may be damaged**: chains that link back, headers that
  lie, reads that fail half way along a file (`CommandsEnd`, `LoadEnds`,
  `LoadsWhatIsStored`, `RejectedLeavesMemory`, `NumberingAgrees`).

`PROJECT.json` lists 40 such hazards, each at its line.

## Modules and the code

### Serial console input: `UartConsole`, `RxQueue`

`UartConsole` interleaves three actors at the grain of single loads and stores:
the wire (`KeyArrives`), the interrupt handler (`TakeInterrupt`, `HandlerAck`,
`HandlerDrain`, `HandlerDrained`, `HandlerEoi`) and the mainline
(`failsafe_read` as `ReadCall`, `PopCheck`, `PopLoad`, `PopAdvance`, `PollLsr`,
`PollRbr`, `PollRbrEmpty`). A mainline step needs the handler to be idle, since
handlers run with MSR[EE]=0; the handler may run between any two mainline steps.
Bytes are their arrival numbers, so loss, copies and reordering are visible.
`RxQueue` is the bounded FIFO queue the ring promises to be, and `RingIsQueue`
is its specification with `RingSize - 1` places and the ring's contents between
tail and head as the refinement mapping.

### Configuration variables: `Nvram`, `MCNvram`

`/options`, the image in RAM and the CMOS bytes. The image is a sequence of
entries that `store_nvram` really encodes (header with magic, size and 16-bit
checksum, entries, NUL) and that `load_nvram` really decodes; writing goes byte
by byte with a power failure possible before each. The `malloc` failure at boot,
after which the small static buffer is used, is a choice of the boot action.

### IDE disk reads: `IdeDma`

`f_dma_read_blocks`, `dma_read_one` and the PIO loop of `atadisk.c` as one step
per register access that matters, against disk and bus master as actors
(`DmaMove`, `DmaFinish`, `DiskFails`, `BusError`, `PioReady`, `DrqDrops`). A
bounded spin loop is a wait that may time out at any time. The loop that skips ECC
bytes after a PIO sector (atadisk.c:929) has no bound: `PioSkip` goes round it for as
long as the disk shows DRQ. A block is its LBA.

### Reset and Phase 1: `Phase1`

One step per store that opens or closes a gate on the path from an interrupt
source to its handler, in the order of `reset.S` and `phase1_c_main`, with
interrupts between any two. Initial values of DRAM are arbitrary at power-on. A
warm reset keeps MSR, the gates and memory, and `ZeroBss` clears `.bss` under
them, as the code does.

### PCI enumeration: `PciWalk`, `MCPciWalk`

The device tree is the environment's choice, so any order of `PlaceBar`,
`NextFunction`, `EnterBridge` and `LeaveBridge` is the walk of some tree. The
three bump allocators, the bus counter, command-register bits and the
register values of every bridge are state. `Fits` restricts the trees to those
whose demands the arenas can hold; the code does not check it (see below).

### ELF loader and hand-off: `ElfLoad`, `MCElfLoad`

Both passes of `elf32_ppc_be_load` over an image that lies in the same memory it
is placed into, then `machine_go`'s stack and the jump. The second pass reads
the headers again from that memory. Sums are taken modulo `W`, as the code takes
them modulo 2^32. A unit of memory is what one program header occupies.

### Start-up: `DramProbe`, `Delay`, `FreeList`, `Memory`, `MemoryService`, `Startup`

`Startup` composes what happens between `machine_initialize` and the running OS,
in the order of the code.

`DramProbe` runs the downward probe with its writes, comparisons and restores on
boards whose addresses behind the end of DRAM read as ones or alias lower cells.

`FreeList` has `alloc_fixed`, `alloc_aligned` and `free_block` of `alloc.c` as
operators on a sequence of blocks, with the sums reduced at `M` as the code's
unsigned cells are, and whether `malloc` has room for another block as an
argument. `Memory` puts `/memory` on top: `install_memory` makes one block of
what the probe found and claims the `malloc` pool out of it; a claim or release
changes the list and then publishes it as the "available" property, in Forth
memory that is never given back, so that it can run out between the two. A client may
claim any address and size: none of `claim`, `f_memory_claim` and `alloc_fixed` looks
at them, and where the end of a fixed claim wraps at 2^32 `alloc_fixed` compares
wrapped sums (alloc.c:463) and may grant it. `wraps` counts such claims; calls are
followed up to the first of them (`MaxWraps`), and the properties of the claims speak of
the time before it (`NoneWrapped`). Releases are of ranges that are held, or were
released before; alignments are powers of two, since the code makes masks of them. The
release of the client interface goes to the MMU package instead, whose list has
64 slots and is never joined. `MemoryService` says what all this promises: a set
of free addresses, no list; `ServesMemory` is its specification with `Free(list)`
for that set, up to the first claim that wraps.

`Delay` is `u_sleep`: the time base ticks between the reads of its loop, which
an interrupt may hold up, and both it and the product wrap at `W`. In `Startup`
the drivers call it with what their devices ask for and the countdown of
`main.c` with 10 ms a turn.

### Client interface: `ClientInterface`

One call of the OS from `ci_handler` down to `client_interface` and back:
MSR save and restore, the NULL-ihandle and `nextprop` workarounds, argument and
result cells on the Forth stack, and every path that returns -1. `open`, `close`,
`call-method`, `setprop` and `nextprop` have their effects; any other service may fail
or leave any number of cells on the stack.

### Booting: `Rdb`, `SmartBoot`, `MCSmartBoot`

`Rdb` has the two walks over the partition chain, each block a step, with their
different treatment of damaged blocks. `SmartBoot` extends it with the prompt,
the three passes of `f_smart_boot`, the queue of commands a family loader tries,
`do_load` over devices, `disk-label` down to a lookup in the chain, the load
itself, recognition of the image, `go` and the jump. What a file system finds is
nondeterministic there, and the subject of the next group: a load may fail before, in
the middle of, or after the file, succeed with all of it or with its head only, since a
chain that ends early or a FAT that cannot be read ends the file and nobody compares
lengths, or never return, caught in a cyclic chain of an FFS volume (`WalkNeverEnds`).
A disk with an MBR beside its RDB is outside: `g_filesys` asks `dos_partition` first, and
what it makes of the path is not `amiga_rdb`'s numbering.

### File systems and partitions: `Reader`, `Ffs`, `Sfs`, `Pfs3`, `Exfat`, `Partition`, `Files`, `MCFiles`

`Reader` holds what the readers share: the volume, the request, the locals of
the reader that runs and the one buffer it reads blocks into. A step is one call
of `filesys_read_bytes` and what the code does with the block, and every such
read may fail. `Ffs` finds the root by the published size or the table of likely
places and walks hash chains and extension blocks; `Sfs` walks object containers
and looks every extent up in the B+-tree; `Pfs3` resolves anodes through two levels
of index blocks; `Exfat` walks the root directory slot by slot, with entry sets that go
on in the next sector or cluster, and reads files in line or along the FAT.
`Partition` is an open instance of a partition package. `Files` is
`file_system`, which asks the readers in the order of `g_filesys`. Blocks are records
with the fields the readers look at; an identifier or checksum that does not
match is a block of another kind.

`MCFiles` writes volumes as their formatter would, in the layouts that make a
difference, and the same volumes with one pointer changed to anything. Each has files and
a directory with a file of its own, and is asked for files, directories and missing
names. `fs_exfat` knows the root directory only, looks a path up there by its last part,
loads a directory like a file and lists the root whatever the path; the two properties
say so, and `ExfatLoadsOnlyFiles` and `ExfatListsPath` below say what one would expect. For FFS, `FfsLaid`
says of any volume that it is such a one.

## Runs

Twelve runs, each a question of its own. Ten pass; two state what the
repository says of itself and are refuted by what the code does.

| Run | Question | Properties |
|---|---|---|
| `uart` | Is a byte ever lost, copied or stuck between wire and console? | `EveryByteAccounted`, `NoLostEdge`, `RingIsQueue`, `EveryByteRead` |
| `nvram` | Do `/options`, image and CMOS stay consistent through sets, resets and power cuts? | `ImageCanonical`, `OptionsMatchNvram`, `NeverLoadsTornImage` |
| `nvram_survives_reboot` | Do settings survive a reboot? **Refuted** | `SettingsSurviveReboot` |
| `ide` | Is what `read-blocks` returns what is on the disk, and does every bounded wait end? | `ReadCorrect`, `DmaStaysInChunk`, `CallReturns` |
| `phase1` | Is anything enabled before what serves it, and does the boot end? | `NoInterruptLost`, `InterruptsServed`, `BootCompletes`, `MainlineNotStarved` |
| `phase1_warm` | Does `reset-all` come back to the prompt? **Refuted** | `ResetAllReboots` |
| `pci` | Does every address and bus reach exactly one device? | `BarsDisjoint`, `WindowsRoute`, `BusesRoute` |
| `elf` | Whatever a file says, is it rejected harmlessly or placed exactly? | `RejectedLeavesMemory`, `ImagePlaced`, `FlashUntouched`, `HandoffSound` |
| `startup` | Is the memory an OS claims its own and really there, and does the machine always get to the prompt or the OS, not too early? | `TopIsExact`, `MemoryRestored`, `SleptLongEnough`, `ClaimsDisjoint`, `ClaimsHaveDram`, `AvailableNotHeld`, `CountdownLasts`, `StartupEnds`, `ServesMemory` |
| `ci` | Can an OS call for ever and trust the results? | `CallLeavesNoTrace`, `EnumerationComplete` |
| `smart_boot` | Does `smart-boot` do what its list says, run only what was loaded last, with its own `/chosen`, and end? | `NumberingAgrees`, `SmartBootFollowsPriority`, `JumpIsSound`, `CommandsEnd` |
| `files` | Is what a load, a listing or a read returns what was stored, and does every walk end? | `LoadsWhatIsStored`, `ListsWhatIsStored`, `ReadsPartition`, `LoadEnds` |

What the passing runs show:

- **uart**: the handler acknowledges before it drains and sends the EOI after,
  so a byte that arrives anywhere in between leaves a request latched. A full
  ring drops the new byte and keeps the old ones. Handler and direct poll compete for
  the FIFO without losing or copying a byte. Under fair scheduling every byte is
  read or counted as dropped.
- **nvram**: after any sequence of sets and resets each name is at most once in
  the image, never with its default, and below `NVRAM_MAX`; `/options` agrees
  with the image except where the last set was refused; a store cut by a power
  failure is never loaded as a mixture.
- **ide**: every split of a request into chunks, with every failure at every
  point and PIO taking over there. A call that reports success has read
  everything into its slot; the bus master never writes after it was stopped or
  outside the chunk; a silent disk does not hang the firmware. Only a disk that keeps DRQ
  set for ever after a PIO sector does (`CallAlwaysReturns` below).
- **phase1**: from arbitrary power-on memory no interrupt finds a gap; the boot
  ends; neither the level-triggered cause nor the decrementer starves the mainline.
- **pci**: for every tree with up to three BARs and three bridges, nested or
  side by side, no two BARs overlap and every bridge forwards exactly its
  subtree, in spite of granules larger than the BARs.
- **elf**: any of 91 headers in each of two slots (below, on, behind the buffer,
  beyond DRAM, up to and into the flash, wrapping), complete and short files,
  bad ELF headers. A rejected file has written nothing; an accepted one never
  reaches the flash.
- **startup**: the probe reports exactly what is installed where nothing answers
  behind its end, and puts every cell back even where it aliases. Whatever is
  claimed and released, with room for the list's blocks or for the property
  missing at any point, up to the first claim that is granted although its end wraps at
  2^32, no address has two owners, none is lost to the list, what
  the OS is shown as available is nobody's, and what it holds has DRAM behind it.
  Rounding and wrap of the time base never shorten a sleep whose product fits; the
  countdown lasts its time-out; the machine reaches the prompt or the OS.
- **ci**: MSR[EE] and stack depth are restored by every call; enumeration is
  exact although properties are added during it.
- **smart_boot**: the static buffer of `get_config` holds the list to the end in
  spite of the loads in between; only a recognised image that a load reporting success
  left there, with its own `/chosen`, is entered, be it whole or not; every command
  ends, on cyclic partition chains too, unless the file system walks a cyclic chain of
  its own; both walks agree on what partition N is. The list is followed as
  `smart_boot.c` reads it, with Linux commands for the hard disk and a pass over the CD
  that the documentation says do not exist.
- **files**: a load that reports success has the whole file in order, "no file"
  means there is none, a listing without a disk error is complete, a partition's
  `read` returns its own bytes and no other's, and on volumes damaged in any one
  pointer every walk with a guard ends. The exceptions, each in the property's
  text, are the disagreements below.

### Bounds

| Model | Bounds | Why they are enough |
|---|---|---|
| `UartConsole` | `RingSize` 3, `FifoDepth` 2, `ReadLens` {1, 2}, `MaxKeys` 5 | five bytes fill ring (2 places) and FIFO (2) and overflow; indices wrap; the ring is proved for every size |
| `Nvram` | two names of one letter, values of 0..2 letters, `CmosSize` 16, `MiniSize` 20, `MaxCuts` 2 | both entries fit only if one is short, so refusals happen; the fallback buffer exceeds the CMOS; a cut during the store that follows a cut; proved for every size |
| `IdeDma` | `MaxCount` 5, `PrdMax` 2, first blocks {0, 5} | two full chunks and a short one; any hand-over to PIO; a second call after a failed one, for other blocks; proved for every size |
| `Phase1` | `DecReload` 1, `TickMod` 3, `MaxKeys` 3 | the tick counter wraps during the self-test; keys before, during and after bring-up; any number of resets |
| `PciWalk` | `MaxBars` 3, `MaxBus` 3, BAR sizes below and above a granule | three nested bridges or siblings; padding before and behind a bridge; proved for every size |
| `ElfLoad` | 16 addresses, flash at 13, DRAM to 11, two headers | every relation of a segment to buffer, other segment, DRAM end, flash and wrap occurs; proved for every size |
| `Startup` | 12 addresses in steps of 4, boards of 4, 8 and 12; claims of 0, 1, 2 and 12 at three addresses, two held at a time; `MaxWraps` 1; room for 11 pairs of Forth memory; `W` 32, `TbPerMs` 6, `Milli` 4 | the pool splits the block it is claimed from, so that claims lie at the front, inside and at the end of blocks and releases join below, above and both; the size of 12 wraps from each address, and from one of them is granted; Forth memory runs out after a few calls; every start of the time base, sleeps that round and one that overflows; proved for every size |
| `ClientInterface` | two handles, three names (one longer than 31 characters), `Depth` 6 | a handle is reused for another instance; the stack fills up |
| `Files` | per file system two or three files and a directory with a file, blocks of two units, guards of 4; exFAT sets that end in, and cross, a sector and a cluster | a file over two extents or extension blocks with a short last block; a second name in a hash chain; every pointer of every kind damaged; a guard is reached |
| `SmartBoot` | 20 disks of up to three blocks, two priority lists, `MaxPartitions` 3, `MaxCommands` 2 | a second command meets what the first left; the chain guard is reached |

Deadlock is checked except where the modelled part ends by design: the PCI walk
ends, `ElfLoad` ends in the OS, in `SmartBoot` the user may stop typing, the OS
runs or a file-system walk never ends, and in `Startup` the OS may stop calling.

## Fairness

- `UartConsole`: weak fairness of taking an interrupt, of the handler's steps and
  of `failsafe_read`: the CPU keeps executing and the console's input loop keeps
  calling. Nothing is assumed of the wire.
- `IdeDma`: weak fairness of the firmware's steps only. The bounded spin loops
  can always time out, so no fairness of disk or bus master is needed for them. For
  the one loop without a bound, that over the ECC bytes, `CallReturns` has the disk's
  part as its premise: it is not caught there for ever (`SkippingEcc`).
- `Phase1`: weak fairness of the two vectors, strong fairness of the boot steps.
  A pending interrupt is taken before a boot step, so a boot step is not
  continuously enabled; but a decrementer interrupt is due only every
  millisecond, so instants without one recur. Where the decrementer re-arms with
  0 no such instant exists, and strong fairness does not help the mainline:
  this is how `phase1_warm` is refuted.
- `Startup`: weak fairness of the probe, the installers, the countdown, the boot
  command, the loop of `u_sleep` and the time base: the CPU executes and the
  hardware counts. Strong fairness of leaving the installers for `main`: between
  two sleeps of a driver that is always possible, and a driver sleeps only
  finitely often. Nothing is assumed of the user or the OS.
- `Files`: weak fairness of the reader that runs, none of the user.
- `SmartBoot`: weak fairness of the firmware's steps, none of the user's.

`Nvram`, `PciWalk`, `ElfLoad` and `ClientInterface` state safety only.

## Proofs

Eight modules hold theorems; each extends the modules it is about. Assumptions are
those the modules declare on their constants (`RingSize > 1`, `PrdMax > 0`,
arenas that do not overlap and end on a granule, a flash range that leaves room
for the stack below the top of the address space, ...), and TLC evaluates them in
the runs. Every invariant a run checks is proved, two of them for one file
system only, as said at the end of this section. Each inductive invariant was checked with TLC on
the run's instance before it was proved.

**`UartConsoleProofs`.** `TypeCorrect`; `InterruptDiscipline` (`NoLostEdge`
together with: an interrupt is in service only while the handler runs, which makes
it inductive); `RingImplementsQueue`, the refinement of `RxQueue`. The
refinement rests on `PopInv`: while a pop has loaded a byte but not advanced the
tail, that byte is still the oldest in the ring. `StoreAppends` shows that a
store and advance of the head appends to the queue, `AdvanceTails` that
an advance of the tail removes its head; both rest on the arithmetic of
`WrapLemma`. `ByteAccounting` (`EveryByteAccounted`) follows from the same facts:
`AccountInv` adds that FIFO, ring and delivered bytes hold no byte twice, without
which a byte removed from one place could still be in it.

**`IdeDmaProofs`.** `ReadIsCorrect`, `DmaIsConfined` and `TypeCorrect`, for a
disk that keeps BSY set while it moves DMA data (`~DrqInDma`). The invariant is
`TypeOK` with `StartInv` (the bus master runs only while it is polled or stopped),
`ChunkInv` (chunk and PRD describe the same blocks), `CommandInv` (the blocks the
disk has moved are in place, and a transfer that ended without an error has moved all of
them), `PioInv` (PIO reads the block it stores), `ResultInv`. `ReadCorrect` alone
is not inductive: it does not relate the disk's position to the buffer.

**`BringUpProofs`**, Phase 1 and the PCI walk it calls. For `Phase1`, `TypeCorrect`
and `InterruptsFindVectors` through any number of resets, from `ResetInv` (what
holds at each boot step however the reset vector was reached), and
`InterruptsAreServed` and `SelfTestIsHonest` for a boot from power-on, from
`ColdInv` (which gates are closed before each step). For `PciWalk`,
`PciTypeCorrect`, `BarsAreAligned` and `BusesAreRouted` for
every tree; `BarsAreDisjoint` and `WindowsAreRouted` for every tree whose demands
fit. `TreeInv` says that the buses and windows of the bridges still open form the
path of the walk (`BusInv`, `OpenInv`), that closed ones are complete
(`ClosedInv`) and that everything placed is below the allocators (`AllocInv`).
Lemmas on `AlignUp` and on the rounding of BASE and LIMIT carry the arithmetic.

**`ElfLoadProofs`.** `TypeCorrect`, `RejectionIsHarmless`, `ImagesArePlaced`,
`FlashIsUntouched` and `HandoffIsSound`, for any number of headers and any layout. The
invariant follows the two passes: `CheckedInv` (the headers checked so far
cannot wrap or reach the flash), `MemInv` (outside the segments placed so far memory is
as it was), `PlaceInv` (those are complete), `StackInv`. `BufferIntact` shows
that pass 2 reads the headers pass 1 has checked when the segments are clear of
the buffer.

**`StartupProofs`.** All safety properties of the `startup` run, and that
`Startup` implements `MemoryService` (`ServesMemoryHolds`), the claims up to the first
that is granted although its end wraps. The invariant has a
part for each component. `ProbeInv` gives memory and the locals at each point of the
loop: while a pattern is in memory, `save` holds what the same alias read before,
so that storing it back restores the cell also where two addresses are one; and
where nothing answers the loop has not passed the last region that is there, since
candidates and sizes are multiples of the step (`StepApart`). `SleepInv` compares the
unsigned difference the loop computes with the ticks that really passed: it is
never larger, however often the time base wraps (`GoneTicks`). `CountInv` carries
that over the turns of the countdown. `MemoryInv` with `Apart` relates the free list,
the property, the pool and what clients hold; `ClaimsDisjoint` alone is not inductive,
it does not say that the list is well formed or that the property is no larger than
the list was. The part on memory holds under `NoneWrapped`, which is carried by `wraps` being 0 rather than by an assumption on what clients ask for:
an aligned claim is only answered from inside a block and never wraps
(`AllocAlignedAnswer`), a fixed one that wraps and is refused is refused rightly
(`WrapRefused`), and one that is granted ends the premise. The assumptions are that the top of memory is
below 2^32, that alignments are powers of two, that the
pool ends at `FLOOR`, as in the code, that one turn of the countdown fits into
32 bits, and that the ghost clocks count far enough.

Below them stand the lemmas on the free list: what `alloc_fixed`, `alloc_aligned`
and `free_block` do to the set of free addresses, for lists of any length whose blocks lie below the top of
memory, apart and in order (`GoodList`). `AllocFixedAnswer`: a claim is granted exactly
when all of it is free, and takes exactly that. `AllocAlignedAnswer`: first fit
gives the lowest aligned range that is free. `FreeBlockAnswer`: a release is
refused exactly when part of it is free, and otherwise adds exactly the range. The argument
replaces, removes or inserts one block (`ReplaceBlock`, `RemoveBlock`,
`InsertBlock`) and needs one fact about the whole list: blocks that touch are
always joined, so the address behind a block is never free (`EndNotFree`,
`GapNotFree`). Without it a claim that spans two touching blocks would be refused
although all of it is free.

**`PropertyProofs`**, the client interface and the variables it reads. For
`ClientInterface`, `NoTraceHolds` (`CallLeavesNoTrace`) for any number of
calls, from `StackInv`: between `entry` and `leave` the stack is at its base except
for the cells a service takes, and what is taken lies above it. `EnumerationHolds`
(`EnumerationComplete`) for any list of properties, added to during the walk; its
`WalkInv` says that the list is without repetition and ends with what was there
when the walk began (`ListInv`), that the names returned are what precedes the
place of the walk (`GotInv`), and what the question in progress will answer
(`AskInv`). For `Nvram`, `CanonicalHolds`, `OptionsHold` and `NvramTypeHolds`
for any names, defaults and values of any length without NUL, a CMOS of 9 to 114
bytes (the code's is 114) and a fallback buffer no smaller. `NvramInv` joins the
three with `WriteInv` (a store in progress has bytes left) and `ImageInv` (the image of a
machine that is up is canonical, that of one just booted is empty). The lemmas say
what replacing the first entry of a name does to repetitions, look-up and length.
`NothingAccepted`: `machine_nvram_read` accepts no CMOS contents the firmware can
have written, at any moment. This is the disagreement of `nvram_survives_reboot` for
every instance: what fits into the CMOS has a byte sum whose two
checksum bytes cannot bring the total to a multiple of 2^16. `TornNeverLoaded`
(`NeverLoadsTornImage`) follows from it, and holds for this reason alone; with a
repaired checksum it would have to be proved again.

**`SmartBootProofs`.** `NumberingHolds` (`NumberingAgrees`) for any chain of
partition blocks, cyclic or damaged: `ChainInv` says that the packages are the
chain's first installable blocks in reverse order, `LookupInv` that a lookup has
not gone past the package of its number. `JumpHolds` (`JumpIsSound`) for any disks,
lists and typed commands: `CommandInv` gives the commands each pass may queue, and
`LoadInv` says at each point of `do_load` whose `/chosen` is set and whether a load
that succeeded has left the image. `JumpIsSound` speaks of the jump alone and is not
inductive: a valid image with the `/chosen` of another must already be impossible before
it. It does not say that the file was read to its end, which is not so
(`JumpsToWholeImage`).
`PriorityHolds` (`SmartBootFollowsPriority`) for priority lists of any length:
`FollowInv` says that what was tried and what is queued together are the plan up to
the current entry of the list, and that the buffer of `get_config` still
holds the list, whatever was loaded in between.

**`FilesProofs`.** `PartitionIsRead` (`ReadsPartition`) for any disk block size,
partitions, seeks and reads, with any read of the disk failing and any other file
access in between, for partitions of the disk's block size. `PartInv` says that a
read in progress has the partition's bytes from the old cursor to the new one and that
what is left is what was asked for, clipped to the partition, without them; `NextBytes`
is the arithmetic of one round of the loop. That no reader of `Files` touches an open
instance is a lemma on each of them.

`FfsLoads` and `FfsLists` are `LoadsWhatIsStored` and `ListsWhatIsStored` for every
sound OFS or FFS volume, of any size and depth, with files of any length, and any
number of disk errors. What sound means is `FfsLaid` in `Ffs`: the volume's record says
where its writer has put every path, hash chain, extension block and data pointer, and
the blocks agree with it (`DirLaid`, `ChainLaid`, `FileLaid`, `DataLaid`, `RootLaid`). TLC
evaluates it on the sound FFS volumes of `MCFiles`. The invariant `CallInv` has a part for
each place of the reader: the search for the root has not gone past it unless a read
failed (`ProbeInv`), a look-up is on the chain of its name and has not passed it
(`LookupInv`), retbuf holds the file up to the data pointer the loop is at
(`DataInv`), the names printed are those of the chains and blocks before the place of the
listing (`ListInv`). `RootFound` shows that `open_volume` computes the block the probe has
found, for the volumes of `KnownLayout`: this is where an odd number of blocks or
4 GiB would break the proof, as they break the code. The readers behind `amiga_ffs`
are asked only after a failed read, and refuse (`OthersRefuse`).

Only model-checked:

- liveness (`EveryByteRead`, `CallReturns`, `BootCompletes`,
  `MainlineNotStarved`, `StartupEnds`, `CommandsEnd`, `LoadEnds`), which is out of the
  prover's reach;
- `LoadsWhatIsStored` and `ListsWhatIsStored` for SFS, PFS3 and exFAT. A statement for
  every volume needs the layout rules of the format as a definition first, as `FfsLaid`
  is for FFS (see the plan).

## Where the code and its text disagree

Two disagreements are runs of the project:

- `nvram_survives_reboot`: README.md:101 says "yes — `setenv` changes survive
  reboots". `store_nvram` stores the negated byte sum as a 16-bit word;
  `machine_nvram_read` (machdep.c:627) adds the word's two bytes individually and
  requires a total of 0. The sum and its two checksum bytes never add up for an
  image that fits into the CMOS, so every stored image is rejected at the next
  boot.
- `phase1_warm`: machdep.c:341 says the reset vector "re-initialises everything".
  `reset-all` enters it with MSR[EE]=1 and `.bss` is cleared under a running
  decrementer, which re-arms with 0 and never lets the boot continue.

For the others TLC finds the property violated too. Where the first column names
a cfg of this directory it is checked there; otherwise take the module's own cfg
and check the property in place of those listed in it.

| Property | What the text says | What the code does |
|---|---|---|
| `UartConsole_EveryKeystrokeThroughRing.cfg` | machdep.c:207: "every keystroke reaches the ring before SF even gets here" | the direct poll takes a byte that arrived after the ring was found empty, before the interrupt |
| `UartConsole_NoByteFromEmptyUart.cfg` | `uart_poll_rx` (uart16550.c:62) returns "-1 if the UART has no data pending" | an interrupt between LSR and RBR takes the byte; the poll returns what the empty FIFO yields |
| `MagicWrittenLast` (`Nvram`) | nvram.c:67: the magic bytes are "first written as zero" | the image is written in order, the magic first |
| `NvramHoldsTruncatedOption` (`Nvram`) | machdep.c:565: "SF automatically truncates writes that would exceed NVRAM_MAX" | `set_nvram` refuses the write (nvram.c:195) and NVRAM keeps the old value, while `/options` has the new one |
| `IdeDma_AbortOnlyAfterPio.cfg` | "falls back to PIO on any DMA failure" (ide_dma.c) | ERR left by DMA makes the first PIO wait abort the call (ide_dma.c:457) |
| `IdeDma_AcceptedChunkDrained.cfg` | ide_dma.c:374: "the bus master drained the data" | a disk that shows DRQ during DMA is accepted with data outstanding |
| `CallAlwaysReturns` (`IdeDma`) | ide_dma.c:344: "Bound the spin so a stuck transfer can't hang the firmware" | the PIO path it falls back to skips ECC bytes for as long as DRQ is set (atadisk.c:929), without a bound |
| `Phase1_EiInitBeforeEe.cfg` | extint.c:15: `ei_init` is called before any MSR[EE]=1 | the decrementer self-test sets EE first; the gates are closed, so nothing is lost |
| `PciWalk_ArenasApart.cfg` | pci_walker.c:93: the window is split in half | the allocators have no limit (pci_walker.c:221); large BARs run into the other half |
| `BridgesMaster` (`PciWalk`) | pci_walker.c:481: bus mastering is already set | it is set only on functions with a BAR of their own |
| `SegmentsInDram` (`ElfLoad`) | docs/07: outside installed DRAM "`boot` fails with a diagnostic" | no address is compared with the DRAM size |
| `PlacedAnywhere` (`ElfLoad`) | docs/07: the segment is written to `p_vaddr` | segments that overlap the load buffer overwrite what is still to be read |
| `ShortFileRejected` (`ElfLoad`) | boot_kernel.c:154: "Validates the image" | the length read is not compared with what the headers refer to |
| `Delay_SleepsAtLeast.cfg` | machdep.c:717: "We want to wait at LEAST `us` microseconds" | the 32-bit product (machdep.c:719) wraps for more than 129,171 us at 33,250 ticks a millisecond; the SCSI code asks for 1,000,000 |
| `DramProbe_AliasCaught.cfg` | machdep.c:279: "the anchor sentinel at 0x00200000 catches the alias case" | `*p = save` (machdep.c:305) puts an aliased anchor back before it is compared, so nothing is caught |
| `DramProbe_FallbackIsConservative.cfg` | machdep.c:317: "report a conservative 64 MiB" | a board with 32 MiB is reported as 64 (machdep.c:320) |
| `ReleaseReturnsMemory` (`Startup`) | docs/05-of-runtime.md:271: "`claim` and `release` words manage physical memory ranges" | the client interface's release (client.c:567) only calls the MMU's; `/memory` never gets the range back |
| `FailedClaimTakesNothing` (`Startup`) | the claim returns an error | when the property cannot be published (memory.c:174) the range is taken from the list all the same |
| `DisjointAlways` (`Startup`) | alloc.c:468: a claim is refused where the "block ends after end of p" | the ends are compared as sums without their carry (alloc.c:463): a fixed claim whose end wraps at 2^32 is granted and shares addresses with other owners |
| `NoMethodOnFreed` (`ClientInterface`) | ci_entry.c:115: the "most-recently-used valid ihandle" | a closed handle stays remembered (ci_entry.c:163) |
| `SameMsr` (`ClientInterface`) | docs/06: the handler runs with the caller's MSR | EE is set for the duration of the call |
| `MinusOneMeansUnknown` (`ClientInterface`) | docs/06: -1 only for an unknown service | a full stack, a NULL instance and a failing method return it too |
| `SmartBoot_LoadsFromPickedPartition.cfg` | README.md:104: "picks the highest-priority bootable partition" | one of the commands is `boot hd:0`, whatever partition was picked (smart_boot.c:160) |
| `OnlyAmigaosFromHd` (`MCSmartBoot`) | BOOT.md:287: "Linux and MorphOS loaders print a "not implemented yet" message"; README.md:31: "MorphOS, Linux, AmigaOS 3.x: not yet bootable", likewise README.md:55 and 135, FEATURES.md:124, 409 and 585 | `loader_linux` issues four boot commands for the picked partition (smart_boot.c:214); only `loader_morphos` prints the notice |
| `NoCdBoot` (`MCSmartBoot`) | README.md:34: "CD-ROM / USB / network / floppy boot: not implemented" | `f_smart_boot` has a pass over the CD, with commands for all three families (smart_boot.c:473) |
| `JumpsToWholeImage` (`MCSmartBoot`) | fs_exfat.c:509: "copying data_len bytes into `out`"; boot_kernel.c:154: "Validates the image" | a reader that stops early reports success and no length is compared: the head of a file is entered |
| `CommandsAlwaysEnd` (`MCSmartBoot`) | smart_boot.c:27: an "error code on failure (smart-boot will continue to the next family in the priority list)" | a load from a cyclic FFS volume never returns (amiga_ffs.c:326, 419) |
| `ProbedRootUsed` (`MCFiles` with `Files.cfg`) | amiga_ffs.c:623: "fall back to using the probed block directly" | `open_volume` has overwritten the buffer (amiga_ffs.c:637), so a volume with an odd number of blocks, or of more than 4 GiB, is read from whatever block came last |
| `BufferKept` (`MCFiles`) | fs_exfat.c:392: "The outer `scratch` buffer is mid-use" | `exfat_fat_next` reads the FAT sector into the same buffer (fs_exfat.c:383); an entry set that crosses a cluster is read from it |
| `SuccessIsWhole` (`MCFiles`) | `exfat_read_contents`: "copying data_len bytes into `out`" | a failed read of the FAT is taken for the end of the chain (fs_exfat.c:543), and the load succeeds with part of the file |
| `ExfatLoadsOnlyFiles` (`MCFiles`) | fs_exfat.c:21: it can "find and load a named file from the root directory" | `exfat_visit_find` does not look at the attributes (fs_exfat.c:489): loading a directory succeeds with its raw clusters |
| `ExfatListsPath` (`MCFiles`) | disklbl.c:124: "list-files (args alen --)" lists what its argument names | the root is printed whatever the path (fs_exfat.c:570, announced in its comment) |
| `ReadsAnyPartition` (`MCFiles`) | a partition's `read` returns its bytes | with a block size other than 512 the block number is computed in the wrong unit (partition_pkg.c:287) and too little of the buffer is filled |

Seen while reading, without a run: docs/06 names a service `quiesce` that is
not implemented; among partitions of equal BootPri the last of the chain is
picked, since new packages go to the head of the list, where README.md:100 says
the first; the comment on `try_cd_boot` says `cd:0`, the code issues `boot cd`.
The walks of FFS have no guard (amiga_ffs.c:326, 419, 481): a chain that links
back is followed for ever, which is why `LoadEnds` speaks of sound FFS volumes and
`CommandsEnd` of commands that are not caught in one. amiga_ffs.c:65 says of a hard link
"followed"; nothing in the reader follows it.
After a disk error in a partition's `read` the cursor has advanced although
nothing is returned, and `read-blocks` is not clipped to the partition. The
MMU package's list of released ranges has 64 slots that are never joined.

## What is not modelled

- The SmartFirmware core beyond what is named above: interpreter, FCode,
  device-tree editing, network, USB, frame buffer console. It is vendored, and
  by far the largest part of the repository (with the x86 emulator, other machines'
  back ends and tools that this firmware is not built from).
- ISO9660, FAT and ext2: vendored readers.
- The PCI device tree, IDE probing and aliases: see the plan.
- South-bridge and system-controller set-up: straight-line register writes; what
  they leave behind is the initial state of the models.
- RTAS, the clock registers, diagnostic words, panic and syscall entry: leaf
  accesses without state over calls.
- The x86 option-ROM emulator: vendored, an instruction set.
- In the modelled parts: the second PCI host (its allocators and bus counter are
  independent and the code is the same), ATAPI and drive identification, the
  `security-password` variable, checksums and character sets of the file systems,
  `alloc_block` and the bounds of `alloc_constrained`, which nothing calls.

## Plan

Done: console, NVRAM, disk reads, bring-up, PCI, ELF hand-off; the paths above
them, client interface and booting; start-up with the memory claims; the file
systems and partitions. Next:

1. `LoadsWhatIsStored` and `ListsWhatIsStored` for SFS and PFS3 as for FFS: what a sound
   volume is as a predicate (containers and the B+-tree of extents; anodes and their two
   levels of index blocks, below the guards), then the invariant of the walk.
2. `PciTree` as a refinement of `PciWalk`: what `reg`, `assigned-addresses` and
   `ranges` report is what the registers hold.
3. `SmartBoot` over `Files` instead of a nondeterministic outcome of each load.

## Running the checks

In this directory:

    tlc -workers 2 -config UartConsole.cfg UartConsole
    tlc -workers 2 -config SmartBoot.cfg MCSmartBoot
    tlapm UartConsoleProofs.tla

Module and cfg of every run are in `PROJECT.json`. `smart_boot` and `startup` are
the longest, each about half a million states in two minutes; the other runs take
seconds to a minute. `StartupProofs`, `PropertyProofs`, `SmartBootProofs` and
`FilesProofs` take two to five minutes, the other proofs less.

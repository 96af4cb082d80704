------------------------------ MODULE ElfLoad ------------------------------
(***************************************************************************)
(* From a file in the load buffer to the first instruction of the OS:      *)
(* elf32_ppc_be_load (of/boot_kernel.c), machine_go (of/machine_hooks.c)   *)
(* and machine_jump_os (of/boot_kernel.S).                                 *)
(*                                                                         *)
(* The file lies at Load.  A first pass over the program headers checks    *)
(* each PT_LOAD; a second one reads the headers again, from the buffer,    *)
(* and moves the segments to their addresses, unit by unit, in the same    *)
(* address space.  A unit is what one program header occupies; unit k of   *)
(* the file is the number k.  Every sum the code takes modulo 2^32 is      *)
(* taken modulo W here.                                                    *)
(***************************************************************************)
EXTENDS Integers, FiniteSets

CONSTANTS W,                  \* addresses are 0..W-1
          FLASH_RANGE_START,  \* first address of the flash
          Dram,               \* installed memory is 0..Dram-1
          Load,               \* e->load, where the file is read to
          MAX_PHNUM,          \* most program headers accepted
          Slack,              \* the stack's 0x1000
          Grain,              \* stack_top is rounded down to this
          Headers,            \* the program headers that occur
          Images              \* the files that occur

Addr == 0 .. W - 1

Header == [type : {"LOAD", "OTHER"}, off : Addr, va : Addr, fsz : Addr, msz : Addr]

\* good: magic, class, byte order, type, machine and phentsz are all right.
\* len: the units that were read; what lies behind them is not the file.
Image == [good : BOOLEAN, phoff : Addr, phnum : Nat, entry : Addr, len : Nat,
          ph : [0 .. MAX_PHNUM - 1 -> Header]]

ASSUME AddressAssumption ==
  /\ W \in Nat /\ FLASH_RANGE_START \in Nat /\ Load \in Nat /\ Dram \in Nat
  /\ Slack \in Nat /\ Grain \in Nat \ {0} /\ Grain <= Slack /\ MAX_PHNUM \in Nat
  /\ FLASH_RANGE_START + Slack < W

ASSUME ImageAssumption ==
  /\ Headers \subseteq Header
  /\ Images \subseteq Image
  /\ \A f \in Images : Load + f.len <= FLASH_RANGE_START

VARIABLES pc,        \* where the loader is
          img,       \* the file in the load buffer
          mem,       \* memory: a unit of the file, Zero or Old
          i, j,      \* the loop counters
          seg,       \* the header pass 2 is working on
          inside,    \* {entry} once a PT_LOAD holds it (entry_in_phdr)
          high,      \* high_end, then g_boot_image_high_end
          r1         \* the stack pointer the OS starts with

vars == <<pc, img, mem, i, j, seg, inside, high, r1>>

Old == -1
Zero == -2

\* Memory as f_load leaves it: the file in the buffer, anything elsewhere.
Original(f) == [a \in Addr |-> IF a >= Load /\ a < Load + f.len THEN a - Load ELSE Old]

\* The p_type and p_memsz tests that both passes begin with.
Loads(h) == h.type = "LOAD" /\ h.msz # 0

\* u32_add_ovf
Overflows(a, b) == (a + b) % W < a

\* Mutant of Acceptable: the end is compared without the overflow checks.
AcceptableWraps(h) ==
  /\ h.fsz <= h.msz
  /\ h.va < FLASH_RANGE_START
  /\ (h.va + h.msz) % W <= FLASH_RANGE_START

\* The checks of pass 1 on one PT_LOAD.
Acceptable(h) ==
  /\ h.fsz <= h.msz
  /\ ~ Overflows(h.off, h.fsz)
  /\ ~ Overflows(h.va, h.msz)
  /\ h.va < FLASH_RANGE_START
  /\ (h.va + h.msz) % W <= FLASH_RANGE_START

\* What reading program header k from the buffer may yield.  Once something
\* else was written over it, or when it lies behind the end of the file, the
\* fields are whatever is there; zeroes are p_type 0.
HeaderAt(k) ==
  LET a == (Load + img.phoff + k) % W
  IN  IF mem[a] = img.phoff + k THEN {img.ph[k]}
      ELSE IF mem[a] = Zero THEN {h \in Headers : h.type = "OTHER"}
      ELSE Headers

\* At the prompt no file is in use.
NoHeader == [type |-> "OTHER", off |-> 0, va |-> 0, fsz |-> 0, msz |-> 0]
NoImage == [good |-> FALSE, phoff |-> 0, phnum |-> 0, entry |-> 0, len |-> 0,
            ph |-> [k \in 0 .. MAX_PHNUM - 1 |-> NoHeader]]

Init ==
  /\ pc = "prompt"
  /\ img = NoImage
  /\ mem = Original(NoImage)
  /\ i = 0 /\ j = 0
  /\ seg = NoHeader
  /\ inside = {}
  /\ high = 0
  /\ r1 = 0

\* load reads the file into the buffer that machine_init_load names.  What an
\* earlier file left behind it is not this file's.
LoadFile ==
  /\ pc = "prompt"
  /\ pc' = "start"
  /\ img' \in Images
  /\ mem' = [a \in Addr |-> IF a >= Load /\ a < Load + img'.len THEN a - Load
                           ELSE IF mem[a] = Zero THEN Zero ELSE Old]
  /\ UNCHANGED <<i, j, seg, inside, high, r1>>

\* elf32_ppc_be_is_exec and the checks on phoff, phnum and the table's span.
HeaderOK(f) ==
  /\ f.good
  /\ f.phoff # 0
  /\ f.phnum # 0
  /\ f.phnum <= MAX_PHNUM
  /\ ~ Overflows(f.phoff, f.phnum)

Begin ==
  /\ pc = "start"
  /\ pc' = IF HeaderOK(img) THEN "pass1" ELSE "rejected"
  /\ UNCHANGED <<img, mem, i, j, seg, inside, high, r1>>

\* Mutants of Validate: a loader of one pass places a segment as soon as it is
\* accepted; high_end follows the last segment instead of the highest one.
ValidateAndPlace ==
  /\ pc = "pass1"
  /\ i < img.phnum
  /\ \E h \in HeaderAt(i) :
       IF ~ Loads(h) THEN i' = i + 1 /\ UNCHANGED <<pc, mem, inside, high>>
       ELSE IF ~ Acceptable(h) THEN pc' = "rejected" /\ UNCHANGED <<i, mem, inside, high>>
       ELSE /\ i' = i + 1
            /\ mem' = [a \in Addr |->
                 IF a >= h.va /\ a < h.va + h.fsz THEN mem[(Load + h.off + a - h.va) % W]
                 ELSE IF a >= h.va /\ a < h.va + h.msz THEN Zero ELSE mem[a]]
            /\ inside' = inside \union {a \in {img.entry} : a >= h.va /\ a < h.va + h.msz}
            /\ high' = IF h.va + h.msz > high THEN h.va + h.msz ELSE high
            /\ UNCHANGED pc
  /\ UNCHANGED <<img, j, seg, r1>>

ValidateLastEnd ==
  /\ pc = "pass1"
  /\ i < img.phnum
  /\ \E h \in HeaderAt(i) :
       IF ~ Loads(h) THEN i' = i + 1 /\ UNCHANGED <<pc, inside, high>>
       ELSE IF ~ Acceptable(h) THEN pc' = "rejected" /\ UNCHANGED <<i, inside, high>>
       ELSE /\ i' = i + 1
            /\ inside' = inside \union {a \in {img.entry} : a >= h.va /\ a < h.va + h.msz}
            /\ high' = (h.va + h.msz) % W
            /\ UNCHANGED pc
  /\ UNCHANGED <<img, mem, j, seg, r1>>

\* Pass 1, one program header.
Validate ==
  /\ pc = "pass1"
  /\ i < img.phnum
  /\ \E h \in HeaderAt(i) :
       \/ /\ ~ Loads(h)
          /\ i' = i + 1
          /\ UNCHANGED <<pc, inside, high>>
       \/ /\ Loads(h)
          /\ ~ Acceptable(h)
          /\ pc' = "rejected"
          /\ UNCHANGED <<i, inside, high>>
       \/ /\ Loads(h)
          /\ Acceptable(h)
          /\ i' = i + 1
          /\ LET end == (h.va + h.msz) % W
             IN  /\ inside' = inside \union {a \in {img.entry} : a >= h.va /\ a < end}
                 /\ high' = IF end > high THEN end ELSE high
          /\ UNCHANGED pc
  /\ UNCHANGED <<img, mem, j, seg, r1>>

\* Between the passes: e_entry must lie in a PT_LOAD.
EntryCheck ==
  /\ pc = "pass1"
  /\ i = img.phnum
  /\ pc' = IF inside # {} THEN "pass2" ELSE "rejected"
  /\ i' = 0
  /\ UNCHANGED <<img, mem, j, seg, inside, high, r1>>

\* Pass 2 reads program header i again; its checks are not repeated.
Place ==
  /\ pc = "pass2"
  /\ i < img.phnum
  /\ \E h \in HeaderAt(i) :
       \/ /\ ~ Loads(h)
          /\ i' = i + 1
          /\ UNCHANGED <<pc, j, seg>>
       \/ /\ Loads(h)
          /\ pc' = "copy"
          /\ seg' = h
          /\ j' = 0
          /\ UNCHANGED i
  /\ UNCHANGED <<img, mem, inside, high, r1>>

\* Mutant of CopyUnit: the rest of the segment is not cleared.
CopyUnitNoBss ==
  /\ pc = "copy"
  /\ j < seg.fsz \/ j < seg.msz
  /\ mem' = IF j < seg.fsz
            THEN [mem EXCEPT ![(seg.va + j) % W] = mem[(Load + seg.off + j) % W]]
            ELSE mem
  /\ j' = j + 1
  /\ UNCHANGED <<pc, img, i, seg, inside, high, r1>>

\* One unit of the two inner loops: dst[j] = src[j], then dst[j] = 0.
CopyUnit ==
  /\ pc = "copy"
  /\ j < seg.fsz \/ j < seg.msz
  /\ mem' = [mem EXCEPT ![(seg.va + j) % W] =
               IF j < seg.fsz THEN mem[(Load + seg.off + j) % W] ELSE Zero]
  /\ j' = j + 1
  /\ UNCHANGED <<pc, img, i, seg, inside, high, r1>>

CopyDone ==
  /\ pc = "copy"
  /\ j >= seg.fsz
  /\ j >= seg.msz
  /\ pc' = "pass2"
  /\ i' = i + 1
  /\ UNCHANGED <<img, mem, j, seg, inside, high, r1>>

\* elf32_ppc_be_load returns; machine_go (or boot-kernel) computes the stack
\* and machine_jump_os loads r1 and branches to the entry point.
StackTop(top) ==
  LET s == IF Overflows(top, Slack) THEN top ELSE (top + Slack) % W
  IN  (s \div Grain) * Grain

JumpOs ==
  /\ pc = "pass2"
  /\ i = img.phnum
  /\ pc' = "jumped"
  /\ r1' = StackTop(high)
  /\ UNCHANGED <<img, mem, i, j, seg, inside, high>>

\* E_BAD_IMAGE: the user is at the prompt again and may boot another file.
BackToPrompt ==
  /\ pc = "rejected"
  /\ pc' = "prompt"
  /\ img' = NoImage
  /\ i' = 0
  /\ inside' = {}
  /\ high' = 0
  /\ UNCHANGED <<mem, j, seg, r1>>

Next == LoadFile \/ Begin \/ Validate \/ EntryCheck \/ Place \/ CopyUnit \/ CopyDone
        \/ JumpOs \/ BackToPrompt

Spec == Init /\ [][Next]_vars

-----------------------------------------------------------------------------
\* The type of every variable; high_end stays at or below the flash and the
\* stack pointer of machine_go is an address, whatever the headers hold.
TypeOK ==
  /\ pc \in {"prompt", "start", "pass1", "pass2", "copy", "jumped", "rejected"}
  /\ img \in Images \union {NoImage}
  /\ mem \in [Addr -> Int]
  /\ i \in Nat /\ i <= img.phnum
  /\ j \in Nat /\ j <= W
  /\ seg \in Header
  /\ inside \subseteq {img.entry}
  /\ high \in 0 .. FLASH_RANGE_START
  /\ r1 \in Addr

\* The program headers of the file, and where PT_LOAD k goes.
Table(f) == {k \in 0 .. MAX_PHNUM - 1 : k < f.phnum /\ Loads(f.ph[k])}
Dst(h) == {a \in Addr : a >= h.va /\ a < h.va + h.msz}
Buffer(f) == {a \in Addr : a >= Load /\ a < Load + f.len}

\* The file was read completely: the program headers and every segment's
\* bytes lie before its end.
Complete(f) ==
  /\ f.phoff + f.phnum <= f.len
  /\ \A k \in Table(f) : f.ph[k].off + f.ph[k].fsz <= f.len

\* No segment is moved onto the file itself.
ClearOfBuffer(f) == \A k \in Table(f) : Dst(f.ph[k]) \cap Buffer(f) = {}

\* No two segments want the same address.
SegmentsApart(f) ==
  \A k, m \in Table(f) : k # m => Dst(f.ph[k]) \cap Dst(f.ph[m]) = {}

\* What the file says address a of segment h holds.
Content(h, a) == IF a - h.va < h.fsz THEN h.off + (a - h.va) ELSE Zero

\* Every segment lies where its header says, with the bytes of the file and
\* zeroes behind them, and no other memory was written.
Placed(f) ==
  /\ \A k \in Table(f) : \A a \in Dst(f.ph[k]) : mem[a] = Content(f.ph[k], a)
  /\ \A a \in Addr : (\A k \in Table(f) : a \notin Dst(f.ph[k])) => mem[a] = Original(f)[a]

\* Whatever the file holds, an attempt that ends in E_BAD_IMAGE has not
\* written to memory: a header that is bad at the end of the table is found
\* before the first segment is moved (the two passes of elf32_ppc_be_load),
\* so that the next attempt starts from intact memory.
RejectedLeavesMemory ==
  pc \in {"start", "pass1", "rejected"} => mem = Original(img)

\* A complete file whose segments are clear of the buffer and of each other
\* is in place when the OS starts (the copy and zero-fill loops, with the
\* headers of pass 2 read from the buffer while segments are being moved).
ImagePlaced ==
  pc = "jumped" /\ Complete(img) /\ ClearOfBuffer(img) /\ SegmentsApart(img)
    => Placed(img)

\* Loading a complete file whose segments are clear of the buffer never
\* writes to the flash, at no step, whatever sizes and addresses its headers
\* hold (the overflow checks together with the FLASH_RANGE_START check).
FlashUntouched ==
  Complete(img) /\ ClearOfBuffer(img) =>
    \A a \in FLASH_RANGE_START .. W - 1 : mem[a] = Original(img)[a]

\* The OS starts inside a segment that was placed, and its stack, nearly
\* Slack deep, begins above every segment and below the top of the address
\* space (high_end from pass 1, used by machine_go after pass 2).
HandoffSound ==
  pc = "jumped" /\ Complete(img) /\ ClearOfBuffer(img) =>
    /\ \E k \in Table(img) : img.entry \in Dst(img.ph[k])
    /\ \A k \in Table(img) : \A a \in Dst(img.ph[k]) : a + Slack - Grain < r1

\* docs/07-boot-loader.md: "If the address is outside installed DRAM, `boot`
\* fails with a diagnostic."  Nothing compares an address with the DRAM size.
SegmentsInDram ==
  pc = "jumped" /\ Complete(img) /\ ClearOfBuffer(img) =>
    \A k \in Table(img) : Dst(img.ph[k]) \subseteq 0 .. Dram - 1

\* docs/07-boot-loader.md: "read from file offset `p_offset`, `p_filesz` bytes;
\* write to memory at `p_vaddr`", for an image whose segments overlap the load
\* buffer, the conventional kernel address.
PlacedAnywhere ==
  pc = "jumped" /\ Complete(img) /\ SegmentsApart(img) =>
    \A k \in Table(img) : \A a \in Dst(img.ph[k]) : mem[a] = Content(img.ph[k], a)

\* The comment on elf32_ppc_be_load: "Validates the image", of a file that was
\* read short: loadlen is not compared with what the headers refer to.
ShortFileRejected == pc = "jumped" => Complete(img)

=============================================================================

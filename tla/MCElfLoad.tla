----------------------------- MODULE MCElfLoad -----------------------------
(***************************************************************************)
(* Files of up to two program headers in a small address space:            *)
(*                                                                         *)
(*    0  1  2  3 |  4     5   6   7  8  9 10 | 11 12  | 13 14 15         *)
(*    memory     |  ehdr  ph0 ph1 data       | none   | flash            *)
(*                                                                         *)
(* Segments go below the buffer, onto it, behind it, beyond DRAM, up to    *)
(* and into the flash; sizes reach the wrap at 16, file offsets the end of *)
(* the address space.  A second set of files has bad ELF headers.          *)
(***************************************************************************)
EXTENDS ElfLoad

CONSTANTS Vaddrs, Offsets, Sizes, Entries, Lens

MCHeaders ==
  {[type |-> "LOAD", off |-> o, va |-> v, fsz |-> n, msz |-> m] :
     o \in Offsets, v \in Vaddrs, n \in Sizes, m \in Sizes}
  \union {[type |-> "OTHER", off |-> 0, va |-> 0, fsz |-> 0, msz |-> 0]}

MCImages ==
  [good : {TRUE}, phoff : {1}, phnum : {2}, entry : Entries, len : Lens,
   ph : [0 .. 1 -> MCHeaders]]
  \union
  [good : BOOLEAN, phoff : {0, 1, W - 1}, phnum : {0, 1, 2, 3}, entry : Entries, len : {6},
   ph : [0 .. 1 -> {[type |-> "LOAD", off |-> 3, va |-> 0, fsz |-> 1, msz |-> 2]}]]
=============================================================================

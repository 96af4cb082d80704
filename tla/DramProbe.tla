----------------------------- MODULE DramProbe -----------------------------
(***************************************************************************)
(* How the firmware finds out how much DRAM there is: machine_initialize   *)
(* (of/machdep.c).  Candidates are tried from the top of what the BATs     *)
(* cover downwards.  Behind the end of the DRAM an address either takes    *)
(* no writes and reads as ones, or selects a lower cell again (alias).     *)
(* Addresses are counted in units small enough to tell the anchor from a   *)
(* candidate; a cell holds 0 .. (a value of its own), Anchor or the        *)
(* pattern of a candidate.                                                 *)
(***************************************************************************)
EXTENDS Integers

CONSTANTS Top,           \* PEGASOS2_DRAM_TOP
          Step,          \* STEP
          Floor,         \* FLOOR
          AnchorAt,      \* the address of the anchor
          Conservative,  \* the size reported when nothing answers
          Sizes          \* the DRAM sizes that occur

ASSUME ProbeAssumption ==
  /\ Top \in Nat /\ Step \in Nat \ {0} /\ Floor \in Nat \ {0} /\ Conservative \in Nat
  /\ Step <= Floor /\ Top % Step = 0 /\ AnchorAt \in Nat
  /\ \A s \in Sizes : s \in Nat /\ s % Step = 0 /\ s <= Top /\ AnchorAt < s

VARIABLES probePc, size, beyond, mem, addr, save, anchorSave, readback, top

probeVars == <<probePc, size, beyond, mem, addr, save, anchorSave, readback, top>>

\* What a cell holds: its own number from before, or one of these.  (The
\* patterns of the code repeat for addresses 256 MiB apart; it never compares
\* those of two addresses.)
Ones == -1
Anchor == -2
Pattern(a) == -3 - a

\* A load and a store at address a of a board with this much DRAM.
Read(m, a) == IF a < size THEN m[a]
              ELSE IF beyond = "alias" THEN m[a % size] ELSE Ones

Write(m, a, v) == IF a < size THEN [m EXCEPT ![a] = v]
                  ELSE IF beyond = "alias" THEN [m EXCEPT ![a % size] = v] ELSE m

ProbeInit ==
  /\ probePc = "anchor"
  /\ size \in Sizes
  /\ beyond \in {"alias", "none"}
  /\ mem = [a \in 0 .. size - 1 |-> a]
  /\ addr = Top - Step
  /\ save = 0 /\ anchorSave = 0 /\ readback = 0
  /\ top = Top

\* anchor_save = *anchor; *anchor = 0xA5A5A5A5
SetAnchor ==
  /\ probePc = "anchor"
  /\ anchorSave' = Read(mem, AnchorAt)
  /\ mem' = Write(mem, AnchorAt, Anchor)
  /\ probePc' = "write"
  /\ UNCHANGED <<size, beyond, addr, save, readback, top>>

\* save = *p; *p = expected
WritePattern ==
  /\ probePc = "write"
  /\ addr >= Floor
  /\ save' = Read(mem, addr)
  /\ mem' = Write(mem, addr, Pattern(addr))
  /\ probePc' = "restore"
  /\ UNCHANGED <<size, beyond, addr, anchorSave, readback, top>>

\* Mutant of Restore: the probed cell keeps the pattern.
RestoreForgotten ==
  /\ probePc = "restore"
  /\ readback' = Read(mem, addr)
  /\ probePc' = "compare"
  /\ UNCHANGED <<size, beyond, mem, addr, save, anchorSave, top>>

\* readback = *p; *p = save
Restore ==
  /\ probePc = "restore"
  /\ readback' = Read(mem, addr)
  /\ mem' = Write(mem, addr, save)
  /\ probePc' = "compare"
  /\ UNCHANGED <<size, beyond, addr, save, anchorSave, top>>

\* Mutant of Compare: the first candidate that answers is taken for the top.
CompareOwnAddress ==
  /\ probePc = "compare"
  /\ IF readback = Pattern(addr) /\ Read(mem, AnchorAt) = Anchor
     THEN top' = addr /\ probePc' = "release" /\ UNCHANGED addr
     ELSE addr' = addr - Step /\ probePc' = "write" /\ UNCHANGED top
  /\ UNCHANGED <<size, beyond, mem, save, anchorSave, readback>>

\* The region is DRAM when its own pattern came back and the anchor is intact.
Compare ==
  /\ probePc = "compare"
  /\ \/ /\ readback = Pattern(addr)
        /\ Read(mem, AnchorAt) = Anchor
        /\ top' = addr + Step
        /\ probePc' = "release"
        /\ UNCHANGED addr
     \/ /\ ~ (readback = Pattern(addr) /\ Read(mem, AnchorAt) = Anchor)
        /\ addr' = addr - Step
        /\ probePc' = "write"
        /\ UNCHANGED top
  /\ UNCHANGED <<size, beyond, mem, save, anchorSave, readback>>

\* The loop ran below FLOOR.
RunOut ==
  /\ probePc = "write"
  /\ addr < Floor
  /\ probePc' = "release"
  /\ UNCHANGED <<size, beyond, mem, addr, save, anchorSave, readback, top>>

\* *anchor = anchor_save, and the fallback when nothing answered; the locals
\* go out of scope.
ReleaseAnchor ==
  /\ probePc = "release"
  /\ mem' = Write(mem, AnchorAt, anchorSave)
  /\ top' = IF addr < Floor THEN Conservative ELSE top
  /\ probePc' = "done"
  /\ addr' = 0 /\ save' = 0 /\ anchorSave' = 0 /\ readback' = 0
  /\ UNCHANGED <<size, beyond>>

ProbeNext == SetAnchor \/ WritePattern \/ Restore \/ Compare \/ RunOut \/ ReleaseAnchor

ProbeSpec == ProbeInit /\ [][ProbeNext]_probeVars

-----------------------------------------------------------------------------
\* Where the last region of the DRAM starts at or above FLOOR, and nothing
\* behind its end answers, exactly the installed DRAM is reported: not one region more, which an OS
\* would lose its writes in, and not one less (the descending loop).
TopIsExact ==
  probePc = "done" /\ beyond = "none" /\ size - Step >= Floor => top = size

\* The probe leaves memory as it was, whatever is behind the end of the DRAM:
\* what an aliased write hit was read through the same alias (save, *p = save
\* and anchor_save; the vectors and .data lie in the probed range).
MemoryRestored == probePc = "done" => \A a \in 0 .. size - 1 : mem[a] = a

\* The comment in machine_initialize: addresses "aliasing low DRAM (the anchor
\* sentinel at 0x00200000 catches the alias case)".
AliasCaught == probePc = "done" /\ size - Step >= Floor => top <= size

\* The comment in machine_initialize: "If even FLOOR fails the probe something
\* is badly broken; report a conservative 64 MiB", of a board whose DRAM ends
\* above FLOOR but in the region FLOOR lies in, as 32 MiB do.
FallbackIsConservative == probePc = "done" /\ beyond = "none" /\ size > Floor => top <= size

=============================================================================

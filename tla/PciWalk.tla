------------------------------- MODULE PciWalk -------------------------------
(***************************************************************************)
(* The PCI enumeration of pci_walker.c on one host bridge: depth-first,    *)
(* BARs placed by three bump allocators, and the windows of every          *)
(* PCI-to-PCI bridge cut out of the same allocators around the recursion.  *)
(*                                                                         *)
(* The tree of devices is the environment's choice.  pci_scan_bus visits   *)
(* functions one after the other, and all the walk does for a function is  *)
(* to place its BARs and its ROM, to enable the decoders these need and,   *)
(* if it is a bridge, to descend.  Any interleaving of the actions         *)
(* PlaceBar, NextFunction, EnterBridge and LeaveBridge is therefore the    *)
(* walk of some tree, and every walk is one of them.                       *)
(***************************************************************************)
EXTENDS Integers, FiniteSets

CONSTANTS
  Sizes,      \* sizes of the BARs devices may ask for (powers of two)
  Granule,    \* BRIDGE_MEM_GRANULE and BRIDGE_IO_GRANULE
  ArenaStart, \* initial value of the allocators
  ArenaEnd,   \* where each arena ends (exclusive)
  Fits,       \* do the devices' demands fit into the arenas?
  MaxBars,    \* bound: BARs and ROMs in the tree
  MaxBus      \* bound: bridges in the tree

Kinds == {"mem", "pref", "io"}

ASSUME SizesAssumption == Sizes \in [Kinds -> SUBSET (Nat \ {0})]
ASSUME GranuleAssumption == Granule \in [Kinds -> Nat \ {0}]
ASSUME ArenaAssumption ==
  /\ ArenaStart \in [Kinds -> Nat] /\ ArenaEnd \in [Kinds -> Nat]
  /\ ArenaEnd["mem"] <= ArenaStart["pref"]
  /\ \A k \in Kinds : ArenaStart[k] <= ArenaEnd[k]
  /\ \A k \in Kinds : ArenaEnd[k] % Granule[k] = 0
ASSUME BoundAssumption == MaxBars \in Nat /\ MaxBus \in Nat
ASSUME FitsAssumption == Fits \in BOOLEAN

VARIABLES
  next,     \* s_alloc_mem_next, s_alloc_pref_next, s_alloc_io_next
  nextBus,  \* walk_ctx.next_bus
  cmd,      \* command register of the function being scanned
  open,     \* the bridges the recursion is inside of: bus, window starts, cmd
  closed,   \* the bridges that are programmed: bus range, windows, cmd, path
  bars      \* the BARs and ROMs that are placed

pciVars == <<next, nextBus, cmd, open, closed, bars>>

\* The buses between the host bridge and the function being scanned.
Path == {f.bus : f \in open}

PciInit ==
  /\ next = ArenaStart
  /\ nextBus = 1
  /\ cmd = {}
  /\ open = {} /\ closed = {} /\ bars = {}

-----------------------------------------------------------------------------
\* The decoder a BAR needs.
Decoder(k) == IF k = "io" THEN "io" ELSE "mem"

AlignUp(v, a) == ((v + a - 1) \div a) * a

\* Mutant: the allocator is advanced by the size from where it was.
PlaceBarForgetsPadding(k, size) ==
  LET base == AlignUp(next[k], size) IN
  /\ Cardinality(bars) < MaxBars
  /\ Fits => base + size <= ArenaEnd[k]
  /\ bars' = bars \cup {[kind |-> k, base |-> base, size |-> size, path |-> Path]}
  /\ next' = [next EXCEPT ![k] = next[k] + size]
  /\ cmd' = cmd \cup {Decoder(k), "master"}
  /\ UNCHANGED <<nextBus, open, closed>>

\* probe_assign_and_print_bars, for one BAR or the ROM (which uses "mem").
PlaceBar(k, size) ==
  LET base == AlignUp(next[k], size) IN
  /\ Cardinality(bars) < MaxBars
  /\ Fits => base + size <= ArenaEnd[k]
  /\ bars' = bars \cup {[kind |-> k, base |-> base, size |-> size, path |-> Path]}
  /\ next' = [next EXCEPT ![k] = base + size]
  /\ cmd' = cmd \cup {Decoder(k), "master"}
  /\ UNCHANGED <<nextBus, open, closed>>

\* pci_scan_function up to the recursion: take a bus number and pad the
\* allocators to the granularity of the windows.
EnterBridge ==
  LET start == [k \in Kinds |-> AlignUp(next[k], Granule[k])] IN
  /\ nextBus <= MaxBus
  /\ next' = start
  /\ open' = open \cup {[bus |-> nextBus, start |-> start, cmd |-> cmd]}
  /\ nextBus' = nextBus + 1
  /\ cmd' = {}
  /\ UNCHANGED <<closed, bars>>

\* What BASE and LIMIT decode to: the low bits of BASE are taken as 0 and
\* those of LIMIT as 1.  A window without addresses is written upside down.
Window(k, start, end) ==
  LET g == Granule[k] IN
  IF end > start
    THEN [lo |-> (start \div g) * g, hi |-> ((end - 1) \div g) * g + g - 1]
    ELSE [lo |-> 0, hi |-> -1]

\* The innermost open bridge is the one entered last.
Innermost(f) == \A g \in open : g.bus <= f.bus

\* The kinds of address that the subtree below f has taken.
Used(f) == {k \in Kinds : next[k] > f.start[k]}

\* Mutant: the allocators are not moved past the inflated windows.
LeaveBridgeNoPad ==
  \E f \in open :
    /\ Innermost(f)
    /\ open' = open \ {f}
    /\ closed' = closed \cup
         {[bus |-> f.bus, sub |-> nextBus - 1,
           win |-> [k \in Kinds |-> Window(k, f.start[k], next[k])],
           cmd |-> f.cmd \cup {Decoder(k) : k \in Used(f)},
           path |-> Path \ {f.bus}]}
    /\ cmd' = {}
    /\ UNCHANGED <<next, nextBus, bars>>

\* Mutant: SUBORDINATE is left at the bridge's own secondary bus.
LeaveBridgeOwnBusOnly ==
  \E f \in open :
    /\ Innermost(f)
    /\ open' = open \ {f}
    /\ closed' = closed \cup
         {[bus |-> f.bus, sub |-> f.bus,
           win |-> [k \in Kinds |-> Window(k, f.start[k], next[k])],
           cmd |-> f.cmd \cup {Decoder(k) : k \in Used(f)},
           path |-> Path \ {f.bus}]}
    /\ cmd' = {}
    /\ next' = [k \in Kinds |-> IF k \in Used(f) THEN AlignUp(next[k], Granule[k]) ELSE next[k]]
    /\ UNCHANGED <<nextBus, bars>>

\* pci_scan_function after the recursion: program the windows, enable
\* forwarding, move the allocators past the windows' last granule, clamp
\* the subordinate bus.
LeaveBridge ==
  \E f \in open :
    /\ Innermost(f)
    /\ open' = open \ {f}
    /\ closed' = closed \cup
         {[bus |-> f.bus, sub |-> nextBus - 1,
           win |-> [k \in Kinds |-> Window(k, f.start[k], next[k])],
           cmd |-> f.cmd \cup {Decoder(k) : k \in Used(f)},
           path |-> Path \ {f.bus}]}
    /\ cmd' = {}
    /\ next' = [k \in Kinds |-> IF k \in Used(f) THEN AlignUp(next[k], Granule[k]) ELSE next[k]]
    /\ UNCHANGED <<nextBus, bars>>

\* pci_scan_bus: on to a function that is not a bridge.  A command register
\* is 0 after reset.
NextFunction ==
  /\ cmd # {}
  /\ cmd' = {}
  /\ UNCHANGED <<next, nextBus, open, closed, bars>>

PciNext ==
  \/ \E k \in Kinds : \E size \in Sizes[k] : PlaceBar(k, size)
  \/ NextFunction
  \/ EnterBridge
  \/ LeaveBridge

PciSpec == PciInit /\ [][PciNext]_pciVars

-----------------------------------------------------------------------------
Buses == 1 .. MaxBus
Bits == {"mem", "io", "master"}

\* The type of every variable; the bus numbers pci_scan_bus hands out stay in
\* range, in the bridges it is inside of and in those it has programmed.
PciTypeOK ==
  /\ next \in [Kinds -> Nat]
  /\ nextBus \in 1 .. MaxBus + 1
  /\ cmd \subseteq Bits
  /\ open \subseteq [bus : Buses, start : [Kinds -> Nat], cmd : SUBSET Bits]
  /\ closed \subseteq [bus : Buses, sub : Buses, path : SUBSET Buses, cmd : SUBSET Bits,
                       win : [Kinds -> [lo : Nat, hi : Int]]]
  /\ bars \subseteq [kind : Kinds, base : Nat, size : Nat \ {0}, path : SUBSET Buses]

\* Memory BARs, prefetchable or not, share one address space.
Space(k) == IF k = "io" THEN "io" ELSE "memory"

Overlap(b, c) == b.base < c.base + c.size /\ c.base < b.base + b.size

Within(b, w) == w.lo <= b.base /\ b.base + b.size - 1 <= w.hi
Outside(b, w) == b.base + b.size - 1 < w.lo \/ w.hi < b.base

(* No two BARs, or a BAR and a ROM, of this host decode the same address.  *)
BarsDisjoint ==
  \A b, c \in bars : b # c /\ Space(b.kind) = Space(c.kind) => ~Overlap(b, c)

(* A BAR lies at a multiple of its size, as the device decodes it.         *)
BarsAligned == \A b \in bars : b.base % b.size = 0

(* A bridge forwards exactly what is behind it: its windows, as the        *)
(* registers round them, hold every BAR of its subtree, in the window of   *)
(* the BAR's own kind, are enabled, and touch no BAR elsewhere.            *)
WindowsRoute ==
  \A w \in closed, b \in bars :
    IF w.bus \in b.path
      THEN Within(b, w.win[b.kind]) /\ Decoder(b.kind) \in w.cmd
      ELSE \A k \in Kinds : Space(k) = Space(b.kind) => Outside(b, w.win[k])

(* Secondary bus numbers are unique, and a bridge's range of buses is      *)
(* exactly its own bus and the buses of the bridges behind it: a Type-1    *)
(* cycle for a bus is taken by the bridges on its path and by no other.    *)
BusesRoute ==
  \A v, w \in closed :
    /\ v.bus = w.bus => v = w
    /\ v # w => (v.bus \in w.bus .. w.sub <=> w.bus \in v.path)

(* What the comment on the forwarding bits says: bus mastering is already  *)
(* set, so that a device behind the bridge can reach memory.               *)
BridgesMaster == \A w \in closed : (\E b \in bars : w.bus \in b.path) => "master" \in w.cmd

(* What the comment on the allocators says: the 1 GiB window is split in   *)
(* half, and non-prefetchable and prefetchable addresses are kept apart.   *)
ArenasApart ==
  \A b \in bars : ArenaStart[b.kind] <= b.base /\ b.base + b.size <= ArenaEnd[b.kind]
=============================================================================

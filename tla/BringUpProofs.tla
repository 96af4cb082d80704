--------------------------- MODULE BringUpProofs ---------------------------
(***************************************************************************)
(* Theorems about the two parts of the bring-up.                           *)
(*                                                                         *)
(* PciWalk, for every tree of devices, all BAR sizes, window granularities *)
(* and arenas: the bus numbers need no assumption; that non-prefetchable   *)
(* and prefetchable addresses stay apart needs that the demands fit into   *)
(* the arenas (Fits), because the walker has no limit check.               *)
(*                                                                         *)
(* Phase1: ResetInv holds through any number of reset-alls; ColdInv needs  *)
(* that the reset vector was entered with MSR[EE]=0, which reset-all does  *)
(* not do, and so is claimed from power-on to reset-all.                   *)
(***************************************************************************)
EXTENDS PciWalk, Phase1, TLAPS

-----------------------------------------------------------------------------
(* The PCI walk *)

\* Bus numbers: what the recursion keeps between the bridges it is inside of
\* (open) and those it has programmed (closed).
BusInv ==
  /\ \A f \in open : f.bus < nextBus
  /\ \A w \in closed : w.bus <= w.sub /\ w.sub < nextBus
  /\ \A w \in closed : \A n \in w.path : n < nextBus
  /\ \A b \in bars : \A n \in b.path : n < nextBus
  /\ \A f, h \in open : f.bus = h.bus => f = h
  /\ \A f \in open, w \in closed :
       /\ f.bus # w.bus
       /\ f.bus < w.bus <=> f.bus \in w.path
       /\ w.bus < f.bus => w.sub < f.bus
  /\ BusesRoute

\* Every allocator is past everything it has handed out.
AllocInv ==
  /\ \A k \in Kinds : ArenaStart[k] <= next[k]
  /\ \A b \in bars : ArenaStart[b.kind] <= b.base /\ b.base + b.size <= next[b.kind]
  /\ BarsAligned
  /\ \A b, c \in bars : b # c /\ b.kind = c.kind => ~Overlap(b, c)

\* Behind an open bridge are the BARs above its window start.
OpenInv ==
  \A f \in open :
    /\ \A k \in Kinds : /\ f.start[k] % Granule[k] = 0
                        /\ ArenaStart[k] <= f.start[k] /\ f.start[k] <= next[k]
    /\ \A b \in bars : IF f.bus \in b.path THEN f.start[b.kind] <= b.base
                                           ELSE b.base + b.size <= f.start[b.kind]

\* A programmed window is empty or below its allocator.
ClosedInv ==
  \A w \in closed : \A k \in Kinds :
    \/ w.win[k].lo = 0 /\ w.win[k].hi = -1
    \/ ArenaStart[k] <= w.win[k].lo /\ w.win[k].hi < next[k]

ArenaInv == \A k \in Kinds : next[k] <= ArenaEnd[k]

TreeInv == PciTypeOK /\ BusInv /\ AllocInv /\ OpenInv /\ ClosedInv

FitsInv == TreeInv /\ ArenaInv /\ WindowsRoute

-----------------------------------------------------------------------------
(* Division with remainder, for the window granularity and the BAR sizes.   *)
LEMMA DivBounds ==
  ASSUME NEW v \in Nat, NEW a \in Nat \ {0}
  PROVE  v \div a \in Nat /\ (v \div a) * a <= v /\ v < (v \div a) * a + a
BY SMT

(* A multiple of the granularity is its own window base.                    *)
LEMMA DivExact ==
  ASSUME NEW v \in Nat, NEW a \in Nat \ {0}, v % a = 0
  PROVE  (v \div a) * a = v
BY SMT

(* align_up returns a multiple, not below its argument.                     *)
LEMMA AlignUpIsMultiple ==
  ASSUME NEW v \in Nat, NEW a \in Nat \ {0}
  PROVE  AlignUp(v, a) \in Nat /\ v <= AlignUp(v, a) /\ AlignUp(v, a) % a = 0
<1> DEFINE q == (v + a - 1) \div a
<1>1. v + a - 1 \in Nat
  OBVIOUS
<1>2. q \in Nat /\ q * a <= v + a - 1 /\ v + a - 1 < q * a + a
  BY <1>1, DivBounds
<1> HIDE DEF q
<1>3. q * a \in Nat /\ (q * a) % a = 0
  BY <1>2
<1> QED
  BY <1>2, <1>3 DEF AlignUp, q

(* align_up does not leave an arena that ends at a multiple.                *)
LEMMA AlignUpIsBounded ==
  ASSUME NEW v \in Nat, NEW e \in Nat, NEW a \in Nat \ {0}, e % a = 0, v <= e
  PROVE  AlignUp(v, a) <= e
<1> DEFINE q == (v + a - 1) \div a
           p == e \div a
<1>1. p \in Nat /\ p * a = e
  BY DivBounds, DivExact
<1>2. v + a - 1 \in Nat
  OBVIOUS
<1>3. q \in Nat /\ q * a <= v + a - 1
  BY <1>2, DivBounds
<1>4. q * a < (p + 1) * a
  BY <1>1, <1>3
<1> HIDE DEF q, p
<1>5. q < p + 1
  BY <1>1, <1>3, <1>4
<1>6. q <= p
  BY <1>1, <1>3, <1>5
<1>7. q * a <= p * a
  BY <1>1, <1>3, <1>6
<1> QED
  BY <1>1, <1>7 DEF AlignUp, q

(* The LIMIT register reaches exactly to where align_up moves the           *)
(* allocator after the bridge.                                              *)
LEMMA LimitIsAlignUp ==
  ASSUME NEW e \in Nat \ {0}, NEW a \in Nat \ {0}
  PROVE  ((e - 1) \div a) * a + a = AlignUp(e, a)
<1> DEFINE p == (e - 1) \div a
           q == (e + a - 1) \div a
<1>1. e - 1 \in Nat /\ e + a - 1 \in Nat
  OBVIOUS
<1>2. p \in Nat /\ p * a <= e - 1 /\ e - 1 < p * a + a
  BY <1>1, DivBounds
<1>3. q \in Nat /\ q * a <= e + a - 1 /\ e + a - 1 < q * a + a
  BY <1>1, DivBounds
<1> HIDE DEF q, p
<1>4. q * a < (p + 2) * a /\ (p + 1) * a < (q + 1) * a
  BY <1>2, <1>3
<1>5. q < p + 2 /\ p + 1 < q + 1
  BY <1>2, <1>3, <1>4
<1>6. q = p + 1
  BY <1>2, <1>3, <1>5
<1>7. q * a = p * a + a
  BY <1>2, <1>6
<1> QED
  BY <1>7 DEF AlignUp, q, p

(* What bridge_program_window writes for a subtree that started at a        *)
(* multiple of the granularity.                                             *)
LEMMA WindowIsTight ==
  ASSUME NEW k \in Kinds, NEW start \in Nat, NEW end \in Nat,
         start % Granule[k] = 0
  PROVE  LET w == Window(k, start, end) IN
         /\ w \in [lo : Nat, hi : Int]
         /\ end > start => w.lo = start /\ w.hi + 1 = AlignUp(end, Granule[k])
         /\ ~(end > start) => w.lo = 0 /\ w.hi = -1
<1> DEFINE g == Granule[k]
<1>1. g \in Nat \ {0}
  BY GranuleAssumption
<1>2. CASE end > start
  <2>1. (start \div g) * g = start
    BY <1>1, DivExact
  <2>2. end \in Nat \ {0} /\ end - 1 \in Nat
    BY <1>2
  <2>3. ((end - 1) \div g) * g + g = AlignUp(end, g) /\ (end - 1) \div g \in Nat
    BY <1>1, <2>2, LimitIsAlignUp, DivBounds
  <2>4. ((end - 1) \div g) * g \in Nat
    BY <1>1, <2>3
  <2> QED
    BY <1>1, <1>2, <2>1, <2>3, <2>4 DEF Window
<1>3. CASE ~(end > start)
  BY <1>3 DEF Window
<1> QED
  BY <1>2, <1>3

-----------------------------------------------------------------------------
(* A BAR is placed at a multiple of its size above everything handed out.   *)
LEMMA PlaceBarStep ==
  ASSUME TreeInv, NEW k \in Kinds, NEW size \in Sizes[k], PlaceBar(k, size)
  PROVE  TreeInv'
<1> DEFINE base == AlignUp(next[k], size)
           nb == [kind |-> k, base |-> base, size |-> size, path |-> Path]
<1>0. size \in Nat \ {0} /\ PciTypeOK
  BY SizesAssumption DEF TreeInv
<1>1. base \in Nat /\ next[k] <= base /\ base % size = 0
  BY <1>0, AlignUpIsMultiple DEF PciTypeOK
<1>2. Path \subseteq Buses /\ \A n \in Path : n < nextBus
  BY DEF TreeInv, PciTypeOK, BusInv, Path
<1>3. /\ bars' = bars \cup {nb} /\ next' = [next EXCEPT ![k] = base + size]
      /\ cmd' = cmd \cup {Decoder(k), "master"}
      /\ UNCHANGED <<nextBus, open, closed>>
  BY DEF PlaceBar
<1> HIDE DEF base
<1>4. /\ nb \in [kind : Kinds, base : Nat, size : Nat \ {0}, path : SUBSET Buses]
      /\ nb.kind = k /\ nb.base = base /\ nb.size = size /\ nb.path = Path
  BY <1>0, <1>1, <1>2
<1> HIDE DEF nb
<1>5. /\ next' \in [Kinds -> Nat] /\ next'[k] = base + size
      /\ \A j \in Kinds : next[j] <= next'[j]
  BY <1>0, <1>1, <1>3 DEF PciTypeOK
<1>6. PciTypeOK'
  BY <1>0, <1>3, <1>4, <1>5 DEF PciTypeOK, Decoder, Bits
<1>7. BusInv'
  BY <1>2, <1>3, <1>4 DEF TreeInv, BusInv, BusesRoute
<1>8. AllocInv'
  <2>1. \A j \in Kinds : ArenaStart[j] <= next'[j]
    BY <1>0, <1>5, ArenaAssumption DEF TreeInv, AllocInv, PciTypeOK
  <2>2. \A b \in bars' : ArenaStart[b.kind] <= b.base /\ b.base + b.size <= next'[b.kind]
    BY <1>0, <1>1, <1>3, <1>4, <1>5, ArenaAssumption DEF TreeInv, AllocInv, PciTypeOK
  <2>3. BarsAligned'
    BY <1>1, <1>3, <1>4 DEF TreeInv, AllocInv, BarsAligned
  <2>4. \A b \in bars : b.kind = k => b.base + b.size <= base
    BY <1>0, <1>1, ArenaAssumption DEF TreeInv, AllocInv, PciTypeOK
  <2>5. \A b, c \in bars' : b # c /\ b.kind = c.kind => ~Overlap(b, c)
    BY <1>0, <1>1, <1>3, <1>4, <2>4 DEF TreeInv, AllocInv, PciTypeOK, Overlap
  <2> QED
    BY <2>1, <2>2, <2>3, <2>5 DEF AllocInv, Overlap
<1>9. OpenInv'
  <2>1. \A f \in open : f.bus \in Path /\ f.start[k] <= base
    BY <1>0, <1>1 DEF TreeInv, OpenInv, PciTypeOK, Path
  <2>2. \A f \in open, j \in Kinds : f.start[j] <= next'[j]
    BY <1>0, <1>5 DEF TreeInv, OpenInv, PciTypeOK
  <2> QED
    BY <1>3, <1>4, <2>1, <2>2 DEF TreeInv, OpenInv
<1>10. ClosedInv'
  BY <1>0, <1>3, <1>5 DEF TreeInv, ClosedInv, PciTypeOK
<1> QED
  BY <1>6, <1>7, <1>8, <1>9, <1>10 DEF TreeInv

(* Entering a bridge takes a fresh bus and pads the allocators.             *)
LEMMA EnterBridgeStep ==
  ASSUME TreeInv, EnterBridge
  PROVE  TreeInv'
<1> DEFINE start == [k \in Kinds |-> AlignUp(next[k], Granule[k])]
           nf == [bus |-> nextBus, start |-> start, cmd |-> cmd]
<1>0. PciTypeOK /\ nextBus \in Buses
  BY BoundAssumption DEF TreeInv, PciTypeOK, Buses, EnterBridge
<1>1. /\ start \in [Kinds -> Nat]
      /\ \A k \in Kinds : next[k] <= start[k] /\ start[k] % Granule[k] = 0
  BY <1>0, GranuleAssumption, AlignUpIsMultiple DEF PciTypeOK
<1>2. /\ next' = start /\ open' = open \cup {nf} /\ nextBus' = nextBus + 1
      /\ cmd' = {} /\ UNCHANGED <<closed, bars>>
  BY DEF EnterBridge
<1> HIDE DEF start
<1>3. /\ nf \in [bus : Buses, start : [Kinds -> Nat], cmd : SUBSET Bits]
      /\ nf.bus = nextBus /\ nf.start = start
  BY <1>0, <1>1 DEF PciTypeOK
<1> HIDE DEF nf
<1>4. PciTypeOK'
  BY <1>0, <1>1, <1>2, <1>3, BoundAssumption DEF PciTypeOK, Buses
<1>5. BusInv'
  <2>1. nextBus \in Nat /\ nextBus' = nextBus + 1
    BY <1>0, <1>2, BoundAssumption DEF Buses
  <2>2. /\ \A f \in open' : f.bus < nextBus'
        /\ \A w \in closed' : w.bus <= w.sub /\ w.sub < nextBus'
        /\ \A w \in closed' : \A n \in w.path : n < nextBus'
        /\ \A b \in bars' : \A n \in b.path : n < nextBus'
    BY <1>0, <1>2, <1>3, <2>1, BoundAssumption DEF TreeInv, BusInv, PciTypeOK, Buses
  <2>3. \A f, h \in open' : f.bus = h.bus => f = h
    BY <1>0, <1>2, <1>3, <2>1, BoundAssumption DEF TreeInv, BusInv, PciTypeOK, Buses
  <2>4. \A f \in open', w \in closed' :
          /\ f.bus # w.bus
          /\ f.bus < w.bus <=> f.bus \in w.path
          /\ w.bus < f.bus => w.sub < f.bus
    BY <1>0, <1>2, <1>3, <2>1, BoundAssumption DEF TreeInv, BusInv, PciTypeOK, Buses
  <2> QED
    BY <1>2, <2>2, <2>3, <2>4 DEF TreeInv, BusInv, BusesRoute
<1>6. AllocInv'
  BY <1>0, <1>1, <1>2, ArenaAssumption DEF TreeInv, AllocInv, PciTypeOK, BarsAligned, Overlap
<1>7. OpenInv'
  <2>1. \A f \in open, j \in Kinds : f.start[j] <= next'[j]
    BY <1>0, <1>1, <1>2 DEF TreeInv, OpenInv, PciTypeOK
  <2>2. \A b \in bars : nf.bus \notin b.path /\ b.base + b.size <= start[b.kind]
    BY <1>0, <1>1, <1>3, BoundAssumption DEF TreeInv, BusInv, AllocInv, PciTypeOK, Buses
  <2>3. \A k \in Kinds : ArenaStart[k] <= start[k]
    BY <1>0, <1>1, ArenaAssumption DEF TreeInv, AllocInv, PciTypeOK
  <2> QED
    BY <1>0, <1>1, <1>2, <1>3, <2>1, <2>2, <2>3 DEF TreeInv, OpenInv, PciTypeOK
<1>8. ClosedInv'
  BY <1>0, <1>1, <1>2 DEF TreeInv, ClosedInv, PciTypeOK
<1> QED
  BY <1>4, <1>5, <1>6, <1>7, <1>8 DEF TreeInv

(* What LeaveBridge records for the bridge f it closes, and where it leaves *)
(* the allocators.                                                          *)
LEMMA LeaveBridgeFacts ==
  ASSUME TreeInv, NEW f \in open, NEW k \in Kinds,
         next' = [j \in Kinds |-> IF j \in Used(f) THEN AlignUp(next[j], Granule[j]) ELSE next[j]]
  PROVE  LET w == Window(k, f.start[k], next[k]) IN
         /\ w \in [lo : Nat, hi : Int]
         /\ next'[k] \in Nat /\ next[k] <= next'[k]
         /\ next[k] > f.start[k] => w.lo = f.start[k] /\ w.hi + 1 = next'[k]
         /\ ~(next[k] > f.start[k]) => w.lo = 0 /\ w.hi = -1
<1>1. next[k] \in Nat /\ f.start[k] \in Nat /\ Granule[k] \in Nat \ {0}
  BY GranuleAssumption DEF TreeInv, PciTypeOK
<1>2. f.start[k] % Granule[k] = 0
  BY DEF TreeInv, OpenInv
<1>3. k \in Used(f) <=> next[k] > f.start[k]
  BY DEF Used
<1>4. AlignUp(next[k], Granule[k]) \in Nat /\ next[k] <= AlignUp(next[k], Granule[k])
  BY <1>1, AlignUpIsMultiple
<1> QED
  BY <1>1, <1>2, <1>3, <1>4, WindowIsTight

(* Leaving the innermost bridge closes the bus range and the windows that   *)
(* the recursion has filled.                                                *)
LEMMA LeaveBridgeStep ==
  ASSUME TreeInv, LeaveBridge
  PROVE  TreeInv'
<1>0. PICK f \in open :
        /\ Innermost(f)
        /\ open' = open \ {f}
        /\ closed' = closed \cup
             {[bus |-> f.bus, sub |-> nextBus - 1,
               win |-> [k \in Kinds |-> Window(k, f.start[k], next[k])],
               cmd |-> f.cmd \cup {Decoder(k) : k \in Used(f)},
               path |-> Path \ {f.bus}]}
        /\ cmd' = {}
        /\ next' = [k \in Kinds |-> IF k \in Used(f) THEN AlignUp(next[k], Granule[k]) ELSE next[k]]
        /\ UNCHANGED <<nextBus, bars>>
  BY DEF LeaveBridge
<1> DEFINE win == [k \in Kinds |-> Window(k, f.start[k], next[k])]
           nw == [bus |-> f.bus, sub |-> nextBus - 1, win |-> win,
                  cmd |-> f.cmd \cup {Decoder(k) : k \in Used(f)},
                  path |-> Path \ {f.bus}]
<1>1. PciTypeOK /\ f.bus \in Buses /\ nextBus - 1 \in Buses
  BY BoundAssumption DEF TreeInv, PciTypeOK, BusInv, Buses
<1>2. /\ next' \in [Kinds -> Nat]
      /\ \A k \in Kinds : next[k] <= next'[k]
      /\ win \in [Kinds -> [lo : Nat, hi : Int]]
      /\ \A k \in Kinds :
           \/ win[k].lo = 0 /\ win[k].hi = -1
           \/ win[k].lo = f.start[k] /\ win[k].hi + 1 = next'[k]
  <2>1. \A k \in Kinds : /\ next'[k] \in Nat
                         /\ next[k] <= next'[k]
                         /\ Window(k, f.start[k], next[k]) \in [lo : Nat, hi : Int]
                         /\ \/ win[k].lo = 0 /\ win[k].hi = -1
                            \/ win[k].lo = f.start[k] /\ win[k].hi + 1 = next'[k]
    BY <1>0, LeaveBridgeFacts
  <2> QED
    BY <1>0, <2>1
<1>3. /\ Path \subseteq Buses /\ f.cmd \subseteq Bits
      /\ \A n \in Path : n < nextBus
      /\ {Decoder(k) : k \in Used(f)} \subseteq Bits
  BY DEF TreeInv, PciTypeOK, BusInv, Path, Decoder, Bits
<1> HIDE DEF win
<1>4. /\ nw \in [bus : Buses, sub : Buses, path : SUBSET Buses, cmd : SUBSET Bits,
                 win : [Kinds -> [lo : Nat, hi : Int]]]
      /\ nw.bus = f.bus /\ nw.sub = nextBus - 1 /\ nw.win = win /\ nw.path = Path \ {f.bus}
  BY <1>1, <1>2, <1>3
<1>5. closed' = closed \cup {nw}
  BY <1>0 DEF win
<1> HIDE DEF nw
<1>6. PciTypeOK'
  BY <1>0, <1>1, <1>2, <1>4, <1>5 DEF PciTypeOK
<1>7. BusInv'
  <2>0. /\ nextBus \in Nat /\ Buses \subseteq Nat
        /\ \A h \in open : h.bus \in Nat
        /\ \A w \in closed : w.bus \in Nat /\ w.sub \in Nat
    BY <1>1, BoundAssumption DEF PciTypeOK, Buses
  <2>7. nw.bus <= nw.sub /\ nw.sub < nextBus
    BY <1>4, <2>0 DEF TreeInv, BusInv
  <2>8. \A w \in closed' : w.bus <= w.sub /\ w.sub < nextBus'
    BY <1>0, <1>5, <2>7 DEF TreeInv, BusInv
  <2>9. \A w \in closed' : \A n \in w.path : n < nextBus'
    BY <1>0, <1>3, <1>4, <1>5 DEF TreeInv, BusInv
  <2>1. /\ \A h \in open' : h.bus < nextBus'
        /\ \A b \in bars' : \A n \in b.path : n < nextBus'
        /\ \A h, g \in open' : h.bus = g.bus => h = g
    BY <1>0 DEF TreeInv, BusInv
  <2>2. \A h \in open' : h.bus < f.bus /\ h.bus \in nw.path
    BY <1>0, <1>4, <2>0 DEF TreeInv, BusInv, Innermost, Path
  <2>3. \A h \in open', w \in closed' :
          /\ h.bus # w.bus
          /\ h.bus < w.bus <=> h.bus \in w.path
          /\ w.bus < h.bus => w.sub < h.bus
    BY <1>0, <1>4, <1>5, <2>0, <2>2 DEF TreeInv, BusInv
  <2>4. \A w \in closed : /\ w.bus # nw.bus
                          /\ w.bus \in nw.bus .. nw.sub <=> nw.bus \in w.path
    BY <1>4, <2>0 DEF TreeInv, BusInv
  <2>5. \A w \in closed : ~(nw.bus \in w.bus .. w.sub) /\ w.bus \notin nw.path
    BY <1>4, <2>0 DEF TreeInv, BusInv, Path
  <2>6. BusesRoute'
    <3> SUFFICES ASSUME NEW v \in closed', NEW w \in closed'
                 PROVE  /\ v.bus = w.bus => v = w
                        /\ v # w => (v.bus \in w.bus .. w.sub <=> w.bus \in v.path)
      BY DEF BusesRoute
    <3>1. CASE v \in closed /\ w \in closed
      BY <3>1 DEF TreeInv, BusInv, BusesRoute
    <3>2. CASE v = nw /\ w \in closed
      BY <3>2, <2>4, <2>5
    <3>3. CASE v \in closed /\ w = nw
      BY <3>3, <2>4, <2>5
    <3>4. CASE v = nw /\ w = nw
      BY <3>4
    <3> QED
      BY <1>5, <3>1, <3>2, <3>3, <3>4
  <2> QED
    BY <2>1, <2>8, <2>9, <2>3, <2>6 DEF BusInv
<1>8. AllocInv'
  BY <1>0, <1>1, <1>2, ArenaAssumption DEF TreeInv, AllocInv, PciTypeOK, BarsAligned, Overlap
<1>9. OpenInv'
  <2>1. \A h \in open, j \in Kinds : h.start[j] <= next'[j]
    BY <1>1, <1>2 DEF TreeInv, OpenInv, PciTypeOK
  <2> QED
    BY <1>0, <2>1 DEF TreeInv, OpenInv
<1>10. ClosedInv'
  <2>1. \A k \in Kinds : \/ nw.win[k].lo = 0 /\ nw.win[k].hi = -1
                         \/ ArenaStart[k] <= nw.win[k].lo /\ nw.win[k].hi < next'[k]
    BY <1>2, <1>4 DEF TreeInv, OpenInv
  <2>2. \A w \in closed, k \in Kinds :
           \/ w.win[k].lo = 0 /\ w.win[k].hi = -1
           \/ ArenaStart[k] <= w.win[k].lo /\ w.win[k].hi < next'[k]
    BY <1>1, <1>2 DEF TreeInv, ClosedInv, PciTypeOK
  <2> QED
    BY <1>5, <2>1, <2>2 DEF ClosedInv
<1> QED
  BY <1>6, <1>7, <1>8, <1>9, <1>10 DEF TreeInv

LEMMA TreeInvStep ==
  ASSUME TreeInv, [PciNext]_pciVars
  PROVE  TreeInv'
<1>1. CASE UNCHANGED pciVars
  BY <1>1 DEF pciVars, TreeInv, PciTypeOK, BusInv, BusesRoute, AllocInv, BarsAligned, Overlap,
              OpenInv, ClosedInv
<1>2. CASE NextFunction
  BY <1>2 DEF NextFunction, TreeInv, PciTypeOK, BusInv, BusesRoute, AllocInv, BarsAligned,
              Overlap, OpenInv, ClosedInv
<1> QED
  BY <1>1, <1>2, PlaceBarStep, EnterBridgeStep, LeaveBridgeStep DEF PciNext

LEMMA InitTreeInv == PciInit => TreeInv
BY ArenaAssumption, BoundAssumption
   DEF PciInit, TreeInv, PciTypeOK, BusInv, BusesRoute, AllocInv, BarsAligned, Overlap,
       OpenInv, ClosedInv

LEMMA TreeInvHolds == PciSpec => []TreeInv
BY InitTreeInv, TreeInvStep, PTL DEF PciSpec

-----------------------------------------------------------------------------
(* With demands that fit, every allocator stays in its arena.               *)
LEMMA ArenaInvStep ==
  ASSUME Fits, TreeInv, ArenaInv, [PciNext]_pciVars
  PROVE  ArenaInv'
<1>0. /\ \A k \in Kinds : next[k] \in Nat /\ next[k] <= ArenaEnd[k]
      /\ \A k \in Kinds : AlignUp(next[k], Granule[k]) <= ArenaEnd[k]
  <2>1. \A k \in Kinds : next[k] \in Nat /\ next[k] <= ArenaEnd[k]
    BY DEF TreeInv, PciTypeOK, ArenaInv
  <2> QED
    BY <2>1, AlignUpIsBounded, GranuleAssumption, ArenaAssumption
<1>1. CASE UNCHANGED pciVars
  BY <1>1 DEF pciVars, ArenaInv
<1>2. CASE NextFunction
  BY <1>2 DEF NextFunction, ArenaInv
<1>3. ASSUME NEW k \in Kinds, NEW size \in Sizes[k], PlaceBar(k, size)
      PROVE  ArenaInv'
  BY <1>0, <1>3 DEF PlaceBar, ArenaInv, TreeInv, PciTypeOK
<1>4. CASE EnterBridge
  BY <1>0, <1>4 DEF EnterBridge, ArenaInv
<1>5. CASE LeaveBridge
  <2>1. PICK f \in open :
          next' = [k \in Kinds |-> IF k \in Used(f) THEN AlignUp(next[k], Granule[k]) ELSE next[k]]
    BY <1>5 DEF LeaveBridge
  <2> QED
    BY <1>0, <2>1 DEF ArenaInv
<1> QED
  BY <1>1, <1>2, <1>3, <1>4, <1>5 DEF PciNext

(* The arenas of two kinds that share an address space lie apart.           *)
LEMMA KindsApart ==
  ASSUME NEW j \in Kinds, NEW k \in Kinds, Space(j) = Space(k), j # k
  PROVE  /\ ArenaStart[j] \in Nat /\ ArenaEnd[j] \in Nat
         /\ ArenaStart[k] \in Nat /\ ArenaEnd[k] \in Nat
         /\ ArenaEnd[j] <= ArenaStart[k] \/ ArenaEnd[k] <= ArenaStart[j]
<1>1. (j = "mem" /\ k = "pref") \/ (j = "pref" /\ k = "mem")
  BY DEF Space, Kinds
<1> QED
  BY <1>1, ArenaAssumption

(* A window that is empty or in its arena is outside of what the arena and  *)
(* the allocator of another kind hold.                                      *)
LEMMA WindowsRouteStep ==
  ASSUME Fits, FitsInv, [PciNext]_pciVars
  PROVE  WindowsRoute'
<1> USE DEF FitsInv
<1>0. PciTypeOK /\ PciTypeOK' /\ TreeInv' /\ ArenaInv'
  BY TreeInvStep, ArenaInvStep DEF TreeInv
<1>1. CASE UNCHANGED pciVars
  BY <1>1 DEF pciVars, WindowsRoute, Within, Outside
<1>2. CASE NextFunction
  BY <1>2 DEF NextFunction, WindowsRoute, Within, Outside
<1>3. ASSUME NEW k \in Kinds, NEW size \in Sizes[k], PlaceBar(k, size)
      PROVE  WindowsRoute'
  <2> DEFINE base == AlignUp(next[k], size)
             nb == [kind |-> k, base |-> base, size |-> size, path |-> Path]
  <2>0. size \in Nat \ {0} /\ base \in Nat /\ next[k] \in Nat /\ next[k] <= base
    BY <1>0, SizesAssumption, AlignUpIsMultiple DEF PciTypeOK
  <2>1. bars' = bars \cup {nb} /\ closed' = closed /\ next'[k] = base + size
    BY <1>0, <1>3 DEF PlaceBar, PciTypeOK
  <2> HIDE DEF base
  <2>2. nb.kind = k /\ nb.base = base /\ nb.size = size /\ nb.path = Path
    OBVIOUS
  <2> HIDE DEF nb
  <2>3. \A w \in closed : w.bus \notin nb.path
    BY <2>2 DEF TreeInv, BusInv, Path
  <2>4. ArenaStart[k] <= base /\ base + size <= ArenaEnd[k]
    BY <1>0, <2>0, <2>1, ArenaAssumption DEF TreeInv, AllocInv, ArenaInv
  <2>5. ASSUME NEW w \in closed, NEW j \in Kinds, Space(j) = Space(k)
        PROVE  Outside(nb, w.win[j])
    <3> DEFINE lo == w.win[j].lo
               hi == w.win[j].hi
    <3>1. lo \in Nat /\ hi \in Int /\ next[j] \in Nat /\ ArenaEnd[j] \in Nat
      BY <1>0, ArenaAssumption DEF PciTypeOK
    <3>2. (lo = 0 /\ hi = -1) \/ (ArenaStart[j] <= lo /\ hi < next[j] /\ hi < ArenaEnd[j])
      BY <3>1 DEF TreeInv, ClosedInv, ArenaInv
    <3> HIDE DEF lo, hi
    <3>3. CASE hi = -1
      BY <3>3, <2>0, <2>2 DEF Outside, hi
    <3>4. CASE hi # -1 /\ j = k
      BY <3>1, <3>2, <3>4, <2>0, <2>2 DEF Outside, hi
    <3>5. CASE hi # -1 /\ j # k
      <4>1. /\ ArenaStart[j] \in Nat /\ ArenaEnd[j] \in Nat
            /\ ArenaStart[k] \in Nat /\ ArenaEnd[k] \in Nat
            /\ ArenaEnd[j] <= ArenaStart[k] \/ ArenaEnd[k] <= ArenaStart[j]
        BY <2>5, <3>5, KindsApart
      <4>2. ArenaStart[j] <= lo /\ hi < ArenaEnd[j]
        BY <3>2, <3>5
      <4>3. base + size - 1 < lo \/ hi < base
        BY <3>1, <4>1, <4>2, <2>0, <2>4
      <4> QED
        BY <4>3, <2>2 DEF Outside, lo, hi
    <3> QED
      BY <3>3, <3>4, <3>5
  <2> QED
    BY <2>1, <2>2, <2>3, <2>5 DEF WindowsRoute, Within, Outside
<1>4. CASE EnterBridge
  BY <1>4 DEF EnterBridge, WindowsRoute, Within, Outside
<1>5. CASE LeaveBridge
  <2>0. PICK f \in open :
          /\ closed' = closed \cup
               {[bus |-> f.bus, sub |-> nextBus - 1,
                 win |-> [k \in Kinds |-> Window(k, f.start[k], next[k])],
                 cmd |-> f.cmd \cup {Decoder(k) : k \in Used(f)},
                 path |-> Path \ {f.bus}]}
          /\ next' = [k \in Kinds |-> IF k \in Used(f) THEN AlignUp(next[k], Granule[k]) ELSE next[k]]
          /\ UNCHANGED bars
    BY <1>5 DEF LeaveBridge
  <2> DEFINE win == [k \in Kinds |-> Window(k, f.start[k], next[k])]
             nw == [bus |-> f.bus, sub |-> nextBus - 1, win |-> win,
                    cmd |-> f.cmd \cup {Decoder(k) : k \in Used(f)},
                    path |-> Path \ {f.bus}]
  <2>1. \A k \in Kinds :
          /\ win[k].lo \in Nat /\ win[k].hi \in Int
          /\ next'[k] \in Nat /\ next[k] <= next'[k]
          /\ next[k] > f.start[k] => win[k].lo = f.start[k] /\ win[k].hi + 1 = next'[k]
          /\ ~(next[k] > f.start[k]) => win[k].lo = 0 /\ win[k].hi = -1
    BY <2>0, LeaveBridgeFacts
  <2> HIDE DEF win
  <2>2. nw.bus = f.bus /\ nw.win = win /\ nw.cmd = f.cmd \cup {Decoder(k) : k \in Used(f)}
    OBVIOUS
  <2>3. closed' = closed \cup {nw}
    BY <2>0 DEF win
  <2> HIDE DEF nw
  <2>4. ASSUME NEW b \in bars
        PROVE  IF nw.bus \in b.path
                 THEN Within(b, nw.win[b.kind]) /\ Decoder(b.kind) \in nw.cmd
                 ELSE \A k \in Kinds : Space(k) = Space(b.kind) => Outside(b, nw.win[k])
    <3>1. /\ b.kind \in Kinds /\ b.base \in Nat /\ b.size \in Nat \ {0}
          /\ \A k \in Kinds : /\ f.start[k] \in Nat /\ next[k] \in Nat
                              /\ ArenaStart[k] \in Nat /\ ArenaEnd[k] \in Nat
      BY <1>0, ArenaAssumption DEF PciTypeOK
    <3>2. b.base + b.size <= next[b.kind] /\ ArenaStart[b.kind] <= b.base
      BY DEF TreeInv, AllocInv
    <3>3. CASE f.bus \in b.path
      <4>1. f.start[b.kind] <= b.base
        BY <3>3 DEF TreeInv, OpenInv
      <4>2. next[b.kind] > f.start[b.kind]
        BY <3>1, <3>2, <4>1
      <4>3. Within(b, win[b.kind])
        BY <2>1, <3>1, <3>2, <4>1, <4>2 DEF Within
      <4>4. b.kind \in Used(f)
        BY <3>1, <4>2 DEF Used
      <4> QED
        BY <2>2, <3>3, <4>3, <4>4
    <3>4. CASE f.bus \notin b.path
      <4>1. b.base + b.size <= f.start[b.kind]
        BY <3>4 DEF TreeInv, OpenInv
      <4>2. ASSUME NEW k \in Kinds, Space(k) = Space(b.kind)
            PROVE  Outside(b, win[k])
        <5>1. CASE ~(next[k] > f.start[k])
          BY <5>1, <2>1, <3>1 DEF Outside
        <5>2. CASE next[k] > f.start[k] /\ k = b.kind
          BY <5>2, <2>1, <3>1, <4>1 DEF Outside
        <5>3. CASE next[k] > f.start[k] /\ k # b.kind
          <6>1. ArenaStart[k] <= win[k].lo /\ win[k].hi < ArenaEnd[k]
            BY <1>0, <5>3, <2>1, <3>1 DEF ArenaInv, TreeInv, OpenInv
          <6>2. b.base + b.size <= ArenaEnd[b.kind]
            BY <3>1, <3>2 DEF ArenaInv
          <6>3. b.base + b.size - 1 < win[k].lo \/ win[k].hi < b.base
            <7>1. /\ ArenaStart[k] \in Nat /\ ArenaEnd[k] \in Nat
                  /\ ArenaStart[b.kind] \in Nat /\ ArenaEnd[b.kind] \in Nat
                  /\ ArenaEnd[k] <= ArenaStart[b.kind] \/ ArenaEnd[b.kind] <= ArenaStart[k]
              BY <3>1, <4>2, <5>3, KindsApart
            <7>2. win[k].lo \in Nat /\ win[k].hi \in Int
              BY <2>1
            <7>3. b.base \in Nat /\ b.size \in Nat \ {0} /\ ArenaStart[b.kind] <= b.base
              BY <3>1, <3>2
            <7> QED
              BY <6>1, <6>2, <7>1, <7>2, <7>3
          <6> QED
            BY <6>3 DEF Outside
        <5> QED
          BY <5>1, <5>2, <5>3
      <4> QED
        BY <2>2, <3>4, <4>2
    <3> QED
      BY <3>3, <3>4
  <2> QED
    BY <2>0, <2>3, <2>4 DEF WindowsRoute, Within, Outside
<1> QED
  BY <1>1, <1>2, <1>3, <1>4, <1>5 DEF PciNext

LEMMA FitsInvHolds == Fits => (PciSpec => []FitsInv)
<1> SUFFICES ASSUME Fits PROVE PciSpec => []FitsInv
  OBVIOUS
<1>1. PciInit => ArenaInv /\ WindowsRoute
  BY ArenaAssumption DEF PciInit, ArenaInv, WindowsRoute
<1>2. FitsInv /\ [PciNext]_pciVars => FitsInv'
  BY TreeInvStep, ArenaInvStep, WindowsRouteStep DEF FitsInv
<1>3. PciInit => FitsInv
  BY <1>1, InitTreeInv DEF FitsInv
<1> QED
  BY <1>2, <1>3, PTL DEF PciSpec

-----------------------------------------------------------------------------
(* The allocators, bus numbers and register contents of pci_walk keep their *)
(* ranges, whatever tree it walks.                                          *)
THEOREM PciTypeCorrect == PciSpec => []PciTypeOK
<1>1. TreeInv => PciTypeOK
  BY DEF TreeInv
<1> QED
  BY <1>1, TreeInvHolds, PTL

(* Every BAR that probe_assign_and_print_bars places lies at a multiple of  *)
(* its size, for any sizes and any padding by bridges.                      *)
THEOREM BarsAreAligned == PciSpec => []BarsAligned
<1>1. TreeInv => BarsAligned
  BY DEF TreeInv, AllocInv
<1> QED
  BY <1>1, TreeInvHolds, PTL

(* The bus numbers that pci_scan_function writes are unique, and every      *)
(* bridge claims exactly the buses behind it.                               *)
THEOREM BusesAreRouted == PciSpec => []BusesRoute
<1>1. TreeInv => BusesRoute
  BY DEF TreeInv, BusInv
<1> QED
  BY <1>1, TreeInvHolds, PTL

(* No two BARs overlap when the demands fit into the arenas: BARs of one    *)
(* kind because the allocator only grows, memory BARs of the two kinds      *)
(* because the arenas are apart.                                            *)
THEOREM BarsAreDisjoint == Fits => (PciSpec => []BarsDisjoint)
<1>1. FitsInv => BarsDisjoint
  <2> SUFFICES ASSUME FitsInv, NEW b \in bars, NEW c \in bars, b # c,
                      Space(b.kind) = Space(c.kind)
               PROVE  ~Overlap(b, c)
    BY DEF BarsDisjoint
  <2>1. CASE b.kind = c.kind
    BY <2>1 DEF FitsInv, TreeInv, AllocInv
  <2>2. CASE b.kind # c.kind
    <3>1. /\ b.base \in Nat /\ b.size \in Nat \ {0} /\ c.base \in Nat /\ c.size \in Nat \ {0}
          /\ b.kind \in Kinds /\ c.kind \in Kinds
          /\ \A k \in Kinds : next[k] \in Nat
      BY DEF FitsInv, TreeInv, PciTypeOK
    <3>2. /\ ArenaStart[b.kind] <= b.base /\ b.base + b.size <= ArenaEnd[b.kind]
          /\ ArenaStart[c.kind] <= c.base /\ c.base + c.size <= ArenaEnd[c.kind]
      BY <3>1, ArenaAssumption DEF FitsInv, TreeInv, AllocInv, ArenaInv
    <3>3. (b.kind = "mem" /\ c.kind = "pref") \/ (b.kind = "pref" /\ c.kind = "mem")
      BY <2>2, <3>1 DEF Space, Kinds
    <3> QED
      BY <3>1, <3>2, <3>3, ArenaAssumption DEF Overlap, Kinds
  <2> QED
    BY <2>1, <2>2
<1> QED
  BY <1>1, FitsInvHolds, PTL

(* When the demands fit, every bridge forwards exactly the BARs behind it:  *)
(* they lie in its enabled windows, and no other BAR does, although the     *)
(* registers round the windows to their granularity.                        *)
THEOREM WindowsAreRouted == Fits => (PciSpec => []WindowsRoute)
<1>1. FitsInv => WindowsRoute
  BY DEF FitsInv
<1> QED
  BY <1>1, FitsInvHolds, PTL

-----------------------------------------------------------------------------
(* Reset and Phase 1 *)

\* Interrupts are enabled only once the vectors work, and an uninitialised
\* handler slot is only there before .bss is cleared.
ResetInv ==
  /\ TypeOK
  /\ pc # "lost"
  /\ EE => VectorsLive
  /\ pc \notin {"bss", "vectors"} => vectors
  /\ pc \notin {"bss", "vectors", "msr"} => "IP" \notin msr
  /\ handler = "garbage" => pc = "bss" /\ ~EE

\* The gates and .bss along a boot from power-on.
BeforeTest == {"bss", "vectors", "msr", "uart", "calibrate", "arm", "testOn"}

ColdInv ==
  /\ EE => pc \in {"spin", "run"}
  /\ pc \notin {"bss", "vectors", "msr", "uart", "calibrate"} => reload = DecReload
  /\ "cpu0" \in gates => pc \in {"enable", "run"}
  /\ pc \in {"unmask", "enable", "run"} => handler = "uart_rx_handler"
  /\ pc \in BeforeTest \ {"bss"} => ticks = 0
  /\ pc \in {"spin", "testOff"} /\ ticks > 0 => fired
  /\ verdict = "ok" => fired

BootInv == ResetInv /\ (warm = "no" => ColdInv)

-----------------------------------------------------------------------------
USE DecReloadAssumption, TickModAssumption, MaxKeysAssumption
    DEF TypeOK, Steps, Gates

(* Every step keeps the type, for all steps at once. *)
LEMMA CauseIsBoolean ==
  ASSUME TypeOK, Next
  PROVE  cause' \in BOOLEAN
BY DEF Next, CauseFollows, Intr

LEMMA ResetInvStep ==
  ASSUME ResetInv, [Next]_vars
  PROVE  ResetInv'
<1> USE DEF ResetInv, VectorsLive, EE, AtStep
<1>1. CASE UNCHANGED vars
  BY <1>1 DEF vars, bssVars, uartVars, histVars
<1>2. CASE Next
  <2>0. cause' \in BOOLEAN
    BY <1>2, CauseIsBoolean
  <2>1. CASE ZeroBss
    BY <2>0, <2>1 DEF ZeroBss, uartVars, histVars
  <2>2. CASE CopyVectors
    BY <2>0, <2>2 DEF CopyVectors, bssVars, uartVars, histVars
  <2>3. CASE FixMsr
    BY <2>0, <2>3 DEF FixMsr, bssVars, uartVars, histVars
  <2>4. CASE UartInit
    BY <2>0, <2>4 DEF UartInit, bssVars, histVars
  <2>5. CASE TimerCalibrate
    BY <2>0, <2>5 DEF TimerCalibrate, uartVars, histVars
  <2>6. CASE TimerArm
    BY <2>0, <2>6 DEF TimerArm, bssVars, uartVars, histVars
  <2>7. CASE EnableEi("testOn", "spin")
    BY <2>0, <2>7 DEF EnableEi, bssVars, uartVars, histVars
  <2>7e. CASE EnableEi("enable", "run")
    BY <2>0, <2>7e DEF EnableEi, bssVars, uartVars, histVars
  <2>8. CASE DisableEi
    BY <2>0, <2>8 DEF DisableEi, bssVars, uartVars, histVars
  <2>9. CASE SelfTestVerdict
    BY <2>0, <2>9 DEF SelfTestVerdict, bssVars, uartVars
  <2>10. CASE EiInit
    BY <2>0, <2>10 DEF EiInit, uartVars
  <2>11. CASE ExtintUartInstall
    <3>1. CASE OpenGate("level", "pic", "level")
      BY <2>0, <3>1 DEF OpenGate, bssVars, uartVars, histVars
    <3>2. CASE OpenGate("irq4", "ier", "irq4")
      BY <2>0, <3>2 DEF OpenGate, bssVars, uartVars, histVars
    <3>3. CASE OpenGate("ier", "gpp", "ier")
      BY <2>0, <3>3 DEF OpenGate, bssVars, uartVars, histVars
    <3>4. CASE OpenGate("gpp", "install", "gpp")
      BY <2>0, <3>4 DEF OpenGate, bssVars, uartVars, histVars
    <3>5. CASE OpenGate("unmask", "enable", "cpu0")
      BY <2>0, <3>5 DEF OpenGate, bssVars, uartVars, histVars
    <3>6. CASE PicInit
      BY <2>0, <3>6 DEF PicInit, bssVars, uartVars, histVars
    <3>7. CASE SetHandler
      BY <2>0, <3>7 DEF SetHandler, uartVars, histVars
    <3> QED
      BY <2>11, <3>1, <3>2, <3>3, <3>4, <3>5, <3>6, <3>7 DEF ExtintUartInstall
  <2>12. CASE MachineResetAll
    BY <2>0, <2>12 DEF MachineResetAll, bssVars, uartVars
  <2>13. CASE DecrementerVector
    BY <2>0, <2>13 DEF DecrementerVector, DecInterrupt, bssVars,
                       uartVars
  <2>14. CASE ExtIntVector
    BY <2>0, <2>14 DEF ExtIntVector, ExtInterrupt, bssVars, histVars
  <2>15. CASE KeyArrives
    BY <2>0, <2>15 DEF KeyArrives, bssVars, histVars
  <2>16. CASE DecWraps
    BY <2>0, <2>16 DEF DecWraps, bssVars, uartVars, histVars
  <2> QED
    BY <1>2, <2>1, <2>2, <2>3, <2>4, <2>5, <2>6, <2>7, <2>7e, <2>8, <2>9, <2>10,
       <2>11, <2>12, <2>13, <2>14, <2>15, <2>16 DEF Next, Boot, Interrupts
<1> QED
  BY <1>1, <1>2

LEMMA InitResetInv ==
  ASSUME Init
  PROVE  ResetInv
<1>1. TypeOK
  <2>1. vectors \in BOOLEAN /\ cause \in BOOLEAN /\ fired \in BOOLEAN /\ eiReady \in BOOLEAN
    BY DEF Init
  <2> QED
    BY <2>1 DEF Init
<1>2. ~EE /\ pc = "bss"
  BY DEF Init, EE
<1> QED
  BY <1>1, <1>2 DEF ResetInv

(* Every variable keeps its range, through any number of resets. *)
THEOREM TypeCorrect == Spec => []TypeOK
<1>1. ResetInv => TypeOK
  BY DEF ResetInv
<1> QED
  BY <1>1, InitResetInv, ResetInvStep, PTL DEF Spec

(* From power-on and through any number of reset-alls, no interrupt is     *)
(* taken through vectors that are not there or through an uninitialised    *)
(* slot of g_ei_handlers.                                                  *)
THEOREM InterruptsFindVectors == Spec => []NoInterruptLost
<1>1. ResetInv => NoInterruptLost
  BY DEF ResetInv, NoInterruptLost
<1> QED
  BY <1>1, InitResetInv, ResetInvStep, PTL DEF Spec

-----------------------------------------------------------------------------
LEMMA InitBootInv == Init => BootInv
BY InitResetInv DEF Init, BootInv, ColdInv, BeforeTest, EE

(* Nothing takes back that the reset vector was entered by reset-all. *)
LEMMA ColdBefore ==
  ASSUME [Next]_vars, warm' = "no"
  PROVE  warm = "no" /\ ~MachineResetAll
<1>1. CASE UNCHANGED vars
  BY <1>1 DEF vars, histVars, MachineResetAll, AtStep
<1>2. CASE Boot
  BY <1>2 DEF Boot, AtStep, histVars, ZeroBss, CopyVectors, FixMsr, UartInit,
              TimerCalibrate, TimerArm, EnableEi, DisableEi, SelfTestVerdict, EiInit,
              ExtintUartInstall, OpenGate, PicInit, SetHandler, MachineResetAll
<1>3. CASE Interrupts
  BY <1>3 DEF Interrupts, DecrementerVector, ExtIntVector, histVars, MachineResetAll
<1>4. CASE KeyArrives \/ DecWraps
  BY <1>4 DEF KeyArrives, DecWraps, histVars, MachineResetAll
<1>5. ~MachineResetAll
  BY DEF MachineResetAll
<1> QED
  BY <1>1, <1>2, <1>3, <1>4, <1>5 DEF Next

LEMMA BootInvStep ==
  ASSUME BootInv, [Next]_vars
  PROVE  BootInv'
<1>0. ResetInv'
  BY ResetInvStep DEF BootInv
<1>s. SUFFICES ASSUME warm' = "no" PROVE ColdInv'
  BY <1>0 DEF BootInv
<1>c. ColdInv /\ ~MachineResetAll
  BY <1>s, ColdBefore DEF BootInv
<1>r. ResetInv
  BY DEF BootInv
<1> USE DEF ColdInv, BeforeTest, EE, AtStep
<1>1. CASE UNCHANGED vars
  BY <1>0, <1>c, <1>1 DEF vars, bssVars, uartVars, histVars
<1>2. CASE Next
  <2>1. CASE ZeroBss
    BY <1>0, <1>c, <1>r, <2>1 DEF ResetInv, ZeroBss, histVars
  <2>2. CASE CopyVectors
    BY <1>0, <1>c, <1>r, <2>2 DEF ResetInv, CopyVectors, bssVars, histVars
  <2>3. CASE FixMsr
    BY <1>0, <1>c, <1>r, <2>3 DEF ResetInv, FixMsr, bssVars, histVars
  <2>4. CASE UartInit
    BY <1>0, <1>c, <1>r, <2>4 DEF ResetInv, UartInit, bssVars, histVars
  <2>5. CASE TimerCalibrate
    BY <1>0, <1>c, <1>r, <2>5 DEF ResetInv, TimerCalibrate, histVars
  <2>6. CASE TimerArm
    BY <1>0, <1>c, <1>r, <2>6 DEF ResetInv, TimerArm, bssVars, histVars
  <2>7. CASE EnableEi("testOn", "spin") \/ EnableEi("enable", "run")
    BY <1>0, <1>c, <1>r, <2>7 DEF ResetInv, EnableEi, bssVars, histVars
  <2>8. CASE DisableEi
    BY <1>0, <1>c, <1>r, <2>8 DEF ResetInv, DisableEi, bssVars, histVars
  <2>9. CASE SelfTestVerdict
    BY <1>0, <1>c, <1>r, <2>9 DEF ResetInv, SelfTestVerdict, bssVars
  <2>10. CASE EiInit
    BY <1>0, <1>c, <1>r, <2>10 DEF ResetInv, EiInit
  <2>11. CASE ExtintUartInstall
    BY <1>0, <1>c, <1>r, <2>11 DEF ResetInv, ExtintUartInstall, OpenGate, SetHandler,
                       PicInit, bssVars, histVars
  <2>12. CASE DecrementerVector
    BY <1>0, <1>c, <1>r, <2>12 DEF ResetInv, DecrementerVector, DecInterrupt, VectorsLive,
                       bssVars
  <2>13. CASE ExtIntVector
    BY <1>0, <1>c, <1>r, <2>13 DEF ResetInv, ExtIntVector, ExtInterrupt, VectorsLive,
                       bssVars, histVars
  <2>14. CASE KeyArrives
    BY <1>0, <1>c, <1>r, <2>14 DEF ResetInv, KeyArrives, bssVars, histVars
  <2>15. CASE DecWraps
    BY <1>0, <1>c, <1>r, <2>15 DEF ResetInv, DecWraps, bssVars, histVars
  <2> QED
    BY <1>2, <1>c, <2>1, <2>2, <2>3, <2>4, <2>5, <2>6, <2>7, <2>8, <2>9, <2>10, <2>11,
       <2>12, <2>13, <2>14, <2>15 DEF Next, Boot, Interrupts
<1> QED
  BY <1>1, <1>2

LEMMA BootInvariant == Spec => []BootInv
<1>1. BootInv /\ [Next]_vars => BootInv'
  BY BootInvStep
<1> QED
  BY <1>1, InitBootInv, PTL DEF Spec

(* Booting from power-on, every external interrupt that reaches the CPU    *)
(* finds uart_rx_handler installed, and MSR[EE] is never set while         *)
(* _dec_reload is 0.                                                       *)
THEOREM InterruptsAreServed == Spec => []InterruptsServed
<1>1. BootInv => InterruptsServed
  BY DEF BootInv, ColdInv, InterruptsServed, ExtInterrupt, EE
<1> QED
  BY <1>1, BootInvariant, PTL

(* Booting from power-on, the self-test reports OK only if the decrementer *)
(* vector ran during the test.                                             *)
THEOREM SelfTestIsHonest == Spec => []SelfTestHonest
<1>1. BootInv => SelfTestHonest
  BY DEF BootInv, ColdInv, SelfTestHonest
<1> QED
  BY <1>1, BootInvariant, PTL
=============================================================================

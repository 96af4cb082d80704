-------------------------- MODULE SmartBootProofs --------------------------
(***************************************************************************)
(* Proofs about SmartBoot and the partition chain it boots from, for every *)
(* set of disks, every priority list and every sequence of commands.       *)
(***************************************************************************)
EXTENDS SmartBoot, SequenceTheorems, WellFoundedInduction, TLAPS

(* A new element at the head moves the old ones up by one place. *)
LEMMA ConsSeq ==
  ASSUME NEW S, NEW s \in Seq(S), NEW e \in S
  PROVE  /\ <<e>> \o s \in Seq(S)
         /\ Len(<<e>> \o s) = Len(s) + 1
         /\ (<<e>> \o s)[1] = e
         /\ \A i \in 2 .. Len(s) + 1 : (<<e>> \o s)[i] = s[i - 1]
<1>1. <<e>> \in Seq(S) /\ Len(<<e>>) = 1 /\ <<e>>[1] = e
  OBVIOUS
<1>2. QED
  BY <1>1, ConcatProperties

-----------------------------------------------------------------------------
(* The partition chain *)

Child == [reg : Nat, block : DOMAIN disk.blocks, dostype : STRING, pri : Int]

(* The packages are the beginning of the chain, the newest first, and each  *)
(* carries the number of its place in it.                                   *)
ChainInv ==
  /\ disk \in Disks /\ ipc \in {"walk", "done"}
  /\ children \in Seq(Child) /\ Len(children) <= MaxPartitions
  /\ \A i \in 1 .. Len(children) :
       /\ children[i].reg = Len(children) - i
       /\ Installable(disk.blocks[children[i].block])
       /\ i = Len(children) => children[i].block = disk.first
       /\ i < Len(children) => children[i].block = disk.blocks[children[i + 1].block].next
  /\ iblk = IF children = << >> THEN disk.first ELSE disk.blocks[children[1].block].next

(* A lookup of a number that a package has is on that package's chain and   *)
(* has not gone past it.                                                    *)
LookupInv ==
  /\ lpc \in {"idle", "walk", "found", "failed"} /\ lidx \in Nat
  /\ pc # "ok" \/ lpc # "idle" => ipc = "done"
  /\ lpc # "idle" /\ lsel \in 0 .. Len(children) - 1 =>
       /\ lpc # "failed"
       /\ lidx <= lsel /\ lblk = children[Len(children) - lidx].block
       /\ lpc = "found" => lidx = lsel

LEMMA InitChain == Init => ChainInv /\ LookupInv
<1> SUFFICES ASSUME Init PROVE ChainInv /\ LookupInv
  OBVIOUS
<1>1. /\ disk \in Disks /\ ipc = "walk" /\ iblk = disk.first /\ children = << >>
      /\ lpc = "idle" /\ lidx = 0 /\ pc = "ok"
  BY DEF Init, RdbInit
<1>2. children \in Seq(Child) /\ Len(children) = 0
  BY <1>1
<1>3. ChainInv
  BY <1>1, <1>2, MaxPartitionsAssumption DEF ChainInv
<1>4. LookupInv
  BY <1>1, <1>2 DEF LookupInv
<1>5. QED
  BY <1>3, <1>4

LEMMA InstallChain ==
  ASSUME ChainInv, LookupInv, Install
  PROVE  ChainInv' /\ LookupInv'
<1> DEFINE n == Len(children)
<1>1. CASE InstallPartition
  <2> DEFINE b == disk.blocks[iblk]
             e == [reg |-> n, block |-> iblk, dostype |-> b.dostype, pri |-> b.pri]
  <2>1. /\ ipc = "walk" /\ iblk # EndOfChain /\ n < MaxPartitions /\ Installable(b)
        /\ children' = <<e>> \o children /\ iblk' = b.next
        /\ UNCHANGED <<disk, ipc, lpc, lsel, lblk, lidx, pc>>
    BY <1>1 DEF InstallPartition, InstallMore, lookupVars, Install
  <2>2. n \in Nat /\ DOMAIN children = 1 .. n /\ (n = 0 <=> children = << >>)
    <3>1. children \in Seq(Child)
      BY DEF ChainInv
    <3>2. QED
      BY <3>1, LenProperties, EmptySeq
  <2>3. iblk \in DOMAIN disk.blocks
    <3>1. CASE children = << >>
      BY <2>1, <3>1, DisksAssumption DEF ChainInv
    <3>2. CASE children # << >>
      <4>1. 1 \in 1 .. n
        BY <2>2, <3>2
      <4>2. children[1].block \in DOMAIN disk.blocks
        <5>1. children[1] \in Child
          BY <4>1, ElementOfSeq DEF ChainInv
        <5>2. QED
          BY <5>1 DEF Child
      <4>3. disk.blocks[children[1].block] \in Block(DOMAIN disk.blocks)
        BY <4>2, DisksAssumption DEF ChainInv
      <4>4. QED
        BY <2>1, <3>2, <4>3 DEF ChainInv, Block
    <3>3. QED
      BY <3>1, <3>2
  <2>4. b \in Block(DOMAIN disk.blocks)
    BY <2>3, DisksAssumption DEF ChainInv
  <2>5. e \in Child
    BY <2>2, <2>3, <2>4 DEF Child, Block
  <2>6. Child' = Child
    BY <2>1 DEF Child
  <2> HIDE DEF e
  <2>7. /\ children' \in Seq(Child) /\ Len(children') = n + 1 /\ children'[1] = e
        /\ \A i \in 2 .. n + 1 : children'[i] = children[i - 1]
    BY <2>1, <2>5, ConsSeq DEF ChainInv
  <2>8. e.reg = n /\ e.block = iblk
    BY DEF e
  <2> HIDE DEF n
  <2>9. ASSUME NEW i \in 1 .. n + 1
        PROVE  /\ children'[i].reg = (n + 1) - i
               /\ Installable(disk.blocks[children'[i].block])
               /\ i = n + 1 => children'[i].block = disk.first
               /\ i < n + 1 => children'[i].block = disk.blocks[children'[i + 1].block].next
    <3>1. CASE i = 1
      <4>1. children'[i] = e /\ children'[i].reg = (n + 1) - i
        BY <2>2, <2>7, <2>8, <3>1
      <4>2. Installable(disk.blocks[children'[i].block])
        BY <2>1, <2>8, <4>1
      <4>3. n = 0 => iblk = disk.first
        BY <2>2 DEF ChainInv
      <4>4. n > 0 => iblk = disk.blocks[children[1].block].next
        BY <2>2 DEF ChainInv
      <4>5. n > 0 => children'[2] = children[1]
        BY <2>2, <2>7
      <4>6. n > 0 => children'[1].block = disk.blocks[children'[2].block].next
        BY <2>7, <2>8, <4>4, <4>5
      <4>7. i + 1 = 2 /\ (i = n + 1 => n = 0) /\ (i < n + 1 => n > 0)
        BY <2>2, <3>1
      <4>8. QED
        BY <2>8, <3>1, <4>1, <4>2, <4>3, <4>6, <4>7
    <3>2. CASE i # 1
      <4>1. i - 1 \in 1 .. n /\ children'[i] = children[i - 1]
        BY <2>2, <2>7, <3>2
      <4>2. i < n + 1 => children'[i + 1] = children[(i - 1) + 1]
        BY <2>2, <2>7
      <4>3. /\ children[i - 1].reg = n - (i - 1)
            /\ Installable(disk.blocks[children[i - 1].block])
            /\ i - 1 = n => children[i - 1].block = disk.first
            /\ i - 1 < n => children[i - 1].block = disk.blocks[children[(i - 1) + 1].block].next
        BY <4>1 DEF ChainInv, n
      <4>4. QED
        BY <2>2, <4>1, <4>2, <4>3
    <3>3. QED
      BY <3>1, <3>2
  <2>10. children' # << >> /\ iblk' = disk.blocks[children'[1].block].next
    BY <2>1, <2>2, <2>7, <2>8
  <2>11. ChainInv'
    <3>1. \A i \in 1 .. Len(children') :
            /\ children'[i].reg = Len(children') - i
            /\ Installable(disk.blocks[children'[i].block])
            /\ i = Len(children') => children'[i].block = disk.first
            /\ i < Len(children') => children'[i].block = disk.blocks[children'[i + 1].block].next
      BY <2>7, <2>9, Zenon
    <3>2. disk' = disk /\ ipc' = ipc /\ Len(children') <= MaxPartitions
      BY <2>1, <2>2, <2>7, MaxPartitionsAssumption
    <3>3. QED
      BY <2>6, <2>7, <2>10, <3>1, <3>2 DEF ChainInv, Installable
  <2>12. LookupInv'
    BY <2>1 DEF LookupInv
  <2>13. QED
    BY <2>11, <2>12
<1>2. CASE InstallStops
  <2>1. ipc' = "done" /\ UNCHANGED <<disk, iblk, children, lpc, lsel, lblk, lidx, pc>>
    BY <1>2 DEF InstallStops, lookupVars, Install
  <2>2. ChainInv'
    BY <2>1 DEF ChainInv, Child, Installable
  <2>3. LookupInv'
    BY <2>1 DEF LookupInv
  <2>4. QED
    BY <2>2, <2>3
<1>3. QED
  BY <1>1, <1>2 DEF Install

LEMMA WalkChainInv ==
  ASSUME ChainInv, LookupInv, WalkChain
  PROVE  ChainInv' /\ LookupInv'
<1> DEFINE n == Len(children)
<1>1. /\ lpc = "walk" /\ (LookupStep \/ LookupEnds)
      /\ UNCHANGED <<disk, ipc, iblk, children, lsel, pc>>
  BY DEF WalkChain, LookupStep, LookupEnds
<1>2. ChainInv'
  BY <1>1 DEF ChainInv, Child, Installable
<1>3. n \in Nat /\ lidx \in Nat /\ ipc = "done" /\ n <= MaxPartitions
  BY <1>1, LenProperties DEF ChainInv, LookupInv
<1> DEFINE b == disk.blocks[lblk]
<1>4. ASSUME lsel \in 0 .. n - 1
      PROVE  /\ lidx <= lsel /\ LookupMore
             /\ b.readable /\ b.magic /\ b.geometry
             /\ lidx < lsel => b.next = children[n - (lidx + 1)].block
  <2>1. lidx <= lsel /\ lblk = children[n - lidx].block /\ n - lidx \in 1 .. n
    BY <1>1, <1>3, <1>4 DEF LookupInv
  <2>2. /\ Installable(b)
        /\ n - lidx < n => children[n - lidx].block = disk.blocks[children[(n - lidx) + 1].block].next
    BY <2>1 DEF ChainInv
  <2>3. children[n - lidx] \in Child
    BY <2>1, ElementOfSeq DEF ChainInv
  <2>4. lblk # EndOfChain
    BY <2>1, <2>3, DisksAssumption DEF Child, ChainInv
  <2>5. LookupMore
    BY <1>1, <1>3, <1>4, <2>1, <2>4, MaxPartitionsAssumption DEF LookupMore
  <2>6. ASSUME lidx < lsel
        PROVE  b.next = children[n - (lidx + 1)].block
    <3>1. /\ n - (lidx + 1) \in 1 .. n /\ n - (lidx + 1) < n
          /\ (n - (lidx + 1)) + 1 = n - lidx
      BY <1>3, <1>4, <2>6
    <3>2. children[n - (lidx + 1)].block = disk.blocks[children[(n - (lidx + 1)) + 1].block].next
      BY <3>1 DEF ChainInv
    <3>3. QED
      BY <2>1, <3>1, <3>2
  <2>7. QED
    BY <2>1, <2>2, <2>5, <2>6 DEF Installable
<1> HIDE DEF n, b
<1>5. LookupInv'
  <2>1. CASE LookupEnds
    <3>1. lpc' = "failed" /\ UNCHANGED <<lblk, lidx>> /\ ~LookupMore
      BY <2>1 DEF LookupEnds
    <3>2. QED
      BY <1>1, <1>3, <1>4, <3>1 DEF LookupInv, n
  <2>2. CASE LookupStep
    <3>1. CASE ~ (b.readable /\ b.magic) /\ lpc' = "failed" /\ UNCHANGED <<lblk, lidx>>
      BY <1>1, <1>3, <1>4, <3>1 DEF LookupInv, n
    <3>2. CASE lidx = lsel /\ lpc' = "found" /\ UNCHANGED <<lblk, lidx>>
      BY <1>1, <1>3, <1>4, <3>2 DEF LookupInv, n
    <3>3. CASE /\ ~ (b.geometry /\ lidx = lsel)
               /\ lblk' = b.next /\ lidx' = lidx + 1 /\ lpc' = lpc
      <4>1. lidx' \in Nat
        BY <1>3, <3>3
      <4>2. ASSUME lsel \in 0 .. n - 1
            PROVE  lidx' <= lsel /\ lblk' = children[n - lidx'].block
        <5>1. lidx < lsel /\ lidx <= lsel
          BY <1>3, <1>4, <3>3, <4>2
        <5>2. QED
          BY <1>3, <1>4, <3>3, <4>2, <5>1
      <4>3. QED
        BY <1>1, <1>3, <3>3, <4>1, <4>2 DEF LookupInv, n
    <3>4. QED
      BY <2>2, <3>1, <3>2, <3>3 DEF LookupStep, b
  <2>3. QED
    BY <1>1, <2>1, <2>2
<1>6. QED
  BY <1>2, <1>5

LEMMA OpensChain ==
  ASSUME ChainInv, LookupInv, Opens
  PROVE  ChainInv' /\ LookupInv'
<1> DEFINE n == Len(children)
<1>1. ipc = "done" /\ UNCHANGED <<disk, ipc, iblk, children>> /\ pc' # "ok"
  BY DEF Opens, LookupInv
<1>2. ChainInv'
  BY <1>1 DEF ChainInv, Child, Installable
<1>3. CASE UNCHANGED lookupVars
  BY <1>1, <1>2, <1>3 DEF LookupInv, lookupVars
<1>4. CASE Lookup(Head(devices).slot)
  <2>1. lblk' = disk.first /\ lidx' = 0 /\ lpc' \in {"failed", "walk"}
        /\ (lpc' = "failed" => disk.first = EndOfChain)
    BY <1>4 DEF Lookup
  <2>2. ASSUME n # 0
        PROVE  disk.first = children[n - 0].block /\ disk.first # EndOfChain
    <3>1. n \in Nat /\ n \in 1 .. n /\ n - 0 = n
      BY <2>2, LenProperties DEF ChainInv
    <3>2. children[n] \in Child
      BY <3>1, ElementOfSeq DEF ChainInv
    <3>3. children[n].block = disk.first
      BY <3>1 DEF ChainInv
    <3>4. QED
      BY <3>1, <3>2, <3>3, DisksAssumption DEF ChainInv, Child
  <2>3. n \in Nat
    BY LenProperties DEF ChainInv
  <2> HIDE DEF n
  <2>4. ASSUME lsel' \in 0 .. n - 1
        PROVE  lpc' # "failed" /\ lidx' <= lsel' /\ lblk' = children[n - lidx'].block
    BY <2>1, <2>2, <2>3, <2>4
  <2>5. QED
    BY <1>1, <1>2, <2>1, <2>4 DEF LookupInv, n
<1>5. QED
  BY <1>2, <1>3, <1>4 DEF Opens

(* The steps that leave the chain and the lookup alone. *)
LEMMA ChainKept ==
  ASSUME ChainInv, LookupInv, UNCHANGED rdbVars, pc' # "ok" => pc # "ok" \/ ipc = "done"
  PROVE  ChainInv' /\ LookupInv'
<1>1. UNCHANGED <<disk, ipc, iblk, children, lpc, lsel, lblk, lidx>>
  BY DEF rdbVars
<1>2. ChainInv'
  BY <1>1 DEF ChainInv, Child, Installable
<1>3. LookupInv'
  BY <1>1 DEF LookupInv
<1>4. QED
  BY <1>2, <1>3

(* amiga_rdb has returned. *)
LEMMA ChainReturned ==
  ASSUME ChainInv, LookupInv, LookupReturns, pc # "ok"
  PROVE  ChainInv' /\ LookupInv'
<1>1. UNCHANGED <<disk, ipc, iblk, children>> /\ lpc' = "idle" /\ lidx' = 0
  BY DEF LookupReturns
<1>2. ChainInv'
  BY <1>1 DEF ChainInv, Child, Installable
<1>3. LookupInv'
  BY <1>1 DEF LookupInv
<1>4. QED
  BY <1>2, <1>3

LEMMA ChainStep == ChainInv /\ LookupInv /\ [Next]_vars => ChainInv' /\ LookupInv'
<1> SUFFICES ASSUME ChainInv, LookupInv, [Next]_vars PROVE ChainInv' /\ LookupInv'
  OBVIOUS
<1>1. CASE Install
  BY <1>1, InstallChain
<1>2. CASE WalkChain
  BY <1>2, WalkChainInv
<1>3. CASE Opens
  BY <1>3, OpensChain
<1>4. CASE PartitionFound \/ NoPartition
  BY <1>4, ChainReturned DEF PartitionFound, NoPartition
<1>5. CASE UNCHANGED vars
  BY <1>5, ChainKept DEF vars
<1>6. CASE SmartToken \/ SmartNextPass \/ SmartReturns \/ SmartCommand \/ OpenFails
  BY <1>6, ChainKept DEF SmartToken, SmartNextPass, SmartReturns, SmartCommand, OpenFails
<1>7. CASE LoadFails \/ WalkNeverEnds \/ SetBootargs \/ Go
             \/ \E k \in {"exec", "badelf", "data"}, w \in BOOLEAN : Loads(k, w)
  BY <1>7, ChainKept DEF LoadFails, WalkNeverEnds, SetBootargs, Go, Loads
<1>8. CASE User
  BY <1>8, ChainKept DEF User, smart_boot, TypeGo, TypeLoad, AtPrompt
<1>9. QED
  BY <1>1, <1>2, <1>3, <1>4, <1>5, <1>6, <1>7, <1>8 DEF Next, Firmware, TryLoad

(* NumberingAgrees: on every disk, sound, damaged or cyclic, a load from    *)
(* "hd:N" reads the partition whose package install_partition_packages gave *)
(* the number N.                                                            *)
THEOREM NumberingHolds == Spec => []NumberingAgrees
<1>1. ChainInv /\ LookupInv => NumberingAgrees
  <2> SUFFICES ASSUME ChainInv, LookupInv, NEW i \in DOMAIN children,
                      lpc \in {"found", "failed"}, lsel = children[i].reg
               PROVE  lpc = "found" /\ lblk = children[i].block
    BY DEF NumberingAgrees
  <2>1. DOMAIN children = 1 .. Len(children) /\ Len(children) \in Nat
    BY LenProperties DEF ChainInv
  <2>2. i \in 1 .. Len(children) /\ lsel = Len(children) - i
    <3>1. i \in 1 .. Len(children)
      BY <2>1
    <3>2. QED
      BY <3>1 DEF ChainInv
  <2>3. lsel \in 0 .. Len(children) - 1 /\ Len(children) - lsel = i
    BY <2>1, <2>2
  <2>4. QED
    BY <2>3 DEF LookupInv
<1>2. QED
  BY <1>1, InitChain, ChainStep, PTL DEF Spec

-----------------------------------------------------------------------------
(* The choice of a partition *)

LEMMA LeastNatural ==
  ASSUME NEW T, T \subseteq Nat, T # {}
  PROVE  \E x \in T : \A y \in T : x <= y
<1>1. ASSUME NEW R, IsWellFoundedOn(R, Nat), \A x, y \in Nat : y < x => <<y, x>> \in R
      PROVE  \E x \in T : \A y \in T : x <= y
  <2>1. PICK x \in T : \A y \in T : ~ (<<y, x>> \in R)
    BY <1>1, WFMin
  <2>2. \A y \in T : ~ (y < x)
    BY <1>1, <2>1
  <2>3. QED
    BY <2>2
<1>2. \A x, y \in Nat : y < x => <<y, x>> \in OpToRel(<, Nat)
  BY DEF OpToRel
<1>3. QED
  BY <1>1, <1>2, NatLessThanWellFounded, Zenon

(* The loop of pick_partition_for_family ends with a child that no other    *)
(* beats: by induction on how many children it has looked at.               *)
LEMMA BestExists ==
  ASSUME NEW n \in Nat, NEW f \in [1 .. n -> Int], NEW C \in SUBSET (1 .. n), C # {}
  PROVE  \E i \in C : \A j \in C : f[i] > f[j] \/ (f[i] = f[j] /\ i <= j)
<1> DEFINE Beats(i, j) == f[i] > f[j] \/ (f[i] = f[j] /\ i <= j)
           Has(D) == \E i \in D : \A j \in D : Beats(i, j)
           T == {m \in 0 .. n : \E D \in SUBSET (1 .. m) : D # {} /\ ~Has(D)}
<1>1. SUFFICES ASSUME T # {} PROVE FALSE
  <2>1. n \in 0 .. n
    OBVIOUS
  <2>2. T = {} => Has(C)
    BY <2>1, Zenon
  <2>3. QED
    BY <1>1, <2>2
<1>2. T \subseteq Nat
  OBVIOUS
<1> HIDE DEF T
<1>3. PICK m \in T : \A y \in T : m <= y
  BY <1>1, <1>2, LeastNatural
<1>4. PICK D \in SUBSET (1 .. m) : D # {} /\ ~Has(D)
  BY <1>3 DEF T
<1>5. m \in 0 .. n
  BY <1>3 DEF T
<1>6. \A E \in SUBSET (1 .. m - 1) : E = {} \/ Has(E)
  <2> TAKE E \in SUBSET (1 .. m - 1)
  <2>1. CASE m = 0
    BY <2>1
  <2>2. CASE m # 0
    <3>1. m - 1 \in 0 .. n /\ m - 1 < m
      BY <1>5, <2>2
    <3>2. m - 1 \notin T
      BY <1>3, <1>5, <3>1
    <3>3. QED
      BY <3>1, <3>2 DEF T
  <2>3. QED
    BY <2>1, <2>2
<1> DEFINE E == D \ {m}
<1>7. E \in SUBSET (1 .. m - 1)
  BY <1>5
<1>8. \A i, j \in D : i \in 1 .. n /\ f[i] \in Int /\ f[j] \in Int /\ i \in Int /\ j \in Int
  <2>1. D \subseteq 1 .. n
    BY <1>4, <1>5
  <2>2. QED
    BY <2>1
<1>9. CASE E = {}
  <2>1. m \in D /\ \A j \in D : j = m
    BY <1>4, <1>9
  <2>2. Beats(m, m)
    BY <1>8, <2>1
  <2>3. QED
    BY <1>4, <2>1, <2>2
<1>10. CASE E # {}
  <2>1. PICK i \in E : \A j \in E : Beats(i, j)
    BY <1>6, <1>7, <1>10
  <2>2. i < m
    BY <1>5, <1>7
  <2>3. CASE m \in D /\ f[m] > f[i]
    <3>1. \A j \in D : Beats(m, j)
      BY <1>8, <2>1, <2>3
    <3>2. QED
      BY <1>4, <2>3, <3>1
  <2>4. CASE ~ (m \in D /\ f[m] > f[i])
    <3>1. m \in D => Beats(i, m)
      BY <1>5, <1>8, <2>1, <2>2, <2>4
    <3>2. \A j \in D : Beats(i, j)
      BY <2>1, <3>1
    <3>3. QED
      BY <1>4, <2>1, <3>2
  <2>5. QED
    BY <2>3, <2>4
<1>11. QED
  BY <1>9, <1>10

(* The package that is picked is the best eligible one: the first in the    *)
(* list of those with the highest BootPri is the one with the highest reg.  *)
LEMMA PickIsBest ==
  ASSUME ChainInv, NEW family
  PROVE  /\ Candidates(family) = {} <=> Eligible(family) = {}
         /\ Candidates(family) # {} =>
              /\ children[pick_partition_for_family(family)] \in Child
              /\ children[pick_partition_for_family(family)] = Best(family)
<1> DEFINE n == Len(children)
           f == [i \in 1 .. n |-> children[i].pri]
           C == Candidates(family)
           Beats(i, j) == \/ children[i].pri > children[j].pri
                          \/ children[i].pri = children[j].pri /\ i <= j
           Over(c, d) == d.pri < c.pri \/ (d.pri = c.pri /\ d.reg <= c.reg)
<1>1. n \in Nat /\ DOMAIN children = 1 .. n
  BY LenProperties DEF ChainInv
<1>2. \A i \in 1 .. n : /\ children[i] \in Child /\ children[i].pri \in Int
                        /\ children[i].reg = n - i
  <2> TAKE i \in 1 .. n
  <2>1. children[i] \in Child
    BY ElementOfSeq DEF ChainInv
  <2>2. children[i].reg = n - i
    BY DEF ChainInv
  <2>3. QED
    BY <2>1, <2>2 DEF Child
<1>3. C \in SUBSET (1 .. n) /\ Eligible(family) = {children[i] : i \in C}
  BY <1>1, Zenon DEF Candidates, Eligible
<1>4. f \in [1 .. n -> Int] /\ \A i \in 1 .. n : f[i] = children[i].pri
  BY <1>2
<1> HIDE DEF n, C, f
<1>5. C = {} <=> Eligible(family) = {}
  BY <1>3
<1>6. ASSUME C # {}
      PROVE  /\ children[pick_partition_for_family(family)] \in Child
             /\ children[pick_partition_for_family(family)] = Best(family)
  <2> DEFINE k == pick_partition_for_family(family)
  <2>1. \E i \in C : \A j \in C : Beats(i, j)
    <3>1. PICK i \in C : \A j \in C : f[i] > f[j] \/ (f[i] = f[j] /\ i <= j)
      BY <1>1, <1>3, <1>4, <1>6, BestExists
    <3>2. QED
      BY <1>3, <1>4, <3>1
  <2>2. k = CHOOSE i \in C : \A j \in C : Beats(i, j)
    BY DEF C, pick_partition_for_family
  <2> HIDE DEF k
  <2>3. k \in C /\ \A j \in C : Beats(k, j)
    BY <2>1, <2>2, Zenon
  <2>4. children[k] \in Child /\ children[k] \in Eligible(family)
    BY <1>2, <1>3, <2>3
  <2>5. \A d \in Eligible(family) : Over(children[k], d)
    <3> TAKE d \in Eligible(family)
    <3>1. PICK j \in C : d = children[j]
      BY <1>3
    <3>2. j \in 1 .. n /\ k \in 1 .. n /\ Beats(k, j)
      BY <1>3, <2>3, <3>1
    <3>3. QED
      BY <1>1, <1>2, <3>1, <3>2
  <2>6. \A c \in Eligible(family) :
          (\A d \in Eligible(family) : Over(c, d)) => c = children[k]
    <3> SUFFICES ASSUME NEW c \in Eligible(family),
                        \A d \in Eligible(family) : Over(c, d)
                 PROVE  c = children[k]
      OBVIOUS
    <3>1. PICK j \in C : c = children[j]
      BY <1>3
    <3>2. Over(c, children[k]) /\ Over(children[k], c)
      BY <2>4, <2>5
    <3>3. j \in 1 .. n /\ k \in 1 .. n
      BY <1>3, <2>3
    <3>4. j = k
      BY <1>1, <1>2, <3>1, <3>2, <3>3
    <3>5. QED
      BY <3>1, <3>4
  <2>7. Best(family) = CHOOSE c \in Eligible(family) : \A d \in Eligible(family) : Over(c, d)
    BY DEF Best
  <2> DEFINE P(c) == \A d \in Eligible(family) : Over(c, d)
  <2>8. P(children[k]) /\ \A c \in Eligible(family) : P(c) => c = children[k]
    BY <2>5, <2>6
  <2>9. Best(family) = CHOOSE c \in Eligible(family) : P(c)
    BY <2>7
  <2> HIDE DEF P
  <2>10. Best(family) = children[k]
    BY <2>4, <2>8, <2>9, Zenon
  <2>11. QED
    BY <2>4, <2>10 DEF k
<1>7. QED
  BY <1>5, <1>6 DEF C

-----------------------------------------------------------------------------
(* Sequences put together one after the other *)

(* The recursive definition of Upto has a solution: were there a shortest   *)
(* beginning of ss without one, the solution for the one before it would    *)
(* extend to it.                                                            *)
LEMMA UptoExists ==
  ASSUME NEW ss, NEW n \in Nat
  PROVE  \E g : g = [i \in 0 .. n |-> IF i = 0 THEN << >> ELSE g[i - 1] \o ss[i]]
<1> DEFINE Solves(g, m) == g = [i \in 0 .. m |-> IF i = 0 THEN << >> ELSE g[i - 1] \o ss[i]]
           T == {m \in Nat : ~ \E g : Solves(g, m)}
<1>1. SUFFICES ASSUME T # {} PROVE FALSE
  BY <1>1
<1>2. T \subseteq Nat
  OBVIOUS
<1> HIDE DEF T
<1>3. PICK m \in T : \A y \in T : m <= y
  BY <1>1, <1>2, LeastNatural
<1>4. m \in Nat /\ ~ \E g : Solves(g, m)
  BY <1>3 DEF T
<1>5. CASE m = 0
  <2> DEFINE g == [i \in 0 .. 0 |-> << >>]
  <2>1. Solves(g, 0)
    OBVIOUS
  <2>2. QED
    BY <1>4, <1>5, <2>1
<1>6. CASE m # 0
  <2>1. m - 1 \in Nat /\ m - 1 \notin T
    BY <1>3, <1>4, <1>6
  <2>2. PICK g : Solves(g, m - 1)
    BY <2>1 DEF T
  <2> DEFINE h == [i \in 0 .. m |-> IF i = m THEN g[m - 1] \o ss[m] ELSE g[i]]
             r == [i \in 0 .. m |-> IF i = 0 THEN << >> ELSE h[i - 1] \o ss[i]]
  <2>3. \A i \in 0 .. m - 1 : g[i] = IF i = 0 THEN << >> ELSE g[i - 1] \o ss[i]
    BY <2>2
  <2>4. ASSUME NEW i \in 0 .. m PROVE h[i] = r[i]
    <3>1. CASE i = m
      <4>1. i - 1 \in 0 .. m /\ i - 1 # m /\ i # 0
        BY <1>4, <1>6, <3>1
      <4>2. h[i] = g[m - 1] \o ss[m] /\ h[i - 1] = g[m - 1]
        BY <3>1, <4>1
      <4>3. QED
        BY <3>1, <4>1, <4>2
    <3>2. CASE i # m
      <4>1. i \in 0 .. m - 1 /\ h[i] = g[i]
        BY <1>4, <3>2
      <4>2. i # 0 => i - 1 \in 0 .. m /\ i - 1 # m
        BY <1>4, <4>1
      <4>3. i # 0 => h[i - 1] = g[i - 1]
        BY <4>2
      <4>4. QED
        BY <2>3, <4>1, <4>3
    <3>3. QED
      BY <3>1, <3>2
  <2>5. h = r
    <3>1. DOMAIN h = 0 .. m /\ DOMAIN r = 0 .. m
      OBVIOUS
    <3>2. h = [i \in 0 .. m |-> h[i]] /\ r = [i \in 0 .. m |-> r[i]]
      OBVIOUS
    <3> HIDE DEF h, r
    <3>3. QED
      BY <2>4, <3>2
  <2>6. Solves(h, m)
    BY <2>5
  <2>7. QED
    BY <1>4, <2>6
<1>7. QED
  BY <1>5, <1>6

LEMMA UptoProperties ==
  ASSUME NEW S, NEW n \in Nat, NEW ss \in [1 .. n -> Seq(S)]
  PROVE  /\ Len(ss) = n
         /\ Upto(ss)[0] = << >>
         /\ \A i \in 1 .. n : Upto(ss)[i] = Upto(ss)[i - 1] \o ss[i]
         /\ \A i \in 0 .. n : Upto(ss)[i] \in Seq(S)
<1>1. Len(ss) = n
  OBVIOUS
<1> DEFINE u == Upto(ss)
           Solves(g) == g = [i \in 0 .. n |-> IF i = 0 THEN << >> ELSE g[i - 1] \o ss[i]]
<1>2. \E g : Solves(g)
  BY UptoExists
<1>3. u = CHOOSE g : Solves(g)
  BY <1>1, Zenon DEF Upto
<1>4. Solves(u)
  <2> HIDE DEF Solves, u
  <2>1. QED
    BY <1>2, <1>3, Zenon
<1> HIDE DEF u
<1>5. \A i \in 0 .. n : u[i] = IF i = 0 THEN << >> ELSE u[i - 1] \o ss[i]
  BY <1>4
<1>6. u[0] = << >> /\ \A i \in 1 .. n : u[i] = u[i - 1] \o ss[i]
  <2>1. 0 \in 0 .. n /\ \A i \in 1 .. n : i \in 0 .. n /\ i # 0
    OBVIOUS
  <2>2. QED
    BY <1>5, <2>1, Zenon
<1> DEFINE T == {m \in 0 .. n : u[m] \notin Seq(S)}
<1>7. T = {}
  <2> SUFFICES ASSUME T # {} PROVE FALSE
    OBVIOUS
  <2>1. T \subseteq Nat
    OBVIOUS
  <2> HIDE DEF T
  <2>2. PICK m \in T : \A y \in T : m <= y
    BY <2>1, LeastNatural
  <2>3. m \in 0 .. n /\ u[m] \notin Seq(S)
    BY <2>2 DEF T
  <2>4. m # 0
    BY <1>6, <2>3, EmptySeq
  <2>5. m - 1 \in 0 .. n /\ m - 1 < m /\ m \in 1 .. n
    BY <2>3, <2>4
  <2>6. u[m - 1] \in Seq(S)
    BY <2>2, <2>3, <2>5 DEF T
  <2>7. u[m - 1] \o ss[m] \in Seq(S)
    BY <2>5, <2>6, ConcatProperties
  <2>8. QED
    BY <1>6, <2>3, <2>5, <2>7
<1>8. QED
  BY <1>1, <1>6, <1>7 DEF u

(* t is s with something after it. *)
Extends(t, s, S) == \E r \in Seq(S) : t = s \o r

LEMMA ExtendsMore ==
  ASSUME NEW S, NEW s \in Seq(S), NEW t \in Seq(S), NEW v \in Seq(S), Extends(t, s, S)
  PROVE  Extends(t \o v, s, S)
<1>1. PICK r \in Seq(S) : t = s \o r
  BY DEF Extends
<1>2. r \o v \in Seq(S) /\ t \o v = s \o (r \o v)
  BY <1>1, ConcatProperties, ConcatAssociative
<1>3. QED
  BY <1>2 DEF Extends

LEMMA ExtendsSelf ==
  ASSUME NEW S, NEW s \in Seq(S)
  PROVE  Extends(s, s, S)
BY ConcatEmptySeq, EmptySeq DEF Extends

LEMMA ExtendsPrefix ==
  ASSUME NEW S, NEW s \in Seq(S), NEW t \in Seq(S), Extends(t, s, S)
  PROVE  Len(s) <= Len(t) /\ s = SubSeq(t, 1, Len(s))
<1>1. PICK r \in Seq(S) : t = s \o r
  BY DEF Extends
<1>2. Len(t) = Len(s) + Len(r) /\ Len(s) \in Nat /\ Len(r) \in Nat
  BY <1>1, ConcatProperties, LenProperties
<1>3. SubSeq(t, 1, Len(s)) = s
  BY <1>1, SubSeqOfConcat1, SubSeqFull, <1>2
<1>4. QED
  BY <1>2, <1>3

(* What has been put together only grows. *)
LEMMA UptoGrows ==
  ASSUME NEW S, NEW n \in Nat, NEW ss \in [1 .. n -> Seq(S)], NEW k \in 0 .. n
  PROVE  Extends(Upto(ss)[n], Upto(ss)[k], S)
<1> DEFINE u == Upto(ss)
           T == {m \in k .. n : ~ Extends(u[m], u[k], S)}
<1> HIDE DEF u, T
<1>1. /\ Len(ss) = n
      /\ Upto(ss)[0] = << >>
      /\ \A i \in 1 .. n : Upto(ss)[i] = Upto(ss)[i - 1] \o ss[i]
      /\ \A i \in 0 .. n : Upto(ss)[i] \in Seq(S)
  BY UptoProperties, Zenon
<1>2. T = {}
  <2> SUFFICES ASSUME T # {} PROVE FALSE
    OBVIOUS
  <2>1. T \subseteq Nat
    BY DEF T
  <2>2. PICK m \in T : \A y \in T : m <= y
    BY <2>1, LeastNatural
  <2>3. m \in k .. n /\ ~Extends(u[m], u[k], S)
    BY <2>2 DEF T
  <2>4. m # k
    BY <1>1, <2>3, ExtendsSelf DEF u
  <2>5. m - 1 \in k .. n /\ m - 1 < m /\ m \in 1 .. n /\ m - 1 \in 0 .. n
    BY <2>3, <2>4
  <2>6. Extends(u[m - 1], u[k], S)
    BY <2>2, <2>3, <2>5 DEF T
  <2>7. Extends(u[m - 1] \o ss[m], u[k], S)
    BY <1>1, <2>5, <2>6, ExtendsMore DEF u
  <2>8. QED
    BY <1>1, <2>3, <2>5, <2>7 DEF u
<1>3. QED
  BY <1>2 DEF u, T

-----------------------------------------------------------------------------
(* Commands *)

(* The strings of the commands.  The provers do not take a literal for an   *)
(* element of STRING, so the ones SmartBoot uses are listed.                *)
Text == STRING \union
  {"hd", "cd", None, Junk, "amigaboot.of", "/boot/vmlinux", "/vmlinux", "/boot/vmlinuz",
   "/yaboot", "vmlinuz-chrp.initrd", "boot/vmlinux", "vmlinux", "yaboot", "/boot.img",
   "boot-file", "console=ttyS0,9600", "rds=0"}

CommandType == [dev : Text, slot : Int, file : Text, args : Text, go : BOOLEAN]
HdCommands ==
  [dev : {"hd"}, slot : Int, file : Text \ {None}, args : {None}, go : {TRUE}]
CdCommands ==
  [dev : {"cd"}, slot : Int, file : Text \ {None}, args : Text, go : {TRUE}]

(* What is needed of records with the fields of a command. *)
LEMMA CommandIn ==
  ASSUME NEW D, NEW S, NEW F, NEW A, NEW G,
         NEW d \in D, NEW s \in S, NEW f \in F, NEW a \in A, NEW g \in G
  PROVE  [dev |-> d, slot |-> s, file |-> f, args |-> a, go |-> g]
           \in [dev : D, slot : S, file : F, args : A, go : G]
OBVIOUS

LEMMA CommandSetsGrow ==
  ASSUME NEW D, NEW S, NEW F, NEW A, NEW G,
         NEW D2, NEW S2, NEW F2, NEW A2, NEW G2,
         D \subseteq D2, S \subseteq S2, F \subseteq F2, A \subseteq A2, G \subseteq G2
  PROVE  [dev : D, slot : S, file : F, args : A, go : G]
           \subseteq [dev : D2, slot : S2, file : F2, args : A2, go : G2]
OBVIOUS

LEMMA HdCommandIn ==
  ASSUME NEW n \in Int, NEW f \in Text, f # None
  PROVE  Command("hd", n, f, None) \in HdCommands
<1>1. "hd" \in {"hd"} /\ f \in Text \ {None} /\ None \in {None} /\ TRUE \in {TRUE}
  OBVIOUS
<1>2. QED
  BY <1>1, CommandIn, Zenon DEF Command, HdCommands

LEMMA CdCommandIn ==
  ASSUME NEW f \in Text, f # None, NEW a \in Text
  PROVE  Command("cd", 0, f, a) \in CdCommands
<1>1. "cd" \in {"cd"} /\ f \in Text \ {None} /\ TRUE \in {TRUE} /\ 0 \in Int
  OBVIOUS
<1>2. QED
  BY <1>1, CommandIn, Zenon DEF Command, CdCommands

FamilyNames == {"amigaos", "linux", "morphos"}

LEMMA FamilyKnown ==
  ASSUME NEW t
  PROVE  resolve_family_token(t) \in FamilyNames \union {None}
BY Zenon DEF resolve_family_token, FamilyNames

LEMMA HdLoaderTyped ==
  ASSUME NEW family \in FamilyNames, NEW part \in Child
  PROVE  HdLoader(family, part) \in Seq(HdCommands)
<1>1. part.reg \in Int
  BY DEF Child
<1>2. CASE family = "amigaos"
  <2>1. Command("hd", 0, "amigaboot.of", None) \in HdCommands
    <3>1. "amigaboot.of" \in Text /\ "amigaboot.of" # None
      BY Zenon DEF Text, None
    <3>2. QED
      BY <3>1, HdCommandIn
  <2>2. HdLoader(family, part) = <<Command("hd", 0, "amigaboot.of", None)>>
    BY <1>2 DEF HdLoader
  <2>3. QED
    BY <2>1, <2>2
<1>3. CASE family = "linux"
  <2> DEFINE files == <<"/boot/vmlinux", "/vmlinux", "/boot/vmlinuz", "/yaboot">>
  <2>1. \A f \in 1 .. 4 : files[f] \in Text /\ files[f] # None
    <3>1. /\ "/boot/vmlinux" \in Text /\ "/boot/vmlinux" # None
          /\ "/vmlinux" \in Text /\ "/vmlinux" # None
          /\ "/boot/vmlinuz" \in Text /\ "/boot/vmlinuz" # None
          /\ "/yaboot" \in Text /\ "/yaboot" # None
      BY Zenon DEF Text, None
    <3>2. \A f \in 1 .. 4 : f = 1 \/ f = 2 \/ f = 3 \/ f = 4
      OBVIOUS
    <3>3. /\ files[1] = "/boot/vmlinux" /\ files[2] = "/vmlinux"
          /\ files[3] = "/boot/vmlinuz" /\ files[4] = "/yaboot"
      OBVIOUS
    <3> HIDE DEF files
    <3>4. QED
      BY <3>1, <3>2, <3>3, Zenon
  <2> HIDE DEF files
  <2>2. \A f \in 1 .. 4 : Command("hd", part.reg, files[f], None) \in HdCommands
    BY <1>1, <2>1, HdCommandIn
  <2>3. loader_linux(part) = [f \in 1 .. 4 |-> Command("hd", part.reg, files[f], None)]
    BY DEF loader_linux, files
  <2>4. loader_linux(part) \in [1 .. 4 -> HdCommands] /\ 4 \in Nat
    BY <2>2, <2>3
  <2>5. loader_linux(part) \in Seq(HdCommands)
    BY <2>4, SeqDef
  <2>6. HdLoader(family, part) = loader_linux(part)
    BY <1>3 DEF HdLoader
  <2>7. QED
    BY <2>5, <2>6
<1>4. CASE family = "morphos"
  BY <1>4, EmptySeq DEF HdLoader
<1>5. QED
  BY <1>2, <1>3, <1>4 DEF FamilyNames

LEMMA CdLoaderTyped ==
  ASSUME NEW family \in FamilyNames
  PROVE  CdLoader(family) \in Seq(CdCommands)
<1>1. ASSUME NEW a \in CdCommands, NEW b \in CdCommands, NEW c \in CdCommands,
             NEW d \in CdCommands
      PROVE  <<a>> \in Seq(CdCommands) /\ <<a, b, c, d>> \in Seq(CdCommands)
  OBVIOUS
<1>2. /\ "amigaboot.of" \in Text /\ "amigaboot.of" # None
      /\ "vmlinuz-chrp.initrd" \in Text /\ "vmlinuz-chrp.initrd" # None
      /\ "boot/vmlinux" \in Text /\ "boot/vmlinux" # None
      /\ "vmlinux" \in Text /\ "vmlinux" # None
      /\ "yaboot" \in Text /\ "yaboot" # None
      /\ "/boot.img" \in Text /\ "/boot.img" # None
      /\ None \in Text /\ "console=ttyS0,9600" \in Text /\ "rds=0" \in Text
  BY Zenon DEF Text, None
<1>3. CASE family = "amigaos"
  <2>1. CdLoader(family) = <<Command("cd", 0, "amigaboot.of", None)>>
    BY <1>3 DEF CdLoader
  <2>2. QED
    BY <1>1, <1>2, <2>1, CdCommandIn, Zenon
<1>4. CASE family = "linux"
  <2>1. CdLoader(family) = << Command("cd", 0, "vmlinuz-chrp.initrd", "console=ttyS0,9600"),
                              Command("cd", 0, "boot/vmlinux", None),
                              Command("cd", 0, "vmlinux", None),
                              Command("cd", 0, "yaboot", None) >>
    BY <1>4 DEF CdLoader
  <2>2. /\ Command("cd", 0, "vmlinuz-chrp.initrd", "console=ttyS0,9600") \in CdCommands
        /\ Command("cd", 0, "boot/vmlinux", None) \in CdCommands
        /\ Command("cd", 0, "vmlinux", None) \in CdCommands
        /\ Command("cd", 0, "yaboot", None) \in CdCommands
    BY <1>2, CdCommandIn, Zenon
  <2>3. QED
    BY <1>1, <2>1, <2>2, Zenon
<1>5. CASE family = "morphos"
  <2>1. CdLoader(family) = <<Command("cd", 0, "/boot.img", "rds=0")>>
    BY <1>5 DEF CdLoader
  <2>2. QED
    BY <1>1, <1>2, <2>1, CdCommandIn, Zenon
<1>6. QED
  BY <1>3, <1>4, <1>5 DEF FamilyNames

LEMMA CommandSets ==
  /\ HdCommands \subseteq CommandType /\ CdCommands \subseteq CommandType
  /\ PlainBoot \in CommandType /\ NoCommand \in CommandType
  /\ TypedCommands \subseteq CommandType
<1>1. /\ "hd" \in Text /\ "cd" \in Text /\ None \in Text /\ STRING \subseteq Text
      /\ TRUE \in BOOLEAN /\ FALSE \in BOOLEAN /\ 0 \in Int
  <2>1. "hd" \in Text /\ "cd" \in Text /\ None \in Text /\ STRING \subseteq Text
    BY Zenon DEF Text, None
  <2>2. QED
    BY <2>1
<1>2. /\ {"hd"} \subseteq Text /\ {"cd"} \subseteq Text /\ {None} \subseteq Text
      /\ Text \ {None} \subseteq Text /\ {TRUE} \subseteq BOOLEAN /\ Int \subseteq Int
      /\ Text \subseteq Text /\ BOOLEAN \subseteq BOOLEAN
  BY <1>1
<1>3. HdCommands \subseteq CommandType /\ CdCommands \subseteq CommandType
  BY <1>2, CommandSetsGrow, Zenon DEF HdCommands, CdCommands, CommandType
<1>4. PlainBoot \in CommandType /\ NoCommand \in CommandType
  BY <1>1, CommandIn, Zenon DEF PlainBoot, Command, NoCommand, CommandType
<1>5. [dev : STRING, slot : Int, file : STRING, args : {None}, go : BOOLEAN] \subseteq CommandType
  BY <1>1, <1>2, CommandSetsGrow, Zenon DEF CommandType
<1>6. QED
  BY <1>3, <1>4, <1>5, TypedCommandsAssumption

-----------------------------------------------------------------------------
(* What is at the load address *)

(* The commands, and what they leave behind, have their types; the queue is *)
(* that of the pass, and only a command that goes on to "go" has bootargs.  *)
CommandInv ==
  /\ command \in CommandType /\ (~command.go => command.args = None)
  /\ pass \in {1, 2, 3}
  /\ pass = 1 => queue \in Seq(HdCommands)
  /\ pass = 2 => queue \in Seq(CdCommands)
  /\ pass = 3 => queue \in {<< >>, <<PlainBoot>>}
  /\ image \in [from : CommandType, whole : BOOLEAN, kind : {"exec", "badelf", "data"}]
  /\ chosen \in [bootpath : Text, bootargs : Text]

(* image runs only with its own /chosen. *)
OwnChosen ==
  /\ image.from # NoCommand /\ chosen.bootpath = image.from.dev
  /\ chosen.bootargs = IF image.from.args = None THEN image.from.file ELSE image.from.args

(* A load put a valid executable there and /chosen is its own, except that  *)
(* its bootargs may still have to be set; from the moment a device is  *)
(* open until its file is loaded nothing is valid and /chosen is this       *)
(* command's.                                                               *)
LoadInv ==
  /\ pc \in {"lookup", "load"} =>
       /\ ~stateValid /\ chosen.bootpath # None
       /\ chosen.bootpath = Head(devices).dev /\ chosen.bootargs = command.file
  /\ pc = "bootargs" /\ image.kind = "exec" =>
       /\ image.from # NoCommand /\ chosen.bootpath = image.from.dev
       /\ command.args # None /\ image.from.args = command.args
  /\ pc # "bootargs" /\ stateValid /\ image.kind = "exec" => OwnChosen
  /\ pc = "os" => stateValid /\ image.kind = "exec"

LEMMA QueueHead ==
  ASSUME CommandInv, queue # << >>
  PROVE  /\ Head(queue) \in CommandType /\ Head(queue).go
         /\ pass = 1 => Head(queue) \in HdCommands /\ Tail(queue) \in Seq(HdCommands)
         /\ pass = 2 => Head(queue) \in CdCommands /\ Tail(queue) \in Seq(CdCommands)
         /\ pass = 3 => Head(queue) = PlainBoot /\ Tail(queue) = << >>
<1>1. CASE pass = 1
  <2>1. Head(queue) \in HdCommands /\ Tail(queue) \in Seq(HdCommands)
    BY <1>1, HeadTailProperties DEF CommandInv
  <2>2. Head(queue).go
    BY <2>1 DEF HdCommands
  <2>3. QED
    BY <1>1, <2>1, <2>2, CommandSets
<1>2. CASE pass = 2
  <2>1. Head(queue) \in CdCommands /\ Tail(queue) \in Seq(CdCommands)
    BY <1>2, HeadTailProperties DEF CommandInv
  <2>2. Head(queue).go
    BY <2>1 DEF CdCommands
  <2>3. QED
    BY <1>2, <2>1, <2>2, CommandSets
<1>3. CASE pass = 3
  <2>1. queue = <<PlainBoot>>
    BY <1>3 DEF CommandInv
  <2>2. Head(queue) = PlainBoot /\ Tail(queue) = << >>
    BY <2>1
  <2>3. PlainBoot.go
    BY DEF PlainBoot, Command
  <2>4. QED
    BY <1>3, <2>2, <2>3, CommandSets
<1>4. QED
  BY <1>1, <1>2, <1>3 DEF CommandInv

LEMMA InitLoad == Init => CommandInv /\ LoadInv
<1> SUFFICES ASSUME Init PROVE CommandInv /\ LoadInv
  OBVIOUS
<1>1. /\ pc = "ok" /\ pass = 1 /\ queue = << >> /\ command = NoCommand
      /\ image = NoImage /\ stateValid = FALSE
      /\ chosen = [bootpath |-> None, bootargs |-> None]
  BY DEF Init
<1>2. NoImage \in [from : CommandType, whole : BOOLEAN, kind : {"exec", "badelf", "data"}]
  <2>1. NoCommand \in CommandType
    BY CommandSets
  <2>2. QED
    BY <2>1 DEF NoImage
<1>3. chosen \in [bootpath : Text, bootargs : Text]
  <2>1. None \in Text
    BY Zenon DEF Text
  <2>2. QED
    BY <1>1, <2>1
<1>4. command \in CommandType /\ command.args = None
  BY <1>1, CommandSets DEF NoCommand
<1>5. CommandInv
  BY <1>1, <1>2, <1>3, <1>4, EmptySeq DEF CommandInv
<1>6. LoadInv
  BY <1>1 DEF LoadInv
<1>7. QED
  BY <1>5, <1>6

(* The commands that a name of the list calls for. *)
LEMMA TokenQueue ==
  ASSUME ChainInv, SmartToken
  PROVE  /\ pass = 1 => queue' \in Seq(HdCommands)
         /\ pass = 2 => queue' \in Seq(CdCommands)
<1> DEFINE family == resolve_family_token(PriorityNow[cur])
           k == pick_partition_for_family(family)
<1>1. family \in FamilyNames \union {None} /\ None \notin FamilyNames
  BY FamilyKnown, Zenon DEF FamilyNames, None
<1>2. queue' = CASE family = None -> << >>
                 [] family # None /\ pass = 1 ->
                      IF Candidates(family) = {} THEN << >> ELSE HdLoader(family, children[k])
                 [] family # None /\ pass = 2 -> CdLoader(family)
  BY DEF SmartToken
<1>3. Candidates(family) # {} => children[k] \in Child
  BY PickIsBest
<1> HIDE DEF family, k
<1>4. family # None => family \in FamilyNames
  BY <1>1
<1>5. pass \in {1, 2}
  BY DEF SmartToken
<1>6. CASE family = None
  BY <1>2, <1>6, EmptySeq
<1>7. CASE family # None /\ pass = 1
  <2>1. queue' = IF Candidates(family) = {} THEN << >> ELSE HdLoader(family, children[k])
    BY <1>2, <1>7
  <2>2. QED
    BY <1>3, <1>4, <1>7, <2>1, HdLoaderTyped, EmptySeq
<1>8. CASE family # None /\ pass = 2
  <2>1. queue' = CdLoader(family)
    BY <1>2, <1>8
  <2>2. QED
    BY <1>4, <1>8, <2>1, CdLoaderTyped
<1>9. QED
  BY <1>5, <1>6, <1>7, <1>8

(* A command is on its way, or was refused for want of the password. *)
LEMMA LoadCommand ==
  ASSUME CommandInv, NEW c \in CommandType, ~c.go => c.args = None, f_load(c)
  PROVE  /\ command' \in CommandType /\ (~command'.go => command'.args = None)
         /\ pc' = "devices" \/ pc' = Caller(tried')
         /\ pc' = "devices" => command'.go = c.go
<1>1. CASE do_load(c)
  <2>1. PICK f \in {"boot-file", Junk, c.file} : command' = [c EXCEPT !.file = f]
    BY <1>1 DEF do_load
  <2>2. "boot-file" \in Text /\ Junk \in Text
    BY Zenon DEF Text, Junk
  <2>3. f \in Text
    BY <2>1, <2>2 DEF CommandType
  <2>4. command' \in CommandType /\ command'.go = c.go /\ command'.args = c.args
    BY <2>1, <2>3 DEF CommandType
  <2>5. QED
    BY <1>1, <2>4 DEF do_load
<1>2. CASE pc' = Caller(tried') /\ UNCHANGED command
  BY <1>2 DEF CommandInv, Caller
<1>3. QED
  BY <1>1, <1>2 DEF f_load

LEMMA LoadKept ==
  ASSUME CommandInv, LoadInv, UNCHANGED loadVars,
         pc \notin {"bootargs", "os"}, pc' \notin {"lookup", "load", "bootargs", "os"}
  PROVE  LoadInv'
<1>1. UNCHANGED <<image, stateValid, chosen>>
  BY DEF loadVars
<1>2. QED
  BY <1>1 DEF LoadInv, OwnChosen

LEMMA CallerPc == Caller(tried) \in {"ok", "smart"} /\ Caller(tried') \in {"ok", "smart"}
BY DEF Caller

LEMMA CommandKept ==
  ASSUME CommandInv, UNCHANGED <<command, pass, queue, image, chosen>>
  PROVE  CommandInv'
BY DEF CommandInv

LEMMA SmartLoad ==
  ASSUME ChainInv, CommandInv, LoadInv,
         smart_boot \/ SmartToken \/ SmartNextPass \/ SmartReturns \/ SmartCommand
  PROVE  CommandInv' /\ LoadInv'
<1>1. pc \notin {"bootargs", "os"} /\ UNCHANGED loadVars
  BY DEF smart_boot, AtPrompt, SmartToken, SmartNextPass, SmartReturns, SmartCommand
<1>2. UNCHANGED <<image, chosen>>
  BY <1>1 DEF loadVars
<1>3. CASE smart_boot
  <2>1. /\ pc' = "smart" /\ pass' \in {1, 2, 3} /\ UNCHANGED command
        /\ queue' = IF pass' = 3 THEN <<PlainBoot>> ELSE << >>
    BY <1>3 DEF smart_boot
  <2>2. CommandInv'
    BY <1>2, <2>1, EmptySeq DEF CommandInv
  <2>3. QED
    BY <1>1, <2>1, <2>2, LoadKept
<1>4. CASE SmartToken
  <2>1. pc' = "smart" /\ UNCHANGED <<command, pass>> /\ pass \in {1, 2}
    BY <1>4 DEF SmartToken
  <2>2. CommandInv'
    BY <1>2, <1>4, <2>1, TokenQueue DEF CommandInv
  <2>3. QED
    BY <1>1, <2>1, <2>2, LoadKept
<1>5. CASE SmartNextPass
  <2>1. /\ pc' = "smart" /\ pass' \in {2, 3} /\ UNCHANGED command
        /\ queue' = IF pass' = 3 THEN <<PlainBoot>> ELSE << >>
    BY <1>5 DEF SmartNextPass
  <2>2. CommandInv'
    BY <1>2, <2>1, EmptySeq DEF CommandInv
  <2>3. QED
    BY <1>1, <2>1, <2>2, LoadKept
<1>6. CASE SmartReturns
  <2>1. pc' = "ok" /\ UNCHANGED <<command, pass, queue>>
    BY <1>6 DEF SmartReturns, smartVars
  <2>2. CommandInv'
    BY <1>2, <2>1, CommandKept
  <2>3. QED
    BY <1>1, <2>1, <2>2, LoadKept
<1>7. CASE SmartCommand
  <2>1. queue # << >> /\ queue' = Tail(queue) /\ pass' = pass /\ f_load(Head(queue))
    BY <1>7 DEF SmartCommand
  <2>2. /\ command' \in CommandType /\ (~command'.go => command'.args = None)
        /\ pc' = "devices" \/ pc' = Caller(tried')
    BY <2>1, QueueHead, LoadCommand
  <2>3. CommandInv'
    BY <1>2, <2>1, <2>2, QueueHead DEF CommandInv
  <2>4. QED
    BY <1>1, <2>2, <2>3, CallerPc, LoadKept
<1>8. QED
  BY <1>3, <1>4, <1>5, <1>6, <1>7

LEMMA TypedLoad ==
  ASSUME CommandInv, LoadInv, TypeGo \/ \E c \in TypedCommands : TypeLoad(c)
  PROVE  CommandInv' /\ LoadInv'
<1>1. pc \notin {"bootargs", "os"} /\ UNCHANGED <<pass, queue, image, stateValid, chosen>>
  BY DEF TypeGo, TypeLoad, AtPrompt, loadVars
<1>2. CASE TypeGo
  <2>1. pc' = "go" /\ command' = [NoCommand EXCEPT !.go = TRUE]
    BY <1>2 DEF TypeGo
  <2>2. command' \in CommandType /\ command'.args = None
    <3>1. NoCommand \in CommandType /\ NoCommand.args = None
      BY CommandSets DEF NoCommand
    <3>2. QED
      BY <2>1, <3>1 DEF CommandType
  <2>3. CommandInv'
    BY <1>1, <2>2 DEF CommandInv
  <2>4. QED
    BY <1>1, <2>1, <2>3, LoadKept DEF loadVars
<1>3. CASE \E c \in TypedCommands : TypeLoad(c)
  <2>1. PICK c \in TypedCommands : TypeLoad(c)
    BY <1>3
  <2>2. c \in CommandType /\ c.args = None
    BY CommandSets, TypedCommandsAssumption
  <2>3. /\ command' \in CommandType /\ (~command'.go => command'.args = None)
        /\ pc' = "devices" \/ pc' = Caller(tried')
    BY <2>1, <2>2, LoadCommand DEF TypeLoad
  <2>4. CommandInv'
    BY <1>1, <2>3 DEF CommandInv
  <2>5. QED
    BY <1>1, <2>3, <2>4, CallerPc, LoadKept DEF loadVars
<1>4. QED
  BY <1>2, <1>3

LEMMA TryLoadLoad ==
  ASSUME CommandInv, LoadInv, TryLoad
  PROVE  CommandInv' /\ LoadInv'
<1> USE CallerPc
<1>1. UNCHANGED <<command, pass, queue>>
  BY DEF TryLoad, OpenFails, Opens, WalkChain, PartitionFound, NoPartition, LoadFails,
         WalkNeverEnds, Loads, smartVars
<1>2. CASE OpenFails \/ NoPartition
  <2>1. /\ UNCHANGED loadVars /\ pc \in {"devices", "lookup"}
        /\ pc' \in {"devices", Caller(tried)}
    BY <1>2 DEF OpenFails, NoPartition, TryNext
  <2>2. CommandInv'
    BY <1>1, <2>1, CommandKept DEF loadVars
  <2>3. QED
    BY <2>1, <2>2, LoadKept
<1>3. CASE Opens
  <2> DEFINE d == Head(devices)
  <2>1. /\ pc = "devices" /\ Attached(d.dev) /\ stateValid' = FALSE
        /\ chosen' = [bootpath |-> d.dev, bootargs |-> command.file]
        /\ pc' \in {"lookup", "load"} /\ UNCHANGED <<devices, image>>
    BY <1>3 DEF Opens
  <2>2. d.dev \in Text /\ d.dev # None
    <3>1. d.dev = "hd" \/ d.dev = "cd"
      BY <2>1 DEF Attached
    <3>2. "hd" \in Text /\ "cd" \in Text
      BY Zenon DEF Text
    <3>3. QED
      BY <3>1, <3>2 DEF None
  <2> HIDE DEF d
  <2>3. command.file \in Text
    BY DEF CommandInv, CommandType
  <2>4. chosen' \in [bootpath : Text, bootargs : Text]
    BY <2>1, <2>2, <2>3
  <2>5. CommandInv'
    BY <1>1, <2>1, <2>4 DEF CommandInv
  <2>6. /\ chosen'.bootpath = Head(devices).dev /\ chosen'.bootpath # None
        /\ chosen'.bootargs = command.file
    BY <2>1, <2>2 DEF d
  <2>7. LoadInv'
    BY <1>1, <2>1, <2>6 DEF LoadInv
  <2>8. QED
    BY <2>5, <2>7
<1>4. CASE WalkChain \/ PartitionFound
  <2>1. /\ UNCHANGED loadVars /\ pc = "lookup" /\ pc' \in {"lookup", "load"}
        /\ UNCHANGED devices
    BY <1>4 DEF WalkChain, PartitionFound
  <2>2. CommandInv'
    BY <1>1, <2>1, CommandKept DEF loadVars
  <2>3. LoadInv'
    BY <1>1, <2>1 DEF LoadInv, loadVars, OwnChosen
  <2>4. QED
    BY <2>2, <2>3
<1>5. CASE LoadFails
  <2>1. /\ pc = "load" /\ (image' = image \/ image' = [NoImage EXCEPT !.kind = "exec"])
        /\ pc' \in {"devices", Caller(tried)} /\ UNCHANGED <<stateValid, chosen>>
    BY <1>5 DEF LoadFails, TryNext
  <2>2. [NoImage EXCEPT !.kind = "exec"]
          \in [from : CommandType, whole : BOOLEAN, kind : {"exec", "badelf", "data"}]
    BY CommandSets DEF NoImage
  <2>3. CommandInv'
    BY <1>1, <2>1, <2>2 DEF CommandInv
  <2>4. ~stateValid'
    BY <2>1 DEF LoadInv
  <2>5. LoadInv'
    BY <2>1, <2>4 DEF LoadInv
  <2>6. QED
    BY <2>3, <2>5
<1>6. CASE WalkNeverEnds
  <2>1. /\ UNCHANGED loadVars /\ pc = "load" /\ pc' = "walking"
    BY <1>6 DEF WalkNeverEnds
  <2>2. CommandInv'
    BY <1>1, <2>1, CommandKept DEF loadVars
  <2>3. LoadInv'
    BY <2>1 DEF LoadInv, loadVars
  <2>4. QED
    BY <2>2, <2>3
<1>7. ASSUME NEW kind \in {"exec", "badelf", "data"}, NEW whole \in BOOLEAN,
             Loads(kind, whole)
      PROVE  CommandInv' /\ LoadInv'
  <2> DEFINE d == Head(devices).dev
             from == IF kind = "exec" THEN [command EXCEPT !.dev = d] ELSE NoCommand
  <2>1. /\ pc = "load" /\ stateValid' = (kind # "data") /\ UNCHANGED chosen
        /\ image' = [from |-> from, whole |-> kind = "exec" /\ whole, kind |-> kind]
    BY <1>7 DEF Loads, NoImage
  <2>2. chosen.bootpath = d /\ d # None /\ chosen.bootargs = command.file /\ d \in Text
    BY <2>1 DEF LoadInv, CommandInv
  <2> HIDE DEF d
  <2>3. from \in CommandType
    BY <2>2, CommandSets DEF CommandInv, CommandType
  <2>4. kind = "exec" => /\ from.dev = d /\ from.file = command.file
                         /\ from.args = command.args /\ from # NoCommand
    BY <2>2 DEF CommandInv, CommandType, NoCommand
  <2> HIDE DEF from
  <2>5. CommandInv'
    BY <1>1, <2>1, <2>3 DEF CommandInv
  <2>6. image'.kind = kind /\ image'.from = from
    BY <2>1
  <2>7. CASE kind = "data"
    <3>1. pc' \in {"devices", Caller(tried)} /\ ~stateValid'
      BY <1>7, <2>1, <2>7 DEF Loads, TryNext
    <3>2. LoadInv'
      BY <3>1 DEF LoadInv
    <3>3. QED
      BY <2>5, <3>2
  <2>8. CASE kind # "data"
    <3>1. pc' = IF ~command.go THEN "ok" ELSE IF command.args # None THEN "bootargs" ELSE "go"
      BY <1>7, <2>8 DEF Loads
    <3>2. CASE pc' = "bootargs"
      <4>1. command.args # None
        BY <3>1, <3>2
      <4>2. LoadInv'
        BY <1>1, <2>1, <2>2, <2>4, <2>6, <3>2, <4>1 DEF LoadInv
      <4>3. QED
        BY <2>5, <4>2
    <3>3. CASE pc' # "bootargs"
      <4>1. pc' \in {"ok", "go"} /\ command.args = None
        BY <3>1, <3>3 DEF CommandInv
      <4>2. kind = "exec" => OwnChosen'
        BY <2>1, <2>2, <2>4, <2>6, <4>1 DEF OwnChosen
      <4>3. LoadInv'
        BY <2>6, <4>1, <4>2 DEF LoadInv
      <4>4. QED
        BY <2>5, <4>3
    <3>4. QED
      BY <3>2, <3>3
  <2>9. QED
    BY <2>7, <2>8
<1>8. QED
  BY <1>2, <1>3, <1>4, <1>5, <1>6, <1>7 DEF TryLoad

LEMMA GoLoad ==
  ASSUME CommandInv, LoadInv, SetBootargs \/ Go
  PROVE  CommandInv' /\ LoadInv'
<1>1. UNCHANGED <<command, pass, queue, image, stateValid>>
  BY DEF SetBootargs, Go, smartVars, loadVars
<1>2. CASE SetBootargs
  <2>1. /\ pc = "bootargs" /\ pc' = "go"
        /\ chosen' = [chosen EXCEPT !.bootargs = command.args]
    BY <1>2 DEF SetBootargs
  <2>2. command.args \in Text
    BY DEF CommandInv, CommandType
  <2>3. /\ chosen' \in [bootpath : Text, bootargs : Text]
        /\ chosen'.bootpath = chosen.bootpath /\ chosen'.bootargs = command.args
    BY <2>1, <2>2 DEF CommandInv
  <2>4. CommandInv'
    BY <1>1, <2>3 DEF CommandInv
  <2>5. LoadInv'
    BY <1>1, <2>1, <2>3 DEF LoadInv, OwnChosen
  <2>6. QED
    BY <2>4, <2>5
<1>3. CASE Go
  <2>1. /\ pc = "go" /\ UNCHANGED chosen
        /\ pc' = IF stateValid /\ image.kind = "exec" THEN "os" ELSE Caller(tried)
    BY <1>3 DEF Go, loadVars
  <2>2. CommandInv'
    BY <1>1, <2>1, CommandKept
  <2>3. LoadInv'
    BY <1>1, <2>1, CallerPc DEF LoadInv, OwnChosen
  <2>4. QED
    BY <2>2, <2>3
<1>4. QED
  BY <1>2, <1>3

LEMMA LoadStep ==
  ChainInv /\ CommandInv /\ LoadInv /\ [Next]_vars => CommandInv' /\ LoadInv'
<1> SUFFICES ASSUME ChainInv, CommandInv, LoadInv, [Next]_vars
             PROVE  CommandInv' /\ LoadInv'
  OBVIOUS
<1>1. CASE Install \/ UNCHANGED vars
  <2>1. UNCHANGED <<command, pass, queue, image, chosen, stateValid, pc, devices>>
    BY <1>1 DEF Install, vars, smartVars, loadVars
  <2>2. CommandInv'
    BY <2>1, CommandKept
  <2>3. LoadInv'
    BY <2>1 DEF LoadInv, OwnChosen
  <2>4. QED
    BY <2>2, <2>3
<1>2. CASE smart_boot \/ SmartToken \/ SmartNextPass \/ SmartReturns \/ SmartCommand
  BY <1>2, SmartLoad
<1>3. CASE TypeGo \/ \E c \in TypedCommands : TypeLoad(c)
  BY <1>3, TypedLoad
<1>4. CASE TryLoad
  BY <1>4, TryLoadLoad
<1>5. CASE SetBootargs \/ Go
  BY <1>5, GoLoad
<1>6. QED
  BY <1>1, <1>2, <1>3, <1>4, <1>5 DEF Next, Firmware, User

(* JumpIsSound: whatever sequence of failed loads, boots and go came        *)
(* before, machine_go only jumps to an image that a load reporting success  *)
(* put there and that was recognised, with /chosen naming its own device    *)
(* and arguments.                                                           *)
THEOREM JumpHolds == Spec => []JumpIsSound
<1>1. LoadInv => JumpIsSound
  BY DEF LoadInv, OwnChosen, JumpIsSound
<1>2. QED
  BY <1>1, InitChain, ChainStep, InitLoad, LoadStep, PTL DEF Spec

-----------------------------------------------------------------------------
(* The list is followed *)

LEMMA ExtendsLess ==
  ASSUME NEW S, NEW s \in Seq(S), NEW q \in Seq(S), NEW t \in Seq(S), Extends(t, s \o q, S)
  PROVE  Extends(t, s, S)
<1>1. PICK r \in Seq(S) : t = (s \o q) \o r
  BY DEF Extends
<1>2. q \o r \in Seq(S) /\ t = s \o (q \o r)
  BY <1>1, ConcatProperties, ConcatAssociative
<1>3. QED
  BY <1>2 DEF Extends

LEMMA ExtendsAfter ==
  ASSUME NEW S, NEW v \in Seq(S), NEW s \in Seq(S), NEW t \in Seq(S), Extends(t, s, S)
  PROVE  Extends(v \o t, v \o s, S)
<1>1. PICK r \in Seq(S) : t = s \o r
  BY DEF Extends
<1>2. v \o t = (v \o s) \o r
  BY <1>1, ConcatAssociative
<1>3. QED
  BY <1>2 DEF Extends

(* Issuing the first command of the queue moves it to those tried. *)
LEMMA MoveHead ==
  ASSUME NEW S, NEW s \in Seq(S), NEW q \in Seq(S), q # << >>
  PROVE  /\ Append(s, Head(q)) \in Seq(S) /\ Append(s, Head(q)) # << >>
         /\ Append(s, Head(q)) \o Tail(q) = s \o q
<1>1. Head(q) \in S /\ Tail(q) \in Seq(S) /\ <<Head(q)>> \in Seq(S)
  BY HeadTailProperties
<1>2. <<Head(q)>> \o Tail(q) = q
  <2>1. /\ Len(<<Head(q)>> \o Tail(q)) = Len(Tail(q)) + 1
        /\ (<<Head(q)>> \o Tail(q))[1] = Head(q)
        /\ \A i \in 2 .. Len(Tail(q)) + 1 : (<<Head(q)>> \o Tail(q))[i] = Tail(q)[i - 1]
        /\ <<Head(q)>> \o Tail(q) \in Seq(S)
    BY <1>1, ConsSeq
  <2>2. /\ Len(Tail(q)) = Len(q) - 1 /\ Len(q) \in Nat \ {0}
        /\ \A i \in 1 .. Len(Tail(q)) : Tail(q)[i] = q[i + 1]
        /\ Head(q) = q[1]
    BY HeadTailProperties, EmptySeq
  <2>3. Len(<<Head(q)>> \o Tail(q)) = Len(q)
    BY <2>1, <2>2
  <2>4. ASSUME NEW i \in 1 .. Len(q) PROVE (<<Head(q)>> \o Tail(q))[i] = q[i]
    <3>1. CASE i = 1
      BY <2>1, <2>2, <3>1
    <3>2. CASE i # 1
      <4>1. i \in 2 .. Len(Tail(q)) + 1 /\ i - 1 \in 1 .. Len(Tail(q)) /\ (i - 1) + 1 = i
        BY <2>2, <3>2
      <4>2. Tail(q)[i - 1] = q[(i - 1) + 1]
        BY <2>2, <4>1
      <4>3. QED
        BY <2>1, <4>1, <4>2
    <3>3. QED
      BY <3>1, <3>2
  <2>5. QED
    BY <2>1, <2>3, <2>4, SeqEqual
<1>3. Append(s, Head(q)) = s \o <<Head(q)>>
  BY <1>1, AppendIsConcat
<1>4. (s \o <<Head(q)>>) \o Tail(q) = s \o q
  BY <1>1, <1>2, ConcatAssociative
<1>5. Append(s, Head(q)) \in Seq(S) /\ Append(s, Head(q)) # << >>
  BY <1>1, AppendProperties
<1>6. QED
  BY <1>3, <1>4, <1>5

(* While smart-boot runs, and after it, what it has issued and what is left *)
(* of the current name is exactly what the names read so far call for; and  *)
(* get_config's buffer still holds the list, until the plain boot.          *)
FollowInv ==
  /\ tried \in Seq(CommandType) /\ priority \in PriorityLists
  /\ cur \in 1 .. Len(List) + 1
  /\ pc \in {"devices", "lookup", "load", "bootargs", "go"} /\ tried # << >> => command.go
  /\ pc = "smart" \/ tried # << >> =>
       /\ ipc = "done"
       /\ pass = 1 => hd /\ tried \o queue = Upto(HdParts)[cur - 1]
       /\ pass = 2 => cd /\ tried \o queue = HdPlan \o Upto(CdParts)[cur - 1]
       /\ pass = 3 => tried \o queue = Plan
       /\ pass # 3 /\ priority # << >> => strbuf = priority
       /\ pc = "ok" => pass = 3 /\ queue = << >>

LEMMA PartsTyped ==
  ASSUME ChainInv, priority \in PriorityLists
  PROVE  /\ Len(List) \in Nat
         /\ HdParts \in [1 .. Len(List) -> Seq(CommandType)]
         /\ CdParts \in [1 .. Len(List) -> Seq(CommandType)]
<1>1. Len(List) \in Nat
  <2>1. CASE priority = << >>
    BY <2>1 DEF List, FallbackList
  <2>2. CASE priority # << >>
    BY <2>2, PriorityListsAssumption, LenProperties DEF List
  <2>3. QED
    BY <2>1, <2>2
<1>2. ASSUME NEW i \in 1 .. Len(List) PROVE HdParts[i] \in Seq(CommandType)
  <2> DEFINE family == resolve_family_token(List[i])
  <2>1. HdParts[i] = IF family = None \/ Eligible(family) = {} THEN << >>
                     ELSE HdLoader(family, Best(family))
    BY DEF HdParts
  <2>2. family # None => family \in FamilyNames
    BY FamilyKnown
  <2>3. Eligible(family) # {} => Best(family) \in Child
    BY PickIsBest
  <2> HIDE DEF family
  <2>4. family # None /\ Eligible(family) # {} => HdLoader(family, Best(family)) \in Seq(HdCommands)
    BY <2>2, <2>3, HdLoaderTyped
  <2>5. family # None /\ Eligible(family) # {} => HdLoader(family, Best(family)) \in Seq(CommandType)
    BY <2>4, CommandSets, SeqMonotonic
  <2>6. QED
    BY <2>1, <2>5, EmptySeq
<1>3. ASSUME NEW i \in 1 .. Len(List) PROVE CdParts[i] \in Seq(CommandType)
  <2> DEFINE family == resolve_family_token(List[i])
  <2>1. CdParts[i] = IF family = None THEN << >> ELSE CdLoader(family)
    BY DEF CdParts
  <2>2. family # None => family \in FamilyNames
    BY FamilyKnown
  <2> HIDE DEF family
  <2>3. family # None => CdLoader(family) \in Seq(CdCommands)
    BY <2>2, CdLoaderTyped
  <2>4. family # None => CdLoader(family) \in Seq(CommandType)
    BY <2>3, CommandSets, SeqMonotonic
  <2>5. QED
    BY <2>1, <2>4, EmptySeq
<1>4. /\ HdParts = [i \in 1 .. Len(List) |-> HdParts[i]]
      /\ CdParts = [i \in 1 .. Len(List) |-> CdParts[i]]
  BY DEF HdParts, CdParts
<1> HIDE DEF HdParts, CdParts
<1>5. QED
  BY <1>1, <1>2, <1>3, <1>4

LEMMA PlanSteps ==
  ASSUME ChainInv, priority \in PriorityLists
  PROVE  /\ Upto(HdParts)[0] = << >> /\ Upto(CdParts)[0] = << >>
         /\ \A i \in 1 .. Len(List) :
              /\ Upto(HdParts)[i] = Upto(HdParts)[i - 1] \o HdParts[i]
              /\ Upto(CdParts)[i] = Upto(CdParts)[i - 1] \o CdParts[i]
              /\ HdParts[i] \in Seq(CommandType) /\ CdParts[i] \in Seq(CommandType)
         /\ \A i \in 0 .. Len(List) :
              /\ Upto(HdParts)[i] \in Seq(CommandType)
              /\ Upto(CdParts)[i] \in Seq(CommandType)
         /\ HdPlan = IF hd THEN Upto(HdParts)[Len(List)] ELSE << >>
         /\ CdPlan = IF cd THEN Upto(CdParts)[Len(List)] ELSE << >>
         /\ HdPlan \in Seq(CommandType) /\ CdPlan \in Seq(CommandType)
<1>1. /\ Len(List) \in Nat
      /\ HdParts \in [1 .. Len(List) -> Seq(CommandType)]
      /\ CdParts \in [1 .. Len(List) -> Seq(CommandType)]
  BY PartsTyped
<1>2. /\ Len(HdParts) = Len(List)
      /\ Upto(HdParts)[0] = << >>
      /\ \A i \in 1 .. Len(List) : Upto(HdParts)[i] = Upto(HdParts)[i - 1] \o HdParts[i]
      /\ \A i \in 0 .. Len(List) : Upto(HdParts)[i] \in Seq(CommandType)
  BY <1>1, UptoProperties, Zenon
<1>3. /\ Len(CdParts) = Len(List)
      /\ Upto(CdParts)[0] = << >>
      /\ \A i \in 1 .. Len(List) : Upto(CdParts)[i] = Upto(CdParts)[i - 1] \o CdParts[i]
      /\ \A i \in 0 .. Len(List) : Upto(CdParts)[i] \in Seq(CommandType)
  BY <1>1, UptoProperties, Zenon
<1>4. \A i \in 1 .. Len(List) : /\ HdParts[i] \in Seq(CommandType)
                                /\ CdParts[i] \in Seq(CommandType)
  BY <1>1
<1>5. /\ HdPlan = IF hd THEN Upto(HdParts)[Len(List)] ELSE << >>
      /\ CdPlan = IF cd THEN Upto(CdParts)[Len(List)] ELSE << >>
  BY <1>2, <1>3, Zenon DEF HdPlan, CdPlan, Concat
<1>6. Len(List) \in 0 .. Len(List)
  BY <1>1
<1>7. HdPlan \in Seq(CommandType) /\ CdPlan \in Seq(CommandType)
  BY <1>2, <1>3, <1>5, <1>6, EmptySeq, Zenon
<1>8. QED
  BY <1>2, <1>3, <1>4, <1>5, <1>7, Zenon

(* The plan depends on the packages, the option and the drives alone. *)
LEMMA PlanKept ==
  ASSUME UNCHANGED <<children, priority, hd, cd>>
  PROVE  /\ List' = List /\ HdParts' = HdParts /\ CdParts' = CdParts
         /\ HdPlan' = HdPlan /\ Plan' = Plan
<1>1. List' = List
  BY DEF List
<1>2. HdParts' = HdParts
  BY <1>1 DEF HdParts, Eligible, Best
<1>3. CdParts' = CdParts
  BY <1>1 DEF CdParts
<1>4. HdPlan' = HdPlan /\ CdPlan' = CdPlan
  BY <1>2, <1>3 DEF HdPlan, CdPlan
<1>5. QED
  BY <1>1, <1>2, <1>3, <1>4 DEF Plan

Loading == {"devices", "lookup", "load", "bootargs", "go"}

(* The steps of load and go, and of the user, leave smart-boot's place in   *)
(* its list alone and return to it.                                         *)
LEMMA FollowKept ==
  ASSUME FollowInv,
         UNCHANGED <<children, ipc, envVars, strbuf, smartVars, command>>,
         pc' = "smart" => pc = "smart" \/ tried # << >>,
         pc' = "ok" /\ tried # << >> => pc = "ok",
         pc' \in Loading /\ tried # << >> => pc \in Loading
  PROVE  FollowInv'
<1>1. UNCHANGED <<children, priority, hd, cd, ipc, strbuf, tried, queue, pass, cur, command>>
  BY DEF envVars, smartVars
<1>2. /\ List' = List /\ HdParts' = HdParts /\ CdParts' = CdParts
      /\ HdPlan' = HdPlan /\ Plan' = Plan
  BY <1>1, PlanKept
<1>3. QED
  BY <1>1, <1>2 DEF FollowInv, Loading

(* Nothing was tried: only the types are left to show. *)
LEMMA FollowFresh ==
  ASSUME FollowInv, UNCHANGED <<priority, cur>>, tried' = << >>, pc' # "smart"
  PROVE  FollowInv'
<1>1. List' = List
  BY DEF List
<1>2. QED
  BY <1>1, EmptySeq DEF FollowInv

LEMMA InitFollow == Init => FollowInv
<1> SUFFICES ASSUME Init PROVE FollowInv
  OBVIOUS
<1>1. tried = << >> /\ pc = "ok" /\ cur = 1 /\ priority \in PriorityLists
  BY DEF Init
<1>2. Len(List) \in Nat
  <2>1. CASE priority = << >>
    BY <2>1 DEF List, FallbackList
  <2>2. CASE priority # << >>
    BY <1>1, <2>2, PriorityListsAssumption, LenProperties DEF List
  <2>3. QED
    BY <2>1, <2>2
<1>3. QED
  BY <1>1, <1>2, EmptySeq DEF FollowInv

(* What smart-boot reads at cur is the name in the option, and it calls for *)
(* the commands that are queued.                                            *)
LEMMA TokenIsPart ==
  ASSUME ChainInv, FollowInv, SmartToken
  PROVE  /\ cur \in 1 .. Len(List)
         /\ pass = 1 => queue' = HdParts[cur]
         /\ pass = 2 => queue' = CdParts[cur]
<1> DEFINE family == resolve_family_token(List[cur])
           k == pick_partition_for_family(family)
<1>1. pc = "smart" /\ pass \in {1, 2} /\ cur <= Len(PriorityNow)
  BY DEF SmartToken
<1>2. PriorityNow = List
  BY <1>1 DEF PriorityNow, List, FollowInv
<1>3. cur \in 1 .. Len(List)
  BY <1>1, <1>2, PartsTyped DEF FollowInv
<1>4. queue' = CASE family = None -> << >>
                 [] family # None /\ pass = 1 ->
                      IF Candidates(family) = {} THEN << >> ELSE HdLoader(family, children[k])
                 [] family # None /\ pass = 2 -> CdLoader(family)
  BY <1>2 DEF SmartToken
<1>5. /\ Candidates(family) = {} <=> Eligible(family) = {}
      /\ Candidates(family) # {} => children[k] = Best(family)
  BY PickIsBest
<1>6. /\ HdParts[cur] = IF family = None \/ Eligible(family) = {} THEN << >>
                        ELSE HdLoader(family, Best(family))
      /\ CdParts[cur] = IF family = None THEN << >> ELSE CdLoader(family)
  BY <1>3 DEF HdParts, CdParts
<1> HIDE DEF family, k
<1>7. CASE family = None
  BY <1>3, <1>4, <1>6, <1>7
<1>8. CASE family # None /\ pass = 1
  <2>1. queue' = IF Candidates(family) = {} THEN << >> ELSE HdLoader(family, children[k])
    BY <1>4, <1>8
  <2>2. QED
    BY <1>3, <1>5, <1>6, <1>8, <2>1
<1>9. CASE family # None /\ pass = 2
  <2>1. queue' = CdLoader(family)
    BY <1>4, <1>9
  <2>2. QED
    BY <1>3, <1>6, <1>9, <2>1
<1>10. QED
  BY <1>1, <1>7, <1>8, <1>9

LEMMA TokenFollow ==
  ASSUME ChainInv, FollowInv, SmartToken
  PROVE  FollowInv'
<1>1. /\ pc = "smart" /\ queue = << >> /\ pass \in {1, 2} /\ cur' = cur + 1
      /\ UNCHANGED <<children, ipc, priority, hd, cd, strbuf, pc, pass, tried, command>>
  BY DEF SmartToken, NextCur, rdbVars, envVars
<1>2. /\ List' = List /\ HdParts' = HdParts /\ CdParts' = CdParts
      /\ HdPlan' = HdPlan /\ Plan' = Plan
  BY <1>1, PlanKept
<1>3. /\ cur \in 1 .. Len(List) /\ Len(List) \in Nat
      /\ HdParts \in [1 .. Len(List) -> Seq(CommandType)]
      /\ CdParts \in [1 .. Len(List) -> Seq(CommandType)]
  BY TokenIsPart, PartsTyped DEF FollowInv
<1>4. cur' \in 1 .. Len(List) + 1 /\ cur' - 1 = cur /\ cur - 1 \in 0 .. Len(List)
  BY <1>1, <1>3
<1>5. tried \o queue = tried
  BY <1>1, ConcatEmptySeq DEF FollowInv
<1>6. ASSUME pass = 1 PROVE tried \o queue' = Upto(HdParts)[cur]
  <2>1. tried = Upto(HdParts)[cur - 1]
    BY <1>1, <1>5, <1>6 DEF FollowInv
  <2>2. Upto(HdParts)[cur] = Upto(HdParts)[cur - 1] \o HdParts[cur]
    BY <1>3, PlanSteps, Zenon DEF FollowInv
  <2>3. QED
    BY <1>6, <2>1, <2>2, TokenIsPart
<1>7. ASSUME pass = 2 PROVE tried \o queue' = HdPlan \o Upto(CdParts)[cur]
  <2> DEFINE u == Upto(CdParts)
             p == CdParts[cur]
  <2>1. tried = HdPlan \o u[cur - 1]
    BY <1>1, <1>5, <1>7 DEF FollowInv
  <2>2. u[cur] = u[cur - 1] \o p
    BY <1>3, PlanSteps, Zenon DEF FollowInv
  <2>3. u[cur - 1] \in Seq(CommandType) /\ p \in Seq(CommandType) /\ HdPlan \in Seq(CommandType)
    BY <1>3, <1>4, PlanSteps DEF FollowInv
  <2> HIDE DEF u, p
  <2>4. HdPlan \o u[cur] = (HdPlan \o u[cur - 1]) \o p
    <3>1. (HdPlan \o u[cur - 1]) \o p = HdPlan \o (u[cur - 1] \o p)
      <4> DEFINE v == u[cur - 1]
      <4>1. v \in Seq(CommandType)
        BY <2>3
      <4> HIDE DEF v
      <4>2. (HdPlan \o v) \o p = HdPlan \o (v \o p)
        BY <2>3, <4>1, ConcatAssociative
      <4>3. QED
        BY <4>2 DEF v
    <3>2. QED
      BY <2>2, <3>1
  <2>5. queue' = p
    BY <1>7, TokenIsPart DEF p
  <2>6. QED
    BY <2>1, <2>4, <2>5 DEF u
<1>8. /\ pass' = 1 => hd' /\ tried' \o queue' = Upto(HdParts')[cur' - 1]
      /\ pass' = 2 => cd' /\ tried' \o queue' = HdPlan' \o Upto(CdParts')[cur' - 1]
  BY <1>1, <1>2, <1>4, <1>6, <1>7 DEF FollowInv
<1>9. /\ tried' \in Seq(CommandType) /\ priority' \in PriorityLists
      /\ cur' \in 1 .. Len(List') + 1 /\ pc' = "smart" /\ ipc' = "done"
      /\ pass' # 3 /\ (priority' # << >> => strbuf' = priority')
  BY <1>1, <1>2, <1>4 DEF FollowInv
<1>10. QED
  BY <1>8, <1>9 DEF FollowInv

LEMMA StartFollow ==
  ASSUME ChainInv, FollowInv, smart_boot
  PROVE  FollowInv'
<1>1. /\ ipc = "done" /\ strbuf' = priority /\ pc' = "smart" /\ cur' = 1 /\ tried' = << >>
      /\ pass' = IF hd THEN 1 ELSE IF cd THEN 2 ELSE 3
      /\ queue' = IF pass' = 3 THEN <<PlainBoot>> ELSE << >>
      /\ UNCHANGED <<children, ipc, priority, hd, cd>>
  BY DEF smart_boot, AtPrompt, rdbVars, envVars
<1>2. /\ List' = List /\ HdParts' = HdParts /\ CdParts' = CdParts
      /\ HdPlan' = HdPlan /\ Plan' = Plan
  BY <1>1, PlanKept
<1>3. priority \in PriorityLists /\ Len(List) \in Nat
  BY PartsTyped DEF FollowInv
<1>4. cur' \in 1 .. Len(List) + 1 /\ cur' - 1 = 0
  BY <1>1, <1>3
<1>5. pass' = 1 => hd /\ tried' \o queue' = Upto(HdParts)[0]
  BY <1>1, <1>3, PlanSteps, EmptySeq, ConcatEmptySeq
<1>6. pass' = 2 => cd /\ tried' \o queue' = HdPlan \o Upto(CdParts)[0]
  BY <1>1, <1>3, PlanSteps, EmptySeq, ConcatEmptySeq
<1>7. pass' = 3 => tried' \o queue' = Plan
  <2> SUFFICES ASSUME pass' = 3 PROVE tried' \o queue' = Plan
    OBVIOUS
  <2>1. HdPlan = << >> /\ CdPlan = << >>
    BY <1>1 DEF HdPlan, CdPlan
  <2>2. QED
    BY <1>1, <2>1 DEF Plan
<1>8. tried' \in Seq(CommandType)
  BY <1>1, EmptySeq
<1>9. QED
  BY <1>1, <1>2, <1>3, <1>4, <1>5, <1>6, <1>7, <1>8 DEF FollowInv

LEMMA NextPassFollow ==
  ASSUME ChainInv, FollowInv, SmartNextPass
  PROVE  FollowInv'
<1>1. /\ pc = "smart" /\ queue = << >> /\ pass \in {1, 2} /\ cur > Len(PriorityNow)
      /\ pass' = IF pass = 1 /\ cd THEN 2 ELSE 3
      /\ queue' = IF pass' = 3 THEN <<PlainBoot>> ELSE << >>
      /\ cur' = 1
      /\ UNCHANGED <<children, ipc, priority, hd, cd, strbuf, pc, tried, command>>
  BY DEF SmartNextPass, rdbVars, envVars
<1>2. /\ List' = List /\ HdParts' = HdParts /\ CdParts' = CdParts
      /\ HdPlan' = HdPlan /\ Plan' = Plan
  BY <1>1, PlanKept
<1>3. priority \in PriorityLists /\ Len(List) \in Nat /\ tried \in Seq(CommandType)
  BY PartsTyped DEF FollowInv
<1>4. PriorityNow = List
  BY <1>1 DEF PriorityNow, List, FollowInv
<1>5. cur - 1 = Len(List) /\ cur' \in 1 .. Len(List) + 1 /\ cur' - 1 = 0
  BY <1>1, <1>3, <1>4 DEF FollowInv
<1>6. tried \o queue = tried /\ tried \o << >> = tried
  BY <1>1, <1>3, ConcatEmptySeq
<1>7. tried = IF pass = 1 THEN HdPlan ELSE HdPlan \o CdPlan
  <2>1. CASE pass = 1
    <3>1. hd /\ tried = Upto(HdParts)[Len(List)]
      BY <1>1, <1>5, <1>6, <2>1 DEF FollowInv
    <3>2. QED
      BY <1>3, <2>1, <3>1, PlanSteps
  <2>2. CASE pass = 2
    <3>1. cd /\ tried = HdPlan \o Upto(CdParts)[Len(List)]
      BY <1>1, <1>5, <1>6, <2>2 DEF FollowInv
    <3>2. CdPlan = IF cd THEN Upto(CdParts)[Len(List)] ELSE << >>
      BY <1>3, PlanSteps
    <3>3. QED
      BY <2>2, <3>1, <3>2
  <2>3. QED
    BY <1>1, <2>1, <2>2
<1>8. pass' = 2 => cd /\ tried \o queue' = HdPlan \o Upto(CdParts)[0]
  <2> SUFFICES ASSUME pass' = 2 PROVE cd /\ tried \o queue' = HdPlan \o Upto(CdParts)[0]
    OBVIOUS
  <2>1. pass = 1 /\ cd /\ queue' = << >> /\ tried = HdPlan
    BY <1>1, <1>7
  <2>2. Upto(CdParts)[0] = << >>
    BY <1>3, PlanSteps
  <2>3. QED
    BY <2>1, <2>2
<1>9. pass' = 3 => tried \o queue' = Plan
  <2> SUFFICES ASSUME pass' = 3 PROVE tried \o queue' = Plan
    OBVIOUS
  <2>1. tried = HdPlan \o CdPlan
    <3>1. CASE pass = 1
      <4>1. CdPlan = << >>
        BY <1>1, <3>1 DEF CdPlan
      <4>2. QED
        BY <1>6, <1>7, <3>1, <4>1
    <3>2. CASE pass = 2
      BY <1>7, <3>2
    <3>3. QED
      BY <1>1, <3>1, <3>2
  <2>2. QED
    BY <1>1, <2>1 DEF Plan
<1>10. /\ pass' \in {2, 3} /\ pc' = "smart" /\ ipc' = "done"
       /\ (priority' # << >> => strbuf' = priority')
  BY <1>1 DEF FollowInv
<1>11. QED
  BY <1>1, <1>2, <1>3, <1>5, <1>8, <1>9, <1>10 DEF FollowInv

LEMMA CommandFollow ==
  ASSUME ChainInv, CommandInv, FollowInv, SmartCommand
  PROVE  FollowInv'
<1> DEFINE c == Head(queue)
<1>1. /\ pc = "smart" /\ queue # << >> /\ tried' = Append(tried, c) /\ queue' = Tail(queue)
      /\ f_load(c)
      /\ UNCHANGED <<children, ipc, priority, hd, cd, pass, cur>>
  BY DEF SmartCommand, rdbVars, envVars
<1>2. /\ List' = List /\ HdParts' = HdParts /\ CdParts' = CdParts
      /\ HdPlan' = HdPlan /\ Plan' = Plan
  BY <1>1, PlanKept
<1>3. queue \in Seq(CommandType)
  <2>1. CASE pass = 1
    BY <2>1, CommandSets, SeqMonotonic DEF CommandInv
  <2>2. CASE pass = 2
    BY <2>2, CommandSets, SeqMonotonic DEF CommandInv
  <2>3. CASE pass = 3
    <3>1. queue = <<PlainBoot>> /\ PlainBoot \in CommandType
      BY <1>1, <2>3, CommandSets DEF CommandInv
    <3>2. QED
      BY <3>1
  <2>4. QED
    BY <2>1, <2>2, <2>3 DEF CommandInv
<1>4. tried' \in Seq(CommandType) /\ tried' # << >> /\ tried' \o queue' = tried \o queue
  BY <1>1, <1>3, MoveHead DEF FollowInv
<1>5. c \in CommandType /\ c.go
  BY <1>1, QueueHead
<1>6. ASSUME pass # 3 PROVE strbuf' = strbuf
  <2>1. c.file # None /\ (pass = 1 => c.dev = "hd") /\ (pass = 2 => c.dev = "cd")
    BY <1>1, <1>6, QueueHead DEF CommandInv, HdCommands, CdCommands
  <2>2. (pass = 1 => hd) /\ (pass = 2 => cd)
    BY <1>1 DEF FollowInv
  <2>3. Attached(c.dev)
    BY <1>6, <2>1, <2>2 DEF Attached, CommandInv
  <2>4. QED
    BY <1>1, <2>1, <2>3 DEF f_load, do_load
<1>7. /\ pc' = "devices" \/ pc' = "smart"
      /\ pc' = "devices" => command'.go
  <2>1. pc' = "devices" \/ pc' = Caller(tried')
    BY <1>1, <1>5, LoadCommand
  <2>2. pc' = "devices" => command'.go = c.go
    BY <1>1, <1>5, LoadCommand
  <2>3. QED
    BY <1>4, <1>5, <2>1, <2>2 DEF Caller
<1> HIDE DEF c
<1>8. QED
  BY <1>1, <1>2, <1>4, <1>6, <1>7 DEF FollowInv

LEMMA ReturnsFollow ==
  ASSUME FollowInv, SmartReturns
  PROVE  FollowInv'
<1>1. /\ pc = "smart" /\ queue = << >> /\ pass = 3 /\ pc' = "ok"
      /\ UNCHANGED <<children, ipc, priority, hd, cd, strbuf, tried, queue, pass, cur>>
  BY DEF SmartReturns, rdbVars, envVars, smartVars
<1>2. /\ List' = List /\ HdParts' = HdParts /\ CdParts' = CdParts
      /\ HdPlan' = HdPlan /\ Plan' = Plan
  BY <1>1, PlanKept
<1>3. QED
  BY <1>1, <1>2 DEF FollowInv

LEMMA TryLoadFollow ==
  ASSUME FollowInv, TryLoad
  PROVE  FollowInv'
<1>1. UNCHANGED <<children, ipc, envVars, strbuf, smartVars, command>>
  BY DEF TryLoad, OpenFails, Opens, WalkChain, LookupStep, LookupEnds, PartitionFound,
         NoPartition, LookupReturns, LoadFails, WalkNeverEnds, Loads, rdbVars
<1>2. pc \in Loading
  BY DEF TryLoad, OpenFails, Opens, WalkChain, PartitionFound, NoPartition, LoadFails,
         WalkNeverEnds, Loads, Loading
<1>3. /\ pc' = "smart" => pc = "smart" \/ tried # << >>
      /\ pc' = "ok" /\ tried # << >> => pc = "ok"
  <2>1. CASE OpenFails \/ NoPartition \/ LoadFails
    BY <2>1 DEF OpenFails, NoPartition, LoadFails, TryNext, Caller
  <2>2. CASE Opens \/ WalkChain \/ PartitionFound \/ WalkNeverEnds
    BY <2>2 DEF Opens, WalkChain, PartitionFound, WalkNeverEnds
  <2>3. ASSUME NEW kind \in {"exec", "badelf", "data"}, NEW whole \in BOOLEAN,
               Loads(kind, whole)
        PROVE  /\ pc' = "smart" => pc = "smart" \/ tried # << >>
               /\ pc' = "ok" /\ tried # << >> => pc = "ok"
    <3>1. CASE kind = "data"
      BY <2>3, <3>1 DEF Loads, TryNext, Caller
    <3>2. CASE kind # "data"
      <4>1. pc' = IF ~command.go THEN "ok"
                  ELSE IF command.args # None THEN "bootargs" ELSE "go"
        BY <2>3, <3>2 DEF Loads
      <4>2. tried # << >> => command.go
        BY <1>2 DEF FollowInv, Loading
      <4>3. QED
        BY <4>1, <4>2
    <3>3. QED
      BY <3>1, <3>2
  <2>4. QED
    BY <2>1, <2>2, <2>3 DEF TryLoad
<1>4. QED
  BY <1>1, <1>2, <1>3, FollowKept

LEMMA FollowStep ==
  ChainInv /\ LookupInv /\ CommandInv /\ FollowInv /\ [Next]_vars => FollowInv'
<1> SUFFICES ASSUME ChainInv, LookupInv, CommandInv, FollowInv, [Next]_vars
             PROVE  FollowInv'
  OBVIOUS
<1>1. CASE Install
  <2>1. ipc = "walk" /\ UNCHANGED <<priority, cur, tried, pc>>
    BY <1>1 DEF Install, InstallPartition, InstallMore, InstallStops, envVars, smartVars
  <2>2. pc = "ok" /\ tried = << >>
    BY <2>1 DEF LookupInv, FollowInv
  <2>3. QED
    BY <2>1, <2>2, FollowFresh
<1>2. CASE smart_boot
  BY <1>2, StartFollow
<1>3. CASE SmartToken
  BY <1>3, TokenFollow
<1>4. CASE SmartNextPass
  BY <1>4, NextPassFollow
<1>5. CASE SmartReturns
  BY <1>5, ReturnsFollow
<1>6. CASE SmartCommand
  BY <1>6, CommandFollow
<1>7. CASE TypeGo \/ \E c \in TypedCommands : TypeLoad(c)
  <2>1. tried' = << >> /\ pc' # "smart" /\ UNCHANGED <<priority, cur>>
    BY <1>7 DEF TypeGo, TypeLoad, f_load, do_load, Caller, envVars
  <2>2. QED
    BY <2>1, FollowFresh
<1>8. CASE TryLoad
  BY <1>8, TryLoadFollow
<1>9. CASE SetBootargs \/ Go
  <2>1. /\ UNCHANGED <<children, ipc, envVars, strbuf, smartVars, command>>
        /\ pc \in Loading /\ pc' \in {"go", "os", Caller(tried)}
    BY <1>9 DEF SetBootargs, Go, rdbVars, Loading
  <2>2. QED
    BY <2>1, FollowKept DEF Caller
<1>10. CASE UNCHANGED vars
  BY <1>10, FollowKept DEF vars, rdbVars
<1>11. QED
  BY <1>1, <1>2, <1>3, <1>4, <1>5, <1>6, <1>7, <1>8, <1>9, <1>10 DEF Next, Firmware, User

LEMMA FollowGivesPriority == ChainInv /\ CommandInv /\ FollowInv => SmartBootFollowsPriority
<1> SUFFICES ASSUME ChainInv, CommandInv, FollowInv
             PROVE  SmartBootFollowsPriority
  OBVIOUS
<1> DEFINE n == Len(List)
           A == HdPlan \o CdPlan
           B == <<PlainBoot>>
<1>1. /\ tried \in Seq(CommandType) /\ n \in Nat /\ cur - 1 \in 0 .. n
      /\ HdParts \in [1 .. n -> Seq(CommandType)] /\ CdParts \in [1 .. n -> Seq(CommandType)]
  BY PartsTyped DEF FollowInv
<1>2. /\ HdPlan = IF hd THEN Upto(HdParts)[n] ELSE << >>
      /\ CdPlan = IF cd THEN Upto(CdParts)[n] ELSE << >>
      /\ HdPlan \in Seq(CommandType) /\ CdPlan \in Seq(CommandType)
      /\ \A i \in 0 .. n : /\ Upto(HdParts)[i] \in Seq(CommandType)
                           /\ Upto(CdParts)[i] \in Seq(CommandType)
  BY PlanSteps DEF FollowInv
<1>3. B \in Seq(CommandType) /\ A \in Seq(CommandType)
  <2>1. PlainBoot \in CommandType
    BY CommandSets
  <2>2. QED
    BY <1>2, <2>1, ConcatProperties
<1>4. Plan = A \o B
  BY DEF Plan
<1> HIDE DEF A, B, n
<1>5. Plan \in Seq(CommandType)
  BY <1>3, <1>4, ConcatProperties
<1>6. queue \in Seq(CommandType)
  <2>1. CASE pass = 1
    BY <2>1, CommandSets, SeqMonotonic DEF CommandInv
  <2>2. CASE pass = 2
    BY <2>2, CommandSets, SeqMonotonic DEF CommandInv
  <2>3. CASE pass = 3
    BY <1>3, <2>3, EmptySeq DEF CommandInv, B
  <2>4. QED
    BY <2>1, <2>2, <2>3 DEF CommandInv
<1>7. Extends(Plan, tried, CommandType)
  <2>1. CASE tried = << >>
    <3>1. Plan = tried \o Plan
      BY <1>5, <2>1, ConcatEmptySeq
    <3>2. QED
      BY <1>5, <3>1 DEF Extends
  <2>2. CASE tried # << >> /\ pass = 1
    <3> DEFINE v == Upto(HdParts)[cur - 1]
    <3>1. hd /\ v = tried \o queue /\ v \in Seq(CommandType)
      BY <1>1, <1>2, <2>2 DEF FollowInv
    <3>2. Extends(HdPlan, v, CommandType)
      BY <1>1, <1>2, <3>1, UptoGrows
    <3> HIDE DEF v
    <3>3. Extends(A, v, CommandType)
      BY <1>2, <3>1, <3>2, ExtendsMore DEF A
    <3>4. Extends(Plan, v, CommandType)
      BY <1>3, <1>4, <3>1, <3>3, ExtendsMore
    <3>5. QED
      BY <1>1, <1>5, <1>6, <3>1, <3>4, ExtendsLess
  <2>3. CASE tried # << >> /\ pass = 2
    <3> DEFINE w == Upto(CdParts)[cur - 1]
               v == HdPlan \o w
    <3>1. cd /\ v = tried \o queue /\ w \in Seq(CommandType)
      BY <1>1, <1>2, <2>3 DEF FollowInv
    <3>2. Extends(CdPlan, w, CommandType)
      BY <1>1, <1>2, <3>1, UptoGrows
    <3> HIDE DEF w
    <3>3. Extends(A, v, CommandType)
      BY <1>2, <3>1, <3>2, ExtendsAfter DEF A
    <3>4. v \in Seq(CommandType)
      BY <1>2, <3>1, ConcatProperties
    <3> HIDE DEF v
    <3>5. Extends(Plan, v, CommandType)
      BY <1>3, <1>4, <3>3, <3>4, ExtendsMore
    <3>6. QED
      BY <1>1, <1>5, <1>6, <3>1, <3>5, ExtendsLess
  <2>4. CASE tried # << >> /\ pass = 3
    <3>1. Plan = tried \o queue
      BY <2>4 DEF FollowInv
    <3>2. QED
      BY <1>6, <3>1 DEF Extends
  <2>5. QED
    BY <2>1, <2>2, <2>3, <2>4 DEF CommandInv
<1>8. pc = "ok" /\ tried # << >> => tried = Plan
  <2> SUFFICES ASSUME pc = "ok", tried # << >> PROVE tried = Plan
    OBVIOUS
  <2>1. tried \o queue = Plan /\ queue = << >>
    BY DEF FollowInv
  <2>2. QED
    BY <1>1, <2>1, ConcatEmptySeq
<1>9. QED
  BY <1>1, <1>5, <1>7, <1>8, ExtendsPrefix DEF SmartBootFollowsPriority

(* SmartBootFollowsPriority: for every list, every set of partitions and    *)
(* any failures, smart-boot issues exactly the commands its list calls for, *)
(* in order, hard disk before CD before a plain boot, and returns to the    *)
(* prompt only when all have failed.                                        *)
THEOREM PriorityHolds == Spec => []SmartBootFollowsPriority
BY FollowGivesPriority, FollowStep, InitFollow, InitChain, ChainStep, InitLoad, LoadStep,
   PTL DEF Spec
=============================================================================

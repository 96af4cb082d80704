--------------------------- MODULE StartupProofs ---------------------------
(***************************************************************************)
(* The properties of Startup for every board, every free list and every    *)
(* sleep: what the DRAM probe finds and leaves behind, that claims are     *)
(* disjoint and served as from a set of addresses, that sleeps last.       *)
(*                                                                         *)
(* First what alloc_fixed, alloc_aligned and free_block do to the set of   *)
(* free addresses, for lists of any length.  The argument goes through     *)
(* three facts on well-formed lists (a block is replaced, removed or       *)
(* inserted) and one on gaps: the address behind a free block is never     *)
(* free.                                                                   *)
(***************************************************************************)
EXTENDS Startup, SequenceTheorems, WellFoundedInduction, TLAPS

-----------------------------------------------------------------------------
\* The free list.

Blocks == [addr : Nat, size : Nat]

\* A list whose addresses all lie below lim, where nothing wraps.
GoodList(l, lim) == l \in Seq(Blocks) /\ WellFormed(l, lim)

\* What the blocks other than block k stand for.
FreeBut(l, k) == UNION {Cells(l[j].addr, l[j].size) : j \in (1 .. Len(l)) \ {k}}

-----------------------------------------------------------------------------
\* Sums that stay below 2^32 are not reduced.
LEMMA NotReduced == \A x \in Nat : x < M => x % M = x
BY MAssumption

\* Ranges of addresses.
LEMMA CellsMember == \A a, s \in Nat : \A x : x \in Cells(a, s) <=> x \in Nat /\ a <= x /\ x < a + s
BY DEF Cells

LEMMA CellsApart == \A a, s, b, t \in Nat : a + s <= b => Cells(a, s) \cap Cells(b, t) = {}
BY CellsMember

\* A non-empty set of natural numbers has a least element.
LEMMA LeastNatural ==
  ASSUME NEW T, T \subseteq Nat, T # {}
  PROVE  \E x \in T : \A y \in T : x <= y
<1>1. ASSUME NEW R, IsWellFoundedOn(R, Nat), \A x, y \in Nat : y < x => <<y, x>> \in R
      PROVE  \E x \in T : \A y \in T : x <= y
  <2>1. PICK x \in T : \A y \in T : ~ (<<y, x>> \in R)
    BY <1>1, WFMin
  <2>2. \A y \in T : ~ (y < x)
    BY <1>1, <2>1
  <2>3. QED
    BY <2>2
<1>2. \A x, y \in Nat : y < x => <<y, x>> \in OpToRel(<, Nat)
  BY DEF OpToRel
<1>3. QED
  BY <1>1, <1>2, NatLessThanWellFounded, Zenon

\* The walk ends, at the first block at or above the address.
LEMMA AtProperties ==
  ASSUME NEW l \in Seq(Blocks), NEW a \in Nat
  PROVE  /\ At(l, a) \in 1 .. Len(l) + 1
         /\ At(l, a) <= Len(l) => a <= l[At(l, a)].addr
         /\ \A j \in 1 .. At(l, a) - 1 : l[j].addr < a
<1> DEFINE T == {k \in 1 .. Len(l) + 1 : k <= Len(l) => a <= l[k].addr}
           First(k) == /\ k <= Len(l) => a <= l[k].addr
                       /\ \A j \in 1 .. k - 1 : l[j].addr < a
<1>1. Len(l) \in Nat /\ \A j \in 1 .. Len(l) : l[j].addr \in Nat
  <2>1. \A j \in 1 .. Len(l) : l[j] \in Blocks
    BY ElementOfSeq
  <2>2. QED
    BY <2>1, LenProperties DEF Blocks
<1>2. Len(l) + 1 \in T /\ T \subseteq Nat
  BY <1>1
<1>3. PICK x \in T : \A y \in T : x <= y
  <2> HIDE DEF T
  <2> QED BY <1>2, LeastNatural
<1>4. First(x)
  BY <1>1, <1>3
<1>5. At(l, a) = CHOOSE k \in 1 .. Len(l) + 1 : First(k)
  BY DEF At
<1> HIDE DEF First
<1>6. At(l, a) \in 1 .. Len(l) + 1 /\ First(At(l, a))
  BY <1>3, <1>4, <1>5
<1>7. QED
  BY <1>6 DEF First

-----------------------------------------------------------------------------
\* What the three operators on sequences return.
LEMMA ReplaceAtProperties ==
  ASSUME NEW l \in Seq(Blocks), NEW k \in 1 .. Len(l), NEW b \in Blocks
  PROVE  /\ ReplaceAt(l, k, b) \in Seq(Blocks)
         /\ Len(ReplaceAt(l, k, b)) = Len(l)
         /\ \A j \in 1 .. Len(l) : ReplaceAt(l, k, b)[j] = IF j = k THEN b ELSE l[j]
BY ExceptSeq DEF ReplaceAt

LEMMA RemoveAtProperties ==
  ASSUME NEW l \in Seq(Blocks), NEW k \in 1 .. Len(l)
  PROVE  /\ RemoveAt(l, k) \in Seq(Blocks)
         /\ Len(RemoveAt(l, k)) = Len(l) - 1
         /\ \A j \in 1 .. Len(l) - 1 : RemoveAt(l, k)[j] = IF j < k THEN l[j] ELSE l[j + 1]
<1> DEFINE f == SubSeq(l, 1, k - 1)
           g == SubSeq(l, k + 1, Len(l))
<1>1. Len(l) \in Nat /\ \A j \in 1 .. Len(l) : l[j] \in Blocks
  BY LenProperties, ElementOfSeq
<1>2. /\ f \in Seq(Blocks) /\ Len(f) = k - 1
      /\ \A i \in 1 .. k - 1 : f[i] = l[i]
  <2>1. \A i \in 1 .. k - 1 : l[i] \in Blocks
    BY <1>1
  <2>2. 1 \in Int /\ k - 1 \in Int
    BY <1>1
  <2>3. /\ f \in Seq(Blocks) /\ Len(f) = IF 1 <= k - 1 THEN k - 1 - 1 + 1 ELSE 0
        /\ \A i \in 1 .. k - 1 - 1 + 1 : f[i] = l[1 + i - 1]
    BY <2>1, <2>2
  <2>4. QED
    BY <1>1, <2>3
<1>3. /\ g \in Seq(Blocks) /\ Len(g) = Len(l) - k
      /\ \A i \in 1 .. Len(l) - k : g[i] = l[k + i]
  <2>1. \A i \in k + 1 .. Len(l) : l[i] \in Blocks
    BY <1>1
  <2>2. k + 1 \in Int /\ Len(l) \in Int
    BY <1>1
  <2>3. /\ g \in Seq(Blocks) /\ Len(g) = IF k + 1 <= Len(l) THEN Len(l) - (k + 1) + 1 ELSE 0
        /\ \A i \in 1 .. Len(l) - (k + 1) + 1 : g[i] = l[k + 1 + i - 1]
    BY <2>1, <2>2
  <2>4. QED
    BY <1>1, <2>3
<1>4. RemoveAt(l, k) = f \o g
  BY DEF RemoveAt
<1> HIDE DEF f, g
<1>5. /\ f \o g \in Seq(Blocks)
      /\ Len(f \o g) = Len(f) + Len(g)
      /\ \A i \in 1 .. Len(f) + Len(g) : (f \o g)[i] = IF i <= Len(f) THEN f[i] ELSE g[i - Len(f)]
  BY <1>2, <1>3, ConcatProperties
<1>6. QED
  BY <1>1, <1>2, <1>3, <1>4, <1>5

LEMMA InsertAtProperties ==
  ASSUME NEW l \in Seq(Blocks), NEW k \in 1 .. Len(l) + 1, NEW b \in Blocks
  PROVE  /\ InsertAt(l, k, b) \in Seq(Blocks)
         /\ Len(InsertAt(l, k, b)) = Len(l) + 1
         /\ \A j \in 1 .. Len(l) + 1 : InsertAt(l, k, b)[j] =
              IF j < k THEN l[j] ELSE IF j = k THEN b ELSE l[j - 1]
<1> DEFINE f == SubSeq(l, 1, k - 1)
           g == SubSeq(l, k, Len(l))
           e == <<b>>
<1>1. Len(l) \in Nat /\ \A j \in 1 .. Len(l) : l[j] \in Blocks
  BY LenProperties, ElementOfSeq
<1>2. /\ f \in Seq(Blocks) /\ Len(f) = k - 1
      /\ \A i \in 1 .. k - 1 : f[i] = l[i]
  <2>1. \A i \in 1 .. k - 1 : l[i] \in Blocks
    BY <1>1
  <2>2. 1 \in Int /\ k - 1 \in Int
    BY <1>1
  <2>3. /\ f \in Seq(Blocks) /\ Len(f) = IF 1 <= k - 1 THEN k - 1 - 1 + 1 ELSE 0
        /\ \A i \in 1 .. k - 1 - 1 + 1 : f[i] = l[1 + i - 1]
    BY <2>1, <2>2
  <2>4. QED
    BY <1>1, <2>3
<1>3. /\ g \in Seq(Blocks) /\ Len(g) = Len(l) - k + 1
      /\ \A i \in 1 .. Len(l) - k + 1 : g[i] = l[k + i - 1]
  <2>1. \A i \in k .. Len(l) : l[i] \in Blocks
    BY <1>1
  <2>2. k \in Int /\ Len(l) \in Int
    BY <1>1
  <2>3. /\ g \in Seq(Blocks) /\ Len(g) = IF k <= Len(l) THEN Len(l) - k + 1 ELSE 0
        /\ \A i \in 1 .. Len(l) - k + 1 : g[i] = l[k + i - 1]
    BY <2>1, <2>2
  <2>4. QED
    BY <1>1, <2>3
<1>4. e \in Seq(Blocks) /\ Len(e) = 1 /\ e[1] = b
  OBVIOUS
<1>5. InsertAt(l, k, b) = f \o e \o g
  BY DEF InsertAt
<1> HIDE DEF f, g, e
<1>6. /\ f \o e \in Seq(Blocks)
      /\ Len(f \o e) = Len(f) + Len(e)
      /\ \A i \in 1 .. Len(f) + Len(e) : (f \o e)[i] = IF i <= Len(f) THEN f[i] ELSE e[i - Len(f)]
  BY <1>2, <1>4, ConcatProperties
<1> DEFINE fe == f \o e
<1>7. fe \in Seq(Blocks) /\ Len(fe) = k /\ \A i \in 1 .. k : fe[i] = IF i < k THEN l[i] ELSE b
  BY <1>1, <1>2, <1>4, <1>6
<1>8. InsertAt(l, k, b) = fe \o g
  BY <1>5
<1> HIDE DEF fe
<1>9. /\ fe \o g \in Seq(Blocks)
      /\ Len(fe \o g) = Len(fe) + Len(g)
      /\ \A i \in 1 .. Len(fe) + Len(g) : (fe \o g)[i] = IF i <= Len(fe) THEN fe[i] ELSE g[i - Len(fe)]
  BY <1>3, <1>7, ConcatProperties
<1>10. QED
  BY <1>1, <1>3, <1>7, <1>8, <1>9

-----------------------------------------------------------------------------
\* The free addresses, one by one.
LEMMA FreeMember ==
  ASSUME NEW l \in Seq(Blocks), NEW x
  PROVE  x \in Free(l) <=> \E j \in 1 .. Len(l) : x \in Cells(l[j].addr, l[j].size)
BY DEF Free

LEMMA FreeButMember ==
  ASSUME NEW l \in Seq(Blocks), NEW k, NEW x
  PROVE  x \in FreeBut(l, k) <=> \E j \in (1 .. Len(l)) \ {k} : x \in Cells(l[j].addr, l[j].size)
BY DEF FreeBut

\* What a good list says of its blocks.
LEMMA GoodFacts ==
  ASSUME NEW l, NEW lim \in Nat, GoodList(l, lim)
  PROVE  l \in Seq(Blocks) /\ Len(l) \in Nat /\ WellFormed(l, lim)
BY LenProperties DEF GoodList

\* A block and the rest of the list have no address in common.
LEMMA FreeSplit ==
  ASSUME NEW l, NEW lim \in Nat, GoodList(l, lim), NEW k \in 1 .. Len(l)
  PROVE  /\ Free(l) = FreeBut(l, k) \cup Cells(l[k].addr, l[k].size)
         /\ FreeBut(l, k) \cap Cells(l[k].addr, l[k].size) = {}
<1>1. l \in Seq(Blocks)
  BY DEF GoodList
<1>2. Len(l) \in Nat /\ WellFormed(l, lim)
  BY GoodFacts
<1>3. Free(l) = FreeBut(l, k) \cup Cells(l[k].addr, l[k].size)
  BY <1>1, FreeMember, FreeButMember
<1>4. ASSUME NEW j \in (1 .. Len(l)) \ {k}, NEW x \in Cells(l[k].addr, l[k].size)
      PROVE  x \notin Cells(l[j].addr, l[j].size)
  <2>1. \/ l[j].addr + l[j].size < l[k].addr
        \/ l[k].addr + l[k].size < l[j].addr
    BY <1>2, <1>4 DEF WellFormed
  <2>2. /\ l[j].addr \in Nat /\ l[j].size \in Nat
        /\ l[k].addr \in Nat /\ l[k].size \in Nat
    BY <1>2, <1>4 DEF WellFormed
  <2>3. QED
    BY <1>4, <2>1, <2>2, CellsMember
<1>5. QED
  BY <1>1, <1>3, <1>4, FreeButMember

\* The address behind a block is not free.
LEMMA EndNotFree ==
  ASSUME NEW l, NEW lim \in Nat, GoodList(l, lim), NEW k \in 1 .. Len(l)
  PROVE  l[k].addr + l[k].size \notin Free(l)
<1> DEFINE x == l[k].addr + l[k].size
<1>1. l \in Seq(Blocks)
  BY DEF GoodList
<1>2. Len(l) \in Nat /\ WellFormed(l, lim)
  BY GoodFacts
<1>3. SUFFICES ASSUME NEW j \in 1 .. Len(l) PROVE x \notin Cells(l[j].addr, l[j].size)
  BY <1>1, FreeMember
<1>4. /\ l[j].addr \in Nat /\ l[j].size \in Nat
      /\ l[k].addr \in Nat /\ l[k].size \in Nat
  BY <1>2 DEF WellFormed
<1>5. \/ l[j].addr + l[j].size < l[k].addr
      \/ l[k].addr + l[k].size < l[j].addr
      \/ j = k
  BY <1>2 DEF WellFormed
<1>6. l[j].addr + l[j].size <= x \/ x < l[j].addr
  BY <1>4, <1>5
<1>7. x \in Nat
  BY <1>4
<1> HIDE DEF x
<1>8. QED
  BY <1>4, <1>6, <1>7, CellsMember

\* A block may be replaced by one that keeps its distance to the others.
LEMMA ReplaceBlock ==
  ASSUME NEW l, NEW lim \in Nat, GoodList(l, lim), NEW k \in 1 .. Len(l), NEW b \in Blocks,
         b.size # 0, b.addr + b.size <= lim,
         \A j \in 1 .. Len(l) : /\ j < k => l[j].addr + l[j].size < b.addr
                                /\ k < j => b.addr + b.size < l[j].addr
  PROVE  /\ GoodList(ReplaceAt(l, k, b), lim)
         /\ Free(ReplaceAt(l, k, b)) = FreeBut(l, k) \cup Cells(b.addr, b.size)
<1> DEFINE r == ReplaceAt(l, k, b)
<1>1. l \in Seq(Blocks)
  BY DEF GoodList
<1>2. Len(l) \in Nat /\ WellFormed(l, lim)
  BY GoodFacts
<1>3. r \in Seq(Blocks)
  BY <1>1, ReplaceAtProperties
<1>4. Len(r) = Len(l) /\ \A j \in 1 .. Len(l) : r[j] = IF j = k THEN b ELSE l[j]
  BY <1>1, ReplaceAtProperties
<1> HIDE DEF r
<1>5. b.addr \in Nat /\ b.size \in Nat \ {0}
  BY DEF Blocks
<1>6. WellFormed(r, lim)
  <2>1. \A j \in 1 .. Len(r) : /\ r[j].addr \in Nat /\ r[j].size \in Nat \ {0}
                               /\ r[j].addr + r[j].size <= lim
    BY <1>2, <1>4, <1>5 DEF WellFormed
  <2>2. ASSUME NEW i \in 1 .. Len(r), NEW j \in 1 .. Len(r), i < j
        PROVE  r[i].addr + r[i].size < r[j].addr
    <3>1. CASE i # k /\ j # k
      BY <1>2, <1>4, <2>2, <3>1 DEF WellFormed
    <3>2. CASE i = k
      BY <1>2, <1>4, <2>2, <3>2
    <3>3. CASE j = k
      BY <1>2, <1>4, <2>2, <3>3
    <3>4. QED
      BY <3>1, <3>2, <3>3
  <2>3. QED
    BY <2>1, <2>2 DEF WellFormed
<1>7. Free(r) = FreeBut(l, k) \cup Cells(b.addr, b.size)
  BY <1>1, <1>3, <1>4, FreeMember, FreeButMember
<1>8. QED
  BY <1>3, <1>6, <1>7 DEF r, GoodList

\* A block may be removed.
LEMMA RemoveBlock ==
  ASSUME NEW l, NEW lim \in Nat, GoodList(l, lim), NEW k \in 1 .. Len(l)
  PROVE  /\ GoodList(RemoveAt(l, k), lim)
         /\ Free(RemoveAt(l, k)) = FreeBut(l, k)
<1> DEFINE r == RemoveAt(l, k)
           from(j) == IF j < k THEN j ELSE j + 1
<1>1. l \in Seq(Blocks)
  BY DEF GoodList
<1>2. Len(l) \in Nat /\ WellFormed(l, lim)
  BY GoodFacts
<1>3. r \in Seq(Blocks)
  BY <1>1, RemoveAtProperties
<1>4. Len(r) = Len(l) - 1 /\ \A j \in 1 .. Len(l) - 1 : r[j] = IF j < k THEN l[j] ELSE l[j + 1]
  BY <1>1, RemoveAtProperties
<1> HIDE DEF r
<1>5. \A j \in 1 .. Len(r) : from(j) \in (1 .. Len(l)) \ {k} /\ r[j] = l[from(j)]
  BY <1>2, <1>4
<1>6. \A i, j \in 1 .. Len(r) : i < j => from(i) < from(j)
  BY <1>2, <1>4
<1> HIDE DEF from
<1>7. WellFormed(r, lim)
  BY <1>2, <1>5, <1>6 DEF WellFormed
<1>8. ASSUME NEW x, x \in Free(r) PROVE x \in FreeBut(l, k)
  <2>1. PICK j \in 1 .. Len(r) : x \in Cells(r[j].addr, r[j].size)
    BY <1>3, <1>8, FreeMember
  <2>2. QED
    BY <1>1, <1>5, <2>1, FreeButMember
<1>9. ASSUME NEW x, x \in FreeBut(l, k) PROVE x \in Free(r)
  <2>1. PICK j \in (1 .. Len(l)) \ {k} : x \in Cells(l[j].addr, l[j].size)
    BY <1>1, <1>9, FreeButMember
  <2>2. CASE j < k
    <3>1. j \in 1 .. Len(r) /\ r[j] = l[j]
      BY <1>2, <1>4, <2>2
    <3>2. QED
      BY <1>3, <2>1, <3>1, FreeMember
  <2>3. CASE k < j
    <3>1. j - 1 \in 1 .. Len(r) /\ r[j - 1] = l[j]
      BY <1>2, <1>4, <2>3
    <3>2. QED
      BY <1>3, <2>1, <3>1, FreeMember
  <2>4. QED
    BY <1>2, <2>2, <2>3
<1>10. Free(r) = FreeBut(l, k)
  BY <1>8, <1>9
<1>11. QED
  BY <1>3, <1>7, <1>10 DEF r, GoodList

\* A block may be inserted where it keeps its distance to the others.
LEMMA InsertBlock ==
  ASSUME NEW l, NEW lim \in Nat, GoodList(l, lim), NEW k \in 1 .. Len(l) + 1, NEW b \in Blocks,
         b.size # 0, b.addr + b.size <= lim,
         \A j \in 1 .. Len(l) : /\ j < k => l[j].addr + l[j].size < b.addr
                                /\ k <= j => b.addr + b.size < l[j].addr
  PROVE  /\ GoodList(InsertAt(l, k, b), lim)
         /\ Free(InsertAt(l, k, b)) = Free(l) \cup Cells(b.addr, b.size)
<1> DEFINE r == InsertAt(l, k, b)
           from(j) == IF j < k THEN j ELSE j - 1
<1>1. l \in Seq(Blocks)
  BY DEF GoodList
<1>2. Len(l) \in Nat /\ WellFormed(l, lim)
  BY GoodFacts
<1>3. r \in Seq(Blocks)
  BY <1>1, InsertAtProperties
<1>4. /\ Len(r) = Len(l) + 1
      /\ \A j \in 1 .. Len(l) + 1 : r[j] = IF j < k THEN l[j] ELSE IF j = k THEN b ELSE l[j - 1]
  BY <1>1, InsertAtProperties
<1> HIDE DEF r
<1>5. b.addr \in Nat /\ b.size \in Nat \ {0}
  BY DEF Blocks
<1>6. /\ k \in 1 .. Len(r) /\ r[k] = b
      /\ \A j \in (1 .. Len(r)) \ {k} : from(j) \in 1 .. Len(l) /\ r[j] = l[from(j)]
  BY <1>2, <1>4
<1>7. \A i, j \in (1 .. Len(r)) \ {k} : i < j => from(i) < from(j)
  BY <1>2, <1>4
<1>8. \A j \in 1 .. Len(r) : (j < k => from(j) < k) /\ (k < j => k <= from(j))
  BY <1>2, <1>4
<1> HIDE DEF from
<1>9. WellFormed(r, lim)
  <2>1. \A j \in 1 .. Len(r) : /\ r[j].addr \in Nat /\ r[j].size \in Nat \ {0}
                               /\ r[j].addr + r[j].size <= lim
    BY <1>2, <1>5, <1>6 DEF WellFormed
  <2>2. ASSUME NEW i \in 1 .. Len(r), NEW j \in 1 .. Len(r), i < j
        PROVE  r[i].addr + r[i].size < r[j].addr
    <3>1. CASE i # k /\ j # k
      BY <1>2, <1>6, <1>7, <2>2, <3>1 DEF WellFormed
    <3>2. CASE i = k
      BY <1>2, <1>6, <1>8, <2>2, <3>2
    <3>3. CASE j = k
      BY <1>2, <1>6, <1>8, <2>2, <3>3
    <3>4. QED
      BY <3>1, <3>2, <3>3
  <2>3. QED
    BY <2>1, <2>2 DEF WellFormed
<1>10. ASSUME NEW x, x \in Free(r) PROVE x \in Free(l) \cup Cells(b.addr, b.size)
  <2>1. PICK j \in 1 .. Len(r) : x \in Cells(r[j].addr, r[j].size)
    BY <1>3, <1>10, FreeMember
  <2>2. QED
    BY <1>1, <1>6, <2>1, FreeMember
<1>11. ASSUME NEW x, x \in Free(l) PROVE x \in Free(r)
  <2>1. PICK j \in 1 .. Len(l) : x \in Cells(l[j].addr, l[j].size)
    BY <1>1, <1>11, FreeMember
  <2>2. CASE j < k
    <3>1. j \in 1 .. Len(r) /\ r[j] = l[j]
      BY <1>2, <1>4, <2>2
    <3>2. QED
      BY <1>3, <2>1, <3>1, FreeMember
  <2>3. CASE k <= j
    <3>1. j + 1 \in 1 .. Len(r) /\ r[j + 1] = l[j]
      BY <1>2, <1>4, <2>3
    <3>2. QED
      BY <1>3, <2>1, <3>1, FreeMember
  <2>4. QED
    BY <1>2, <2>2, <2>3
<1>12. Cells(b.addr, b.size) \subseteq Free(r)
  BY <1>3, <1>6, FreeMember
<1>13. Free(r) = Free(l) \cup Cells(b.addr, b.size)
  BY <1>10, <1>11, <1>12
<1>14. QED
  BY <1>3, <1>9, <1>13 DEF r, GoodList

\* Block b can be put into l at position k: it fits between its neighbours.
InsertRoom(l, k, b, lim) ==
  /\ k \in 1 .. Len(l) + 1 /\ b \in Blocks /\ b.size # 0 /\ b.addr + b.size <= lim
  /\ \A j \in 1 .. Len(l) :
       /\ j < k => l[j].addr + l[j].size < b.addr
       /\ k <= j => b.addr + b.size < l[j].addr

LEMMA InsertInRoom ==
  ASSUME NEW l, NEW lim \in Nat, GoodList(l, lim), NEW k, NEW b, InsertRoom(l, k, b, lim)
  PROVE  /\ GoodList(InsertAt(l, k, b), lim)
         /\ Free(InsertAt(l, k, b)) = Free(l) \cup Cells(b.addr, b.size)
BY InsertBlock DEF InsertRoom

-----------------------------------------------------------------------------
\* An address at or above the end of a block and below the next is not free.
LEMMA GapNotFree ==
  ASSUME NEW l, NEW lim \in Nat, GoodList(l, lim), NEW k \in 1 .. Len(l) + 1, NEW x \in Nat,
         k > 1 => l[k - 1].addr + l[k - 1].size <= x,
         k <= Len(l) => x < l[k].addr
  PROVE  x \notin Free(l)
<1>1. l \in Seq(Blocks)
  BY DEF GoodList
<1>2. Len(l) \in Nat /\ WellFormed(l, lim)
  BY GoodFacts
<1>3. SUFFICES ASSUME NEW j \in 1 .. Len(l) PROVE x \notin Cells(l[j].addr, l[j].size)
  BY <1>1, FreeMember
<1>4. l[j].addr \in Nat /\ l[j].size \in Nat
  BY <1>2 DEF WellFormed
<1>5. CASE j < k
  <2>1. k - 1 \in 1 .. Len(l) /\ (j = k - 1 \/ j < k - 1)
    BY <1>2, <1>5
  <2>2. l[k - 1].addr \in Nat /\ l[k - 1].size \in Nat
    BY <1>2, <2>1 DEF WellFormed
  <2>3. j < k - 1 => l[j].addr + l[j].size < l[k - 1].addr
    BY <1>2, <2>1 DEF WellFormed
  <2>31. k > 1 /\ l[k - 1].addr + l[k - 1].size <= x
    BY <1>2, <1>5
  <2>4. l[j].addr + l[j].size <= x
    BY <1>4, <2>1, <2>2, <2>3, <2>31
  <2>5. QED
    BY <1>4, <2>4, CellsMember
<1>6. CASE k <= j
  <2>1. k \in 1 .. Len(l) /\ (j = k \/ k < j)
    BY <1>2, <1>6
  <2>2. l[k].addr \in Nat /\ l[k].size \in Nat
    BY <1>2, <2>1 DEF WellFormed
  <2>3. l[k].addr <= l[j].addr
    BY <1>2, <1>4, <2>1, <2>2 DEF WellFormed
  <2>4. QED
    BY <1>2, <1>4, <1>6, <2>1, <2>2, <2>3, CellsMember
<1>7. QED
  BY <1>2, <1>5, <1>6

\* What alloc_fixed does to the free addresses.  It answers "out" exactly when
\* an address of the range is not free, and then changes nothing.
FixedAnswer(r, l, a, s, lim) ==
  /\ GoodList(r.list, lim)
  /\ \/ /\ r.ret = "ok" /\ Cells(a, s) \subseteq Free(l)
        /\ Free(r.list) = Free(l) \ Cells(a, s)
     \/ r.ret = "nomem" /\ Cells(a, s) \subseteq Free(l) /\ r.list = l
     \/ r.ret = "out" /\ ~ (Cells(a, s) \subseteq Free(l)) /\ r.list = l

\* alloc_fixed of a range at the start of a free block.
LEMMA TakeFrontAnswer ==
  ASSUME NEW l, NEW lim \in Nat, GoodList(l, lim), lim < M,
         NEW k \in 1 .. Len(l), NEW s \in Nat \ {0}
  PROVE  FixedAnswer(TakeFront(l, k, s), l, l[k].addr, s, lim)
<1> DEFINE a == l[k].addr
           z == l[k].size
<1>1. l \in Seq(Blocks)
  BY DEF GoodList
<1>2. Len(l) \in Nat /\ WellFormed(l, lim)
  BY GoodFacts
<1>3. a \in Nat /\ z \in Nat \ {0} /\ a + z <= lim
  BY <1>2 DEF WellFormed
<1>4. /\ Free(l) = FreeBut(l, k) \cup Cells(a, z)
      /\ FreeBut(l, k) \cap Cells(a, z) = {}
  BY FreeSplit
<1>41. /\ \A j \in 1 .. Len(l) : l[j].addr \in Nat /\ l[j].size \in Nat
       /\ \A j \in 1 .. Len(l) : /\ j < k => l[j].addr + l[j].size < a
                                 /\ k < j => a + z < l[j].addr
  BY <1>2 DEF WellFormed
<1>42. a + z \notin Free(l)
  BY EndNotFree
<1>43. TakeFront(l, k, s) =
         IF z # 0 /\ z < s THEN Result("out", l)
         ELSE IF z = s THEN Result("ok", RemoveAt(l, k))
         ELSE Result("ok", ReplaceAt(l, k, Block((a + s) % M, (z - s) % M)))
  BY DEF TakeFront
<1>44. a = l[k].addr
  OBVIOUS
<1> HIDE DEF a, z
<1>5. CASE z < s
  <2>1. a + z \in Cells(a, s)
    BY <1>3, <1>5 DEF Cells
  <2>2. TakeFront(l, k, s) = Result("out", l)
    BY <1>3, <1>43, <1>5
  <2>3. QED
    BY <1>42, <1>44, <2>1, <2>2 DEF FixedAnswer, Result
<1>6. CASE z = s
  <2>1. TakeFront(l, k, s) = Result("ok", RemoveAt(l, k))
    BY <1>3, <1>43, <1>6
  <2>2. GoodList(RemoveAt(l, k), lim) /\ Free(RemoveAt(l, k)) = FreeBut(l, k)
    BY RemoveBlock
  <2>3. Free(RemoveAt(l, k)) = Free(l) \ Cells(a, s) /\ Cells(a, s) \subseteq Free(l)
    BY <1>4, <1>6, <2>2
  <2>4. QED
    BY <1>44, <2>1, <2>2, <2>3 DEF FixedAnswer, Result
<1>7. CASE s < z
  <2> DEFINE b == Block(a + s, z - s)
  <2>1. a + s \in Nat /\ z - s \in Nat \ {0} /\ a + s < M /\ z - s < M /\ z = s + (z - s)
    BY <1>3, <1>7, MAssumption
  <2>2. TakeFront(l, k, s) = Result("ok", ReplaceAt(l, k, b))
    BY <1>3, <1>43, <1>7, <2>1, NotReduced
  <2>3. b \in Blocks /\ b.addr = a + s /\ b.size = z - s
    BY <2>1 DEF Block, Blocks
  <2> HIDE DEF b
  <2>4. \A j \in 1 .. Len(l) : /\ j < k => l[j].addr + l[j].size < b.addr
                               /\ k < j => b.addr + b.size < l[j].addr
    BY <1>2, <1>3, <1>41, <1>7, <2>3
  <2>5. /\ GoodList(ReplaceAt(l, k, b), lim)
        /\ Free(ReplaceAt(l, k, b)) = FreeBut(l, k) \cup Cells(b.addr, b.size)
    <3>1. b.size # 0 /\ b.addr + b.size <= lim
      BY <1>3, <2>1, <2>3
    <3>2. QED
      BY <2>3, <2>4, <3>1, ReplaceBlock
  <2>6. Cells(a, z) = Cells(a, s) \cup Cells(a + s, z - s) /\ Cells(a, s) \cap Cells(a + s, z - s) = {}
    BY <1>3, <1>7 DEF Cells
  <2>7. Free(ReplaceAt(l, k, b)) = Free(l) \ Cells(a, s) /\ Cells(a, s) \subseteq Free(l)
    BY <1>4, <2>3, <2>5, <2>6
  <2>8. QED
    BY <1>44, <2>2, <2>5, <2>7 DEF FixedAnswer, Result
<1>8. QED
  BY <1>3, <1>5, <1>6, <1>7

\* alloc_fixed of a range that starts behind the start of block k and below
\* the next one.
LEMMA TakeInsideAnswer ==
  ASSUME NEW l, NEW lim \in Nat, GoodList(l, lim), lim < M, NEW room \in BOOLEAN,
         NEW k \in 1 .. Len(l), NEW a \in Nat, NEW s \in Nat \ {0}, a + s < M,
         l[k].addr < a, k + 1 <= Len(l) => a < l[k + 1].addr
  PROVE  FixedAnswer(TakeInside(l, k, a, s, room), l, a, s, lim)
<1> DEFINE p == l[k].addr
           z == l[k].size
<1>1. l \in Seq(Blocks)
  BY DEF GoodList
<1>2. Len(l) \in Nat /\ WellFormed(l, lim)
  BY GoodFacts
<1>3. p \in Nat /\ z \in Nat \ {0} /\ p + z <= lim
  BY <1>2 DEF WellFormed
<1>4. /\ Free(l) = FreeBut(l, k) \cup Cells(p, z)
      /\ FreeBut(l, k) \cap Cells(p, z) = {}
  BY FreeSplit
<1>41. /\ \A j \in 1 .. Len(l) : l[j].addr \in Nat /\ l[j].size \in Nat
       /\ \A j \in 1 .. Len(l) : /\ j < k => l[j].addr + l[j].size < p
                                 /\ k < j => p + z < l[j].addr
  BY <1>2 DEF WellFormed
<1>42. p + z \notin Free(l)
  BY EndNotFree
<1>43. p + z <= a => a \notin Free(l)
  <2>1. k + 1 \in 1 .. Len(l) + 1 /\ (k + 1) - 1 = k
    BY <1>2
  <2>2. QED
    BY <2>1, GapNotFree
<1>45. p < a
  OBVIOUS
<1> HIDE DEF p, z
<1>46. (a + s) % M = a + s /\ (p + z) % M = p + z
  <2>1. a + s \in Nat /\ a + s < M /\ p + z \in Nat /\ p + z < M
    BY <1>3, MAssumption
  <2>2. QED
    BY <2>1, NotReduced
<1>5. End(l[k]) = p + z
  BY <1>46 DEF End, p, z
<1>6. CASE p + z < a + s
  <2>1. TakeInside(l, k, a, s, room) = Result("out", l)
    BY <1>3, <1>46, <1>5, <1>6 DEF TakeInside, p, z
  <2>2. CASE a < p + z
    <3>1. p + z \in Cells(a, s)
      BY <1>3, <1>6, <2>2 DEF Cells
    <3>2. QED
      BY <1>42, <2>1, <3>1 DEF FixedAnswer, Result
  <2>3. CASE p + z <= a
    <3>1. a \in Cells(a, s)
      BY DEF Cells
    <3>2. QED
      BY <1>43, <2>1, <2>3, <3>1 DEF FixedAnswer, Result
  <2>4. QED
    BY <1>3, <2>2, <2>3
<1> DEFINE b == Block(p, a - p)
<1>71. a - p \in Nat \ {0} /\ a - p < M
  BY <1>3, <1>45, MAssumption
<1>72. b \in Blocks /\ b.addr = p /\ b.size = a - p
  BY <1>3, <1>71 DEF Block, Blocks
<1> HIDE DEF b
<1>73. a + s <= p + z => \A j \in 1 .. Len(l) : /\ j < k => l[j].addr + l[j].size < b.addr
                                                /\ k < j => b.addr + b.size < l[j].addr
  BY <1>2, <1>3, <1>41, <1>45, <1>72
<1>74. a + s <= p + z => /\ GoodList(ReplaceAt(l, k, b), lim)
                        /\ Free(ReplaceAt(l, k, b)) = FreeBut(l, k) \cup Cells(p, a - p)
  <2> SUFFICES ASSUME a + s <= p + z
               PROVE  /\ GoodList(ReplaceAt(l, k, b), lim)
                      /\ Free(ReplaceAt(l, k, b)) = FreeBut(l, k) \cup Cells(p, a - p)
    OBVIOUS
  <2>1. b.size # 0 /\ b.addr + b.size <= lim
    BY <1>3, <1>71, <1>72
  <2>2. QED
    BY <1>72, <1>73, <2>1, ReplaceBlock
<1>8. CASE p + z = a + s
  <2>1. z - s = a - p /\ z = (a - p) + s /\ p + (a - p) = a
    BY <1>3, <1>8
  <2>11. (z - s) % M = a - p
    BY <1>71, <2>1, NotReduced
  <2>2. TakeInside(l, k, a, s, room) = Result("ok", ReplaceAt(l, k, b))
    BY <1>3, <1>46, <1>5, <1>8, <2>1, <2>11 DEF TakeInside, b, p, z
  <2>3. Cells(p, z) = Cells(p, a - p) \cup Cells(a, s) /\ Cells(p, a - p) \cap Cells(a, s) = {}
    BY <1>3, <1>45, <1>8 DEF Cells
  <2>4. Free(ReplaceAt(l, k, b)) = Free(l) \ Cells(a, s) /\ Cells(a, s) \subseteq Free(l)
    BY <1>3, <1>4, <1>74, <1>8, <2>3
  <2>5. GoodList(ReplaceAt(l, k, b), lim)
    BY <1>3, <1>74, <1>8
  <2>6. QED
    BY <2>2, <2>4, <2>5 DEF FixedAnswer, Result
<1>9. CASE a + s < p + z
  <2> DEFINE t == p + z - (a + s)
             c == Block(a + s, t)
             r == ReplaceAt(l, k, b)
  <2>1. /\ t \in Nat \ {0} /\ t < M /\ a + s + t = p + z /\ z = (a - p) + (s + t)
        /\ p + (a - p) = a /\ z - s - t = a - p /\ s + t \in Nat
    BY <1>3, <1>71, <1>9, MAssumption
  <2>2. t % M = t /\ (z - s - t) % M = a - p
    BY <1>71, <2>1, NotReduced
  <2>3. c \in Blocks /\ c.addr = a + s /\ c.size = t
    BY <2>1 DEF Block, Blocks
  <2>4. TakeInside(l, k, a, s, room) =
          IF ~room THEN Result("nomem", l) ELSE Result("ok", InsertAt(r, k + 1, c))
    BY <1>3, <1>46, <1>5, <1>9, <2>2 DEF TakeInside, b, p, z
  <2> HIDE DEF t, c
  <2>5. /\ Cells(p, z) = Cells(p, a - p) \cup Cells(a, s) \cup Cells(a + s, t)
        /\ Cells(a, s) \cap (Cells(p, a - p) \cup Cells(a + s, t)) = {}
    <3>1. p \in Nat /\ z \in Nat /\ t \in Nat /\ p < a /\ p + z = a + s + t
      BY <1>3, <1>45, <2>1
    <3>2. Cells(p, z) = Cells(p, a - p) \cup Cells(a, s) \cup Cells(a + s, t)
      BY <3>1 DEF Cells
    <3>3. Cells(a, s) \cap (Cells(p, a - p) \cup Cells(a + s, t)) = {}
      BY <3>1 DEF Cells
    <3>4. QED
      BY <3>2, <3>3
  <2>7. Cells(a, s) \subseteq Free(l)
    BY <1>4, <2>5
  <2>8. CASE ~room
    BY <2>4, <2>7, <2>8 DEF FixedAnswer, Result
  <2>9. CASE room
    <3>1. Len(r) = Len(l) /\ \A j \in 1 .. Len(l) : r[j] = IF j = k THEN b ELSE l[j]
      <4>1. b \in Blocks
        BY <1>72
      <4>2. QED
        BY <1>1, <4>1, ReplaceAtProperties
    <3>2. GoodList(r, lim) /\ Free(r) = FreeBut(l, k) \cup Cells(p, a - p)
      BY <1>3, <1>74, <1>9
    <3> HIDE DEF r
    <3>3. k + 1 \in 1 .. Len(r) + 1 /\ c.size # 0 /\ c.addr + c.size <= lim
      BY <1>2, <1>3, <2>1, <2>3, <3>1
    <3>4. ASSUME NEW j \in 1 .. Len(r)
          PROVE  /\ j < k + 1 => r[j].addr + r[j].size < c.addr
                 /\ k + 1 <= j => c.addr + c.size < r[j].addr
      <4>1. CASE j < k
        <5>1. r[j] = l[j] /\ j \in 1 .. Len(l)
          BY <1>2, <3>1, <4>1
        <5>2. l[j].addr \in Nat /\ l[j].size \in Nat /\ l[j].addr + l[j].size < p
          BY <1>41, <4>1, <5>1
        <5>3. r[j].addr + r[j].size < c.addr
          BY <1>3, <1>45, <2>3, <5>1, <5>2
        <5>4. QED
          BY <1>2, <4>1, <5>3
      <4>2. CASE j = k
        BY <1>2, <1>3, <1>71, <1>72, <2>1, <2>3, <3>1, <4>2
      <4>3. CASE k < j
        BY <1>2, <1>3, <1>41, <2>1, <2>3, <3>1, <4>3
      <4>4. QED
        BY <1>2, <3>1, <4>1, <4>2, <4>3
    <3>5. /\ GoodList(InsertAt(r, k + 1, c), lim)
          /\ Free(InsertAt(r, k + 1, c)) = Free(r) \cup Cells(c.addr, c.size)
      <4> DEFINE i == k + 1
      <4>1. i \in 1 .. Len(r) + 1 /\ c \in Blocks /\ c.size # 0 /\ c.addr + c.size <= lim
        BY <2>3, <3>3
      <4>2. \A j \in 1 .. Len(r) : /\ j < i => r[j].addr + r[j].size < c.addr
                                   /\ i <= j => c.addr + c.size < r[j].addr
        BY <3>4
      <4>3. GoodList(r, lim)
        BY <3>2
      <4>4. InsertRoom(r, i, c, lim)
        BY <4>1, <4>2 DEF InsertRoom
      <4> HIDE DEF i
      <4>5. /\ GoodList(InsertAt(r, i, c), lim)
            /\ Free(InsertAt(r, i, c)) = Free(r) \cup Cells(c.addr, c.size)
        BY <4>3, <4>4, InsertInRoom
      <4>6. QED
        BY <4>5 DEF i
    <3>6. Free(InsertAt(r, k + 1, c)) = Free(l) \ Cells(a, s)
      BY <1>4, <2>3, <2>5, <3>2, <3>5
    <3>7. QED
      BY <2>4, <2>7, <2>9, <3>5, <3>6 DEF FixedAnswer, Result
  <2>10. QED
    BY <2>8, <2>9
<1>10. QED
  BY <1>3, <1>6, <1>8, <1>9

\* alloc_fixed as a whole.
LEMMA AllocFixedAnswer ==
  ASSUME NEW l, NEW lim \in Nat, GoodList(l, lim), lim < M, NEW room \in BOOLEAN,
         NEW a \in Nat, NEW s \in Nat \ {0}, a + s < M
  PROVE  FixedAnswer(AllocFixed(l, a, s, room), l, a, s, lim)
<1> DEFINE k == At(l, a)
<1>1. l \in Seq(Blocks)
  BY DEF GoodList
<1>2. Len(l) \in Nat /\ WellFormed(l, lim)
  BY GoodFacts
<1>3. /\ k \in 1 .. Len(l) + 1
      /\ k <= Len(l) => a <= l[k].addr
      /\ \A j \in 1 .. k - 1 : l[j].addr < a
  BY <1>1, AtProperties
<1>4. AllocFixed(l, a, s, room) =
        IF k <= Len(l) /\ l[k].addr = a THEN TakeFront(l, k, s)
        ELSE IF k = 1 THEN Result("out", l)
        ELSE TakeInside(l, k - 1, a, s, room)
  BY DEF AllocFixed
<1> HIDE DEF k
<1>5. CASE k <= Len(l) /\ l[k].addr = a
  <2>1. k \in 1 .. Len(l)
    BY <1>2, <1>3, <1>5
  <2>2. FixedAnswer(TakeFront(l, k, s), l, l[k].addr, s, lim)
    BY <2>1, TakeFrontAnswer
  <2>3. QED
    BY <1>4, <1>5, <2>2
<1>6. CASE ~ (k <= Len(l) /\ l[k].addr = a) /\ k = 1
  <2>1. k <= Len(l) => l[k].addr \in Nat /\ a < l[k].addr
    BY <1>2, <1>3, <1>6 DEF WellFormed
  <2>2. a \notin Free(l)
    BY <1>2, <1>3, <1>6, <2>1, GapNotFree
  <2>3. a \in Cells(a, s)
    BY DEF Cells
  <2>4. QED
    BY <1>4, <1>6, <2>2, <2>3 DEF FixedAnswer, Result
<1>7. CASE ~ (k <= Len(l) /\ l[k].addr = a) /\ k # 1
  <2> DEFINE i == k - 1
  <2>1. i \in 1 .. Len(l) /\ l[i].addr < a
    BY <1>2, <1>3, <1>7
  <2>2. i + 1 <= Len(l) => a < l[i + 1].addr
    <3>1. i + 1 = k
      BY <1>2, <1>3
    <3>2. k <= Len(l) => l[k].addr \in Nat
      BY <1>2, <1>3 DEF WellFormed
    <3>3. QED
      BY <1>3, <1>7, <3>1, <3>2
  <2>3. AllocFixed(l, a, s, room) = TakeInside(l, i, a, s, room)
    BY <1>4, <1>7
  <2> HIDE DEF i
  <2>4. QED
    BY <2>1, <2>2, <2>3, TakeInsideAnswer
<1>8. QED
  BY <1>5, <1>6, <1>7

-----------------------------------------------------------------------------
\* What free_block does to the free addresses.  It answers "bad" exactly when
\* an address of the range is free already.
FreeAnswer(r, l, a, s, lim) ==
  /\ GoodList(r.list, lim)
  /\ \/ /\ r.ret = "ok" /\ Cells(a, s) \cap Free(l) = {}
        /\ Free(r.list) = Free(l) \cup Cells(a, s)
     \/ r.ret = "nomem" /\ Cells(a, s) \cap Free(l) = {} /\ r.list = l
     \/ r.ret = "bad" /\ Cells(a, s) \cap Free(l) # {} /\ r.list = l

\* Joining three blocks into one: a block is replaced and its neighbour removed,
\* in either order.
LEMMA ReplaceRemove ==
  ASSUME NEW l \in Seq(Blocks), NEW k \in 1 .. Len(l), NEW i \in 1 .. Len(l), i < k, NEW b \in Blocks
  PROVE  RemoveAt(ReplaceAt(l, i, b), k) = ReplaceAt(RemoveAt(l, k), i, b)
<1> DEFINE p == ReplaceAt(l, i, b)
           q == RemoveAt(l, k)
           u == RemoveAt(p, k)
           v == ReplaceAt(q, i, b)
<1>1. Len(l) \in Nat
  BY LenProperties
<1>2. p \in Seq(Blocks) /\ Len(p) = Len(l) /\ \A j \in 1 .. Len(l) : p[j] = IF j = i THEN b ELSE l[j]
  BY ReplaceAtProperties
<1>3. /\ q \in Seq(Blocks) /\ Len(q) = Len(l) - 1
      /\ \A j \in 1 .. Len(l) - 1 : q[j] = IF j < k THEN l[j] ELSE l[j + 1]
  BY RemoveAtProperties
<1> HIDE DEF p, q
<1>4. k \in 1 .. Len(p) /\ i \in 1 .. Len(q)
  BY <1>1, <1>2, <1>3
<1>5. /\ u \in Seq(Blocks) /\ Len(u) = Len(p) - 1
      /\ \A j \in 1 .. Len(p) - 1 : u[j] = IF j < k THEN p[j] ELSE p[j + 1]
  BY <1>2, <1>4, RemoveAtProperties
<1>6. v \in Seq(Blocks) /\ Len(v) = Len(q) /\ \A j \in 1 .. Len(q) : v[j] = IF j = i THEN b ELSE q[j]
  BY <1>3, <1>4, ReplaceAtProperties
<1> HIDE DEF u, v
<1>7. \A j \in 1 .. Len(u) : u[j] = v[j]
  BY <1>1, <1>2, <1>3, <1>5, <1>6
<1>8. u = v
  BY <1>1, <1>2, <1>3, <1>5, <1>6, <1>7, SeqEqual
<1>9. QED
  BY <1>8 DEF u, v, p, q

\* free_block finds a gap: every block below it ends at or below a, every block
\* above it starts at or above a + s, and only the neighbours can touch it.
LEMMA Neighbours ==
  ASSUME NEW l, NEW lim \in Nat, GoodList(l, lim), NEW k \in 1 .. Len(l) + 1,
         NEW a \in Nat, NEW s \in Nat,
         k > 1 => l[k - 1].addr + l[k - 1].size <= a,
         k <= Len(l) => a + s <= l[k].addr,
         NEW j \in 1 .. Len(l)
  PROVE  /\ l[j].addr \in Nat /\ l[j].size \in Nat
         /\ j < k => l[j].addr + l[j].size <= a
         /\ j < k - 1 => l[j].addr + l[j].size < a
         /\ k <= j => a + s <= l[j].addr
         /\ k < j => a + s < l[j].addr
<1>1. Len(l) \in Nat /\ WellFormed(l, lim)
  BY GoodFacts
<1>2. l[j].addr \in Nat /\ l[j].size \in Nat
  BY <1>1 DEF WellFormed
<1>3. ASSUME j < k PROVE /\ l[j].addr + l[j].size <= a
                         /\ j < k - 1 => l[j].addr + l[j].size < a
  <2> DEFINE i == k - 1
  <2>1. i \in 1 .. Len(l) /\ k > 1 /\ (j = i \/ j < i)
    BY <1>1, <1>3
  <2>2. l[i].addr + l[i].size <= a
    BY <2>1
  <2> HIDE DEF i
  <2>3. l[i].addr \in Nat /\ l[i].size \in Nat /\ (j < i => l[j].addr + l[j].size < l[i].addr)
    BY <1>1, <2>1 DEF WellFormed
  <2>4. l[j].addr + l[j].size <= a /\ (j < i => l[j].addr + l[j].size < a)
    BY <1>2, <2>1, <2>2, <2>3
  <2>5. QED
    BY <2>4 DEF i
<1>4. ASSUME k <= j PROVE a + s <= l[j].addr /\ (k < j => a + s < l[j].addr)
  <2>1. k \in 1 .. Len(l) /\ (j = k \/ k < j)
    BY <1>1, <1>4
  <2>2. l[k].addr \in Nat /\ l[k].size \in Nat /\ (k < j => l[k].addr + l[k].size < l[j].addr)
    BY <1>1, <2>1 DEF WellFormed
  <2>3. a + s <= l[k].addr
    BY <1>1, <2>1
  <2>4. QED
    BY <1>2, <2>1, <2>2, <2>3
<1>5. QED
  BY <1>1, <1>2, <1>3, <1>4

\* The range grows the block below it.
LEMMA JoinBelow ==
  ASSUME NEW l, NEW lim \in Nat, GoodList(l, lim), NEW i \in 1 .. Len(l),
         NEW a \in Nat, NEW s \in Nat \ {0}, a + s <= lim,
         l[i].addr + l[i].size = a,
         \A j \in 1 .. Len(l) : i < j => a + s < l[j].addr,
         NEW b, b = Block(l[i].addr, l[i].size + s)
  PROVE  /\ GoodList(ReplaceAt(l, i, b), lim)
         /\ Free(ReplaceAt(l, i, b)) = Free(l) \cup Cells(a, s)
<1> DEFINE p == l[i].addr
           y == l[i].size
<1>1. Len(l) \in Nat /\ WellFormed(l, lim)
  BY GoodFacts
<1>2. p \in Nat /\ y \in Nat \ {0} /\ p + y = a
  BY <1>1 DEF WellFormed
<1>3. Free(l) = FreeBut(l, i) \cup Cells(p, y)
  BY FreeSplit
<1>4. \A j \in 1 .. Len(l) : j < i => l[j].addr + l[j].size < p
  BY <1>1 DEF WellFormed
<1>5. b = Block(p, y + s)
  OBVIOUS
<1> HIDE DEF p, y
<1>6. b \in Blocks /\ b.addr = p /\ b.size = y + s /\ y + s # 0 /\ p + (y + s) = a + s
  BY <1>2, <1>5 DEF Block, Blocks
<1>7. /\ b.size # 0 /\ b.addr + b.size <= lim
      /\ \A j \in 1 .. Len(l) : /\ j < i => l[j].addr + l[j].size < b.addr
                                /\ i < j => b.addr + b.size < l[j].addr
  BY <1>2, <1>4, <1>6
<1>8. /\ GoodList(ReplaceAt(l, i, b), lim)
      /\ Free(ReplaceAt(l, i, b)) = FreeBut(l, i) \cup Cells(b.addr, b.size)
  BY <1>6, <1>7, ReplaceBlock
<1>9. Cells(p, y + s) = Cells(p, y) \cup Cells(a, s)
  BY <1>2 DEF Cells
<1>10. QED
  BY <1>3, <1>6, <1>8, <1>9

\* Block i of l ends at a, and a + s is below the block after it.
JoinRoom(l, i, a, s, b, lim) ==
  /\ i \in 1 .. Len(l) /\ a \in Nat /\ s \in Nat \ {0} /\ a + s <= lim
  /\ l[i].addr + l[i].size = a /\ b = Block(l[i].addr, l[i].size + s)
  /\ \A j \in 1 .. Len(l) : i < j => a + s < l[j].addr

LEMMA JoinInRoom ==
  ASSUME NEW l, NEW lim \in Nat, GoodList(l, lim), NEW i, NEW a, NEW s, NEW b,
         JoinRoom(l, i, a, s, b, lim)
  PROVE  /\ GoodList(ReplaceAt(l, i, b), lim)
         /\ Free(ReplaceAt(l, i, b)) = Free(l) \cup Cells(a, s)
BY JoinBelow DEF JoinRoom

\* The range grows the block above it.
LEMMA JoinAbove ==
  ASSUME NEW l, NEW lim \in Nat, GoodList(l, lim), NEW k \in 1 .. Len(l),
         NEW a \in Nat, NEW s \in Nat \ {0}, a + s = l[k].addr,
         \A j \in 1 .. Len(l) : j < k => l[j].addr + l[j].size < a
  PROVE  LET r == ReplaceAt(l, k, Block(a, l[k].size + s))
         IN GoodList(r, lim) /\ Free(r) = Free(l) \cup Cells(a, s)
<1> DEFINE p == l[k].addr
           y == l[k].size
           b == Block(a, y + s)
<1>1. Len(l) \in Nat /\ WellFormed(l, lim)
  BY GoodFacts
<1>2. p \in Nat /\ y \in Nat \ {0} /\ a + s = p /\ p + y <= lim
  BY <1>1 DEF WellFormed
<1>3. Free(l) = FreeBut(l, k) \cup Cells(p, y)
  BY FreeSplit
<1>4. \A j \in 1 .. Len(l) : k < j => p + y < l[j].addr
  BY <1>1 DEF WellFormed
<1>5. ReplaceAt(l, k, Block(a, l[k].size + s)) = ReplaceAt(l, k, b)
  OBVIOUS
<1> HIDE DEF p, y
<1>6. b \in Blocks /\ b.addr = a /\ b.size = y + s /\ y + s # 0 /\ a + (y + s) = p + y
  BY <1>2 DEF Block, Blocks
<1> HIDE DEF b
<1>7. /\ b.size # 0 /\ b.addr + b.size <= lim
      /\ \A j \in 1 .. Len(l) : /\ j < k => l[j].addr + l[j].size < b.addr
                                /\ k < j => b.addr + b.size < l[j].addr
  BY <1>2, <1>4, <1>6
<1>8. /\ GoodList(ReplaceAt(l, k, b), lim)
      /\ Free(ReplaceAt(l, k, b)) = FreeBut(l, k) \cup Cells(b.addr, b.size)
  BY <1>6, <1>7, ReplaceBlock
<1>9. Cells(a, y + s) = Cells(p, y) \cup Cells(a, s)
  BY <1>2 DEF Cells
<1>10. QED
  BY <1>3, <1>5, <1>6, <1>8, <1>9

\* The range closes the gap between two blocks: the same as growing the lower
\* one, once the upper one has been removed, by what both cover.
LEMMA JoinBoth ==
  ASSUME NEW l, NEW lim \in Nat, GoodList(l, lim), NEW k \in 1 .. Len(l), NEW i \in 1 .. Len(l),
         i = k - 1, NEW a \in Nat, NEW s \in Nat \ {0},
         l[i].addr + l[i].size = a, a + s = l[k].addr
  PROVE  LET r == RemoveAt(ReplaceAt(l, i, Block(l[i].addr, l[i].size + (s + l[k].size))), k)
         IN GoodList(r, lim) /\ Free(r) = Free(l) \cup Cells(a, s)
<1> DEFINE q == RemoveAt(l, k)
           p == l[k].addr
           y == l[k].size
           z == s + y
           b == Block(l[i].addr, l[i].size + z)
<1>1. l \in Seq(Blocks)
  BY DEF GoodList
<1>2. Len(l) \in Nat /\ WellFormed(l, lim)
  BY GoodFacts
<1>3. /\ l[i].addr \in Nat /\ l[i].size \in Nat /\ p \in Nat /\ y \in Nat \ {0} /\ p + y <= lim
      /\ \A j \in 1 .. Len(l) : k < j => p + y < l[j].addr
  BY <1>2 DEF WellFormed
<1>4. i < k /\ a + s = p
  BY <1>2
<1>5. Free(l) = FreeBut(l, k) \cup Cells(p, y)
  BY FreeSplit
<1>6. RemoveAt(ReplaceAt(l, i, Block(l[i].addr, l[i].size + (s + l[k].size))), k) = RemoveAt(ReplaceAt(l, i, b), k)
  OBVIOUS
<1> HIDE DEF p, y
<1>7. z \in Nat \ {0} /\ a + z = p + y /\ a + z <= lim
  BY <1>3, <1>4
<1>8. Cells(a, z) = Cells(a, s) \cup Cells(p, y)
  BY <1>3, <1>4 DEF Cells
<1> HIDE DEF z
<1>9. b \in Blocks
  BY <1>3, <1>7 DEF Block, Blocks
<1>10. RemoveAt(ReplaceAt(l, i, b), k) = ReplaceAt(q, i, b)
  <2> HIDE DEF b
  <2> QED BY <1>1, <1>4, <1>9, ReplaceRemove
<1>11. GoodList(q, lim) /\ Free(q) = FreeBut(l, k)
  BY RemoveBlock
<1>12. Len(q) = Len(l) - 1 /\ \A j \in 1 .. Len(l) - 1 : q[j] = IF j < k THEN l[j] ELSE l[j + 1]
  BY <1>1, RemoveAtProperties
<1> HIDE DEF q
<1>13. i \in 1 .. Len(q) /\ q[i] = l[i]
  BY <1>2, <1>4, <1>12
<1>14. \A j \in 1 .. Len(q) : i < j => a + z < q[j].addr
  <2> SUFFICES ASSUME NEW j \in 1 .. Len(q), i < j PROVE a + z < q[j].addr
    OBVIOUS
  <2>1. q[j] = l[j + 1] /\ j + 1 \in 1 .. Len(l) /\ k < j + 1
    BY <1>2, <1>12
  <2>2. QED
    BY <1>3, <1>7, <2>1
<1>15. q[i].addr + q[i].size = a
  BY <1>13
<1>16. GoodList(ReplaceAt(q, i, b), lim) /\ Free(ReplaceAt(q, i, b)) = Free(q) \cup Cells(a, z)
  <2>1. b = Block(q[i].addr, q[i].size + z)
    BY <1>13
  <2> HIDE DEF b
  <2>2. GoodList(q, lim) /\ i \in 1 .. Len(q)
    BY <1>11, <1>13
  <2>3. z \in Nat \ {0} /\ a + z <= lim
    BY <1>7
  <2>4. JoinRoom(q, i, a, z, b, lim)
    BY <1>14, <1>15, <2>1, <2>2, <2>3 DEF JoinRoom
  <2>5. QED
    BY <2>2, <2>4, JoinInRoom
<1>17. QED
  BY <1>5, <1>6, <1>8, <1>10, <1>11, <1>16

\* free_block as a whole.
LEMMA FreeBlockAnswer ==
  ASSUME NEW l, NEW lim \in Nat, GoodList(l, lim), lim < M, NEW room \in BOOLEAN,
         NEW a \in Nat, NEW s \in Nat \ {0}, a + s <= lim
  PROVE  FreeAnswer(FreeBlock(l, a, s, room), l, a, s, lim)
<1> DEFINE k == At(l, a)
           i == k - 1
           r == FreeBlock(l, a, s, room)
           lo == l[i].addr + l[i].size
           hi == l[k].addr
           below == k > 1
           above == k <= Len(l)
<1>1. l \in Seq(Blocks)
  BY DEF GoodList
<1>2. Len(l) \in Nat /\ WellFormed(l, lim)
  BY GoodFacts
<1>3. k \in 1 .. Len(l) + 1 /\ (above => a <= hi) /\ (\A j \in 1 .. k - 1 : l[j].addr < a)
  BY <1>1, AtProperties
<1>4. below => /\ i \in 1 .. Len(l) /\ l[i].addr \in Nat /\ l[i].size \in Nat \ {0}
               /\ l[i].addr < a /\ lo \in Nat /\ lo <= lim /\ lo < M
  BY <1>2, <1>3, MAssumption DEF WellFormed
<1>5. above => /\ k \in 1 .. Len(l) /\ hi \in Nat /\ l[k].size \in Nat \ {0}
               /\ a <= hi /\ hi + l[k].size <= lim
  BY <1>2, <1>3 DEF WellFormed
<1>6. (a + s) % M = a + s /\ (below => End(l[i]) = lo)
  <2>1. a + s \in Nat /\ a + s < M
    BY MAssumption
  <2>2. QED
    BY <1>4, <2>1, NotReduced DEF End
<1>7. /\ (below /\ lo > a) \/ (above /\ a + s > hi) => r = Result("bad", l)
      /\ ~ ((below /\ lo > a) \/ (above /\ a + s > hi)) =>
           r = IF below /\ lo = a /\ above /\ a + s = hi
               THEN Result("ok", RemoveAt(ReplaceAt(l, i,
                      Block(l[i].addr, (l[i].size + s + l[k].size) % M)), k))
               ELSE IF below /\ lo = a
               THEN Result("ok", ReplaceAt(l, i, Block(l[i].addr, (l[i].size + s) % M)))
               ELSE IF above /\ a + s = hi
               THEN Result("ok", ReplaceAt(l, k, Block(a, (l[k].size + s) % M)))
               ELSE IF ~room THEN Result("nomem", l)
               ELSE Result("ok", InsertAt(l, k, Block(a, s)))
  BY <1>6 DEF FreeBlock
<1> HIDE DEF k, r
<1>8. CASE (below /\ lo > a) \/ (above /\ a + s > hi)
  <2>1. r.ret = "bad" /\ r.list = l
    BY <1>7, <1>8 DEF Result
  <2>2. \E x \in Cells(a, s) : x \in Free(l)
    <3>1. CASE below /\ lo > a
      <4>1. a \in Cells(a, s) /\ a \in Cells(l[i].addr, l[i].size) /\ i \in 1 .. Len(l)
        BY <1>4, <3>1 DEF Cells
      <4> HIDE DEF i
      <4>2. QED
        BY <1>1, <4>1, FreeMember
    <3>2. CASE above /\ a + s > hi
      <4>1. hi \in Cells(a, s) /\ hi \in Cells(l[k].addr, l[k].size) /\ k \in 1 .. Len(l)
        BY <1>5, <3>2 DEF Cells
      <4>2. QED
        BY <1>1, <4>1, FreeMember
    <3>3. QED
      BY <1>8, <3>1, <3>2
  <2>3. QED
    BY <2>1, <2>2 DEF FreeAnswer, r
<1>9. CASE ~ ((below /\ lo > a) \/ (above /\ a + s > hi))
  <2>1. (below => lo <= a) /\ (above => a + s <= hi)
    BY <1>4, <1>5, <1>9
  <2>2. \A j \in 1 .. Len(l) : /\ l[j].addr \in Nat /\ l[j].size \in Nat
                               /\ j < k => l[j].addr + l[j].size <= a
                               /\ j < k - 1 => l[j].addr + l[j].size < a
                               /\ k <= j => a + s <= l[j].addr
                               /\ k < j => a + s < l[j].addr
    BY <1>3, <2>1, Neighbours
  <2>3. Cells(a, s) \cap Free(l) = {}
    <3>1. SUFFICES ASSUME NEW x \in Cells(a, s), NEW j \in 1 .. Len(l)
                   PROVE  x \notin Cells(l[j].addr, l[j].size)
      BY <1>1, FreeMember
    <3>2. x \in Nat /\ a <= x /\ x < a + s
      BY CellsMember
    <3>3. /\ l[j].addr \in Nat /\ l[j].size \in Nat
          /\ l[j].addr + l[j].size <= a \/ a + s <= l[j].addr
      BY <1>2, <1>3, <2>2
    <3>4. QED
      BY <3>2, <3>3, CellsMember
  <2>4. SUFFICES \/ r.ret = "nomem" /\ r.list = l
                 \/ r.ret = "ok" /\ GoodList(r.list, lim) /\ Free(r.list) = Free(l) \cup Cells(a, s)
    BY <2>3 DEF FreeAnswer, r
  <2>5. CASE below /\ lo = a /\ above /\ a + s = hi
    <3> DEFINE z == l[i].size + (s + l[k].size)
               w == RemoveAt(ReplaceAt(l, i, Block(l[i].addr, z)), k)
    <3>1. z \in Nat /\ z < M /\ l[i].size + s + l[k].size = z
      <4>1. /\ l[i].addr \in Nat /\ l[i].size \in Nat /\ l[k].size \in Nat
            /\ l[i].addr + l[i].size = a /\ a + s + l[k].size <= lim
        BY <1>4, <1>5, <2>5
      <4>2. \A p, x, y \in Nat : p + x = a /\ a + s + y <= lim =>
              /\ x + (s + y) \in Nat /\ x + (s + y) < M /\ x + s + y = x + (s + y)
        BY MAssumption
      <4>3. QED
        BY <4>1, <4>2, ZenonT(60)
    <3>2. r = Result("ok", w)
      BY <1>7, <1>9, <2>5, <3>1, NotReduced
    <3>3. i \in 1 .. Len(l) /\ k \in 1 .. Len(l) /\ l[i].addr + l[i].size = a /\ a + s = l[k].addr
      BY <1>4, <1>5, <2>5
    <3>4. GoodList(w, lim) /\ Free(w) = Free(l) \cup Cells(a, s)
      BY <3>3, JoinBoth
    <3> HIDE DEF w
    <3>5. QED
      BY <3>2, <3>4 DEF Result
  <2>6. CASE below /\ lo = a /\ ~ (above /\ a + s = hi)
    <3> DEFINE z == l[i].size + s
               w == ReplaceAt(l, i, Block(l[i].addr, z))
    <3>1. z \in Nat /\ z < M
      BY <1>4, <2>6, MAssumption
    <3>2. r = Result("ok", w)
      BY <1>7, <1>9, <2>6, <3>1, NotReduced
    <3>3. i \in 1 .. Len(l) /\ l[i].addr + l[i].size = a
      BY <1>4, <2>6
    <3>4. \A j \in 1 .. Len(l) : i < j => a + s < l[j].addr
      <4> SUFFICES ASSUME NEW j \in 1 .. Len(l), i < j PROVE a + s < l[j].addr
        OBVIOUS
      <4>1. k < j \/ k = j
        BY <1>2, <1>3
      <4>2. k = j => a + s # l[j].addr
        BY <1>2, <1>3, <2>6
      <4>3. l[j].addr \in Nat /\ (k <= j => a + s <= l[j].addr) /\ (k < j => a + s < l[j].addr)
        BY <2>2
      <4>4. CASE k < j
        BY <4>3, <4>4
      <4>5. CASE k = j
        <5>1. a + s <= l[j].addr /\ a + s # l[j].addr
          BY <1>3, <4>2, <4>3, <4>5
        <5>2. \A x, y \in Nat : x <= y /\ x # y => x < y
          OBVIOUS
        <5>3. a + s \in Nat /\ l[j].addr \in Nat
          BY <4>3
        <5>4. QED
          BY <5>1, <5>2, <5>3, Zenon
      <4>6. QED
        BY <4>1, <4>4, <4>5
    <3> HIDE DEF i
    <3>5. GoodList(w, lim) /\ Free(w) = Free(l) \cup Cells(a, s)
      BY <3>3, <3>4, JoinBelow
    <3> HIDE DEF w
    <3>6. QED
      BY <3>2, <3>5 DEF Result
  <2>7. CASE ~ (below /\ lo = a) /\ above /\ a + s = hi
    <3> DEFINE z == l[k].size + s
               w == ReplaceAt(l, k, Block(a, z))
    <3>1. z \in Nat /\ z < M
      BY <1>5, <2>7, MAssumption
    <3>2. r = Result("ok", w)
      BY <1>7, <1>9, <2>7, <3>1, NotReduced
    <3>3. k \in 1 .. Len(l) /\ a + s = l[k].addr
      BY <1>5, <2>7
    <3>4. \A j \in 1 .. Len(l) : j < k => l[j].addr + l[j].size < a
      <4> SUFFICES ASSUME NEW j \in 1 .. Len(l), j < k PROVE l[j].addr + l[j].size < a
        OBVIOUS
      <4>1. j < k - 1 \/ j = i
        BY <1>2, <1>3
      <4>2. j = i => l[j].addr + l[j].size # a
        BY <1>2, <1>3, <2>7
      <4> HIDE DEF i
      <4>3. /\ l[j].addr \in Nat /\ l[j].size \in Nat /\ l[j].addr + l[j].size <= a
            /\ j < k - 1 => l[j].addr + l[j].size < a
        BY <2>2
      <4>4. QED
        BY <4>1, <4>2, <4>3
    <3>5. GoodList(w, lim) /\ Free(w) = Free(l) \cup Cells(a, s)
      BY <3>3, <3>4, JoinAbove
    <3> HIDE DEF w
    <3>6. QED
      BY <3>2, <3>5 DEF Result
  <2>8. CASE ~ (below /\ lo = a) /\ ~ (above /\ a + s = hi)
    <3> DEFINE b == Block(a, s)
    <3>1. b \in Blocks /\ b.addr = a /\ b.size = s
      BY DEF Block, Blocks
    <3>2. r = IF ~room THEN Result("nomem", l) ELSE Result("ok", InsertAt(l, k, b))
      BY <1>7, <1>9, <2>8
    <3> HIDE DEF b
    <3>3. ASSUME NEW j \in 1 .. Len(l)
          PROVE  /\ j < k => l[j].addr + l[j].size < b.addr
                 /\ k <= j => b.addr + b.size < l[j].addr
      <4>1. j < k => j < k - 1 \/ j = i
        BY <1>2, <1>3
      <4>2. j < k /\ j = i => l[j].addr + l[j].size # a
        BY <1>2, <1>3, <2>8
      <4>3. k <= j => k < j \/ (j = k /\ a + s # l[j].addr)
        BY <1>2, <1>3, <2>8
      <4> HIDE DEF i
      <4>4. /\ l[j].addr \in Nat /\ l[j].size \in Nat
            /\ j < k => l[j].addr + l[j].size <= a
            /\ j < k - 1 => l[j].addr + l[j].size < a
            /\ k <= j => a + s <= l[j].addr
            /\ k < j => a + s < l[j].addr
        BY <2>2
      <4>5. CASE j < k
        <5>1. l[j].addr + l[j].size < a
          BY <4>1, <4>2, <4>4, <4>5
        <5>2. QED
          BY <1>2, <1>3, <3>1, <4>5, <5>1
      <4>6. CASE k <= j
        BY <1>2, <1>3, <3>1, <4>3, <4>4, <4>6
      <4>7. QED
        BY <1>2, <1>3, <4>5, <4>6
    <3>4. b.size # 0 /\ b.addr + b.size <= lim
      BY <3>1
    <3>5. /\ GoodList(InsertAt(l, k, b), lim)
          /\ Free(InsertAt(l, k, b)) = Free(l) \cup Cells(b.addr, b.size)
      <4>1. k \in 1 .. Len(l) + 1
        BY <1>2, <1>3
      <4>2. \A j \in 1 .. Len(l) : /\ j < k => l[j].addr + l[j].size < b.addr
                                   /\ k <= j => b.addr + b.size < l[j].addr
        BY <3>3
      <4>3. QED
        BY <3>1, <3>4, <4>1, <4>2, InsertBlock
    <3>6. QED
      BY <3>1, <3>2, <3>5 DEF Result
  <2>9. QED
    BY <2>5, <2>6, <2>7, <2>8
<1>10. QED
  BY <1>8, <1>9

-----------------------------------------------------------------------------
\* The smallest multiple of al that is not below a.
LEMMA LeastMultiple ==
  ASSUME NEW a \in Nat, NEW al \in Nat \ {0}, NEW o, o = (-a) % al
  PROVE  /\ o \in Nat
         /\ (a + o) % al = 0
         /\ \A x \in Nat : x % al = 0 /\ a <= x => a + o <= x
<1> DEFINE q == -((-a) \div al)
<1>1. o \in Nat /\ o < al /\ q \in Int /\ a + o = q * al
  BY SMT
<1> HIDE DEF q
<1>2. (q * al) % al = 0
  <2>1. q >= 0
    BY <1>1
  <2>2. q \in Nat
    BY <1>1, <2>1
  <2>3. QED
    BY <2>2
<1>3. ASSUME NEW x \in Nat, x % al = 0, a <= x PROVE a + o <= x
  <2> DEFINE p == x \div al
  <2>1. p \in Int /\ x = p * al
    BY <1>3
  <2> HIDE DEF p
  <2>2. (q - 1) * al < a
    BY <1>1
  <2>3. (q - 1) * al < p * al
    BY <1>1, <1>3, <2>1, <2>2
  <2>4. q - 1 < p
    BY <1>1, <2>1, <2>3
  <2>5. q <= p
    BY <1>1, <2>1, <2>4
  <2>6. q * al <= p * al
    BY <1>1, <2>1, <2>5
  <2>7. QED
    BY <1>1, <2>1, <2>6
<1>4. QED
  BY <1>1, <1>2, <1>3

LEMMA OffProperties ==
  ASSUME NEW b, NEW p \in Nat, b.addr = p, NEW al \in Nat \ {0}
  PROVE  /\ Off(b, al) \in Nat
         /\ (p + Off(b, al)) % al = 0
         /\ \A x \in Nat : x % al = 0 /\ p <= x => p + Off(b, al) <= x
<1>1. Off(b, al) = (-p) % al
  BY DEF Off
<1>2. QED
  BY <1>1, LeastMultiple

\* A free range lies in one block: the address behind the block is not free.
LEMMA WithinBlock ==
  ASSUME NEW l, NEW lim \in Nat, GoodList(l, lim), NEW x \in Nat, NEW s \in Nat \ {0},
         Cells(x, s) \subseteq Free(l)
  PROVE  \E j \in 1 .. Len(l) : l[j].addr <= x /\ x + s <= l[j].addr + l[j].size
<1>1. l \in Seq(Blocks)
  BY DEF GoodList
<1>2. Len(l) \in Nat /\ WellFormed(l, lim)
  BY GoodFacts
<1>3. x \in Free(l)
  BY DEF Cells
<1>4. PICK j \in 1 .. Len(l) : x \in Cells(l[j].addr, l[j].size)
  BY <1>1, <1>3, FreeMember
<1> DEFINE p == l[j].addr
           y == l[j].size
<1>5. p \in Nat /\ y \in Nat
  BY <1>2 DEF WellFormed
<1>6. p + y \notin Free(l)
  BY EndNotFree
<1>7. x \in Cells(p, y)
  BY <1>4
<1> HIDE DEF p, y
<1>8. p <= x /\ x < p + y
  BY <1>5, <1>7, CellsMember
<1>9. p + y < x + s => p + y \in Cells(x, s)
  BY <1>5, <1>8 DEF Cells
<1>10. p <= x /\ x + s <= p + y
  BY <1>5, <1>6, <1>8, <1>9
<1>11. QED
  BY <1>10 DEF p, y

\* alloc_constrained's test of a block says whether the range fits behind the
\* alignment.
LEMMA UsableFits ==
  ASSUME NEW p \in Nat, NEW y \in Nat \ {0}, y < M, NEW al \in Nat \ {0}, NEW s \in Nat \ {0},
         NEW b, b.addr = p, b.size = y
  PROVE  Off(b, al) \in Nat /\ (Usable(b, al, s) <=> Off(b, al) + s <= y)
<1> DEFINE o == Off(b, al)
<1>1. o \in Nat
  BY OffProperties
<1>2. Usable(b, al, s) <=> (o > 0 => o < y) /\ (y - o) % M >= s
  BY DEF Usable
<1> HIDE DEF o
<1>3. o < y => (y - o) % M = y - o
  <2>1. o < y => y - o \in Nat /\ y - o < M
    BY <1>1, MAssumption
  <2>2. QED
    BY <2>1, NotReduced
<1>4. QED
  BY <1>1, <1>2, <1>3, MAssumption DEF o

\* The bases alloc_aligned may choose from.
AlignedBases(l, al, s) == {x \in Free(l) : x % al = 0 /\ Cells(x, s) \subseteq Free(l)}

\* alloc_aligned claims the lowest aligned range that is free, if there is one.
AlignedAnswer(r, l, al, s, lim) ==
  \/ r.ret = "out" /\ AlignedBases(l, al, s) = {} /\ r.list = l
  \/ /\ r.base \in AlignedBases(l, al, s)
     /\ \A x \in AlignedBases(l, al, s) : r.base <= x
     /\ FixedAnswer(r, l, r.base, s, lim)

LEMMA AllocAlignedAnswer ==
  ASSUME NEW l, NEW lim \in Nat, GoodList(l, lim), lim < M, NEW room \in BOOLEAN,
         NEW al \in Nat \ {0}, NEW s \in Nat \ {0}
  PROVE  AlignedAnswer(AllocAligned(l, al, s, room), l, al, s, lim)
<1> DEFINE fit == {j \in 1 .. Len(l) : Usable(l[j], al, s)}
           k == CHOOSE i \in fit : \A j \in fit : i <= j
           base == (l[k].addr + Off(l[k], al)) % M
           r == AllocAligned(l, al, s, room)
           B == AlignedBases(l, al, s)
<1>1. l \in Seq(Blocks)
  BY DEF GoodList
<1>2. Len(l) \in Nat /\ WellFormed(l, lim)
  BY GoodFacts
<1>3. \A j \in 1 .. Len(l) : /\ l[j].addr \in Nat /\ l[j].size \in Nat \ {0}
                             /\ l[j].addr + l[j].size <= lim /\ l[j].size < M
  BY <1>2, MAssumption DEF WellFormed
<1>4. \A j \in 1 .. Len(l) : /\ Off(l[j], al) \in Nat
                             /\ Usable(l[j], al, s) <=> Off(l[j], al) + s <= l[j].size
  BY <1>3, UsableFits
<1>5. ASSUME NEW x \in B
      PROVE  x \in Nat /\ \E j \in fit : l[j].addr + Off(l[j], al) <= x
  <2>1. x \in Free(l) /\ x % al = 0 /\ Cells(x, s) \subseteq Free(l)
    BY <1>5 DEF AlignedBases
  <2>2. PICK i \in 1 .. Len(l) : x \in Cells(l[i].addr, l[i].size)
    BY <1>1, <2>1, FreeMember
  <2>3. x \in Nat
    BY <1>3, <2>2, CellsMember
  <2>4. PICK j \in 1 .. Len(l) : l[j].addr <= x /\ x + s <= l[j].addr + l[j].size
    BY <2>1, <2>3, WithinBlock
  <2>5. l[j].addr + Off(l[j], al) <= x
    <3>1. l[j].addr \in Nat
      BY <1>3
    <3>2. QED
      BY <2>1, <2>3, <2>4, <3>1, OffProperties
  <2>6. Off(l[j], al) + s <= l[j].size
    <3>1. l[j].addr \in Nat /\ l[j].size \in Nat /\ Off(l[j], al) \in Nat
      BY <1>3, <1>4
    <3>2. QED
      BY <2>3, <2>4, <2>5, <3>1
  <2>7. QED
    BY <1>4, <2>3, <2>5, <2>6
<1>6. CASE fit = {}
  <2>1. r.ret = "out" /\ r.list = l
    BY <1>6 DEF AllocAligned
  <2>2. B = {}
    BY <1>5, <1>6
  <2>3. QED
    BY <2>1, <2>2 DEF AlignedAnswer
<1>7. CASE fit # {}
  <2>1. k \in fit /\ \A j \in fit : k <= j
    <3>1. fit \subseteq Nat
      OBVIOUS
    <3> HIDE DEF fit
    <3>2. QED
      BY <1>7, <3>1, LeastNatural
  <2>2. /\ r.ret = AllocFixed(l, base, s, room).ret
        /\ r.list = AllocFixed(l, base, s, room).list
        /\ r.base = base
    BY <1>7 DEF AllocAligned
  <2> DEFINE p == l[k].addr
             y == l[k].size
             o == Off(l[k], al)
  <2>3. /\ k \in 1 .. Len(l) /\ p \in Nat /\ y \in Nat \ {0} /\ p + y <= lim
        /\ o \in Nat /\ o + s <= y
    BY <1>3, <1>4, <2>1
  <2>4. (p + o) % al = 0
    BY <2>3, OffProperties
  <2>5. base = p + o /\ p + o \in Nat
    <3>1. p + o \in Nat /\ p + o < M
      <4> HIDE DEF p, y, o
      <4> QED BY <2>3, MAssumption
    <3>2. QED
      BY <3>1, NotReduced
  <2>6. Cells(p, y) \subseteq Free(l)
    BY <1>1, <2>3, FreeMember
  <2>7. \A j \in fit : p + o <= l[j].addr + Off(l[j], al)
    <3> SUFFICES ASSUME NEW j \in fit PROVE p + o <= l[j].addr + Off(l[j], al)
      OBVIOUS
    <3>1. k <= j /\ j \in 1 .. Len(l)
      BY <2>1
    <3>2. CASE j = k
      BY <2>3, <3>2
    <3>3. CASE k < j
      <4>1. p + y < l[j].addr /\ l[j].addr \in Nat /\ Off(l[j], al) \in Nat
        BY <1>2, <1>3, <1>4, <2>3, <3>1, <3>3 DEF WellFormed
      <4> HIDE DEF p, y, o
      <4>2. QED
        BY <2>3, <4>1
    <3>4. QED
      BY <2>3, <3>1, <3>2, <3>3
  <2> HIDE DEF p, y, o, fit, k, base, r
  <2>8. Cells(p + o, s) \subseteq Cells(p, y) /\ p + o \in Cells(p, y)
    BY <2>3 DEF Cells
  <2>9. base \in B
    BY <2>4, <2>5, <2>6, <2>8 DEF AlignedBases
  <2>10. \A x \in B : base <= x
    <3> SUFFICES ASSUME NEW x \in B PROVE base <= x
      OBVIOUS
    <3>1. x \in Nat
      BY <1>5
    <3>2. PICK j \in fit : l[j].addr + Off(l[j], al) <= x
      BY <1>5
    <3>3. p + o <= l[j].addr + Off(l[j], al) /\ l[j].addr \in Nat /\ Off(l[j], al) \in Nat
      BY <1>3, <1>4, <2>7 DEF fit
    <3>4. QED
      BY <2>5, <3>1, <3>2, <3>3
  <2>11. base \in Nat /\ base + s < M
    BY <2>3, <2>5, MAssumption
  <2>12. FixedAnswer(AllocFixed(l, base, s, room), l, base, s, lim)
    BY <2>11, AllocFixedAnswer
  <2>13. FixedAnswer(r, l, r.base, s, lim)
    BY <2>2, <2>12 DEF FixedAnswer
  <2>14. QED
    BY <2>2, <2>9, <2>10, <2>13 DEF AlignedAnswer, r
<1>8. QED
  BY <1>6, <1>7

-----------------------------------------------------------------------------
\* The DRAM probe.

\* Memory before the probe, and while the anchor is set and no pattern is.
Whole == [a \in 0 .. size - 1 |-> a]
Clean == [a \in 0 .. size - 1 |-> IF a = AnchorAt THEN Anchor ELSE a]

ProbeTypes ==
  /\ probePc \in {"anchor", "write", "restore", "compare", "release", "done"}
  /\ size \in Sizes /\ addr \in Int /\ addr % Step = 0
  /\ beyond \in {"alias", "none"}

\* Where the loop is, and what it has found.
ProbeBounds ==
  /\ probePc # "done" => addr <= Top - Step
  /\ probePc \in {"restore", "compare"} => addr >= Floor
  /\ probePc = "release" /\ addr >= Floor => top = addr + Step
  /\ probePc = "done" => top \in Floor .. Top

\* What memory and the locals hold at each point of the loop.
ProbeMemory ==
  /\ probePc \in {"anchor", "done"} => mem = Whole
  /\ probePc \in {"write", "compare", "release"} => mem = Clean /\ anchorSave = AnchorAt
  /\ probePc = "restore" => /\ mem = Write(Clean, addr, Pattern(addr))
                            /\ save = Read(Clean, addr) /\ anchorSave = AnchorAt
  /\ probePc = "compare" => readback = Read(Write(Clean, addr, Pattern(addr)), addr)

\* Where nothing answers behind the end of the DRAM, the loop does not pass the
\* last region that is there.
ProbeExact ==
  beyond = "none" /\ size - Step >= Floor =>
    /\ probePc \in {"anchor", "write", "restore", "compare"} => addr >= size - Step
    /\ probePc = "release" => addr = size - Step
    /\ probePc = "done" => top = size

ProbeInv == ProbeTypes /\ ProbeBounds /\ ProbeMemory /\ ProbeExact

\* Two multiples of the step that differ are a step apart.
LEMMA StepApart ==
  \A x, y \in Int : x % Step = 0 /\ y % Step = 0 /\ x < y => x + Step <= y
<1> SUFFICES ASSUME NEW x \in Int, NEW y \in Int, x % Step = 0, y % Step = 0, x < y
             PROVE  x + Step <= y
  OBVIOUS
<1>1. Step \in Nat \ {0}
  BY ProbeAssumption
<1> DEFINE p == x \div Step
           q == y \div Step
<1>2. p \in Int /\ x = p * Step
  BY <1>1
<1>3. q \in Int /\ y = q * Step
  BY <1>1
<1> HIDE DEF p, q
<1>4. p < q
  BY <1>1, <1>2, <1>3
<1>5. p + 1 <= q
  BY <1>2, <1>3, <1>4
<1>6. (p + 1) * Step <= q * Step
  BY <1>1, <1>2, <1>3, <1>5
<1>7. QED
  BY <1>1, <1>2, <1>3, <1>6

LEMMA StepBack == \A x \in Int : x % Step = 0 => (x - Step) % Step = 0
<1> SUFFICES ASSUME NEW x \in Int, x % Step = 0 PROVE (x - Step) % Step = 0
  OBVIOUS
<1>1. Step \in Nat \ {0}
  BY ProbeAssumption
<1> DEFINE p == x \div Step
<1>2. p \in Int /\ x = p * Step
  BY <1>1
<1> HIDE DEF p
<1>3. x - Step = (p - 1) * Step
  BY <1>1, <1>2
<1>4. QED
  BY <1>1, <1>2, <1>3

\* A store followed by a store of what was there leaves memory as it was, also
\* through an alias; a board whose DRAM ends below addr reads ones.
LEMMA StoreBack ==
  ASSUME NEW n \in Nat \ {0}, size = n, NEW m \in [0 .. size - 1 -> Int], NEW a \in Nat, NEW v \in Int
  PROVE  /\ Write(Write(m, a, v), a, Read(m, a)) = m
         /\ a < size => Read(Write(m, a, v), a) = v
         /\ a >= size /\ beyond # "alias" => Read(Write(m, a, v), a) = Ones
<1>1. a % n \in 0 .. n - 1
  OBVIOUS
<1>2. a < n => a \in 0 .. n - 1
  OBVIOUS
<1>3. ASSUME NEW i \in 0 .. n - 1
      PROVE  [[m EXCEPT ![i] = v] EXCEPT ![i] = m[i]] = m /\ [m EXCEPT ![i] = v][i] = v
  OBVIOUS
<1>4. CASE a < n
  BY <1>2, <1>3, <1>4 DEF Write, Read
<1>5. CASE ~ (a < n) /\ beyond = "alias"
  BY <1>1, <1>3, <1>5 DEF Write, Read
<1>6. CASE ~ (a < n) /\ beyond # "alias"
  BY <1>6 DEF Write, Read
<1>7. QED
  BY <1>4, <1>5, <1>6

LEMMA CleanFacts ==
  ASSUME ProbeTypes
  PROVE  /\ size \in Nat \ {0} /\ AnchorAt \in 0 .. size - 1 /\ size % Step = 0 /\ size <= Top
         /\ Clean \in [0 .. size - 1 -> Int] /\ Whole \in [0 .. size - 1 -> Int]
         /\ Read(Whole, AnchorAt) = AnchorAt /\ Write(Whole, AnchorAt, Anchor) = Clean
         /\ Read(Clean, AnchorAt) = Anchor /\ Write(Clean, AnchorAt, AnchorAt) = Whole
<1>1. size \in Nat \ {0} /\ AnchorAt \in 0 .. size - 1 /\ size % Step = 0 /\ size <= Top
  BY ProbeAssumption DEF ProbeTypes
<1>2. Clean \in [0 .. size - 1 -> Int] /\ Whole \in [0 .. size - 1 -> Int]
  BY <1>1 DEF Clean, Whole, Anchor
<1>3. Read(Whole, AnchorAt) = AnchorAt /\ Write(Whole, AnchorAt, Anchor) = Clean
  BY <1>1 DEF Clean, Whole, Read, Write
<1>4. Read(Clean, AnchorAt) = Anchor /\ Write(Clean, AnchorAt, AnchorAt) = Whole
  BY <1>1 DEF Clean, Whole, Read, Write
<1>5. QED
  BY <1>1, <1>2, <1>3, <1>4

\* What the loop reads back at a candidate.
LEMMA Answers ==
  ASSUME ProbeTypes, addr >= Floor
  PROVE  /\ Write(Write(Clean, addr, Pattern(addr)), addr, Read(Clean, addr)) = Clean
         /\ addr < size => Read(Write(Clean, addr, Pattern(addr)), addr) = Pattern(addr)
         /\ addr >= size /\ beyond = "none" => Read(Write(Clean, addr, Pattern(addr)), addr) # Pattern(addr)
<1>1. addr \in Nat /\ Pattern(addr) \in Int /\ Pattern(addr) # Ones
  BY ProbeAssumption DEF ProbeTypes, Pattern, Ones
<1>2. size \in Nat \ {0} /\ Clean \in [0 .. size - 1 -> Int]
  BY CleanFacts
<1> DEFINE v == Pattern(addr)
<1> HIDE DEF v
<1>3. v \in Int /\ v # Ones /\ v = Pattern(addr)
  BY <1>1 DEF v
<1>4. /\ Write(Write(Clean, addr, v), addr, Read(Clean, addr)) = Clean
      /\ addr < size => Read(Write(Clean, addr, v), addr) = v
      /\ addr >= size /\ beyond # "alias" => Read(Write(Clean, addr, v), addr) = Ones
  BY <1>1, <1>2, <1>3, StoreBack
<1>5. QED
  BY <1>3, <1>4

LEMMA ProbeStarts == ProbeInit => ProbeInv
<1> SUFFICES ASSUME ProbeInit PROVE ProbeInv
  OBVIOUS
<1>1. Top - Step \in Int /\ (Top - Step) % Step = 0
  <2>1. Top \in Int /\ Step \in Int /\ Top % Step = 0
    BY ProbeAssumption
  <2>2. QED
    BY <2>1, StepBack
<1>2. ProbeTypes
  BY <1>1 DEF ProbeInit, ProbeTypes
<1>3. ProbeBounds
  BY ProbeAssumption DEF ProbeInit, ProbeBounds
<1>4. ProbeMemory
  BY DEF ProbeInit, ProbeMemory, Whole
<1>5. ProbeExact
  <2>1. size \in Nat /\ size <= Top /\ Top \in Nat /\ Step \in Nat
    BY <1>2, CleanFacts, ProbeAssumption
  <2>2. Top - Step >= size - Step
    BY <2>1
  <2>3. QED
    BY <2>2 DEF ProbeInit, ProbeExact
<1>6. QED
  BY <1>2, <1>3, <1>4, <1>5 DEF ProbeInv

LEMMA ProbeStays == ProbeInv /\ UNCHANGED probeVars => ProbeInv'
BY DEF ProbeInv, probeVars, ProbeTypes, ProbeBounds, ProbeMemory, ProbeExact, Whole, Clean, Read, Write, Pattern

LEMMA ProbeStep ==
  ASSUME ProbeInv, ProbeNext, Conservative \in Floor .. Top
  PROVE  ProbeInv'
<1> USE DEF ProbeInv
<1>1. size' = size /\ beyond' = beyond
  BY DEF ProbeNext, SetAnchor, WritePattern, Restore, Compare, RunOut, ReleaseAnchor
<1>2. Whole' = Whole /\ Clean' = Clean
  BY <1>1 DEF Whole, Clean
<1>3. Step \in Nat \ {0} /\ Floor \in Nat \ {0} /\ Top \in Nat /\ Step <= Floor
  BY ProbeAssumption
<1>4. /\ size \in Nat \ {0} /\ size % Step = 0 /\ size <= Top
      /\ Read(Whole, AnchorAt) = AnchorAt /\ Write(Whole, AnchorAt, Anchor) = Clean
      /\ Read(Clean, AnchorAt) = Anchor /\ Write(Clean, AnchorAt, AnchorAt) = Whole
  BY CleanFacts
<1>5. CASE SetAnchor
  <2>1. addr' = addr /\ top' = top
    BY <1>5 DEF SetAnchor
  <2>2. ProbeMemory'
    BY <1>2, <1>4, <1>5 DEF ProbeMemory, SetAnchor
  <2>3. QED
    BY <1>1, <1>5, <2>1, <2>2 DEF SetAnchor, ProbeTypes, ProbeBounds, ProbeExact
<1>6. CASE WritePattern
  <2>1. addr' = addr /\ top' = top
    BY <1>6 DEF WritePattern
  <2>2. ProbeMemory'
    <3>1. Write(Clean, addr, Pattern(addr))' = Write(Clean, addr, Pattern(addr))
      BY <1>1, <1>2, <2>1 DEF Write, Pattern
    <3>2. Read(Clean, addr)' = Read(Clean, addr)
      BY <1>1, <1>2, <2>1 DEF Read
    <3>3. QED
      BY <1>6, <2>1, <3>1, <3>2 DEF ProbeMemory, WritePattern
  <2>3. QED
    BY <1>1, <1>6, <2>1, <2>2 DEF WritePattern, ProbeTypes, ProbeBounds, ProbeExact
<1>7. CASE Restore
  <2>1. addr' = addr /\ top' = top /\ addr >= Floor
    BY <1>7 DEF Restore, ProbeBounds
  <2>2. ProbeMemory'
    <3>1. mem = Write(Clean, addr, Pattern(addr)) /\ save = Read(Clean, addr) /\ anchorSave = AnchorAt
      BY <1>7 DEF Restore, ProbeMemory
    <3>2. mem' = Clean
      BY <1>7, <2>1, <3>1, Answers DEF Restore
    <3>3. Read(Write(Clean, addr, Pattern(addr)), addr)' = Read(Write(Clean, addr, Pattern(addr)), addr)
      BY <1>1, <1>2, <2>1 DEF Write, Read, Pattern
    <3>4. QED
      BY <1>2, <1>7, <3>1, <3>2, <3>3 DEF ProbeMemory, Restore
  <2>3. QED
    BY <1>1, <1>7, <2>1, <2>2 DEF Restore, ProbeTypes, ProbeBounds, ProbeExact
<1>8. CASE Compare
  <2>1. /\ addr >= Floor /\ addr <= Top - Step /\ addr \in Int /\ addr % Step = 0
        /\ mem = Clean /\ anchorSave = AnchorAt
        /\ readback = Read(Write(Clean, addr, Pattern(addr)), addr)
    BY <1>8 DEF Compare, ProbeBounds, ProbeMemory, ProbeTypes
  <2>2. Read(mem, AnchorAt) = Anchor
    BY <1>4, <2>1
  <2>3. ProbeMemory'
    BY <1>2, <1>8, <2>1 DEF Compare, ProbeMemory
  <2>4. CASE readback = Pattern(addr)
    <3>1. top' = addr + Step /\ probePc' = "release" /\ addr' = addr
      BY <1>8, <2>2, <2>4 DEF Compare
    <3>2. ProbeExact'
      <4> SUFFICES ASSUME beyond = "none", size - Step >= Floor PROVE addr = size - Step
        BY <1>1, <3>1 DEF ProbeExact
      <4>1. addr >= size - Step
        BY <1>8 DEF Compare, ProbeExact
      <4>2. addr < size
        BY <1>4, <2>1, <2>4, Answers
      <4>3. addr + Step <= size
        BY <1>4, <2>1, <4>2, StepApart
      <4>4. QED
        BY <1>3, <1>4, <2>1, <4>1, <4>3
    <3>3. QED
      BY <1>1, <2>1, <2>3, <3>1, <3>2 DEF ProbeTypes, ProbeBounds
  <2>5. CASE readback # Pattern(addr)
    <3>1. top' = top /\ probePc' = "write" /\ addr' = addr - Step
      BY <1>8, <2>5 DEF Compare
    <3>2. (addr - Step) % Step = 0 /\ addr - Step \in Int
      BY <1>3, <2>1, StepBack
    <3>3. ProbeExact'
      <4> SUFFICES ASSUME beyond = "none", size - Step >= Floor PROVE addr - Step >= size - Step
        BY <1>1, <3>1 DEF ProbeExact
      <4>1. ~ (addr < size)
        BY <2>1, <2>5, Answers
      <4>2. QED
        BY <1>3, <1>4, <2>1, <4>1
    <3>4. QED
      BY <1>1, <1>3, <2>1, <2>3, <3>1, <3>2, <3>3 DEF ProbeTypes, ProbeBounds
  <2>6. QED
    BY <2>4, <2>5
<1>9. CASE RunOut
  <2>1. ProbeMemory'
    BY <1>2, <1>9 DEF RunOut, ProbeMemory
  <2>2. ProbeExact'
    <3>1. addr < Floor /\ probePc = "write" /\ addr \in Int
      BY <1>9 DEF RunOut, ProbeTypes
    <3>2. ~ (beyond = "none" /\ size - Step >= Floor)
      BY <1>3, <1>4, <3>1 DEF ProbeExact
    <3>3. QED
      BY <1>1, <3>2 DEF ProbeExact
  <2>3. QED
    BY <1>1, <1>3, <1>9, <2>1, <2>2 DEF RunOut, ProbeTypes, ProbeBounds
<1>10. CASE ReleaseAnchor
  <2>1. mem = Clean /\ anchorSave = AnchorAt
    BY <1>10 DEF ReleaseAnchor, ProbeMemory
  <2>2. ProbeMemory'
    BY <1>2, <1>4, <1>10, <2>1 DEF ReleaseAnchor, ProbeMemory
  <2>3. ProbeBounds'
    BY <1>3, <1>10, ProbeAssumption DEF ReleaseAnchor, ProbeBounds, ProbeTypes
  <2>4. ProbeExact'
    BY <1>1, <1>3, <1>4, <1>10 DEF ReleaseAnchor, ProbeExact, ProbeTypes, ProbeBounds
  <2>5. 0 % Step = 0
    BY <1>3
  <2>6. ProbeTypes'
    BY <1>1, <1>10, <2>5 DEF ReleaseAnchor, ProbeTypes
  <2>7. QED
    BY <2>2, <2>3, <2>4, <2>6
<1>11. QED
  BY <1>5, <1>6, <1>7, <1>8, <1>9, <1>10 DEF ProbeNext

-----------------------------------------------------------------------------
\* Sleeps.

\* How far the time base has come, as the loop sees it.
Gone == (tb - start) % W

SleepInv ==
  /\ sleepPc \in {"idle", "spin", "loop", "done"} /\ cal \in {"yes", "no"}
  /\ us \in Nat /\ elapsed \in Nat /\ tb \in 0 .. W - 1 /\ start \in 0 .. W - 1
  /\ sleepPc = "spin" => cal = "no"
  /\ sleepPc \in {"loop", "done"} /\ cal = "yes" => wait = WaitTicks(us)
  /\ Gone <= elapsed \/ elapsed >= MaxElapsed
  /\ sleepPc = "done" /\ cal = "yes" => Gone >= wait

\* The unsigned difference of two values of the time base.
LEMMA Difference ==
  \A x, y \in 0 .. W - 1 : (x - y) % W = IF y <= x THEN x - y ELSE x - y + W
<1> SUFFICES ASSUME NEW x \in 0 .. W - 1, NEW y \in 0 .. W - 1
             PROVE  (x - y) % W = IF y <= x THEN x - y ELSE x - y + W
  OBVIOUS
<1>1. W \in Nat \ {0}
  BY DelayAssumption
<1> DEFINE d == x - y
           q == d \div W
           r == d % W
<1>2. q \in Int /\ r \in 0 .. W - 1 /\ d = q * W + r
  BY <1>1
<1>3. d \in Int /\ -W < d /\ d < W
  BY <1>1
<1>4. q = 0 \/ q = -1
  <2> HIDE DEF d, q, r
  <2>1. q < 1
    BY <1>1, <1>2, <1>3
  <2>2. q > -2
    BY <1>1, <1>2, <1>3
  <2>3. QED
    BY <1>2, <2>1, <2>2
<1>5. r = d \/ r = d + W
  <2> HIDE DEF d, q, r
  <2> QED BY <1>1, <1>2, <1>3, <1>4
<1>6. QED
  <2> HIDE DEF q, r
  <2>1. r = IF y <= x THEN x - y ELSE x - y + W
    BY <1>1, <1>2, <1>5
  <2>2. QED
    BY <2>1 DEF r

\* A tick brings the difference up by one or back to 0.
LEMMA GoneTicks ==
  ASSUME NEW x \in 0 .. W - 1, NEW y \in 0 .. W - 1
  PROVE  (x + 1) % W \in 0 .. W - 1 /\ (((x + 1) % W) - y) % W <= ((x - y) % W) + 1
<1>1. W \in Nat \ {0}
  BY DelayAssumption
<1>2. CASE x + 1 < W
  <2>1. (x + 1) % W = x + 1 /\ x + 1 \in 0 .. W - 1
    BY <1>1, <1>2
  <2>2. ((x + 1) - y) % W = IF y <= x + 1 THEN x + 1 - y ELSE x + 1 - y + W
    BY <2>1, Difference
  <2>3. (x - y) % W = IF y <= x THEN x - y ELSE x - y + W
    BY Difference
  <2>4. QED
    BY <1>1, <2>1, <2>2, <2>3
<1>3. CASE x + 1 = W
  <2>1. W % W = 0 /\ 0 \in 0 .. W - 1
    BY <1>1
  <2>2. (0 - y) % W = IF y <= 0 THEN 0 - y ELSE 0 - y + W
    BY <2>1, Difference
  <2>3. (x - y) % W = IF y <= x THEN x - y ELSE x - y + W
    BY Difference
  <2>4. QED
    BY <1>1, <1>3, <2>1, <2>2, <2>3
<1>4. QED
  BY <1>1, <1>2, <1>3

\* Rounded up, the ticks cover what was asked for.
LEMMA RoundedUp ==
  ASSUME NEW x \in Nat, NEW d \in Nat \ {0}
  PROVE  (x + d - 1) \div d \in Nat /\ ((x + d - 1) \div d) * d >= x
<1> DEFINE y == x + d - 1
           q == y \div d
<1>1. y \in Nat
  OBVIOUS
<1>2. q * d >= x /\ q \in Int
  <2> HIDE DEF y
  <2> DEFINE r == y % d
  <2>1. q \in Int /\ r \in 0 .. d - 1 /\ y = q * d + r
    BY <1>1
  <2>2. y = x + d - 1
    BY DEF y
  <2> HIDE DEF q, r
  <2>3. QED
    BY <1>1, <2>1, <2>2
<1>3. q >= 0
  <2> HIDE DEF q
  <2> QED BY <1>2
<1>4. QED
  BY <1>2, <1>3

LEMMA SleepStarts == SleepInit => SleepInv
<1>1. W \in Nat \ {0} /\ 0 \in 0 .. W - 1
  BY DelayAssumption
<1>2. (0 - 0) % W = 0
  BY <1>1
<1>3. QED
  BY <1>1, <1>2 DEF SleepInit, SleepInv, Gone

LEMMA SleepStays == SleepInv /\ UNCHANGED sleepVars => SleepInv'
BY DEF SleepInv, sleepVars, Gone, WaitTicks

LEMMA SleepStep ==
  ASSUME SleepInv, (\E n \in Nat : Call(n)) \/ Spin \/ Poll \/ Tick \/ Return
  PROVE  SleepInv'
<1> USE DEF SleepInv
<1>1. W \in Nat \ {0} /\ 0 \in 0 .. W - 1 /\ MaxElapsed \in Nat
  BY DelayAssumption
<1>2. \A x \in 0 .. W - 1 : (x - x) % W = 0
  <2> SUFFICES ASSUME NEW x \in 0 .. W - 1 PROVE (x - x) % W = 0
    OBVIOUS
  <2>1. (x - x) % W = IF x <= x THEN x - x ELSE x - x + W
    BY Difference
  <2>2. QED
    BY <1>1, <2>1
<1>3. ASSUME NEW n \in Nat, Call(n) PROVE SleepInv'
  <2>1. tb' \in 0 .. W - 1 /\ start' = tb' /\ elapsed' = 0 /\ us' = n /\ cal' = cal
    BY <1>1, <1>3 DEF Call
  <2>2. Gone' = 0
    BY <1>2, <2>1 DEF Gone
  <2>3. sleepPc' = (IF cal = "yes" THEN "loop" ELSE "spin") /\ (cal = "yes" => wait' = WaitTicks(n))
    BY <1>3 DEF Call
  <2>4. wait' = WaitTicks(n) => wait' = WaitTicks(us)'
    BY <2>1 DEF WaitTicks
  <2>5. QED
    BY <2>1, <2>2, <2>3, <2>4
<1>4. CASE Spin
  BY <1>4 DEF Spin, Gone, WaitTicks
<1>5. CASE Poll
  BY <1>5 DEF Poll, Gone, WaitTicks, Reached
<1>6. CASE Tick
  <2>1. /\ tb' = (tb + 1) % W /\ start' = start /\ us' = us /\ cal' = cal /\ wait' = wait
        /\ sleepPc = "loop" /\ sleepPc' = "loop"
        /\ elapsed' = IF elapsed < MaxElapsed THEN elapsed + 1 ELSE elapsed
    BY <1>6 DEF Tick
  <2>2. tb' \in 0 .. W - 1 /\ Gone' <= Gone + 1
    BY <2>1, GoneTicks DEF Gone
  <2>3. Gone \in Int /\ Gone' \in Int
    BY <1>1, <2>1, <2>2 DEF Gone
  <2>4. Gone' <= elapsed' \/ elapsed' >= MaxElapsed
    BY <1>1, <2>1, <2>2, <2>3
  <2>5. WaitTicks(us)' = WaitTicks(us)
    BY <2>1 DEF WaitTicks
  <2>6. QED
    BY <1>1, <2>1, <2>2, <2>4, <2>5
<1>7. CASE Return
  <2>1. Gone' = 0
    BY <1>1, <1>2, <1>7 DEF Return, Gone
  <2>2. QED
    BY <1>1, <1>7, <2>1 DEF Return
<1>8. QED
  BY <1>3, <1>4, <1>5, <1>6, <1>7

LEMMA SleepLasts == SleepInv => SleptLongEnough
<1> SUFFICES ASSUME SleepInv, sleepPc = "done", cal = "yes", Fits(us) PROVE LongEnough
  BY DEF SleptLongEnough
<1> DEFINE x == us * TbPerMs
<1>1. /\ W \in Nat \ {0} /\ TbPerMs \in Nat /\ Milli \in Nat \ {0} /\ MaxElapsed \in Nat
      /\ W <= MaxElapsed * Milli
  BY DelayAssumption
<1>2. x \in Nat /\ us \in Nat /\ elapsed \in Nat /\ tb \in 0 .. W - 1 /\ start \in 0 .. W - 1
  BY <1>1 DEF SleepInv
<1>3. x + Milli - 1 < W /\ wait = ((x + Milli - 1) % W) \div Milli
  BY DEF Fits, SleepInv, WaitTicks
<1>4. Gone >= wait /\ (Gone <= elapsed \/ elapsed >= MaxElapsed)
  BY DEF SleepInv
<1>5. Gone \in Int
  BY <1>1, <1>2 DEF Gone
<1> HIDE DEF x
<1>6. (x + Milli - 1) % W = x + Milli - 1
  BY <1>1, <1>2, <1>3
<1>7. wait \in Nat /\ wait * Milli >= x
  BY <1>1, <1>2, <1>3, <1>6, RoundedUp
<1>8. CASE Gone <= elapsed
  <2>1. wait <= elapsed
    BY <1>2, <1>4, <1>5, <1>7, <1>8
  <2>2. wait * Milli <= elapsed * Milli
    BY <1>1, <1>2, <1>7, <2>1
  <2>3. elapsed * Milli >= x
    BY <1>1, <1>2, <1>7, <2>2
  <2>4. QED
    BY <2>3 DEF LongEnough, x
<1>9. CASE elapsed >= MaxElapsed
  <2>1. MaxElapsed * Milli <= elapsed * Milli
    BY <1>1, <1>2, <1>9
  <2>2. elapsed * Milli >= x
    BY <1>1, <1>2, <1>3, <2>1
  <2>3. QED
    BY <2>2 DEF LongEnough, x
<1>10. QED
  BY <1>4, <1>8, <1>9

-----------------------------------------------------------------------------
\* Claims.

\* The list l is well formed below lim, and what clients hold (ow), the pool and
\* what is free or shown as available (av) have no address in common.
Apart(l, ow, av, lim) ==
  /\ GoodList(l, lim)
  /\ \A o \in ow : o \in Blocks /\ o.size # 0 /\ o.addr + o.size <= lim
  /\ \A o \in ow : /\ Held(o) \cap Free(l) = {} /\ Held(o) \cap Pool = {}
                   /\ Held(o) \cap Free(av) = {}
  /\ \A o, q \in ow : o # q => Held(o) \cap Held(q) = {}
  /\ Pool \cap Free(l) = {}

\* A list that stands for fewer addresses, published or not.
LEMMA ApartFewer ==
  ASSUME NEW l, NEW ow, NEW av, NEW lim \in Nat, Apart(l, ow, av, lim),
         NEW k, GoodList(k, lim), Free(k) \subseteq Free(l),
         NEW ow2, ow2 \subseteq ow, NEW av2, av2 = av \/ av2 = k
  PROVE  Apart(k, ow2, av2, lim)
<1>1. Pool \cap Free(k) = {}
  BY DEF Apart
<1>2. ASSUME NEW o \in ow2
      PROVE  /\ Held(o) \cap Free(k) = {} /\ Held(o) \cap Pool = {}
             /\ Held(o) \cap Free(av2) = {}
  BY DEF Apart
<1>3. QED
  BY <1>1, <1>2 DEF Apart

\* All of a range is free: it ends below lim.
LEMMA FreeBelow ==
  ASSUME NEW l, NEW lim \in Nat, GoodList(l, lim), NEW a \in Nat, NEW s \in Nat \ {0},
         Cells(a, s) \subseteq Free(l)
  PROVE  a + s <= lim
<1>1. a + s - 1 \in Cells(a, s)
  BY DEF Cells
<1>2. l \in Seq(Blocks) /\ Len(l) \in Nat /\ WellFormed(l, lim)
  BY GoodFacts
<1>3. PICK j \in 1 .. Len(l) : a + s - 1 \in Cells(l[j].addr, l[j].size)
  BY <1>1, <1>2, FreeMember
<1>4. l[j].addr \in Nat /\ l[j].size \in Nat /\ l[j].addr + l[j].size <= lim
  BY <1>2 DEF WellFormed
<1>5. a + s - 1 < l[j].addr + l[j].size
  BY <1>3, <1>4, CellsMember
<1>6. QED
  BY <1>4, <1>5

\* A claim that was granted and published.
LEMMA ApartTaken ==
  ASSUME NEW l, NEW ow, NEW av, NEW lim \in Nat, Apart(l, ow, av, lim),
         NEW a \in Nat, NEW s \in Nat \ {0}, Cells(a, s) \subseteq Free(l),
         NEW k, GoodList(k, lim), Free(k) = Free(l) \ Cells(a, s)
  PROVE  Apart(k, ow \cup {Block(a, s)}, k, lim)
<1> DEFINE b == Block(a, s)
<1>1. b \in Blocks /\ b.addr = a /\ b.size = s /\ Held(b) = Cells(a, s)
  BY DEF Block, Blocks, Held
<1>2. a + s <= lim
  BY FreeBelow DEF Apart
<1> HIDE DEF b
<1>3. /\ Held(b) \cap Free(k) = {} /\ Held(b) \cap Pool = {}
  BY <1>1 DEF Apart
<1>4. ASSUME NEW o \in ow
      PROVE  /\ Held(o) \cap Free(k) = {} /\ Held(o) \cap Pool = {}
             /\ Held(o) \cap Held(b) = {}
  BY <1>1 DEF Apart
<1>5. Pool \cap Free(k) = {}
  BY DEF Apart
<1>6. Apart(k, ow \cup {b}, k, lim)
  <2>1. \A o \in ow \cup {b} : o \in Blocks /\ o.size # 0 /\ o.addr + o.size <= lim
    BY <1>1, <1>2 DEF Apart
  <2>2. \A o \in ow \cup {b} : Held(o) \cap Free(k) = {} /\ Held(o) \cap Pool = {}
    BY <1>3, <1>4
  <2>3. \A o, q \in ow \cup {b} : o # q => Held(o) \cap Held(q) = {}
    <3> SUFFICES ASSUME NEW o \in ow \cup {b}, NEW q \in ow \cup {b}, o # q
                 PROVE  Held(o) \cap Held(q) = {}
      OBVIOUS
    <3>1. CASE o \in ow /\ q \in ow
      BY <3>1 DEF Apart
    <3>2. CASE o \in ow /\ q = b
      BY <1>4, <3>2
    <3>3. CASE o = b /\ q \in ow
      BY <1>4, <3>3
    <3>4. QED
      BY <3>1, <3>2, <3>3
  <2>4. QED
    BY <1>5, <2>1, <2>2, <2>3 DEF Apart
<1>7. QED
  BY <1>6 DEF b

\* A release of what a client holds.
LEMMA ApartGiven ==
  ASSUME NEW l, NEW ow, NEW av, NEW lim \in Nat, Apart(l, ow, av, lim),
         NEW b \in ow, NEW k, GoodList(k, lim), Free(k) = Free(l) \cup Held(b),
         NEW av2, av2 = av \/ av2 = k
  PROVE  Apart(k, ow \ {b}, av2, lim)
<1>1. Pool \cap Free(k) = {}
  BY DEF Apart
<1>2. ASSUME NEW o \in ow \ {b}
      PROVE  /\ Held(o) \cap Free(k) = {} /\ Held(o) \cap Pool = {}
             /\ Held(o) \cap Free(av2) = {}
  <2>1. Held(o) \cap Held(b) = {} /\ Held(o) \cap Free(l) = {} /\ Held(o) \cap Pool = {}
        /\ Held(o) \cap Free(av) = {}
    BY DEF Apart
  <2>2. QED
    BY <2>1
<1>3. QED
  BY <1>1, <1>2 DEF Apart

LEMMA ClaimStep ==
  ASSUME NEW lim \in Nat, Apart(list, owned, available, lim),
         NEW r, NEW a \in Nat, NEW s \in Nat \ {0}, NEW al,
         FixedAnswer(r, list, a, s, lim), Claim(r, a, s, al)
  PROVE  /\ Apart(list', owned', available', lim)
         /\ \E ret : /\ reply' = Called("claim", a, s, al, ret)
                     /\ \/ /\ Cells(a, s) \subseteq Free(list)
                           /\ \/ ret \in {"ok", "nodesc"} /\ Free(list') = Free(list) \ Cells(a, s)
                              \/ ret = "nomem" /\ Free(list') = Free(list)
                        \/ ~ (Cells(a, s) \subseteq Free(list)) /\ ret = "out" /\ Free(list') = Free(list)
<1> DEFINE ret == Outcome(r.ret, r.list)
<1>1. list' = r.list /\ reply' = Called("claim", a, s, al, ret)
  BY DEF Claim
<1>2. reply'.ret = ret
  BY <1>1 DEF Called
<1>3. owned' = IF ret = "ok" THEN owned \cup {Block(a, s)} ELSE owned
  BY <1>2 DEF Claim
<1>4. IF Published(r.list) THEN available' = r.list ELSE available' = available
  BY DEF Claim, MakeAvailable
<1>5. GoodList(r.list, lim)
  BY DEF FixedAnswer
<1>6. CASE r.ret = "ok"
  <2>1. Cells(a, s) \subseteq Free(list) /\ Free(r.list) = Free(list) \ Cells(a, s)
    BY <1>6 DEF FixedAnswer
  <2>2. ret = IF Published(r.list) THEN "ok" ELSE "nodesc"
    BY <1>6 DEF Outcome
  <2>3. CASE Published(r.list)
    BY <1>1, <1>3, <1>4, <1>5, <2>1, <2>2, <2>3, ApartTaken
  <2>4. CASE ~Published(r.list)
    <3>1. owned' = owned /\ available' = available /\ Free(r.list) \subseteq Free(list)
      BY <1>3, <1>4, <2>1, <2>2, <2>4
    <3>2. Apart(r.list, owned, available, lim)
      BY <1>5, <3>1, ApartFewer
    <3>3. QED
      BY <1>1, <2>1, <2>2, <2>4, <3>1, <3>2
  <2>5. QED
    BY <2>3, <2>4
<1>7. CASE r.ret # "ok"
  <2>1. /\ r.list = list /\ ret = r.ret
        /\ \/ ret = "nomem" /\ Cells(a, s) \subseteq Free(list)
           \/ ret = "out" /\ ~ (Cells(a, s) \subseteq Free(list))
    BY <1>7 DEF FixedAnswer, Outcome
  <2>2. owned' = owned /\ (available' = available \/ available' = list)
    BY <1>3, <1>4, <2>1
  <2>3. Apart(list, owned, available', lim)
    BY <1>5, <2>1, <2>2, ApartFewer
  <2>4. QED
    BY <1>1, <2>1, <2>2, <2>3
<1>8. QED
  BY <1>6, <1>7

\* A claim that finds no aligned range.
LEMMA NoClaim ==
  ASSUME NEW lim \in Nat, Apart(list, owned, available, lim),
         NEW r, NEW a, NEW s, NEW al, r.ret = "out", r.list = list, Claim(r, a, s, al)
  PROVE  /\ Apart(list', owned', available', lim)
         /\ reply' = Called("claim", a, s, al, "out") /\ list' = list
<1>1. list' = list /\ reply' = Called("claim", a, s, al, "out")
  BY DEF Claim, Outcome
<1>2. reply'.ret = "out"
  BY <1>1 DEF Called
<1>3. owned' = owned
  BY <1>2 DEF Claim
<1>4. available' = available \/ available' = list
  BY DEF Claim, MakeAvailable
<1>5. GoodList(list, lim)
  BY DEF Apart
<1>6. Apart(list, owned, available', lim)
  BY <1>4, <1>5, ApartFewer
<1>7. QED
  BY <1>1, <1>3, <1>6

\* f_memory_release of a range a client holds.
LEMMA ReleaseStep ==
  ASSUME NEW lim \in Nat, lim < M, Apart(list, owned, available, lim),
         NEW o \in owned, NEW room \in BOOLEAN, MemoryRelease(o.addr, o.size, room)
  PROVE  /\ Apart(list', owned', available', lim)
         /\ \E ret : /\ reply' = Called("release", o.addr, o.size, 0, ret)
                     /\ Cells(o.addr, o.size) \cap Free(list) = {}
                     /\ \/ ret \in {"ok", "nodesc"} /\ Free(list') = Free(list) \cup Cells(o.addr, o.size)
                        \/ ret = "nomem" /\ Free(list') = Free(list)
<1> DEFINE r == FreeBlock(list, o.addr, o.size, room)
           ret == Outcome(r.ret, r.list)
<1>1. o \in Blocks /\ o.size # 0 /\ o.addr + o.size <= lim /\ GoodList(list, lim)
  BY DEF Apart
<1>2. o.addr \in Nat /\ o.size \in Nat \ {0} /\ Block(o.addr, o.size) = o
  BY <1>1 DEF Blocks, Block
<1>3. Held(o) \cap Free(list) = {} /\ Held(o) = Cells(o.addr, o.size)
  BY DEF Apart, Held
<1>4. FreeAnswer(r, list, o.addr, o.size, lim)
  BY <1>1, <1>2, FreeBlockAnswer
<1>5. list' = r.list /\ reply' = Called("release", o.addr, o.size, 0, ret)
  BY DEF MemoryRelease
<1>6. owned' = IF r.ret = "ok" THEN owned \ {o} ELSE owned
  BY <1>2 DEF MemoryRelease
<1>7. available' = available \/ available' = r.list
  BY DEF MemoryRelease, MakeAvailable
<1> HIDE DEF r
<1>8. GoodList(r.list, lim)
  BY <1>4 DEF FreeAnswer
<1>9. CASE r.ret = "ok"
  <2>1. Free(r.list) = Free(list) \cup Held(o)
    BY <1>3, <1>4, <1>9 DEF FreeAnswer
  <2>2. Apart(r.list, owned \ {o}, available', lim)
    BY <1>7, <1>8, <2>1, ApartGiven
  <2>3. ret \in {"ok", "nodesc"}
    BY <1>9 DEF Outcome
  <2>4. QED
    BY <1>3, <1>5, <1>6, <1>9, <2>1, <2>2, <2>3
<1>10. CASE r.ret # "ok"
  <2>1. r.ret = "nomem" /\ r.list = list
    BY <1>3, <1>4, <1>10 DEF FreeAnswer
  <2>2. ret = "nomem"
    BY <2>1 DEF Outcome
  <2>3. Apart(list, owned, available', lim)
    BY <1>1, <1>7, <2>1, ApartFewer
  <2>4. QED
    BY <1>3, <1>5, <1>6, <1>10, <2>1, <2>2, <2>3
<1>11. QED
  BY <1>9, <1>10

\* A second release of a range: free_block refuses it.
LEMMA ReleaseAgainStep ==
  ASSUME NEW lim \in Nat, lim < M, Apart(list, owned, available, lim),
         NEW a \in Nat, NEW s \in Nat \ {0}, a + s < M, Cells(a, s) \cap Free(list) # {},
         MemoryRelease(a, s, TRUE)
  PROVE  /\ Apart(list', owned', available', lim) /\ list' = list
         /\ reply' = Called("release", a, s, 0, "bad")
<1> DEFINE r == FreeBlock(list, a, s, TRUE)
           high == IF a + s <= lim THEN lim ELSE a + s
<1>1. GoodList(list, lim)
  BY DEF Apart
<1>2. high \in Nat /\ lim <= high /\ a + s <= high /\ high < M
  OBVIOUS
<1> HIDE DEF high
<1>3. GoodList(list, high)
  <2>1. \A k \in 1 .. Len(list) : /\ list[k].addr \in Nat /\ list[k].size \in Nat \ {0}
                                  /\ list[k].addr + list[k].size <= lim
    BY <1>1 DEF GoodList, WellFormed
  <2>2. \A k \in 1 .. Len(list) : list[k].addr + list[k].size <= high
    BY <1>2, <2>1
  <2>3. QED
    BY <1>1, <2>1, <2>2 DEF GoodList, WellFormed
<1>4. FreeAnswer(r, list, a, s, high)
  BY <1>2, <1>3, FreeBlockAnswer
<1>5. /\ list' = r.list /\ reply' = Called("release", a, s, 0, Outcome(r.ret, r.list))
      /\ owned' = IF r.ret = "ok" THEN owned \ {Block(a, s)} ELSE owned
      /\ available' = available \/ available' = r.list
  BY DEF MemoryRelease, MakeAvailable
<1> HIDE DEF r
<1>6. r.ret = "bad" /\ r.list = list
  BY <1>4 DEF FreeAnswer
<1>7. Outcome(r.ret, r.list) = "bad" /\ owned' = owned
  BY <1>5, <1>6 DEF Outcome
<1>8. Apart(list, owned, available', lim)
  BY <1>1, <1>5, <1>6, ApartFewer
<1>9. QED
  BY <1>5, <1>6, <1>7, <1>8

\* The client interface's release.
LEMMA ClientReleaseStep ==
  ASSUME NEW lim \in Nat, Apart(list, owned, available, lim), NEW o \in owned, ClientRelease(o)
  PROVE  /\ Apart(list', owned', available', lim) /\ list' = list
         /\ \E ret : reply' = Called("client-release", o.addr, o.size, 0, ret)
<1>1. list' = list /\ available' = available /\ owned' = owned \ {o}
  BY DEF ClientRelease
<1>2. Apart(list, owned \ {o}, available, lim)
  <2>1. GoodList(list, lim)
    BY DEF Apart
  <2>2. QED
    BY <2>1, ApartFewer
<1>3. QED
  BY <1>1, <1>2 DEF ClientRelease

\* A fixed claim whose end wraps, if it is refused: the answer is right.
LEMMA WrapRefused ==
  ASSUME NEW l, NEW lim \in Nat, lim < M, GoodList(l, lim), NEW room \in BOOLEAN,
         NEW a \in Nat, NEW s \in Nat \ {0}, a + s >= M, AllocFixed(l, a, s, room).ret = "out"
  PROVE  FixedAnswer(AllocFixed(l, a, s, room), l, a, s, lim)
<1>1. M \in Nat
  BY MAssumption
<1>2. ~ (Cells(a, s) \subseteq Free(l))
  BY <1>1, FreeBelow
<1>3. AllocFixed(l, a, s, room).list = l
  BY DEF AllocFixed, TakeFront, TakeInside, Result
<1>4. QED
  BY <1>2, <1>3 DEF FixedAnswer

\* A claim of no bytes changes no block.
LEMMA ZeroFixed ==
  ASSUME NEW l, NEW lim \in Nat, lim < M, GoodList(l, lim), NEW room \in BOOLEAN, NEW a \in Nat
  PROVE  /\ AllocFixed(l, a, 0, room).list = l
         /\ AllocFixed(l, a, 0, room).ret \in {"ok", "out", "bad"}
<1> DEFINE k == At(l, a)
<1>1. l \in Seq(Blocks) /\ WellFormed(l, lim) /\ Len(l) \in Nat /\ M \in Nat
  BY GoodFacts, MAssumption
<1>2. /\ k \in 1 .. Len(l) + 1
      /\ k <= Len(l) => a <= l[k].addr
      /\ \A j \in 1 .. k - 1 : l[j].addr < a
  BY <1>1, AtProperties
<1>3. AllocFixed(l, a, 0, room) =
        IF a # 0 THEN Result("bad", l)
        ELSE IF k <= Len(l) /\ l[k].addr = a THEN TakeFront(l, k, 0)
        ELSE IF k = 1 THEN Result("out", l)
        ELSE TakeInside(l, k - 1, a, 0, room)
  BY DEF AllocFixed
<1> HIDE DEF k
<1>4. CASE a # 0
  BY <1>3, <1>4 DEF Result
<1>5. CASE a = 0 /\ k <= Len(l) /\ l[k].addr = a
  <2>1. k \in 1 .. Len(l) /\ l[k] \in Blocks
    BY <1>1, <1>2, <1>5
  <2>2. l[k].addr \in Nat /\ l[k].size \in Nat \ {0} /\ l[k].addr + l[k].size <= lim
    BY <1>1, <2>1 DEF WellFormed
  <2>3. (l[k].addr + 0) % M = l[k].addr /\ (l[k].size - 0) % M = l[k].size
    <3>1. l[k].addr + 0 = l[k].addr /\ l[k].size - 0 = l[k].size /\ l[k].addr < M /\ l[k].size < M
      BY <1>1, <2>2
    <3>2. QED
      BY <2>2, <3>1, NotReduced
  <2>4. Block(l[k].addr, l[k].size) = l[k]
    BY <2>1 DEF Blocks, Block
  <2>5. TakeFront(l, k, 0) = Result("ok", ReplaceAt(l, k, l[k]))
    BY <2>2, <2>3, <2>4 DEF TakeFront
  <2>6. ReplaceAt(l, k, l[k]) = l
    BY <1>1, <2>1 DEF ReplaceAt
  <2>7. QED
    BY <1>3, <1>5, <2>5, <2>6 DEF Result
<1>6. CASE a = 0 /\ ~ (k <= Len(l) /\ l[k].addr = a)
  <2>1. k = 1
    <3> SUFFICES ASSUME k # 1 PROVE FALSE
      OBVIOUS
    <3>1. 1 \in 1 .. k - 1 /\ 1 \in 1 .. Len(l)
      BY <1>1, <1>2
    <3>2. l[1].addr \in Nat
      BY <1>1, <3>1 DEF WellFormed
    <3>3. QED
      BY <1>2, <1>6, <3>1, <3>2
  <2>2. QED
    BY <1>3, <1>6, <2>1 DEF Result
<1>7. QED
  BY <1>4, <1>5, <1>6

LEMMA ZeroAligned ==
  ASSUME NEW l, NEW lim \in Nat, GoodList(l, lim), NEW room \in BOOLEAN, NEW al
  PROVE  AllocAligned(l, al, 0, room) = [ret |-> "out", list |-> l, base |-> 0]
<1>1. \A k \in 1 .. Len(l) : l[k].size # 0
  BY DEF GoodList, WellFormed
<1>2. \A k \in 1 .. Len(l) : ~Usable(l[k], al, 0)
  BY <1>1 DEF Usable
<1>3. {k \in 1 .. Len(l) : Usable(l[k], al, 0)} = {}
  BY <1>2
<1>4. QED
  BY <1>3 DEF AllocAligned

\* A claim of no bytes, as the service sees it.
LEMMA ClaimNothingStep ==
  ASSUME NEW lim \in Nat, Apart(list, owned, available, lim),
         NEW r, NEW a, NEW al, r.list = list, Claim(r, a, 0, al)
  PROVE  Apart(list', owned', available', lim) /\ Service!Next
<1>1. /\ list' = list /\ owned' = owned /\ reply'.op = "claim" /\ reply'.size = 0
      /\ available' = available \/ available' = list
  BY DEF Claim, MakeAvailable, Called
<1>2. GoodList(list, lim)
  BY DEF Apart
<1>3. Apart(list, owned, available', lim)
  BY <1>1, <1>2, ApartFewer
<1>4. Service!ClaimNothing
  BY <1>1 DEF Service!ClaimNothing
<1>5. QED
  BY <1>1, <1>3, <1>4 DEF Service!Next

\* Every call of a client is answered, and no wrapped claim is forgotten.
LEMMA MemoryReplies ==
  ASSUME MemoryNext, wraps \in Nat
  PROVE  reply'.op # "none" /\ wraps' \in Nat /\ (NoneWrapped' => NoneWrapped)
<1>1. ASSUME NEW r, NEW a, NEW s, NEW al, Claim(r, a, s, al)
      PROVE  reply'.op # "none" /\ wraps' \in Nat /\ (NoneWrapped' => NoneWrapped)
  BY <1>1 DEF Claim, Called, NoneWrapped
<1>2. ASSUME NEW a, NEW s, NEW room, MemoryRelease(a, s, room)
      PROVE  reply'.op # "none" /\ wraps' \in Nat /\ (NoneWrapped' => NoneWrapped)
  BY <1>2 DEF MemoryRelease, Called, NoneWrapped
<1>3. ASSUME NEW o, ClientRelease(o)
      PROVE  reply'.op # "none" /\ wraps' \in Nat /\ (NoneWrapped' => NoneWrapped)
  BY <1>3 DEF ClientRelease, Called, NoneWrapped
<1>4. QED
  BY <1>1, <1>2, <1>3 DEF MemoryNext, ClaimFixed, ClaimAligned

\* A call of a client, as the service sees it, as long as no claim that wraps is
\* granted.
LEMMA MemoryStep ==
  ASSUME NEW lim \in Nat, lim < M, Apart(list, owned, available, lim), MemoryNext,
         wraps \in Nat, NoneWrapped'
  PROVE  Apart(list', owned', available', lim) /\ Service!Next
<1>1. ASSUME NEW room \in BOOLEAN, NEW s \in ClaimSizes, NEW a \in ClaimAddrs, ClaimFixed(a, s, room)
      PROVE  Apart(list', owned', available', lim) /\ Service!Next
  <2> DEFINE r == AllocFixed(list, a, s, room)
  <2>0. a \in Nat /\ s \in Nat /\ M \in Nat
    BY MemoryAssumption, MAssumption
  <2>2. GoodList(list, lim)
    BY DEF Apart
  <2>4. Claim(r, a, s, 0)
    BY <1>1 DEF ClaimFixed
  <2>10. CASE s = 0
    <3>1. r.list = list
      BY <2>0, <2>2, <2>10, ZeroFixed
    <3>2. Claim(r, a, 0, 0)
      BY <2>4, <2>10
    <3> HIDE DEF r
    <3>3. QED
      BY <3>1, <3>2, ClaimNothingStep
  <2> SUFFICES ASSUME s # 0
               PROVE  Apart(list', owned', available', lim) /\ Service!Next
    BY <2>10
  <2>1. a \in Nat /\ s \in Nat \ {0}
    BY <2>0
  <2>3. FixedAnswer(r, list, a, s, lim)
    <3>1. CASE a + s < M
      BY <2>1, <2>2, <3>1, AllocFixedAnswer
    <3>2. CASE a + s >= M
      <4>1. r.ret = "out"
        BY <2>4, <3>2 DEF Claim, NoneWrapped
      <4>2. QED
        BY <2>1, <2>2, <3>2, <4>1, WrapRefused
    <3>3. QED
      BY <2>0, <3>1, <3>2
  <2> HIDE DEF r
  <2>5. PICK ret : /\ Apart(list', owned', available', lim)
                   /\ reply' = Called("claim", a, s, 0, ret)
                   /\ \/ /\ Cells(a, s) \subseteq Free(list)
                         /\ \/ ret \in {"ok", "nodesc"} /\ Free(list') = Free(list) \ Cells(a, s)
                            \/ ret = "nomem" /\ Free(list') = Free(list)
                      \/ ~ (Cells(a, s) \subseteq Free(list)) /\ ret = "out" /\ Free(list') = Free(list)
    BY <2>1, <2>3, <2>4, ClaimStep
  <2>6. /\ reply'.op = "claim" /\ reply'.align = 0 /\ reply'.addr = a /\ reply'.size = s
        /\ reply'.ret = ret
    BY <2>5 DEF Called
  <2>7. Service!Range(reply'.addr, reply'.size) = Cells(a, s)
    BY <2>6 DEF Service!Range, Cells
  <2>8. Service!ClaimFixed
    BY <2>5, <2>6, <2>7 DEF Service!ClaimFixed, Service!Grant
  <2>9. QED
    BY <2>5, <2>6, <2>8 DEF Service!Next
<1>2. ASSUME NEW room \in BOOLEAN, NEW s \in ClaimSizes, NEW al \in Aligns, ClaimAligned(al, s, room)
      PROVE  Apart(list', owned', available', lim) /\ Service!Next
  <2> DEFINE r == AllocAligned(list, al, s, room)
             B == AlignedBases(list, al, s)
  <2>0. al \in Nat \ {0} /\ s \in Nat
    BY MemoryAssumption, MAssumption
  <2>2. GoodList(list, lim)
    BY DEF Apart
  <2>10. CASE s = 0
    <3>1. r.list = list
      BY <2>2, <2>10, ZeroAligned
    <3>2. Claim(r, r.base, 0, al)
      BY <1>2, <2>10 DEF ClaimAligned
    <3> HIDE DEF r
    <3>3. QED
      BY <3>1, <3>2, ClaimNothingStep
  <2> SUFFICES ASSUME s # 0
               PROVE  Apart(list', owned', available', lim) /\ Service!Next
    BY <2>10
  <2>1. al \in Nat \ {0} /\ s \in Nat \ {0}
    BY <2>0
  <2>3. AlignedAnswer(r, list, al, s, lim)
    BY <2>1, <2>2, AllocAlignedAnswer
  <2>4. Claim(r, r.base, s, al)
    BY <1>2 DEF ClaimAligned
  <2>5. Service!Bases(al, s) = B
    BY DEF Service!Bases, AlignedBases, Service!Range, Cells
  <2> HIDE DEF r
  <2>6. CASE r.ret = "out" /\ B = {} /\ r.list = list
    <3>1. Apart(list', owned', available', lim) /\ reply' = Called("claim", r.base, s, al, "out") /\ list' = list
      BY <2>4, <2>6, NoClaim
    <3>2. /\ reply'.op = "claim" /\ reply'.align = al /\ reply'.size = s /\ reply'.ret = "out"
      BY <3>1 DEF Called
    <3>3. Service!ClaimAligned
      BY <2>1, <2>5, <2>6, <3>1, <3>2 DEF Service!ClaimAligned
    <3>4. QED
      BY <3>1, <3>2, <3>3 DEF Service!Next
  <2>7. CASE /\ r.base \in B /\ (\A x \in B : r.base <= x)
             /\ FixedAnswer(r, list, r.base, s, lim)
    <3> DEFINE a == r.base
    <3>1. Cells(a, s) \subseteq Free(list) /\ a \in Free(list)
      BY <2>7 DEF AlignedBases
    <3>2. a \in Nat
      <4>1. list \in Seq(Blocks) /\ WellFormed(list, lim)
        BY <2>2 DEF GoodList
      <4>2. PICK j \in 1 .. Len(list) : a \in Cells(list[j].addr, list[j].size)
        BY <3>1, <4>1, FreeMember
      <4>3. list[j].addr \in Nat /\ list[j].size \in Nat
        BY <4>1 DEF WellFormed
      <4>4. QED
        BY <4>2, <4>3, CellsMember
    <3> HIDE DEF B
    <3>3. PICK ret : /\ Apart(list', owned', available', lim)
                     /\ reply' = Called("claim", a, s, al, ret)
                     /\ \/ /\ Cells(a, s) \subseteq Free(list)
                           /\ \/ ret \in {"ok", "nodesc"} /\ Free(list') = Free(list) \ Cells(a, s)
                              \/ ret = "nomem" /\ Free(list') = Free(list)
                        \/ ~ (Cells(a, s) \subseteq Free(list)) /\ ret = "out" /\ Free(list') = Free(list)
      BY <2>1, <2>4, <2>7, <3>2, ClaimStep
    <3>4. /\ reply'.op = "claim" /\ reply'.align = al /\ reply'.addr = a /\ reply'.size = s
          /\ reply'.ret = ret
      BY <3>3 DEF Called
    <3>5. Service!Range(a, s) = Cells(a, s)
      BY DEF Service!Range, Cells
    <3>6. Service!Grant(Cells(a, s))
      BY <3>1, <3>3, <3>4 DEF Service!Grant
    <3>7. Service!ClaimAligned
      BY <2>1, <2>5, <2>7, <3>4, <3>5, <3>6 DEF Service!ClaimAligned
    <3>8. QED
      BY <3>3, <3>4, <3>7 DEF Service!Next
  <2>8. QED
    BY <2>3, <2>6, <2>7 DEF AlignedAnswer
<1>3. ASSUME NEW room \in BOOLEAN, NEW o \in owned, MemoryRelease(o.addr, o.size, room)
      PROVE  Apart(list', owned', available', lim) /\ Service!Next
  <2> DEFINE a == o.addr
             s == o.size
  <2>1. PICK ret : /\ Apart(list', owned', available', lim)
                   /\ reply' = Called("release", a, s, 0, ret)
                   /\ Cells(a, s) \cap Free(list) = {}
                   /\ \/ ret \in {"ok", "nodesc"} /\ Free(list') = Free(list) \cup Cells(a, s)
                      \/ ret = "nomem" /\ Free(list') = Free(list)
    BY <1>3, ReleaseStep
  <2>2. reply'.op = "release" /\ reply'.addr = a /\ reply'.size = s /\ reply'.ret = ret
    BY <2>1 DEF Called
  <2>3. Service!Range(reply'.addr, reply'.size) = Cells(a, s)
    BY <2>2 DEF Service!Range, Cells
  <2>4. Service!Release
    BY <2>1, <2>2, <2>3 DEF Service!Release
  <2>5. QED
    BY <2>1, <2>2, <2>4 DEF Service!Next
<1>4. ASSUME NEW a \in ClaimAddrs, NEW s \in ClaimSizes, a + s < M, Cells(a, s) \cap Free(list) # {},
             MemoryRelease(a, s, TRUE)
      PROVE  Apart(list', owned', available', lim) /\ Service!Next
  <2>0. a \in Nat /\ s \in Nat /\ s # 0
    BY <1>4, MemoryAssumption, MAssumption DEF Cells
  <2>1. a \in Nat /\ s \in Nat \ {0} /\ a + s < M
    BY <1>4, <2>0
  <2>2. /\ Apart(list', owned', available', lim) /\ list' = list
        /\ reply' = Called("release", a, s, 0, "bad")
    BY <1>4, <2>1, ReleaseAgainStep
  <2>3. reply'.op = "release" /\ reply'.addr = a /\ reply'.size = s /\ reply'.ret = "bad"
    BY <2>2 DEF Called
  <2>4. Service!Range(reply'.addr, reply'.size) = Cells(a, s)
    BY <2>3 DEF Service!Range, Cells
  <2>5. Service!Release
    BY <1>4, <2>2, <2>3, <2>4 DEF Service!Release
  <2>6. QED
    BY <2>2, <2>3, <2>5 DEF Service!Next
<1>5. ASSUME NEW o \in owned, ClientRelease(o)
      PROVE  Apart(list', owned', available', lim) /\ Service!Next
  <2>1. /\ Apart(list', owned', available', lim) /\ list' = list
        /\ \E ret : reply' = Called("client-release", o.addr, o.size, 0, ret)
    BY <1>5, ClientReleaseStep
  <2>2. reply'.op = "client-release"
    BY <2>1 DEF Called
  <2>3. Service!ClientRelease
    BY <2>1, <2>2 DEF Service!ClientRelease
  <2>4. QED
    BY <2>1, <2>2, <2>3 DEF Service!Next
<1>6. QED
  BY <1>1, <1>2, <1>3, <1>4, <1>5 DEF MemoryNext

LEMMA EmptyList == \A lim \in Nat : GoodList(<<>>, lim) /\ Free(<<>>) = {}
BY DEF GoodList, WellFormed, Free, Blocks

\* install_memory.
LEMMA InstallStep ==
  ASSUME NEW lim \in Floor .. Top, list = <<>>, owned = {}, reply.op = "none", InstallMemory(lim)
  PROVE  /\ Apart(list', owned', available', lim)
         /\ Service!Install
         /\ reply'.op # "none"
<1> DEFINE whole == FreeBlock(<<>>, Base, lim - Base, TRUE)
           rest == AllocFixed(whole.list, PoolBase, PoolSize, TRUE)
<1>1. /\ Base \in Nat /\ PoolBase \in Nat /\ PoolSize \in Nat \ {0} /\ Base < PoolBase
      /\ Floor = PoolBase + PoolSize /\ Top < M /\ Top \in Nat
  BY MemoryAssumption, StartupAssumption, ProbeAssumption
<1>2. lim \in Nat /\ lim < M /\ lim - Base \in Nat \ {0} /\ Base + (lim - Base) <= lim
      /\ PoolBase + PoolSize < M
  BY <1>1, MAssumption
<1>3. GoodList(<<>>, lim) /\ Free(<<>>) = {}
  BY <1>2, EmptyList
<1>4. FreeAnswer(whole, <<>>, Base, lim - Base, lim)
  BY <1>1, <1>2, <1>3, FreeBlockAnswer
<1>5. /\ rest.ret = "ok" /\ list' = rest.list /\ available' = rest.list /\ owned' = {}
      /\ reply' = [op |-> "installed"]
  BY DEF InstallMemory
<1> HIDE DEF whole
<1>6. GoodList(whole.list, lim)
  BY <1>4 DEF FreeAnswer
<1>7. FixedAnswer(rest, whole.list, PoolBase, PoolSize, lim)
  BY <1>1, <1>2, <1>6, AllocFixedAnswer
<1> HIDE DEF rest
<1>8. Pool \subseteq Free(whole.list) /\ Free(rest.list) = Free(whole.list) \ Pool /\ GoodList(rest.list, lim)
  BY <1>5, <1>7 DEF FixedAnswer, Pool
<1>9. PoolBase \in Pool /\ Base \notin Pool /\ Base \in Cells(Base, lim - Base)
  BY <1>1, <1>2 DEF Pool, Cells
<1>10. Free(whole.list) = Cells(Base, lim - Base)
  BY <1>3, <1>4, <1>8, <1>9 DEF FreeAnswer
<1>11. Base \in Free(rest.list)
  BY <1>8, <1>9, <1>10
<1>12. Apart(rest.list, {}, rest.list, lim)
  BY <1>8 DEF Apart
<1>13. Service!Install
  BY <1>3, <1>5, <1>11 DEF Service!Install
<1>14. QED
  BY <1>5, <1>12, <1>13

-----------------------------------------------------------------------------
\* The countdown.

\* The countdown has slept as long as it has counted, and sleeps in steps.
Counted == slept >= (asked - timeout) * TbPerMs \/ slept >= asked * TbPerMs

CountInv ==
  /\ stage \in {"probe", "drivers", "countdown", "booting", "prompt", "os"}
  /\ timeout \in Int /\ asked \in Int /\ slept \in Nat
  /\ stage \in {"probe", "drivers"} => timeout = 0 /\ asked = 0 /\ slept = 0
  /\ stage \notin {"drivers", "countdown"} => sleepPc = "idle"
  /\ stage = "countdown" => /\ asked * TbPerMs <= MaxSlept
                            /\ sleepPc # "idle" => us = StepMs * Milli /\ timeout >= 0
                            /\ cal = "yes" => Counted
  /\ stage = "booting" /\ cal = "yes" /\ timeout < 0 => slept >= asked * TbPerMs

\* The memory is handed over when the probe is done.
MemoryInv ==
  /\ wraps \in Nat
  /\ stage = "probe" => /\ list = <<>> /\ owned = {} /\ available = <<>>
                        /\ reply = [op |-> "none"]
  /\ stage # "probe" => /\ probePc = "done" /\ reply.op # "none"
                        /\ NoneWrapped => Apart(list, owned, available, top)

StartupInv == ProbeInv /\ SleepInv /\ CountInv /\ MemoryInv

LEMMA InvStarts == Init => StartupInv
<1> SUFFICES ASSUME Init PROVE StartupInv
  OBVIOUS
<1>1. ProbeInv
  BY ProbeStarts DEF Init
<1>2. SleepInv
  BY SleepStarts DEF Init
<1>3. CountInv
  BY DEF Init, CountInv, SleepInit
<1>4. MemoryInv
  BY DEF Init, MemoryInv, MemoryInit
<1>5. QED
  BY <1>1, <1>2, <1>3, <1>4 DEF StartupInv

LEMMA ProbeInvNext == StartupInv /\ [Next]_vars => ProbeInv'
<1> SUFFICES ASSUME StartupInv, [Next]_vars PROVE ProbeInv'
  OBVIOUS
<1>1. CASE Probe
  BY <1>1, ProbeStep, StartupAssumption DEF Probe, StartupInv
<1>2. CASE ~Probe
  <2>1. UNCHANGED probeVars
    BY <1>2 DEF Next, vars, Install, DriverSleep, Sleeping, DriverWakes, EnterMain, CountdownSleep,
                CountdownWakes, CountdownOver, BootCommand, UserBoots, OsCalls
  <2>2. QED
    BY <2>1, ProbeStays DEF StartupInv
<1>3. QED
  BY <1>1, <1>2

LEMMA SleepInvNext == StartupInv /\ [Next]_vars => SleepInv'
<1> SUFFICES ASSUME StartupInv, [Next]_vars PROVE SleepInv'
  OBVIOUS
<1> DEFINE Moves == (\E n \in Nat : Call(n)) \/ Spin \/ Poll \/ Tick \/ Return
<1>1. Sleeps \subseteq Nat /\ StepMs * Milli \in Nat
  BY DelayAssumption, StartupAssumption
<1>2. CASE DriverSleep \/ Sleeping \/ DriverWakes \/ CountdownSleep \/ CountdownWakes
  <2>1. Moves
    BY <1>1, <1>2 DEF DriverSleep, Sleeping, DriverWakes, CountdownSleep, CountdownWakes
  <2>2. QED
    BY <2>1, SleepStep DEF StartupInv
<1>3. CASE ~ (DriverSleep \/ Sleeping \/ DriverWakes \/ CountdownSleep \/ CountdownWakes)
  <2>1. UNCHANGED sleepVars
    BY <1>3 DEF Next, vars, Probe, Install, EnterMain, CountdownOver, BootCommand, UserBoots, OsCalls
  <2>2. QED
    BY <2>1, SleepStays DEF StartupInv
<1>4. QED
  BY <1>2, <1>3

\* A step leaves the reply and the set of free addresses, or is one the service
\* allows.
LEMMA MemoryInvNext ==
  StartupInv /\ [Next]_vars => MemoryInv' /\ [NoneWrapped' => Service!Next]_<<Free(list), reply>>
<1> SUFFICES ASSUME StartupInv, [Next]_vars
             PROVE  MemoryInv' /\ [NoneWrapped' => Service!Next]_<<Free(list), reply>>
  OBVIOUS
<1>0. wraps \in Nat
  BY DEF StartupInv, MemoryInv
<1>1. Top \in Nat /\ Top < M /\ Floor \in Nat /\ M \in Nat
  BY ProbeAssumption, StartupAssumption, MAssumption
<1>2. probePc = "done" => top \in Floor .. Top
  BY DEF StartupInv, ProbeInv, ProbeBounds
<1>3. CASE Probe
  <2>1. stage = "probe" /\ stage' = stage /\ UNCHANGED memoryVars
    BY <1>3 DEF Probe, mainVars
  <2>2. QED
    BY <2>1 DEF StartupInv, MemoryInv, memoryVars, NoneWrapped
<1>4. CASE Install
  <2>1. probePc = "done" /\ InstallMemory(top) /\ probePc' = probePc /\ top' = top /\ stage' = "drivers"
        /\ stage = "probe"
    BY <1>4 DEF Install, probeVars
  <2>2. list = <<>> /\ owned = {} /\ reply.op = "none"
    BY <2>1 DEF StartupInv, MemoryInv
  <2>3. PICK lim \in Floor .. Top : lim = top
    BY <1>2, <2>1
  <2>4. Apart(list', owned', available', lim) /\ Service!Install /\ reply'.op # "none"
    BY <2>1, <2>2, <2>3, InstallStep
  <2>5. wraps' = wraps
    BY <2>1 DEF InstallMemory
  <2>6. QED
    BY <1>0, <2>1, <2>3, <2>4, <2>5 DEF MemoryInv, Service!Next
<1>5. CASE OsCalls
  <2>1. stage = "os" /\ stage' = stage /\ MemoryNext /\ probePc' = probePc /\ top' = top
    BY <1>5 DEF OsCalls, probeVars, mainVars
  <2>2. probePc = "done" /\ (NoneWrapped => Apart(list, owned, available, top))
    BY <2>1 DEF StartupInv, MemoryInv
  <2>3. PICK lim \in Floor .. Top : lim = top
    BY <1>2, <2>2
  <2>4. lim \in Nat /\ lim < M
    BY <1>1
  <2>5. reply'.op # "none" /\ wraps' \in Nat /\ (NoneWrapped' => NoneWrapped)
    BY <1>0, <2>1, MemoryReplies
  <2>6. ASSUME NoneWrapped' PROVE Apart(list', owned', available', lim) /\ Service!Next
    <3>1. Apart(list, owned, available, lim)
      BY <2>2, <2>3, <2>5, <2>6
    <3>2. QED
      BY <1>0, <2>1, <2>4, <2>6, <3>1, MemoryStep
  <2>7. QED
    BY <2>1, <2>2, <2>3, <2>5, <2>6 DEF MemoryInv
<1>6. CASE ~ (Probe \/ Install \/ OsCalls)
  <2>1. UNCHANGED <<memoryVars, probeVars>>
    BY <1>6 DEF Next, vars, DriverSleep, Sleeping, DriverWakes, EnterMain, CountdownSleep,
                CountdownWakes, CountdownOver, BootCommand, UserBoots
  <2>2. (stage = "probe") <=> (stage' = "probe")
    BY <1>6 DEF Next, vars, DriverSleep, Sleeping, DriverWakes, EnterMain, CountdownSleep,
                CountdownWakes, CountdownOver, BootCommand, UserBoots, mainVars
  <2>3. list' = list /\ owned' = owned /\ available' = available /\ reply' = reply
        /\ wraps' = wraps /\ top' = top /\ probePc' = probePc
    BY <2>1 DEF memoryVars, probeVars
  <2>4. QED
    BY <2>2, <2>3 DEF StartupInv, MemoryInv, NoneWrapped
<1>7. QED
  BY <1>3, <1>4, <1>5, <1>6

\* One turn of the countdown: the sleep lasted at least the step it counts.
LEMMA TurnLasts ==
  ASSUME SleepInv, sleepPc = "done", cal = "yes", us = StepMs * Milli
  PROVE  elapsed \in Nat /\ elapsed >= StepMs * TbPerMs
<1>1. Fits(us)
  BY StartupAssumption
<1>2. elapsed * Milli >= us * TbPerMs
  BY <1>1, SleepLasts DEF SleptLongEnough, LongEnough
<1>3. elapsed \in Nat /\ Milli \in Nat \ {0} /\ TbPerMs \in Nat /\ StepMs \in Nat
  BY DelayAssumption, StartupAssumption DEF SleepInv
<1>4. us * TbPerMs = (StepMs * TbPerMs) * Milli /\ StepMs * TbPerMs \in Nat
  BY <1>3
<1> DEFINE y == StepMs * TbPerMs
<1> HIDE DEF y
<1>5. y \in Nat /\ elapsed * Milli >= y * Milli
  BY <1>2, <1>4 DEF y
<1>6. elapsed >= y
  BY <1>3, <1>5
<1>7. QED
  BY <1>3, <1>6 DEF y

LEMMA TurnCounts ==
  ASSUME NEW s0 \in Nat, NEW e \in Nat, NEW x \in Int, NEW t \in Int, NEW n \in Nat, NEW f \in Nat,
         NEW max \in Nat, x * f <= max, e >= n * f,
         s0 >= (x - t) * f \/ s0 >= x * f,
         NEW s1, s1 = IF s0 + e <= max THEN s0 + e ELSE max
  PROVE  s1 >= (x - (t - n)) * f \/ s1 >= x * f
<1>1. (x - (t - n)) * f = (x - t) * f + n * f
  OBVIOUS
<1>2. (x - t) * f \in Int /\ n * f \in Nat /\ x * f \in Int
  OBVIOUS
<1>3. CASE s0 + e > max
  BY <1>2, <1>3
<1>4. CASE s0 + e <= max
  <2>1. s1 = s0 + e
    BY <1>4
  <2>2. CASE s0 >= (x - t) * f
    BY <1>1, <1>2, <2>1, <2>2
  <2>3. CASE s0 >= x * f
    BY <1>2, <2>1, <2>3
  <2>4. QED
    BY <2>2, <2>3
<1>5. QED
  BY <1>3, <1>4

LEMMA NothingCounted == \A x \in Int : (x - x) * TbPerMs = 0
BY DelayAssumption

LEMMA CountInvNext == StartupInv /\ [Next]_vars => CountInv'
<1> SUFFICES ASSUME StartupInv, [Next]_vars PROVE CountInv'
  OBVIOUS
<1> USE DEF StartupInv, CountInv
<1>1. /\ TbPerMs \in Nat \ {0} /\ StepMs \in Nat \ {0} /\ MaxSlept \in Nat /\ Milli \in Nat \ {0}
      /\ DefaultTimeout \in Nat \ {0} /\ Timeouts \subseteq Int
      /\ \A t \in Timeouts \cup {DefaultTimeout} : t * TbPerMs <= MaxSlept
  BY DelayAssumption, StartupAssumption
<1>2. CASE Probe \/ Install \/ OsCalls
  BY <1>2 DEF Probe, Install, OsCalls, mainVars, sleepVars, Counted
<1>3. CASE DriverSleep
  BY <1>3 DEF DriverSleep, Call, mainVars, Counted
<1>4. CASE Sleeping
  <2>1. stage' = stage /\ timeout' = timeout /\ asked' = asked /\ slept' = slept
        /\ us' = us /\ cal' = cal /\ sleepPc # "idle"
    BY <1>4 DEF Sleeping, mainVars, Spin, Poll, Tick
  <2>2. QED
    BY <2>1 DEF Counted
<1>5. CASE DriverWakes
  BY <1>5 DEF DriverWakes, Return, mainVars, Counted
<1>6. CASE EnterMain
  <2>1. slept' = slept /\ slept = 0 /\ sleepPc' = sleepPc /\ sleepPc = "idle" /\ cal' = cal /\ us' = us
        /\ timeout = 0 /\ asked = 0
    BY <1>6 DEF EnterMain, sleepVars
  <2>2. CASE stage' = "prompt" /\ UNCHANGED <<timeout, asked>>
    BY <2>1, <2>2
  <2>3. CASE \E t \in Timeouts : /\ timeout' = IF t <= 0 THEN DefaultTimeout ELSE t
                                 /\ asked' = timeout'
                                 /\ stage' = "countdown"
    <3>1. asked' \in Timeouts \cup {DefaultTimeout} /\ asked' = timeout' /\ stage' = "countdown"
      BY <2>3
    <3>2. asked' * TbPerMs <= MaxSlept /\ timeout' \in Int
      <4>1. \A t \in Timeouts \cup {DefaultTimeout} : t \in Int /\ t * TbPerMs <= MaxSlept
        BY <1>1
      <4>2. QED
        BY <3>1, <4>1, Zenon
    <3>3. (asked' - timeout') * TbPerMs = 0
      <4>1. (timeout' - timeout') * TbPerMs = 0
        BY <3>2, NothingCounted, Zenon
      <4>2. QED
        BY <3>1, <4>1, Zenon
    <3>4. Counted'
      BY <2>1, <3>3 DEF Counted
    <3>5. QED
      BY <2>1, <3>1, <3>2, <3>4
  <2>4. QED
    BY <1>6, <2>2, <2>3 DEF EnterMain
<1>7. CASE CountdownSleep
  <2>1. stage = "countdown" /\ stage' = stage /\ timeout' = timeout /\ asked' = asked /\ slept' = slept
        /\ us' = StepMs * Milli /\ cal' = cal /\ timeout >= 0
    BY <1>7 DEF CountdownSleep, mainVars, Call
  <2>2. QED
    BY <2>1 DEF Counted
<1>8. CASE CountdownWakes
  <2>1. /\ stage = "countdown" /\ sleepPc = "done" /\ sleepPc' = "idle" /\ cal' = cal /\ asked' = asked
        /\ slept' = IF slept + elapsed <= MaxSlept THEN slept + elapsed ELSE MaxSlept
        /\ us = StepMs * Milli /\ timeout >= 0 /\ asked * TbPerMs <= MaxSlept
        /\ \/ stage' \in {"booting", "prompt"} /\ timeout' = timeout
           \/ timeout' = timeout - StepMs /\ stage' = stage
    BY <1>8 DEF CountdownWakes, Return
  <2>2. elapsed \in Nat /\ slept' \in Nat
    BY <1>1, <2>1 DEF SleepInv
  <2>3. CASE timeout' = timeout /\ stage' \in {"booting", "prompt"}
    BY <2>1, <2>2, <2>3
  <2>4. CASE timeout' = timeout - StepMs /\ stage' = stage
    <3>1. cal = "yes" => Counted'
      <4> SUFFICES ASSUME cal = "yes"
                   PROVE  slept' >= (asked - (timeout - StepMs)) * TbPerMs \/ slept' >= asked * TbPerMs
        BY <2>1, <2>4 DEF Counted
      <4>1. elapsed >= StepMs * TbPerMs
        BY <2>1, TurnLasts
      <4>2. slept >= (asked - timeout) * TbPerMs \/ slept >= asked * TbPerMs
        BY <2>1 DEF Counted
      <4>3. QED
        BY <1>1, <2>1, <2>2, <4>1, <4>2, TurnCounts
    <3>2. timeout' \in Int
      BY <1>1, <2>4
    <3>3. QED
      BY <2>1, <2>2, <2>4, <3>1, <3>2
  <2>5. QED
    BY <2>1, <2>3, <2>4
<1>9. CASE CountdownOver
  <2>1. /\ stage = "countdown" /\ timeout < 0 /\ stage' = "booting" /\ sleepPc = "idle" /\ sleepPc' = "idle"
        /\ timeout' = timeout /\ asked' = asked /\ slept' = slept /\ cal' = cal
    BY <1>9 DEF CountdownOver, sleepVars
  <2>2. (asked - timeout) * TbPerMs >= asked * TbPerMs
    BY <1>1, <2>1
  <2>3. cal = "yes" => slept >= asked * TbPerMs
    <3>1. (asked - timeout) * TbPerMs \in Int /\ asked * TbPerMs \in Int
      BY <1>1
    <3>2. QED
      BY <2>1, <2>2, <3>1 DEF Counted
  <2>4. QED
    BY <2>1, <2>3
<1>10. CASE BootCommand \/ UserBoots
  BY <1>10 DEF BootCommand, UserBoots, sleepVars
<1>11. CASE UNCHANGED vars
  BY <1>11 DEF vars, mainVars, sleepVars, Counted
<1>12. QED
  BY <1>2, <1>3, <1>4, <1>5, <1>6, <1>7, <1>8, <1>9, <1>10, <1>11 DEF Next

LEMMA Invariance == Spec => []StartupInv
<1>1. StartupInv /\ [Next]_vars => StartupInv'
  BY ProbeInvNext, SleepInvNext, MemoryInvNext, CountInvNext DEF StartupInv
<1>2. QED
  BY <1>1, InvStarts, PTL DEF Spec

-----------------------------------------------------------------------------
\* The probe finds exactly the DRAM there is, for every board the property
\* speaks of.
THEOREM TopIsExactHolds == Spec => []TopIsExact
<1>1. StartupInv => TopIsExact
  BY DEF StartupInv, ProbeInv, ProbeExact, TopIsExact
<1>2. QED
  BY <1>1, Invariance, PTL

\* The probe leaves the memory of every board as it was.
THEOREM MemoryRestoredHolds == Spec => []MemoryRestored
<1>1. StartupInv => MemoryRestored
  BY DEF StartupInv, ProbeInv, ProbeMemory, MemoryRestored, Whole
<1>2. QED
  BY <1>1, Invariance, PTL

\* Every sleep whose product fits lasts at least as long as was asked for.
THEOREM SleptLongEnoughHolds == Spec => []SleptLongEnough
<1>1. StartupInv => SleptLongEnough
  BY SleepLasts DEF StartupInv
<1>2. QED
  BY <1>1, Invariance, PTL

\* Auto-boot waits for its timeout.
THEOREM CountdownLastsHolds == Spec => []CountdownLasts
<1>1. StartupInv => CountdownLasts
  BY DEF StartupInv, CountInv, CountdownLasts
<1>2. QED
  BY <1>1, Invariance, PTL

\* What clients hold, the pool and the free list are apart, for lists and claims
\* of any length, until alloc_fixed grants a claim whose end wraps.
THEOREM ClaimsDisjointHolds == Spec => []ClaimsDisjoint
<1>1. StartupInv => ClaimsDisjoint
  <2> SUFFICES ASSUME StartupInv PROVE ClaimsDisjoint
    OBVIOUS
  <2>1. CASE stage = "probe"
    <3>1. list = <<>> /\ owned = {}
      BY <2>1 DEF StartupInv, MemoryInv
    <3>2. Free(list) = {}
      BY <3>1, EmptyList
    <3>3. QED
      BY <3>1, <3>2 DEF ClaimsDisjoint, Disjoint
  <2>2. CASE stage # "probe"
    BY <2>2 DEF StartupInv, MemoryInv, Apart, ClaimsDisjoint, Disjoint
  <2>3. QED
    BY <2>1, <2>2
<1>2. QED
  BY <1>1, Invariance, PTL

\* What is shown as available is held by no client, until a claim whose end wraps
\* is granted.
THEOREM AvailableNotHeldHolds == Spec => []AvailableNotHeld
<1>1. StartupInv => AvailableNotHeld
  BY DEF StartupInv, MemoryInv, Apart, AvailableNotHeld
<1>2. QED
  BY <1>1, Invariance, PTL

\* Every claim has DRAM behind it, until one whose end wraps is granted.
THEOREM ClaimsHaveDramHolds == Spec => []ClaimsHaveDram
<1>1. StartupInv => ClaimsHaveDram
  <2> SUFFICES ASSUME StartupInv, NoneWrapped, beyond = "none", size - Step >= Floor, NEW o \in owned
               PROVE  Held(o) \subseteq 0 .. size - 1
    BY DEF ClaimsHaveDram
  <2>1. stage # "probe"
    BY DEF StartupInv, MemoryInv
  <2>2. top = size /\ o \in Blocks /\ o.addr + o.size <= top
    BY <2>1 DEF StartupInv, MemoryInv, Apart, ProbeInv, ProbeExact
  <2>3. size \in Nat
    BY ProbeAssumption DEF StartupInv, ProbeInv, ProbeTypes
  <2>4. QED
    BY <2>2, <2>3 DEF Blocks, Held, Cells
<1>2. QED
  BY <1>1, Invariance, PTL

\* alloc.c serves claims and releases as if it kept a set of addresses: up to
\* the first claim that is granted although its end wraps, every step of Startup
\* is one of MemoryService, free being what the list stands for.  Refused claims
\* that wrap and claims of no bytes are among these steps.
THEOREM ServesMemoryHolds == Spec => ServesMemory
<1>1. Init => Service!Init
  <2> SUFFICES ASSUME Init PROVE Service!Init
    OBVIOUS
  <2>1. list = <<>> /\ reply = [op |-> "none"]
    BY DEF Init, MemoryInit
  <2>2. Free(list) = {}
    BY <2>1, EmptyList
  <2>3. QED
    BY <2>1, <2>2 DEF Service!Init
<1>2. StartupInv /\ [Next]_vars => [NoneWrapped' => Service!Next]_<<Free(list), reply>>
  BY MemoryInvNext
<1>3. QED
  BY <1>1, <1>2, Invariance, PTL DEF Spec, ServesMemory

=============================================================================

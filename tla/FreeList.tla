------------------------------ MODULE FreeList ------------------------------
(***************************************************************************)
(* The general allocator of alloc.c, with one cell for addresses and one   *)
(* for sizes: a list of free blocks in ascending order of address.  A size *)
(* of 0 stands for the whole address space, as the head of alloc.c says.   *)
(* Each operator returns the list after the call and the return code; mem  *)
(* says whether malloc has room for another block.                         *)
(***************************************************************************)
EXTENDS Integers, Sequences, SequencesExt

CONSTANT M   \* 2^32, where addresses and sizes wrap

ASSUME MAssumption == M \in Nat \ {0, 1}

Block(a, s) == [addr |-> a, size |-> s]

Result(r, l) == [ret |-> r, list |-> l]

\* The walk every operation starts with: the first block at or above a.
At(l, a) == CHOOSE k \in 1 .. Len(l) + 1 :
              /\ k <= Len(l) => a <= l[k].addr
              /\ \A j \in 1 .. k - 1 : l[j].addr < a

\* Where a block ends, in the arithmetic of add and addcmp.
End(b) == (b.addr + b.size) % M

\* Mutant of TakeFront: the block is cut but its start not moved up.
TakeFrontStays(l, k, s) ==
  LET b == l[k]
  IN IF b.size # 0 /\ b.size < s THEN Result("out", l)
     ELSE IF b.size = s THEN Result("ok", RemoveAt(l, k))
     ELSE Result("ok", ReplaceAt(l, k, Block(b.addr, (b.size - s) % M)))

\* alloc_fixed where addr is the start of block k.
TakeFront(l, k, s) ==
  LET b == l[k]
  IN IF b.size # 0 /\ b.size < s THEN Result("out", l)
     ELSE IF b.size = s THEN Result("ok", RemoveAt(l, k))
     ELSE Result("ok", ReplaceAt(l, k, Block((b.addr + s) % M, (b.size - s) % M)))

\* alloc_fixed where addr is in or after block k: the tail behind the claim
\* becomes a block of its own.
TakeInside(l, k, a, s, mem) ==
  LET p == l[k]
      f == (a + s) % M
      tail == (End(p) - f) % M
  IN IF p.size # 0 /\ End(p) < f THEN Result("out", l)
     ELSE IF End(p) = f THEN Result("ok", ReplaceAt(l, k, Block(p.addr, (p.size - s) % M)))
     ELSE IF ~mem THEN Result("nomem", l)
     ELSE Result("ok", InsertAt(ReplaceAt(l, k, Block(p.addr, (p.size - s - tail) % M)),
                                k + 1, Block(f, tail)))

\* alloc_fixed
AllocFixed(l, a, s, mem) ==
  LET k == At(l, a)
  IN IF s = 0 /\ a # 0 THEN Result("bad", l)
     ELSE IF k <= Len(l) /\ l[k].addr = a THEN TakeFront(l, k, s)
     ELSE IF k = 1 THEN Result("out", l)
     ELSE TakeInside(l, k - 1, a, s, mem)

\* How far the start of block b is below the next multiple of align, a power
\* of two.
Off(b, align) == (- b.addr) % align

\* What alloc_constrained asks of a block for a claim of s bytes, once its
\* start has been moved up to the alignment.
Usable(b, align, s) ==
  LET off == Off(b, align)
      whole == b.size = 0 /\ off = 0
  IN /\ off > 0 => b.size = 0 \/ off < b.size
     /\ s = 0 => whole
     /\ whole \/ (b.size - off) % M >= s

\* alloc_aligned, that is alloc_constrained without bounds and mask: first fit.
\* The base is the address the caller finds in addr[].
AllocAligned(l, align, s, mem) ==
  LET fit == {k \in 1 .. Len(l) : Usable(l[k], align, s)}
      k == CHOOSE i \in fit : \A j \in fit : i <= j
      base == (l[k].addr + Off(l[k], align)) % M
  IN IF fit = {} THEN [ret |-> "out", list |-> l, base |-> 0]
     ELSE [ret |-> AllocFixed(l, base, s, mem).ret,
           list |-> AllocFixed(l, base, s, mem).list, base |-> base]

\* Mutant of FreeBlock: a block is never joined to the one behind it.
FreeBlockApart(l, a, s, mem) ==
  LET k == At(l, a)
      below == k > 1
      above == k <= Len(l)
      e == (a + s) % M
  IN IF (below /\ End(l[k - 1]) > a) \/ (above /\ e > l[k].addr) THEN Result("bad", l)
     ELSE IF below /\ End(l[k - 1]) = a
          THEN Result("ok", ReplaceAt(l, k - 1, Block(l[k - 1].addr, (l[k - 1].size + s) % M)))
     ELSE IF ~mem THEN Result("nomem", l)
     ELSE Result("ok", InsertAt(l, k, Block(a, s)))

\* free_block: the range is joined to the free blocks it touches.
FreeBlock(l, a, s, mem) ==
  LET k == At(l, a)
      below == k > 1
      above == k <= Len(l)
      e == (a + s) % M
      joinsBelow == below /\ End(l[k - 1]) = a
      joinsAbove == above /\ e = l[k].addr
  IN IF (below /\ End(l[k - 1]) > a) \/ (above /\ e > l[k].addr) THEN Result("bad", l)
     ELSE IF joinsBelow /\ joinsAbove
          THEN Result("ok", RemoveAt(ReplaceAt(l, k - 1,
                 Block(l[k - 1].addr, (l[k - 1].size + s + l[k].size) % M)), k))
     ELSE IF joinsBelow
          THEN Result("ok", ReplaceAt(l, k - 1, Block(l[k - 1].addr, (l[k - 1].size + s) % M)))
     ELSE IF joinsAbove
          THEN Result("ok", ReplaceAt(l, k, Block(a, (l[k].size + s) % M)))
     ELSE IF ~mem THEN Result("nomem", l)
     ELSE Result("ok", InsertAt(l, k, Block(a, s)))

-----------------------------------------------------------------------------
\* The addresses of a range and those the blocks of a list stand for.
Cells(a, s) == a .. a + s - 1

Free(l) == UNION {Cells(l[k].addr, l[k].size) : k \in 1 .. Len(l)}

\* What the operators above keep of a list whose blocks lie below lim, an
\* address: no two blocks overlap or touch, in ascending order.
WellFormed(l, lim) ==
  /\ \A k \in 1 .. Len(l) : /\ l[k].addr \in Nat /\ l[k].size \in Nat \ {0}
                            /\ l[k].addr + l[k].size <= lim
  /\ \A i, j \in 1 .. Len(l) : i < j => l[i].addr + l[i].size < l[j].addr

=============================================================================

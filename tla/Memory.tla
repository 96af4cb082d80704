------------------------------- MODULE Memory -------------------------------
(***************************************************************************)
(* The /memory package (memory.c) and the claim and release services of    *)
(* the client interface that end in it or beside it (rtc_word.c, client.c, *)
(* cpu-ppc.c).  Each call changes the free list and publishes it again as  *)
(* the "available" property, in Forth memory that is never given back.     *)
(***************************************************************************)
EXTENDS FreeList, FiniteSets

CONSTANTS Base,        \* PEGASOS2_MEM_REPORT_BASE
          PoolBase,    \* PEGASOS2_MEM_POOL_BASE
          PoolSize,    \* MALLOC_POOL
          ForthPairs,  \* room left in Forth memory, in pairs of Ints
          MaxFree,     \* MAX_FREE, the slots of the list of cpu-ppc.c
          ClaimAddrs,  \* addresses a client asks for
          ClaimSizes,  \* sizes it asks for
          Aligns,      \* alignments it asks for
          MaxClaims,   \* bound on the ranges held at a time
          MaxWraps     \* bound: calls are followed until so many claims have wrapped

ASSUME MemoryAssumption ==
  /\ Base \in Nat /\ PoolBase \in Nat /\ PoolSize \in Nat \ {0} /\ Base < PoolBase
  /\ ForthPairs \in Nat /\ MaxFree \in Nat /\ MaxClaims \in Nat /\ MaxWraps \in Nat
  /\ ClaimAddrs \subseteq 0 .. M - 1 /\ ClaimSizes \subseteq 0 .. M - 1
  /\ Aligns \subseteq Nat \ {0}

\* alloc_constrained makes a mask of the alignment.
ASSUME AlignAssumption == \A al \in Aligns : \E n \in 0 .. al : al = 2 ^ n

VARIABLES list,       \* g_memory_allocator->list
          available,  \* the property "available" of /memory
          forth,      \* pairs of Ints left before MEM_SIZE is used up
          slots,      \* used slots of g_free_list of cpu-ppc.c
          owned,      \* ghost: what clients hold, from a claim that succeeded
          wraps,      \* ghost: claims granted although their end wraps at 2^32
          reply       \* ghost: the last call and its return code

memoryVars == <<list, available, forth, slots, owned, wraps, reply>>

MemoryInit ==
  /\ list = <<>> /\ available = <<>>
  /\ forth = ForthPairs
  /\ slots = 0
  /\ owned = {} /\ wraps = 0
  /\ reply = [op |-> "none"]

Called(op, a, s, al, r) == [op |-> op, addr |-> a, size |-> s, align |-> al, ret |-> r]

\* make_available for the list l: falloc refuses to fill Forth memory up.
Published(l) == Len(l) + 1 < forth

MakeAvailable(l) ==
  IF Published(l) THEN available' = l /\ forth' = forth - (Len(l) + 1)
                  ELSE UNCHANGED <<available, forth>>

\* Mutant of Outcome: the error of make_available is dropped.
OutcomeOfList(r, l) == r

\* ret != NO_ERROR ? ret : ret2
Outcome(r, l) == IF r = "ok" /\ ~Published(l) THEN "nodesc" ELSE r

\* Mutant of InstallMemory: the top of memory is taken for its size.
InstallMemoryTooLong(top) ==
  LET whole == FreeBlock(<<>>, Base, top, TRUE).list
      rest == AllocFixed(whole, PoolBase, PoolSize, TRUE)
      used == Len(whole) + Len(rest.list) + 2
  IN /\ reply.op = "none"
     /\ rest.ret = "ok"
     /\ used < forth
     /\ list' = rest.list /\ available' = rest.list
     /\ forth' = forth - used
     /\ reply' = [op |-> "installed"]
     /\ UNCHANGED <<slots, owned, wraps>>

\* install_memory: the reported memory becomes one free block, and the malloc
\* pool is claimed out of it at its own address.
InstallMemory(top) ==
  LET whole == FreeBlock(<<>>, Base, top - Base, TRUE).list
      rest == AllocFixed(whole, PoolBase, PoolSize, TRUE)
      used == Len(whole) + Len(rest.list) + 2
  IN /\ reply.op = "none"
     /\ rest.ret = "ok"
     /\ used < forth
     /\ list' = rest.list /\ available' = rest.list
     /\ forth' = forth - used
     /\ reply' = [op |-> "installed"]
     /\ UNCHANGED <<slots, owned, wraps>>

\* f_memory_claim, as f_pegasos2_claim and /memory's method reach it; r is what
\* the allocator made of it.
Claim(r, a, s, al) ==
  /\ list' = r.list
  /\ MakeAvailable(r.list)
  /\ reply' = Called("claim", a, s, al, Outcome(r.ret, r.list))
  /\ owned' = IF reply'.ret = "ok" /\ s # 0 THEN owned \cup {Block(a, s)} ELSE owned
  /\ wraps' = IF a + s >= M /\ r.ret # "out" THEN wraps + 1 ELSE wraps
  /\ UNCHANGED slots

ClaimFixed(a, s, mem) == Claim(AllocFixed(list, a, s, mem), a, s, 0)

ClaimAligned(al, s, mem) ==
  LET r == AllocAligned(list, al, s, mem)
  IN Claim(r, r.base, s, al)

\* f_memory_release
MemoryRelease(a, s, mem) ==
  LET r == FreeBlock(list, a, s, mem)
  IN /\ list' = r.list
     /\ MakeAvailable(r.list)
     /\ reply' = Called("release", a, s, 0, Outcome(r.ret, r.list))
     /\ owned' = IF r.ret = "ok" THEN owned \ {Block(a, s)} ELSE owned
     /\ UNCHANGED <<slots, wraps>>

\* f_client_release and f_mmu_release: the range goes into a slot of the MMU's
\* list, whose property is published too; /memory is not called.
ClientRelease(o) ==
  /\ \/ /\ slots >= MaxFree
        /\ reply' = Called("client-release", o.addr, o.size, 0, "nomem")
        /\ UNCHANGED <<slots, forth>>
     \/ /\ slots < MaxFree
        /\ slots' = slots + 1
        /\ forth' = IF slots' < forth THEN forth - slots' ELSE 1
        /\ reply' = Called("client-release", o.addr, o.size, 0,
                           IF slots' < forth THEN "ok" ELSE "nodesc")
  /\ owned' = owned \ {o}
  /\ UNCHANGED <<list, available, wraps>>

\* A client asks for what it likes, no bytes and a range beyond the top of the
\* address space included, gives back what it holds, and may give a range back
\* twice.
MemoryNext ==
  /\ wraps < MaxWraps
  /\ \/ \E mem \in BOOLEAN, s \in ClaimSizes :
          /\ Cardinality(owned) < MaxClaims
          /\ \/ \E a \in ClaimAddrs : ClaimFixed(a, s, mem)
             \/ \E al \in Aligns : ClaimAligned(al, s, mem)
     \/ \E mem \in BOOLEAN, o \in owned : MemoryRelease(o.addr, o.size, mem)
     \/ \E a \in ClaimAddrs, s \in ClaimSizes :
          a + s < M /\ Cells(a, s) \cap Free(list) # {} /\ MemoryRelease(a, s, TRUE)
     \/ \E o \in owned : ClientRelease(o)

-----------------------------------------------------------------------------
Pool == Cells(PoolBase, PoolSize)

Held(o) == Cells(o.addr, o.size)

\* Every fixed claim whose end wraps has been refused so far.  alloc_fixed does
\* not see to it: it compares sums without their carry (alloc.c:463).
NoneWrapped == wraps = 0

\* No two clients hold the same address, none holds one of the malloc pool,
\* and nothing anybody holds is free.
Disjoint ==
  /\ \A o \in owned : Held(o) \cap (Free(list) \cup Pool) = {}
  /\ \A o, q \in owned : o # q => Held(o) \cap Held(q) = {}
  /\ Pool \cap Free(list) = {}

\* As long as no claim was granted whose end wraps at 2^32, no address has two
\* owners: every split, shrink and join of the list keeps what it does not give
\* away (alloc_fixed, free_block).
ClaimsDisjoint == NoneWrapped => Disjoint

\* The "available" property an OS reads never shows memory a client holds, also
\* once Forth memory is used up and it can no longer be brought up to date: the
\* claim it could not record is reported as failed (f_memory_claim's ret2).  As
\* long as no claim was granted whose end wraps.
AvailableNotHeld == NoneWrapped => \A o \in owned : Held(o) \cap Free(available) = {}

\* The free list as the set of addresses it stands for: the allocator of
\* alloc.c serves claims and releases as if it kept that set, up to the first
\* claim it grants although its end wraps.
Service == INSTANCE MemoryService WITH free <- Free(list)

ServesMemory == Service!Init /\ [][NoneWrapped' => Service!Next]_<<Free(list), reply>>

-----------------------------------------------------------------------------
\* What the documentation says and the code does not do; see README.md.

\* docs/05-of-runtime.md: "`claim` and `release` words manage physical memory
\* ranges": what a client releases can be claimed again.
ReleaseReturnsMemory ==
  reply.op = "client-release" /\ reply.ret = "ok" => Cells(reply.addr, reply.size) \subseteq Free(list)

\* alloc.c:468, "block ends after end of p": a range that does not end inside
\* its block is refused, so that no memory ever has two owners.
DisjointAlways == Disjoint

\* A claim that failed has taken nothing.
FailedClaimTakesNothing ==
  [][reply'.op = "claim" /\ reply'.ret # "ok" => list' = list]_memoryVars

=============================================================================

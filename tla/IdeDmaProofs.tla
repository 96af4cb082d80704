---------------------------- MODULE IdeDmaProofs ----------------------------
(***************************************************************************)
(* read-blocks is correct for every request size, every PRD reach and any  *)
(* behaviour of the disk, provided the disk keeps BSY set while it moves   *)
(* DMA data: TypeOK, ReadCorrect and DmaStaysInChunk as theorems.          *)
(***************************************************************************)
EXTENDS IdeDma, TLAPS

(* Where dma_read_one has prepared its PRD, and where its command is out. *)
Prepared == pc \in {"wait", "wait2", "issue", "start", "poll", "stopOk", "stopBad", "check"}
Issued == pc \in {"start", "poll", "stopOk", "stopBad", "check"}

(* The bus master runs only from START to the write of CMD = 0. *)
StartInv == start => pc \in {"poll", "stopOk", "stopBad"}

(* The PRD entry describes the chunk being read, and the chunk lies inside  *)
(* the request.                                                             *)
ChunkInv ==
  /\ Prepared => /\ chunk \in 1 .. PrdMax /\ done + chunk <= count
                 /\ prdAt = done /\ PrdBlocks = chunk
                 /\ moved \in 0 .. chunk
  /\ pc \in {"prep", "pioSelect", "pioIssue", "pioWait"} => done < count
  /\ pc \in {"wait", "wait2", "issue"} => moved = 0

(* Once the command is out, the disk is at the block after those moved, or  *)
(* it has finished with all of them moved, or it has set ERR.               *)
CommandInv ==
  Issued =>
    /\ cmd \in {"dma", "none"}
    /\ cmd = "dma" => lba = block + done + moved /\ left = chunk - moved
    /\ cmd = "none" => err \/ moved = chunk
    /\ \A i \in done .. done + moved - 1 : mem[i] = block + i

PioInv == pc = "pioWait" /\ cmd \in {"pio", "data"} => lba = block + done

(* What a finished call has reported. *)
ResultInv ==
  pc = "idle" /\ result \notin {NoResult, E_ABORT} => result = count /\ done = count

IInv == /\ TypeOK /\ StartInv /\ ChunkInv /\ CommandInv /\ PioInv
        /\ ResultInv /\ Filled(done)

(* The encoding of the PRD length, with 0 for 64 KiB, loses nothing. *)
LEMMA PrdEncoding ==
  ASSUME NEW n \in 1 .. PrdMax
  PROVE  /\ n % PrdMax \in 0 .. PrdMax - 1
         /\ (IF n % PrdMax = 0 THEN PrdMax ELSE n % PrdMax) = n
<1>1. PrdMax \in Nat /\ PrdMax > 0
  BY PrdMaxAssumption
<1>2. CASE n = PrdMax
  BY <1>1, <1>2, SMT
<1>3. CASE n < PrdMax
  BY <1>1, <1>3, SMT
<1>4. QED
  BY <1>1, <1>2, <1>3

LEMMA InitIInv == Init => IInv
<1> SUFFICES ASSUME Init PROVE IInv
  OBVIOUS
<1> USE BlocksAssumption, MaxCountAssumption, PrdMaxAssumption DEF Init
<1>1. TypeOK
  <2>1. mem \in [Slots -> Nat \union {Junk}]
    OBVIOUS
  <2>2. result \in 0 .. MaxCount \union {NoResult, E_ABORT}
    OBVIOUS
  <2>3. /\ hasDma \in BOOLEAN /\ err \in BOOLEAN /\ start \in BOOLEAN
        /\ intr \in BOOLEAN /\ bmErr \in BOOLEAN
    BY Zenon
  <2>4. /\ prdLen \in 0 .. PrdMax - 1 /\ moved \in 0 .. PrdMax /\ chunk \in 0 .. PrdMax
        /\ done \in 0 .. count /\ count \in 0 .. MaxCount /\ left \in 0 .. MaxCount
        /\ prdAt \in 0 .. MaxCount /\ block \in Nat /\ lba \in Nat
    OBVIOUS
  <2>5. cmd = "none" /\ pc = "idle"
    OBVIOUS
  <2>6. QED
    BY <2>1, <2>2, <2>3, <2>4, <2>5, Zenon DEF TypeOK
<1>2. StartInv /\ ChunkInv /\ CommandInv /\ PioInv /\ ResultInv
  BY DEF StartInv, ChunkInv, CommandInv, PioInv, ResultInv, Prepared, Issued
<1>3. Filled(done)
  BY DEF Filled
<1>4. QED
  BY <1>1, <1>2, <1>3 DEF IInv

LEMMA NextIInv == ~DrqInDma /\ IInv /\ [Next]_vars => IInv'
<1> SUFFICES ASSUME ~DrqInDma, IInv, [Next]_vars PROVE IInv'
  OBVIOUS
<1> USE BlocksAssumption, MaxCountAssumption, PrdMaxAssumption
    DEF disk, bmi, local
<1>0. /\ TypeOK /\ StartInv /\ ChunkInv /\ CommandInv /\ PioInv
      /\ ResultInv /\ Filled(done)
  BY DEF IInv
<1>1. CASE DmaMove
  <2>1. TypeOK'
    <3>1. mem' \in [Slots -> Nat \union {Junk}]
      BY <1>0, <1>1 DEF TypeOK, DmaMove
    <3>2. moved' \in 0 .. PrdMax /\ lba' \in Nat /\ left' \in 0 .. MaxCount
      BY <1>0, <1>1 DEF TypeOK, PrdBlocks, DmaMove
    <3>3. QED
      BY <1>0, <1>1, <3>1, <3>2 DEF TypeOK, DmaMove
  <2>2. StartInv' /\ ChunkInv'
    BY <1>0, <1>1 DEF TypeOK, StartInv, ChunkInv, CommandInv, Prepared, Issued, PrdBlocks, DmaMove
  <2>3. CommandInv' /\ PioInv'
    BY <1>0, <1>1 DEF TypeOK, StartInv, ChunkInv, CommandInv, PioInv, Prepared, Issued, Slots, DmaMove
  <2>4. ResultInv' /\ Filled(done)'
    <3>1. prdAt + moved >= done /\ prdAt + moved \in Nat
      BY <1>0, <1>1 DEF TypeOK, StartInv, ChunkInv, Prepared, DmaMove
    <3>2. Filled(done)'
      BY <1>0, <1>1, <3>1 DEF TypeOK, Filled, Slots, DmaMove
    <3>3. QED
      BY <1>0, <1>1, <3>2 DEF ResultInv, DmaMove
  <2>5. QED
    BY <2>1, <2>2, <2>3, <2>4 DEF IInv
<1>2. CASE DmaFinish
  <2>1. TypeOK'
    BY <1>0, <1>2 DEF TypeOK, ChunkInv, Prepared, Slots, PrdBlocks, NoResult, E_ABORT, DmaFinish
  <2>2. StartInv' /\ ChunkInv'
    BY <1>0, <1>2 DEF TypeOK, StartInv, ChunkInv, CommandInv, Prepared, Issued, PrdBlocks, DmaFinish
  <2>3. CommandInv' /\ PioInv'
    BY <1>0, <1>2 DEF TypeOK, StartInv, ChunkInv, CommandInv, PioInv, Prepared, Issued, Slots, DmaFinish
  <2>4. ResultInv' /\ Filled(done)'
    BY <1>0, <1>2 DEF TypeOK, ChunkInv, CommandInv, ResultInv, Filled, Prepared, Issued, Slots, DmaFinish
  <2>5. QED
    BY <2>1, <2>2, <2>3, <2>4 DEF IInv
<1>3. CASE DiskFails
  <2>1. TypeOK'
    BY <1>0, <1>3 DEF TypeOK, ChunkInv, Prepared, Slots, PrdBlocks, NoResult, E_ABORT, DiskFails
  <2>2. StartInv' /\ ChunkInv'
    BY <1>0, <1>3 DEF TypeOK, StartInv, ChunkInv, CommandInv, Prepared, Issued, PrdBlocks, DiskFails
  <2>3. CommandInv' /\ PioInv'
    BY <1>0, <1>3 DEF TypeOK, StartInv, ChunkInv, CommandInv, PioInv, Prepared, Issued, Slots, DiskFails
  <2>4. ResultInv' /\ Filled(done)'
    BY <1>0, <1>3 DEF TypeOK, ChunkInv, CommandInv, ResultInv, Filled, Prepared, Issued, Slots, DiskFails
  <2>5. QED
    BY <2>1, <2>2, <2>3, <2>4 DEF IInv
<1>4. CASE BusError
  <2>1. TypeOK'
    BY <1>0, <1>4 DEF TypeOK, ChunkInv, Prepared, Slots, PrdBlocks, NoResult, E_ABORT, BusError
  <2>2. StartInv' /\ ChunkInv'
    BY <1>0, <1>4 DEF TypeOK, StartInv, ChunkInv, CommandInv, Prepared, Issued, PrdBlocks, BusError
  <2>3. CommandInv' /\ PioInv'
    BY <1>0, <1>4 DEF TypeOK, StartInv, ChunkInv, CommandInv, PioInv, Prepared, Issued, Slots, BusError
  <2>4. ResultInv' /\ Filled(done)'
    BY <1>0, <1>4 DEF TypeOK, ChunkInv, CommandInv, ResultInv, Filled, Prepared, Issued, Slots, BusError
  <2>5. QED
    BY <2>1, <2>2, <2>3, <2>4 DEF IInv
<1>5. CASE PioReady
  <2>1. TypeOK'
    BY <1>0, <1>5 DEF TypeOK, ChunkInv, Prepared, Slots, PrdBlocks, NoResult, E_ABORT, PioReady
  <2>2. StartInv' /\ ChunkInv'
    BY <1>0, <1>5 DEF TypeOK, StartInv, ChunkInv, CommandInv, Prepared, Issued, PrdBlocks, PioReady
  <2>3. CommandInv' /\ PioInv'
    BY <1>0, <1>5 DEF TypeOK, StartInv, ChunkInv, CommandInv, PioInv, Prepared, Issued, Slots, PioReady
  <2>4. ResultInv' /\ Filled(done)'
    BY <1>0, <1>5 DEF TypeOK, ChunkInv, CommandInv, ResultInv, Filled, Prepared, Issued, Slots, PioReady
  <2>5. QED
    BY <2>1, <2>2, <2>3, <2>4 DEF IInv
<1>6. CASE DmaPrep
  <2>1. TypeOK'
    <3>1. chunk' \in 1 .. PrdMax
      BY <1>0, <1>6 DEF TypeOK, ChunkInv, DmaPrep, Lesser
    <3>2. prdLen' \in 0 .. PrdMax - 1 /\ prdAt' \in 0 .. MaxCount
      BY <1>0, <1>6, <3>1, PrdEncoding DEF TypeOK, DmaPrep
    <3>3. moved' \in 0 .. PrdMax /\ chunk' \in 0 .. PrdMax
      BY <1>6, <3>1 DEF DmaPrep
    <3>4. start' \in BOOLEAN /\ intr' \in BOOLEAN /\ bmErr' \in BOOLEAN
      BY <1>6, Zenon DEF DmaPrep
    <3>5. QED
      BY <1>0, <1>6, <3>2, <3>3, <3>4, Zenon DEF TypeOK, DmaPrep
  <2>2. StartInv' /\ ChunkInv'
    BY <1>0, <1>6 DEF TypeOK, StartInv, ChunkInv, CommandInv, Prepared, Issued, PrdBlocks, DmaPrep, Lesser
  <2>3. CommandInv' /\ PioInv'
    BY <1>0, <1>6 DEF TypeOK, StartInv, ChunkInv, CommandInv, PioInv, Prepared, Issued, Slots, DmaPrep, Lesser
  <2>4. ResultInv' /\ Filled(done)'
    BY <1>0, <1>6 DEF TypeOK, ChunkInv, CommandInv, ResultInv, Filled, Prepared, Issued, Slots, DmaPrep, Lesser
  <2>5. QED
    BY <2>1, <2>2, <2>3, <2>4 DEF IInv
<1>7. CASE DmaWait
  <2>1. TypeOK'
    BY <1>0, <1>7 DEF TypeOK, ChunkInv, Prepared, Slots, PrdBlocks, NoResult, E_ABORT, DmaWait
  <2>2. StartInv' /\ ChunkInv'
    BY <1>0, <1>7 DEF TypeOK, StartInv, ChunkInv, CommandInv, Prepared, Issued, PrdBlocks, DmaWait
  <2>3. CommandInv' /\ PioInv'
    BY <1>0, <1>7 DEF TypeOK, StartInv, ChunkInv, CommandInv, PioInv, Prepared, Issued, Slots, DmaWait
  <2>4. ResultInv' /\ Filled(done)'
    BY <1>0, <1>7 DEF TypeOK, ChunkInv, CommandInv, ResultInv, Filled, Prepared, Issued, Slots, DmaWait
  <2>5. QED
    BY <2>1, <2>2, <2>3, <2>4 DEF IInv
<1>8. CASE DmaWaitTimeout
  <2>1. TypeOK'
    BY <1>0, <1>8 DEF TypeOK, ChunkInv, Prepared, Slots, PrdBlocks, NoResult, E_ABORT, DmaWaitTimeout
  <2>2. StartInv' /\ ChunkInv'
    BY <1>0, <1>8 DEF TypeOK, StartInv, ChunkInv, CommandInv, Prepared, Issued, PrdBlocks, DmaWaitTimeout
  <2>3. CommandInv' /\ PioInv'
    BY <1>0, <1>8 DEF TypeOK, StartInv, ChunkInv, CommandInv, PioInv, Prepared, Issued, Slots, DmaWaitTimeout
  <2>4. ResultInv' /\ Filled(done)'
    BY <1>0, <1>8 DEF TypeOK, ChunkInv, CommandInv, ResultInv, Filled, Prepared, Issued, Slots, DmaWaitTimeout
  <2>5. QED
    BY <2>1, <2>2, <2>3, <2>4 DEF IInv
<1>9. CASE DmaIssue
  <2>1. TypeOK'
    <3>1. lba' \in Nat /\ left' \in 0 .. MaxCount
      BY <1>0, <1>9 DEF TypeOK, ChunkInv, Prepared, DmaIssue
    <3>2. QED
      BY <1>0, <1>9, <3>1 DEF TypeOK, DmaIssue
  <2>2. StartInv' /\ ChunkInv'
    BY <1>0, <1>9 DEF TypeOK, StartInv, ChunkInv, CommandInv, Prepared, Issued, PrdBlocks, DmaIssue
  <2>3. CommandInv' /\ PioInv'
    BY <1>0, <1>9 DEF TypeOK, StartInv, ChunkInv, CommandInv, PioInv, Prepared, Issued, Slots, DmaIssue
  <2>4. ResultInv' /\ Filled(done)'
    BY <1>0, <1>9 DEF TypeOK, ChunkInv, CommandInv, ResultInv, Filled, Prepared, Issued, Slots, DmaIssue
  <2>5. QED
    BY <2>1, <2>2, <2>3, <2>4 DEF IInv
<1>10. CASE DmaStart
  <2>1. TypeOK'
    BY <1>0, <1>10 DEF TypeOK, ChunkInv, Prepared, Slots, PrdBlocks, NoResult, E_ABORT, DmaStart
  <2>2. StartInv' /\ ChunkInv'
    BY <1>0, <1>10 DEF TypeOK, StartInv, ChunkInv, CommandInv, Prepared, Issued, PrdBlocks, DmaStart
  <2>3. CommandInv' /\ PioInv'
    BY <1>0, <1>10 DEF TypeOK, StartInv, ChunkInv, CommandInv, PioInv, Prepared, Issued, Slots, DmaStart
  <2>4. ResultInv' /\ Filled(done)'
    BY <1>0, <1>10 DEF TypeOK, ChunkInv, CommandInv, ResultInv, Filled, Prepared, Issued, Slots, DmaStart
  <2>5. QED
    BY <2>1, <2>2, <2>3, <2>4 DEF IInv
<1>11. CASE DmaPoll
  <2>1. TypeOK'
    BY <1>0, <1>11 DEF TypeOK, ChunkInv, Prepared, Slots, PrdBlocks, NoResult, E_ABORT, DmaPoll
  <2>2. StartInv' /\ ChunkInv'
    BY <1>0, <1>11 DEF TypeOK, StartInv, ChunkInv, CommandInv, Prepared, Issued, PrdBlocks, DmaPoll
  <2>3. CommandInv' /\ PioInv'
    BY <1>0, <1>11 DEF TypeOK, StartInv, ChunkInv, CommandInv, PioInv, Prepared, Issued, Slots, DmaPoll
  <2>4. ResultInv' /\ Filled(done)'
    BY <1>0, <1>11 DEF TypeOK, ChunkInv, CommandInv, ResultInv, Filled, Prepared, Issued, Slots, DmaPoll
  <2>5. QED
    BY <2>1, <2>2, <2>3, <2>4 DEF IInv
<1>12. CASE DmaPollTimeout
  <2>1. TypeOK'
    BY <1>0, <1>12 DEF TypeOK, ChunkInv, Prepared, Slots, PrdBlocks, NoResult, E_ABORT, DmaPollTimeout
  <2>2. StartInv' /\ ChunkInv'
    BY <1>0, <1>12 DEF TypeOK, StartInv, ChunkInv, CommandInv, Prepared, Issued, PrdBlocks, DmaPollTimeout
  <2>3. CommandInv' /\ PioInv'
    BY <1>0, <1>12 DEF TypeOK, StartInv, ChunkInv, CommandInv, PioInv, Prepared, Issued, Slots, DmaPollTimeout
  <2>4. ResultInv' /\ Filled(done)'
    BY <1>0, <1>12 DEF TypeOK, ChunkInv, CommandInv, ResultInv, Filled, Prepared, Issued, Slots, DmaPollTimeout
  <2>5. QED
    BY <2>1, <2>2, <2>3, <2>4 DEF IInv
<1>13. CASE DmaStop
  <2>1. TypeOK'
    BY <1>0, <1>13 DEF TypeOK, ChunkInv, Prepared, Slots, PrdBlocks, NoResult, E_ABORT, DmaStop
  <2>2. StartInv' /\ ChunkInv'
    BY <1>0, <1>13 DEF TypeOK, StartInv, ChunkInv, CommandInv, Prepared, Issued, PrdBlocks, DmaStop
  <2>3. CommandInv' /\ PioInv'
    BY <1>0, <1>13 DEF TypeOK, StartInv, ChunkInv, CommandInv, PioInv, Prepared, Issued, Slots, DmaStop
  <2>4. ResultInv' /\ Filled(done)'
    BY <1>0, <1>13 DEF TypeOK, ChunkInv, CommandInv, ResultInv, Filled, Prepared, Issued, Slots, DmaStop
  <2>5. QED
    BY <2>1, <2>2, <2>3, <2>4 DEF IInv
<1>14. CASE DmaCheck
  <2>1. TypeOK'
    BY <1>0, <1>14 DEF TypeOK, ChunkInv, Prepared, Slots, PrdBlocks, NoResult, E_ABORT, DmaCheck, Bsy, Return
  <2>2. StartInv' /\ ChunkInv'
    BY <1>0, <1>14 DEF TypeOK, StartInv, ChunkInv, CommandInv, Prepared, Issued, PrdBlocks, DmaCheck, Bsy, Return
  <2>3. CommandInv' /\ PioInv'
    BY <1>0, <1>14 DEF TypeOK, StartInv, ChunkInv, CommandInv, PioInv, Prepared, Issued, Slots, DmaCheck, Bsy, Return
  <2>4. ResultInv' /\ Filled(done)'
    BY <1>0, <1>14 DEF TypeOK, ChunkInv, CommandInv, ResultInv, Filled, Prepared, Issued, Slots, DmaCheck, Bsy, Return
  <2>5. QED
    BY <2>1, <2>2, <2>3, <2>4 DEF IInv
<1>15. CASE PioSelect
  <2>1. TypeOK'
    BY <1>0, <1>15 DEF TypeOK, ChunkInv, Prepared, Slots, PrdBlocks, NoResult, E_ABORT, PioSelect, Abort, Return
  <2>2. StartInv' /\ ChunkInv'
    BY <1>0, <1>15 DEF TypeOK, StartInv, ChunkInv, CommandInv, Prepared, Issued, PrdBlocks, PioSelect, Abort, Return
  <2>3. CommandInv' /\ PioInv'
    BY <1>0, <1>15 DEF TypeOK, StartInv, ChunkInv, CommandInv, PioInv, Prepared, Issued, Slots, PioSelect, Abort, Return
  <2>4. ResultInv' /\ Filled(done)'
    BY <1>0, <1>15 DEF TypeOK, ChunkInv, CommandInv, ResultInv, Filled, Prepared, Issued, Slots, PioSelect, Abort, Return
  <2>5. QED
    BY <2>1, <2>2, <2>3, <2>4 DEF IInv
<1>16. CASE PioSelectTimeout
  <2>1. TypeOK'
    BY <1>0, <1>16 DEF TypeOK, ChunkInv, Prepared, Slots, PrdBlocks, NoResult, E_ABORT, PioSelectTimeout, Abort, Return
  <2>2. StartInv' /\ ChunkInv'
    BY <1>0, <1>16 DEF TypeOK, StartInv, ChunkInv, CommandInv, Prepared, Issued, PrdBlocks, PioSelectTimeout, Abort, Return
  <2>3. CommandInv' /\ PioInv'
    BY <1>0, <1>16 DEF TypeOK, StartInv, ChunkInv, CommandInv, PioInv, Prepared, Issued, Slots, PioSelectTimeout, Abort, Return
  <2>4. ResultInv' /\ Filled(done)'
    BY <1>0, <1>16 DEF TypeOK, ChunkInv, CommandInv, ResultInv, Filled, Prepared, Issued, Slots, PioSelectTimeout, Abort, Return
  <2>5. QED
    BY <2>1, <2>2, <2>3, <2>4 DEF IInv
<1>17. CASE PioIssue
  <2>1. TypeOK'
    <3>1. lba' \in Nat /\ left' \in 0 .. MaxCount
      BY <1>0, <1>17 DEF TypeOK, ChunkInv, Prepared, PioIssue
    <3>2. QED
      BY <1>0, <1>17, <3>1 DEF TypeOK, PioIssue
  <2>2. StartInv' /\ ChunkInv'
    BY <1>0, <1>17 DEF TypeOK, StartInv, ChunkInv, CommandInv, Prepared, Issued, PrdBlocks, PioIssue
  <2>3. CommandInv' /\ PioInv'
    BY <1>0, <1>17 DEF TypeOK, StartInv, ChunkInv, CommandInv, PioInv, Prepared, Issued, Slots, PioIssue
  <2>4. ResultInv' /\ Filled(done)'
    BY <1>0, <1>17 DEF TypeOK, ChunkInv, CommandInv, ResultInv, Filled, Prepared, Issued, Slots, PioIssue
  <2>5. QED
    BY <2>1, <2>2, <2>3, <2>4 DEF IInv
<1>18. CASE PioData
  <2>1. TypeOK'
    BY <1>0, <1>18 DEF TypeOK, ChunkInv, Prepared, Slots, PrdBlocks, NoResult, E_ABORT, PioData
  <2>2. StartInv' /\ ChunkInv'
    BY <1>0, <1>18 DEF TypeOK, StartInv, ChunkInv, CommandInv, Prepared, Issued, PrdBlocks, PioData
  <2>3. CommandInv' /\ PioInv'
    BY <1>0, <1>18 DEF TypeOK, StartInv, ChunkInv, CommandInv, PioInv, Prepared, Issued, Slots, PioData
  <2>4. ResultInv' /\ Filled(done)'
    <3>1. done' = done + 1 /\ done \in Slots /\ mem' = [mem EXCEPT ![done] = block + done]
      BY <1>0, <1>18 DEF TypeOK, ChunkInv, PioInv, Slots, PioData
    <3>2. Filled(done)'
      BY <1>0, <1>18, <3>1 DEF TypeOK, Filled, Slots, PioData
    <3>3. ResultInv'
      BY <1>0, <1>18 DEF TypeOK, ChunkInv, ResultInv, PioData
    <3>4. QED
      BY <3>2, <3>3
  <2>5. QED
    BY <2>1, <2>2, <2>3, <2>4 DEF IInv
<1>19. CASE PioDataFails
  <2>1. TypeOK'
    BY <1>0, <1>19 DEF TypeOK, ChunkInv, Prepared, Slots, PrdBlocks, NoResult, E_ABORT, PioDataFails, Abort, Return
  <2>2. StartInv' /\ ChunkInv'
    BY <1>0, <1>19 DEF TypeOK, StartInv, ChunkInv, CommandInv, Prepared, Issued, PrdBlocks, PioDataFails, Abort, Return
  <2>3. CommandInv' /\ PioInv'
    BY <1>0, <1>19 DEF TypeOK, StartInv, ChunkInv, CommandInv, PioInv, Prepared, Issued, Slots, PioDataFails, Abort, Return
  <2>4. ResultInv' /\ Filled(done)'
    BY <1>0, <1>19 DEF TypeOK, ChunkInv, CommandInv, ResultInv, Filled, Prepared, Issued, Slots, PioDataFails, Abort, Return
  <2>5. QED
    BY <2>1, <2>2, <2>3, <2>4 DEF IInv
<1>20. CASE \E b \in Blocks, n \in 0 .. MaxCount : Call(b, n)
  <2>1. TypeOK'
    BY <1>0, <1>20 DEF TypeOK, ChunkInv, Prepared, Slots, PrdBlocks, NoResult, E_ABORT, Call, Return
  <2>2. StartInv' /\ ChunkInv'
    BY <1>0, <1>20 DEF TypeOK, StartInv, ChunkInv, CommandInv, Prepared, Issued, PrdBlocks, Call, Return
  <2>3. CommandInv' /\ PioInv'
    BY <1>0, <1>20 DEF TypeOK, StartInv, ChunkInv, CommandInv, PioInv, Prepared, Issued, Slots, Call, Return
  <2>4. ResultInv' /\ Filled(done)'
    BY <1>0, <1>20 DEF TypeOK, ChunkInv, CommandInv, ResultInv, Filled, Prepared, Issued, Slots, Call, Return
  <2>5. QED
    BY <2>1, <2>2, <2>3, <2>4 DEF IInv
<1>21. CASE UNCHANGED vars
  <2>1. TypeOK'
    BY <1>0, <1>21 DEF TypeOK, ChunkInv, Prepared, Slots, PrdBlocks, NoResult, E_ABORT, vars
  <2>2. StartInv' /\ ChunkInv'
    BY <1>0, <1>21 DEF TypeOK, StartInv, ChunkInv, CommandInv, Prepared, Issued, PrdBlocks, vars
  <2>3. CommandInv' /\ PioInv'
    BY <1>0, <1>21 DEF TypeOK, StartInv, ChunkInv, CommandInv, PioInv, Prepared, Issued, Slots, vars
  <2>4. ResultInv' /\ Filled(done)'
    BY <1>0, <1>21 DEF TypeOK, ChunkInv, CommandInv, ResultInv, Filled, Prepared, Issued, Slots, vars
  <2>5. QED
    BY <2>1, <2>2, <2>3, <2>4 DEF IInv
<1>22. CASE DrqDrops
  <2>1. TypeOK'
    BY <1>0, <1>22 DEF TypeOK, ChunkInv, Prepared, Slots, PrdBlocks, NoResult, E_ABORT, DrqDrops
  <2>2. StartInv' /\ ChunkInv'
    BY <1>0, <1>22 DEF TypeOK, StartInv, ChunkInv, CommandInv, Prepared, Issued, PrdBlocks, DrqDrops
  <2>3. CommandInv' /\ PioInv'
    BY <1>0, <1>22 DEF TypeOK, StartInv, ChunkInv, CommandInv, PioInv, Prepared, Issued, Slots, DrqDrops
  <2>4. ResultInv' /\ Filled(done)'
    BY <1>0, <1>22 DEF TypeOK, ChunkInv, CommandInv, ResultInv, Filled, Prepared, Issued, Slots, DrqDrops
  <2>5. QED
    BY <2>1, <2>2, <2>3, <2>4 DEF IInv
<1>23. CASE PioSkip
  <2>1. TypeOK'
    BY <1>0, <1>23 DEF TypeOK, ChunkInv, Prepared, Slots, PrdBlocks, NoResult, E_ABORT, PioSkip, vars
  <2>2. StartInv' /\ ChunkInv'
    BY <1>0, <1>23 DEF TypeOK, StartInv, ChunkInv, CommandInv, Prepared, Issued, PrdBlocks, PioSkip, vars
  <2>3. CommandInv' /\ PioInv'
    BY <1>0, <1>23 DEF TypeOK, StartInv, ChunkInv, CommandInv, PioInv, Prepared, Issued, Slots, PioSkip, vars
  <2>4. ResultInv' /\ Filled(done)'
    BY <1>0, <1>23 DEF TypeOK, ChunkInv, CommandInv, ResultInv, Filled, Prepared, Issued, Slots, PioSkip, vars
  <2>5. QED
    BY <2>1, <2>2, <2>3, <2>4 DEF IInv
<1>24. CASE PioSkipped
  <2>1. TypeOK'
    BY <1>0, <1>24 DEF TypeOK, ChunkInv, Prepared, Slots, PrdBlocks, NoResult, E_ABORT, PioSkipped, Return
  <2>2. StartInv' /\ ChunkInv'
    BY <1>0, <1>24 DEF TypeOK, StartInv, ChunkInv, CommandInv, Prepared, Issued, PrdBlocks, PioSkipped, Return
  <2>3. CommandInv' /\ PioInv'
    BY <1>0, <1>24 DEF TypeOK, StartInv, ChunkInv, CommandInv, PioInv, Prepared, Issued, Slots, PioSkipped, Return
  <2>4. ResultInv' /\ Filled(done)'
    BY <1>0, <1>24 DEF TypeOK, ChunkInv, CommandInv, ResultInv, Filled, Prepared, Issued, Slots, PioSkipped, Return
  <2>5. QED
    BY <2>1, <2>2, <2>3, <2>4 DEF IInv
<1>25. QED
  BY <1>1, <1>2, <1>3, <1>4, <1>5, <1>6, <1>7, <1>8, <1>9, <1>10, <1>11, <1>12, <1>13, <1>14, <1>15, <1>16, <1>17, <1>18, <1>19, <1>20, <1>21, <1>22, <1>23, <1>24 DEF Next, Hardware, Firmware

(* The theorems below are about a disk that reports BSY during DMA. *)
LEMMA Invariant == ~DrqInDma => (Spec => []IInv)
<1>1. SUFFICES ASSUME ~DrqInDma PROVE Spec => []IInv
  OBVIOUS
<1>2. IInv /\ [Next]_vars => IInv'
  BY <1>1, NextIInv
<1>3. QED
  BY <1>2, InitIInv, PTL DEF Spec

(* Requests, chunks, buffer slots and registers keep their ranges in every  *)
(* reachable state of f_dma_read_blocks.                                    *)
THEOREM TypeCorrect == ~DrqInDma => (Spec => []TypeOK)
<1>1. IInv => TypeOK
  BY DEF IInv
<1>2. QED
  BY <1>1, Invariant, PTL

(* A successful read-blocks has put every requested block into its slot,    *)
(* for every request size and chunk size, and whatever stale interrupts,    *)
(* timeouts, bus errors and failures happened on the way.                   *)
THEOREM ReadIsCorrect == ~DrqInDma => (Spec => []ReadCorrect)
<1>1. IInv => ReadCorrect
  BY DEF IInv, ReadCorrect, ResultInv, Filled
<1>2. QED
  BY <1>1, Invariant, PTL

(* The bus master never stores outside the chunk dma_read_one is reading,   *)
(* and never after dma_read_one has stopped it.                             *)
THEOREM DmaIsConfined == ~DrqInDma => (Spec => DmaStaysInChunk)
<1>1. IInv /\ [Next]_vars =>
        [DmaMove => /\ pc \in {"poll", "stopOk", "stopBad"}
                    /\ prdAt + moved \in done .. done + chunk - 1]_vars
  BY DEF IInv, TypeOK, StartInv, ChunkInv, Prepared, DmaMove
<1>2. QED
  BY <1>1, Invariant, PTL DEF Spec, DmaStaysInChunk
=============================================================================

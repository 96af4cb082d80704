---------------------------- MODULE UartConsole ----------------------------
(***************************************************************************)
(* The serial console input path once phase1_c_main has armed it:          *)
(*                                                                         *)
(*   UART1 16550 FIFO -> IRQ 4 of the VT8231 i8259 -> MV64361 GPP31 ->     *)
(*   vector 0x500 -> ei_dispatch -> uart_rx_handler -> g_rx_ring ->        *)
(*   extint_uart_pop <- failsafe_read -> uart_poll_rx (direct poll)        *)
(*                                                                         *)
(* Three actors interleave.  The wire delivers bytes at any time.  The     *)
(* CPU runs either the mainline (failsafe_read, called by the console in a *)
(* loop) or the interrupt handler: the machine has one CPU and handlers    *)
(* run with MSR[EE]=0, so a mainline step needs the handler to be idle,    *)
(* but the handler may run between any two mainline loads or stores.       *)
(*                                                                         *)
(* A received byte is represented by its arrival number 1, 2, ..., so that *)
(* loss, duplication and reordering are visible.                           *)
(***************************************************************************)
EXTENDS Naturals, Sequences

CONSTANTS
  RingSize,   \* RX_RING_SIZE
  FifoDepth,  \* depth of the 16550 receive FIFO
  ReadLens,   \* the values of failsafe_read's len argument
  MaxKeys     \* bound: how many bytes arrive on the wire

ASSUME RingSizeAssumption == RingSize \in Nat /\ RingSize > 1
ASSUME FifoDepthAssumption == FifoDepth \in Nat \ {0}
ASSUME ReadLensAssumption == ReadLens \subseteq Nat \ {0}
ASSUME MaxKeysAssumption == MaxKeys \in Nat

VARIABLES
  typed,      \* number of bytes that have arrived on the wire
  fifo,       \* UART receive FIFO, oldest byte first
  irr, isr,   \* i8259 master, IRQ 4: requested, in service
  hpc,        \* interrupt handler: "idle", "ack", "drain", "eoi"
  ring, head, tail,  \* g_rx_ring, g_rx_head, g_rx_tail
  mpc,        \* mainline: where failsafe_read is
  len, n,     \* failsafe_read's len argument and running count
  c,          \* the byte extint_uart_pop has loaded and not yet consumed
  popped,     \* history: bytes failsafe_read took from the ring
  polled,     \* history: bytes failsafe_read took straight from the UART
  ghosts,     \* history: bytes failsafe_read got that the UART did not hold
  dropped     \* bytes lost: ring full, or FIFO overrun in the UART

uartVars == <<typed, fifo>>
picVars  == <<irr, isr>>
ringVars == <<ring, head, tail>>
mainVars == <<mpc, len, n, c>>
hist     == <<popped, polled, ghosts>>
vars == <<uartVars, picVars, hpc, ringVars, mainVars, hist, dropped>>

NoByte == 0
Keys == 1 .. MaxKeys

Init ==
  /\ typed = 0 /\ fifo = << >>
  /\ irr = FALSE /\ isr = FALSE
  /\ hpc = "idle"
  /\ ring = [i \in 0 .. RingSize - 1 |-> NoByte] /\ head = 0 /\ tail = 0
  /\ mpc = "idle" /\ len = 0 /\ n = 0 /\ c = NoByte
  /\ popped = << >> /\ polled = {} /\ ghosts = 0
  /\ dropped = {}

-----------------------------------------------------------------------------
(* The wire and the i8259 (hardware). *)

(* A byte arrives.  A full FIFO loses it.  The receive interrupt line is    *)
(* high while the FIFO is not empty, and the i8259 input is edge triggered  *)
(* (ICW1 = 0x11), so only an empty FIFO becoming non-empty sets IRR.        *)
KeyArrives ==
  /\ typed < MaxKeys
  /\ typed' = typed + 1
  /\ IF Len(fifo) < FifoDepth
       THEN fifo' = Append(fifo, typed + 1) /\ UNCHANGED dropped
       ELSE dropped' = dropped \union {typed + 1} /\ UNCHANGED fifo
  /\ irr' = (irr \/ fifo = << >>)
  /\ UNCHANGED <<isr, hpc, ringVars, mainVars, hist>>

(* The PIC raises GPP31 for a request that is not blocked by one in         *)
(* service; the CPU takes vector 0x500 and ei_dispatch calls the handler.   *)
TakeInterrupt ==
  /\ hpc = "idle" /\ irr /\ ~isr
  /\ hpc' = "ack"
  /\ UNCHANGED <<uartVars, picVars, ringVars, mainVars, hist, dropped>>

-----------------------------------------------------------------------------
(* uart_rx_handler *)

(* Mutant: the handler skips the MV_PCI1_INTA_VIRT read. *)
HandlerSkipsAck ==
  /\ hpc = "ack"
  /\ hpc' = "drain"
  /\ UNCHANGED <<uartVars, picVars, ringVars, mainVars, hist, dropped>>

(* The read of MV_PCI1_INTA_VIRT: pic_read_irq sets ISR and clears IRR. *)
HandlerAck ==
  /\ hpc = "ack"
  /\ isr' = TRUE /\ irr' = FALSE
  /\ hpc' = "drain"
  /\ UNCHANGED <<uartVars, ringVars, mainVars, hist, dropped>>

NextHead == (head + 1) % RingSize

(* Mutant: the ring-full test is missing. *)
StoreByteOverwrites(k) ==
  /\ ring' = [ring EXCEPT ![head] = k]
  /\ head' = NextHead
  /\ UNCHANGED <<tail, dropped>>

(* Store the byte k, or drop it when the ring is full. *)
StoreByte(k) ==
  IF NextHead # tail
    THEN /\ ring' = [ring EXCEPT ![head] = k]
         /\ head' = NextHead
         /\ UNCHANGED <<tail, dropped>>
    ELSE /\ dropped' = dropped \union {k}
         /\ UNCHANGED ringVars

(* One turn of the drain loop: uart_poll_rx, then the ring. *)
HandlerDrain ==
  /\ hpc = "drain" /\ fifo # << >>
  /\ fifo' = Tail(fifo)
  /\ StoreByte(Head(fifo))
  /\ UNCHANGED <<typed, picVars, hpc, mainVars, hist>>

HandlerDrained ==
  /\ hpc = "drain" /\ fifo = << >>
  /\ hpc' = "eoi"
  /\ UNCHANGED <<uartVars, picVars, ringVars, mainVars, hist, dropped>>

(* Mutant: the i8259 is acknowledged after the drain loop, just before the *)
(* EOI, instead of before it.                                              *)
HandlerAcksAfterDrain ==
  /\ hpc = "eoi"
  /\ irr' = FALSE /\ isr' = FALSE
  /\ hpc' = "idle"
  /\ UNCHANGED <<uartVars, ringVars, mainVars, hist, dropped>>

(* vt8231_pic_eoi_master, then rfi back to the mainline. *)
HandlerEoi ==
  /\ hpc = "eoi"
  /\ isr' = FALSE
  /\ hpc' = "idle"
  /\ UNCHANGED <<uartVars, irr, ringVars, mainVars, hist, dropped>>

-----------------------------------------------------------------------------
(* failsafe_read, on the mainline *)

MainAt(pc) == hpc = "idle" /\ mpc = pc

ReadCall(l) ==
  /\ MainAt("idle")
  /\ mpc' = "pop" /\ len' = l /\ n' = 0
  /\ UNCHANGED <<uartVars, picVars, hpc, ringVars, c, hist, dropped>>

(* Mutant: extint_uart_pop without its emptiness test. *)
PopWithoutCheck ==
  /\ MainAt("pop")
  /\ mpc' = IF n < len THEN "load" ELSE "poll"
  /\ UNCHANGED <<uartVars, picVars, hpc, ringVars, len, n, c, hist, dropped>>

(* "while (n < len && (c = extint_uart_pop()) >= 0)": the emptiness test.   *)
PopCheck ==
  /\ MainAt("pop")
  /\ mpc' = IF n < len /\ head # tail THEN "load" ELSE "poll"
  /\ UNCHANGED <<uartVars, picVars, hpc, ringVars, len, n, c, hist, dropped>>

PopLoad ==
  /\ MainAt("load")
  /\ c' = ring[tail]
  /\ mpc' = "advance"
  /\ UNCHANGED <<uartVars, picVars, hpc, ringVars, len, n, hist, dropped>>

PopAdvance ==
  /\ MainAt("advance")
  /\ tail' = (tail + 1) % RingSize
  /\ popped' = Append(popped, c)
  /\ n' = n + 1
  /\ c' = NoByte
  /\ mpc' = "pop"
  /\ UNCHANGED <<uartVars, picVars, hpc, ring, head, len, polled, ghosts, dropped>>

(* "while (n < len && (c = uart_poll_rx(UART1_BASE)) >= 0)": the LSR read.  *)
PollLsr ==
  /\ MainAt("poll")
  /\ mpc' = IF n < len /\ fifo # << >> THEN "rbr" ELSE "idle"
  /\ UNCHANGED <<uartVars, picVars, hpc, ringVars, len, n, c, hist, dropped>>

(* The RBR read, with LSR[DR] known from the earlier load. *)
PollRbr ==
  /\ MainAt("rbr") /\ fifo # << >>
  /\ fifo' = Tail(fifo)
  /\ polled' = polled \union {Head(fifo)}
  /\ n' = n + 1
  /\ mpc' = "poll"
  /\ UNCHANGED <<typed, picVars, hpc, ringVars, len, c, popped, ghosts, dropped>>

(* The handler emptied the FIFO between the LSR and the RBR read: what the  *)
(* UART returns is not a byte of the stream, and is delivered all the same. *)
PollRbrEmpty ==
  /\ MainAt("rbr") /\ fifo = << >>
  /\ ghosts' = ghosts + 1
  /\ n' = n + 1
  /\ mpc' = "poll"
  /\ UNCHANGED <<uartVars, picVars, hpc, ringVars, len, c, popped, polled, dropped>>

-----------------------------------------------------------------------------
Handler == HandlerAck \/ HandlerDrain \/ HandlerDrained \/ HandlerEoi

FailsafeRead ==
  \/ \E l \in ReadLens : ReadCall(l)
  \/ PopCheck \/ PopLoad \/ PopAdvance
  \/ PollLsr \/ PollRbr \/ PollRbrEmpty

Next == KeyArrives \/ TakeInterrupt \/ Handler \/ FailsafeRead

(* The CPU keeps executing, a pending unmasked interrupt is taken, and the  *)
(* console keeps calling failsafe_read (get_key loops until a byte comes).  *)
Fairness ==
  /\ WF_vars(TakeInterrupt)
  /\ WF_vars(Handler)
  /\ WF_vars(FailsafeRead)

Spec == Init /\ [][Next]_vars
FairSpec == Spec /\ Fairness

-----------------------------------------------------------------------------
\* The type of every variable; the indices of g_rx_ring stay inside it, by the
\* wrap of NextHead in uart_rx_handler and of tail in extint_uart_pop.
TypeOK ==
  /\ typed \in 0 .. MaxKeys
  /\ fifo \in Seq(Keys)
  /\ irr \in BOOLEAN /\ isr \in BOOLEAN
  /\ hpc \in {"idle", "ack", "drain", "eoi"}
  /\ ring \in [0 .. RingSize - 1 -> Keys \union {NoByte}]
  /\ head \in 0 .. RingSize - 1 /\ tail \in 0 .. RingSize - 1
  /\ mpc \in {"idle", "pop", "load", "advance", "poll", "rbr"}
  /\ len \in Nat /\ n \in Nat
  /\ c \in Keys \union {NoByte}
  /\ popped \in Seq(Keys \union {NoByte})
  /\ polled \subseteq Keys
  /\ ghosts \in Nat
  /\ dropped \subseteq Keys

-----------------------------------------------------------------------------
(* The ring as the queue it implements. *)

Unread == IF head >= tail THEN head - tail ELSE head + RingSize - tail
Slot(i) == IF tail + i - 1 < RingSize THEN tail + i - 1 ELSE tail + i - 1 - RingSize
RingQueue == [i \in 1 .. Unread |-> ring[Slot(i)]]

Queue == INSTANCE RxQueue WITH
  queue <- RingQueue, Capacity <- RingSize - 1

(* The ring of uart_rx_handler and extint_uart_pop behaves as a bounded     *)
(* FIFO queue, although the handler may run between the loads and the store *)
(* of a pop: no unread byte is overwritten, skipped or handed out twice.    *)
RingIsQueue == Queue!Spec

-----------------------------------------------------------------------------
(* Safety. *)

Elements(s) == {s[i] : i \in DOMAIN s}

(* Every byte that arrived is in exactly one place: the UART FIFO, the ring,*)
(* delivered through the ring, delivered by the direct poll, or dropped.    *)
(* The handler and failsafe_read share the UART and the ring without ever   *)
(* losing or copying a byte of the stream between the two.                  *)
EveryByteAccounted ==
  LET places == <<Elements(fifo), Elements(RingQueue), Elements(popped),
                  polled, dropped>>
  IN /\ UNION {places[i] : i \in DOMAIN places} = 1 .. typed
     /\ \A i, j \in DOMAIN places : i # j => places[i] \intersect places[j] = {}
     /\ \A i, j \in DOMAIN popped : i # j => popped[i] # popped[j]

(* No edge is lost: outside the drain loop a UART that still holds bytes    *)
(* has a request latched in the i8259, so the handler will run again even   *)
(* when the byte slipped in between the last LSR read and the EOI.          *)
NoLostEdge == fifo # << >> /\ hpc # "drain" => irr

(* The i8259 has IRQ 4 in service only while the handler is running; a      *)
(* return without EOI would silence the receive interrupt for good.         *)
InServiceOnlyInHandler == isr => hpc \in {"drain", "eoi"}

-----------------------------------------------------------------------------
(* Liveness, under FairSpec. *)

(* Every byte that reached the UART is read by the console or dropped: the  *)
(* acknowledge-drain-EOI discipline neither storms nor goes deaf.           *)
EveryByteRead ==
  \A k \in Keys :
    typed >= k ~> k \in Elements(popped) \union polled \union dropped

-----------------------------------------------------------------------------
(* What the repository says and the code does not do. *)

(* "every keystroke reaches the ring before SF even gets here"              *)
(* (failsafe_read): the direct poll never takes a byte while the interrupt  *)
(* path is armed.                                                           *)
EveryKeystrokeThroughRing == polled = {}

(* "or -1 if the UART has no data pending" (uart_poll_rx): failsafe_read    *)
(* never reports a byte the UART did not hold.                              *)
NoByteFromEmptyUart == ghosts = 0
=============================================================================

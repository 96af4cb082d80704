------------------------- MODULE UartConsoleProofs -------------------------
(***************************************************************************)
(* Theorems about UartConsole for every ring size, FIFO depth, set of read *)
(* lengths and number of bytes: types, the interrupt discipline of         *)
(* uart_rx_handler, that the ring implements RxQueue, and that every byte  *)
(* stays accounted for.                                                    *)
(***************************************************************************)
EXTENDS UartConsole, SequenceTheorems, TLAPS

(* The ring index arithmetic of extint.c, without the modulo. *)
LEMMA WrapLemma ==
  ASSUME NEW h \in 0 .. RingSize - 1
  PROVE  (h + 1) % RingSize = IF h + 1 = RingSize THEN 0 ELSE h + 1
<1>1. RingSize \in Nat /\ RingSize > 1
  BY RingSizeAssumption
<1>2. CASE h + 1 = RingSize
  BY <1>1, <1>2, SMT
<1>3. CASE h + 1 < RingSize
  BY <1>1, <1>3, SMT
<1>4. QED
  BY <1>1, <1>2, <1>3

LEMMA InitTypeOK == Init => TypeOK
  BY RingSizeAssumption, MaxKeysAssumption DEF Init, TypeOK, NoByte

(* Every step of the wire, the handler and failsafe_read keeps the types. *)
LEMMA NextTypeOK == TypeOK /\ [Next]_vars => TypeOK'
<1> SUFFICES ASSUME TypeOK, [Next]_vars PROVE TypeOK'
  OBVIOUS
<1> USE RingSizeAssumption, FifoDepthAssumption, ReadLensAssumption,
        MaxKeysAssumption DEF TypeOK, uartVars, picVars, ringVars, mainVars, hist
<1>1. CASE KeyArrives
  <2>1. typed + 1 \in Keys /\ typed' \in 0 .. MaxKeys
    BY <1>1 DEF KeyArrives, Keys
  <2>2. irr' \in BOOLEAN
    BY <1>1, Zenon DEF KeyArrives
  <2>3. fifo' \in Seq(Keys) /\ dropped' \subseteq Keys
    <3>1. CASE Len(fifo) < FifoDepth
      <4>1. fifo' = Append(fifo, typed + 1) /\ dropped' = dropped
        BY <1>1, <3>1 DEF KeyArrives
      <4>2. QED
        BY <2>1, <4>1
    <3>2. CASE ~(Len(fifo) < FifoDepth)
      <4>1. fifo' = fifo /\ dropped' = dropped \union {typed + 1}
        BY <1>1, <3>2 DEF KeyArrives
      <4>2. QED
        BY <2>1, <4>1
    <3>3. QED
      BY <3>1, <3>2
  <2>4. QED
    BY <1>1, <2>1, <2>2, <2>3 DEF KeyArrives
<1>2. CASE TakeInterrupt
  BY <1>2 DEF TakeInterrupt
<1>3. CASE HandlerAck
  BY <1>3 DEF HandlerAck
<1>4. CASE HandlerDrain
  <2>1. NextHead \in 0 .. RingSize - 1
    BY WrapLemma DEF NextHead
  <2>2. Head(fifo) \in Keys /\ Tail(fifo) \in Seq(Keys)
    BY <1>4 DEF HandlerDrain
  <2>3. /\ ring' \in [0 .. RingSize - 1 -> Keys \union {NoByte}]
        /\ head' \in 0 .. RingSize - 1
        /\ dropped' \subseteq Keys
        /\ tail' = tail
    BY <1>4, <2>1, <2>2 DEF HandlerDrain, StoreByte
  <2>4. QED
    BY <1>4, <2>2, <2>3 DEF HandlerDrain
<1>5. CASE HandlerDrained
  BY <1>5 DEF HandlerDrained
<1>6. CASE HandlerEoi
  BY <1>6 DEF HandlerEoi
<1>7. CASE \E l \in ReadLens : ReadCall(l)
  BY <1>7 DEF ReadCall, MainAt
<1>8. CASE PopCheck
  BY <1>8 DEF PopCheck, MainAt
<1>9. CASE PopLoad
  BY <1>9 DEF PopLoad, MainAt
<1>10. CASE PopAdvance
  <2>1. tail' \in 0 .. RingSize - 1
    BY <1>10, WrapLemma DEF PopAdvance
  <2>2. QED
    BY <1>10, <2>1 DEF PopAdvance, MainAt
<1>11. CASE PollLsr
  BY <1>11 DEF PollLsr, MainAt
<1>12. CASE PollRbr
  <2>1. Head(fifo) \in Keys /\ Tail(fifo) \in Seq(Keys)
    BY <1>12 DEF PollRbr
  <2>2. QED
    BY <1>12, <2>1 DEF PollRbr, MainAt
<1>13. CASE PollRbrEmpty
  BY <1>13 DEF PollRbrEmpty, MainAt
<1>14. CASE UNCHANGED vars
  BY <1>14 DEF vars
<1>15. QED
  BY <1>1, <1>2, <1>3, <1>4, <1>5, <1>6, <1>7, <1>8, <1>9, <1>10, <1>11,
     <1>12, <1>13, <1>14 DEF Next, Handler, FailsafeRead

(* The indices of extint.c's ring stay inside the ring, and every variable *)
(* of the console path keeps its type, in every reachable state.           *)
THEOREM TypeCorrect == Spec => []TypeOK
  BY InitTypeOK, NextTypeOK, PTL DEF Spec

-----------------------------------------------------------------------------
(* The interrupt discipline. *)

(* uart_rx_handler's acknowledge, drain, EOI order loses no edge and leaves *)
(* no interrupt in service, whatever arrives between its steps: as long as  *)
(* bytes wait in the UART, the i8259 holds a request for them.              *)
THEOREM InterruptDiscipline == Spec => [](NoLostEdge /\ InServiceOnlyInHandler)
<1> DEFINE Inv == NoLostEdge /\ InServiceOnlyInHandler
<1>1. Init => Inv
  BY DEF Init, NoLostEdge, InServiceOnlyInHandler
<1>2. TypeOK /\ Inv /\ [Next]_vars => Inv'
  <2> SUFFICES ASSUME TypeOK, Inv, [Next]_vars PROVE Inv'
    OBVIOUS
  <2> USE DEF NoLostEdge, InServiceOnlyInHandler, TypeOK,
              uartVars, picVars, ringVars, mainVars, hist
  <2>1. CASE KeyArrives
    BY <2>1 DEF KeyArrives
  <2>2. CASE TakeInterrupt
    BY <2>2 DEF TakeInterrupt
  <2>3. CASE Handler
    BY <2>3 DEF Handler, HandlerAck, HandlerDrain, HandlerDrained, HandlerEoi
  <2>4. CASE PollRbr
    <3>1. fifo # << >> /\ hpc = "idle" /\ hpc' = hpc /\ irr' = irr /\ isr' = isr
      BY <2>4 DEF PollRbr, MainAt
    <3>2. QED
      BY <3>1
  <2>5. CASE FailsafeRead /\ ~PollRbr
    <3>1. fifo' = fifo /\ hpc' = hpc /\ irr' = irr /\ isr' = isr
      BY <2>5 DEF FailsafeRead, ReadCall, PopCheck, PopLoad, PopAdvance,
                  PollLsr, PollRbrEmpty
    <3>2. QED
      BY <3>1
  <2>6. CASE UNCHANGED vars
    BY <2>6 DEF vars
  <2>7. QED
    BY <2>1, <2>2, <2>3, <2>4, <2>5, <2>6 DEF Next
<1>3. QED
  BY <1>1, <1>2, TypeCorrect, PTL DEF Spec

-----------------------------------------------------------------------------
(* The ring implements the queue. *)

(* What extint_uart_pop knows between its loads and its store: the ring it  *)
(* found non-empty is still non-empty, and the byte it loaded is still the  *)
(* oldest, because the handler never moves tail and never overwrites a slot *)
(* that holds an unread byte.                                               *)
PopInv ==
  /\ mpc \in {"load", "advance"} => head # tail
  /\ mpc = "advance" => c = ring[tail]

LEMMA StepPopInv == TypeOK /\ PopInv /\ [Next]_vars => PopInv'
<1> SUFFICES ASSUME TypeOK, PopInv, [Next]_vars PROVE PopInv'
  OBVIOUS
<1> USE DEF PopInv, uartVars, picVars, ringVars, mainVars, hist
<1>1. CASE HandlerDrain
  <2>1. /\ head \in 0 .. RingSize - 1 /\ tail \in 0 .. RingSize - 1
        /\ ring \in [0 .. RingSize - 1 -> Keys \union {NoByte}]
    BY DEF TypeOK
  <2>2. mpc' = mpc /\ c' = c /\ tail' = tail
    BY <1>1 DEF HandlerDrain, StoreByte
  <2>3. CASE NextHead # tail
    BY <1>1, <2>1, <2>2, <2>3 DEF HandlerDrain, StoreByte
  <2>4. CASE NextHead = tail
    BY <1>1, <2>1, <2>2, <2>4 DEF HandlerDrain, StoreByte
  <2>5. QED
    BY <2>3, <2>4
<1>2. CASE PopCheck \/ PopLoad \/ PopAdvance
  BY <1>2 DEF PopCheck, PopLoad, PopAdvance, MainAt
<1>3. CASE KeyArrives \/ TakeInterrupt \/ HandlerAck \/ HandlerDrained \/ HandlerEoi
  BY <1>3 DEF KeyArrives, TakeInterrupt, HandlerAck, HandlerDrained, HandlerEoi
<1>4. CASE \E l \in ReadLens : ReadCall(l)
  BY <1>4 DEF ReadCall, MainAt
<1>5. CASE PollLsr \/ PollRbr \/ PollRbrEmpty
  BY <1>5 DEF PollLsr, PollRbr, PollRbrEmpty, MainAt
<1>6. CASE UNCHANGED vars
  BY <1>6 DEF vars
<1>7. QED
  BY <1>1, <1>2, <1>3, <1>4, <1>5, <1>6 DEF Next, Handler, FailsafeRead

(* Storing at head with the ring not full is Append on the abstract queue. *)
LEMMA StoreAppends ==
  ASSUME TypeOK, NEW k \in Keys, NextHead # tail, StoreByte(k)
  PROVE  /\ RingQueue' = Append(RingQueue, k)
         /\ Len(RingQueue) < RingSize - 1
<1>1. /\ head \in 0 .. RingSize - 1 /\ tail \in 0 .. RingSize - 1
      /\ ring \in [0 .. RingSize - 1 -> Keys \union {NoByte}]
      /\ RingSize \in Nat /\ RingSize > 1
  BY RingSizeAssumption DEF TypeOK
<1>2. NextHead = IF head + 1 = RingSize THEN 0 ELSE head + 1
  BY <1>1, WrapLemma DEF NextHead
<1>3. /\ ring' = [ring EXCEPT ![head] = k]
      /\ head' = NextHead /\ tail' = tail
  BY DEF StoreByte
<1>4. Unread \in Nat /\ Unread < RingSize - 1 /\ Unread' = Unread + 1
  BY <1>1, <1>2, <1>3 DEF Unread
<1>5. \A i \in 1 .. Unread : Slot(i)' = Slot(i) /\ Slot(i) # head
                             /\ Slot(i) \in 0 .. RingSize - 1
  BY <1>1, <1>3, <1>4 DEF Unread, Slot
<1>6. \A i \in 1 .. Unread + 1 : i = Unread + 1 => Slot(i)' = head
  BY <1>1, <1>3, <1>4 DEF Unread, Slot
<1> DEFINE S == Keys \union {NoByte}
           e(i) == IF i = Unread + 1 THEN k ELSE ring[Slot(i)]
<1>7. /\ Len(RingQueue) = Unread /\ RingQueue \in Seq(S)
      /\ \A i \in 1 .. Unread : RingQueue[i] = ring[Slot(i)]
  BY <1>1, <1>4, <1>5 DEF RingQueue
<1>8. \A i \in 1 .. Unread + 1 : ring'[Slot(i)'] = e(i) /\ e(i) \in S
  <2> TAKE i \in 1 .. Unread + 1
  <2>1. CASE i = Unread + 1
    BY <1>1, <1>3, <1>6, <2>1
  <2>2. CASE i \in 1 .. Unread
    BY <1>1, <1>3, <1>4, <1>5, <2>2
  <2>3. QED
    BY <1>4, <2>1, <2>2
<1>9. RingQueue' = [i \in 1 .. Unread + 1 |-> ring'[Slot(i)']]
  BY <1>4 DEF RingQueue
<1>10. RingQueue' = [i \in 1 .. Unread + 1 |-> e(i)]
  BY <1>8, <1>9
<1>11. /\ RingQueue' \in Seq(S) /\ Len(RingQueue') = Unread + 1
       /\ \A i \in 1 .. Unread + 1 : RingQueue'[i] = e(i)
  <2> HIDE DEF e, S
  <2> QED BY <1>4, <1>8, <1>10
<1>12. /\ Append(RingQueue, k) \in Seq(S) /\ Len(Append(RingQueue, k)) = Unread + 1
       /\ \A i \in 1 .. Unread + 1 : Append(RingQueue, k)[i] = e(i)
  BY <1>4, <1>7
<1>13. RingQueue' = Append(RingQueue, k)
  <2> HIDE DEF e, S
  <2> QED BY <1>11, <1>12, SeqEqual
<1>14. QED
  BY <1>4, <1>7, <1>13

(* Advancing tail on a ring that is not empty is Tail on the queue. *)
LEMMA AdvanceTails ==
  ASSUME TypeOK, head # tail,
         tail' = (tail + 1) % RingSize, ring' = ring, head' = head
  PROVE  /\ RingQueue # << >>
         /\ Head(RingQueue) = ring[tail]
         /\ RingQueue' = Tail(RingQueue)
<1>1. /\ head \in 0 .. RingSize - 1 /\ tail \in 0 .. RingSize - 1
      /\ ring \in [0 .. RingSize - 1 -> Keys \union {NoByte}]
      /\ RingSize \in Nat /\ RingSize > 1
  BY RingSizeAssumption DEF TypeOK
<1>2. tail' = IF tail + 1 = RingSize THEN 0 ELSE tail + 1
  BY <1>1, WrapLemma
<1>3. Unread \in Nat /\ Unread > 0 /\ Unread' = Unread - 1
  BY <1>1, <1>2 DEF Unread
<1>4. \A i \in 1 .. Unread : Slot(i) \in 0 .. RingSize - 1
  BY <1>1, <1>3 DEF Unread, Slot
<1>5. \A i \in 1 .. Unread - 1 : Slot(i)' = Slot(i + 1)
  BY <1>1, <1>2, <1>3 DEF Unread, Slot
<1>6. Slot(1) = tail
  BY <1>1 DEF Slot
<1> DEFINE S == Keys \union {NoByte}
           e(i) == ring[Slot(i + 1)]
<1>7. /\ Len(RingQueue) = Unread /\ RingQueue \in Seq(S)
      /\ \A i \in 1 .. Unread : RingQueue[i] = ring[Slot(i)]
  BY <1>1, <1>3, <1>4 DEF RingQueue
<1>8. RingQueue' = [i \in 1 .. Unread - 1 |-> e(i)]
  BY <1>3, <1>5 DEF RingQueue
<1>9. \A i \in 1 .. Unread - 1 : e(i) \in S
  BY <1>1, <1>3, <1>4
<1>10. /\ RingQueue' \in Seq(S) /\ Len(RingQueue') = Unread - 1
       /\ \A i \in 1 .. Unread - 1 : RingQueue'[i] = e(i)
  <2> HIDE DEF e, S
  <2> QED BY <1>3, <1>8, <1>9
<1>11. RingQueue # << >> /\ Head(RingQueue) = ring[tail]
  BY <1>3, <1>6, <1>7
<1>12. /\ Tail(RingQueue) \in Seq(S) /\ Len(Tail(RingQueue)) = Unread - 1
       /\ \A i \in 1 .. Unread - 1 : Tail(RingQueue)[i] = e(i)
  <2>1. \A i \in 1 .. Unread - 1 : RingQueue[i + 1] = e(i)
    BY <1>3, <1>7
  <2> HIDE DEF e, S
  <2> QED BY <1>3, <1>7, <1>11, <2>1, HeadTailProperties
<1>13. RingQueue' = Tail(RingQueue)
  <2> HIDE DEF e, S
  <2> QED BY <1>10, <1>12, SeqEqual
<1>14. QED
  BY <1>11, <1>13

(* The ring of extint.c, with its lock-free producer in the interrupt       *)
(* handler and its consumer interruptible between any two accesses, is a    *)
(* bounded FIFO queue for every ring size and every arrival order.          *)
THEOREM RingImplementsQueue == Spec => RingIsQueue
<1>1. Init => Queue!Init
  BY RingSizeAssumption DEF Init, Queue!Init, RingQueue, Unread
<1>2. Init => PopInv
  BY DEF Init, PopInv
<1>3. TypeOK /\ PopInv /\ [Next]_vars => [Queue!Next]_(Queue!vars)
  <2> SUFFICES ASSUME TypeOK, PopInv, [Next]_vars
               PROVE  [Queue!Next]_(Queue!vars)
    OBVIOUS
  <2> USE DEF uartVars, picVars, ringVars, mainVars, hist
  <2>1. ASSUME ringVars' = ringVars, popped' = popped
        PROVE  UNCHANGED Queue!vars
    BY <2>1 DEF Queue!vars, RingQueue, Unread, Slot
  <2>2. CASE HandlerDrain
    <3>1. Head(fifo) \in Keys /\ popped' = popped /\ StoreByte(Head(fifo))
      BY <2>2 DEF HandlerDrain, TypeOK
    <3>2. CASE NextHead # tail
      <4>1. RingQueue' = Append(RingQueue, Head(fifo)) /\ Len(RingQueue) < RingSize - 1
        BY <3>1, <3>2, StoreAppends
      <4>2. QED
        BY <3>1, <4>1 DEF Queue!Next, Queue!Push
    <3>3. CASE NextHead = tail
      BY <2>1, <3>1, <3>3 DEF StoreByte
    <3>4. QED
      BY <3>2, <3>3
  <2>3. CASE PopAdvance
    <3>1. /\ head # tail /\ c = ring[tail]
          /\ tail' = (tail + 1) % RingSize /\ ring' = ring /\ head' = head
          /\ popped' = Append(popped, c)
      BY <2>3 DEF PopAdvance, MainAt, PopInv
    <3>2. /\ RingQueue # << >> /\ Head(RingQueue) = c
          /\ RingQueue' = Tail(RingQueue)
      BY <3>1, AdvanceTails
    <3>3. QED
      BY <3>1, <3>2 DEF Queue!Next, Queue!Pop
  <2>4. CASE KeyArrives \/ TakeInterrupt \/ HandlerAck \/ HandlerDrained \/ HandlerEoi
    BY <2>1, <2>4 DEF KeyArrives, TakeInterrupt, HandlerAck, HandlerDrained, HandlerEoi
  <2>5. CASE FailsafeRead /\ ~PopAdvance
    BY <2>1, <2>5 DEF FailsafeRead, ReadCall, PopCheck, PopLoad, PollLsr,
                      PollRbr, PollRbrEmpty
  <2>6. CASE UNCHANGED vars
    BY <2>1, <2>6 DEF vars
  <2>7. QED
    BY <2>2, <2>3, <2>4, <2>5, <2>6 DEF Next, Handler
<1>4. QED
  BY <1>1, <1>2, <1>3, StepPopInv, TypeCorrect, PTL DEF Spec, RingIsQueue, Queue!Spec
-----------------------------------------------------------------------------
(* Where every byte is. *)

Distinct(s) == \A i, j \in DOMAIN s : i # j => s[i] # s[j]

LEMMA AppendElements ==
  ASSUME NEW S, NEW s \in Seq(S), NEW e \in S
  PROVE  /\ Elements(Append(s, e)) = Elements(s) \union {e}
         /\ Distinct(s) /\ e \notin Elements(s) => Distinct(Append(s, e))
<1> DEFINE t == Append(s, e)
<1>1. /\ Len(s) \in Nat /\ DOMAIN s = 1 .. Len(s)
      /\ DOMAIN t = 1 .. Len(s) + 1 /\ t[Len(s) + 1] = e
      /\ \A i \in 1 .. Len(s) : t[i] = s[i]
  OBVIOUS
<1> HIDE DEF t
<1>2. Elements(t) = Elements(s) \union {e}
  <2>1. \A x \in Elements(t) : x \in Elements(s) \union {e}
    BY <1>1 DEF Elements
  <2>2. \A x \in Elements(s) \union {e} : x \in Elements(t)
    BY <1>1 DEF Elements
  <2>3. QED
    BY <2>1, <2>2
<1>3. ASSUME Distinct(s), e \notin Elements(s)
      PROVE  Distinct(t)
  BY <1>1, <1>3 DEF Distinct, Elements
<1>4. QED
  BY <1>2, <1>3 DEF t

LEMMA TailElements ==
  ASSUME NEW S, NEW s \in Seq(S), s # << >>, Distinct(s)
  PROVE  /\ Head(s) \in Elements(s)
         /\ Elements(Tail(s)) = Elements(s) \ {Head(s)}
         /\ Distinct(Tail(s))
<1> DEFINE t == Tail(s)
           h == Head(s)
<1>1. /\ Len(s) \in Nat /\ Len(s) > 0 /\ DOMAIN s = 1 .. Len(s) /\ h = s[1]
  OBVIOUS
<1>2. /\ DOMAIN t = 1 .. Len(s) - 1
      /\ \A i \in 1 .. Len(s) - 1 : t[i] = s[i + 1]
  BY HeadTailProperties
<1> HIDE DEF t, h
<1>3. h \in Elements(s)
  BY <1>1 DEF Elements
<1>4. \A x \in Elements(t) : x \in Elements(s) \ {h}
  <2> SUFFICES ASSUME NEW i \in 1 .. Len(s) - 1
               PROVE  s[i + 1] \in Elements(s) /\ s[i + 1] # h
    BY <1>2 DEF Elements
  <2>1. i + 1 \in DOMAIN s /\ 1 \in DOMAIN s /\ i + 1 # 1
    BY <1>1
  <2>2. QED
    BY <1>1, <2>1 DEF Elements, Distinct
<1>5. \A x \in Elements(s) \ {h} : x \in Elements(t)
  <2> SUFFICES ASSUME NEW i \in 1 .. Len(s), s[i] # h
               PROVE  s[i] \in Elements(t)
    BY <1>1 DEF Elements
  <2>1. i - 1 \in 1 .. Len(s) - 1 /\ (i - 1) + 1 = i
    BY <1>1
  <2>2. QED
    BY <1>2, <2>1 DEF Elements
<1>6. Distinct(t)
  <2> SUFFICES ASSUME NEW i \in 1 .. Len(s) - 1, NEW j \in 1 .. Len(s) - 1, i # j
               PROVE  s[i + 1] # s[j + 1]
    BY <1>2 DEF Distinct
  <2>1. i + 1 \in DOMAIN s /\ j + 1 \in DOMAIN s /\ i + 1 # j + 1
    BY <1>1
  <2>2. QED
    BY <2>1 DEF Distinct
<1>7. QED
  BY <1>3, <1>4, <1>5, <1>6 DEF t, h

(* The sets F, R, P, L and D partition the bytes 1 .. t. *)
Parted(F, R, P, L, D, t) ==
  /\ F \union R \union P \union L \union D = 1 .. t
  /\ F \intersect R = {} /\ F \intersect P = {} /\ F \intersect L = {}
  /\ F \intersect D = {} /\ R \intersect P = {} /\ R \intersect L = {}
  /\ R \intersect D = {} /\ P \intersect L = {} /\ P \intersect D = {}
  /\ L \intersect D = {}

(* The bytes are parted, and no sequence holds one twice: without the      *)
(* latter a Tail would not take its byte out of the FIFO or of the ring.   *)
AccountInv ==
  /\ Parted(Elements(fifo), Elements(RingQueue), Elements(popped),
            polled, dropped, typed)
  /\ Distinct(fifo) /\ Distinct(RingQueue) /\ Distinct(popped)

LEMMA AccountGivesProperty == AccountInv => EveryByteAccounted
<1> SUFFICES ASSUME AccountInv PROVE EveryByteAccounted
  OBVIOUS
<1> DEFINE F == Elements(fifo)
           R == Elements(RingQueue)
           P == Elements(popped)
           places == <<F, R, P, polled, dropped>>
<1>1. Parted(F, R, P, polled, dropped, typed)
  BY DEF AccountInv
<1>2. \A i, j \in DOMAIN popped : i # j => popped[i] # popped[j]
  BY DEF AccountInv, Distinct
<1> HIDE DEF F, R, P
<1>3. DOMAIN places = 1 .. 5
  OBVIOUS
<1>4. UNION {places[i] : i \in DOMAIN places} = 1 .. typed
  <2>1. UNION {places[i] : i \in 1 .. 5} = F \union R \union P \union polled \union dropped
    OBVIOUS
  <2>2. QED
    BY <1>1, <1>3, <2>1 DEF Parted
<1>5. \A i, j \in DOMAIN places : i # j => places[i] \intersect places[j] = {}
  BY <1>1, <1>3 DEF Parted
<1>6. QED
  BY <1>2, <1>4, <1>5 DEF EveryByteAccounted, F, R, P

(* The ring holds typed bytes, so that its queue is a sequence. *)
LEMMA RingQueueType ==
  ASSUME TypeOK
  PROVE  RingQueue \in Seq(Keys \union {NoByte})
<1>1. /\ head \in 0 .. RingSize - 1 /\ tail \in 0 .. RingSize - 1
      /\ ring \in [0 .. RingSize - 1 -> Keys \union {NoByte}]
      /\ RingSize \in Nat /\ RingSize > 1
  BY RingSizeAssumption DEF TypeOK
<1>2. Unread \in Nat /\ \A i \in 1 .. Unread : Slot(i) \in 0 .. RingSize - 1
  BY <1>1 DEF Unread, Slot
<1>3. QED
  BY <1>1, <1>2 DEF RingQueue

LEMMA InitAccount == Init => AccountInv
<1> SUFFICES ASSUME Init PROVE AccountInv
  OBVIOUS
<1>1. RingQueue = << >>
  BY RingSizeAssumption DEF Init, RingQueue, Unread
<1>2. Elements(<< >>) = {} /\ Distinct(<< >>)
  BY DEF Elements, Distinct
<1>3. /\ fifo = << >> /\ popped = << >> /\ polled = {} /\ dropped = {} /\ typed = 0
  BY DEF Init
<1>4. Parted({}, {}, {}, {}, {}, 0)
  BY DEF Parted
<1>5. QED
  BY <1>1, <1>2, <1>3, <1>4 DEF AccountInv

(* A byte arrives, is moved by uart_rx_handler or is taken by failsafe_read:*)
(* it leaves the place it was in and enters one other.                      *)
LEMMA StepAccount == TypeOK /\ PopInv /\ AccountInv /\ [Next]_vars => AccountInv'
<1> SUFFICES ASSUME TypeOK, PopInv, AccountInv, [Next]_vars PROVE AccountInv'
  OBVIOUS
<1> DEFINE F == Elements(fifo)
           R == Elements(RingQueue)
           P == Elements(popped)
<1>p. Parted(F, R, P, polled, dropped, typed)
  BY DEF AccountInv
<1>d. Distinct(fifo) /\ Distinct(RingQueue) /\ Distinct(popped)
  BY DEF AccountInv
<1>t. /\ fifo \in Seq(Keys) /\ RingQueue \in Seq(Keys \union {NoByte})
      /\ popped \in Seq(Keys \union {NoByte}) /\ typed \in Nat
  BY RingQueueType, MaxKeysAssumption DEF TypeOK
<1> USE DEF uartVars, picVars, ringVars, mainVars, hist
<1>q. ASSUME ringVars' = ringVars PROVE RingQueue' = RingQueue
  BY <1>q DEF RingQueue, Unread, Slot
<1>1. CASE KeyArrives
  <2> DEFINE k == typed + 1
  <2>1. /\ RingQueue' = RingQueue /\ popped' = popped /\ polled' = polled
        /\ typed' = k
    BY <1>1, <1>q DEF KeyArrives
  <2>2. k \in Keys /\ k \notin 1 .. typed /\ 1 .. k = (1 .. typed) \union {k}
    BY <1>1, <1>t, MaxKeysAssumption DEF KeyArrives, Keys
  <2>3. CASE Len(fifo) < FifoDepth
    <3>1. fifo' = Append(fifo, k) /\ dropped' = dropped
      BY <1>1, <2>3 DEF KeyArrives
    <3>2. k \notin F
      BY <1>p, <2>2, Zenon DEF Parted
    <3> HIDE DEF k
    <3>3. Elements(fifo') = F \union {k} /\ Distinct(fifo')
      BY <1>t, <1>d, <2>2, <3>1, <3>2, AppendElements
    <3> HIDE DEF F, R, P
    <3>4. Parted(F \union {k}, R, P, polled, dropped, k)
      BY <1>p, <2>2 DEF Parted
    <3>5. QED
      BY <1>d, <2>1, <3>1, <3>3, <3>4, Zenon DEF AccountInv, R, P
  <2>4. CASE ~(Len(fifo) < FifoDepth)
    <3>1. fifo' = fifo /\ dropped' = dropped \union {k}
      BY <1>1, <2>4 DEF KeyArrives
    <3> HIDE DEF k, F, R, P
    <3>2. Parted(F, R, P, polled, dropped \union {k}, k)
      BY <1>p, <2>2 DEF Parted
    <3>3. QED
      BY <1>d, <2>1, <3>1, <3>2, Zenon DEF AccountInv, F, R, P
  <2>5. QED
    BY <2>3, <2>4
<1>2. CASE HandlerDrain
  <2> DEFINE k == Head(fifo)
  <2>1. /\ fifo # << >> /\ fifo' = Tail(fifo) /\ StoreByte(k)
        /\ typed' = typed /\ popped' = popped /\ polled' = polled
    BY <1>2 DEF HandlerDrain
  <2>2. k \in F /\ Elements(fifo') = F \ {k} /\ Distinct(fifo') /\ k \in Keys
    BY <1>t, <1>d, <2>1, TailElements
  <2> HIDE DEF k
  <2>3. CASE NextHead # tail
    <3>1. RingQueue' = Append(RingQueue, k) /\ dropped' = dropped
      BY <2>1, <2>2, <2>3, StoreAppends DEF StoreByte
    <3>2. k \notin R
      BY <1>p, <2>2, Zenon DEF Parted
    <3>3. Elements(RingQueue') = R \union {k} /\ Distinct(RingQueue')
      BY <1>t, <1>d, <2>2, <3>1, <3>2, AppendElements
    <3> HIDE DEF F, R, P
    <3>4. Parted(F \ {k}, R \union {k}, P, polled, dropped, typed)
      BY <1>p, <2>2 DEF Parted
    <3>5. QED
      BY <1>d, <2>1, <2>2, <3>1, <3>3, <3>4, Zenon DEF AccountInv, F, R, P
  <2>4. CASE NextHead = tail
    <3>1. RingQueue' = RingQueue /\ dropped' = dropped \union {k}
      BY <1>q, <2>1, <2>4 DEF StoreByte
    <3> HIDE DEF F, R, P
    <3>2. Parted(F \ {k}, R, P, polled, dropped \union {k}, typed)
      BY <1>p, <2>2 DEF Parted
    <3>3. QED
      BY <1>d, <2>1, <2>2, <3>1, <3>2, Zenon DEF AccountInv, F, R, P
  <2>5. QED
    BY <2>3, <2>4
<1>3. CASE PopAdvance
  <2>1. /\ head # tail /\ c = ring[tail]
        /\ tail' = (tail + 1) % RingSize /\ ring' = ring /\ head' = head
        /\ popped' = Append(popped, c) /\ c \in Keys \union {NoByte}
        /\ fifo' = fifo /\ polled' = polled /\ dropped' = dropped /\ typed' = typed
    BY <1>3 DEF PopAdvance, MainAt, PopInv, TypeOK
  <2>2. /\ RingQueue # << >> /\ Head(RingQueue) = c
        /\ RingQueue' = Tail(RingQueue)
    BY <2>1, AdvanceTails
  <2>3. c \in R /\ Elements(RingQueue') = R \ {c} /\ Distinct(RingQueue')
    BY <1>t, <1>d, <2>2, TailElements
  <2>4. c \notin P
    BY <1>p, <2>3, Zenon DEF Parted
  <2>5. Elements(popped') = P \union {c} /\ Distinct(popped')
    BY <1>t, <1>d, <2>1, <2>4, AppendElements
  <2> HIDE DEF F, R, P
  <2>6. Parted(F, R \ {c}, P \union {c}, polled, dropped, typed)
    BY <1>p, <2>3 DEF Parted
  <2>7. QED
    BY <1>d, <2>1, <2>3, <2>5, <2>6, Zenon DEF AccountInv, F, R, P
<1>4. CASE PollRbr
  <2> DEFINE k == Head(fifo)
  <2>1. /\ fifo # << >> /\ fifo' = Tail(fifo) /\ polled' = polled \union {k}
        /\ RingQueue' = RingQueue /\ popped' = popped /\ dropped' = dropped
        /\ typed' = typed
    BY <1>4, <1>q DEF PollRbr, MainAt
  <2>2. k \in F /\ Elements(fifo') = F \ {k} /\ Distinct(fifo')
    BY <1>t, <1>d, <2>1, TailElements
  <2> HIDE DEF k, F, R, P
  <2>3. Parted(F \ {k}, R, P, polled \union {k}, dropped, typed)
    BY <1>p, <2>2 DEF Parted
  <2>4. QED
    BY <1>d, <2>1, <2>2, <2>3, Zenon DEF AccountInv, F, R, P
<1>5. ASSUME UNCHANGED <<typed, fifo, ringVars, popped, polled, dropped>>
      PROVE  AccountInv'
  <2>1. RingQueue' = RingQueue
    BY <1>5, <1>q
  <2>2. /\ typed' = typed /\ fifo' = fifo /\ popped' = popped
        /\ polled' = polled /\ dropped' = dropped
    BY <1>5
  <2>3. QED
    BY <1>p, <1>d, <2>1, <2>2, Zenon DEF AccountInv
<1>6. CASE TakeInterrupt \/ HandlerAck \/ HandlerDrained \/ HandlerEoi
  BY <1>5, <1>6 DEF TakeInterrupt, HandlerAck, HandlerDrained, HandlerEoi
<1>7. CASE FailsafeRead /\ ~PopAdvance /\ ~PollRbr
  BY <1>5, <1>7 DEF FailsafeRead, ReadCall, PopCheck, PopLoad, PollLsr, PollRbrEmpty
<1>8. CASE UNCHANGED vars
  BY <1>5, <1>8 DEF vars
<1>9. QED
  BY <1>1, <1>2, <1>3, <1>4, <1>6, <1>7, <1>8 DEF Next, Handler

(* Between wire and console no byte is lost silently, copied or handed out  *)
(* twice, for every ring size, FIFO depth and interleaving of the handler   *)
(* with failsafe_read's two ways of taking a byte.                          *)
THEOREM ByteAccounting == Spec => []EveryByteAccounted
<1>1. Init => PopInv
  BY DEF Init, PopInv
<1>2. QED
  BY <1>1, InitAccount, StepPopInv, StepAccount, AccountGivesProperty,
     TypeCorrect, PTL DEF Spec
=============================================================================

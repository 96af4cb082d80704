------------------------------ MODULE RxQueue ------------------------------
(***************************************************************************)
(* What the receive ring of machdep/pegasos2/extint.c promises: a bounded  *)
(* first-in first-out queue of received bytes.  The producer is the UART   *)
(* receive interrupt handler, the consumer is extint_uart_pop().           *)
(* UartConsole implements it with g_rx_ring, g_rx_head and g_rx_tail.      *)
(***************************************************************************)
EXTENDS Naturals, Sequences

CONSTANTS
  Keys,       \* the bytes that may be received
  Capacity    \* how many unread bytes the queue can hold

VARIABLES
  queue,      \* unread bytes, oldest first
  popped      \* every byte handed to the consumer, in the order of the pops

vars == <<queue, popped>>

Init ==
  /\ queue = << >>
  /\ popped = << >>

Push(k) ==
  /\ Len(queue) < Capacity
  /\ queue' = Append(queue, k)
  /\ UNCHANGED popped

Pop ==
  /\ queue # << >>
  /\ popped' = Append(popped, Head(queue))
  /\ queue' = Tail(queue)

Next == Pop \/ \E k \in Keys : Push(k)

Spec == Init /\ [][Next]_vars
=============================================================================

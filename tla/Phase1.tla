------------------------------- MODULE Phase1 -------------------------------
(***************************************************************************)
(* From the reset vector to main(): the order in which reset.S and         *)
(* phase1_c_main bring up memory, the exception vectors, the millisecond   *)
(* decrementer and the external-interrupt cascade, and what an interrupt   *)
(* meets when it arrives in between.                                       *)
(*                                                                         *)
(*   UART1 IER -> i8259 IRQ 4 mask -> GPP31 mask -> cause 59 ->            *)
(*   CPU0_MASK -> MSR[EE] -> vector 0x500 -> g_ei_handlers[59]             *)
(*                                                                         *)
(* The mainline takes one step per store that opens or closes one of these *)
(* gates.  Interrupts are taken between any two of its steps, and run to   *)
(* completion: a handler is entered with MSR[EE]=0.  A pending, enabled    *)
(* interrupt goes before the mainline.                                     *)
(***************************************************************************)
EXTENDS Naturals

CONSTANTS
  DecReload,   \* the reload value timer_calibrate computes
  TickMod,     \* bound: _ms_tick_count is kept modulo this (2^32)
  MaxKeys      \* bound: how many keys are pressed

ASSUME DecReloadAssumption == DecReload \in Nat \ {0}
ASSUME TickModAssumption == TickMod \in Nat /\ TickMod > 1
ASSUME MaxKeysAssumption == MaxKeys \in Nat

VARIABLES
  pc,        \* the mainline's next step; "lost" when an exception has no handler
  msr,       \* the bits of MSR that are set: IP (vectors in flash), EE, ME, RI
  vectors,   \* .vectors has been copied to address 0
  reload, ticks, handler,  \* _dec_reload, _ms_tick_count, g_ei_handlers[59] (.bss)
  decPending,              \* the decrementer has wrapped and was not served
  gates,                   \* which gates of the cascade are open, and "level"
  keys, rx,                \* keys pressed so far; the UART holds a byte
  cause,                   \* MV64361 main cause 59
  verdict,                 \* what the decrementer self-test printed
  fired, eiReady, warm     \* history: a decrementer interrupt was taken during
                           \* the self-test; ei_init has run since reset; the
                           \* reset vector was entered by reset-all

bssVars  == <<reload, ticks, handler>>
histVars == <<verdict, fired, eiReady, warm>>
uartVars == <<keys, rx>>
vars == <<pc, msr, vectors, bssVars, decPending, gates, uartVars, cause, histVars>>

\* The steps of reset.S and phase1_c_main that matter here, in order.
Steps == {"bss", "vectors", "msr", "uart", "calibrate", "arm", "testOn",
          "spin", "testOff", "eiInit", "level", "pic", "irq4", "ier", "gpp",
          "install", "unmask", "enable", "run"}

\* UART IER, i8259 IRQ 4, the GPP plane's level mode, GPP31, CPU0_MASK bit 59.
Gates == {"ier", "irq4", "level", "gpp", "cpu0"}

\* What .bss and the gates hold when power comes on.  DRAM is not initialised.
Init ==
  /\ pc = "bss" /\ msr = {"IP"} /\ vectors = FALSE
  /\ reload \in {0, DecReload} /\ ticks \in 0 .. TickMod - 1
  /\ handler \in {"none", "garbage"}
  /\ decPending \in BOOLEAN
  /\ gates \in {{}, {"irq4"}}
  /\ keys = 0 /\ rx \in BOOLEAN /\ cause = FALSE
  /\ verdict = "none" /\ fired = FALSE /\ eiReady = FALSE /\ warm = "no"

-----------------------------------------------------------------------------
(* The hardware. *)

\* The level at the input of main cause 59.
Intr == rx /\ {"ier", "irq4", "gpp"} \subseteq gates

\* Cause 59 follows its input in level mode and latches it otherwise.
CauseFollows == cause' = (Intr' \/ ("level" \notin gates' /\ cause))

\* A key is pressed.
KeyArrives ==
  /\ keys < MaxKeys /\ keys' = keys + 1
  /\ rx' = TRUE
  /\ UNCHANGED <<pc, msr, vectors, bssVars, decPending, gates, histVars>>

\* The decrementer counts all the time and wraps now and then.
DecWraps ==
  /\ ~decPending /\ decPending' = TRUE
  /\ UNCHANGED <<pc, msr, vectors, bssVars, gates, uartVars, histVars>>

EE == "EE" \in msr
DecInterrupt == EE /\ decPending
ExtInterrupt == EE /\ cause /\ "cpu0" \in gates

\* Can an exception find its stub in RAM?
VectorsLive == vectors /\ "IP" \notin msr

-----------------------------------------------------------------------------
(* The exception handlers. *)

\* 0x900: count a tick, re-arm, rfi.  Re-arming with 0 wraps at once.
DecrementerVector ==
  /\ DecInterrupt /\ pc # "lost"
  /\ IF VectorsLive
       THEN /\ ticks' = (ticks + 1) % TickMod
            /\ decPending' = (reload = 0)
            /\ fired' = (fired \/ pc \in {"spin", "testOff"})
            /\ UNCHANGED <<pc, reload, handler>>
       ELSE /\ pc' = "lost"
            /\ UNCHANGED <<bssVars, decPending, fired>>
  /\ UNCHANGED <<msr, vectors, gates, uartVars, verdict, eiReady, warm>>

\* 0x500 and ei_dispatch: call the handler of cause 59 if there is one.
\* uart_rx_handler empties the UART (module UartConsole has its steps).
ExtIntVector ==
  /\ ExtInterrupt /\ pc # "lost"
  /\ pc' = IF VectorsLive /\ handler # "garbage" THEN pc ELSE "lost"
  /\ rx' = (rx /\ ~(VectorsLive /\ handler = "uart_rx_handler"))
  /\ UNCHANGED <<keys, msr, vectors, bssVars, decPending, gates, histVars>>

-----------------------------------------------------------------------------
(* The mainline.                                                           *)

\* It runs when no interrupt is due.
AtStep(here, next) ==
  /\ ~DecInterrupt /\ ~ExtInterrupt
  /\ pc = here /\ pc' = next

\* reset.S: zero .bss.
ZeroBss ==
  /\ AtStep("bss", "vectors")
  /\ reload' = 0 /\ ticks' = 0 /\ handler' = "none"
  /\ UNCHANGED <<msr, vectors, decPending, gates, uartVars, histVars>>

\* reset.S: copy .vectors to address 0.
CopyVectors ==
  /\ AtStep("vectors", "msr")
  /\ vectors' = TRUE
  /\ UNCHANGED <<msr, bssVars, decPending, gates, uartVars, histVars>>

\* Mutant: MSR[IP] is left set, so the stubs at 0 are never used.
FixMsrKeepsIp ==
  /\ AtStep("msr", "uart")
  /\ msr' = msr \cup {"ME", "RI"}
  /\ UNCHANGED <<vectors, bssVars, decPending, gates, uartVars, histVars>>

\* reset.S: MSR |= ME | RI, MSR &= ~IP, call phase1_c_main.
FixMsr ==
  /\ AtStep("msr", "uart")
  /\ msr' = (msr \cup {"ME", "RI"}) \ {"IP"}
  /\ UNCHANGED <<vectors, bssVars, decPending, gates, uartVars, histVars>>

\* uart_init resets both FIFOs and leaves IER alone.
UartInit ==
  /\ AtStep("uart", "calibrate")
  /\ rx' = FALSE
  /\ UNCHANGED <<keys, msr, vectors, bssVars, decPending, gates, histVars>>

\* Mutant: timer_calibrate trusts a clock probe that found nothing.
TimerCalibrateUnprobed ==
  /\ AtStep("calibrate", "arm")
  /\ reload' = 0
  /\ UNCHANGED <<msr, vectors, ticks, handler, decPending, gates, uartVars, histVars>>

TimerCalibrate ==
  /\ AtStep("calibrate", "arm")
  /\ reload' = DecReload
  /\ UNCHANGED <<msr, vectors, ticks, handler, decPending, gates, uartVars, histVars>>

\* Writing DEC may or may not take back a wrap that was not served yet.
TimerArm ==
  /\ AtStep("arm", "testOn")
  /\ decPending' \in {decPending, FALSE}
  /\ UNCHANGED <<msr, vectors, bssVars, gates, uartVars, histVars>>

\* enable_ei
EnableEi(here, next) ==
  /\ AtStep(here, next)
  /\ msr' = msr \cup {"EE"}
  /\ UNCHANGED <<vectors, bssVars, decPending, gates, uartVars, histVars>>

\* The spin loop ends and disable_ei closes the gate.
DisableEi ==
  /\ AtStep("spin", "testOff")
  /\ msr' = msr \ {"EE"}
  /\ UNCHANGED <<vectors, bssVars, decPending, gates, uartVars, histVars>>

\* Read the counter and print OK or FAIL.
SelfTestVerdict ==
  /\ AtStep("testOff", "eiInit")
  /\ verdict' = IF ticks > 0 THEN "ok" ELSE "fail"
  /\ UNCHANGED <<msr, vectors, bssVars, decPending, gates, uartVars, fired, eiReady, warm>>

\* ei_init: mask everything, forget the handlers.
EiInit ==
  /\ AtStep("eiInit", "level")
  /\ gates' = gates \ {"cpu0", "gpp"} /\ handler' = "none"
  /\ eiReady' = TRUE
  /\ UNCHANGED <<msr, vectors, reload, ticks, decPending, uartVars, verdict, fired, warm>>

\* Mutant: the GPP plane is left in edge mode, cause 59 stays latched.
OpenGateEdge(here, next, gate) ==
  /\ AtStep(here, next)
  /\ gates' = gates \cup ({gate} \ {"level"})
  /\ UNCHANGED <<msr, vectors, bssVars, decPending, uartVars, histVars>>

\* One store that opens a gate.
OpenGate(here, next, gate) ==
  /\ AtStep(here, next)
  /\ gates' = gates \cup {gate}
  /\ UNCHANGED <<msr, vectors, bssVars, decPending, uartVars, histVars>>

\* vt8231_pic_init masks all of the i8259.
PicInit ==
  /\ AtStep("pic", "irq4")
  /\ gates' = gates \ {"irq4"}
  /\ UNCHANGED <<msr, vectors, bssVars, decPending, uartVars, histVars>>

\* Mutant: ei_install unmasks the cause without entering the handler.
SetHandlerNot ==
  /\ AtStep("install", "unmask")
  /\ UNCHANGED <<msr, vectors, bssVars, decPending, gates, uartVars, histVars>>

\* ei_install(59, uart_rx_handler): first the table, then the mask.
SetHandler ==
  /\ AtStep("install", "unmask")
  /\ handler' = "uart_rx_handler"
  /\ UNCHANGED <<msr, vectors, reload, ticks, decPending, gates, uartVars, histVars>>

\* extint_uart_install, store by store.
ExtintUartInstall ==
  \/ OpenGate("level", "pic", "level")
  \/ PicInit
  \/ OpenGate("irq4", "ier", "irq4")
  \/ OpenGate("ier", "gpp", "ier")
  \/ OpenGate("gpp", "install", "gpp")
  \/ SetHandler
  \/ OpenGate("unmask", "enable", "cpu0")

\* reset-all jumps to the reset vector.  MSR and the gates stay as they are.
MachineResetAll ==
  /\ AtStep("run", "bss")
  /\ verdict' = "none" /\ fired' = FALSE /\ eiReady' = FALSE /\ warm' = "yes"
  /\ UNCHANGED <<msr, vectors, bssVars, decPending, gates, uartVars>>

Boot ==
  \/ ZeroBss \/ CopyVectors \/ FixMsr
  \/ UartInit \/ TimerCalibrate \/ TimerArm
  \/ EnableEi("testOn", "spin") \/ DisableEi \/ SelfTestVerdict
  \/ EiInit \/ ExtintUartInstall
  \/ EnableEi("enable", "run")

Interrupts == DecrementerVector \/ ExtIntVector

Next ==
  /\ Boot \/ MachineResetAll \/ Interrupts \/ KeyArrives \/ DecWraps
  /\ CauseFollows

Spec == Init /\ [][Next]_vars

(* Interrupts that are due are taken.  The mainline advances if there is   *)
(* again and again an instant with no interrupt due: the 0x900 handler     *)
(* takes far less than the millisecond it re-arms for, so it does not take *)
(* every instant, and MaxKeys bounds the others.                           *)
Fairness ==
  /\ WF_vars(DecrementerVector /\ CauseFollows)
  /\ WF_vars(ExtIntVector /\ CauseFollows)
  /\ SF_vars(Boot /\ CauseFollows)

FairSpec == Spec /\ Fairness

-----------------------------------------------------------------------------
\* The type of every variable, through any number of resets; _dec_reload is 0
\* or what timer_calibrate computed.
TypeOK ==
  /\ pc \in Steps \cup {"lost"}
  /\ msr \subseteq {"IP", "EE", "ME", "RI"} /\ vectors \in BOOLEAN
  /\ reload \in {0, DecReload} /\ ticks \in 0 .. TickMod - 1
  /\ handler \in {"none", "garbage", "uart_rx_handler"}
  /\ decPending \in BOOLEAN
  /\ gates \subseteq Gates
  /\ keys \in 0 .. MaxKeys /\ rx \in BOOLEAN /\ cause \in BOOLEAN
  /\ verdict \in {"none", "ok", "fail"}
  /\ fired \in BOOLEAN /\ eiReady \in BOOLEAN /\ warm \in {"no", "yes"}

(* The firmware never takes an interrupt it has no code for: no vector     *)
(* fetch from flash or from a page that is not filled yet, no call through *)
(* an uninitialised handler slot.  Also after any number of reset-alls.    *)
NoInterruptLost == pc # "lost"

(* The rest is about a boot from power-on, until reset-all is typed: what  *)
(* fails behind it is ResetAllReboots' matter.                             *)

(* No interrupt is enabled before what serves it is in place.  An external *)
(* interrupt that reaches the CPU has uart_rx_handler behind it:           *)
(* ei_dispatch skips an empty slot, and the level-triggered cause would    *)
(* fire again for ever.  And the decrementer vector never re-arms with 0,  *)
(* which would fire again at once.                                         *)
InterruptsServed ==
  warm = "no" => /\ ExtInterrupt => handler = "uart_rx_handler"
                 /\ EE => reload # 0

(* The self-test says OK only if the 0x900 vector ran between enable_ei    *)
(* and disable_ei: no other source can have moved the counter.             *)
SelfTestHonest == warm = "no" /\ verdict = "ok" => fired

(* Power-on reaches the OF runtime, whatever interrupts arrive on the way. *)
BootCompletes == <>(pc = "run")

(* Interrupts never keep the mainline from running for good: no cause that *)
(* stays asserted after its handler, no tick that re-arms into itself.     *)
MainlineNotStarved == []<>(warm = "yes" \/ ~(DecInterrupt \/ ExtInterrupt))

(* What extint.c says of its initialisation: ei_init is called before any  *)
(* MSR[EE]=1.                                                              *)
EiInitBeforeEe == EE => eiReady

(* What machine_reset_all says: the reset vector initialises everything    *)
(* again, so that the machine comes back to the prompt.                    *)
ResetAllReboots == (pc = "bss") ~> (pc = "run")
=============================================================================

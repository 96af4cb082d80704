------------------------------ MODULE Startup ------------------------------
(***************************************************************************)
(* From machine_initialize to the running OS: the DRAM probe, the /memory  *)
(* node made from what it found, the drivers that sleep, and main.c with   *)
(* its auto-boot countdown.  The OS, once started, claims and releases     *)
(* memory.  Composes DramProbe, Memory and Delay.                          *)
(***************************************************************************)
EXTENDS DramProbe, Memory, Delay

CONSTANTS Timeouts,        \* values of auto-boot-timeout, in ms
          DefaultTimeout,  \* 5000
          StepMs,          \* the countdown's step, 10
          MaxSlept         \* bound on the ghost clock of the countdown

ASSUME StartupAssumption ==
  /\ DefaultTimeout \in Nat \ {0} /\ StepMs \in Nat \ {0} /\ MaxSlept \in Nat
  /\ Timeouts \subseteq Int
  /\ Fits(StepMs * Milli)       \* as 10000 microseconds do
  /\ \A t \in Timeouts \cup {DefaultTimeout} : t * TbPerMs <= MaxSlept
  /\ Floor = PoolBase + PoolSize /\ Top < M /\ Conservative \in Floor .. Top

VARIABLES stage,      \* what the firmware is doing
          timeout,    \* the local of main.c
          asked,      \* ghost: the timeout the countdown began with
          slept       \* ghost: ticks slept in the countdown

mainVars == <<stage, timeout, asked, slept>>
vars == <<probeVars, memoryVars, sleepVars, mainVars>>

Init ==
  /\ ProbeInit /\ MemoryInit /\ SleepInit
  /\ stage = "probe"
  /\ timeout = 0 /\ asked = 0 /\ slept = 0

Probe ==
  /\ stage = "probe"
  /\ ProbeNext
  /\ UNCHANGED <<memoryVars, sleepVars, mainVars>>

\* g_machine_memory_size = dram_top - base, and later install_memory.
Install ==
  /\ stage = "probe" /\ probePc = "done"
  /\ InstallMemory(top)
  /\ stage' = "drivers"
  /\ UNCHANGED <<probeVars, sleepVars, timeout, asked, slept>>

\* The installers after it sleep as their devices ask.
DriverSleep ==
  /\ stage = "drivers"
  /\ \E n \in Sleeps : Call(n)
  /\ UNCHANGED <<probeVars, memoryVars, mainVars>>

\* Inside u_sleep, whoever called it.
Sleeping ==
  /\ Spin \/ Poll \/ Tick
  /\ UNCHANGED <<probeVars, memoryVars, mainVars>>

DriverWakes ==
  /\ stage = "drivers"
  /\ Return
  /\ UNCHANGED <<probeVars, memoryVars, mainVars>>

\* Mutant of EnterMain: a timeout that is not positive is taken as it is.
EnterMainAnyTimeout ==
  /\ stage = "drivers" /\ sleepPc = "idle"
  /\ \/ /\ stage' = "prompt"
        /\ UNCHANGED <<timeout, asked>>
     \/ \E t \in Timeouts :
          /\ timeout' = t
          /\ asked' = IF t <= 0 THEN DefaultTimeout ELSE t
          /\ stage' = "countdown"
  /\ UNCHANGED <<probeVars, memoryVars, sleepVars, slept>>

\* main.c up to the countdown: auto-boot? is off or security is full, or the
\* timeout is read.
EnterMain ==
  /\ stage = "drivers" /\ sleepPc = "idle"
  /\ \/ /\ stage' = "prompt"
        /\ UNCHANGED <<timeout, asked>>
     \/ \E t \in Timeouts :
          /\ timeout' = IF t <= 0 THEN DefaultTimeout ELSE t
          /\ asked' = timeout'
          /\ stage' = "countdown"
  /\ UNCHANGED <<probeVars, memoryVars, sleepVars, slept>>

\* The loop test, and u_sleep(10000).
CountdownSleep ==
  /\ stage = "countdown" /\ timeout >= 0
  /\ Call(StepMs * Milli)
  /\ UNCHANGED <<probeVars, memoryVars, mainVars>>

\* Mutant of CountdownWakes: the step is left to the loop that prints.
CountdownWakesSameTimeout ==
  /\ stage = "countdown"
  /\ Return
  /\ slept' = IF slept + elapsed <= MaxSlept THEN slept + elapsed ELSE MaxSlept
  /\ \/ stage' = "booting" /\ UNCHANGED timeout
     \/ stage' = "prompt" /\ UNCHANGED timeout
     \/ UNCHANGED <<timeout, stage>>
  /\ UNCHANGED <<probeVars, memoryVars, asked>>

\* Back from u_sleep: a key ends the countdown, ENTER boots, any other key
\* leaves for the prompt; else timeout -= 10.
CountdownWakes ==
  /\ stage = "countdown"
  /\ Return
  /\ slept' = IF slept + elapsed <= MaxSlept THEN slept + elapsed ELSE MaxSlept
  /\ \/ stage' = "booting" /\ UNCHANGED timeout
     \/ stage' = "prompt" /\ UNCHANGED timeout
     \/ timeout' = timeout - StepMs /\ UNCHANGED stage
  /\ UNCHANGED <<probeVars, memoryVars, asked>>

\* The loop is over without a key: key = '\r'.
CountdownOver ==
  /\ stage = "countdown" /\ sleepPc = "idle" /\ timeout < 0
  /\ stage' = "booting"
  /\ UNCHANGED <<probeVars, memoryVars, sleepVars, timeout, asked, slept>>

\* The boot command starts an OS, or comes back to the prompt.
BootCommand ==
  /\ stage = "booting"
  /\ stage' \in {"os", "prompt"}
  /\ timeout' = 0 /\ asked' = 0 /\ slept' = 0
  /\ UNCHANGED <<probeVars, memoryVars, sleepVars>>

\* The read-eval loop: the user boots.
UserBoots ==
  /\ stage = "prompt"
  /\ stage' = "booting"
  /\ timeout' = 0 /\ asked' = 0 /\ slept' = 0
  /\ UNCHANGED <<probeVars, memoryVars, sleepVars>>

\* The OS uses the client interface.
OsCalls ==
  /\ stage = "os"
  /\ MemoryNext
  /\ UNCHANGED <<probeVars, sleepVars, mainVars>>

Next ==
  \/ Probe \/ Install \/ DriverSleep \/ Sleeping \/ DriverWakes \/ EnterMain
  \/ CountdownSleep \/ CountdownWakes \/ CountdownOver \/ BootCommand \/ UserBoots
  \/ OsCalls

\* The processor runs the firmware whenever it does not wait for a person: the
\* installers finish, the countdown and the sleeps go on, the time base counts.
Fairness ==
  /\ WF_vars(Probe) /\ WF_vars(Install) /\ SF_vars(EnterMain) /\ WF_vars(DriverWakes)
  /\ WF_vars(CountdownSleep) /\ WF_vars(CountdownWakes) /\ WF_vars(CountdownOver)
  /\ WF_vars(BootCommand)
  /\ WF_vars(Tick /\ Sleeping) /\ WF_vars(Poll /\ Sleeping) /\ WF_vars(Spin /\ Sleeping)

Spec == Init /\ [][Next]_vars /\ Fairness

-----------------------------------------------------------------------------
\* Every address a client is given has DRAM behind it, on the boards whose DRAM
\* the probe can see, as long as no claim was granted whose end wraps:
\* machine_initialize's comment on claims that "silently lose every write".
ClaimsHaveDram ==
  NoneWrapped /\ beyond = "none" /\ size - Step >= Floor => \A o \in owned : Held(o) \subseteq 0 .. size - 1

\* With a calibrated timer and nobody at the keyboard, auto-boot starts no
\* earlier than auto-boot-timeout after the prompt appeared, whatever the time
\* base did (the countdown of main.c on u_sleep).
CountdownLasts ==
  stage = "booting" /\ cal = "yes" /\ timeout < 0 => slept >= asked * TbPerMs

\* Whatever is configured, the machine ends at the prompt or in the OS: the
\* probe, the installers, the countdown and the boot command all come to an end.
StartupEnds == <>(stage \in {"os", "prompt"})

=============================================================================

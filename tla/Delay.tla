------------------------------- MODULE Delay -------------------------------
(***************************************************************************)
(* u_sleep (of/machdep.c): a busy wait on the 32-bit time base.  The       *)
(* number of ticks to wait is computed in 32 bits too.  A tick of the time *)
(* base is a step of the environment; the loop may be held up, by an       *)
(* interrupt, for several ticks between two reads.                         *)
(***************************************************************************)
EXTENDS Integers

CONSTANTS W,           \* 2^32: both the time base and the product wrap here
          TbPerMs,     \* _dec_reload, ticks in a millisecond
          Milli,       \* the 1000 of the conversion
          Sleeps,      \* the arguments callers pass, in microseconds
          MaxGap,      \* most ticks between two reads of the time base
          MaxElapsed   \* bound on the ghost clock

ASSUME DelayAssumption ==
  /\ W \in Nat \ {0} /\ TbPerMs \in Nat \ {0} /\ Milli \in Nat \ {0}
  /\ MaxGap \in Nat \ {0} /\ MaxElapsed \in Nat
  /\ Sleeps \subseteq Nat
  /\ W <= MaxElapsed * Milli   \* the ghost clock covers every sleep whose product fits

VARIABLES sleepPc,     \* idle, spin (timer not calibrated), loop, done
          cal,         \* "yes" once the decrementer has been calibrated
          us,          \* the argument
          start, wait, \* the locals start and wait_ticks
          tb,          \* the time base, while a sleep reads it
          gap,         \* ticks since the loop last read it
          elapsed      \* ghost: ticks since start was read

sleepVars == <<sleepPc, cal, us, start, wait, tb, gap, elapsed>>

SleepInit ==
  /\ sleepPc = "idle"
  /\ cal \in {"yes", "no"}
  /\ us = 0 /\ start = 0 /\ wait = 0
  /\ tb = 0
  /\ gap = 0
  /\ elapsed = 0

\* Mutant of WaitTicks: rounded down.
WaitTicksDown(n) == ((n * TbPerMs) % W) \div Milli

\* wait_ticks
WaitTicks(n) == ((n * TbPerMs + Milli - 1) % W) \div Milli

\* u_sleep(n): between two calls any time passes, so the time base stands
\* anywhere when start is read.
Call(n) ==
  /\ sleepPc = "idle"
  /\ us' = n
  /\ sleepPc' = IF cal = "yes" THEN "loop" ELSE "spin"
  /\ tb' \in IF cal = "yes" THEN 0 .. W - 1 ELSE {0}
  /\ start' = tb'
  /\ wait' = IF cal = "yes" THEN WaitTicks(n) ELSE 0
  /\ gap' = 0
  /\ elapsed' = 0
  /\ UNCHANGED cal

\* _dec_reload is 0: count to us * 100 without a clock.
Spin ==
  /\ sleepPc = "spin"
  /\ sleepPc' = "done"
  /\ UNCHANGED <<cal, us, start, wait, tb, gap, elapsed>>

\* Mutant of Reached: the deadline is compared instead of the difference.
ReachedDeadline == tb >= start + wait

\* The loop condition, (now - start) in unsigned arithmetic.
Reached == (tb - start) % W >= wait

Poll ==
  /\ sleepPc = "loop"
  /\ sleepPc' = IF Reached THEN "done" ELSE "loop"
  /\ gap' = 0
  /\ UNCHANGED <<cal, us, start, wait, tb, elapsed>>

\* The time base counts on, also while the loop is interrupted.
Tick ==
  /\ sleepPc = "loop"
  /\ gap < MaxGap
  /\ tb' = (tb + 1) % W
  /\ gap' = gap + 1
  /\ elapsed' = IF elapsed < MaxElapsed THEN elapsed + 1 ELSE elapsed
  /\ UNCHANGED <<sleepPc, cal, us, start, wait>>

Return ==
  /\ sleepPc = "done"
  /\ sleepPc' = "idle"
  /\ us' = 0 /\ start' = 0 /\ wait' = 0 /\ tb' = 0 /\ gap' = 0 /\ elapsed' = 0
  /\ UNCHANGED cal

SleepNext == (\E n \in Sleeps : Call(n)) \/ Spin \/ Poll \/ Tick \/ Return

\* The time base never stops, and the loop runs whenever it is not interrupted.
SleepFairness == WF_sleepVars(Tick) /\ WF_sleepVars(Poll) /\ WF_sleepVars(Spin) /\ WF_sleepVars(Return)

SleepSpec == SleepInit /\ [][SleepNext]_sleepVars /\ SleepFairness

-----------------------------------------------------------------------------
\* The product us * tb_per_ms + 999 fits into 32 bits.
Fits(n) == n * TbPerMs + Milli - 1 < W

LongEnough == elapsed * Milli >= us * TbPerMs

\* A sleep whose product fits lasts at least us microseconds, wherever the
\* time base stands when it begins: rounding, and a wrap of the time base
\* during the sleep, never shorten it (u_sleep's loop condition).
SleptLongEnough == sleepPc = "done" /\ cal = "yes" /\ Fits(us) => LongEnough

\* The comment in u_sleep: "We want to wait at LEAST `us` microseconds", of
\* every argument.
SleepsAtLeast == sleepPc = "done" /\ cal = "yes" => LongEnough

=============================================================================

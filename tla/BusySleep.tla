----------------------------- MODULE BusySleep ------------------------------
(***************************************************************************)
(* usleep: alt_usleep.c calls alt_busy_sleep of alt_busy_sleep.c, which    *)
(* counts a register down in loops of two instructions.  The registers     *)
(* have a width and int is signed.                                         *)
(*                                                                         *)
(* The three loops look alike and end differently: a big loop, and the     *)
(* loop for the rest after big loops, go round until the register is zero  *)
(* (bne), the loop of a short sleep while it is positive (bgt).  All of    *)
(* them subtract before they look.  And they change a register the         *)
(* compiler is told they only read, so whether the next big loop finds     *)
(* INT_MAX in it again is the compiler's choice.                           *)
(*                                                                         *)
(* A microsecond is CyclesPerUs cycles of the processor and a round of a   *)
(* loop CyclesPerLoop of them.  The source divides the one by the other in *)
(* integers, so what it counts for a microsecond is shorter than one by    *)
(* the remainder: 45 cycles of 50 in this design.                          *)
(***************************************************************************)
EXTENDS Integers

CONSTANTS
  Values,         \* values of a register, 2^32 in the program
  CyclesPerUs,    \* ALT_CPU_FREQ in MHz, 50
  CyclesPerLoop,  \* cycles_per_loop, 9 for the Nios II/e
  Requests,       \* arguments of usleep
  MaxLoops        \* bound: how far the history variable loops counts

\* ALT_CPU_FREQ / (cycles_per_loop * 1000000), and what the division drops.
LoopsPerUs == CyclesPerUs \div CyclesPerLoop
Dropped    == CyclesPerUs % CyclesPerLoop

INT_MAX == Values \div 2 - 1

\* Microseconds in one big loop; a mutated form, rounded up.
BigUsUp == (INT_MAX + LoopsPerUs - 1) \div LoopsPerUs
BigUs   == INT_MAX \div LoopsPerUs

ASSUME SleepAssumption ==
  /\ Values \in Nat /\ Values % 2 = 0
  /\ CyclesPerUs \in Nat /\ CyclesPerLoop \in Nat \ {0}
  /\ LoopsPerUs \in 1..INT_MAX
  /\ Requests \subseteq 0..Values - 1
  /\ MaxLoops \in Nat /\ MaxLoops >= Values * LoopsPerUs

VARIABLES
  asked,      \* the argument of the call
  us,         \* what is left of it
  big_loops,  \* big loops not finished
  reg,        \* the register the loops count down
  loop,       \* "idle", or the loop that runs: "big", "rest" or "short"
  loops       \* history: how often a loop has gone round in the last call

sleepVars == <<asked, us, big_loops, reg, loop, loops>>

SleepInit ==
  /\ asked = 0 /\ us = 0 /\ big_loops = 0 /\ reg = 0 /\ loop = "idle" /\ loops = 0

CallBig(u) ==
  /\ loop = "idle"
  /\ u \div BigUs > 0
  /\ big_loops' = u \div BigUs
  /\ reg' = INT_MAX
  /\ loop' = "big"
  /\ asked' = u /\ us' = u /\ loops' = 0

CallShort(u) ==
  /\ loop = "idle"
  /\ u \div BigUs = 0
  /\ reg' = u * LoopsPerUs % Values
  /\ loop' = "short"
  /\ asked' = u /\ us' = u /\ loops' = 0
  /\ UNCHANGED big_loops

Count == loops' = IF loops < MaxLoops THEN loops + 1 ELSE loops

\* addi %0, %0, -1
CountDown == reg' = (reg - 1) % Values /\ Count

BigRound ==
  /\ loop = "big" /\ reg # 1
  /\ CountDown
  /\ UNCHANGED <<asked, us, big_loops, loop>>

BigEnd ==
  /\ loop = "big" /\ reg = 1
  /\ Count
  /\ us' = us - BigUs
  /\ big_loops' = big_loops - 1
  /\ \/ big_loops > 1 /\ reg' \in {INT_MAX, 0} /\ UNCHANGED loop
     \/ big_loops = 1 /\ reg' = us' * LoopsPerUs % Values /\ loop' = "rest"
  /\ UNCHANGED asked

RestRound ==
  /\ loop = "rest"
  /\ CountDown
  /\ loop' = IF reg' # 0 THEN "rest" ELSE "idle"
  /\ UNCHANGED <<asked, us, big_loops>>

\* A mutated form: the register is compared as an unsigned number.
ShortRoundUnsigned ==
  /\ loop = "short"
  /\ CountDown
  /\ loop' = IF reg' >= 0 THEN "short" ELSE "idle"
  /\ UNCHANGED <<asked, us, big_loops>>

ShortRound ==
  /\ loop = "short"
  /\ CountDown
  /\ loop' = IF reg' \in 1..INT_MAX THEN "short" ELSE "idle"
  /\ UNCHANGED <<asked, us, big_loops>>

SleepNext == \/ \E u \in Requests : CallBig(u) \/ CallShort(u)
             \/ BigRound \/ BigEnd \/ RestRound \/ ShortRound

\* The processor runs: a sleep goes on.
SleepSpec == /\ SleepInit /\ [][SleepNext]_sleepVars
             /\ WF_sleepVars(BigRound \/ BigEnd \/ RestRound \/ ShortRound)
-----------------------------------------------------------------------------
(* Every variable has a value of its type.                                  *)
SleepTypeOK ==
  /\ asked \in Requests \cup {0}
  /\ us \in 0..Values - 1
  /\ big_loops \in 0..(Values - 1) \div BigUs
  /\ reg \in 0..Values - 1
  /\ loop \in {"idle", "big", "rest", "short"}
  /\ loops \in 0..MaxLoops

\* How long the last sleep lasted, in cycles of the processor.
Lasted == loops * CyclesPerLoop

\* The least that u microseconds may come to: what the division drops, no more,
\* is missing from each of them.
AtLeast(u) == u * (CyclesPerUs - Dropped)

\* Nothing else is lost: not by the rounding of the big loops, nor by the width
\* of the product, nor by what the compiler left in the register.
LosesTheRestOnly == loop = "idle" => Lasted >= AtLeast(asked)

\* A sleep without big loops, as all of the program's are, lasts just that, so
\* it is never as long as asked unless the division is exact; only a sleep of
\* nothing takes one round.
ShortIsExact ==
  loop = "idle" /\ asked \in 1..BigUs - 1 => Lasted = AtLeast(asked)

(* A sleep is shorter than asked for by the remainder of the calibration's  *)
(* division in each microsecond, 5 cycles of 50 in this design, and by      *)
(* nothing else; without big loops it is exactly that much shorter.  The    *)
(* registers stay within their width.                                       *)
SleepsAsCalibrated == SleepTypeOK /\ LosesTheRestOnly /\ ShortIsExact

(* Every sleep ends, even those that count below zero.                      *)
SleepEnds == loop # "idle" ~> loop = "idle"
=============================================================================

------------------------------ MODULE MCFirst -------------------------------
(***************************************************************************)
(* The parts of the first program side by side: its menu, one call of the  *)
(* custom instruction, usleep, and the path to the display.  A behaviour   *)
(* is one of a single part, which of them is chosen at the start; the      *)
(* others stay in an initial state of theirs.                              *)
(*                                                                         *)
(* The buttons have all sixteen levels.  The custom instruction has four   *)
(* operand values: the zeros of a reset and three others.  The registers   *)
(* of usleep have six bits, so that a request needs several big loops, one *)
(* exactly, or none; no request takes 1000 rounds.  The texts are three of *)
(* different lengths, one of them a single character (the program's have   *)
(* seven or eight; what matters is that a shorter one follows a longer),   *)
(* and there are two resets, at any point.                                 *)
(***************************************************************************)
EXTENDS Menu, LcdCi, BusySleep, Display

MCKeyValues == 0..15
MCRequests  == 0..Values - 1
MCTexts     == { <<"s", "i", "s", "t">>, <<"r", "e", "m">>, <<"c">> }

VARIABLE part   \* the part that moves

Parts == {"menu", "call", "sleep", "display"}

\* The initial states of a part that does not move are not told apart.
FirstInit ==
  /\ part \in Parts
  /\ Init        /\ (part # "menu" => keys = 15)
  /\ CiInit      /\ (part # "call" => src = Zero)
  /\ SleepInit
  /\ DisplayInit

InMenu(A)    == part = "menu"    /\ A /\ UNCHANGED <<part, ciVars, sleepVars, displayVars>>
InCall(A)    == part = "call"    /\ A /\ UNCHANGED <<part, vars, sleepVars, displayVars>>
InSleep(A)   == part = "sleep"   /\ A /\ UNCHANGED <<part, vars, ciVars, displayVars>>
InDisplay(A) == part = "display" /\ A /\ UNCHANGED <<part, vars, ciVars, sleepVars>>

FirstNext ==
  \/ InMenu(Boot) \/ InMenu(Sample) \/ InMenu(Up) \/ InMenu(Down) \/ InMenu(Select)
  \/ InMenu(Ignore) \/ InMenu(HoldSample) \/ InMenu(Light)
  \/ \E k \in KeyValues : InMenu(Press(k))
  \/ InCall(Clock) \/ InCall(Reset)
  \/ \E u \in Requests : InSleep(CallBig(u)) \/ InSleep(CallShort(u))
  \/ InSleep(BigRound) \/ InSleep(BigEnd) \/ InSleep(RestRound) \/ InSleep(ShortRound)
  \/ InDisplay(Usleep) \/ InDisplay(AltCi) \/ InDisplay(CpuReset) \/ InDisplay(ResetInCall)
  \/ \E t \in Texts : InDisplay(Imprime(t))

firstVars == <<part, vars, ciVars, sleepVars, displayVars>>

\* The fairness of the part that moves, as its own specification states it.
FirstSpec ==
  /\ FirstInit /\ [][FirstNext]_firstVars
  /\ WF_firstVars(InMenu(Cpu))
  /\ WF_firstVars(InCall(Clock))
  /\ WF_firstVars(InSleep(BigRound \/ BigEnd \/ RestRound \/ ShortRound))
  /\ WF_firstVars(InDisplay(Processor))
=============================================================================

------------------------------- MODULE LcdBus -------------------------------
(***************************************************************************)
(* What a call of ALT_CI_LCD_0 promises to the display's controller: one   *)
(* falling edge of en, with the operands of the call before still on rs    *)
(* and display, then one rising edge with the operands of this call; and   *)
(* no second call before that.  A processor reset in the middle of a call  *)
(* either comes before the falling edge, and the call has not happened, or *)
(* leaves the operands of the call zero.                                   *)
(***************************************************************************)
CONSTANTS
  Operands,   \* the values of (rs, display) a call can carry
  Zero,       \* both operands 0
  None        \* no call

VARIABLES
  phase,   \* "idle", "issued" (en not yet lowered) or "low"
  op,      \* the operands of the call in progress
  en,      \* the enable pin
  port     \* the rs and display pins

busVars == <<phase, op, en, port>>

Init ==
  /\ phase = "idle"
  /\ op = None
  /\ en = 0
  /\ port = Zero

Issue(o) ==
  /\ phase = "idle"
  /\ phase' = "issued"
  /\ op' = o
  /\ UNCHANGED <<en, port>>

Lower ==
  /\ phase = "issued"
  /\ phase' = "low"
  /\ en' = 0
  /\ UNCHANGED <<op, port>>

Raise ==
  /\ phase = "low"
  /\ phase' = "idle"
  /\ en' = 1
  /\ port' = op
  /\ op' = None

Abort ==
  /\ \/ phase = "issued" /\ phase' = "idle" /\ op' = None
     \/ phase = "low" /\ phase' = "low" /\ op' = Zero
  /\ UNCHANGED <<en, port>>

Next == Lower \/ Raise \/ Abort \/ \E o \in Operands : Issue(o)

\* A call that has begun completes; nothing forces the next one.
Spec == Init /\ [][Next]_busVars /\ WF_busVars(Lower \/ Raise)
=============================================================================

------------------------------ MODULE TxQueue -------------------------------
(***************************************************************************)
(* What the UART's transmitter promises the program: two places, one for   *)
(* the character on the line and one for the next.  A character is accepted*)
(* while the second place is free, and every accepted character is sent,   *)
(* once and in order; one written while it is taken replaces the one that  *)
(* waits there, and the loss shows in the status register.                 *)
(***************************************************************************)
CONSTANTS
  Chars,   \* the characters
  None     \* no character

VARIABLES
  waiting,   \* the character that waits, or None: TRDY is waiting = None
  sending,   \* the character on the line, or None
  overrun    \* TOE: a character has been lost since the status was written

queueVars == <<waiting, sending, overrun>>

Init == waiting = None /\ sending = None /\ overrun = FALSE

Write(c) ==
  /\ waiting' = c
  /\ overrun' = (overrun \/ waiting # None)
  /\ UNCHANGED sending

Begin ==
  /\ sending = None /\ waiting # None
  /\ sending' = waiting
  /\ waiting' = None
  /\ UNCHANGED overrun

End ==
  /\ sending # None
  /\ sending' = None
  /\ UNCHANGED <<waiting, overrun>>

\* A write as the character on the line ends.
EndAndWrite(c) ==
  /\ sending # None
  /\ sending' = None
  /\ waiting' = c
  /\ overrun' = (overrun \/ waiting # None)

\* The status register is written; what else the clock does goes on.
Clear ==
  /\ overrun' = FALSE
  /\ \/ UNCHANGED <<waiting, sending>>
     \/ sending = None /\ waiting # None /\ sending' = waiting /\ waiting' = None
     \/ sending # None /\ sending' = None /\ UNCHANGED waiting

Next == Begin \/ End \/ Clear \/ \E c \in Chars : Write(c) \/ EndAndWrite(c)

Spec == Init /\ [][Next]_queueVars
        /\ WF_queueVars(Begin) /\ WF_queueVars(End)
=============================================================================

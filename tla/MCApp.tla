------------------------------- MODULE MCApp --------------------------------
(***************************************************************************)
(* App for TLC.  The arrays have their real lengths; the console is two    *)
(* characters instead of 64, so that it fills up in the middle of a run.   *)
(* Nothing pressed (15) is to main what BACK is outside the selection loop *)
(* and what SELECT is inside it.                                           *)
(***************************************************************************)
EXTENDS App

MCKeyValues == {BACK, SELECT, BUTTON_UP, BUTTON_DOWN}

\* Enough to select, to leave a selection, and to move from option 0 to option 1.
MCFewKeys == {BACK, SELECT, BUTTON_UP}
TwoOptions == count < 2

\* And one mishap: a connection lost or a reset.
OneMishap == TwoOptions /\ drops + resets <= 1
=============================================================================

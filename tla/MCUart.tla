------------------------------- MODULE MCUart -------------------------------
(***************************************************************************)
(* The two halves of the UART side by side.  They share no register but    *)
(* STATUS, of which each has its own bits, so a behaviour is one of a      *)
(* single half, chosen at the start; the other stays as after a reset.     *)
(*                                                                         *)
(* The transmitter has two characters and a divisor of 2: a bit lasts      *)
(* three clocks and a character CharTime = 34.  The receiver has a divisor *)
(* of 9, the least at which an edge can jitter, and bytes with no edge     *)
(* between start and stop bit, with the longest run of ones, with an edge  *)
(* at every bit, and 'K'.                                                  *)
(***************************************************************************)
EXTENDS UartTx, UartRx

MCRxChars == { <<0, 0, 0, 0, 0, 0, 0, 0>>, <<1, 1, 1, 1, 1, 1, 1, 1>>,
               <<1, 0, 1, 0, 1, 0, 1, 0>>, <<1, 1, 0, 1, 0, 0, 1, 0>> }

VARIABLE half   \* the half that moves

\* The initial states of a receiver that does not move are not told apart.
UartInit ==
  /\ half \in {"tx", "rx"}
  /\ Init
  /\ RxInit /\ (half = "tx" => sent = Zeros)

InTx(A) == half = "tx" /\ A /\ UNCHANGED <<half, rxVars>>
InRx(A) == half = "rx" /\ A /\ UNCHANGED <<half, vars>>

UartNext ==
  \/ \E c \in Chars : InTx(Write(c))
  \/ \E clear \in BOOLEAN : InTx(Tick(clear))
  \/ InRx(Wait) \/ InRx(Read) \/ InRx(Clear)

uartVars == <<half, vars, rxVars>>

\* The clock of the transmitter never stops, as its specification states.
UartSpec == UartInit /\ [][UartNext]_uartVars /\ WF_uartVars(InTx(Next))
=============================================================================

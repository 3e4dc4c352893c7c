------------------------------- MODULE UartTx -------------------------------
(***************************************************************************)
(* The transmitter of the UART, nios_uart_0_tx in nios_uart_0.v, clock by  *)
(* clock, with the registers of nios_uart_0_regs the bus writes.  One step *)
(* is one clock edge; every register's next value is computed from the     *)
(* values before the edge, so all the assignments below are one action.    *)
(*                                                                         *)
(* The ten bits of the shift register {1, tx_data, 0} are a character and  *)
(* the number of its bits still in the register: the register is zero      *)
(* (shift_done) when the last of them, the 1 of the stop bit, is out.      *)
(*                                                                         *)
(* do_load_shifter is high for two clocks, because its own input still     *)
(* sees the empty register and the old tx_ready in the first: a character  *)
(* is loaded twice, and a write in between is loaded over it.              *)
(***************************************************************************)
EXTENDS Integers

CONSTANTS
  Chars,    \* what can be written to TXDATA
  None,     \* no character
  Divisor   \* baud_divisor: 434 in the design, 4 in simulation

ASSUME TxAssumption ==
  /\ None \notin Chars
  /\ Divisor \in Nat \ {0}

Bits  == 10            \* start bit, eight of data, stop bit
Start == <<None, 0>>   \* the start bit, a 0 whatever the character
Idle  == <<None, 9>>   \* the stop bit, a 1, and the line at rest

BitOf(c, i) == IF i = 0 THEN Start ELSE IF i = 9 THEN Idle ELSE <<c, i>>

VARIABLES
  counter,     \* baud_rate_counter
  baud_clk_en,
  do_load,     \* do_load_shifter
  tx_ready,
  tx_overrun,
  tx_data,
  shifted,     \* the character in the shift register, or None
  left,        \* bits of it still in the register
  txd,         \* pre_txd, as the bit it is of which character
  lasted,      \* history: clocks txd has been what it is
  since,       \* history: clocks since the last write began, at most CharTime
  paced        \* history: no write began less than CharTime after another

vars == <<counter, baud_clk_en, do_load, tx_ready, tx_overrun, tx_data,
          shifted, left, txd, lasted, since, paced>>

shift_done == left = 0
do_shift   == baud_clk_en /\ ~shift_done /\ ~do_load

\* The longest a bit can last, and the time a character takes from the write.
BitTime  == Divisor + 1
CharTime == Bits * BitTime + 4

Init ==
  /\ counter = 0 /\ baud_clk_en = FALSE
  /\ do_load = FALSE /\ tx_ready = TRUE /\ tx_overrun = FALSE
  /\ tx_data = None /\ shifted = None /\ left = 0
  /\ txd = Idle /\ lasted = BitTime
  /\ since = CharTime /\ paced = TRUE
-----------------------------------------------------------------------------
\* Mutated forms: the counter is not restarted for a new character; it is
\* restarted with one too many.
BaudCounterFree ==
  counter' = IF counter = 0 THEN Divisor ELSE counter - 1

BaudCounterLong ==
  counter' = IF counter = 0 \/ do_load THEN Divisor + 1 ELSE counter - 1

BaudCounter ==
  counter' = IF counter = 0 \/ do_load THEN Divisor ELSE counter - 1

\* A mutated form: the end of a load takes precedence over a write.
ReadyLoadFirst(onset) ==
  tx_ready' = IF do_load THEN TRUE ELSE IF onset THEN FALSE ELSE tx_ready

Ready(onset) ==
  tx_ready' = IF onset THEN FALSE ELSE IF do_load THEN TRUE ELSE tx_ready

Overrun(onset, clear) ==
  tx_overrun' = (~clear /\ (tx_overrun \/ (~tx_ready /\ onset)))

ShiftRegister ==
  \/ do_load /\ shifted' = tx_data /\ left' = Bits
  \/ ~do_load /\ do_shift /\ left' = left - 1 /\ UNCHANGED shifted
  \/ ~do_load /\ ~do_shift /\ UNCHANGED <<shifted, left>>

Line ==
  /\ txd' = IF shift_done THEN txd ELSE BitOf(shifted, Bits - left)
  /\ lasted' = IF txd' # txd THEN 1
               ELSE IF lasted < 2 * BitTime THEN lasted + 1 ELSE lasted

\* A clock edge.  onset: the first clock of a write to TXDATA, of character c.
Edge(onset, c, clear) ==
  /\ BaudCounter
  /\ baud_clk_en' = (counter = 0)
  /\ do_load' = (~tx_ready /\ shift_done)
  /\ Ready(onset)
  /\ Overrun(onset, clear)
  /\ tx_data' = c
  /\ ShiftRegister
  /\ Line

\* A write occupies the bus for two clocks (AV_WRITE_WAIT_CYCLES = 1).
Write(c) ==
  /\ since >= 2
  /\ since' = 1
  /\ paced' = (paced /\ since >= CharTime)
  /\ Edge(TRUE, c, FALSE)

\* clear: a write to STATUS, which needs the bus for itself.
Tick(clear) ==
  /\ clear => since >= 2
  /\ since' = IF since < CharTime THEN since + 1 ELSE since
  /\ UNCHANGED paced
  /\ Edge(FALSE, tx_data, clear)

Next == (\E c \in Chars : Write(c)) \/ (\E clear \in BOOLEAN : Tick(clear))

\* The clock never stops.
Spec == Init /\ [][Next]_vars /\ WF_vars(Next)
-----------------------------------------------------------------------------
(* Every variable has a value of its type.                                  *)
TypeOK ==
  /\ counter \in 0..Divisor
  /\ baud_clk_en \in BOOLEAN /\ do_load \in BOOLEAN
  /\ tx_ready \in BOOLEAN /\ tx_overrun \in BOOLEAN
  /\ tx_data \in Chars \cup {None}
  /\ shifted \in Chars \cup {None}
  /\ left \in 0..Bits
  /\ txd \in (Chars \cup {None}) \X (0..Bits - 1)
  /\ lasted \in 1..2 * BitTime
  /\ since \in 1..CharTime /\ paced \in BOOLEAN

(* The transmitter is the two-place queue.  A character loaded while its    *)
(* replacement is already in TXDATA does not count: the second load of the  *)
(* same do_load_shifter pulse takes it away.                                *)
waiting == IF tx_ready THEN None ELSE tx_data
sending == IF shift_done \/ (do_load /\ ~tx_ready) THEN None ELSE shifted

Queue == INSTANCE TxQueue WITH overrun <- tx_overrun
RefinesQueue == Queue!Spec

(* The bits of a character follow each other on the line in their order,    *)
(* each for one baud period (the start bit two clocks more), and the start  *)
(* bit of the next character waits for the stop bit to be over: whatever is *)
(* written meanwhile, the receiver gets no cut-off bit.                     *)
BitsAreWhole ==
  [][txd' # txd =>
       \/ txd = Idle  /\ txd' = Start /\ lasted >= BitTime
       \/ txd = Start /\ txd'[2] = 1 /\ lasted = BitTime + 2
       \/ txd \notin {Idle, Start} /\ txd' = BitOf(txd[1], txd[2] + 1)
                                  /\ lasted = BitTime]_vars

(* A program that has left CharTime clocks between any two writes so far,   *)
(* as writenUart and writenUartQuick do with usleep(1000), has not lost a   *)
(* character, and need not look at TRDY in between.                         *)
NeverOverrun == paced => ~tx_overrun
=============================================================================

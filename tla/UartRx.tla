------------------------------- MODULE UartRx -------------------------------
(***************************************************************************)
(* The receiver of the UART, nios_uart_0_rx in nios_uart_0.v, clock by     *)
(* clock, a sender at the other end of the line (external: the ESP8266)    *)
(* whose bit edges are early or late by up to Jitter clocks, and a program *)
(* that reads RXDATA when RRDY is set, as readUart and the drivers do, and *)
(* writes STATUS at any time, as the drivers do.                           *)
(*                                                                         *)
(* One step is one clock edge; every register's next value is computed     *)
(* from the values before the edge.  sync_rxd is the line itself: the two  *)
(* registers of the synchronizer before it only delay it.                  *)
(***************************************************************************)
EXTENDS Integers, Sequences

CONSTANTS
  RxChars,    \* the bytes sent: sequences of eight bits, the lowest first
  RxDivisor,  \* baud_divisor: 434 in the design, 4 in simulation
  Jitter    \* clocks by which an edge on the line may be early or late

ASSUME RxAssumption ==
  /\ RxChars \subseteq [1..8 -> {0, 1}]
  /\ RxDivisor \in Nat \ {0}
  /\ Jitter \in Nat /\ 2 * Jitter <= RxDivisor

RxBitTime  == RxDivisor + 1
Frame(c, s) == <<0>> \o c \o <<s>>    \* start bit, data, stop bit

VARIABLES
  sent,        \* sender: the byte being sent or sent last
  stop,        \* sender: its stop bit, 0 if the frame is damaged or a break
  bit,         \* sender: the bit of its frame that is on the line, 1..10;
               \* 11 when the frame is over
  wait,        \* sender: clocks until the next bit
  off,         \* sender: how late the edge before that bit will be
  rx_counter,  \* baud_rate_counter
  rx_baud_clk_en,
  d_rxd,       \* delayed_unxsync_rxdxx1 and xx2
  do_start,    \* do_start_rx
  shift,       \* rxd_shift_reg, the oldest bit first
  d_in_process,
  rx_data, rx_char_ready, rx_overrun, framing_error, break_detect,
  taken,       \* history: characters the receiver made of this frame
  told         \* history: what has happened since STATUS was written

sender == <<sent, stop, bit, wait, off>>
status == <<rx_data, rx_char_ready, rx_overrun, framing_error, break_detect>>
rxVars == <<sender, rx_counter, rx_baud_clk_en, d_rxd, do_start, shift,
            d_in_process, status, taken, told>>

rxd          == IF bit = 11 THEN 1 ELSE Frame(sent, stop)[bit]
rxd_edge     == rxd # d_rxd
rxd_falling  == rxd = 0 /\ d_rxd = 1
in_process   == shift[1] = 1                    \* the start bit is not there yet
got_new_char == ~in_process /\ d_in_process
raw_data_in  == SubSeq(shift, 2, 9)
is_break     == \A i \in 1..10 : shift[i] = 0

RxInit ==
  /\ sent \in RxChars /\ stop = 1 /\ bit = 11 /\ wait = RxBitTime /\ off = 0
  /\ rx_counter = 0 /\ rx_baud_clk_en = FALSE /\ d_rxd = 0 /\ do_start = FALSE
  /\ shift = [i \in 1..10 |-> 0] /\ d_in_process = FALSE
  /\ rx_data = [i \in 1..8 |-> 0] /\ rx_char_ready = FALSE
  /\ rx_overrun = FALSE /\ framing_error = FALSE /\ break_detect = FALSE
  /\ taken = 1 /\ told = {}
-----------------------------------------------------------------------------
(* The sender: a frame begins at once or any time after the one before.     *)

\* The bit lasts until its edge, which is off' late.
Until == off' \in -Jitter..Jitter /\ wait' = RxBitTime - off + off'

StartFrame ==
  /\ bit = 11
  /\ sent' \in RxChars /\ stop' \in {0, 1} /\ bit' = 1
  /\ off' \in -Jitter..Jitter /\ wait' = RxBitTime + off'

Hold ==
  /\ bit = 11 \/ wait > 1
  /\ wait' = IF bit = 11 THEN 0 ELSE wait - 1
  /\ UNCHANGED <<sent, stop, bit, off>>

\* The line stays low for longer than a frame.
HoldLow ==
  /\ bit = 10 /\ wait = 1 /\ stop = 0
  /\ UNCHANGED sender

NextBit ==
  /\ bit < 11 /\ wait = 1
  /\ bit' = bit + 1
  /\ Until
  /\ UNCHANGED <<sent, stop>>

Sender == StartFrame \/ Hold \/ HoldLow \/ NextBit
-----------------------------------------------------------------------------
(* The receiver's registers, one group for each always block or two.        *)

\* A mutated form: the counter is not moved to the middle of a bit.
BaudNoHalf ==
  rx_counter' = IF rx_counter = 0 THEN RxDivisor ELSE rx_counter - 1

Baud ==
  rx_counter' = IF rx_counter = 0 \/ rxd_edge
             THEN IF rxd_edge THEN RxDivisor \div 2 ELSE RxDivisor
             ELSE rx_counter - 1

DoStart == do_start' = (~in_process /\ rxd_falling)

\* On do_start_rx all ones; on a sample the line, from the side of the stop bit.
Shift ==
  shift' = IF do_start THEN [i \in 1..10 |-> 1]
           ELSE IF rx_baud_clk_en /\ in_process THEN Append(Tail(shift), rxd)
           ELSE shift

\* A mutated form: a read in the same clock hides the overrun.
OverrunUnlessRead(read, clear) ==
  rx_overrun' =
    (~clear /\ (rx_overrun \/ (got_new_char /\ rx_char_ready /\ ~read)))

RxOverrun(read, clear) ==
  rx_overrun' = (~clear /\ (rx_overrun \/ (got_new_char /\ rx_char_ready)))

CharReady(read) ==
  rx_char_ready' = (~read /\ (got_new_char \/ rx_char_ready))

is_framing_error == shift[10] = 0 /\ ~is_break

\* A write to STATUS, whatever its value, takes precedence over what happens.
Status(read, clear) ==
  /\ rx_data' = IF got_new_char THEN raw_data_in ELSE rx_data
  /\ CharReady(read)
  /\ RxOverrun(read, clear)
  /\ framing_error' =
       (~clear /\ (framing_error \/ (got_new_char /\ is_framing_error)))
  /\ break_detect' = (~clear /\ (break_detect \/ (got_new_char /\ is_break)))

\* Of the character that waited, the one that came and the one that was read,
\* more are unread than rx_char_ready says.
Gone == rx_char_ready \/ ~rx_char_ready'

Zeros == [i \in 1..8 |-> 0]

Happens ==
  IF ~got_new_char THEN {}
  ELSE (IF Gone THEN {"overrun"} ELSE {})
         \cup (IF stop = 1 THEN {}
               ELSE IF sent = Zeros THEN {"break"} ELSE {"damaged"})

History(clear) ==
  /\ taken' = (IF bit = 11 /\ bit' = 1 THEN 0 ELSE taken)
                + (IF got_new_char THEN 1 ELSE 0)
  /\ told' = IF clear THEN {} ELSE told \cup Happens

\* A clock edge; read: the first clock of a read of RXDATA; clear: one of a
\* write to STATUS.
Clock(read, clear) ==
  /\ Sender
  /\ Baud
  /\ rx_baud_clk_en' = (rx_counter = 0 /\ ~rxd_edge)
  /\ d_rxd' = rxd
  /\ DoStart
  /\ Shift
  /\ d_in_process' = in_process
  /\ Status(read, clear)
  /\ History(clear)

Wait  == Clock(FALSE, FALSE)
Read  == rx_char_ready /\ Clock(TRUE, FALSE)
Clear == Clock(FALSE, TRUE)

RxNext == Wait \/ Read \/ Clear
RxSpec == RxInit /\ [][RxNext]_rxVars
-----------------------------------------------------------------------------
(* Every variable has a value of its type.                                  *)
RxTypeOK ==
  /\ sent \in RxChars /\ stop \in {0, 1} /\ bit \in 1..11
  /\ wait \in 0..RxBitTime + 2 * Jitter /\ off \in -Jitter..Jitter
  /\ rx_counter \in 0..RxDivisor
  /\ {rx_baud_clk_en, do_start, d_in_process} \subseteq BOOLEAN
  /\ d_rxd \in {0, 1}
  /\ shift \in [1..10 -> {0, 1}]
  /\ rx_data \in [1..8 -> {0, 1}]
  /\ {rx_char_ready, rx_overrun, framing_error, break_detect} \subseteq BOOLEAN
  /\ taken \in 0..1 /\ told \subseteq {"overrun", "damaged", "break"}

\* What the receiver makes of a frame is the byte that was sent: the sample
\* after each edge is taken in the middle of the bit, and the edges of the data
\* keep it there.
ReceivedIsSent == got_new_char => raw_data_in = sent /\ bit = 10

\* Every frame makes exactly one character, and makes it before its stop bit
\* is over: no bit of the data is taken for another start bit, and the next
\* frame may follow at once.
OneForEach == bit = 11 => taken = 1

(* Every frame, a damaged one and a break included, is received once and    *)
(* right, whatever its bits and however its edges jitter; every register    *)
(* has a value of its width.                                                *)
FramesAreReceived == RxTypeOK /\ ReceivedIsSent /\ OneForEach

(* STATUS tells all that has happened since it was written, and nothing     *)
(* else: a character the program did not get, a damaged frame, a break.     *)
(* That includes the character that arrives on the very clock of the read   *)
(* of the one before it: rx_char_ready stays down, but the overrun is       *)
(* flagged.  What happens on the clock of the write is not told.            *)
StatusTellsAll ==
  /\ rx_overrun    <=> "overrun" \in told
  /\ framing_error <=> "damaged" \in told
  /\ break_detect  <=> "break"   \in told
=============================================================================

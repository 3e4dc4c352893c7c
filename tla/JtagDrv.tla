------------------------------- MODULE JtagDrv -------------------------------
(***************************************************************************)
(* The driver of the JTAG UART (drivers/src/altera_avalon_jtag_uart_*.c),  *)
(* with interrupts or small, over the registers and FIFOs of nios_jtag.v,  *)
(* with one program that calls it and a host that comes and goes.  Which   *)
(* driver is linked shows in the calls there are: the small one's are      *)
(* swrite and sread.                                                       *)
(*                                                                         *)
(* The program runs only while no interrupt routine does; the two routines *)
(* do not interrupt each other.  What the program does with interrupts off *)
(* is one step.  The hardware and the host move at any time.               *)
(*                                                                         *)
(* Bytes are numbered modulo Numbers in the order they are written by the  *)
(* program, or sent by the host.  The write to the control register goes   *)
(* with the assignment of irq_enable it follows, so that irq_enable is     *)
(* also what the device has (ien_AF, ien_AE).                              *)
(***************************************************************************)
EXTENDS Integers, Sequences

CONSTANTS
  BufLen,    \* ALTERA_AVALON_JTAG_UART_BUF_LEN: 2048
  TxDepth, RxDepth,  \* of the FIFOs: 64
  Low,       \* places at which a FIFO is nearly empty or full: 8
  Numbers,   \* bound: bytes are told apart modulo this
  MaxCount,  \* bound: bytes of one call
  Uses,      \* bound: the program makes the calls of one of these sets
  Unread,    \* bound: bytes the host sends to a program that does not read
  DefaultTimeout,  \* ALTERA_AVALON_JTAG_UART_DEFAULT_TIMEOUT: 10
  INT_MAX,
  Timeouts   \* arguments of TIOCSTIMEOUT

Small == {"swrite", "sread"}   \* the calls of the small driver

ASSUME JtagAssumption ==
  /\ BufLen \in Nat /\ BufLen > 1
  /\ {TxDepth, RxDepth} \subseteq Nat /\ Low \in Nat
  /\ Low < TxDepth /\ Low < RxDepth
  /\ Numbers \in Nat \ {0} /\ MaxCount \in Nat
  /\ INT_MAX \in Nat /\ DefaultTimeout \in 1..INT_MAX - 2
  /\ Timeouts \subseteq Int
  /\ \A u \in Uses : u \subseteq Small \/ u \cap Small = {}

VARIABLES
  txfifo, rxfifo,  \* the device's FIFOs
  pause_irq,       \* the host has paused with bytes in rxfifo, none read since
  ac,              \* AC: the host has been active since it was cleared
  irq_enable,      \* subset of {"RE", "WE"}
  timeout, host_inactive,
  rx_in, rx_out, rx_buf,
  tx_in, tx_out, tx_buf,
  at,              \* where the program is
  use,             \* the calls it makes
  isr,             \* where altera_avalon_jtag_uart_irq is
  txput, rxput,    \* history: numbers of the next bytes in
  txgot, rxgot     \* history: what came out last

device   == <<txfifo, rxfifo, pause_irq, ac>>
receive  == <<rx_in, rx_out, rx_buf, rxput, rxgot>>
transmit == <<tx_in, tx_out, tx_buf, txput, txgot>>
presence == <<timeout, host_inactive>>
vars == <<device, receive, transmit, presence, irq_enable, at, use, isr>>

Idle  == [pc |-> "idle", left |-> 0, moved |-> FALSE, nonblock |-> FALSE,
          seen |-> 0, n |-> 0]
Quiet == [pc |-> "off", space |-> 0, avail |-> FALSE]

\* altera_avalon_jtag_uart_init: without a system clock there is no alarm.
\* The small driver has neither interrupts nor an alarm.
Init ==
  /\ txfifo = <<>> /\ rxfifo = <<>> /\ pause_irq = FALSE /\ ac = FALSE
  /\ use \in Uses
  /\ irq_enable = IF use \subseteq Small THEN {} ELSE {"RE"}
  /\ timeout \in IF use \subseteq Small THEN {INT_MAX}
                 ELSE {DefaultTimeout, INT_MAX}
  /\ host_inactive = 0
  /\ rx_in = 0 /\ rx_out = 0 /\ rx_buf = [i \in 0..BufLen - 1 |-> 0]
  /\ tx_in = 0 /\ tx_out = 0 /\ tx_buf = [i \in 0..BufLen - 1 |-> 0]
  /\ at = Idle /\ isr = Quiet
  /\ txput = 0 /\ rxput = 0 /\ txgot = 0 /\ rxgot = 0
-----------------------------------------------------------------------------
(* The host, and the device's interrupts.                                   *)

HostTakes ==
  /\ txfifo # <<>>
  /\ txfifo' = Tail(txfifo)
  /\ txgot' = Head(txfifo)
  /\ UNCHANGED <<rxfifo, pause_irq, ac, receive, tx_in, tx_out, tx_buf,
                 txput, presence, irq_enable, at, use, isr>>

HostMaySend ==
  \/ {"read", "sread"} \cap use # {}
  \/ Len(rxfifo) + ((rx_in - rx_out) % BufLen) < Unread

HostSends ==
  /\ Len(rxfifo) < RxDepth /\ HostMaySend
  /\ rxfifo' = Append(rxfifo, rxput)
  /\ rxput' = (rxput + 1) % Numbers
  /\ ac' = TRUE
  /\ UNCHANGED <<txfifo, pause_irq, rx_in, rx_out, rx_buf, rxgot,
                 transmit, presence, irq_enable, at, use, isr>>

HostPauses ==
  /\ ac' = TRUE
  /\ pause_irq' = (pause_irq \/ rxfifo # <<>>)
  /\ UNCHANGED <<txfifo, rxfifo, receive, transmit, presence,
                 irq_enable, at, use, isr>>

RI == "RE" \in irq_enable /\ (pause_irq \/ RxDepth - Len(rxfifo) <= Low)
WI == "WE" \in irq_enable /\ Len(txfifo) <= Low
-----------------------------------------------------------------------------
(* altera_avalon_jtag_uart_irq.                                             *)

\* The control register is read, on entry and after each round.
IsrControl ==
  /\ \/ isr.pc = "off" /\ (RI \/ WI)
     \/ isr.pc = "on"
  /\ isr' = IF ~RI /\ ~WI THEN Quiet
            ELSE [pc |-> IF RI THEN "rx" ELSE "tx",
                  space |-> IF WI THEN TxDepth - Len(txfifo) ELSE 0,
                  avail |-> TRUE]
  /\ UNCHANGED <<device, receive, transmit, presence, irq_enable, at, use>>

\* With the WI bit of the same reading of the control register.
AfterReceive == IF isr.space > 0 THEN "tx" ELSE "on"

ReceiveFull == (rx_in + 1) % BufLen = rx_out

IsrReceive ==
  /\ isr.pc = "rx" /\ ~ReceiveFull /\ rxfifo # <<>>
  /\ rxfifo' = Tail(rxfifo) /\ pause_irq' = FALSE
  /\ rx_buf' = [rx_buf EXCEPT ![rx_in] = Head(rxfifo)]
  /\ rx_in' = (rx_in + 1) % BufLen
  /\ isr' = [isr EXCEPT !.avail = Len(rxfifo) > 1]
  /\ UNCHANGED <<txfifo, ac, rx_out, rxput, rxgot, transmit, presence,
                 irq_enable, at, use>>

\* A read that finds the FIFO empty.
IsrReceiveNone ==
  /\ isr.pc = "rx" /\ ~ReceiveFull /\ rxfifo = <<>>
  /\ pause_irq' = FALSE
  /\ isr' = [isr EXCEPT !.pc = AfterReceive]
  /\ UNCHANGED <<txfifo, rxfifo, ac, receive, transmit, presence,
                 irq_enable, at, use>>

\* RVALID is registered on the clock of the read, RAVAIL says what is there on
\* the next.  A byte that arrives in between is not valid but available, which
\* the routine takes for a full buffer.
IsrReceiveLate ==
  /\ isr.pc = "rx" /\ ~ReceiveFull /\ rxfifo = <<>> /\ HostMaySend
  /\ rxfifo' = <<rxput>> /\ pause_irq' = FALSE
  /\ rxput' = (rxput + 1) % Numbers
  /\ ac' = TRUE
  /\ irq_enable' = irq_enable \ {"RE"}
  /\ isr' = [isr EXCEPT !.pc = AfterReceive]
  /\ UNCHANGED <<txfifo, rx_in, rx_out, rx_buf, rxgot, transmit, presence, at,
                 use>>

IsrReceiveEnd ==
  /\ isr.pc = "rx" /\ ReceiveFull
  /\ irq_enable' = IF isr.avail THEN irq_enable \ {"RE"} ELSE irq_enable
  /\ isr' = [isr EXCEPT !.pc = AfterReceive]
  /\ UNCHANGED <<device, receive, transmit, presence, at, use>>

\* The device drops what does not fit (woverflow).
IsrTransmit ==
  /\ isr.pc = "tx" /\ isr.space > 0 /\ tx_out # tx_in
  /\ txfifo' = IF Len(txfifo) < TxDepth THEN Append(txfifo, tx_buf[tx_out])
               ELSE txfifo
  /\ tx_out' = (tx_out + 1) % BufLen
  /\ isr' = [isr EXCEPT !.space = @ - 1]
  /\ UNCHANGED <<rxfifo, pause_irq, ac, receive, tx_in, tx_buf, txput,
                 txgot, presence, irq_enable, at, use>>

IsrTransmitEnd ==
  /\ isr.pc = "tx" /\ (isr.space = 0 \/ tx_out = tx_in)
  /\ irq_enable' = IF isr.space > 0 THEN irq_enable \ {"WE"} ELSE irq_enable
  /\ isr' = [isr EXCEPT !.pc = "on"]
  /\ UNCHANGED <<device, receive, transmit, presence, at, use>>

Isr == IsrControl \/ IsrReceive \/ IsrReceiveNone \/ IsrReceiveLate
       \/ IsrReceiveEnd \/ IsrTransmit \/ IsrTransmitEnd

\* A mutated form: the count is not stopped.
Timeout_NoStop ==
  /\ timeout # INT_MAX
  /\ isr.pc = "off"
  /\ ac' = FALSE
  /\ host_inactive' = IF ac THEN 0 ELSE host_inactive + 1
  /\ UNCHANGED <<txfifo, rxfifo, pause_irq, receive, transmit, timeout,
                 irq_enable, at, use, isr>>

\* altera_avalon_jtag_uart_timeout, every second if there is an alarm.
Timeout ==
  /\ timeout # INT_MAX
  /\ isr.pc = "off"
  /\ ac' = FALSE
  /\ host_inactive' = IF ac THEN 0
                      ELSE IF host_inactive < INT_MAX - 2 THEN host_inactive + 1
                      ELSE host_inactive
  /\ UNCHANGED <<txfifo, rxfifo, pause_irq, receive, transmit, timeout,
                 irq_enable, at, use, isr>>
-----------------------------------------------------------------------------
(* The program's calls.                                                     *)

Expired == host_inactive >= timeout

Runs(pc)  == isr.pc = "off" /\ at.pc = pc
Goto(pc)  == at' = [at EXCEPT !.pc = pc]
Return    == at' = Idle

\* nonblock: O_NONBLOCK is among the descriptor's flags.
Call(pc) ==
  /\ Runs("idle") /\ pc \in use
  /\ \E count \in 1..MaxCount, nonblock \in BOOLEAN :
       at' = [Idle EXCEPT !.pc = pc, !.left = count, !.nonblock = nonblock]
  /\ UNCHANGED <<device, receive, transmit, presence, irq_enable, use, isr>>

\* A mutated form: an empty buffer is filled to the last place.
Space_Whole(in, out) ==
  IF in < out THEN out - 1 - in ELSE BufLen - in

\* The places that can be filled without going round.
Space(in, out) ==
  IF in < out THEN out - 1 - in
  ELSE IF out > 0 THEN BufLen - in
  ELSE BufLen - 1 - in

Least(m, n) == IF m < n THEN m ELSE n

\* One round of the copying loop up to memcpy; the loop ends when there is
\* nothing to copy or no place for it.
WriteCopy ==
  LET n == Least(Space(tx_in, tx_out), at.left)
  IN  /\ Runs("write")
      /\ tx_buf' = [i \in 0..BufLen - 1 |->
                      IF i \in tx_in..tx_in + n - 1
                      THEN (txput + i - tx_in) % Numbers ELSE tx_buf[i]]
      /\ at' = [at EXCEPT !.pc = IF n = 0 THEN "kick" ELSE "wset",
                          !.seen = IF n = 0 /\ at.left > 0 THEN tx_out ELSE 0,
                          !.n = n]
      /\ UNCHANGED <<device, receive, tx_in, tx_out, txput, txgot, presence,
                     irq_enable, use, isr>>

WriteSet ==
  /\ Runs("wset")
  /\ tx_in' = (tx_in + at.n) % BufLen
  /\ txput' = (txput + at.n) % Numbers
  /\ at' = [at EXCEPT !.pc = "write", !.left = @ - at.n, !.moved = TRUE,
                      !.n = 0]
  /\ UNCHANGED <<device, receive, tx_out, tx_buf, txgot, presence, irq_enable,
                 use, isr>>

\* A mutated form: the interrupt is left as it is.
WriteKick_Not ==
  /\ Runs("kick")
  /\ IF at.left > 0 /\ ~at.nonblock THEN Goto("wwait") ELSE Return
  /\ UNCHANGED <<device, receive, transmit, presence, irq_enable, use, isr>>

WriteKick ==
  /\ Runs("kick")
  /\ irq_enable' = irq_enable \cup {"WE"}
  /\ IF at.left > 0 /\ ~at.nonblock THEN Goto("wwait") ELSE Return
  /\ UNCHANGED <<device, receive, transmit, presence, use, isr>>

\* A mutated form: the host is waited for whether it is there or not.
WriteWait_Forever ==
  /\ Runs("wwait") /\ at.seen # tx_out
  /\ Goto("wcheck")
  /\ UNCHANGED <<device, receive, transmit, presence, irq_enable, use, isr>>

WriteWait ==
  /\ Runs("wwait") /\ (at.seen # tx_out \/ Expired)
  /\ Goto("wcheck")
  /\ UNCHANGED <<device, receive, transmit, presence, irq_enable, use, isr>>

WriteCheck ==
  /\ Runs("wcheck")
  /\ IF host_inactive > 0 THEN Return
     ELSE at' = [at EXCEPT !.pc = "write", !.seen = 0]
  /\ UNCHANGED <<device, receive, transmit, presence, irq_enable, use, isr>>

\* What can be read without going round.
Present(in, out) == IF in >= out THEN in - out ELSE BufLen - out

\* One round of the reading loop up to memcpy, or what to do without data.
ReadCopy ==
  LET n == Least(Present(rx_in, rx_out), at.left)
  IN  /\ Runs("read")
      /\ IF n > 0
         THEN /\ rxgot' = rx_buf[rx_out + n - 1]
              /\ at' = [at EXCEPT !.pc = "rset", !.n = n]
         ELSE /\ UNCHANGED rxgot
              /\ IF at.moved THEN Goto("rend")
                 ELSE IF at.nonblock THEN Return
                 ELSE at' = [at EXCEPT !.pc = "rwait", !.seen = rx_in]
      /\ UNCHANGED <<device, rx_in, rx_out, rx_buf, rxput, transmit, presence,
                     irq_enable, use, isr>>

ReadSet ==
  /\ Runs("rset")
  /\ rx_out' = (rx_out + at.n) % BufLen
  /\ at' = [at EXCEPT !.pc = IF at.left > at.n THEN "read" ELSE "rend",
                      !.left = @ - at.n, !.moved = TRUE, !.n = 0]
  /\ UNCHANGED <<device, rx_in, rx_buf, rxput, rxgot, transmit, presence,
                 irq_enable, use, isr>>

ReadWait ==
  /\ Runs("rwait") /\ (at.seen # rx_in \/ Expired)
  /\ Goto("rcheck")
  /\ UNCHANGED <<device, receive, transmit, presence, irq_enable, use, isr>>

ReadCheck ==
  /\ Runs("rcheck")
  /\ IF at.seen = rx_in THEN Return
     ELSE at' = [at EXCEPT !.pc = "read", !.seen = 0]
  /\ UNCHANGED <<device, receive, transmit, presence, irq_enable, use, isr>>

ReadEnd ==
  /\ Runs("rend")
  /\ irq_enable' = irq_enable \cup {"RE"}
  /\ Return
  /\ UNCHANGED <<device, receive, transmit, presence, use, isr>>

\* close() that may block; one that may not changes nothing.
Close ==
  /\ Runs("close") /\ (tx_out = tx_in \/ Expired)
  /\ Return
  /\ UNCHANGED <<device, receive, transmit, presence, irq_enable, use, isr>>

\* TIOCSTIMEOUT; without an alarm it is refused.
SetTimeout ==
  /\ Runs("idle") /\ timeout # INT_MAX
  /\ \E arg \in Timeouts :
       timeout' = IF arg >= 2 /\ arg < INT_MAX THEN arg ELSE INT_MAX - 1
  /\ UNCHANGED <<device, receive, transmit, host_inactive, irq_enable, at, use,
                 isr>>
-----------------------------------------------------------------------------
(* The small driver.                                                        *)

SmallWrite ==
  /\ Runs("swrite") /\ Len(txfifo) < TxDepth
  /\ txfifo' = Append(txfifo, txput)
  /\ txput' = (txput + 1) % Numbers
  /\ IF at.left > 1 THEN at' = [at EXCEPT !.left = @ - 1] ELSE Return
  /\ UNCHANGED <<rxfifo, pause_irq, ac, receive, tx_in, tx_out, tx_buf, txgot,
                 presence, irq_enable, use, isr>>

SmallRead ==
  /\ Runs("sread") /\ rxfifo # <<>>
  /\ rxfifo' = Tail(rxfifo) /\ pause_irq' = FALSE
  /\ rxgot' = Head(rxfifo)
  /\ IF at.left > 1 THEN at' = [at EXCEPT !.left = @ - 1, !.moved = TRUE]
     ELSE Return
  /\ UNCHANGED <<txfifo, ac, rx_in, rx_out, rx_buf, rxput, transmit, presence,
                 irq_enable, use, isr>>

SmallReadNone ==
  /\ Runs("sread") /\ rxfifo = <<>>
  /\ pause_irq' = FALSE
  /\ IF at.moved \/ at.nonblock THEN Return ELSE UNCHANGED at
  /\ UNCHANGED <<txfifo, rxfifo, ac, receive, transmit, presence, irq_enable,
                 use, isr>>
-----------------------------------------------------------------------------
Body == WriteCopy \/ WriteSet \/ WriteKick \/ WriteWait \/ WriteCheck
        \/ ReadCopy \/ ReadSet \/ ReadWait \/ ReadCheck \/ ReadEnd \/ Close
        \/ SmallWrite \/ SmallRead \/ SmallReadNone

Next ==
  \/ HostTakes \/ HostSends \/ HostPauses
  \/ Isr \/ Timeout
  \/ Call("write") \/ Call("read") \/ Call("close")
  \/ Call("swrite") \/ Call("sread")
  \/ Body \/ SetTimeout

Spec == Init /\ [][Next]_vars

\* The processor runs and the timer interrupts; the host owes nothing.
Live == WF_vars(Body) /\ WF_vars(Isr) /\ WF_vars(Timeout)

FairSpec == Spec /\ Live
-----------------------------------------------------------------------------
Reading == at.pc \in {"read", "rset", "rwait", "rcheck", "rend", "sread"}

Byte  == 0..Numbers - 1
Index == 0..BufLen - 1

Places == [pc : {"idle", "write", "wset", "kick", "wwait", "wcheck",
                 "read", "rset", "rwait", "rcheck", "rend", "close",
                 "swrite", "sread"},
           left : 0..MaxCount, moved : BOOLEAN, nonblock : BOOLEAN,
           seen : Index, n : Index]
Rounds == [pc : {"off", "on", "rx", "tx"}, space : 0..TxDepth,
           avail : BOOLEAN]

(* Every variable has a value of its type.                                  *)
TypeOK ==
  /\ txfifo \in Seq(Byte) /\ Len(txfifo) <= TxDepth
  /\ rxfifo \in Seq(Byte) /\ Len(rxfifo) <= RxDepth
  /\ pause_irq \in BOOLEAN /\ ac \in BOOLEAN
  /\ irq_enable \subseteq {"RE", "WE"}
  /\ timeout \in 1..INT_MAX /\ host_inactive \in 0..INT_MAX - 2
  /\ rx_in \in Index /\ rx_out \in Index /\ rx_buf \in [Index -> Byte]
  /\ tx_in \in Index /\ tx_out \in Index /\ tx_buf \in [Index -> Byte]
  /\ at \in Places /\ isr \in Rounds
  /\ txput \in Byte /\ rxput \in Byte /\ txgot \in Byte /\ rxgot \in Byte

ReceiveEmpty == rx_in = rx_out

(* No wake-up is lost: bytes are left in the transmit buffer with their     *)
(* interrupt off only on the way to the statement that turns it on, and     *)
(* receiving is off only while the receive buffer has a byte for a read(),  *)
(* which turns it on, or on the way to where one does.  (It may be off with *)
(* room in the buffer, see IsrReceiveLate.)                                 *)
Armed ==
  isr.pc = "off" =>
    /\ tx_in # tx_out /\ "WE" \notin irq_enable =>
         at.pc \in {"write", "wset", "kick"}
    /\ "RE" \notin irq_enable /\ ReceiveEmpty /\ ~(use \subseteq Small) =>
         at.pc = "rend" \/ (at.pc \in {"read", "rset"} /\ at.moved)

(* Program to host, and host to program, nothing is lost, doubled or        *)
(* overtaken, whatever the order in which the two sides, the interrupt      *)
(* routine and the host move the indices and the FIFOs.                     *)
Ring(buf, out, in) ==
  [i \in 1..(in - out) % BufLen |-> buf[(out + i - 1) % BufLen]]

Tx == INSTANCE Pipe WITH
        Cap <- TxDepth + BufLen - 1, put <- txput, got <- txgot,
        q <- txfifo \o Ring(tx_buf, tx_out, tx_in)

\* What is copied and not yet released has come out.
Copied == IF at.pc = "rset" THEN at.n ELSE 0

Rx == INSTANCE Pipe WITH
        Cap <- RxDepth + BufLen - 1, put <- rxput, got <- rxgot,
        q <- Ring(rx_buf, (rx_out + Copied) % BufLen, rx_in) \o rxfifo

RefinesPipes == Tx!Spec /\ Rx!Spec

(* A blocking call comes back: by the timeout when the host is silent (the  *)
(* timeouts INT_MAX - 1 and INT_MAX never expire), a write also when the    *)
(* host has taken what the device held, a read when the host has sent and   *)
(* paused.                                                                  *)
CanExpire == timeout < INT_MAX - 1

CallsReturn ==
  /\ at.pc # "idle" /\ CanExpire ~> at.pc = "idle" \/ ac
  /\ at.pc = "wwait" /\ Len(txfifo) <= Low ~> at.pc # "wwait"
  /\ Reading /\ pause_irq /\ rxfifo # <<>> ~> at.pc = "idle"
=============================================================================

------------------------------- MODULE UartDrv -------------------------------
(***************************************************************************)
(* The driver of the UART (drivers/src/altera_avalon_uart_*.c), with       *)
(* interrupts or small, with one program that calls it.  The program runs  *)
(* only while the interrupt routine does not; the lines move at any time.  *)
(* Without an operating system the semaphores and event flags are nothing, *)
(* and a call that blocks is a loop.  Which driver is linked shows in the  *)
(* calls there are: the small one's are swrite and sread.                  *)
(*                                                                         *)
(* The control register is written where sp->ctrl is assigned, or later in *)
(* the same routine with nothing of consequence between, so that ctrl is   *)
(* both.  Bytes are numbered modulo Numbers in the order they are written  *)
(* by the program, or come in.                                             *)
(***************************************************************************)
EXTENDS Integers, Sequences

CONSTANTS
  BufLen,    \* ALT_AVALON_UART_BUF_LEN: 64
  Numbers,   \* bound: bytes are told apart modulo this
  Lengths,   \* bound: how many bytes a call is for
  Uses,      \* bound: the program makes the calls of one of these sets
  None       \* no byte

Small == {"swrite", "sread"}   \* the calls of the small driver

ASSUME UartAssumption ==
  /\ BufLen \in Nat /\ BufLen > 1
  /\ Numbers \in Nat \ {0} /\ Lengths \subseteq Nat
  /\ None \notin 0..Numbers - 1
  /\ \A u \in Uses : u \subseteq Small \/ u \cap Small = {}

VARIABLES
  fc,               \* ALT_AVALON_UART_FC: the device has CTS
  txdata, rxdata,   \* TXDATA while TRDY is 0; RXDATA while RRDY is 1
  err,              \* PE or FE
  cts, dcts,
  ctrl,             \* subset of {"RRDY", "TRDY", "DCTS"}
  rx_start, rx_end, rx_buf,
  tx_start, tx_end, tx_buf,
  at,               \* where the program is
  use,              \* the calls it makes
  isr,              \* where altera_avalon_uart_irq is, with its status
  txput, rxput,     \* history: numbers of the next bytes in
  txgot, rxgot,     \* history: what came out last
  overfilled,       \* history: a byte has been stored in a full rx_buf
  damaged           \* history: the byte in RXDATA came with an error

status   == <<fc, txdata, rxdata, err, damaged, cts, dcts>>
receive  == <<rx_start, rx_end, rx_buf, rxgot, overfilled>>
transmit == <<tx_start, tx_end, tx_buf, txput>>
vars == <<status, receive, transmit, rxput, txgot, ctrl, at, use, isr>>

\* saw: what the small driver's reading of the status has found.
Idle  == [pc |-> "idle", left |-> 0, moved |-> FALSE, nonblock |-> FALSE,
          saw |-> "nothing"]
Quiet == [pc |-> "off", rrdy |-> FALSE, t |-> FALSE, err |-> FALSE,
          cts |-> FALSE]

\* altera_avalon_uart_init.  The small driver has no interrupts.
Init ==
  /\ fc \in BOOLEAN
  /\ txdata = None /\ rxdata = None /\ err = FALSE
  /\ cts \in BOOLEAN /\ dcts = FALSE /\ (cts => fc)
  /\ use \in Uses
  /\ ctrl = IF use \subseteq Small THEN {} ELSE {"RRDY", "DCTS"}
  /\ rx_start = 0 /\ rx_end = 0 /\ rx_buf = [i \in 0..BufLen - 1 |-> 0]
  /\ tx_start = 0 /\ tx_end = 0 /\ tx_buf = [i \in 0..BufLen - 1 |-> 0]
  /\ at = Idle /\ isr = Quiet
  /\ txput = 0 /\ rxput = 0 /\ txgot = 0 /\ rxgot = 0
  /\ overfilled = FALSE /\ damaged = FALSE

\* A mutated form: the mask is forgotten.
After_NoMask(i) == i + 1

After(i) == (i + 1) % BufLen
-----------------------------------------------------------------------------
(* The lines.                                                               *)

LineTakes ==
  /\ txdata # None
  /\ txdata' = None /\ txgot' = txdata
  /\ UNCHANGED <<fc, rxdata, err, damaged, cts, dcts, receive, transmit, rxput, ctrl,
                 at, use, isr>>

\* A byte comes in, with an error or without, over one that waits if one does:
\* the line loses that one, and its number is used again.  Bound: none comes
\* once rx_buf has been overfilled, and none with flow control.
LineBrings ==
  /\ ~overfilled /\ ~fc
  /\ IF rxdata = None THEN rxdata' = rxput /\ rxput' = (rxput + 1) % Numbers
     ELSE UNCHANGED <<rxdata, rxput>>
  /\ \E error \in BOOLEAN : err' = (err \/ error) /\ damaged' = error
  /\ UNCHANGED <<fc, txdata, cts, dcts, receive, transmit, txgot, ctrl, at,
                 use, isr>>

CtsChanges ==
  /\ fc
  /\ cts' = ~cts /\ dcts' = TRUE
  /\ UNCHANGED <<fc, txdata, rxdata, err, damaged, receive, transmit, rxput,
                 txgot, ctrl, at, use, isr>>

Irq == \/ "RRDY" \in ctrl /\ rxdata # None
       \/ "TRDY" \in ctrl /\ txdata = None
       \/ "DCTS" \in ctrl /\ dcts
-----------------------------------------------------------------------------
(* altera_avalon_uart_irq: the status is read, then cleared; then rxirq and *)
(* txirq do what the status read has told, whatever interrupt it was.       *)

IsrStatus ==
  /\ isr.pc = "off" /\ Irq
  /\ isr' = [pc |-> "clear", rrdy |-> rxdata # None,
             t |-> txdata = None \/ dcts, err |-> err, cts |-> cts]
  /\ UNCHANGED <<status, receive, transmit, rxput, txgot, ctrl, at, use>>

IsrClear ==
  /\ isr.pc = "clear"
  /\ err' = FALSE /\ dcts' = FALSE
  /\ isr' = [isr EXCEPT !.pc = IF isr.rrdy /\ ~isr.err THEN "rx"
                               ELSE IF isr.t THEN "tx" ELSE "off"]
  /\ UNCHANGED <<fc, txdata, rxdata, damaged, cts, receive, transmit, rxput,
                 txgot, ctrl, at, use>>

IsrDone == isr' = Quiet

\* The byte is stored without a look at the room: the interrupt is off while
\* there is none.
Rxirq ==
  /\ isr.pc = "rx"
  /\ rx_buf' = [rx_buf EXCEPT ![rx_end] = rxdata]
  /\ rx_end' = After(rx_end)
  /\ overfilled' = (overfilled \/ After(rx_end) = rx_start)
  /\ rxdata' = None /\ damaged' = FALSE
  /\ ctrl' = IF After(rx_end') = rx_start THEN ctrl \ {"RRDY"} ELSE ctrl
  /\ IF isr.t THEN isr' = [isr EXCEPT !.pc = "tx"] ELSE IsrDone
  /\ UNCHANGED <<fc, txdata, err, cts, dcts, rx_start, rxgot, transmit, rxput,
                 txgot, at, use>>

Drained(start) == start = tx_end

\* TXDATA is written, and what waits there is lost if something does.
TxirqSend ==
  /\ isr.pc = "tx" /\ ~Drained(tx_start) /\ (~fc \/ isr.cts)
  /\ txdata' = tx_buf[tx_start]
  /\ tx_start' = After(tx_start)
  /\ ctrl' = IF Drained(tx_start') THEN ctrl \ {"TRDY", "DCTS"}
             ELSE ctrl \cup {"TRDY"}
  /\ IsrDone
  /\ UNCHANGED <<fc, rxdata, err, damaged, cts, dcts, receive, tx_end, tx_buf,
                 txput, rxput, txgot, at, use>>

\* CTS is looked at again before the interrupt is turned off.
TxirqThrottle ==
  /\ isr.pc = "tx" /\ ~Drained(tx_start) /\ fc /\ ~isr.cts
  /\ ctrl' = IF cts THEN ctrl ELSE ctrl \ {"TRDY"}
  /\ IsrDone
  /\ UNCHANGED <<status, receive, transmit, rxput, txgot, at, use>>

TxirqNone ==
  /\ isr.pc = "tx" /\ Drained(tx_start)
  /\ ctrl' = ctrl \ {"TRDY", "DCTS"}
  /\ IsrDone
  /\ UNCHANGED <<status, receive, transmit, rxput, txgot, at, use>>

Isr == IsrStatus \/ IsrClear \/ Rxirq \/ TxirqSend \/ TxirqThrottle \/ TxirqNone
-----------------------------------------------------------------------------
(* The program's calls.                                                     *)

Runs(pc) == isr.pc = "off" /\ at.pc = pc
Goto(pc) == at' = [at EXCEPT !.pc = pc]
Return   == at' = Idle

Call(pc) ==
  /\ Runs("idle") /\ pc \in use
  /\ \E len \in Lengths, nonblock \in BOOLEAN :
       at' = [Idle EXCEPT !.pc = pc, !.left = len, !.nonblock = nonblock]
  /\ UNCHANGED <<status, receive, transmit, rxput, txgot, ctrl, use, isr>>

TransmitFull == After(tx_end) = tx_start

\* A mutated form: the last place counts as room.
WriteTest_LastPlace ==
  /\ Runs("write")
  /\ Goto(IF at.left = 0 \/ (Drained(tx_start) /\ at.nonblock)
          THEN "wend" ELSE "wput")
  /\ UNCHANGED <<status, receive, transmit, rxput, txgot, ctrl, use, isr>>

WriteTest ==
  /\ Runs("write")
  /\ Goto(IF at.left = 0 \/ (TransmitFull /\ at.nonblock) THEN "wend"
          ELSE IF TransmitFull THEN "wkick" ELSE "wput")
  /\ UNCHANGED <<status, receive, transmit, rxput, txgot, ctrl, use, isr>>

\* A mutated form: the interrupts are left as they are.
WriteKick_Not ==
  /\ Runs("wkick")
  /\ Goto("wwait")
  /\ UNCHANGED <<status, receive, transmit, rxput, txgot, ctrl, use, isr>>

WriteKick ==
  /\ Runs("wkick")
  /\ ctrl' = ctrl \cup {"TRDY", "DCTS"}
  /\ Goto("wwait")
  /\ UNCHANGED <<status, receive, transmit, rxput, txgot, use, isr>>

WriteWait ==
  /\ Runs("wwait") /\ ~TransmitFull
  /\ Goto("wput")
  /\ UNCHANGED <<status, receive, transmit, rxput, txgot, ctrl, use, isr>>

WritePut ==
  /\ Runs("wput")
  /\ tx_buf' = [tx_buf EXCEPT ![tx_end] = txput]
  /\ tx_end' = After(tx_end)
  /\ txput' = (txput + 1) % Numbers
  /\ at' = [at EXCEPT !.pc = "write", !.left = @ - 1]
  /\ UNCHANGED <<status, receive, tx_start, rxput, txgot, ctrl, use, isr>>

WriteEnd ==
  /\ Runs("wend")
  /\ ctrl' = ctrl \cup {"TRDY", "DCTS"}
  /\ Return
  /\ UNCHANGED <<status, receive, transmit, rxput, txgot, use, isr>>

ReceiveEmpty == rx_start = rx_end

\* The test of the inner loop: a byte is there and wanted.
ReadTest ==
  /\ Runs("read")
  /\ Goto(IF at.left > 0 /\ ~ReceiveEmpty THEN "rtake" ELSE "rnone")
  /\ UNCHANGED <<status, receive, transmit, rxput, txgot, ctrl, use, isr>>

ReadTake ==
  /\ Runs("rtake")
  /\ rxgot' = rx_buf[rx_start]
  /\ rx_start' = After(rx_start)
  /\ at' = [at EXCEPT !.pc = "read", !.left = @ - 1, !.moved = TRUE]
  /\ UNCHANGED <<status, rx_end, rx_buf, overfilled, transmit, rxput, txgot,
                 ctrl, use, isr>>

\* With nothing read: give up, or turn the receiver on and look again.
ReadNone ==
  /\ Runs("rnone")
  /\ Goto(IF ~at.moved /\ at.left > 0 /\ ~(ReceiveEmpty /\ at.nonblock)
          THEN "read" ELSE "rend")
  /\ ctrl' = IF ~at.moved /\ ReceiveEmpty /\ ~at.nonblock
             THEN ctrl \cup {"RRDY"} ELSE ctrl
  /\ UNCHANGED <<status, receive, transmit, rxput, txgot, use, isr>>

\* A mutated form: the receiver is not turned on again.
ReadEnd_Not ==
  /\ Runs("rend")
  /\ Return
  /\ UNCHANGED <<status, receive, transmit, rxput, txgot, ctrl, use, isr>>

ReadEnd ==
  /\ Runs("rend")
  /\ ctrl' = ctrl \cup {"RRDY"}
  /\ Return
  /\ UNCHANGED <<status, receive, transmit, rxput, txgot, use, isr>>

\* close() that may block; one that may not changes nothing.
Close ==
  /\ Runs("close") /\ Drained(tx_start)
  /\ Return
  /\ UNCHANGED <<status, receive, transmit, rxput, txgot, ctrl, use, isr>>
-----------------------------------------------------------------------------
(* The small driver.                                                        *)

\* The count is looked at after a byte: one of 0 goes on below 0, for 2^32
\* bytes if the call may block.  Bound: -1 stands for all of those.
SmallWrite ==
  /\ Runs("swrite") /\ txdata = None
  /\ txdata' = txput
  /\ txput' = (txput + 1) % Numbers
  /\ IF at.nonblock \/ at.left = 1 THEN Return
     ELSE at' = [at EXCEPT !.left = IF @ > 0 THEN @ - 1 ELSE -1]
  /\ UNCHANGED <<fc, rxdata, err, damaged, cts, dcts, receive, tx_start,
                 tx_end, tx_buf, rxput, txgot, ctrl, use, isr>>

SmallWriteNot ==
  /\ Runs("swrite") /\ txdata # None /\ at.nonblock
  /\ Return
  /\ UNCHANGED <<status, receive, transmit, rxput, txgot, ctrl, use, isr>>

SmallStatus ==
  /\ Runs("sread")
  /\ at' = [at EXCEPT !.pc = "sclear",
                      !.saw = IF rxdata = None THEN "nothing"
                              ELSE IF err THEN "damaged" ELSE "byte"]
  /\ UNCHANGED <<status, receive, transmit, rxput, txgot, ctrl, use, isr>>

SmallClear ==
  /\ Runs("sclear")
  /\ err' = FALSE /\ dcts' = FALSE
  /\ IF at.saw # "nothing" THEN Goto("stake")
     ELSE IF at.nonblock THEN Return ELSE Goto("sread")
  /\ UNCHANGED <<fc, txdata, rxdata, damaged, cts, receive, transmit, rxput,
                 txgot, ctrl, use, isr>>

\* What is in RXDATA when an error has been seen is read and not counted.  One
\* byte is read, whatever the length.
SmallTake ==
  /\ Runs("stake")
  /\ rxdata' = None /\ damaged' = FALSE
  /\ rxgot' = IF at.saw = "byte" THEN rxdata ELSE rxgot
  /\ IF at.saw = "byte" \/ at.nonblock THEN Return ELSE Goto("sread")
  /\ UNCHANGED <<fc, txdata, err, cts, dcts, rx_start, rx_end, rx_buf,
                 overfilled, transmit, rxput, txgot, ctrl, use, isr>>
-----------------------------------------------------------------------------
Body == WriteTest \/ WriteKick \/ WriteWait \/ WritePut \/ WriteEnd
        \/ ReadTest \/ ReadTake \/ ReadNone \/ ReadEnd \/ Close
        \/ SmallWrite \/ SmallWriteNot
        \/ SmallStatus \/ SmallClear \/ SmallTake

Next ==
  \/ LineTakes \/ LineBrings \/ CtsChanges
  \/ Isr
  \/ Call("write") \/ Call("read") \/ Call("close")
  \/ Call("swrite") \/ Call("sread")
  \/ Body

Spec == Init /\ [][Next]_vars

\* The processor runs, and the transmitter sends what it has.  The routine takes
\* less than a byte on the line, so the program runs between two interrupts.
Live == SF_vars(Body) /\ WF_vars(Isr) /\ WF_vars(LineTakes)

FairSpec == Spec /\ Live
-----------------------------------------------------------------------------
Byte  == 0..Numbers - 1
Index == 0..BufLen - 1

FastPlaces  == {"write", "wkick", "wwait", "wput", "wend",
                "read", "rtake", "rnone", "rend", "close"}
SmallPlaces == {"swrite", "sread", "sclear", "stake"}

Places  == [pc : {"idle"} \cup FastPlaces \cup SmallPlaces,
            left : Nat \cup {-1}, moved : BOOLEAN, nonblock : BOOLEAN,
            saw : {"nothing", "damaged", "byte"}]
Rounds  == [pc : {"off", "clear", "rx", "tx"}, rrdy : BOOLEAN,
            t : BOOLEAN, err : BOOLEAN, cts : BOOLEAN]

(* Every variable has a value of its type.                                  *)
TypeOK ==
  /\ fc \in BOOLEAN /\ err \in BOOLEAN
  /\ overfilled \in BOOLEAN /\ damaged \in BOOLEAN
  /\ cts \in BOOLEAN /\ dcts \in BOOLEAN
  /\ txdata \in Byte \cup {None} /\ rxdata \in Byte \cup {None}
  /\ ctrl \subseteq {"RRDY", "TRDY", "DCTS"}
  /\ rx_start \in Index /\ rx_end \in Index /\ rx_buf \in [Index -> Byte]
  /\ tx_start \in Index /\ tx_end \in Index /\ tx_buf \in [Index -> Byte]
  /\ at \in Places /\ isr \in Rounds /\ use \in Uses
  /\ txput \in Byte /\ rxput \in Byte /\ txgot \in Byte /\ rxgot \in Byte

(* No wake-up is lost.  Without flow control bytes are left in the transmit *)
(* buffer with the transmitter's interrupt off only on the way to the       *)
(* statement that turns it on; the receiver's is off only while there is no *)
(* room, or on the way to turning it on.                                    *)
Armed ==
  isr.pc = "off" =>
    /\ ~Drained(tx_start) /\ ~fc =>
         "TRDY" \in ctrl \/ at.pc \in {"write", "wkick", "wput", "wend"}
    /\ "RRDY" \notin ctrl /\ ~overfilled /\ ~(use \subseteq Small) =>
         \/ After(rx_end) = rx_start
         \/ at.pc \in {"read", "rtake", "rnone", "rend"}

(* With flow control: once CTS is high and its change has been seen, bytes  *)
(* do not wait with the transmitter's interrupt off, which is what reading  *)
(* the status again before throttling is for (altera_avalon_uart_init.c,    *)
(* 255-259).                                                                *)
CtsWakes ==
  isr.pc = "off" /\ fc /\ cts /\ ~dcts /\ ~Drained(tx_start) =>
    "TRDY" \in ctrl \/ at.pc \in {"write", "wkick", "wput", "wend"}

(* A byte that came with an error is discarded by the interrupt routine     *)
(* (altera_avalon_uart_init.c, 157), never stored in the buffer.            *)
DamagedIsDiscarded == [][rx_end' # rx_end => ~damaged]_vars

(* What is written goes out once and in order; without flow control all of  *)
(* it.  What comes in and is not run over on the line is read once and in   *)
(* order, until a byte is stored in the full buffer.  What becomes of a     *)
(* byte that came with an error is left open here, and of the one that the  *)
(* small driver finds when it has seen an error: it may be read in its      *)
(* place or thrown away.                                                    *)
Ring(buf, start, end) ==
  [i \in 1..(end - start) % BufLen |-> buf[(start + i - 1) % BufLen]]
Waiting(data) == IF data = None THEN <<>> ELSE <<data>>

Tx == INSTANCE Pipe WITH Cap <- BufLen, put <- txput, got <- txgot,
        q <- Waiting(txdata) \o Ring(tx_buf, tx_start, tx_end)

Rx == INSTANCE Pipe WITH Cap <- BufLen, put <- rxput, got <- rxgot,
        q <- Ring(rx_buf, rx_start, rx_end) \o Waiting(rxdata)

Overrun == fc /\ txdata # None /\ isr.pc = "tx"

\* The last byte in is thrown away.
Discard ==
  /\ damaged \/ (at.pc = "stake" /\ at.saw = "damaged")
  /\ rxdata # None /\ rxdata' = None
  /\ UNCHANGED <<rx_start, rx_end, rx_buf, rxput, rxgot>>

BytesInOrder ==
  /\ Tx!Init /\ [][Tx!Next \/ Overrun]_Tx!pipeVars
  /\ Rx!Init /\ [][Rx!Next \/ Discard \/ overfilled']_Rx!pipeVars

(* A blocking call comes back without the help of the program: a write or a *)
(* close without flow control, since the transmitter sends; a read, once a  *)
(* byte without an error has come (and was not lost with the whole buffer). *)
(* Left out is the small write of no byte, which has 2^32 to send.          *)
Writing == at.pc \in {"write", "wkick", "wwait", "wput", "wend", "close",
                      "swrite"}
Reading == at.pc \in {"read", "rtake", "rnone", "rend",
                      "sread", "sclear", "stake"}

CallsReturn ==
  /\ Writing /\ ~fc ~> at.pc = "idle" \/ at.left = -1
  /\ Reading /\ rxdata # None /\ at.saw # "damaged" ~>
       at.pc = "idle" \/ err \/ overfilled
=============================================================================

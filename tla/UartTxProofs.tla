---------------------------- MODULE UartTxProofs ----------------------------
(***************************************************************************)
(* For every divisor and every character set: the transmitter's registers  *)
(* keep their types, a program that spaces its writes by CharTime never    *)
(* overruns it, whatever is written each clock does what a queue of two    *)
(* places may do, and the bits on the line are whole.                      *)
(*                                                                         *)
(* NeverOverrun is not inductive: nothing in it says how far the character *)
(* of the last write has got.  Paced does: until the transmitter rests,    *)
(* the clocks since the write and the clocks still needed make a constant. *)
(* The queue needs to know what the two clocks of do_load_shifter find in  *)
(* TXDATA and in the shift register (Handed), and the line how its age     *)
(* follows from where the counter and the register stand (Framed).         *)
(***************************************************************************)
EXTENDS UartTx, TLAPS

THEOREM TypeCorrect == Spec => []TypeOK
<1>1. Init => TypeOK
  <2> SUFFICES ASSUME Init PROVE TypeOK
    OBVIOUS
  <2>1. txd \in (Chars \cup {None}) \X (0..Bits - 1)
    BY DEF Init, Idle, Bits
  <2>2. lasted \in 1..2 * BitTime /\ since \in 1..CharTime /\ paced \in BOOLEAN
    BY TxAssumption DEF Init, BitTime, CharTime, Bits
  <2>3. counter \in 0..Divisor /\ left \in 0..Bits
    BY TxAssumption DEF Init, Bits
  <2>4. /\ baud_clk_en \in BOOLEAN /\ do_load \in BOOLEAN
        /\ tx_ready \in BOOLEAN /\ tx_overrun \in BOOLEAN
        /\ tx_data \in Chars \cup {None} /\ shifted \in Chars \cup {None}
    BY DEF Init
  <2> QED
    BY <2>1, <2>2, <2>3, <2>4 DEF TypeOK
<1>2. TypeOK /\ [Next]_vars => TypeOK'
  <2> SUFFICES ASSUME TypeOK, [Next]_vars PROVE TypeOK'
    OBVIOUS
  <2> USE TxAssumption DEF TypeOK
  <2>1. ASSUME NEW c \in Chars \cup {None}, NEW onset \in BOOLEAN,
               NEW clear \in BOOLEAN, Edge(onset, c, clear)
        PROVE  /\ counter' \in 0..Divisor
               /\ baud_clk_en' \in BOOLEAN /\ do_load' \in BOOLEAN
               /\ tx_ready' \in BOOLEAN /\ tx_overrun' \in BOOLEAN
               /\ tx_data' \in Chars \cup {None}
               /\ shifted' \in Chars \cup {None} /\ left' \in 0..Bits
               /\ txd' \in (Chars \cup {None}) \X (0..Bits - 1)
               /\ lasted' \in 1..2 * BitTime
    <3>1. counter' \in 0..Divisor
      BY <2>1 DEF Edge, BaudCounter
    <3>2. baud_clk_en' \in BOOLEAN /\ do_load' \in BOOLEAN /\ tx_data' \in Chars \cup {None}
      BY <2>1 DEF Edge
    <3>3. tx_ready' \in BOOLEAN /\ tx_overrun' \in BOOLEAN
      BY <2>1 DEF Edge, Ready, Overrun
    <3>4. shifted' \in Chars \cup {None} /\ left' \in 0..Bits
      BY <2>1 DEF Edge, ShiftRegister, do_shift, shift_done, Bits
    <3>5. txd' \in (Chars \cup {None}) \X (0..Bits - 1)
      <4>1. CASE shift_done
        BY <4>1, <2>1 DEF Edge, Line
      <4>2. CASE ~shift_done
        <5>1. left \in 1..Bits
          BY <4>2 DEF shift_done, Bits
        <5>2. txd' = BitOf(shifted, Bits - left)
          BY <4>2, <2>1 DEF Edge, Line
        <5> QED
          BY <5>1, <5>2 DEF BitOf, Start, Idle, Bits
      <4> QED
        BY <4>1, <4>2
    <3>6. lasted' \in 1..2 * BitTime
      BY <2>1 DEF Edge, Line, BitTime
    <3> QED
      BY <3>1, <3>2, <3>3, <3>4, <3>5, <3>6
  <2>2. ASSUME NEW c \in Chars, Write(c) PROVE TypeOK'
    <3>1. since' \in 1..CharTime /\ paced' \in BOOLEAN
      BY <2>2 DEF Write, CharTime, BitTime, Bits
    <3> QED
      BY <2>1, <2>2, <3>1 DEF Write
  <2>3. ASSUME NEW clear \in BOOLEAN, Tick(clear) PROVE TypeOK'
    <3>1. since' \in 1..CharTime /\ paced' = paced
      BY <2>3 DEF Tick, CharTime, BitTime, Bits
    <3> QED
      BY <2>1, <2>3, <3>1 DEF Tick
  <2>4. CASE UNCHANGED vars
    BY <2>4 DEF vars
  <2> QED
    BY <2>2, <2>3, <2>4 DEF Next
<1> QED
  BY <1>1, <1>2, PTL DEF Spec
-----------------------------------------------------------------------------
(* The clocks until the last bit has left the shift register.               *)
Remaining == (left - 1) * BitTime + (IF baud_clk_en THEN 1 ELSE counter + 2)

Resting  == tx_ready /\ ~do_load /\ left = 0
Written  == ~tx_ready /\ ~do_load /\ left = 0 /\ since = 1
Loading  == ~tx_ready /\ do_load /\ left = 0 /\ since = 2
Loaded   == tx_ready /\ do_load /\ left = Bits /\ since = 3 /\ counter = Divisor
Shifting == /\ tx_ready /\ ~do_load /\ left \in 1..Bits
            /\ baud_clk_en => counter = Divisor
            /\ since + Remaining = CharTime + 1

Paced == paced => ~tx_overrun /\ (Resting \/ Written \/ Loading \/ Loaded \/ Shifting)

(* What the proof needs of multiplication, one number of bits at a time.    *)
LEMMA BitTimes ==
  ASSUME NEW l \in 1..Bits, NEW b \in Nat, b >= 2
  PROVE  /\ (l - 1) * b \in Nat
         /\ l >= 2 => (l - 1) * b >= b /\ (l - 2) * b = (l - 1) * b - b
         /\ l = Bits => (l - 1) * b = Bits * b - b
<1>1. l \in {1, 2, 3, 4, 5, 6, 7, 8, 9, 10}
  BY DEF Bits
<1> QED
  BY <1>1 DEF Bits

LEMMA PacedStep ==
  ASSUME TypeOK, Paced, [Next]_vars
  PROVE  Paced'
<1> USE TxAssumption DEF TypeOK
<1> BitTime \in Nat /\ BitTime >= 2 /\ BitTime = Divisor + 1
  BY DEF BitTime
<1> CharTime = 10 * BitTime + 4 /\ CharTime >= 24
  BY DEF CharTime, Bits
<1>1. CASE UNCHANGED vars
  BY <1>1 DEF vars, Paced, Resting, Written, Loading, Loaded, Shifting, Remaining
<1>2. ASSUME NEW c \in Chars, Write(c) PROVE Paced'
  <2> SUFFICES ASSUME paced' PROVE Paced'
    BY DEF Paced
  <2>0. /\ since >= CharTime /\ since' = 1 /\ paced
        /\ tx_ready' = FALSE
        /\ do_load' = (~tx_ready /\ left = 0)
        /\ Overrun(TRUE, FALSE) /\ ShiftRegister
    <3>1. since >= CharTime /\ since' = 1 /\ paced
      BY <1>2 DEF Write
    <3>2. tx_ready' = FALSE
      BY <1>2 DEF Write, Edge, Ready
    <3>3. do_load' = (~tx_ready /\ left = 0)
      BY <1>2 DEF Write, Edge, shift_done
    <3>4. Overrun(TRUE, FALSE) /\ ShiftRegister
      BY <1>2 DEF Write, Edge
    <3> QED
      BY <3>1, <3>2, <3>3, <3>4
  <2>1. CASE Resting
    <3>1. left' = 0
      BY <2>0, <2>1 DEF Resting, ShiftRegister, do_shift, shift_done
    <3> QED
      BY <2>0, <2>1, <3>1 DEF Paced, Resting, Written, Overrun
  <2>2. CASE Written \/ Loading \/ Loaded
    BY <2>0, <2>2 DEF Written, Loading, Loaded
  <2>3. CASE Shifting
    <3>1. left \in 1..Bits /\ (left - 1) * BitTime \in Nat
          /\ (left >= 2 => (left - 1) * BitTime >= BitTime)
      BY <2>3, BitTimes DEF Shifting
    <3>2. left = 1 /\ baud_clk_en
      BY <2>0, <2>3, <3>1 DEF Shifting, Remaining, Bits
    <3>3. left' = 0
      BY <2>0, <2>3, <3>2 DEF Shifting, ShiftRegister, do_shift, shift_done
    <3> QED
      BY <2>0, <2>3, <3>3 DEF Paced, Shifting, Written, Overrun
  <2> QED
    BY <2>0, <2>1, <2>2, <2>3 DEF Paced
<1>3. ASSUME NEW clear \in BOOLEAN, Tick(clear) PROVE Paced'
  <2> SUFFICES ASSUME paced' PROVE Paced'
    BY DEF Paced
  <2>0. /\ since' = IF since < CharTime THEN since + 1 ELSE since
        /\ paced
        /\ tx_ready' = (do_load \/ tx_ready)
        /\ do_load' = (~tx_ready /\ left = 0)
        /\ baud_clk_en' = (counter = 0)
        /\ counter' = IF counter = 0 \/ do_load THEN Divisor ELSE counter - 1
        /\ ShiftRegister
    BY <1>3 DEF Tick, Edge, Ready, BaudCounter, shift_done
  <2>1. ~tx_overrun'
    BY <1>3, <2>0 DEF Tick, Edge, Overrun, Paced
  <2>2. CASE Resting
    <3>1. left' = 0
      BY <2>0, <2>2 DEF Resting, ShiftRegister, do_shift, shift_done
    <3> QED
      BY <2>0, <2>1, <2>2, <3>1 DEF Paced, Resting
  <2>3. CASE Written
    <3>1. left' = 0
      BY <2>0, <2>3 DEF Written, ShiftRegister, do_shift, shift_done
    <3> QED
      <4>1. ~tx_ready' /\ do_load'
        BY <2>0, <2>3 DEF Written
      <4>2. since' = 2
        BY <2>0, <2>3 DEF Written
      <4> QED
        BY <2>1, <3>1, <4>1, <4>2 DEF Paced, Loading
  <2>4. CASE Loading
    <3>1. left' = Bits
      BY <2>0, <2>4 DEF Loading, ShiftRegister
    <3> QED
      <4>1. tx_ready' /\ do_load'
        BY <2>0, <2>4 DEF Loading
      <4>2. since' = 3 /\ counter' = Divisor
        BY <2>0, <2>4 DEF Loading
      <4> QED
        BY <2>1, <3>1, <4>1, <4>2 DEF Paced, Loaded
  <2>5. CASE Loaded
    <3>1. left' = Bits /\ counter' = Divisor /\ ~baud_clk_en' /\ since' = 4
      <4>1. left' = Bits
        BY <2>0, <2>5 DEF Loaded, ShiftRegister
      <4>2. counter' = Divisor
        BY <2>0, <2>5 DEF Loaded
      <4>3. ~baud_clk_en'
        BY <2>0, <2>5 DEF Loaded
      <4>4. since' = 4
        BY <2>0, <2>5 DEF Loaded
      <4> QED
        BY <4>1, <4>2, <4>3, <4>4
    <3>2. (left' - 1) * BitTime = Bits * BitTime - BitTime
      BY <3>1, BitTimes DEF Bits
    <3>3. since' + ((left' - 1) * BitTime + (counter' + 2)) = CharTime + 1
      BY <3>1, <3>2 DEF Bits
    <3>4. Shifting'
      <4>1. tx_ready' /\ ~do_load'
        BY <2>0, <2>5 DEF Loaded
      <4>2. left' \in 1..Bits
        BY <3>1 DEF Bits
      <4>3. (since + Remaining = CharTime + 1)'
        BY <3>1, <3>3 DEF Remaining, CharTime, BitTime
      <4> QED
        BY <3>1, <4>1, <4>2, <4>3 DEF Shifting
    <3> QED
      BY <2>1, <3>4 DEF Paced
  <2>6. CASE Shifting
    <3>1. /\ left \in 1..Bits /\ (left - 1) * BitTime \in Nat
          /\ left >= 2 => (left - 1) * BitTime >= BitTime
                          /\ (left - 2) * BitTime = (left - 1) * BitTime - BitTime
      BY <2>6, BitTimes DEF Shifting
    <3>2. CASE ~baud_clk_en
      <4>1. left' = left /\ since' = since + 1
        BY <2>0, <2>6, <3>1, <3>2 DEF Shifting, Remaining, ShiftRegister, do_shift, shift_done
      <4>2. since' + ((left' - 1) * BitTime + (IF baud_clk_en' THEN 1 ELSE counter' + 2))
              = CharTime + 1
        <5>1. since + ((left - 1) * BitTime + (counter + 2)) = CharTime + 1
          BY <2>6, <3>2 DEF Shifting, Remaining
        <5>2. CASE counter = 0
          <6>1. baud_clk_en'
            BY <2>0, <5>2
          <6> QED
            BY <3>1, <4>1, <5>1, <5>2, <6>1
        <5>3. CASE counter # 0
          <6>1. ~baud_clk_en' /\ counter' = counter - 1
            BY <2>0, <2>6, <5>3 DEF Shifting
          <6> QED
            BY <3>1, <4>1, <5>1, <5>3, <6>1
        <5> QED
          BY <5>2, <5>3
      <4>3. Shifting'
        <5>1. tx_ready' /\ ~do_load' /\ left' \in 1..Bits
          BY <2>0, <2>6, <3>1, <4>1 DEF Shifting
        <5>2. baud_clk_en' => counter' = Divisor
          BY <2>0
        <5>3. (since + Remaining = CharTime + 1)'
          BY <4>2 DEF Remaining, CharTime, BitTime
        <5> QED
          BY <5>1, <5>2, <5>3 DEF Shifting
      <4> QED
        BY <2>1, <4>3 DEF Paced
    <3>3. CASE baud_clk_en
      <4>1. left' = left - 1
        BY <2>0, <2>6, <3>1, <3>3 DEF Shifting, ShiftRegister, do_shift, shift_done
      <4>2. CASE left = 1
        <5>1. tx_ready' /\ ~do_load'
          BY <2>0, <2>6 DEF Shifting
        <5> QED
          BY <2>1, <4>1, <4>2, <5>1 DEF Resting, Paced
      <4>3. CASE left >= 2
        <5>1. since' = since + 1 /\ counter' = Divisor - 1 /\ ~baud_clk_en'
          BY <2>0, <2>6, <3>1, <3>3, <4>3 DEF Shifting, Remaining
        <5>2. since' + ((left' - 1) * BitTime + (counter' + 2)) = CharTime + 1
          BY <2>6, <3>1, <3>3, <4>1, <4>3, <5>1 DEF Shifting, Remaining
        <5>3. Shifting'
          BY <2>0, <2>6, <3>1, <4>1, <4>3, <5>1, <5>2
             DEF Shifting, Remaining, BitTime, CharTime, Bits
        <5> QED
          BY <2>1, <5>3 DEF Paced
      <4> QED
        BY <3>1, <4>2, <4>3 DEF Bits
    <3> QED
      BY <3>2, <3>3
  <2> QED
    BY <2>0, <2>2, <2>3, <2>4, <2>5, <2>6 DEF Paced
<1> QED
  BY <1>1, <1>2, <1>3 DEF Next

(* writenUart and writenUartQuick wait 1000 microseconds after each byte,   *)
(* 50000 clocks, and a character takes CharTime = 4354: no byte is lost.    *)
THEOREM PacedWritesAreSafe == Spec => []NeverOverrun
<1>1. Init => Paced
  BY DEF Init, Paced, Resting
<1>2. TypeOK /\ Paced /\ [Next]_vars => Paced'
  BY PacedStep
<1>3. Paced => NeverOverrun
  BY DEF Paced, NeverOverrun
<1> QED
  BY <1>1, <1>2, <1>3, TypeCorrect, PTL DEF Spec
-----------------------------------------------------------------------------
(* The transmitter is the two-place queue.                                  *)

\* do_load_shifter comes in pulses of two clocks: the register is empty in the
\* first and full in the second, in which TXDATA still holds what has been
\* loaded, or what was written over it one clock ago.
Handed ==
  /\ ~tx_ready => tx_data \in Chars
  /\ left > 0 => shifted \in Chars
  /\ do_load => \/ left = 0 /\ ~tx_ready
                \/ left = Bits /\ tx_ready /\ shifted = tx_data
                \/ left = Bits /\ ~tx_ready /\ since = 1

\* What one clock makes of it, with a write or without.
LEMMA Handover ==
  ASSUME TypeOK, NEW onset \in BOOLEAN, NEW c, NEW clear \in BOOLEAN,
         Edge(onset, c, clear)
  PROVE  /\ do_load' <=> ~tx_ready /\ left = 0
         /\ tx_ready' <=> ~onset /\ (do_load \/ tx_ready)
         /\ tx_overrun' = (~clear /\ (tx_overrun \/ (~tx_ready /\ onset)))
         /\ tx_data' = c
         /\ do_load => shifted' = tx_data /\ left' = Bits
         /\ ~do_load /\ left = 0 => shifted' = shifted /\ left' = 0
         /\ ~do_load /\ left > 0 =>
              /\ shifted' = shifted
              /\ left' = IF baud_clk_en THEN left - 1 ELSE left
<1>1. (do_load' <=> ~tx_ready /\ left = 0) /\ tx_data' = c
  BY DEF Edge, shift_done
<1>2. tx_ready' <=> ~onset /\ (do_load \/ tx_ready)
  BY DEF Edge, Ready, TypeOK
<1>3. tx_overrun' = (~clear /\ (tx_overrun \/ (~tx_ready /\ onset)))
  BY DEF Edge, Overrun
<1>4. /\ do_load => shifted' = tx_data /\ left' = Bits
      /\ ~do_load /\ left = 0 => shifted' = shifted /\ left' = 0
      /\ ~do_load /\ left > 0 =>
           /\ shifted' = shifted
           /\ left' = IF baud_clk_en THEN left - 1 ELSE left
  BY DEF Edge, ShiftRegister, do_shift, shift_done, TypeOK
<1> QED
  BY <1>1, <1>2, <1>3, <1>4

LEMMA TakesACharacter ==
  ASSUME Handed, do_load
  PROVE  tx_data \in Chars
<1>1. CASE ~tx_ready
  BY <1>1 DEF Handed
<1>2. CASE tx_ready
  <2>1. left > 0 /\ shifted = tx_data
    BY <1>2 DEF Handed, Bits
  <2> QED
    BY <2>1 DEF Handed
<1> QED
  BY <1>1, <1>2

LEMMA HandedStep == TypeOK /\ Handed /\ [Next]_vars => Handed'
<1> SUFFICES ASSUME TypeOK, Handed, [Next]_vars PROVE Handed'
  OBVIOUS
<1>0. /\ left \in 0..Bits /\ Bits = 10 /\ do_load \in BOOLEAN
      /\ tx_ready \in BOOLEAN /\ baud_clk_en \in BOOLEAN
  BY DEF TypeOK, Bits
<1>1. ASSUME NEW c \in Chars, Write(c) PROVE Handed'
  <2>1. Edge(TRUE, c, FALSE) /\ since' = 1
    BY <1>1 DEF Write
  <2>2. ~tx_ready' /\ tx_data' = c
    BY <2>1, Handover
  <2>3. left' > 0 => shifted' \in Chars
    <3>1. CASE do_load
      <4>1. tx_data \in Chars
        BY <3>1, TakesACharacter
      <4>2. shifted' = tx_data
        BY <2>1, <3>1, Handover
      <4> QED
        BY <4>1, <4>2
    <3>2. CASE ~do_load
      <4>1. left' > 0 => left > 0 /\ shifted' = shifted
        <5>1. CASE left = 0
          BY <2>1, <3>2, <5>1, Handover
        <5>2. CASE left > 0
          BY <2>1, <3>2, <5>2, Handover
        <5> QED
          BY <1>0, <5>1, <5>2
      <4> QED
        BY <4>1 DEF Handed
    <3> QED
      BY <3>1, <3>2
  <2>4. do_load' => left' = 0 \/ left' = Bits
    BY <1>0, <2>1, Handover
  <2> QED
    BY <2>1, <2>2, <2>3, <2>4 DEF Handed
<1>2. ASSUME NEW clear \in BOOLEAN, Tick(clear) PROVE Handed'
  <2>1. Edge(FALSE, tx_data, clear)
    BY <1>2 DEF Tick
  <2>2. tx_data' = tx_data /\ (~tx_ready' => ~tx_ready)
    BY <2>1, Handover
  <2>3. left' > 0 => shifted' \in Chars
    <3>1. CASE do_load
      <4>1. tx_data \in Chars
        BY <3>1, TakesACharacter
      <4>2. shifted' = tx_data
        BY <2>1, <3>1, Handover
      <4> QED
        BY <4>1, <4>2
    <3>2. CASE ~do_load
      <4>1. left' > 0 => left > 0 /\ shifted' = shifted
        <5>1. CASE left = 0
          BY <2>1, <3>2, <5>1, Handover
        <5>2. CASE left > 0
          BY <2>1, <3>2, <5>2, Handover
        <5> QED
          BY <1>0, <5>1, <5>2
      <4> QED
        BY <4>1 DEF Handed
    <3> QED
      BY <3>1, <3>2
  <2>4. do_load' => \/ left' = 0 /\ ~tx_ready'
                    \/ left' = Bits /\ tx_ready' /\ shifted' = tx_data'
    <3>1. CASE do_load
      BY <1>0, <2>1, <2>2, <3>1, Handover
    <3>2. CASE ~do_load
      BY <1>0, <2>1, <3>2, Handover
    <3> QED
      BY <3>1, <3>2
  <2> QED
    BY <2>2, <2>3, <2>4 DEF Handed
<1>3. CASE UNCHANGED vars
  BY <1>3 DEF vars, Handed
<1> QED
  BY <1>1, <1>2, <1>3 DEF Next

\* A clock is a step of the queue, or none: the first clock of a pulse, and the
\* second if TXDATA was written in between, take the character that waits; the
\* last shift ends the one that is sent.
LEMMA QueueStep ==
  TypeOK /\ Handed /\ [Next]_vars => [Queue!Next]_(Queue!queueVars)
<1> SUFFICES ASSUME TypeOK, Handed, [Next]_vars
             PROVE  [Queue!Next]_(Queue!queueVars)
  OBVIOUS
<1>0. /\ left \in 0..Bits /\ Bits = 10 /\ do_load \in BOOLEAN
      /\ tx_ready \in BOOLEAN /\ baud_clk_en \in BOOLEAN
      /\ tx_overrun \in BOOLEAN /\ None \notin Chars
  BY TxAssumption DEF TypeOK, Bits
<1>w. /\ waiting  = IF tx_ready  THEN None ELSE tx_data
      /\ waiting' = IF tx_ready' THEN None ELSE tx_data'
  BY DEF waiting
<1>s. /\ left = 0 \/ (do_load /\ ~tx_ready) => sending = None
      /\ left # 0 /\ (~do_load \/ tx_ready) => sending = shifted
      /\ left' = 0 \/ (do_load' /\ ~tx_ready') => sending' = None
      /\ left' # 0 /\ (~do_load' \/ tx_ready') => sending' = shifted'
  BY DEF sending, shift_done
<1>n. /\ ~tx_ready => tx_data # None
      /\ left # 0 => shifted # None
  BY <1>0 DEF Handed
<1>1. ASSUME NEW c \in Chars, Write(c) PROVE Queue!Next
  <2>1. Edge(TRUE, c, FALSE) /\ since >= 2
    BY <1>1 DEF Write
  <2>2. /\ do_load' <=> ~tx_ready /\ left = 0
        /\ ~tx_ready' /\ tx_data' = c
        /\ tx_overrun' = (tx_overrun \/ ~tx_ready)
        /\ do_load => shifted' = tx_data /\ left' = Bits
        /\ ~do_load /\ left = 0 => shifted' = shifted /\ left' = 0
        /\ ~do_load /\ left > 0 =>
             /\ shifted' = shifted
             /\ left' = IF baud_clk_en THEN left - 1 ELSE left
    BY <2>1, Handover
  <2>3. waiting' = c /\ tx_overrun' = (tx_overrun \/ waiting # None)
    BY <1>w, <1>n, <2>2
  <2>4. \/ sending' = sending
        \/ sending # None /\ sending' = None
    <3>1. CASE do_load /\ left = 0
      BY <1>0, <1>s, <2>2, <3>1 DEF Handed
    <3>2. CASE do_load /\ left # 0
      <4>1. tx_ready /\ shifted = tx_data
        BY <1>0, <2>1, <3>2 DEF Handed, TypeOK
      <4> QED
        BY <1>0, <1>s, <2>2, <3>2, <4>1
    <3>3. CASE ~do_load /\ left = 0
      BY <1>s, <2>2, <3>3
    <3>4. CASE ~do_load /\ left # 0
      BY <1>0, <1>s, <1>n, <2>2, <3>4
    <3> QED
      BY <3>1, <3>2, <3>3, <3>4
  <2> QED
    BY <2>3, <2>4 DEF Queue!Next, Queue!Write, Queue!EndAndWrite
<1>2. ASSUME NEW clear \in BOOLEAN, Tick(clear)
      PROVE  [Queue!Next]_(Queue!queueVars)
  <2>1. Edge(FALSE, tx_data, clear)
    BY <1>2 DEF Tick
  <2>2. /\ do_load' <=> ~tx_ready /\ left = 0
        /\ tx_ready' <=> do_load \/ tx_ready
        /\ tx_data' = tx_data
        /\ do_load => shifted' = tx_data /\ left' = Bits
        /\ ~do_load /\ left = 0 => shifted' = shifted /\ left' = 0
        /\ ~do_load /\ left > 0 =>
             /\ shifted' = shifted
             /\ left' = IF baud_clk_en THEN left - 1 ELSE left
    BY <2>1, Handover
  <2>3. tx_overrun' = (~clear /\ tx_overrun)
    BY <2>1 DEF Edge, Overrun
  <2>4. \/ waiting' = waiting /\ sending' = sending
        \/ /\ sending = None /\ waiting # None
           /\ sending' = waiting /\ waiting' = None
        \/ sending # None /\ sending' = None /\ waiting' = waiting
    <3>1. CASE do_load /\ ~tx_ready
      <4>1. sending = None /\ waiting = tx_data /\ waiting # None
        BY <1>0, <1>w, <1>s, <1>n, <3>1 DEF Handed
      <4>2. sending' = tx_data /\ waiting' = None
        BY <1>0, <1>w, <1>s, <2>2, <3>1
      <4> QED
        BY <4>1, <4>2
    <3>2. CASE do_load /\ tx_ready
      <4>1. left = Bits /\ shifted = tx_data
        BY <1>0, <3>2 DEF Handed
      <4> QED
        BY <1>0, <1>w, <1>s, <2>2, <3>2, <4>1
    <3>3. CASE ~do_load /\ left = 0
      BY <1>0, <1>w, <1>s, <2>2, <3>3
    <3>4. CASE ~do_load /\ left # 0
      BY <1>0, <1>w, <1>s, <1>n, <2>2, <3>4
    <3> QED
      BY <3>1, <3>2, <3>3, <3>4
  <2> QED
    BY <1>0, <2>3, <2>4
       DEF Queue!Next, Queue!Begin, Queue!End, Queue!Clear, Queue!queueVars
<1>3. CASE UNCHANGED vars
  BY <1>3 DEF vars, Queue!queueVars, waiting, sending, shift_done
<1> QED
  BY <1>1, <1>2, <1>3 DEF Next

(* Every clock of the transmitter does what the two-place queue may do: an  *)
(* accepted character is sent once and in order, and a lost one shows in    *)
(* the status register (RefinesQueue without its fairness).                 *)
THEOREM ImplementsQueue ==
  Spec => Queue!Init /\ [][Queue!Next]_(Queue!queueVars)
<1>1. Init => Handed /\ Queue!Init
  BY DEF Init, Handed, Queue!Init, waiting, sending, shift_done
<1> QED
  BY <1>1, HandedStep, QueueStep, TypeCorrect, PTL DEF Spec
-----------------------------------------------------------------------------
(* The bits on the line are whole.                                          *)

\* The line is one clock behind the register.  Where the counter stands tells
\* how long the line has been what it is.
Rests   == left = 0 /\ txd = Idle /\ lasted >= BitTime
Entered == /\ do_load /\ left = Bits /\ counter = Divisor
           /\ txd = Idle /\ lasted >= BitTime
Starts  == /\ ~do_load /\ left = Bits /\ txd = Start
           /\ IF baud_clk_en THEN counter = Divisor /\ lasted = Divisor + 2
              ELSE lasted = Divisor + 1 - counter
Changes == /\ ~do_load /\ left \in 1..Bits - 1
           /\ ~baud_clk_en /\ counter = Divisor - 1
           /\ txd = BitOf(shifted, Bits - left - 1)
           /\ lasted = IF left = Bits - 1 THEN BitTime + 2 ELSE BitTime
Holds   == /\ ~do_load /\ left \in 1..Bits - 1
           /\ txd = BitOf(shifted, Bits - left)
           /\ IF baud_clk_en THEN counter = Divisor /\ lasted = Divisor
              ELSE lasted = Divisor - 1 - counter

Framed == Rests \/ Entered \/ Starts \/ Changes \/ Holds

LEMMA BitNumbers ==
  ASSUME NEW c, NEW i \in 0..Bits - 1
  PROVE  /\ BitOf(c, i)[2] = i
         /\ i = 0 => BitOf(c, i) = Start
         /\ i = 9 => BitOf(c, i) = Idle
         /\ Start # Idle /\ Start[2] = 0 /\ Idle[2] = 9
BY DEF BitOf, Start, Idle, Bits

\* What the receiver sees of one clock.
Whole ==
  txd' # txd =>
    \/ txd = Idle  /\ txd' = Start /\ lasted >= BitTime
    \/ txd = Start /\ txd'[2] = 1 /\ lasted = BitTime + 2
    \/ txd \notin {Idle, Start} /\ txd' = BitOf(txd[1], txd[2] + 1)
                                /\ lasted = BitTime

LEMMA FramedStep ==
  ASSUME TypeOK, Handed, Framed, NEW onset \in BOOLEAN, NEW c,
         NEW clear \in BOOLEAN, Edge(onset, c, clear)
  PROVE  Framed' /\ Whole
<1>0. /\ left \in 0..Bits /\ Bits = 10 /\ do_load \in BOOLEAN
      /\ baud_clk_en \in BOOLEAN /\ counter \in 0..Divisor
      /\ Divisor \in Nat /\ Divisor >= 1 /\ BitTime = Divisor + 1
      /\ lasted \in 1..2 * BitTime
  BY TxAssumption DEF TypeOK, Bits, BitTime
<1>1. /\ counter = 0 \/ do_load => counter' = Divisor
      /\ counter # 0 /\ ~do_load => counter' = counter - 1
      /\ counter = 0 => baud_clk_en'
      /\ counter # 0 => ~baud_clk_en'
  BY DEF Edge, BaudCounter
<1>2. txd' = IF left = 0 THEN txd ELSE BitOf(shifted, Bits - left)
  BY DEF Edge, Line, shift_done
<1>3. lasted' = IF txd' # txd THEN 1
                ELSE IF lasted < 2 * BitTime THEN lasted + 1 ELSE lasted
  BY DEF Edge, Line
<1>4. /\ do_load' <=> ~tx_ready /\ left = 0
      /\ do_load => left' = Bits
      /\ ~do_load /\ left = 0 => left' = 0
      /\ ~do_load /\ left > 0 =>
           /\ shifted' = shifted
           /\ left' = IF baud_clk_en THEN left - 1 ELSE left
  BY Handover
<1>5. CASE Rests
  <2>1. txd' = Idle /\ lasted' >= BitTime /\ txd' = txd
    BY <1>0, <1>2, <1>3, <1>5 DEF Rests
  <2>2. CASE do_load
    <3>1. do_load' /\ left' = Bits /\ counter' = Divisor
      BY <1>0, <1>1, <1>4, <1>5, <2>2 DEF Rests, Handed
    <3> QED
      BY <2>1, <3>1 DEF Framed, Entered, BitTime, Whole
  <2>3. CASE ~do_load
    BY <1>4, <1>5, <2>1, <2>3 DEF Framed, Rests, BitTime, Whole
  <2> QED
    BY <2>2, <2>3
<1>6. CASE Entered
  <2>1. txd' = Start /\ Start # Idle
    BY <1>0, <1>2, <1>6, BitNumbers DEF Entered
  <2>2. lasted' = 1
    BY <1>3, <1>6, <2>1 DEF Entered
  <2>3. /\ ~do_load' /\ left' = Bits /\ ~baud_clk_en' /\ counter' = Divisor
    BY <1>0, <1>1, <1>4, <1>6 DEF Entered
  <2>4. Starts'
    BY <1>0, <2>1, <2>2, <2>3 DEF Starts
  <2> QED
    BY <1>6, <2>1, <2>4 DEF Framed, Entered, Whole
<1>7. CASE Starts
  <2>1. txd' = txd /\ txd = Start
    BY <1>0, <1>2, <1>7, BitNumbers DEF Starts
  <2>2. lasted' = lasted + 1
    BY <1>0, <1>3, <1>7, <2>1 DEF Starts
  <2>3. ~do_load'
    BY <1>0, <1>4, <1>7 DEF Starts
  <2>4. CASE baud_clk_en
    <3>1. left' = Bits - 1 /\ shifted' = shifted
      BY <1>0, <1>4, <1>7, <2>4 DEF Starts
    <3>2. ~baud_clk_en' /\ counter' = Divisor - 1
      BY <1>0, <1>1, <1>7, <2>4 DEF Starts
    <3>3. lasted' = BitTime + 2
      BY <1>0, <1>7, <2>2, <2>4 DEF Starts
    <3>4. BitOf(shifted', Bits - left' - 1) = Start
      BY <1>0, <3>1, BitNumbers
    <3>5. Changes'
      BY <1>0, <2>1, <2>3, <3>1, <3>2, <3>3, <3>4 DEF Changes, BitTime
    <3> QED
      BY <2>1, <3>5 DEF Framed, Whole
  <2>5. CASE ~baud_clk_en
    <3>1. left' = Bits
      BY <1>0, <1>4, <1>7, <2>5 DEF Starts
    <3>2. lasted = Divisor + 1 - counter
      BY <1>7, <2>5 DEF Starts
    <3>3. IF baud_clk_en' THEN counter' = Divisor /\ lasted' = Divisor + 2
          ELSE lasted' = Divisor + 1 - counter'
      BY <1>0, <1>1, <1>7, <2>2, <3>2 DEF Starts
    <3>4. Starts'
      BY <2>1, <2>3, <3>1, <3>3 DEF Starts
    <3> QED
      BY <2>1, <3>4 DEF Framed, Whole
  <2> QED
    BY <2>4, <2>5
<1>8. CASE Changes
  <2> PICK i : i = Bits - left
    OBVIOUS
  <2>1. i \in 1..9 /\ txd = BitOf(shifted, i - 1) /\ txd' = BitOf(shifted, i)
    BY <1>0, <1>2, <1>8 DEF Changes
  <2>2. txd[2] = i - 1 /\ txd'[2] = i
    BY <1>0, <2>1, BitNumbers
  <2>3. lasted' = 1
    BY <1>3, <2>1, <2>2
  <2>4. /\ ~do_load' /\ left' = left /\ shifted' = shifted
    BY <1>0, <1>4, <1>8 DEF Changes
  <2>5. IF baud_clk_en' THEN counter' = Divisor /\ lasted' = Divisor
        ELSE lasted' = Divisor - 1 - counter'
    BY <1>0, <1>1, <1>8, <2>3 DEF Changes
  <2>6. Holds'
    <3>1. txd' = BitOf(shifted', Bits - left')
      BY <2>1, <2>4
    <3>2. left' \in 1..Bits - 1
      BY <1>8, <2>4 DEF Changes
    <3> QED
      BY <2>4, <2>5, <3>1, <3>2 DEF Holds
  <2>7. CASE i = 1
    <3>1. txd = Start
      BY <1>0, <2>1, <2>7, BitNumbers
    <3>2. lasted = BitTime + 2
      BY <1>0, <1>8, <2>7 DEF Changes
    <3> QED
      BY <2>2, <2>6, <2>7, <3>1, <3>2 DEF Framed, Whole
  <2>8. CASE i # 1
    <3>1. i - 1 \in 1..8 /\ i - 1 \in 0..Bits - 1 /\ (i - 1) + 1 = i
      BY <1>0, <2>1, <2>8
    <3>2. txd[1] = shifted
      <4>1. BitOf(shifted, i - 1) = <<shifted, i - 1>>
        BY <3>1 DEF BitOf
      <4>2. txd = <<shifted, i - 1>>
        BY <2>1, <4>1
      <4> QED
        BY <4>2, Zenon
    <3>3. txd # Start /\ txd # Idle
      BY <2>2, <3>1 DEF Start, Idle
    <3>4. lasted = BitTime
      BY <1>0, <1>8, <2>1, <2>8 DEF Changes
    <3>5. txd' = BitOf(txd[1], txd[2] + 1)
      BY <2>1, <2>2, <3>1, <3>2
    <3> QED
      BY <2>6, <3>3, <3>4, <3>5 DEF Framed, Whole
  <2> QED
    BY <2>7, <2>8
<1>9. CASE Holds
  <2>1. txd' = txd
    BY <1>0, <1>2, <1>9 DEF Holds
  <2>2. lasted' = lasted + 1
    BY <1>0, <1>3, <1>9, <2>1 DEF Holds
  <2>3. ~do_load' /\ shifted' = shifted
    BY <1>0, <1>4, <1>9 DEF Holds
  <2>4. CASE baud_clk_en
    <3>1. left' = left - 1
      BY <1>0, <1>4, <1>9, <2>4 DEF Holds
    <3>2. lasted' = BitTime
      BY <1>0, <1>9, <2>2, <2>4 DEF Holds
    <3>3. CASE left = 1
      <4>1. txd = Idle
        BY <1>0, <1>9, <3>3, BitNumbers DEF Holds
      <4> QED
        BY <1>0, <2>1, <3>1, <3>2, <3>3, <4>1
           DEF Framed, Rests, BitTime, Whole
    <3>4. CASE left # 1
      <4>1. /\ left' \in 1..Bits - 1 /\ left' # Bits - 1
            /\ Bits - left' - 1 = Bits - left
        BY <1>0, <1>9, <3>1, <3>4 DEF Holds
      <4>2. ~baud_clk_en' /\ counter' = Divisor - 1
        BY <1>0, <1>1, <1>9, <2>4 DEF Holds
      <4>3. txd' = BitOf(shifted', Bits - left' - 1)
        BY <1>9, <2>1, <2>3, <4>1 DEF Holds
      <4>4. Changes'
        BY <2>3, <3>2, <4>1, <4>2, <4>3 DEF Changes, BitTime
      <4> QED
        BY <2>1, <4>4 DEF Framed, Whole
    <3> QED
      BY <3>3, <3>4
  <2>5. CASE ~baud_clk_en
    <3>1. left' = left
      BY <1>0, <1>4, <1>9, <2>5 DEF Holds
    <3>2. IF baud_clk_en' THEN counter' = Divisor /\ lasted' = Divisor
          ELSE lasted' = Divisor - 1 - counter'
      BY <1>0, <1>1, <1>9, <2>2, <2>5 DEF Holds
    <3>3. Holds'
      BY <1>9, <2>1, <2>3, <3>1, <3>2 DEF Holds
    <3> QED
      BY <2>1, <3>3 DEF Framed, Whole
  <2> QED
    BY <2>4, <2>5
<1> QED
  BY <1>5, <1>6, <1>7, <1>8, <1>9 DEF Framed

(* Each bit follows the one before it and lasts one baud period, the start  *)
(* bit two clocks more, and a start bit waits for the stop bit to be over:  *)
(* for every divisor, whatever is written meanwhile.                        *)
THEOREM NoBitIsCut == Spec => BitsAreWhole
<1>1. Init => Handed /\ Framed
  BY TxAssumption DEF Init, Handed, Framed, Rests, BitTime
<1>2. TypeOK /\ Handed /\ Framed /\ [Next]_vars
        => Framed' /\ (Whole \/ vars' = vars)
  <2> SUFFICES ASSUME TypeOK, Handed, Framed, [Next]_vars
               PROVE  Framed' /\ (Whole \/ vars' = vars)
    OBVIOUS
  <2>1. ASSUME NEW c \in Chars, Write(c) PROVE Framed' /\ Whole
    BY <2>1, FramedStep DEF Write
  <2>2. ASSUME NEW clear \in BOOLEAN, Tick(clear) PROVE Framed' /\ Whole
    BY <2>2, FramedStep DEF Tick
  <2>3. CASE UNCHANGED vars
    BY <2>3 DEF vars, Framed, Rests, Entered, Starts, Changes, Holds
  <2> QED
    BY <2>1, <2>2, <2>3 DEF Next
<1>3. Whole \/ vars' = vars <=> [Whole]_vars
  OBVIOUS
<1> QED
  BY <1>1, <1>2, <1>3, HandedStep, TypeCorrect, PTL
     DEF Spec, BitsAreWhole, Whole
=============================================================================

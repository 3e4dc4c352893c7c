---------------------------- MODULE UartDrvProofs ----------------------------
(***************************************************************************)
(* For every size of the buffers and every pattern of calls, of bytes on   *)
(* the line, of CTS and of interrupts: the driver's variables keep their   *)
(* types, no wake-up is lost, and the driver implements two pipes.         *)
(*                                                                         *)
(* None of it is inductive.  TypeOK has to know that RXDATA is read only   *)
(* while there is a byte in it, and that a count is taken down only while  *)
(* it is positive (Sound).  Armed says nothing while the interrupt routine *)
(* runs, and does not say that TRDY and DCTS are turned off together       *)
(* (Kept).  The pipes need three facts that relate the program, the        *)
(* interrupt routine and the device (Piped): the room a write has seen is  *)
(* still there when it stores its byte, txirq finds TXDATA empty unless    *)
(* flow control made it come, and the small driver leaves the rings alone. *)
(***************************************************************************)
EXTENDS UartDrv, SequenceTheorems, TLAPS

Sound ==
  /\ use \subseteq Small => ctrl = {} /\ isr.pc = "off"
  /\ at.pc \in SmallPlaces => use \subseteq Small
  /\ at.pc \in FastPlaces => ~(use \subseteq Small)
  /\ isr.pc \in {"clear", "rx"} /\ isr.rrdy => rxdata # None
  /\ isr.pc = "rx" => isr.rrdy
  /\ at.pc = "sclear" /\ at.saw # "nothing" => rxdata # None
  /\ at.pc = "stake" => rxdata # None /\ at.saw # "nothing"
  /\ at.pc \in {"wkick", "wwait", "wput", "rtake"} => at.left > 0
  /\ at.left = -1 => at.pc = "swrite"

IInv == TypeOK /\ Sound

Kept ==
  /\ ~Drained(tx_start) =>
       \/ "DCTS" \in ctrl /\ ("TRDY" \in ctrl \/ fc)
       \/ at.pc \in {"write", "wkick", "wput", "wend"}
  /\ "RRDY" \notin ctrl /\ ~overfilled /\ ~(use \subseteq Small) =>
       \/ After(rx_end) = rx_start
       \/ at.pc \in {"read", "rtake", "rnone", "rend"}

LEMMA AfterInRange ==
  ASSUME NEW i \in Index
  PROVE  After(i) \in Index
BY UartAssumption DEF After, Index

LEMMA NextNumber ==
  ASSUME NEW i \in Byte
  PROVE  (i + 1) % Numbers \in Byte
BY UartAssumption DEF Byte

LEMMA Gone ==
  ASSUME NEW a \in Places, NEW p \in {"idle"} \cup FastPlaces \cup SmallPlaces
  PROVE  [a EXCEPT !.pc = p] \in Places
BY DEF Places

LEMMA Counted ==
  ASSUME NEW a \in Places, a.left > 0
  PROVE  /\ [a EXCEPT !.pc = "write", !.left = @ - 1] \in Places
         /\ [a EXCEPT !.pc = "read", !.left = @ - 1, !.moved = TRUE] \in Places
         /\ [a EXCEPT !.left = @ - 1] \in Places
<1>1. a.left - 1 \in Nat
  BY DEF Places
<1> QED
  BY <1>1 DEF Places, FastPlaces

LEMMA Resting == Idle \in Places /\ Quiet \in Rounds
BY DEF Idle, Quiet, Places, Rounds

LEMMA NextRound ==
  ASSUME NEW r \in Rounds, NEW p \in {"off", "clear", "rx", "tx"}
  PROVE  [r EXCEPT !.pc = p] \in Rounds
BY DEF Rounds

LEMMA Invariant == Spec => []IInv
<1>1. Init => IInv
  <2> SUFFICES ASSUME Init PROVE IInv
    OBVIOUS
  <2>1. 0 \in Byte /\ 0 \in Index
    BY UartAssumption DEF Byte, Index
  <2>2. TypeOK
    BY <2>1, Resting DEF Init, TypeOK, Index
  <2>3. Sound
    BY DEF Init, Sound, Idle, Quiet, Small, FastPlaces, SmallPlaces
  <2> QED
    BY <2>2, <2>3 DEF IInv
<1>2. IInv /\ [Next]_vars => IInv'
  <2> SUFFICES ASSUME IInv, [Next]_vars PROVE IInv'
    OBVIOUS
  <2>0. TypeOK /\ Sound
    BY DEF IInv
  <2> USE <2>0 DEF TypeOK, status, receive, transmit
  <2>1. CASE LineTakes
    <3>1. TypeOK'
      BY <2>1 DEF LineTakes
    <3>2. Sound'
      BY <2>1 DEF LineTakes, Sound, FastPlaces, SmallPlaces, Places, Rounds
    <3> QED
      BY <3>1, <3>2 DEF IInv
  <2>2. CASE LineBrings
    <3>1. TypeOK'
      <4>1. rxdata' \in Byte \cup {None} /\ rxput' \in Byte
        BY NextNumber, <2>2 DEF LineBrings
      <4>2. err' \in BOOLEAN /\ damaged' \in BOOLEAN
        BY <2>2 DEF LineBrings
      <4> QED
        BY <4>1, <4>2, <2>2 DEF LineBrings
    <3>2. Sound'
      BY UartAssumption, <2>2 DEF LineBrings, Sound, FastPlaces, SmallPlaces,
         Places, Rounds, Byte
    <3> QED
      BY <3>1, <3>2 DEF IInv
  <2>3. CASE CtsChanges
    <3>1. TypeOK'
      <4>1. cts' \in BOOLEAN /\ dcts' \in BOOLEAN
        BY <2>3 DEF CtsChanges
      <4> QED
        BY <4>1, <2>3 DEF CtsChanges
    <3>2. Sound'
      BY <2>3 DEF CtsChanges, Sound, FastPlaces, SmallPlaces, Places, Rounds
    <3> QED
      BY <3>1, <3>2 DEF IInv
  <2>4. CASE IsrStatus
    <3>1. TypeOK'
      <4>1. isr' \in Rounds
        BY <2>4 DEF IsrStatus, Rounds
      <4> QED
        BY <4>1, <2>4 DEF IsrStatus
    <3>2. Sound'
      BY <2>4 DEF IsrStatus, Irq, Sound, FastPlaces, SmallPlaces, Places,
         Rounds
    <3> QED
      BY <3>1, <3>2 DEF IInv
  <2>5. CASE IsrClear
    <3>1. TypeOK'
      <4>1. isr' \in Rounds
        BY NextRound, <2>5 DEF IsrClear
      <4>2. err' \in BOOLEAN /\ dcts' \in BOOLEAN
        BY <2>5 DEF IsrClear
      <4> QED
        BY <4>1, <4>2, <2>5 DEF IsrClear
    <3>2. Sound'
      BY <2>5 DEF IsrClear, Sound, FastPlaces, SmallPlaces, Places, Rounds
    <3> QED
      BY <3>1, <3>2 DEF IInv
  <2>6. CASE Rxirq
    <3>1. TypeOK'
      <4>1. isr' \in Rounds
        BY NextRound, Resting, <2>6 DEF Rxirq, IsrDone
      <4>2. rxdata \in Byte
        BY <2>6 DEF Rxirq, Sound
      <4>3. rx_buf' \in [Index -> Byte] /\ rx_end' \in Index
        BY AfterInRange, <4>2, <2>6 DEF Rxirq
      <4>4. overfilled' \in BOOLEAN
        BY <2>6 DEF Rxirq
      <4>5. ctrl' \subseteq {"RRDY", "TRDY", "DCTS"}
        BY <2>6 DEF Rxirq
      <4> QED
        BY <4>1, <4>2, <4>3, <4>4, <4>5, <2>6 DEF Rxirq
    <3>2. Sound'
      BY <2>6 DEF Rxirq, IsrDone, Quiet, Sound, FastPlaces, SmallPlaces,
         Places, Rounds
    <3> QED
      BY <3>1, <3>2 DEF IInv
  <2>7. CASE TxirqSend
    <3>1. TypeOK'
      <4>1. isr' \in Rounds
        BY Resting, <2>7 DEF TxirqSend, IsrDone
      <4>2. txdata' \in Byte /\ tx_start' \in Index
        BY AfterInRange, <2>7 DEF TxirqSend
      <4>3. ctrl' \subseteq {"RRDY", "TRDY", "DCTS"}
        BY <2>7 DEF TxirqSend
      <4> QED
        BY <4>1, <4>2, <4>3, <2>7 DEF TxirqSend
    <3>2. Sound'
      BY <2>7 DEF TxirqSend, IsrDone, Quiet, Sound, FastPlaces, SmallPlaces,
         Places, Rounds
    <3> QED
      BY <3>1, <3>2 DEF IInv
  <2>8. CASE TxirqThrottle
    <3>1. TypeOK'
      <4>1. isr' \in Rounds
        BY Resting, <2>8 DEF TxirqThrottle, IsrDone
      <4> QED
        BY <4>1, <2>8 DEF TxirqThrottle
    <3>2. Sound'
      BY <2>8 DEF TxirqThrottle, IsrDone, Quiet, Sound, FastPlaces,
         SmallPlaces, Places, Rounds
    <3> QED
      BY <3>1, <3>2 DEF IInv
  <2>9. CASE TxirqNone
    <3>1. TypeOK'
      <4>1. isr' \in Rounds
        BY Resting, <2>9 DEF TxirqNone, IsrDone
      <4> QED
        BY <4>1, <2>9 DEF TxirqNone
    <3>2. Sound'
      BY <2>9 DEF TxirqNone, IsrDone, Quiet, Sound, FastPlaces, SmallPlaces,
         Places, Rounds
    <3> QED
      BY <3>1, <3>2 DEF IInv
  <2>10. CASE WriteTest
    <3>1. TypeOK'
      <4>1. at' \in Places
        BY Gone, <2>10 DEF WriteTest, Goto, FastPlaces
      <4> QED
        BY <4>1, <2>10 DEF WriteTest
    <3>2. Sound'
      BY <2>10 DEF WriteTest, Runs, Goto, Sound, FastPlaces, SmallPlaces,
         Places, Rounds
    <3> QED
      BY <3>1, <3>2 DEF IInv
  <2>11. CASE WriteKick
    <3>1. TypeOK'
      <4>1. at' \in Places
        BY Gone, <2>11 DEF WriteKick, Goto, FastPlaces
      <4> QED
        BY <4>1, <2>11 DEF WriteKick
    <3>2. Sound'
      BY <2>11 DEF WriteKick, Runs, Goto, Sound, FastPlaces, SmallPlaces,
         Places, Rounds
    <3> QED
      BY <3>1, <3>2 DEF IInv
  <2>12. CASE WriteWait
    <3>1. TypeOK'
      <4>1. at' \in Places
        BY Gone, <2>12 DEF WriteWait, Goto, FastPlaces
      <4> QED
        BY <4>1, <2>12 DEF WriteWait
    <3>2. Sound'
      BY <2>12 DEF WriteWait, Runs, Goto, Sound, FastPlaces, SmallPlaces,
         Places, Rounds
    <3> QED
      BY <3>1, <3>2 DEF IInv
  <2>13. CASE WritePut
    <3>1. TypeOK'
      <4>1. at.left > 0
        BY <2>13 DEF WritePut, Runs, Sound
      <4>2. at' \in Places
        BY Counted, <4>1, <2>13 DEF WritePut
      <4>3. tx_buf' \in [Index -> Byte] /\ tx_end' \in Index
        BY AfterInRange, <2>13 DEF WritePut
      <4>4. txput' \in Byte
        BY NextNumber, <2>13 DEF WritePut
      <4> QED
        BY <4>1, <4>2, <4>3, <4>4, <2>13 DEF WritePut
    <3>2. Sound'
      BY UartAssumption, <2>13 DEF WritePut, Runs, Sound, FastPlaces,
         SmallPlaces, Places, Rounds
    <3> QED
      BY <3>1, <3>2 DEF IInv
  <2>14. CASE WriteEnd
    <3>1. TypeOK'
      <4>1. at' \in Places
        BY Resting, <2>14 DEF WriteEnd, Return
      <4> QED
        BY <4>1, <2>14 DEF WriteEnd
    <3>2. Sound'
      BY <2>14 DEF WriteEnd, Runs, Return, Idle, Sound, FastPlaces,
         SmallPlaces, Places, Rounds
    <3> QED
      BY <3>1, <3>2 DEF IInv
  <2>15. CASE ReadTest
    <3>1. TypeOK'
      <4>1. at' \in Places
        BY Gone, <2>15 DEF ReadTest, Goto, FastPlaces
      <4> QED
        BY <4>1, <2>15 DEF ReadTest
    <3>2. Sound'
      BY <2>15 DEF ReadTest, Runs, Goto, Sound, FastPlaces, SmallPlaces,
         Places, Rounds
    <3> QED
      BY <3>1, <3>2 DEF IInv
  <2>16. CASE ReadTake
    <3>1. TypeOK'
      <4>1. at.left > 0
        BY <2>16 DEF ReadTake, Runs, Sound
      <4>2. at' \in Places
        BY Counted, <4>1, <2>16 DEF ReadTake
      <4>3. rx_start' \in Index /\ rxgot' \in Byte
        BY AfterInRange, <2>16 DEF ReadTake
      <4> QED
        BY <4>1, <4>2, <4>3, <2>16 DEF ReadTake
    <3>2. Sound'
      BY UartAssumption, <2>16 DEF ReadTake, Runs, Sound, FastPlaces,
         SmallPlaces, Places, Rounds
    <3> QED
      BY <3>1, <3>2 DEF IInv
  <2>17. CASE ReadNone
    <3>1. TypeOK'
      <4>1. at' \in Places
        BY Gone, <2>17 DEF ReadNone, Goto, FastPlaces
      <4> QED
        BY <4>1, <2>17 DEF ReadNone
    <3>2. Sound'
      BY <2>17 DEF ReadNone, Runs, Goto, Sound, FastPlaces, SmallPlaces,
         Places, Rounds
    <3> QED
      BY <3>1, <3>2 DEF IInv
  <2>18. CASE ReadEnd
    <3>1. TypeOK'
      <4>1. at' \in Places
        BY Resting, <2>18 DEF ReadEnd, Return
      <4> QED
        BY <4>1, <2>18 DEF ReadEnd
    <3>2. Sound'
      BY <2>18 DEF ReadEnd, Runs, Return, Idle, Sound, FastPlaces,
         SmallPlaces, Places, Rounds
    <3> QED
      BY <3>1, <3>2 DEF IInv
  <2>19. CASE Close
    <3>1. TypeOK'
      <4>1. at' \in Places
        BY Resting, <2>19 DEF Close, Return
      <4> QED
        BY <4>1, <2>19 DEF Close
    <3>2. Sound'
      BY <2>19 DEF Close, Runs, Return, Idle, Sound, FastPlaces, SmallPlaces,
         Places, Rounds
    <3> QED
      BY <3>1, <3>2 DEF IInv
  <2>20. CASE SmallWrite
    <3>1. TypeOK'
      <4>1. at.left > 0 => at' \in Places
        BY Counted, Resting, <2>20 DEF SmallWrite, Return
      <4>2. ~(at.left > 0) => at' \in Places
        BY Resting, <2>20 DEF SmallWrite, Return, Places
      <4>3. txput' \in Byte
        BY NextNumber, <2>20 DEF SmallWrite
      <4> QED
        BY <4>1, <4>2, <4>3, <2>20 DEF SmallWrite
    <3>2. Sound'
      BY UartAssumption, <2>20 DEF SmallWrite, Runs, Return, Idle, Sound,
         FastPlaces, SmallPlaces, Places, Rounds
    <3> QED
      BY <3>1, <3>2 DEF IInv
  <2>21. CASE SmallWriteNot
    <3>1. TypeOK'
      <4>1. at' \in Places
        BY Resting, <2>21 DEF SmallWriteNot, Return
      <4> QED
        BY <4>1, <2>21 DEF SmallWriteNot
    <3>2. Sound'
      BY <2>21 DEF SmallWriteNot, Runs, Return, Idle, Sound, FastPlaces,
         SmallPlaces, Places, Rounds
    <3> QED
      BY <3>1, <3>2 DEF IInv
  <2>22. CASE SmallStatus
    <3>1. TypeOK'
      <4>1. at' \in Places
        BY <2>22 DEF SmallStatus, Places, SmallPlaces
      <4> QED
        BY <4>1, <2>22 DEF SmallStatus
    <3>2. Sound'
      BY <2>22 DEF SmallStatus, Runs, Sound, FastPlaces, SmallPlaces, Places,
         Rounds
    <3> QED
      BY <3>1, <3>2 DEF IInv
  <2>23. CASE SmallClear
    <3>1. TypeOK'
      <4>1. at' \in Places
        BY Gone, Resting, <2>23 DEF SmallClear, Goto, Return, SmallPlaces
      <4>2. err' \in BOOLEAN /\ dcts' \in BOOLEAN
        BY <2>23 DEF SmallClear
      <4> QED
        BY <4>1, <4>2, <2>23 DEF SmallClear
    <3>2. Sound'
      BY <2>23 DEF SmallClear, Runs, Goto, Return, Idle, Sound, FastPlaces,
         SmallPlaces, Places, Rounds
    <3> QED
      BY <3>1, <3>2 DEF IInv
  <2>24. CASE SmallTake
    <3>1. TypeOK'
      <4>1. at' \in Places
        BY Gone, Resting, <2>24 DEF SmallTake, Goto, Return, SmallPlaces
      <4>2. rxdata \in Byte
        BY <2>24 DEF SmallTake, Runs, Sound
      <4>3. rxdata' \in Byte \cup {None} /\ rxgot' \in Byte
        BY <4>2, <2>24 DEF SmallTake
      <4> QED
        BY <4>1, <4>2, <4>3, <2>24 DEF SmallTake
    <3>2. Sound'
      BY <2>24 DEF SmallTake, Runs, Goto, Return, Idle, Sound, FastPlaces,
         SmallPlaces, Places, Rounds
    <3> QED
      BY <3>1, <3>2 DEF IInv
  <2>25. ASSUME NEW pc \in {"write", "read", "close", "swrite", "sread"},
               Call(pc)
        PROVE  IInv'
    <3>1. PICK len \in Lengths, nonblock \in BOOLEAN :
            at' = [Idle EXCEPT !.pc = pc, !.left = len, !.nonblock = nonblock]
      BY <2>25 DEF Call
    <3>2. at' = [pc |-> pc, left |-> len, moved |-> FALSE,
                 nonblock |-> nonblock, saw |-> "nothing"]
      BY <3>1 DEF Idle
    <3>3. len \in Nat
      BY UartAssumption
    <3>4. at' \in Places
      BY <3>2, <3>3 DEF Places, FastPlaces, SmallPlaces
    <3>5. pc \in Small => use \subseteq Small
      BY <2>25, UartAssumption DEF Call
    <3>6. pc \notin Small => ~(use \subseteq Small)
      BY <2>25 DEF Call
    <3>7. Sound'
      BY <3>2, <3>3, <3>5, <3>6, <2>25
         DEF Call, Runs, Small, Sound, FastPlaces, SmallPlaces
    <3> QED
      BY <3>4, <3>7, <2>25 DEF Call, IInv
  <2>26. CASE UNCHANGED vars
    BY <2>26 DEF vars, IInv, Sound
  <2> QED
    BY <2>1, <2>2, <2>3, <2>4, <2>5, <2>6, <2>7, <2>8, <2>9, <2>10, <2>11,
       <2>12, <2>13, <2>14, <2>15, <2>16, <2>17, <2>18, <2>19, <2>20, <2>21,
       <2>22, <2>23, <2>24, <2>25, <2>26
       DEF Next, Isr, Body
<1> QED
  BY <1>1, <1>2, PTL DEF Spec

(* Every variable of the driver keeps its type: no index leaves its buffer, *)
(* and no count goes below zero but the small write's.                      *)
THEOREM TypeCorrect == Spec => []TypeOK
<1>1. IInv => TypeOK
  BY DEF IInv
<1> QED
  BY <1>1, Invariant, PTL

(* No wake-up is lost, whatever the size of the buffers: the interrupt that *)
(* would move the bytes that wait is on, or the program is on its way to    *)
(* turning it on (to send, without flow control).                           *)
THEOREM NoLostWakeUp == Spec => []Armed
<1>1. Init => Kept
  BY DEF Init, Kept, Drained
<1>2. IInv /\ Kept /\ [Next]_vars => Kept'
  <2> SUFFICES ASSUME IInv, Kept, [Next]_vars PROVE Kept'
    OBVIOUS
  <2>0. at \in Places /\ isr \in Rounds
    BY DEF IInv, TypeOK
  <2> USE <2>0 DEF Kept, Drained, Places, Rounds, status, receive, transmit
  <2>1. CASE LineTakes
    BY <2>1 DEF LineTakes
  <2>2. CASE LineBrings
    BY <2>2 DEF LineBrings
  <2>3. CASE CtsChanges
    BY <2>3 DEF CtsChanges
  <2>4. CASE IsrStatus
    BY <2>4 DEF IsrStatus
  <2>5. CASE IsrClear
    BY <2>5 DEF IsrClear
  <2>6. CASE Rxirq
    BY <2>6 DEF Rxirq
  <2>7. CASE TxirqSend
    BY <2>7 DEF TxirqSend
  <2>8. CASE TxirqThrottle
    BY <2>8 DEF TxirqThrottle
  <2>9. CASE TxirqNone
    BY <2>9 DEF TxirqNone
  <2>10. CASE WriteTest
    BY <2>10 DEF WriteTest, Runs, Goto
  <2>11. CASE WriteKick
    BY <2>11 DEF WriteKick, Runs, Goto
  <2>12. CASE WriteWait
    BY <2>12 DEF WriteWait, Runs, Goto
  <2>13. CASE WritePut
    BY <2>13 DEF WritePut, Runs
  <2>14. CASE WriteEnd
    BY <2>14 DEF WriteEnd, Runs, Return, Idle
  <2>15. CASE ReadTest
    BY <2>15 DEF ReadTest, Runs, Goto
  <2>16. CASE ReadTake
    BY <2>16 DEF ReadTake, Runs
  <2>17. CASE ReadNone
    BY <2>17 DEF ReadNone, Runs, Goto
  <2>18. CASE ReadEnd
    BY <2>18 DEF ReadEnd, Runs, Return, Idle
  <2>19. CASE Close
    BY <2>19 DEF Close, Runs, Return, Idle
  <2>20. CASE SmallWrite
    BY <2>20 DEF SmallWrite, Runs, Return, Idle
  <2>21. CASE SmallWriteNot
    BY <2>21 DEF SmallWriteNot, Runs, Return, Idle
  <2>22. CASE SmallStatus
    BY <2>22 DEF SmallStatus, Runs
  <2>23. CASE SmallClear
    BY <2>23 DEF SmallClear, Runs, Goto, Return, Idle
  <2>24. CASE SmallTake
    BY <2>24 DEF SmallTake, Runs, Goto, Return, Idle
  <2>25. ASSUME NEW pc \in {"write", "read", "close", "swrite", "sread"},
                Call(pc)
         PROVE  Kept'
    BY <2>25 DEF Call, Runs
  <2>26. CASE UNCHANGED vars
    BY <2>26 DEF vars
  <2> QED
    BY <2>1, <2>2, <2>3, <2>4, <2>5, <2>6, <2>7, <2>8, <2>9, <2>10, <2>11,
       <2>12, <2>13, <2>14, <2>15, <2>16, <2>17, <2>18, <2>19, <2>20, <2>21,
       <2>22, <2>23, <2>24, <2>25, <2>26
       DEF Next, Isr, Body
<1>3. Kept => Armed
  BY DEF Kept, Armed
<1> QED
  BY <1>1, <1>2, <1>3, Invariant, PTL DEF Spec
-----------------------------------------------------------------------------
(* Sequences and rings.                                                     *)

LEMMA Numbered ==
  /\ \A i \in Index : i \in Nat /\ i < BufLen
  /\ \A i \in Byte : i \in Nat
  /\ \A i \in Nat : i % BufLen \in Index /\ i % Numbers \in Byte
BY UartAssumption DEF Index, Byte

LEMMA One == 1 \in Nat /\ 1 > 0
OBVIOUS

\* The places in use, and the place k further on.
Count(out, in) == IF in >= out THEN in - out ELSE BufLen + in - out
Place(out, k)  == IF out + k < BufLen THEN out + k ELSE out + k - BufLen

LEMMA Wrapped ==
  ASSUME NEW out \in Index, NEW k \in Nat, k <= BufLen
  PROVE  /\ (out + k) % BufLen = Place(out, k)
         /\ Place(out, k) \in Index
<1> DEFINE x == out + k
<1>1. /\ BufLen \in Nat /\ out \in Nat /\ out < BufLen
      /\ x \in Nat /\ x < BufLen + BufLen
  BY UartAssumption DEF Index
<1> HIDE DEF x
<1>2. x < BufLen => x % BufLen = x
  BY <1>1
<1>3. x >= BufLen => x % BufLen = x - BufLen
  BY <1>1
<1>4. x % BufLen = IF x < BufLen THEN x ELSE x - BufLen
  BY <1>1, <1>2, <1>3
<1> QED
  BY <1>1, <1>4 DEF Place, Index, x

LEMMA Between ==
  ASSUME NEW out \in Index, NEW in \in Index
  PROVE  /\ (in - out) % BufLen = Count(out, in)
         /\ Count(out, in) \in Index /\ Count(out, in) \in Nat
<1>1. /\ BufLen \in Nat /\ BufLen > 0 /\ out \in Nat /\ out < BufLen
      /\ in \in Nat /\ in < BufLen
  BY UartAssumption DEF Index
<1>2. CASE in >= out
  <2>1. in - out \in Nat /\ in - out < BufLen
    BY <1>1, <1>2
  <2>2. (in - out) % BufLen = in - out
    BY <1>1, <2>1
  <2> QED
    BY <1>1, <1>2, <2>1, <2>2 DEF Count, Index
<1>3. CASE in < out
  <2>1. in - out \in Int /\ in - out < 0 /\ in - out >= -BufLen
    BY <1>1, <1>3
  <2>2. (in - out) % BufLen = (in - out) + BufLen
    BY <1>1, <2>1
  <2> QED
    BY <1>1, <1>3, <2>1, <2>2 DEF Count, Index
<1> QED
  BY <1>1, <1>2, <1>3

\* The bytes of the ring, one by one.
LEMMA RingIs ==
  ASSUME NEW buf \in [Index -> Byte], NEW out \in Index, NEW in \in Index
  PROVE  /\ Ring(buf, out, in) \in Seq(Byte)
         /\ Len(Ring(buf, out, in)) = Count(out, in)
         /\ \A i \in 1..Count(out, in) :
              Ring(buf, out, in)[i] = buf[Place(out, i - 1)]
<1> DEFINE n == Count(out, in)
<1>1. n \in Nat /\ n < BufLen /\ BufLen \in Nat
  BY Between, Numbered, UartAssumption
<1>2. ASSUME NEW i \in 1..n
      PROVE  /\ (out + i - 1) % BufLen = Place(out, i - 1)
             /\ buf[Place(out, i - 1)] \in Byte
  <2>1. i - 1 \in Nat /\ i - 1 <= BufLen /\ out \in Nat
    BY <1>1 DEF Index
  <2>2. out + i - 1 = out + (i - 1)
    BY <2>1
  <2> QED
    BY <2>1, <2>2, Wrapped
<1>3. Ring(buf, out, in) = [i \in 1..n |-> buf[(out + i - 1) % BufLen]]
  BY Between DEF Ring
<1>4. Ring(buf, out, in) = [i \in 1..n |-> buf[Place(out, i - 1)]]
  BY <1>2, <1>3
<1> HIDE DEF n
<1>5. Ring(buf, out, in) \in [1..n -> Byte]
  BY <1>2, <1>4
<1>6. Ring(buf, out, in) \in Seq(Byte) /\ Len(Ring(buf, out, in)) = n
  BY <1>1, <1>5
<1> QED
  BY <1>4, <1>6 DEF n

\* Going in: n more bytes at the end of the ring.
LEMMA Entered ==
  ASSUME NEW out \in Index, NEW in \in Index, NEW n \in Nat,
         Count(out, in) + n < BufLen
  PROVE  /\ (in + n) % BufLen \in Index
         /\ Count(out, (in + n) % BufLen) = Count(out, in) + n
         /\ \A k \in 0..n - 1 :
              Place(out, Count(out, in) + k) = Place(in, k)
<1>1. /\ BufLen \in Nat /\ out \in Nat /\ out < BufLen
      /\ in \in Nat /\ in < BufLen
      /\ n <= BufLen
  BY Between, UartAssumption DEF Index
<1>2. (in + n) % BufLen = Place(in, n) /\ Place(in, n) \in Index
  BY <1>1, Wrapped
<1>3. Count(out, Place(in, n)) = Count(out, in) + n
  BY <1>1 DEF Count, Place
<1>4. \A k \in 0..n - 1 : Place(out, Count(out, in) + k) = Place(in, k)
  BY <1>1 DEF Count, Place
<1> QED
  BY <1>2, <1>3, <1>4

\* Coming out: n bytes fewer at the front.
LEMMA Left ==
  ASSUME NEW out \in Index, NEW in \in Index, NEW n \in Nat,
         n <= Count(out, in)
  PROVE  /\ (out + n) % BufLen \in Index
         /\ Count((out + n) % BufLen, in) = Count(out, in) - n
         /\ \A k \in Nat : k + n < BufLen =>
              Place((out + n) % BufLen, k) = Place(out, k + n)
<1>1. /\ BufLen \in Nat /\ out \in Nat /\ out < BufLen
      /\ in \in Nat /\ in < BufLen
      /\ n <= BufLen
  BY Between, UartAssumption DEF Index, Count
<1>2. (out + n) % BufLen = Place(out, n) /\ Place(out, n) \in Index
  BY <1>1, Wrapped
<1>3. Count(Place(out, n), in) = Count(out, in) - n
  BY <1>1 DEF Count, Place
<1>4. \A k \in Nat : k + n < BufLen =>
        Place(Place(out, n), k) = Place(out, k + n)
  BY <1>1 DEF Place
<1> QED
  BY <1>2, <1>3, <1>4

\* One place is kept free, and an empty ring has its indices together.
LEMMA NotFull ==
  ASSUME NEW out \in Index, NEW in \in Index, (in + 1) % BufLen # out
  PROVE  Count(out, in) + 1 < BufLen
<1>1. (in + 1) % BufLen = Place(in, 1)
  BY Wrapped, UartAssumption
<1> QED
  BY <1>1, UartAssumption DEF Count, Place, Index

LEMMA NotEmpty ==
  ASSUME NEW out \in Index, NEW in \in Index, out # in
  PROVE  1 <= Count(out, in)
BY UartAssumption DEF Count, Index

LEMMA Behind ==
  ASSUME NEW S, NEW s \in Seq(S), NEW t \in Seq(S),
         NEW i \in 1..Len(s) + Len(t), Len(s) < i
  PROVE  (s \o t)[i] = t[i - Len(s)]
OBVIOUS

LEMMA Compared == \A i, j \in Nat : i <= j \/ j < i
OBVIOUS

\* The ring gets the bytes of s when in moves over them.
LEMMA RingPut ==
  ASSUME NEW buf \in [Index -> Byte],
         NEW out \in Index, NEW in \in Index, NEW n \in Nat,
         Count(out, in) + n < BufLen,
         NEW s \in Seq(Byte), Len(s) = n,
         \A k \in 0..n - 1 : buf[Place(in, k)] = s[k + 1]
  PROVE  Ring(buf, out, (in + n) % BufLen) = Ring(buf, out, in) \o s
<1> DEFINE c == Count(out, in)
           r == Ring(buf, out, in)
<1>0. PICK to \in Index : to = (in + n) % BufLen
  BY Entered
<1> DEFINE q == Ring(buf, out, to)
<1>1. /\ c \in Nat /\ Count(out, to) = c + n
      /\ \A k \in 0..n - 1 : Place(out, c + k) = Place(in, k)
  <2>1. c \in Nat
    BY Between
  <2> QED
    BY <1>0, <2>1, Entered
<1>2. /\ r \in Seq(Byte) /\ Len(r) = c
      /\ \A i \in 1..c : r[i] = buf[Place(out, i - 1)]
  BY RingIs
<1>3. /\ q \in Seq(Byte) /\ Len(q) = c + n
      /\ \A i \in 1..c + n : q[i] = buf[Place(out, i - 1)]
  <2>1. /\ q \in Seq(Byte) /\ Len(q) = Count(out, to)
        /\ \A i \in 1..Count(out, to) : q[i] = buf[Place(out, i - 1)]
    BY RingIs
  <2> HIDE DEF c, q
  <2> QED
    BY <1>1, <2>1
<1> HIDE DEF c, r, q
<1>5. r \o s \in Seq(Byte) /\ Len(r \o s) = c + n
  <2>1. r \o s \in Seq(Byte) /\ Len(r \o s) = Len(r) + Len(s)
    BY <1>2, ConcatProperties, Zenon
  <2> QED
    BY <1>2, <2>1
<1>6. ASSUME NEW i \in 1..c + n PROVE q[i] = (r \o s)[i]
  <2>0. c \in Nat /\ i \in Nat /\ i - 1 \in Nat
    BY <1>1
  <2>1. CASE i <= c
    <3>1. i - 1 \in 0..c - 1 /\ i \in 1..c
      BY <2>0, <2>1
    <3>2. (r \o s)[i] = r[i]
      BY <1>1, <1>2, <2>1, ConcatProperties
    <3> QED
      BY <1>2, <1>3, <3>1, <3>2
  <2>2. CASE c < i
    <3>1. PICK k \in 0..n - 1 : c + k = i - 1 /\ k + 1 = i - c
      <4>1. i - 1 - c \in 0..n - 1
        BY <2>0, <2>2
      <4> QED
        BY <2>0, <4>1
    <3>2. (r \o s)[i] = s[i - c]
      BY <1>2, <2>0, <2>2, Behind
    <3> QED
      BY <1>1, <1>3, <3>1, <3>2
  <2> QED
    BY <2>0, <2>1, <2>2, Compared, Zenon
<1>7. q = r \o s
  BY <1>3, <1>5, <1>6, SeqEqual
<1> QED
  BY <1>0, <1>7 DEF q, r

\* The ring stays as it is when other places change.
LEMMA RingStays ==
  ASSUME NEW buf \in [Index -> Byte], NEW new \in [Index -> Byte],
         NEW out \in Index, NEW in \in Index,
         \A k \in 0..Count(out, in) - 1 :
           new[Place(out, k)] = buf[Place(out, k)]
  PROVE  Ring(new, out, in) = Ring(buf, out, in)
<1> DEFINE c == Count(out, in)
           r == Ring(buf, out, in)
           q == Ring(new, out, in)
<1>1. /\ r \in Seq(Byte) /\ Len(r) = c
      /\ \A i \in 1..c : r[i] = buf[Place(out, i - 1)]
  BY RingIs
<1>2. /\ q \in Seq(Byte) /\ Len(q) = c
      /\ \A i \in 1..c : q[i] = new[Place(out, i - 1)]
  BY RingIs
<1>3. c \in Nat /\ \A k \in 0..c - 1 : new[Place(out, k)] = buf[Place(out, k)]
  BY Between
<1> HIDE DEF c, r, q
<1>4. ASSUME NEW i \in 1..c PROVE q[i] = r[i]
  <2>1. i - 1 \in 0..c - 1
    BY <1>3
  <2> QED
    BY <1>1, <1>2, <1>3, <2>1
<1>5. q = r
  BY <1>1, <1>2, <1>4, SeqEqual
<1> QED
  BY <1>5 DEF r, q

\* One byte more, at the index in.
LEMMA RingGets ==
  ASSUME NEW buf \in [Index -> Byte], NEW out \in Index, NEW in \in Index,
         NEW x \in Byte, Count(out, in) + 1 < BufLen
  PROVE  Ring([buf EXCEPT ![in] = x], out, (in + 1) % BufLen)
           = Append(Ring(buf, out, in), x)
<1> DEFINE new == [buf EXCEPT ![in] = x]
           s == <<x>>
<1>1. new \in [Index -> Byte] /\ s \in Seq(Byte) /\ Len(s) = 1 /\ 1 \in Nat
  OBVIOUS
<1>2. \A k \in 0..1 - 1 : new[Place(in, k)] = s[k + 1]
  <2>1. Place(in, 0) = in
    BY UartAssumption DEF Place, Index
  <2> QED
    BY <2>1
<1>3. \A k \in 0..Count(out, in) - 1 : new[Place(out, k)] = buf[Place(out, k)]
  <2>1. \A k \in 0..Count(out, in) - 1 :
          Place(out, k) \in Index /\ Place(out, k) # in
    BY UartAssumption DEF Place, Count, Index
  <2> QED
    BY <2>1
<1> HIDE DEF new, s
<1>4. Ring(new, out, (in + 1) % BufLen) = Ring(buf, out, in) \o s
  <2>1. Ring(new, out, (in + 1) % BufLen) = Ring(new, out, in) \o s
    BY <1>1, <1>2, RingPut
  <2>2. Ring(new, out, in) = Ring(buf, out, in)
    BY <1>1, <1>3, RingStays
  <2> QED
    BY <2>1, <2>2
<1>5. Ring(buf, out, in) \in Seq(Byte)
  BY RingIs
<1>6. Append(Ring(buf, out, in), x) = Ring(buf, out, in) \o <<x>>
  BY <1>5, AppendIsConcat
<1> QED
  BY <1>4, <1>6 DEF new, s

\* The ring loses its first n bytes.
LEMMA RingTake ==
  ASSUME NEW buf \in [Index -> Byte],
         NEW out \in Index, NEW in \in Index, NEW n \in Nat,
         n <= Count(out, in)
  PROVE  Ring(buf, (out + n) % BufLen, in)
           = SubSeq(Ring(buf, out, in), n + 1, Count(out, in))
<1> DEFINE c == Count(out, in)
           from == (out + n) % BufLen
           r == Ring(buf, out, in)
           q == Ring(buf, from, in)
           s == SubSeq(r, n + 1, c)
<1>1. /\ c \in Nat /\ c < BufLen /\ from \in Index
      /\ Count(from, in) = c - n
      /\ \A k \in Nat : k + n < BufLen => Place(from, k) = Place(out, k + n)
  BY Between, Left, Numbered
<1>2. /\ r \in Seq(Byte) /\ Len(r) = c
      /\ \A i \in 1..c : r[i] = buf[Place(out, i - 1)]
  BY RingIs
<1>3. /\ q \in Seq(Byte) /\ Len(q) = c - n
      /\ \A i \in 1..c - n : q[i] = buf[Place(from, i - 1)]
  BY <1>1, RingIs
<1>4. n <= c
  OBVIOUS
<1> HIDE DEF c, from, r, q
<1>5. s \in Seq(Byte) /\ Len(s) = c - n
  BY <1>1, <1>2, <1>4, SubSeqProperties
<1>6. ASSUME NEW i \in 1..c - n PROVE q[i] = s[i]
  <2>1. /\ i - 1 \in Nat /\ (i - 1) + n = i + n - 1 /\ i + n - 1 < BufLen
        /\ i + n \in 1..c
    BY <1>1, UartAssumption
  <2>2. s[i] = r[i + n]
    BY <1>1, <1>2, <1>4, <2>1, SubSeqProperties
  <2>3. r[i + n] = buf[Place(out, i + n - 1)]
    BY <1>2, <2>1
  <2>4. Place(from, i - 1) = Place(out, i + n - 1)
    BY <1>1, <2>1
  <2> QED
    BY <1>3, <2>2, <2>3, <2>4
<1>7. q = s
  BY <1>3, <1>5, <1>6, SeqEqual
<1> QED
  BY <1>7 DEF q, r, from, c

LEMMA RingAtPlace ==
  ASSUME NEW i \in Index
  PROVE  (i + 0) % BufLen = i
<1>1. (i + 0) % BufLen = Place(i, 0) /\ i \in Nat /\ i < BufLen
  BY Wrapped, Numbered, UartAssumption
<1> QED
  BY <1>1 DEF Place

\* With its indices together it is empty.
LEMMA RingEmpty ==
  ASSUME NEW buf \in [Index -> Byte], NEW i \in Index
  PROVE  Count(i, i) = 0 /\ Ring(buf, i, i) = <<>>
<1>1. Count(i, i) = 0
  BY Numbered DEF Count
<1>2. Ring(buf, i, i) \in Seq(Byte) /\ Len(Ring(buf, i, i)) = 0
  BY <1>1, RingIs
<1> QED
  BY <1>1, <1>2

\* The first n of two sequences, when they are all in the first.
LEMMA TakenFromFirst ==
  ASSUME NEW S, NEW s \in Seq(S), NEW t \in Seq(S), NEW n \in 1..Len(s)
  PROVE  /\ n <= Len(s \o t) /\ (s \o t)[n] = s[n]
         /\ SubSeq(s \o t, n + 1, Len(s \o t))
              = SubSeq(s, n + 1, Len(s)) \o t
<1> DEFINE u == s \o t
           a == SubSeq(u, n + 1, Len(u))
           b == SubSeq(s, n + 1, Len(s))
           v == b \o t
<1>1. /\ Len(s) \in Nat /\ Len(t) \in Nat
      /\ n \in Nat /\ n <= Len(s) /\ 1 <= n
  OBVIOUS
<1>2. /\ u \in Seq(S) /\ Len(u) = Len(s) + Len(t)
      /\ \A i \in 1..Len(s) + Len(t) :
           u[i] = IF i <= Len(s) THEN s[i] ELSE t[i - Len(s)]
  BY ConcatProperties
<1> HIDE DEF u
<1>3. ASSUME NEW w \in Seq(S), n <= Len(w)
      PROVE  /\ SubSeq(w, n + 1, Len(w)) \in Seq(S)
             /\ Len(SubSeq(w, n + 1, Len(w))) = Len(w) - n
             /\ \A i \in 1..Len(w) - n :
                  SubSeq(w, n + 1, Len(w))[i] = w[n + i]
  BY <1>1, <1>3
<1>4. /\ a \in Seq(S) /\ Len(a) = Len(s) + Len(t) - n
      /\ \A i \in 1..Len(s) + Len(t) - n : a[i] = u[n + i]
  <2>1. n <= Len(u)
    BY <1>1, <1>2
  <2> QED
    BY <1>2, <1>3, <2>1
<1>5. /\ b \in Seq(S) /\ Len(b) = Len(s) - n
      /\ \A i \in 1..Len(s) - n : b[i] = s[n + i]
  BY <1>1, <1>3
<1> HIDE DEF a, b
<1>6. /\ v \in Seq(S) /\ Len(v) = Len(b) + Len(t)
      /\ \A i \in 1..Len(b) + Len(t) :
           v[i] = IF i <= Len(b) THEN b[i] ELSE t[i - Len(b)]
  BY <1>5, ConcatProperties, Zenon
<1> HIDE DEF v
<1>7. Len(v) = Len(s) + Len(t) - n
  BY <1>1, <1>5, <1>6
<1>8. ASSUME NEW i \in 1..Len(s) + Len(t) - n PROVE a[i] = v[i]
  <2>1. /\ i \in Nat /\ n + i \in 1..Len(s) + Len(t)
        /\ i \in 1..Len(b) + Len(t)
        /\ i - Len(b) = n + i - Len(s)
        /\ n + i <= Len(s) <=> i <= Len(b)
        /\ i <= Len(b) => i \in 1..Len(s) - n
    BY <1>1, <1>5
  <2>2. a[i] = u[n + i]
    BY <1>4
  <2>3. u[n + i] = IF n + i <= Len(s) THEN s[n + i] ELSE t[n + i - Len(s)]
    BY <1>2, <2>1
  <2>4. v[i] = IF i <= Len(b) THEN b[i] ELSE t[i - Len(b)]
    BY <1>6, <2>1, Zenon
  <2>5. i <= Len(b) => b[i] = s[n + i]
    BY <1>5, <2>1, Zenon
  <2> QED
    BY <2>1, <2>2, <2>3, <2>4, <2>5
<1>9. a = v
  BY <1>4, <1>6, <1>7, <1>8, SeqEqual
<1>10. n <= Len(u) /\ u[n] = s[n]
  BY <1>1, <1>2
<1> QED
  BY <1>9, <1>10 DEF a, b, u, v

\* The same for the head and the tail.
LEMMA TakenHead ==
  ASSUME NEW S, NEW s \in Seq(S), NEW t \in Seq(S), s # <<>>
  PROVE  /\ 1 <= Len(s \o t) /\ (s \o t)[1] = Head(s)
         /\ SubSeq(s \o t, 1 + 1, Len(s \o t)) = Tail(s) \o t
<1>1. 1 \in 1..Len(s) /\ 1 + 1 = 2
  OBVIOUS
<1>2. /\ 1 <= Len(s \o t) /\ (s \o t)[1] = s[1]
      /\ SubSeq(s \o t, 1 + 1, Len(s \o t)) = SubSeq(s, 1 + 1, Len(s)) \o t
  BY <1>1, TakenFromFirst
<1>3. Tail(s) = SubSeq(s, 2, Len(s))
  BY TailIsSubSeq
<1> QED
  BY <1>1, <1>2, <1>3

\* What leaves the front of t for the end of s.
LEMMA HandedOver ==
  ASSUME NEW S, NEW s \in Seq(S), NEW t \in Seq(S), t # <<>>
  PROVE  Append(s, Head(t)) \o Tail(t) = s \o t
<1>1. /\ Head(t) \in S /\ Tail(t) \in Seq(S) /\ <<Head(t)>> \in Seq(S)
  BY HeadTailProperties
<1>2. Append(s, Head(t)) = s \o <<Head(t)>>
  BY <1>1, AppendIsConcat
<1>3. <<Head(t)>> \o Tail(t) = t
  BY <1>1
<1>4. (s \o <<Head(t)>>) \o Tail(t) = s \o (<<Head(t)>> \o Tail(t))
  BY <1>1, ConcatAssociative
<1> QED
  BY <1>2, <1>3, <1>4
-----------------------------------------------------------------------------
(* The transmitter and the receiver are pipes.                              *)

\* A program has one of the two drivers; the small one has no buffers.
Apart == use \subseteq Small => tx_start = tx_end /\ rx_start = rx_end

\* Without flow control txirq does not write over a byte: nobody else writes
\* TXDATA, and the status that has been read shows it empty.
Unsent ==
  /\ ~fc => ~dcts
  /\ isr.pc = "tx" => isr.t
  /\ ~fc /\ isr.pc # "off" /\ isr.t => txdata = None

\* Between its test and what it is for, the room or the byte stays.
Roomy ==
  /\ at.pc = "wput" => Count(tx_start, tx_end) + 1 < BufLen
  /\ at.pc = "rtake" /\ ~overfilled => rx_start # rx_end

Piped == Apart /\ Unsent /\ Roomy

LEMMA Pipes == Spec => []Piped
<1>1. Init => Piped
  BY DEF Init, Piped, Apart, Unsent, Roomy, Idle, Quiet
<1>2. IInv /\ Piped /\ [Next]_vars => Piped'
  <2> SUFFICES ASSUME IInv, Piped, [Next]_vars PROVE Piped'
    OBVIOUS
  <2>0. /\ Apart /\ Unsent /\ Roomy
        /\ at \in Places /\ isr \in Rounds
        /\ use \subseteq Small => isr.pc = "off" /\ at.pc \notin FastPlaces
        /\ tx_start \in Index /\ tx_end \in Index
        /\ rx_start \in Index /\ rx_end \in Index
    BY DEF Piped, IInv, TypeOK, Sound
  <2> USE <2>0 DEF status, receive, transmit, FastPlaces
  <2>1. CASE LineTakes
    BY <2>1 DEF LineTakes, Piped, Apart, Unsent, Roomy
  <2>2. CASE LineBrings
    BY <2>2 DEF LineBrings, Piped, Apart, Unsent, Roomy
  <2>3. CASE CtsChanges
    BY <2>3 DEF CtsChanges, Piped, Apart, Unsent, Roomy
  <2>4. CASE IsrStatus
    BY <2>4 DEF IsrStatus, Piped, Apart, Unsent, Roomy
  <2>5. CASE IsrClear
    BY <2>5 DEF IsrClear, Piped, Apart, Unsent, Roomy, Rounds
  <2>6. CASE Rxirq
    <3>1. Apart' /\ Unsent'
      BY <2>6 DEF Rxirq, IsrDone, Quiet, Apart, Unsent, Rounds
    <3>2. Roomy'
      BY <2>6 DEF Rxirq, Roomy
    <3> QED
      BY <3>1, <3>2 DEF Piped
  <2>7. CASE TxirqSend
    <3>1. Apart' /\ Unsent'
      BY <2>7 DEF TxirqSend, IsrDone, Quiet, Apart, Unsent
    <3>2. ASSUME at.pc = "wput"
          PROVE  Count(After(tx_start), tx_end) + 1 < BufLen
      <4>1. tx_start # tx_end
        BY <2>7 DEF TxirqSend, Drained
      <4>2. Count(tx_start, tx_end) \in Nat /\ 1 <= Count(tx_start, tx_end)
        BY <4>1, Between, NotEmpty
      <4>3. Count(After(tx_start), tx_end) = Count(tx_start, tx_end) - 1
        BY One, <4>2, Left DEF After
      <4>4. Count(tx_start, tx_end) + 1 < BufLen /\ BufLen \in Nat
        BY <3>2, UartAssumption DEF Roomy
      <4> QED
        BY <4>2, <4>3, <4>4
    <3>3. Roomy'
      BY <3>2, <2>7 DEF TxirqSend, Roomy
    <3> QED
      BY <3>1, <3>3 DEF Piped
  <2>8. CASE TxirqThrottle
    BY <2>8 DEF TxirqThrottle, IsrDone, Quiet, Piped, Apart, Unsent, Roomy
  <2>9. CASE TxirqNone
    BY <2>9 DEF TxirqNone, IsrDone, Quiet, Piped, Apart, Unsent, Roomy
  <2>10. CASE WriteTest
    <3>1. at'.pc = "wput" => ~TransmitFull
      BY <2>10 DEF WriteTest, Goto, Places
    <3>2. ~TransmitFull => Count(tx_start, tx_end) + 1 < BufLen
      BY NotFull DEF TransmitFull, After
    <3>3. at'.pc # "rtake"
      BY <2>10 DEF WriteTest, Goto, Places
    <3> QED
      BY <3>1, <3>2, <3>3, <2>10 DEF WriteTest, Piped, Apart, Unsent, Roomy
  <2>11. CASE WriteKick
    BY <2>11 DEF WriteKick, Runs, Goto, Piped, Apart, Unsent, Roomy, Places
  <2>12. CASE WriteWait
    <3>1. ~TransmitFull => Count(tx_start, tx_end) + 1 < BufLen
      BY NotFull DEF TransmitFull, After
    <3> QED
      BY <3>1, <2>12 DEF WriteWait, Runs, Goto, Piped, Apart, Unsent, Roomy,
         Places
  <2>13. CASE WritePut
    BY <2>13 DEF WritePut, Runs, Piped, Apart, Unsent, Roomy, Places
  <2>14. CASE WriteEnd
    BY <2>14 DEF WriteEnd, Runs, Return, Idle, Piped, Apart, Unsent, Roomy
  <2>15. CASE ReadTest
    BY <2>15 DEF ReadTest, Runs, Goto, ReceiveEmpty, Piped, Apart, Unsent,
       Roomy, Places
  <2>16. CASE ReadTake
    BY <2>16 DEF ReadTake, Runs, Piped, Apart, Unsent, Roomy, Places
  <2>17. CASE ReadNone
    BY <2>17 DEF ReadNone, Runs, Goto, Piped, Apart, Unsent, Roomy, Places
  <2>18. CASE ReadEnd
    BY <2>18 DEF ReadEnd, Runs, Return, Idle, Piped, Apart, Unsent, Roomy
  <2>19. CASE Close
    BY <2>19 DEF Close, Runs, Return, Idle, Piped, Apart, Unsent, Roomy
  <2>20. CASE SmallWrite
    BY <2>20 DEF SmallWrite, Runs, Return, Idle, Piped, Apart, Unsent, Roomy,
       Places
  <2>21. CASE SmallWriteNot
    BY <2>21 DEF SmallWriteNot, Runs, Return, Idle, Piped, Apart, Unsent,
       Roomy
  <2>22. CASE SmallStatus
    BY <2>22 DEF SmallStatus, Runs, Piped, Apart, Unsent, Roomy, Places
  <2>23. CASE SmallClear
    BY <2>23 DEF SmallClear, Runs, Goto, Return, Idle, Piped, Apart, Unsent,
       Roomy, Places
  <2>24. CASE SmallTake
    BY <2>24 DEF SmallTake, Runs, Goto, Return, Idle, Piped, Apart, Unsent,
       Roomy, Places
  <2>25. ASSUME NEW pc \in {"write", "read", "close", "swrite", "sread"},
                Call(pc)
         PROVE  Piped'
    BY <2>25 DEF Call, Runs, Idle, Piped, Apart, Unsent, Roomy
  <2>26. CASE UNCHANGED vars
    BY <2>26 DEF vars, Piped, Apart, Unsent, Roomy
  <2> QED
    BY <2>1, <2>2, <2>3, <2>4, <2>5, <2>6, <2>7, <2>8, <2>9, <2>10, <2>11,
       <2>12, <2>13, <2>14, <2>15, <2>16, <2>17, <2>18, <2>19, <2>20, <2>21,
       <2>22, <2>23, <2>24, <2>25, <2>26
       DEF Next, Isr, Body
<1> QED
  BY <1>1, <1>2, Invariant, PTL DEF Spec

\* What goes in one by one.
LEMMA FromIs ==
  ASSUME NEW p \in Byte
  PROVE  Tx!From(p, 1) = <<p>> /\ Rx!From(p, 1) = <<p>>
<1>1. \A i \in 1..1 : (p + i - 1) % Numbers = p
  BY UartAssumption DEF Byte
<1>2. Tx!From(p, 1) = [i \in 1..1 |-> p] /\ Rx!From(p, 1) = [i \in 1..1 |-> p]
  BY <1>1 DEF Tx!From, Rx!From
<1> QED
  BY <1>2

LEMMA WaitingIs ==
  /\ Waiting(None) = <<>> /\ <<>> \in Seq(Byte)
  /\ \A x \in Byte : /\ Waiting(x) = <<x>> /\ <<x>> \in Seq(Byte)
                     /\ <<x>> # <<>> /\ Len(<<x>>) = 1
                     /\ Head(<<x>>) = x /\ Tail(<<x>>) = <<>>
BY UartAssumption DEF Waiting, Byte

TxQ == Waiting(txdata) \o Ring(tx_buf, tx_start, tx_end)
RxQ == Ring(rx_buf, rx_start, rx_end) \o Waiting(rxdata)

\* Enough to make a step one of the pipe.
LEMMA TxPuts ==
  ASSUME Len(TxQ) + 1 <= BufLen, TxQ' = TxQ \o Tx!From(txput, 1),
         txput' = (txput + 1) % Numbers, txgot' = txgot
  PROVE  Tx!Next
<1>1. 1 \in 1..BufLen
  BY UartAssumption
<1>2. Tx!Put(1)
  BY DEF Tx!Put, TxQ
<1> QED
  BY <1>1, <1>2 DEF Tx!Next

LEMMA TxTakes ==
  ASSUME 1 <= Len(TxQ), TxQ' = SubSeq(TxQ, 1 + 1, Len(TxQ)),
         txgot' = TxQ[1], txput' = txput
  PROVE  Tx!Next
<1>1. 1 \in 1..BufLen
  BY UartAssumption
<1>2. Tx!Take(1)
  BY DEF Tx!Take, TxQ
<1> QED
  BY <1>1, <1>2 DEF Tx!Next

LEMMA RxPuts ==
  ASSUME Len(RxQ) + 1 <= BufLen, RxQ' = RxQ \o Rx!From(rxput, 1),
         rxput' = (rxput + 1) % Numbers, rxgot' = rxgot
  PROVE  Rx!Next
<1>1. 1 \in 1..BufLen
  BY UartAssumption
<1>2. Rx!Put(1)
  BY DEF Rx!Put, RxQ
<1> QED
  BY <1>1, <1>2 DEF Rx!Next

LEMMA RxTakes ==
  ASSUME 1 <= Len(RxQ), RxQ' = SubSeq(RxQ, 1 + 1, Len(RxQ)),
         rxgot' = RxQ[1], rxput' = rxput
  PROVE  Rx!Next
<1>1. 1 \in 1..BufLen
  BY UartAssumption
<1>2. Rx!Take(1)
  BY DEF Rx!Take, RxQ
<1> QED
  BY <1>1, <1>2 DEF Rx!Next

\* The first byte of the ring goes.
LEMMA RingLoses ==
  ASSUME NEW buf \in [Index -> Byte], NEW out \in Index, NEW in \in Index,
         out # in
  PROVE  /\ Ring(buf, out, in) # <<>>
         /\ Head(Ring(buf, out, in)) = buf[out]
         /\ Ring(buf, After(out), in) = Tail(Ring(buf, out, in))
<1>0. PICK r : r = Ring(buf, out, in)
  OBVIOUS
<1>1. 1 <= Count(out, in) /\ Count(out, in) \in Nat
  BY NotEmpty, Between
<1>2. /\ r \in Seq(Byte) /\ Len(r) = Count(out, in)
      /\ \A i \in 1..Count(out, in) : r[i] = buf[Place(out, i - 1)]
  BY <1>0, RingIs
<1>3. r # <<>> /\ Head(r) = r[1] /\ 1 \in 1..Count(out, in)
  BY <1>1, <1>2
<1>4. Place(out, 1 - 1) = out
  BY UartAssumption DEF Place, Index
<1>5. Head(r) = buf[out]
  BY <1>2, <1>3, <1>4
<1>6. Ring(buf, (out + 1) % BufLen, in) = SubSeq(r, 1 + 1, Count(out, in))
  BY One, <1>0, <1>1, RingTake, Zenon
<1>7. Tail(r) = SubSeq(r, 2, Len(r))
  BY <1>2, <1>3, TailIsSubSeq
<1>8. Ring(buf, After(out), in) = Tail(r)
  BY <1>2, <1>6, <1>7 DEF After
<1> QED
  BY <1>0, <1>3, <1>5, <1>8

\* The other steps leave the transmitter, and the receiver, alone.
LEMMA TxAlone ==
  ASSUME [Next]_vars
  PROVE  \/ LineTakes \/ TxirqSend \/ WritePut \/ SmallWrite
         \/ UNCHANGED <<txdata, transmit, txgot>>
BY DEF Next, Isr, Body, vars, status, LineBrings, CtsChanges, IsrStatus,
   IsrClear, Rxirq, TxirqThrottle, TxirqNone, WriteTest, WriteKick, WriteWait,
   WriteEnd, ReadTest, ReadTake, ReadNone, ReadEnd, Close, SmallWriteNot,
   SmallStatus, SmallClear, SmallTake, Call

LEMMA RxAlone ==
  ASSUME [Next]_vars
  PROVE  \/ LineBrings \/ Rxirq \/ ReadTake \/ SmallTake
         \/ UNCHANGED <<rxdata, receive, rxput>>
BY DEF Next, Isr, Body, vars, status, LineTakes, CtsChanges, IsrStatus,
   IsrClear, TxirqSend, TxirqThrottle, TxirqNone, WriteTest, WriteKick,
   WriteWait, WritePut, WriteEnd, ReadTest, ReadNone, ReadEnd, Close,
   SmallWrite, SmallWriteNot, SmallStatus, SmallClear, Call

LEMMA TxStep ==
  IInv /\ Piped /\ [Next]_vars => [Tx!Next \/ Overrun]_(Tx!pipeVars)
<1> SUFFICES ASSUME IInv, Piped, [Next]_vars
             PROVE  [Tx!Next \/ Overrun]_(Tx!pipeVars)
  OBVIOUS
<1>r. PICK r : r = Ring(tx_buf, tx_start, tx_end)
  OBVIOUS
<1>w. PICK w : w = Waiting(txdata)
  OBVIOUS
<1>0. /\ tx_buf \in [Index -> Byte] /\ tx_start \in Index /\ tx_end \in Index
      /\ Count(tx_start, tx_end) \in Nat /\ BufLen \in Nat
      /\ Count(tx_start, tx_end) < BufLen
      /\ r \in Seq(Byte) /\ Len(r) = Count(tx_start, tx_end)
      /\ txdata \in Byte \cup {None} /\ txput \in Byte
      /\ w \in Seq(Byte) /\ Len(w) \in 0..1
  <2>1. /\ tx_buf \in [Index -> Byte] /\ tx_start \in Index
        /\ tx_end \in Index
        /\ txdata \in Byte \cup {None} /\ txput \in Byte
    BY DEF IInv, TypeOK
  <2>2. /\ r \in Seq(Byte) /\ Len(r) = Count(tx_start, tx_end)
        /\ Count(tx_start, tx_end) \in Nat /\ BufLen \in Nat
        /\ Count(tx_start, tx_end) < BufLen
    BY <1>r, <2>1, RingIs, Between, Numbered, UartAssumption
  <2>3. w \in Seq(Byte) /\ Len(w) \in 0..1
    <3>1. CASE txdata = None
      BY <1>w, <3>1, WaitingIs
    <3>2. CASE txdata \in Byte
      <4>1. w = <<txdata>>
        BY <1>w, <3>2, WaitingIs, Zenon
      <4>2. <<txdata>> \in Seq(Byte) /\ Len(<<txdata>>) = 1
        BY <3>2
      <4> QED
        BY <4>1, <4>2
    <3> QED
      BY <2>1, <3>1, <3>2
  <2> QED
    BY <2>1, <2>2, <2>3
<1>q. /\ TxQ = w \o r /\ TxQ \in Seq(Byte)
      /\ Len(TxQ) = Len(w) + Count(tx_start, tx_end)
  <2>1. TxQ = w \o r
    BY <1>r, <1>w DEF TxQ
  <2> QED
    BY <1>0, <2>1, ConcatProperties
<1>1. CASE LineTakes
  <2>1. /\ txdata # None /\ txdata' = None /\ txgot' = txdata
        /\ UNCHANGED <<tx_start, tx_end, tx_buf, txput>>
    BY <1>1 DEF LineTakes, transmit
  <2>2. w = <<txdata>> /\ w # <<>> /\ Head(w) = txdata /\ Tail(w) = <<>>
    BY <1>w, <1>0, <2>1, WaitingIs
  <2>3. TxQ' = Tail(w) \o r
    BY <1>r, <2>1, <2>2, WaitingIs DEF TxQ
  <2>4. /\ 1 <= Len(w \o r) /\ (w \o r)[1] = Head(w)
        /\ SubSeq(w \o r, 1 + 1, Len(w \o r)) = Tail(w) \o r
    BY <1>0, <2>2, TakenHead, Zenon
  <2>5. /\ 1 <= Len(TxQ) /\ TxQ' = SubSeq(TxQ, 1 + 1, Len(TxQ))
        /\ txgot' = TxQ[1] /\ txput' = txput
    BY <1>q, <2>1, <2>2, <2>3, <2>4, Zenon
  <2> QED
    BY <2>5, TxTakes
<1>2. CASE TxirqSend
  <2>1. /\ isr.pc = "tx" /\ tx_start # tx_end
        /\ txdata' = tx_buf[tx_start] /\ tx_start' = After(tx_start)
        /\ UNCHANGED <<tx_end, tx_buf, txput, txgot>>
    BY <1>2 DEF TxirqSend, Drained
  <2>2. CASE txdata # None
    <3>1. fc
      BY <2>1, <2>2 DEF Piped, Unsent
    <3> QED
      BY <2>1, <2>2, <3>1 DEF Overrun
  <2>3. CASE txdata = None
    <3>1. /\ r # <<>> /\ Head(r) = tx_buf[tx_start]
          /\ Ring(tx_buf, After(tx_start), tx_end) = Tail(r)
      BY <1>r, <1>0, <2>1, RingLoses, Zenon
    <3>2. tx_buf[tx_start] \in Byte
      BY <1>0
    <3>3. w = <<>> /\ Waiting(tx_buf[tx_start]) = <<tx_buf[tx_start]>>
      BY <1>w, <2>3, <3>2, WaitingIs
    <3>4. TxQ' = <<Head(r)>> \o Tail(r)
      BY <2>1, <3>1, <3>3 DEF TxQ
    <3>5. <<Head(r)>> \o Tail(r) = r
      BY <1>0, <3>1
    <3>6. TxQ = r
      BY <1>0, <1>q, <3>3, ConcatEmptySeq, Zenon
    <3>7. TxQ' = TxQ
      BY <3>4, <3>5, <3>6, Zenon
    <3> QED
      BY <2>1, <3>7 DEF Tx!pipeVars, TxQ
  <2> QED
    BY <2>2, <2>3
<1>3. CASE WritePut
  <2>1. /\ at.pc = "wput" /\ tx_buf' = [tx_buf EXCEPT ![tx_end] = txput]
        /\ tx_end' = (tx_end + 1) % BufLen
        /\ txput' = (txput + 1) % Numbers
        /\ UNCHANGED <<txdata, tx_start, txgot>>
    BY <1>3 DEF WritePut, Runs, After, status
  <2>2. Count(tx_start, tx_end) + 1 < BufLen
    BY <2>1 DEF Piped, Roomy
  <2>3. Ring(tx_buf', tx_start, tx_end') = Append(r, txput)
    <3>1. Ring([tx_buf EXCEPT ![tx_end] = txput], tx_start,
               (tx_end + 1) % BufLen)
            = Append(Ring(tx_buf, tx_start, tx_end), txput)
      BY <1>0, <2>2, RingGets
    <3> QED
      BY <1>r, <2>1, <3>1, Zenon
  <2>4. TxQ' = w \o Append(r, txput)
    BY <1>w, <2>1, <2>3 DEF TxQ
  <2>5. TxQ' = TxQ \o Tx!From(txput, 1)
    <3>1. Append(r, txput) = r \o <<txput>> /\ <<txput>> \in Seq(Byte)
      BY <1>0, AppendIsConcat
    <3>2. (w \o r) \o <<txput>> = w \o (r \o <<txput>>)
      BY <1>0, <3>1, ConcatAssociative
    <3>3. Tx!From(txput, 1) = <<txput>>
      BY <1>0, FromIs
    <3>4. TxQ = w \o r
      BY <1>q
    <3>5. TxQ' = w \o (r \o <<txput>>)
      BY <2>4, <3>1
    <3>6. TxQ \o Tx!From(txput, 1) = (w \o r) \o <<txput>>
      BY <3>3, <3>4
    <3> QED
      BY <3>2, <3>5, <3>6, Zenon
  <2>6. Len(TxQ) + 1 <= BufLen
    <3> PICK l, n, c : /\ l = Len(w) /\ n = Len(TxQ)
                       /\ c = Count(tx_start, tx_end)
      OBVIOUS
    <3>1. /\ l \in 0..1 /\ n = l + c /\ c \in Nat /\ BufLen \in Nat
          /\ c + 1 < BufLen
      BY <1>0, <1>q, <2>2, Zenon
    <3>2. n + 1 <= BufLen
      BY <3>1
    <3> QED
      BY <3>2, Zenon
  <2> QED
    BY <2>1, <2>5, <2>6, TxPuts
<1>4. CASE SmallWrite
  <2>1. /\ at.pc = "swrite" /\ txdata = None /\ txdata' = txput
        /\ txput' = (txput + 1) % Numbers
        /\ UNCHANGED <<tx_start, tx_end, tx_buf, txgot>>
    BY <1>4 DEF SmallWrite, Runs
  <2>2. r = <<>> /\ Count(tx_start, tx_end) = 0
    <3>1. tx_start = tx_end
      BY <2>1 DEF Piped, Apart, IInv, Sound, SmallPlaces
    <3> QED
      BY <1>r, <1>0, <3>1, RingEmpty, Zenon
  <2>3. w = <<>> /\ Waiting(txput) = <<txput>> /\ <<txput>> \in Seq(Byte)
    BY <1>w, <1>0, <2>1, WaitingIs
  <2>4. TxQ = <<>> /\ TxQ' = <<txput>>
    <3>1. TxQ = <<>> \o <<>> /\ TxQ' = <<txput>> \o <<>>
      BY <1>q, <1>r, <2>1, <2>2, <2>3 DEF TxQ
    <3> QED
      BY <3>1
  <2>5. TxQ' = TxQ \o Tx!From(txput, 1)
    <3>1. Tx!From(txput, 1) = <<txput>>
      BY <1>0, FromIs
    <3> QED
      BY <2>4, <3>1
  <2>6. Len(TxQ) + 1 <= BufLen
    BY <2>4, UartAssumption
  <2> QED
    BY <2>1, <2>5, <2>6, TxPuts
<1>5. CASE UNCHANGED <<txdata, transmit, txgot>>
  BY <1>5 DEF transmit, Tx!pipeVars
<1> QED
  BY <1>1, <1>2, <1>3, <1>4, <1>5, TxAlone

LEMMA RxStep ==
  IInv /\ Piped /\ [Next]_vars =>
    [Rx!Next \/ Discard \/ overfilled']_(Rx!pipeVars)
<1> SUFFICES ASSUME IInv, Piped, [Next]_vars
             PROVE  [Rx!Next \/ Discard \/ overfilled']_(Rx!pipeVars)
  OBVIOUS
<1>r. PICK r : r = Ring(rx_buf, rx_start, rx_end)
  OBVIOUS
<1>w. PICK w : w = Waiting(rxdata)
  OBVIOUS
<1>0. /\ rx_buf \in [Index -> Byte] /\ rx_start \in Index /\ rx_end \in Index
      /\ Count(rx_start, rx_end) \in Nat /\ BufLen \in Nat
      /\ Count(rx_start, rx_end) < BufLen
      /\ r \in Seq(Byte) /\ Len(r) = Count(rx_start, rx_end)
      /\ rxdata \in Byte \cup {None} /\ rxput \in Byte
      /\ w \in Seq(Byte) /\ Len(w) \in 0..1
  <2>1. /\ rx_buf \in [Index -> Byte] /\ rx_start \in Index
        /\ rx_end \in Index
        /\ rxdata \in Byte \cup {None} /\ rxput \in Byte
    BY DEF IInv, TypeOK
  <2>2. /\ r \in Seq(Byte) /\ Len(r) = Count(rx_start, rx_end)
        /\ Count(rx_start, rx_end) \in Nat /\ BufLen \in Nat
        /\ Count(rx_start, rx_end) < BufLen
    BY <1>r, <2>1, RingIs, Between, Numbered, UartAssumption
  <2>3. w \in Seq(Byte) /\ Len(w) \in 0..1
    <3>1. CASE rxdata = None
      BY <1>w, <3>1, WaitingIs
    <3>2. CASE rxdata \in Byte
      <4>1. w = <<rxdata>>
        BY <1>w, <3>2, WaitingIs, Zenon
      <4>2. <<rxdata>> \in Seq(Byte) /\ Len(<<rxdata>>) = 1
        BY <3>2
      <4> QED
        BY <4>1, <4>2
    <3> QED
      BY <2>1, <3>1, <3>2
  <2> QED
    BY <2>1, <2>2, <2>3
<1>q. /\ RxQ = r \o w /\ RxQ \in Seq(Byte)
      /\ Len(RxQ) = Count(rx_start, rx_end) + Len(w)
  <2>1. RxQ = r \o w
    BY <1>r, <1>w DEF RxQ
  <2> QED
    BY <1>0, <2>1, ConcatProperties
<1>1. CASE LineBrings
  <2>1. UNCHANGED <<rx_start, rx_end, rx_buf, rxgot>>
    BY <1>1 DEF LineBrings, receive
  <2>2. CASE rxdata # None
    BY <1>1, <2>1, <2>2 DEF LineBrings, Rx!pipeVars
  <2>3. CASE rxdata = None
    <3>1. rxdata' = rxput /\ rxput' = (rxput + 1) % Numbers
      BY <1>1, <2>3 DEF LineBrings
    <3>2. /\ w = <<>> /\ Waiting(rxput) = <<rxput>>
      BY <1>w, <1>0, <2>3, WaitingIs
    <3>3. RxQ = r /\ Len(w) = 0
      BY <1>0, <1>q, <3>2, ConcatEmptySeq
    <3>4. RxQ' = r \o <<rxput>>
      BY <1>r, <2>1, <3>1, <3>2 DEF RxQ
    <3>5. RxQ' = RxQ \o Rx!From(rxput, 1)
      BY <1>0, <3>3, <3>4, FromIs, Zenon
    <3>6. Len(RxQ) + 1 <= BufLen
      BY <1>0, <1>q, <3>3
    <3> QED
      BY <2>1, <3>1, <3>5, <3>6, RxPuts
  <2> QED
    BY <2>2, <2>3
<1>2. CASE Rxirq
  <2>1. /\ isr.pc = "rx" /\ rx_buf' = [rx_buf EXCEPT ![rx_end] = rxdata]
        /\ rx_end' = (rx_end + 1) % BufLen /\ rxdata' = None
        /\ overfilled' = (overfilled \/ (rx_end + 1) % BufLen = rx_start)
        /\ UNCHANGED <<rx_start, rxgot, rxput>>
    BY <1>2 DEF Rxirq, After
  <2>2. SUFFICES ASSUME ~overfilled'
                 PROVE  UNCHANGED Rx!pipeVars
    OBVIOUS
  <2>3. Count(rx_start, rx_end) + 1 < BufLen
    BY <1>0, <2>1, <2>2, NotFull
  <2>4. rxdata \in Byte
    BY <1>0, <2>1 DEF IInv, Sound
  <2>5. w = <<rxdata>> /\ <<rxdata>> \in Seq(Byte) /\ Waiting(rxdata') = <<>>
    BY <1>w, <2>1, <2>4, WaitingIs
  <2>6. Ring(rx_buf', rx_start, rx_end') = Append(r, rxdata)
    <3>1. Ring([rx_buf EXCEPT ![rx_end] = rxdata], rx_start,
               (rx_end + 1) % BufLen)
            = Append(Ring(rx_buf, rx_start, rx_end), rxdata)
      BY <1>0, <2>3, <2>4, RingGets
    <3> QED
      BY <1>r, <2>1, <3>1, Zenon
  <2>7. Append(r, rxdata) = r \o w /\ Append(r, rxdata) \in Seq(Byte)
    BY <1>0, <2>4, <2>5, AppendIsConcat
  <2>8. RxQ' = Append(r, rxdata) \o <<>>
    BY <2>1, <2>5, <2>6 DEF RxQ
  <2>9. RxQ' = RxQ
    BY <1>q, <2>7, <2>8, ConcatEmptySeq, Zenon
  <2> QED
    BY <2>1, <2>9 DEF Rx!pipeVars, RxQ
<1>3. CASE ReadTake
  <2>1. /\ at.pc = "rtake" /\ rxgot' = rx_buf[rx_start]
        /\ rx_start' = After(rx_start)
        /\ UNCHANGED <<rxdata, rx_end, rx_buf, overfilled, rxput>>
    BY <1>3 DEF ReadTake, Runs, status
  <2>2. SUFFICES ASSUME ~overfilled'
                 PROVE  Rx!Next
    OBVIOUS
  <2>3. rx_start # rx_end
    BY <2>1, <2>2 DEF Piped, Roomy
  <2>4. /\ r # <<>> /\ Head(r) = rx_buf[rx_start]
        /\ Ring(rx_buf, After(rx_start), rx_end) = Tail(r)
    BY <1>r, <1>0, <2>3, RingLoses, Zenon
  <2>5. RxQ' = Tail(r) \o w
    BY <1>w, <2>1, <2>4 DEF RxQ
  <2>6. /\ 1 <= Len(r \o w) /\ (r \o w)[1] = Head(r)
        /\ SubSeq(r \o w, 1 + 1, Len(r \o w)) = Tail(r) \o w
    BY <1>0, <2>4, TakenHead, Zenon
  <2>7. /\ 1 <= Len(RxQ) /\ RxQ' = SubSeq(RxQ, 1 + 1, Len(RxQ))
        /\ rxgot' = RxQ[1] /\ rxput' = rxput
    BY <1>q, <2>1, <2>4, <2>5, <2>6, Zenon
  <2> QED
    BY <2>7, RxTakes
<1>4. CASE SmallTake
  <2>1. /\ at.pc = "stake" /\ rxdata' = None
        /\ rxgot' = IF at.saw = "byte" THEN rxdata ELSE rxgot
        /\ UNCHANGED <<rx_start, rx_end, rx_buf, rxput>>
    BY <1>4 DEF SmallTake, Runs
  <2>2. rxdata \in Byte
    BY <1>0, <2>1 DEF IInv, Sound
  <2>3. r = <<>>
    <3>1. rx_start = rx_end
      BY <2>1 DEF Piped, Apart, IInv, Sound, SmallPlaces
    <3> QED
      BY <1>r, <1>0, <3>1, RingEmpty, Zenon
  <2>4. w = <<rxdata>>
    BY <1>w, <2>2, WaitingIs
  <2>5. RxQ = <<rxdata>> /\ RxQ' = <<>>
    <3>1. RxQ = <<>> \o <<rxdata>> /\ RxQ' = <<>> \o <<>>
      BY <1>q, <1>r, <2>1, <2>3, <2>4, WaitingIs DEF RxQ
    <3> QED
      BY <3>1
  <2>6. CASE at.saw = "byte"
    <3>1. /\ 1 <= Len(RxQ) /\ RxQ' = SubSeq(RxQ, 1 + 1, Len(RxQ))
          /\ rxgot' = RxQ[1] /\ rxput' = rxput
      BY <2>1, <2>5, <2>6
    <3> QED
      BY <3>1, RxTakes
  <2>7. CASE at.saw # "byte"
    <3>1. at.saw = "damaged"
      BY <2>1, <2>7 DEF IInv, TypeOK, Sound, Places
    <3>2. rxdata # None
      BY <2>1 DEF IInv, Sound
    <3> QED
      BY <2>1, <2>7, <3>1, <3>2 DEF Discard
  <2> QED
    BY <2>6, <2>7
<1>5. CASE UNCHANGED <<rxdata, receive, rxput>>
  BY <1>5 DEF receive, Rx!pipeVars
<1> QED
  BY <1>1, <1>2, <1>3, <1>4, <1>5, RxAlone

(* What is written goes out once and in order, and without flow control all *)
(* of it; what comes in is read once and in order, until a byte is stored   *)
(* in the full buffer, but for damaged bytes that are thrown away: for      *)
(* every size of the buffers.                                               *)
THEOREM BytesKeepOrder == Spec => BytesInOrder
<1>1. Init => Tx!Init /\ Rx!Init
  <2> SUFFICES ASSUME Init PROVE Tx!Init /\ Rx!Init
    OBVIOUS
  <2>1. \A buf : Ring(buf, 0, 0) = <<>>
    <3>1. (0 - 0) % BufLen = 0
      BY UartAssumption
    <3> QED
      BY <3>1 DEF Ring
  <2>2. Waiting(txdata) \o Ring(tx_buf, tx_start, tx_end) = <<>>
    BY <2>1 DEF Init, Waiting
  <2>3. Ring(rx_buf, rx_start, rx_end) \o Waiting(rxdata) = <<>>
    BY <2>1 DEF Init, Waiting
  <2> QED
    BY <2>2, <2>3 DEF Init, Tx!Init, Rx!Init
<1> QED
  BY <1>1, TxStep, RxStep, Invariant, Pipes, PTL DEF Spec, BytesInOrder
=============================================================================

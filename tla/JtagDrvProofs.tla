---------------------------- MODULE JtagDrvProofs ----------------------------
(***************************************************************************)
(* For every size of the buffers and of the FIFOs and every pattern of     *)
(* calls, of the host and of the alarm: the driver's variables keep their  *)
(* types, no wake-up is lost, and each direction is a pipe.                *)
(*                                                                         *)
(* TypeOK is not inductive: a round of copying must not be for more bytes  *)
(* than are left (Fits).  Nor is Armed, which says nothing while the       *)
(* interrupt routine runs (Kept), and which rests on the device asking for *)
(* the routine only with a byte to receive (Asked).  That the pipes' steps are all there is  *)
(* needs to know in addition what a call has copied before it moves the    *)
(* index (Copying), that the interrupt routine sends no more than the      *)
(* device has room for (Roomy), and that the small driver's calls and the  *)
(* other's are never mixed (Apart).                                        *)
(***************************************************************************)
EXTENDS JtagDrv, SequenceTheorems, TLAPS

Fits == at.pc \in {"wset", "rset"} => at.n <= at.left

IInv == TypeOK /\ Fits

Asked == pause_irq \/ (isr.pc = "rx" /\ ReceiveEmpty) => rxfifo # <<>>

Kept ==
  /\ tx_in # tx_out /\ "WE" \notin irq_enable =>
       at.pc \in {"write", "wset", "kick"}
  /\ "RE" \notin irq_enable /\ ReceiveEmpty /\ ~(use \subseteq Small) =>
       at.pc = "rend" \/ (at.pc \in {"read", "rset"} /\ at.moved)
  /\ Asked

LEMMA Numbered ==
  /\ \A i \in Index : i \in Nat /\ i < BufLen
  /\ \A i \in Byte : i \in Nat
  /\ \A i \in Nat : i % BufLen \in Index /\ i % Numbers \in Byte
BY JtagAssumption DEF Index, Byte

LEMMA Summed == \A i, j \in Nat : i + j \in Nat
OBVIOUS

\* A round is never for more bytes than there are places up to the end.
LEMMA Rounded ==
  ASSUME NEW in \in Index, NEW out \in Index
  PROVE  /\ Space(in, out) \in Index /\ in + Space(in, out) <= BufLen
         /\ Present(in, out) \in Index /\ out + Present(in, out) <= BufLen
<1>1. /\ in \in Nat /\ in < BufLen /\ out \in Nat /\ out < BufLen
      /\ BufLen \in Nat
  BY Numbered, JtagAssumption
<1>2. Index = 0..BufLen - 1
  BY DEF Index
<1>3. Space(in, out) \in Index /\ in + Space(in, out) <= BufLen
  BY <1>1, <1>2 DEF Space
<1>4. Present(in, out) \in Index /\ out + Present(in, out) <= BufLen
  BY <1>1, <1>2 DEF Present
<1> QED
  BY <1>3, <1>4

LEMMA NextIndex ==
  ASSUME NEW i \in Index
  PROVE  (i + 1) % BufLen \in Index
<1>1. i + 1 \in Nat
  BY Numbered
<1> QED
  BY <1>1, Numbered

LEMMA NextByte ==
  ASSUME NEW i \in Byte
  PROVE  (i + 1) % Numbers \in Byte
<1>1. i + 1 \in Nat
  BY Numbered
<1> QED
  BY <1>1, Numbered

LEMMA Origin == 0 \in Index
BY JtagAssumption DEF Index

LEMMA Lesser ==
  ASSUME NEW m \in Nat, NEW n \in Nat
  PROVE  /\ Least(m, n) \in Nat /\ Least(m, n) <= m /\ Least(m, n) <= n
         /\ m \in Index => Least(m, n) \in Index
BY JtagAssumption DEF Least, Index

\* What the statements of a call make of the place the program is at.
LEMMA Fields ==
  ASSUME NEW a \in Places
  PROVE  /\ a.left \in Nat /\ a.left <= MaxCount /\ a.n \in Index
         /\ a.seen \in Index /\ a.moved \in BOOLEAN
BY JtagAssumption DEF Places

LEMMA Elsewhere ==
  ASSUME NEW a \in Places, NEW x \in Index, NEW b,
         NEW p \in {"write", "wwait", "wcheck", "read", "rwait", "rcheck",
                    "rend"},
         b = Idle \/ b = [a EXCEPT !.pc = p]
           \/ b = [a EXCEPT !.pc = p, !.seen = x]
  PROVE  b \in Places /\ b.pc \notin {"wset", "rset"}
<1>1. CASE b = Idle
  BY <1>1, Origin, JtagAssumption DEF Idle, Places
<1>2. CASE b = [a EXCEPT !.pc = p]
  BY <1>2 DEF Places
<1>3. CASE b = [a EXCEPT !.pc = p, !.seen = x]
  BY <1>3 DEF Places
<1> QED
  BY <1>1, <1>2, <1>3

LEMMA GoneWith ==
  ASSUME NEW a \in Places, NEW p \in {"wset", "kick", "rset"},
         NEW x \in Index, NEW n \in Index, n <= a.left
  PROVE  /\ [a EXCEPT !.pc = p, !.n = n] \in Places
         /\ [a EXCEPT !.pc = p, !.n = n].n <= [a EXCEPT !.pc = p, !.n = n].left
         /\ [a EXCEPT !.pc = p, !.seen = x, !.n = n] \in Places
         /\ [a EXCEPT !.pc = p, !.seen = x, !.n = n].n
              <= [a EXCEPT !.pc = p, !.seen = x, !.n = n].left
BY DEF Places

LEMMA Counted ==
  ASSUME NEW a \in Places, NEW p \in {"write", "read", "rend"}, a.n <= a.left
  PROVE  /\ [a EXCEPT !.pc = p, !.left = @ - a.n, !.moved = TRUE, !.n = 0]
               \in Places
         /\ [a EXCEPT !.pc = p, !.left = @ - a.n, !.moved = TRUE, !.n = 0].pc
               = p
<1>1. a.left - a.n \in 0..MaxCount /\ 0 \in Index
  <2>1. a.left \in Nat /\ a.left <= MaxCount /\ a.n \in Nat
    BY Fields, Numbered
  <2> QED
    BY <2>1, JtagAssumption DEF Index
<1> QED
  BY <1>1 DEF Places

LEMMA CountedOne ==
  ASSUME NEW a \in Places, a.left > 1
  PROVE  /\ [a EXCEPT !.left = @ - 1] \in Places
         /\ [a EXCEPT !.left = @ - 1].pc = a.pc
         /\ [a EXCEPT !.left = @ - 1, !.moved = TRUE] \in Places
         /\ [a EXCEPT !.left = @ - 1, !.moved = TRUE].pc = a.pc
<1>1. a.left - 1 \in 0..MaxCount
  BY Fields, JtagAssumption
<1> QED
  BY <1>1 DEF Places

LEMMA Resting == Idle \in Places /\ Quiet \in Rounds /\ Idle.pc = "idle"
BY JtagAssumption DEF Idle, Quiet, Places, Rounds, Index

LEMMA NextRound ==
  ASSUME NEW r \in Rounds, NEW p \in {"off", "on", "rx", "tx"},
         NEW b \in BOOLEAN
  PROVE  /\ [r EXCEPT !.pc = p] \in Rounds
         /\ [r EXCEPT !.avail = b] \in Rounds
         /\ r.space > 0 => [r EXCEPT !.space = @ - 1] \in Rounds
BY JtagAssumption DEF Rounds

LEMMA Invariant == Spec => []IInv
<1>1. Init => IInv
  <2> SUFFICES ASSUME Init PROVE IInv
    OBVIOUS
  <2>1. 0 \in Byte /\ 0 \in Index
    BY JtagAssumption DEF Byte, Index
  <2>2. timeout \in 1..INT_MAX /\ host_inactive \in 0..INT_MAX - 2
    BY JtagAssumption DEF Init
  <2>3. txfifo = <<>> /\ rxfifo = <<>>
    BY DEF Init
  <2>4. irq_enable \subseteq {"RE", "WE"}
    <3>1. CASE use \subseteq Small
      BY <3>1 DEF Init
    <3>2. CASE ~(use \subseteq Small)
      BY <3>2 DEF Init
    <3> QED
      BY <3>1, <3>2
  <2>5. /\ rx_buf \in [Index -> Byte] /\ tx_buf \in [Index -> Byte]
        /\ rx_in \in Index /\ rx_out \in Index
        /\ tx_in \in Index /\ tx_out \in Index
    BY <2>1 DEF Init, Index
  <2>6. /\ txput \in Byte /\ rxput \in Byte /\ txgot \in Byte
        /\ rxgot \in Byte /\ pause_irq \in BOOLEAN /\ ac \in BOOLEAN
    BY <2>1 DEF Init
  <2>7. at \in Places /\ isr \in Rounds /\ Fits
    BY Resting DEF Init, Fits, Idle
  <2> QED
    BY <2>2, <2>3, <2>4, <2>5, <2>6, <2>7, JtagAssumption DEF IInv, TypeOK
<1>2. IInv /\ [Next]_vars => IInv'
  <2> SUFFICES ASSUME IInv, [Next]_vars PROVE IInv'
    OBVIOUS
  <2>0. TypeOK /\ Fits
    BY DEF IInv
  <2> USE <2>0 DEF TypeOK, device, receive, transmit, presence
  <2>1. CASE HostTakes
    <3>1. /\ txfifo' \in Seq(Byte) /\ Len(txfifo') <= TxDepth
          /\ txgot' \in Byte
      BY JtagAssumption, <2>1 DEF HostTakes
    <3>2. TypeOK'
      BY <3>1, <2>1 DEF HostTakes
    <3> QED
      BY <3>2, <2>1 DEF HostTakes, IInv, Fits
  <2>2. CASE HostSends
    <3>1. rxfifo' \in Seq(Byte) /\ Len(rxfifo') <= RxDepth
      BY JtagAssumption, <2>2 DEF HostSends
    <3>2. rxput' \in Byte
      BY NextByte, <2>2 DEF HostSends
    <3>3. ac' \in BOOLEAN
      BY <2>2 DEF HostSends
    <3>4. TypeOK'
      BY <3>1, <3>2, <3>3, <2>2 DEF HostSends
    <3> QED
      BY <3>4, <2>2 DEF HostSends, IInv, Fits
  <2>3. CASE HostPauses
    <3>1. ac' \in BOOLEAN /\ pause_irq' \in BOOLEAN
      BY <2>3 DEF HostPauses
    <3>2. TypeOK'
      BY <3>1, <2>3 DEF HostPauses
    <3> QED
      BY <3>2, <2>3 DEF HostPauses, IInv, Fits
  <2>4. CASE IsrControl
    <3>1. TxDepth - Len(txfifo) \in 0..TxDepth
      BY JtagAssumption, <2>4 DEF IsrControl
    <3>2. isr' \in Rounds
      <4>1. CASE ~RI /\ ~WI
        BY <4>1, Resting, <2>4 DEF IsrControl
      <4>2. CASE RI \/ WI
        <5>1. PICK p \in {"rx", "tx"}, x \in 0..TxDepth :
                isr' = [pc |-> p, space |-> x, avail |-> TRUE]
          <6>1. 0 \in 0..TxDepth
            BY JtagAssumption
          <6> QED
            BY <3>1, <4>2, <6>1, <2>4 DEF IsrControl
        <5> QED
          BY <5>1 DEF Rounds
      <4> QED
        BY <4>1, <4>2
    <3>3. TypeOK'
      BY <3>1, <3>2, <2>4 DEF IsrControl
    <3> QED
      BY <3>3, <2>4 DEF IsrControl, IInv, Fits
  <2>5. CASE IsrReceive
    <3>1. /\ rxfifo' \in Seq(Byte) /\ Len(rxfifo') <= RxDepth
          /\ Head(rxfifo) \in Byte
      BY JtagAssumption, <2>5 DEF IsrReceive
    <3>2. rx_buf' \in [Index -> Byte]
      BY <3>1, <2>5 DEF IsrReceive
    <3>3. rx_in' \in Index
      BY NextIndex, <2>5 DEF IsrReceive
    <3>4. (Len(rxfifo) > 1) \in BOOLEAN
      BY <2>5 DEF IsrReceive
    <3>5. isr' \in Rounds /\ pause_irq' \in BOOLEAN
      BY NextRound, <3>4, <2>5 DEF IsrReceive
    <3>6. TypeOK'
      BY <3>1, <3>2, <3>3, <3>4, <3>5, <2>5 DEF IsrReceive
    <3> QED
      BY <3>6, <2>5 DEF IsrReceive, IInv, Fits
  <2>6. CASE IsrReceiveNone
    <3>1. isr' \in Rounds /\ pause_irq' \in BOOLEAN
      BY NextRound, <2>6 DEF IsrReceiveNone, AfterReceive
    <3>2. TypeOK'
      BY <3>1, <2>6 DEF IsrReceiveNone
    <3> QED
      BY <3>2, <2>6 DEF IsrReceiveNone, IInv, Fits
  <2>7. CASE IsrReceiveEnd
    <3>1. isr' \in Rounds
      BY NextRound, <2>7 DEF IsrReceiveEnd, AfterReceive
    <3>2. irq_enable' \subseteq {"RE", "WE"}
      BY <2>7 DEF IsrReceiveEnd
    <3>3. TypeOK'
      BY <3>1, <3>2, <2>7 DEF IsrReceiveEnd
    <3> QED
      BY <3>3, <2>7 DEF IsrReceiveEnd, IInv, Fits
  <2>8. CASE IsrTransmit
    <3>1. tx_buf[tx_out] \in Byte
      BY <2>8 DEF IsrTransmit
    <3>2. txfifo' \in Seq(Byte) /\ Len(txfifo') <= TxDepth
      BY JtagAssumption, <3>1, <2>8 DEF IsrTransmit
    <3>3. tx_out' \in Index
      BY NextIndex, <2>8 DEF IsrTransmit
    <3>4. isr' \in Rounds
      BY NextRound, <2>8 DEF IsrTransmit
    <3>5. TypeOK'
      BY <3>1, <3>2, <3>3, <3>4, <2>8 DEF IsrTransmit
    <3> QED
      BY <3>5, <2>8 DEF IsrTransmit, IInv, Fits
  <2>9. CASE IsrTransmitEnd
    <3>1. isr' \in Rounds
      BY NextRound, <2>9 DEF IsrTransmitEnd
    <3>2. irq_enable' \subseteq {"RE", "WE"}
      BY <2>9 DEF IsrTransmitEnd
    <3>3. TypeOK'
      BY <3>1, <3>2, <2>9 DEF IsrTransmitEnd
    <3> QED
      BY <3>3, <2>9 DEF IsrTransmitEnd, IInv, Fits
  <2>10. CASE Timeout
    <3>1. host_inactive' \in 0..INT_MAX - 2
      BY JtagAssumption, <2>10 DEF Timeout
    <3>2. ac' \in BOOLEAN
      BY <2>10 DEF Timeout
    <3>3. TypeOK'
      BY <3>1, <3>2, <2>10 DEF Timeout
    <3> QED
      BY <3>3, <2>10 DEF Timeout, IInv, Fits
  <2>11. CASE WriteCopy
    <3> DEFINE n == Least(Space(tx_in, tx_out), at.left)
    <3>1. /\ at.left \in Nat /\ Space(tx_in, tx_out) \in Index
          /\ Space(tx_in, tx_out) \in Nat
      BY Rounded, Fields, Numbered
    <3>2. n \in Nat /\ n <= at.left /\ n \in Index
      BY <3>1, Lesser
    <3> HIDE DEF n
    <3>4. tx_buf' \in [Index -> Byte]
      <4>1. ASSUME NEW i \in Index, i \in tx_in..tx_in + n - 1
            PROVE  (txput + i - tx_in) % Numbers \in Byte
        <5>1. i \in Nat /\ tx_in \in Nat /\ txput \in Nat
          BY Numbered
        <5>2. txput + i - tx_in \in Nat
          BY <4>1, <5>1, <3>2
        <5> QED
          BY <5>2, Numbered
      <4>2. tx_buf' = [i \in Index |->
                         IF i \in tx_in..tx_in + n - 1
                         THEN (txput + i - tx_in) % Numbers ELSE tx_buf[i]]
        BY <2>11 DEF WriteCopy, Index, n
      <4> QED
        BY <4>1, <4>2
    <3>5. at' = [at EXCEPT !.pc = IF n = 0 THEN "kick" ELSE "wset",
                           !.seen = IF n = 0 /\ at.left > 0 THEN tx_out ELSE 0,
                           !.n = n]
      BY <2>11 DEF WriteCopy, n
    <3>6. at' \in Places /\ at'.n <= at'.left
      <4>1. PICK p \in {"kick", "wset"}, x \in Index :
              at' = [at EXCEPT !.pc = p, !.seen = x, !.n = n]
        BY <3>5, Origin
      <4> QED
        BY <4>1, <3>2, GoneWith
    <3>7. TypeOK'
      BY <3>4, <3>6, <2>11 DEF WriteCopy
    <3> QED
      BY <3>6, <3>7 DEF IInv, Fits
  <2>12. CASE WriteSet
    <3>1. at.n <= at.left
      BY <2>12 DEF WriteSet, Runs, Fits
    <3>2. at.n \in Nat /\ tx_in \in Nat /\ txput \in Nat
      BY Fields, Numbered
    <3>3. tx_in + at.n \in Nat /\ txput + at.n \in Nat
      BY <3>2, Summed, Zenon
    <3>4. tx_in' \in Index /\ txput' \in Byte
      BY <2>12, <3>3, Numbered DEF WriteSet
    <3>5. at' \in Places /\ at'.pc = "write"
      BY <2>12, <3>1, Counted DEF WriteSet
    <3>6. TypeOK'
      BY <3>4, <3>5, <2>12 DEF WriteSet
    <3> QED
      BY <3>5, <3>6 DEF IInv, Fits
  <2>13. CASE WriteKick
    <3>1. at' \in Places /\ at'.pc \notin {"wset", "rset"}
      <4>1. at' = [at EXCEPT !.pc = "wwait"] \/ at' = Idle
        BY <2>13 DEF WriteKick, Goto, Return
      <4> QED
        BY <4>1, Origin, Elsewhere
    <3>2. irq_enable' \subseteq {"RE", "WE"}
      BY <2>13 DEF WriteKick
    <3>3. TypeOK'
      BY <3>1, <3>2, <2>13 DEF WriteKick
    <3> QED
      BY <3>1, <3>3, <2>13 DEF WriteKick, IInv, Fits
  <2>14. CASE WriteWait
    <3>1. at' \in Places /\ at'.pc \notin {"wset", "rset"}
      <4>1. at' = [at EXCEPT !.pc = "wcheck"]
        BY <2>14 DEF WriteWait, Goto
      <4> QED
        BY <4>1, Origin, Elsewhere
    <3>2. TypeOK'
      BY <3>1, <2>14 DEF WriteWait
    <3> QED
      BY <3>1, <3>2, <2>14 DEF WriteWait, IInv, Fits
  <2>15. CASE WriteCheck
    <3>2. at' \in Places /\ at'.pc \notin {"wset", "rset"}
      <4>1. at' = [at EXCEPT !.pc = "write", !.seen = 0] \/ at' = Idle
        BY <2>15 DEF WriteCheck, Return
      <4> QED
        BY <4>1, Origin, Elsewhere
    <3>3. TypeOK'
      BY <3>2, <2>15 DEF WriteCheck
    <3> QED
      BY <3>2, <3>3, <2>15 DEF WriteCheck, IInv, Fits
  <2>16. CASE ReadCopy
    <3> DEFINE n == Least(Present(rx_in, rx_out), at.left)
    <3>1. /\ at.left \in Nat /\ Present(rx_in, rx_out) \in Index
          /\ Present(rx_in, rx_out) \in Nat /\ rx_out \in Nat
          /\ rx_out + Present(rx_in, rx_out) <= BufLen
      BY Rounded, Fields, Numbered
    <3>2. /\ n \in Nat /\ n <= at.left /\ n \in Index
          /\ n <= Present(rx_in, rx_out)
      BY <3>1, Lesser
    <3> HIDE DEF n
    <3>3. n > 0 => rx_out + n - 1 \in Index
      <4>1. ASSUME NEW i \in Nat, i < BufLen PROVE i \in Index
        BY <4>1, JtagAssumption DEF Index
      <4>2. ASSUME n > 0
            PROVE  rx_out + n - 1 \in Nat /\ rx_out + n - 1 < BufLen
        <5> DEFINE m == Present(rx_in, rx_out)
        <5>1. /\ m \in Nat /\ rx_out \in Nat /\ rx_out + m <= BufLen
              /\ n \in Nat /\ n <= m /\ BufLen \in Nat
          BY <3>1, <3>2, JtagAssumption
        <5> HIDE DEF m
        <5> HIDE <2>0 DEF TypeOK
        <5> QED
          BY <4>2, <5>1
      <4> QED
        BY <4>1, <4>2
    <3>4. CASE n > 0
      <4>1. /\ rxgot' = rx_buf[rx_out + n - 1]
            /\ at' = [at EXCEPT !.pc = "rset", !.n = n]
        BY <3>4, <2>16 DEF ReadCopy, n
      <4>2. rxgot' \in Byte
        BY <4>1, <3>3, <3>4
      <4>3. at' \in Places /\ at'.n <= at'.left
        BY <4>1, <3>2, Origin, GoneWith
      <4>4. TypeOK'
        BY <4>2, <4>3, <2>16 DEF ReadCopy
      <4> QED
        BY <4>3, <4>4 DEF IInv, Fits
    <3>5. CASE ~(n > 0)
      <4>1. /\ rxgot' = rxgot
            /\ IF at.moved THEN Goto("rend") ELSE IF at.nonblock THEN Return
               ELSE at' = [at EXCEPT !.pc = "rwait", !.seen = rx_in]
        BY <3>5, <2>16 DEF ReadCopy, n
      <4>2. at' \in Places /\ at'.pc \notin {"wset", "rset"}
        <5>1. \/ at' = [at EXCEPT !.pc = "rend"] \/ at' = Idle
              \/ at' = [at EXCEPT !.pc = "rwait", !.seen = rx_in]
          BY <4>1 DEF Goto, Return
        <5> QED
          BY <5>1, Origin, Elsewhere
      <4>3. TypeOK'
        BY <4>1, <4>2, <2>16 DEF ReadCopy
      <4> QED
        BY <4>2, <4>3 DEF IInv, Fits
    <3> QED
      BY <3>4, <3>5
  <2>17. CASE ReadSet
    <3>1. at.n <= at.left
      BY <2>17 DEF ReadSet, Runs, Fits
    <3>2. at.n \in Nat /\ rx_out \in Nat
      BY Fields, Numbered
    <3>3. rx_out + at.n \in Nat
      BY <3>2, Summed, Zenon
    <3>4. rx_out' \in Index
      BY <2>17, <3>3, Numbered DEF ReadSet
    <3>5. at' \in Places /\ at'.pc \in {"read", "rend"}
      BY <2>17, <3>1, Counted DEF ReadSet
    <3>6. TypeOK'
      BY <3>4, <3>5, <2>17 DEF ReadSet
    <3> QED
      BY <3>5, <3>6 DEF IInv, Fits
  <2>18. CASE ReadWait
    <3>1. at' \in Places /\ at'.pc \notin {"wset", "rset"}
      <4>1. at' = [at EXCEPT !.pc = "rcheck"]
        BY <2>18 DEF ReadWait, Goto
      <4> QED
        BY <4>1, Origin, Elsewhere
    <3>2. TypeOK'
      BY <3>1, <2>18 DEF ReadWait
    <3> QED
      BY <3>1, <3>2, <2>18 DEF ReadWait, IInv, Fits
  <2>19. CASE ReadCheck
    <3>2. at' \in Places /\ at'.pc \notin {"wset", "rset"}
      <4>1. at' = [at EXCEPT !.pc = "read", !.seen = 0] \/ at' = Idle
        BY <2>19 DEF ReadCheck, Return
      <4> QED
        BY <4>1, Origin, Elsewhere
    <3>3. TypeOK'
      BY <3>2, <2>19 DEF ReadCheck
    <3> QED
      BY <3>2, <3>3, <2>19 DEF ReadCheck, IInv, Fits
  <2>20. CASE ReadEnd
    <3>1. at' \in Places /\ at'.pc \notin {"wset", "rset"}
      BY Resting, <2>20 DEF ReadEnd, Return
    <3>2. irq_enable' \subseteq {"RE", "WE"}
      BY <2>20 DEF ReadEnd
    <3>3. TypeOK'
      BY <3>1, <3>2, <2>20 DEF ReadEnd
    <3> QED
      BY <3>1, <3>3, <2>20 DEF ReadEnd, IInv, Fits
  <2>21. CASE Close
    <3>1. at' \in Places /\ at'.pc \notin {"wset", "rset"}
      BY Resting, <2>21 DEF Close, Return
    <3>2. TypeOK'
      BY <3>1, <2>21 DEF Close
    <3> QED
      BY <3>1, <3>2, <2>21 DEF Close, IInv, Fits
  <2>22. CASE SmallWrite
    <3>1. txput' \in Byte
      BY NextByte, <2>22 DEF SmallWrite
    <3>2. txfifo' \in Seq(Byte) /\ Len(txfifo') <= TxDepth
      BY JtagAssumption, <2>22 DEF SmallWrite
    <3>3. at' \in Places /\ at'.pc \notin {"wset", "rset"}
      <4>1. CASE at.left > 1
        BY <4>1, CountedOne, <2>22 DEF SmallWrite, Runs
      <4>2. CASE ~(at.left > 1)
        BY <4>2, Resting, <2>22 DEF SmallWrite, Return
      <4> QED
        BY <4>1, <4>2
    <3>4. TypeOK'
      BY <3>1, <3>2, <3>3, <2>22 DEF SmallWrite
    <3> QED
      BY <3>3, <3>4, <2>22 DEF SmallWrite, IInv, Fits
  <2>23. CASE SmallRead
    <3>1. /\ rxfifo' \in Seq(Byte) /\ Len(rxfifo') <= RxDepth
          /\ rxgot' \in Byte
      BY JtagAssumption, <2>23 DEF SmallRead
    <3>2. at' \in Places /\ at'.pc \notin {"wset", "rset"}
      <4>1. CASE at.left > 1
        BY <4>1, CountedOne, <2>23 DEF SmallRead, Runs
      <4>2. CASE ~(at.left > 1)
        BY <4>2, Resting, <2>23 DEF SmallRead, Return
      <4> QED
        BY <4>1, <4>2
    <3>3. pause_irq' \in BOOLEAN
      BY <2>23 DEF SmallRead
    <3>4. TypeOK'
      BY <3>1, <3>2, <3>3, <2>23 DEF SmallRead
    <3> QED
      BY <3>2, <3>4, <2>23 DEF SmallRead, IInv, Fits
  <2>24. CASE SmallReadNone
    <3>1. at' \in Places /\ at'.pc \notin {"wset", "rset"}
      BY Resting, <2>24 DEF SmallReadNone, Return, Runs
    <3>2. pause_irq' \in BOOLEAN
      BY <2>24 DEF SmallReadNone
    <3>3. TypeOK'
      BY <3>1, <3>2, <2>24 DEF SmallReadNone
    <3> QED
      BY <3>1, <3>3, <2>24 DEF SmallReadNone, IInv, Fits
  <2>25. CASE SetTimeout
    <3>1. timeout' \in 1..INT_MAX
      BY JtagAssumption, <2>25 DEF SetTimeout
    <3>2. TypeOK'
      BY <3>1, <2>25 DEF SetTimeout
    <3> QED
      BY <3>2, <2>25 DEF SetTimeout, IInv, Fits
  <2>26. ASSUME NEW pc \in {"write", "read", "close", "swrite", "sread"},
                Call(pc)
         PROVE  IInv'
    <3>1. PICK count \in 1..MaxCount, nonblock \in BOOLEAN :
            at' = [Idle EXCEPT !.pc = pc, !.left = count,
                               !.nonblock = nonblock]
      BY <2>26 DEF Call
    <3>2. at' = [pc |-> pc, left |-> count, moved |-> FALSE,
                 nonblock |-> nonblock, seen |-> 0, n |-> 0]
      BY <3>1 DEF Idle
    <3>3. count \in 0..MaxCount /\ 0 \in Index
      BY JtagAssumption DEF Index
    <3>4. at' \in Places /\ at'.pc = pc
      BY <3>2, <3>3 DEF Places
    <3>5. TypeOK'
      BY <3>4, <2>26 DEF Call
    <3> QED
      BY <3>4, <3>5 DEF IInv, Fits
  <2>27. CASE UNCHANGED vars
    BY <2>27 DEF vars, IInv, Fits
  <2>28. CASE IsrReceiveLate
    <3>1. rxfifo' \in Seq(Byte) /\ Len(rxfifo') <= RxDepth
      BY JtagAssumption, <2>28 DEF IsrReceiveLate
    <3>2. rxput' \in Byte
      BY NextByte, <2>28 DEF IsrReceiveLate
    <3>3. isr' \in Rounds
      BY NextRound, <2>28 DEF IsrReceiveLate, AfterReceive
    <3>4. irq_enable' \subseteq {"RE", "WE"}
      BY <2>28 DEF IsrReceiveLate
    <3>5. ac' \in BOOLEAN /\ pause_irq' \in BOOLEAN
      BY <2>28 DEF IsrReceiveLate
    <3>6. TypeOK'
      BY <3>1, <3>2, <3>3, <3>4, <3>5, <2>28 DEF IsrReceiveLate
    <3> QED
      BY <3>6, <2>28 DEF IsrReceiveLate, IInv, Fits
  <2> QED
    BY <2>1, <2>2, <2>3, <2>4, <2>5, <2>6, <2>7, <2>8, <2>9, <2>10, <2>11,
       <2>12, <2>13, <2>14, <2>15, <2>16, <2>17, <2>18, <2>19, <2>20, <2>21,
       <2>22, <2>23, <2>24, <2>25, <2>26, <2>27, <2>28
       DEF Next, Isr, Body
<1> QED
  BY <1>1, <1>2, PTL DEF Spec

(* Every variable of the driver keeps its type: no index leaves its buffer, *)
(* no FIFO is overfilled, and host_inactive stays below the timeouts that   *)
(* mean for ever.                                                           *)
THEOREM TypeCorrect == Spec => []TypeOK
<1>1. IInv => TypeOK
  BY DEF IInv
<1> QED
  BY <1>1, Invariant, PTL

(* No wake-up is lost, whatever the sizes: bytes that wait for the host     *)
(* have their interrupt on, or the program is on its way to turning it on;  *)
(* receiving is off only while a read() finds bytes and turns it on, or on  *)
(* the way there, also after a byte that arrived while DATA was read.       *)
THEOREM NoLostWakeUp == Spec => []Armed
<1>1. Init => Kept
  BY DEF Init, Kept, Asked, Quiet
<1>2. IInv /\ Kept /\ [Next]_vars => Kept'
  <2> SUFFICES ASSUME IInv, Kept, [Next]_vars PROVE Kept'
    OBVIOUS
  <2>0. at \in Places /\ isr \in Rounds
    BY DEF IInv, TypeOK
  <2> USE <2>0 DEF Kept, Asked, ReceiveFull, ReceiveEmpty, Places,
                   device, receive, transmit, presence
  <2>1. CASE HostTakes
    BY <2>1 DEF HostTakes
  <2>2. CASE HostSends
    BY <2>2 DEF HostSends
  <2>3. CASE HostPauses
    BY <2>3 DEF HostPauses
  <2>4. CASE IsrControl
    <3>1. isr'.pc = "rx" => RI
      BY <2>4 DEF IsrControl, Quiet
    <3>2. RI => rxfifo # <<>>
      <4>1. rxfifo = <<>> => Len(rxfifo) = 0
        OBVIOUS
      <4> QED
        BY <4>1, JtagAssumption DEF RI
    <3> QED
      BY <3>1, <3>2, <2>4 DEF IsrControl
  <2>5. CASE IsrReceive
    BY <2>5 DEF IsrReceive
  <2>6. CASE IsrReceiveNone
    BY <2>6 DEF IsrReceiveNone, AfterReceive
  <2>7. CASE IsrReceiveEnd
    <3>1. rx_in # rx_out
      <4>1. /\ rx_in \in Nat /\ rx_in < BufLen /\ BufLen \in Nat /\ BufLen > 1
            /\ (rx_in + 1) % BufLen = rx_out
        BY <2>7, Numbered, JtagAssumption DEF IInv, TypeOK, IsrReceiveEnd
      <4>2. CASE rx_in + 1 < BufLen
        BY <4>1, <4>2
      <4>3. CASE rx_in + 1 = BufLen
        BY <4>1, <4>3
      <4> QED
        BY <4>1, <4>2, <4>3
    <3> QED
      BY <3>1, <2>7 DEF IsrReceiveEnd, AfterReceive
  <2>8. CASE IsrTransmit
    BY <2>8 DEF IsrTransmit
  <2>9. CASE IsrTransmitEnd
    BY <2>9, JtagAssumption DEF IsrTransmitEnd, Rounds
  <2>10. CASE Timeout
    BY <2>10 DEF Timeout
  <2>11. CASE WriteCopy
    BY <2>11 DEF WriteCopy, Runs
  <2>12. CASE WriteSet
    BY <2>12 DEF WriteSet, Runs
  <2>13. CASE WriteKick
    BY <2>13 DEF WriteKick, Runs, Goto, Return, Idle
  <2>14. CASE WriteWait
    BY <2>14 DEF WriteWait, Runs, Goto
  <2>15. CASE WriteCheck
    BY <2>15 DEF WriteCheck, Runs, Return, Idle
  <2>16. CASE ReadCopy
    BY <2>16 DEF ReadCopy, Runs, Goto, Return, Idle
  <2>17. CASE ReadSet
    BY <2>17 DEF ReadSet, Runs
  <2>18. CASE ReadWait
    BY <2>18 DEF ReadWait, Runs, Goto
  <2>19. CASE ReadCheck
    BY <2>19 DEF ReadCheck, Runs, Return, Idle
  <2>20. CASE ReadEnd
    BY <2>20 DEF ReadEnd, Runs, Return, Idle
  <2>21. CASE Close
    BY <2>21 DEF Close, Runs, Return, Idle
  <2>22. CASE SmallWrite
    BY <2>22 DEF SmallWrite, Runs, Return, Idle
  <2>23. CASE SmallRead
    BY <2>23 DEF SmallRead, Runs, Return, Idle
  <2>24. CASE SmallReadNone
    BY <2>24 DEF SmallReadNone, Runs, Return, Idle
  <2>25. CASE SetTimeout
    BY <2>25 DEF SetTimeout
  <2>26. ASSUME NEW pc \in {"write", "read", "close", "swrite", "sread"},
                Call(pc)
         PROVE  Kept'
    BY <2>26 DEF Call, Runs, Idle
  <2>27. CASE UNCHANGED vars
    BY <2>27 DEF vars
  <2>28. CASE IsrReceiveLate
    BY <2>28 DEF IsrReceiveLate, AfterReceive
  <2> QED
    BY <2>1, <2>2, <2>3, <2>4, <2>5, <2>6, <2>7, <2>8, <2>9, <2>10, <2>11,
       <2>12, <2>13, <2>14, <2>15, <2>16, <2>17, <2>18, <2>19, <2>20, <2>21,
       <2>22, <2>23, <2>24, <2>25, <2>26, <2>27, <2>28
       DEF Next, Isr, Body
<1>3. Kept => Armed
  BY DEF Kept, Armed
<1> QED
  BY <1>1, <1>2, <1>3, Invariant, PTL DEF Spec
-----------------------------------------------------------------------------
(* Sequences and rings.                                                     *)

\* The places in use, and the place k further on.
Count(out, in) == IF in >= out THEN in - out ELSE BufLen + in - out
Place(out, k)  == IF out + k < BufLen THEN out + k ELSE out + k - BufLen

LEMMA Wrapped ==
  ASSUME NEW out \in Index, NEW k \in Nat, k <= BufLen
  PROVE  /\ (out + k) % BufLen = Place(out, k)
         /\ Place(out, k) \in Index
<1> DEFINE x == out + k
<1>1. /\ BufLen \in Nat /\ out \in Nat /\ out < BufLen
      /\ x \in Nat /\ x < BufLen + BufLen
  BY JtagAssumption DEF Index
<1> HIDE DEF x
<1>2. x < BufLen => x % BufLen = x
  BY <1>1
<1>3. x >= BufLen => x % BufLen = x - BufLen
  BY <1>1
<1>4. x % BufLen = IF x < BufLen THEN x ELSE x - BufLen
  BY <1>1, <1>2, <1>3
<1> QED
  BY <1>1, <1>4 DEF Place, Index, x

LEMMA Between ==
  ASSUME NEW out \in Index, NEW in \in Index
  PROVE  /\ (in - out) % BufLen = Count(out, in)
         /\ Count(out, in) \in Index /\ Count(out, in) \in Nat
<1>1. /\ BufLen \in Nat /\ BufLen > 0 /\ out \in Nat /\ out < BufLen
      /\ in \in Nat /\ in < BufLen
  BY JtagAssumption DEF Index
<1>2. CASE in >= out
  <2>1. in - out \in Nat /\ in - out < BufLen
    BY <1>1, <1>2
  <2>2. (in - out) % BufLen = in - out
    BY <1>1, <2>1
  <2> QED
    BY <1>1, <1>2, <2>1, <2>2 DEF Count, Index
<1>3. CASE in < out
  <2>1. in - out \in Int /\ in - out < 0 /\ in - out >= -BufLen
    BY <1>1, <1>3
  <2>2. (in - out) % BufLen = (in - out) + BufLen
    BY <1>1, <2>1
  <2> QED
    BY <1>1, <1>3, <2>1, <2>2 DEF Count, Index
<1> QED
  BY <1>1, <1>2, <1>3

\* The bytes of the ring, one by one.
LEMMA RingIs ==
  ASSUME NEW buf \in [Index -> Byte], NEW out \in Index, NEW in \in Index
  PROVE  /\ Ring(buf, out, in) \in Seq(Byte)
         /\ Len(Ring(buf, out, in)) = Count(out, in)
         /\ \A i \in 1..Count(out, in) :
              Ring(buf, out, in)[i] = buf[Place(out, i - 1)]
<1> DEFINE n == Count(out, in)
<1>1. n \in Nat /\ n < BufLen /\ BufLen \in Nat
  BY Between, Numbered, JtagAssumption
<1>2. ASSUME NEW i \in 1..n
      PROVE  /\ (out + i - 1) % BufLen = Place(out, i - 1)
             /\ buf[Place(out, i - 1)] \in Byte
  <2>1. i - 1 \in Nat /\ i - 1 <= BufLen /\ out \in Nat
    BY <1>1 DEF Index
  <2>2. out + i - 1 = out + (i - 1)
    BY <2>1
  <2> QED
    BY <2>1, <2>2, Wrapped
<1>3. Ring(buf, out, in) = [i \in 1..n |-> buf[(out + i - 1) % BufLen]]
  BY Between DEF Ring
<1>4. Ring(buf, out, in) = [i \in 1..n |-> buf[Place(out, i - 1)]]
  BY <1>2, <1>3
<1> HIDE DEF n
<1>5. Ring(buf, out, in) \in [1..n -> Byte]
  BY <1>2, <1>4
<1>6. Ring(buf, out, in) \in Seq(Byte) /\ Len(Ring(buf, out, in)) = n
  BY <1>1, <1>5
<1> QED
  BY <1>4, <1>6 DEF n

\* Going in: n more bytes at the end of the ring.
LEMMA Entered ==
  ASSUME NEW out \in Index, NEW in \in Index, NEW n \in Nat,
         Count(out, in) + n < BufLen
  PROVE  /\ (in + n) % BufLen \in Index
         /\ Count(out, (in + n) % BufLen) = Count(out, in) + n
         /\ \A k \in 0..n - 1 :
              Place(out, Count(out, in) + k) = Place(in, k)
<1>1. /\ BufLen \in Nat /\ out \in Nat /\ out < BufLen
      /\ in \in Nat /\ in < BufLen
      /\ n <= BufLen
  BY Between, JtagAssumption DEF Index
<1>2. (in + n) % BufLen = Place(in, n) /\ Place(in, n) \in Index
  BY <1>1, Wrapped
<1>3. Count(out, Place(in, n)) = Count(out, in) + n
  BY <1>1 DEF Count, Place
<1>4. \A k \in 0..n - 1 : Place(out, Count(out, in) + k) = Place(in, k)
  BY <1>1 DEF Count, Place
<1> QED
  BY <1>2, <1>3, <1>4

\* Coming out: n bytes fewer at the front.
LEMMA Left ==
  ASSUME NEW out \in Index, NEW in \in Index, NEW n \in Nat,
         n <= Count(out, in)
  PROVE  /\ (out + n) % BufLen \in Index
         /\ Count((out + n) % BufLen, in) = Count(out, in) - n
         /\ \A k \in Nat : k + n < BufLen =>
              Place((out + n) % BufLen, k) = Place(out, k + n)
<1>1. /\ BufLen \in Nat /\ out \in Nat /\ out < BufLen
      /\ in \in Nat /\ in < BufLen
      /\ n <= BufLen
  BY Between, JtagAssumption DEF Index, Count
<1>2. (out + n) % BufLen = Place(out, n) /\ Place(out, n) \in Index
  BY <1>1, Wrapped
<1>3. Count(Place(out, n), in) = Count(out, in) - n
  BY <1>1 DEF Count, Place
<1>4. \A k \in Nat : k + n < BufLen =>
        Place(Place(out, n), k) = Place(out, k + n)
  BY <1>1 DEF Place
<1> QED
  BY <1>2, <1>3, <1>4

\* One place is kept free, and an empty ring has its indices together.
LEMMA NotFull ==
  ASSUME NEW out \in Index, NEW in \in Index, (in + 1) % BufLen # out
  PROVE  Count(out, in) + 1 < BufLen
<1>1. (in + 1) % BufLen = Place(in, 1)
  BY Wrapped, JtagAssumption
<1> QED
  BY <1>1, JtagAssumption DEF Count, Place, Index

LEMMA NotEmpty ==
  ASSUME NEW out \in Index, NEW in \in Index, out # in
  PROVE  1 <= Count(out, in)
BY JtagAssumption DEF Count, Index

LEMMA Behind ==
  ASSUME NEW S, NEW s \in Seq(S), NEW t \in Seq(S),
         NEW i \in 1..Len(s) + Len(t), Len(s) < i
  PROVE  (s \o t)[i] = t[i - Len(s)]
OBVIOUS

LEMMA Compared == \A i, j \in Nat : i <= j \/ j < i
OBVIOUS

\* The ring gets the bytes of s when in moves over them.
LEMMA RingPut ==
  ASSUME NEW buf \in [Index -> Byte],
         NEW out \in Index, NEW in \in Index, NEW n \in Nat,
         Count(out, in) + n < BufLen,
         NEW s \in Seq(Byte), Len(s) = n,
         \A k \in 0..n - 1 : buf[Place(in, k)] = s[k + 1]
  PROVE  Ring(buf, out, (in + n) % BufLen) = Ring(buf, out, in) \o s
<1> DEFINE c == Count(out, in)
           r == Ring(buf, out, in)
<1>0. PICK to \in Index : to = (in + n) % BufLen
  BY Entered
<1> DEFINE q == Ring(buf, out, to)
<1>1. /\ c \in Nat /\ Count(out, to) = c + n
      /\ \A k \in 0..n - 1 : Place(out, c + k) = Place(in, k)
  <2>1. c \in Nat
    BY Between
  <2> QED
    BY <1>0, <2>1, Entered
<1>2. /\ r \in Seq(Byte) /\ Len(r) = c
      /\ \A i \in 1..c : r[i] = buf[Place(out, i - 1)]
  BY RingIs
<1>3. /\ q \in Seq(Byte) /\ Len(q) = c + n
      /\ \A i \in 1..c + n : q[i] = buf[Place(out, i - 1)]
  <2>1. /\ q \in Seq(Byte) /\ Len(q) = Count(out, to)
        /\ \A i \in 1..Count(out, to) : q[i] = buf[Place(out, i - 1)]
    BY RingIs
  <2> HIDE DEF c, q
  <2> QED
    BY <1>1, <2>1
<1> HIDE DEF c, r, q
<1>5. r \o s \in Seq(Byte) /\ Len(r \o s) = c + n
  <2>1. r \o s \in Seq(Byte) /\ Len(r \o s) = Len(r) + Len(s)
    BY <1>2, ConcatProperties, Zenon
  <2> QED
    BY <1>2, <2>1
<1>6. ASSUME NEW i \in 1..c + n PROVE q[i] = (r \o s)[i]
  <2>0. c \in Nat /\ i \in Nat /\ i - 1 \in Nat
    BY <1>1
  <2>1. CASE i <= c
    <3>1. i - 1 \in 0..c - 1 /\ i \in 1..c
      BY <2>0, <2>1
    <3>2. (r \o s)[i] = r[i]
      BY <1>1, <1>2, <2>1, ConcatProperties
    <3> QED
      BY <1>2, <1>3, <3>1, <3>2
  <2>2. CASE c < i
    <3>1. PICK k \in 0..n - 1 : c + k = i - 1 /\ k + 1 = i - c
      <4>1. i - 1 - c \in 0..n - 1
        BY <2>0, <2>2
      <4> QED
        BY <2>0, <4>1
    <3>2. (r \o s)[i] = s[i - c]
      BY <1>2, <2>0, <2>2, Behind
    <3> QED
      BY <1>1, <1>3, <3>1, <3>2
  <2> QED
    BY <2>0, <2>1, <2>2, Compared, Zenon
<1>7. q = r \o s
  BY <1>3, <1>5, <1>6, SeqEqual
<1> QED
  BY <1>0, <1>7 DEF q, r

\* The ring stays as it is when other places change.
LEMMA RingStays ==
  ASSUME NEW buf \in [Index -> Byte], NEW new \in [Index -> Byte],
         NEW out \in Index, NEW in \in Index,
         \A k \in 0..Count(out, in) - 1 :
           new[Place(out, k)] = buf[Place(out, k)]
  PROVE  Ring(new, out, in) = Ring(buf, out, in)
<1> DEFINE c == Count(out, in)
           r == Ring(buf, out, in)
           q == Ring(new, out, in)
<1>1. /\ r \in Seq(Byte) /\ Len(r) = c
      /\ \A i \in 1..c : r[i] = buf[Place(out, i - 1)]
  BY RingIs
<1>2. /\ q \in Seq(Byte) /\ Len(q) = c
      /\ \A i \in 1..c : q[i] = new[Place(out, i - 1)]
  BY RingIs
<1>3. c \in Nat /\ \A k \in 0..c - 1 : new[Place(out, k)] = buf[Place(out, k)]
  BY Between
<1> HIDE DEF c, r, q
<1>4. ASSUME NEW i \in 1..c PROVE q[i] = r[i]
  <2>1. i - 1 \in 0..c - 1
    BY <1>3
  <2> QED
    BY <1>1, <1>2, <1>3, <2>1
<1>5. q = r
  BY <1>1, <1>2, <1>4, SeqEqual
<1> QED
  BY <1>5 DEF r, q

\* One byte more, at the index in.
LEMMA RingGets ==
  ASSUME NEW buf \in [Index -> Byte], NEW out \in Index, NEW in \in Index,
         NEW x \in Byte, Count(out, in) + 1 < BufLen
  PROVE  Ring([buf EXCEPT ![in] = x], out, (in + 1) % BufLen)
           = Append(Ring(buf, out, in), x)
<1> DEFINE new == [buf EXCEPT ![in] = x]
           s == <<x>>
<1>1. new \in [Index -> Byte] /\ s \in Seq(Byte) /\ Len(s) = 1 /\ 1 \in Nat
  OBVIOUS
<1>2. \A k \in 0..1 - 1 : new[Place(in, k)] = s[k + 1]
  <2>1. Place(in, 0) = in
    BY JtagAssumption DEF Place, Index
  <2> QED
    BY <2>1
<1>3. \A k \in 0..Count(out, in) - 1 : new[Place(out, k)] = buf[Place(out, k)]
  <2>1. \A k \in 0..Count(out, in) - 1 :
          Place(out, k) \in Index /\ Place(out, k) # in
    BY JtagAssumption DEF Place, Count, Index
  <2> QED
    BY <2>1
<1> HIDE DEF new, s
<1>4. Ring(new, out, (in + 1) % BufLen) = Ring(buf, out, in) \o s
  <2>1. Ring(new, out, (in + 1) % BufLen) = Ring(new, out, in) \o s
    BY <1>1, <1>2, RingPut
  <2>2. Ring(new, out, in) = Ring(buf, out, in)
    BY <1>1, <1>3, RingStays
  <2> QED
    BY <2>1, <2>2
<1>5. Ring(buf, out, in) \in Seq(Byte)
  BY RingIs
<1>6. Append(Ring(buf, out, in), x) = Ring(buf, out, in) \o <<x>>
  BY <1>5, AppendIsConcat
<1> QED
  BY <1>4, <1>6 DEF new, s

\* The ring loses its first n bytes.
LEMMA RingTake ==
  ASSUME NEW buf \in [Index -> Byte],
         NEW out \in Index, NEW in \in Index, NEW n \in Nat,
         n <= Count(out, in)
  PROVE  Ring(buf, (out + n) % BufLen, in)
           = SubSeq(Ring(buf, out, in), n + 1, Count(out, in))
<1> DEFINE c == Count(out, in)
           from == (out + n) % BufLen
           r == Ring(buf, out, in)
           q == Ring(buf, from, in)
           s == SubSeq(r, n + 1, c)
<1>1. /\ c \in Nat /\ c < BufLen /\ from \in Index
      /\ Count(from, in) = c - n
      /\ \A k \in Nat : k + n < BufLen => Place(from, k) = Place(out, k + n)
  BY Between, Left, Numbered
<1>2. /\ r \in Seq(Byte) /\ Len(r) = c
      /\ \A i \in 1..c : r[i] = buf[Place(out, i - 1)]
  BY RingIs
<1>3. /\ q \in Seq(Byte) /\ Len(q) = c - n
      /\ \A i \in 1..c - n : q[i] = buf[Place(from, i - 1)]
  BY <1>1, RingIs
<1>4. n <= c
  OBVIOUS
<1> HIDE DEF c, from, r, q
<1>5. s \in Seq(Byte) /\ Len(s) = c - n
  BY <1>1, <1>2, <1>4, SubSeqProperties
<1>6. ASSUME NEW i \in 1..c - n PROVE q[i] = s[i]
  <2>1. /\ i - 1 \in Nat /\ (i - 1) + n = i + n - 1 /\ i + n - 1 < BufLen
        /\ i + n \in 1..c
    BY <1>1, JtagAssumption
  <2>2. s[i] = r[i + n]
    BY <1>1, <1>2, <1>4, <2>1, SubSeqProperties
  <2>3. r[i + n] = buf[Place(out, i + n - 1)]
    BY <1>2, <2>1
  <2>4. Place(from, i - 1) = Place(out, i + n - 1)
    BY <1>1, <2>1
  <2> QED
    BY <1>3, <2>2, <2>3, <2>4
<1>7. q = s
  BY <1>3, <1>5, <1>6, SeqEqual
<1> QED
  BY <1>7 DEF q, r, from, c

LEMMA RingAtPlace ==
  ASSUME NEW i \in Index
  PROVE  (i + 0) % BufLen = i
<1>1. (i + 0) % BufLen = Place(i, 0) /\ i \in Nat /\ i < BufLen
  BY Wrapped, Numbered, JtagAssumption
<1> QED
  BY <1>1 DEF Place

\* With its indices together it is empty.
LEMMA RingEmpty ==
  ASSUME NEW buf \in [Index -> Byte], NEW i \in Index
  PROVE  Count(i, i) = 0 /\ Ring(buf, i, i) = <<>>
<1>1. Count(i, i) = 0
  BY Numbered DEF Count
<1>2. Ring(buf, i, i) \in Seq(Byte) /\ Len(Ring(buf, i, i)) = 0
  BY <1>1, RingIs
<1> QED
  BY <1>1, <1>2

\* The first n of two sequences, when they are all in the first.
LEMMA TakenFromFirst ==
  ASSUME NEW S, NEW s \in Seq(S), NEW t \in Seq(S), NEW n \in 1..Len(s)
  PROVE  /\ n <= Len(s \o t) /\ (s \o t)[n] = s[n]
         /\ SubSeq(s \o t, n + 1, Len(s \o t))
              = SubSeq(s, n + 1, Len(s)) \o t
<1> DEFINE u == s \o t
           a == SubSeq(u, n + 1, Len(u))
           b == SubSeq(s, n + 1, Len(s))
           v == b \o t
<1>1. /\ Len(s) \in Nat /\ Len(t) \in Nat
      /\ n \in Nat /\ n <= Len(s) /\ 1 <= n
  OBVIOUS
<1>2. /\ u \in Seq(S) /\ Len(u) = Len(s) + Len(t)
      /\ \A i \in 1..Len(s) + Len(t) :
           u[i] = IF i <= Len(s) THEN s[i] ELSE t[i - Len(s)]
  BY ConcatProperties
<1> HIDE DEF u
<1>3. ASSUME NEW w \in Seq(S), n <= Len(w)
      PROVE  /\ SubSeq(w, n + 1, Len(w)) \in Seq(S)
             /\ Len(SubSeq(w, n + 1, Len(w))) = Len(w) - n
             /\ \A i \in 1..Len(w) - n :
                  SubSeq(w, n + 1, Len(w))[i] = w[n + i]
  BY <1>1, <1>3
<1>4. /\ a \in Seq(S) /\ Len(a) = Len(s) + Len(t) - n
      /\ \A i \in 1..Len(s) + Len(t) - n : a[i] = u[n + i]
  <2>1. n <= Len(u)
    BY <1>1, <1>2
  <2> QED
    BY <1>2, <1>3, <2>1
<1>5. /\ b \in Seq(S) /\ Len(b) = Len(s) - n
      /\ \A i \in 1..Len(s) - n : b[i] = s[n + i]
  BY <1>1, <1>3
<1> HIDE DEF a, b
<1>6. /\ v \in Seq(S) /\ Len(v) = Len(b) + Len(t)
      /\ \A i \in 1..Len(b) + Len(t) :
           v[i] = IF i <= Len(b) THEN b[i] ELSE t[i - Len(b)]
  BY <1>5, ConcatProperties, Zenon
<1> HIDE DEF v
<1>7. Len(v) = Len(s) + Len(t) - n
  BY <1>1, <1>5, <1>6
<1>8. ASSUME NEW i \in 1..Len(s) + Len(t) - n PROVE a[i] = v[i]
  <2>1. /\ i \in Nat /\ n + i \in 1..Len(s) + Len(t)
        /\ i \in 1..Len(b) + Len(t)
        /\ i - Len(b) = n + i - Len(s)
        /\ n + i <= Len(s) <=> i <= Len(b)
        /\ i <= Len(b) => i \in 1..Len(s) - n
    BY <1>1, <1>5
  <2>2. a[i] = u[n + i]
    BY <1>4
  <2>3. u[n + i] = IF n + i <= Len(s) THEN s[n + i] ELSE t[n + i - Len(s)]
    BY <1>2, <2>1
  <2>4. v[i] = IF i <= Len(b) THEN b[i] ELSE t[i - Len(b)]
    BY <1>6, <2>1, Zenon
  <2>5. i <= Len(b) => b[i] = s[n + i]
    BY <1>5, <2>1, Zenon
  <2> QED
    BY <2>1, <2>2, <2>3, <2>4, <2>5
<1>9. a = v
  BY <1>4, <1>6, <1>7, <1>8, SeqEqual
<1>10. n <= Len(u) /\ u[n] = s[n]
  BY <1>1, <1>2
<1> QED
  BY <1>9, <1>10 DEF a, b, u, v

\* The same for the head and the tail.
LEMMA TakenHead ==
  ASSUME NEW S, NEW s \in Seq(S), NEW t \in Seq(S), s # <<>>
  PROVE  /\ 1 <= Len(s \o t) /\ (s \o t)[1] = Head(s)
         /\ SubSeq(s \o t, 1 + 1, Len(s \o t)) = Tail(s) \o t
<1>1. 1 \in 1..Len(s) /\ 1 + 1 = 2
  OBVIOUS
<1>2. /\ 1 <= Len(s \o t) /\ (s \o t)[1] = s[1]
      /\ SubSeq(s \o t, 1 + 1, Len(s \o t)) = SubSeq(s, 1 + 1, Len(s)) \o t
  BY <1>1, TakenFromFirst
<1>3. Tail(s) = SubSeq(s, 2, Len(s))
  BY TailIsSubSeq
<1> QED
  BY <1>1, <1>2, <1>3

\* What leaves the front of t for the end of s.
LEMMA HandedOver ==
  ASSUME NEW S, NEW s \in Seq(S), NEW t \in Seq(S), t # <<>>
  PROVE  Append(s, Head(t)) \o Tail(t) = s \o t
<1>1. /\ Head(t) \in S /\ Tail(t) \in Seq(S) /\ <<Head(t)>> \in Seq(S)
  BY HeadTailProperties
<1>2. Append(s, Head(t)) = s \o <<Head(t)>>
  BY <1>1, AppendIsConcat
<1>3. <<Head(t)>> \o Tail(t) = t
  BY <1>1
<1>4. (s \o <<Head(t)>>) \o Tail(t) = s \o (<<Head(t)>> \o Tail(t))
  BY <1>1, ConcatAssociative
<1> QED
  BY <1>2, <1>3, <1>4
-----------------------------------------------------------------------------
(* The transmitter and the receiver are pipes.                              *)

\* A program has one of the two drivers.
Apart ==
  /\ use \in Uses
  /\ at.pc \in Small => use \subseteq Small
  /\ use \subseteq Small =>
       /\ at.pc \in Small \cup {"idle"}
       /\ irq_enable = {} /\ isr.pc = "off"
       /\ tx_in = tx_out /\ rx_in = rx_out

\* What the interrupt routine still sends fits into the device.
Roomy == isr.pc \in {"rx", "tx"} => Len(txfifo) + isr.space <= TxDepth

\* Between memcpy and the assignment to the index: the bytes are behind the
\* ring's last, where there is room, or at its front.
Copying ==
  /\ at.pc = "wset" =>
       /\ at.n > 0 /\ Count(tx_out, tx_in) + at.n < BufLen
       /\ \A k \in 0..at.n - 1 :
            tx_buf[Place(tx_in, k)] = (txput + k) % Numbers
  /\ at.pc = "rset" => at.n > 0 /\ at.n <= Count(rx_out, rx_in)

Piped == Apart /\ Roomy /\ Copying

\* A round of copying goes to places the ring does not use, and leaves one.
LEMMA RoundOfWriting ==
  ASSUME NEW out \in Index, NEW in \in Index, NEW n \in Nat,
         n <= Space(in, out)
  PROVE  /\ Count(out, in) + n < BufLen
         /\ \A k \in 0..n - 1 : Place(in, k) = in + k /\ in + k \in Index
         /\ \A k \in 0..Count(out, in) - 1 :
              Place(out, k) \in Index /\ Place(out, k) \notin in..in + n - 1
<1>1. /\ BufLen \in Nat /\ out \in Nat /\ out < BufLen
      /\ in \in Nat /\ in < BufLen
  BY JtagAssumption DEF Index
<1>2. Count(out, in) + n < BufLen
  BY <1>1 DEF Count, Space
<1>3. \A k \in 0..n - 1 : Place(in, k) = in + k /\ in + k \in Index
  BY <1>1 DEF Place, Space, Index
<1>4. \A k \in 0..Count(out, in) - 1 :
        Place(out, k) \in Index /\ Place(out, k) \notin in..in + n - 1
  BY <1>1 DEF Place, Count, Space, Index
<1> QED
  BY <1>2, <1>3, <1>4

LEMMA RoundOfReading ==
  ASSUME NEW out \in Index, NEW in \in Index, NEW n \in Nat,
         n <= Present(in, out)
  PROVE  /\ n <= Count(out, in)
         /\ n > 0 => Place(out, n - 1) = out + n - 1
BY JtagAssumption DEF Index, Present, Count, Place

LEMMA Pipes == Spec => []Piped
<1>1. Init => Piped
  <2> SUFFICES ASSUME Init PROVE Piped
    OBVIOUS
  <2>1. Apart
    BY DEF Init, Apart, Idle, Quiet, Small
  <2>2. Roomy
    BY DEF Init, Roomy, Quiet
  <2>3. Copying
    BY DEF Init, Copying, Idle
  <2> QED
    BY <2>1, <2>2, <2>3 DEF Piped
<1>2. IInv /\ Piped /\ [Next]_vars => Piped'
  <2> SUFFICES ASSUME IInv, Piped, [Next]_vars PROVE Piped'
    OBVIOUS
  <2>0. /\ TypeOK /\ at \in Places /\ isr \in Rounds
        /\ Apart /\ Roomy /\ Copying
    BY DEF IInv, TypeOK, Piped
  <2> USE <2>0 DEF device, receive, transmit, presence
  <2>0a. \A u \in Uses : u \subseteq Small \/ u \cap Small = {}
    BY JtagAssumption
  <2>1. CASE HostTakes
    <3>1. Len(txfifo') <= Len(txfifo) /\ Len(txfifo') \in Nat
      BY <2>1 DEF HostTakes, TypeOK
    <3>2. Roomy'
      <4>1. isr.space \in Nat /\ Len(txfifo) \in Nat /\ TxDepth \in Nat
        BY JtagAssumption DEF TypeOK, Rounds
      <4> QED
        BY <3>1, <4>1, <2>1 DEF HostTakes, Roomy
    <3>3. Apart' /\ Copying'
      BY <2>1 DEF HostTakes, Apart, Copying
    <3> QED
      BY <3>2, <3>3 DEF Piped
  <2>2. CASE HostSends
    BY <2>2 DEF HostSends, Piped, Apart, Roomy, Copying
  <2>3. CASE HostPauses
    BY <2>3 DEF HostPauses, Piped, Apart, Roomy, Copying
  <2>4. CASE IsrControl
    <3>1. Len(txfifo) \in Nat /\ Len(txfifo) <= TxDepth /\ TxDepth \in Nat
      BY JtagAssumption DEF TypeOK
    <3>2. Roomy'
      <4>1. CASE ~RI /\ ~WI
        BY <4>1, <2>4 DEF IsrControl, Roomy, Quiet
      <4>2. CASE RI \/ WI
        <5>1. /\ txfifo' = txfifo
              /\ isr'.space \in {TxDepth - Len(txfifo), 0}
          BY <4>2, <2>4 DEF IsrControl
        <5> QED
          BY <3>1, <5>1 DEF Roomy
      <4> QED
        BY <4>1, <4>2
    <3>3. Apart'
      BY <2>4 DEF IsrControl, RI, WI, Quiet, Apart
    <3>4. Copying'
      BY <2>4 DEF IsrControl, Copying
    <3> QED
      BY <3>2, <3>3, <3>4 DEF Piped
  <2>5. CASE IsrReceive
    <3>1. Apart' /\ Roomy'
      BY <2>5 DEF IsrReceive, Apart, Roomy, Rounds
    <3>2. ASSUME at.pc = "rset" PROVE at.n <= Count(rx_out, rx_in')
      <4>1. rx_out \in Index /\ rx_in \in Index /\ at.n \in Nat
        BY Fields, Numbered DEF TypeOK
      <4>2. Count(rx_out, rx_in) \in Nat /\ Count(rx_out, rx_in) + 1 < BufLen
        BY <4>1, <2>5, Between, NotFull DEF IsrReceive, ReceiveFull
      <4>3. Count(rx_out, rx_in') = Count(rx_out, rx_in) + 1
        BY <4>1, <4>2, <2>5, Entered DEF IsrReceive
      <4>4. at.n <= Count(rx_out, rx_in)
        BY <3>2 DEF Copying
      <4> QED
        BY <4>1, <4>2, <4>3, <4>4
    <3>3. Copying'
      BY <3>2, <2>5 DEF IsrReceive, Copying
    <3> QED
      BY <3>1, <3>3 DEF Piped
  <2>6. CASE IsrReceiveNone
    BY <2>6 DEF IsrReceiveNone, AfterReceive, Piped, Apart, Roomy, Copying,
       Rounds
  <2>7. CASE IsrReceiveEnd
    BY <2>7 DEF IsrReceiveEnd, AfterReceive, Piped, Apart, Roomy, Copying,
       Rounds
  <2>8. CASE IsrTransmit
    <3>1. /\ Len(txfifo) \in Nat /\ TxDepth \in Nat /\ isr.space \in Nat
          /\ isr.space > 0 /\ Len(txfifo) + isr.space <= TxDepth
      BY JtagAssumption, <2>8 DEF IsrTransmit, TypeOK, Rounds, Roomy
    <3>2. Roomy'
      <4>1. Len(txfifo') = Len(txfifo) + 1
        <5>1. txfifo' = Append(txfifo, tx_buf[tx_out])
          BY <3>1, <2>8 DEF IsrTransmit
        <5> QED
          BY <5>1 DEF TypeOK
      <4>2. isr'.space = isr.space - 1
        BY <2>8 DEF IsrTransmit, Rounds
      <4> QED
        BY <3>1, <4>1, <4>2 DEF Roomy
    <3>3. Apart'
      BY <2>8 DEF IsrTransmit, Apart, Rounds
    <3>4. ASSUME at.pc = "wset" PROVE Count(tx_out', tx_in) + at.n < BufLen
      <4>1. tx_out \in Index /\ tx_in \in Index /\ at.n \in Nat
        BY Fields, Numbered DEF TypeOK
      <4>2. Count(tx_out, tx_in) \in Nat /\ 1 <= Count(tx_out, tx_in)
        BY <4>1, <2>8, Between, NotEmpty DEF IsrTransmit
      <4>3. Count(tx_out', tx_in) = Count(tx_out, tx_in) - 1
        BY <4>1, <4>2, <2>8, Left DEF IsrTransmit
      <4>4. Count(tx_out, tx_in) + at.n < BufLen /\ BufLen \in Nat
        BY <3>4, JtagAssumption DEF Copying
      <4> QED
        BY <4>1, <4>2, <4>3, <4>4
    <3>5. Copying'
      BY <3>4, <2>8 DEF IsrTransmit, Copying
    <3> QED
      BY <3>2, <3>3, <3>5 DEF Piped
  <2>9. CASE IsrTransmitEnd
    BY <2>9 DEF IsrTransmitEnd, Piped, Apart, Roomy, Copying, Rounds
  <2>10. CASE Timeout
    BY <2>10 DEF Timeout, Piped, Apart, Roomy, Copying
  <2>11. CASE WriteCopy
    <3> DEFINE n == Least(Space(tx_in, tx_out), at.left)
    <3>1. /\ at.left \in Nat /\ Space(tx_in, tx_out) \in Nat
          /\ tx_out \in Index /\ tx_in \in Index /\ txput \in Nat
      BY Rounded, Fields, Numbered DEF TypeOK
    <3>2. n \in Nat /\ n <= Space(tx_in, tx_out)
      BY <3>1, Lesser
    <3>3. /\ tx_buf' = [i \in 0..BufLen - 1 |->
                          IF i \in tx_in..tx_in + n - 1
                          THEN (txput + i - tx_in) % Numbers ELSE tx_buf[i]]
          /\ at'.pc = IF n = 0 THEN "kick" ELSE "wset"
          /\ at'.n = n
      BY <2>11 DEF WriteCopy, Places
    <3> HIDE DEF n
    <3>4. ASSUME NEW k \in 0..n - 1
          PROVE  tx_buf'[Place(tx_in, k)] = (txput + k) % Numbers
      <4>1. /\ Place(tx_in, k) = tx_in + k /\ tx_in + k \in 0..BufLen - 1
            /\ tx_in \in Nat /\ k \in Nat
        <5>1. Place(tx_in, k) = tx_in + k /\ tx_in + k \in Index
          BY <3>1, <3>2, RoundOfWriting
        <5> QED
          BY <3>1, <5>1, Numbered DEF Index
      <4>2. /\ tx_in + k \in tx_in..tx_in + n - 1
            /\ txput + (tx_in + k) - tx_in = txput + k
        BY <3>1, <3>2, <4>1
      <4> QED
        BY <3>3, <4>1, <4>2
    <3>5. Copying'
      <4>1. Count(tx_out, tx_in) + n < BufLen
        BY <3>1, <3>2, RoundOfWriting
      <4>2. at'.pc = "wset" => n > 0
        BY <3>2, <3>3
      <4>3. tx_in' = tx_in /\ tx_out' = tx_out /\ txput' = txput
        BY <2>11 DEF WriteCopy
      <4>4. at'.pc # "rset"
        BY <3>3
      <4> QED
        BY <3>3, <3>4, <4>1, <4>2, <4>3, <4>4 DEF Copying
    <3>6. Apart' /\ Roomy'
      BY <3>3, <2>11 DEF WriteCopy, Runs, Apart, Roomy, Small
    <3> QED
      BY <3>5, <3>6 DEF Piped
  <2>12. CASE WriteSet
    BY <2>12 DEF WriteSet, Runs, Piped, Apart, Roomy, Copying, Places, Small
  <2>13. CASE WriteKick
    BY <2>13 DEF WriteKick, Runs, Goto, Return, Idle, Piped, Apart, Roomy,
       Copying, Places, Small
  <2>14. CASE WriteWait
    BY <2>14 DEF WriteWait, Runs, Goto, Piped, Apart, Roomy, Copying, Places,
       Small
  <2>15. CASE WriteCheck
    <3>1. at.pc = "wcheck" /\ at'.pc \in {"write", "idle"}
      <4>1. CASE host_inactive > 0
        BY <4>1, <2>15 DEF WriteCheck, Runs, Return, Idle
      <4>2. CASE ~(host_inactive > 0)
        BY <4>2, <2>15 DEF WriteCheck, Runs, Return, Idle, Places
      <4> QED
        BY <4>1, <4>2
    <3> QED
      BY <3>1, <2>15 DEF WriteCheck, Runs, Piped, Apart, Roomy, Copying, Small
  <2>16. CASE ReadCopy
    <3> DEFINE n == Least(Present(rx_in, rx_out), at.left)
    <3>1. /\ at.left \in Nat /\ Present(rx_in, rx_out) \in Nat
          /\ rx_out \in Index /\ rx_in \in Index
      BY Rounded, Fields, Numbered DEF TypeOK
    <3>2. n \in Nat /\ n <= Present(rx_in, rx_out)
      BY <3>1, Lesser
    <3>3. /\ n > 0 => at'.pc = "rset" /\ at'.n = n
          /\ ~(n > 0) => at'.pc \in {"rend", "idle", "rwait"}
          /\ at.pc = "read"
      <4>1. /\ at.pc = "read"
            /\ n > 0 => at' = [at EXCEPT !.pc = "rset", !.n = n]
        BY <2>16 DEF ReadCopy, Runs
      <4>2. ASSUME ~(n > 0) PROVE at'.pc \in {"rend", "idle", "rwait"}
        <5>1. \/ at' = [at EXCEPT !.pc = "rend"] \/ at' = Idle
              \/ at' = [at EXCEPT !.pc = "rwait", !.seen = rx_in]
          BY <4>2, <2>16 DEF ReadCopy, Goto, Return
        <5> QED
          <6>1. CASE at' = [at EXCEPT !.pc = "rend"]
            BY <6>1 DEF Places
          <6>2. CASE at' = Idle
            BY <6>2 DEF Idle
          <6>3. CASE at' = [at EXCEPT !.pc = "rwait", !.seen = rx_in]
            BY <6>3 DEF Places
          <6> QED
            BY <5>1, <6>1, <6>2, <6>3
      <4> HIDE DEF n
      <4> QED
        BY <4>1, <4>2 DEF Places
    <3> HIDE DEF n
    <3>4. n <= Count(rx_out, rx_in)
      BY <3>1, <3>2, RoundOfReading
    <3>5. Copying'
      BY <3>2, <3>3, <3>4, <2>16 DEF ReadCopy, Copying
    <3>6. Apart' /\ Roomy'
      BY <3>3, <2>16 DEF ReadCopy, Apart, Roomy, Small
    <3> QED
      BY <3>5, <3>6 DEF Piped
  <2>17. CASE ReadSet
    BY <2>17 DEF ReadSet, Runs, Piped, Apart, Roomy, Copying, Places, Small
  <2>18. CASE ReadWait
    BY <2>18 DEF ReadWait, Runs, Goto, Piped, Apart, Roomy, Copying, Places,
       Small
  <2>19. CASE ReadCheck
    <3>1. at.pc = "rcheck" /\ at'.pc \in {"read", "idle"}
      <4>1. CASE at.seen = rx_in
        BY <4>1, <2>19 DEF ReadCheck, Runs, Return, Idle
      <4>2. CASE at.seen # rx_in
        BY <4>2, <2>19 DEF ReadCheck, Runs, Return, Idle, Places
      <4> QED
        BY <4>1, <4>2
    <3> QED
      BY <3>1, <2>19 DEF ReadCheck, Runs, Piped, Apart, Roomy, Copying, Small
  <2>20. CASE ReadEnd
    BY <2>20 DEF ReadEnd, Runs, Return, Idle, Piped, Apart, Roomy, Copying,
       Small
  <2>21. CASE Close
    BY <2>21 DEF Close, Runs, Return, Idle, Piped, Apart, Roomy, Copying,
       Small
  <2>22. CASE SmallWrite
    BY <2>22 DEF SmallWrite, Runs, Return, Idle, Piped, Apart, Roomy, Copying,
       Places, Small
  <2>23. CASE SmallRead
    <3>1. at.pc = "sread" /\ at'.pc \in {"sread", "idle"}
      <4>1. CASE at.left > 1
        BY <4>1, <2>23 DEF SmallRead, Runs, Return, Idle, Places
      <4>2. CASE ~(at.left > 1)
        BY <4>2, <2>23 DEF SmallRead, Runs, Return, Idle
      <4> QED
        BY <4>1, <4>2
    <3> QED
      BY <3>1, <2>23 DEF SmallRead, Runs, Piped, Apart, Roomy, Copying, Small
  <2>24. CASE SmallReadNone
    BY <2>24 DEF SmallReadNone, Runs, Return, Idle, Piped, Apart, Roomy,
       Copying, Small
  <2>25. CASE SetTimeout
    BY <2>25 DEF SetTimeout, Piped, Apart, Roomy, Copying
  <2>26. ASSUME NEW pc \in {"write", "read", "close", "swrite", "sread"},
                Call(pc)
         PROVE  Piped'
    BY <2>26, <2>0a DEF Call, Runs, Idle, Piped, Apart, Roomy, Copying, Small
  <2>27. CASE UNCHANGED vars
    BY <2>27 DEF vars, Piped, Apart, Roomy, Copying
  <2>28. CASE IsrReceiveLate
    BY <2>28 DEF IsrReceiveLate, AfterReceive, Piped, Apart, Roomy, Copying,
       Rounds
  <2> QED
    BY <2>1, <2>2, <2>3, <2>4, <2>5, <2>6, <2>7, <2>8, <2>9, <2>10, <2>11,
       <2>12, <2>13, <2>14, <2>15, <2>16, <2>17, <2>18, <2>19, <2>20, <2>21,
       <2>22, <2>23, <2>24, <2>25, <2>26, <2>27, <2>28
       DEF Next, Isr, Body
<1> QED
  BY <1>1, <1>2, Invariant, PTL DEF Spec

LEMMA FromIs ==
  ASSUME NEW p \in Byte, NEW n \in Nat
  PROVE  /\ Tx!From(p, n) \in Seq(Byte) /\ Len(Tx!From(p, n)) = n
         /\ \A k \in 0..n - 1 : Tx!From(p, n)[k + 1] = (p + k) % Numbers
         /\ Tx!From(p, 1) = <<p>>
         /\ Rx!From(p, n) = Tx!From(p, n)
<1>1. \A i \in 1..n : (p + i - 1) % Numbers \in Byte
  <2>1. \A i \in 1..n : p + i - 1 \in Nat
    BY Numbered
  <2> QED
    BY <2>1, Numbered
<1>2. Tx!From(p, n) = [i \in 1..n |-> (p + i - 1) % Numbers]
  BY DEF Tx!From
<1>3. Tx!From(p, n) \in [1..n -> Byte]
  BY <1>1, <1>2
<1>4. Tx!From(p, n) \in Seq(Byte) /\ Len(Tx!From(p, n)) = n
  BY <1>3
<1>5. ASSUME NEW k \in 0..n - 1
      PROVE  Tx!From(p, n)[k + 1] = (p + k) % Numbers
  <2>1. k + 1 \in 1..n /\ p + (k + 1) - 1 = p + k
    BY Numbered
  <2> QED
    BY <1>2, <2>1
<1>6. Tx!From(p, 1) = <<p>>
  <2>1. \A i \in 1..1 : (p + i - 1) % Numbers = p
    BY JtagAssumption DEF Byte
  <2>2. Tx!From(p, 1) = [i \in 1..1 |-> p]
    BY <2>1 DEF Tx!From
  <2> QED
    BY <2>2
<1>7. Rx!From(p, n) = Tx!From(p, n)
  BY DEF Tx!From, Rx!From
<1> QED
  BY <1>4, <1>5, <1>6, <1>7

TxQ == txfifo \o Ring(tx_buf, tx_out, tx_in)
RxQ == Ring(rx_buf, (rx_out + Copied) % BufLen, rx_in) \o rxfifo

\* Enough to make a step one of the pipe.
LEMMA TxPuts ==
  ASSUME NEW n \in Nat, n > 0, Len(TxQ) \in Nat,
         Len(TxQ) + n <= TxDepth + BufLen - 1,
         TxQ' = TxQ \o Tx!From(txput, n),
         txput' = (txput + n) % Numbers, txgot' = txgot
  PROVE  Tx!Next
<1>1. n \in 1..TxDepth + BufLen - 1
  BY JtagAssumption
<1>2. Tx!Put(n)
  BY DEF Tx!Put, TxQ
<1> QED
  BY <1>1, <1>2 DEF Tx!Next

LEMMA TxTakes ==
  ASSUME NEW n \in Nat, n > 0, n <= Len(TxQ), Len(TxQ) \in Nat,
         Len(TxQ) <= TxDepth + BufLen - 1,
         TxQ' = SubSeq(TxQ, n + 1, Len(TxQ)),
         txgot' = TxQ[n], txput' = txput
  PROVE  Tx!Next
<1>1. n \in 1..TxDepth + BufLen - 1
  BY JtagAssumption
<1>2. Tx!Take(n)
  BY DEF Tx!Take, TxQ
<1> QED
  BY <1>1, <1>2 DEF Tx!Next

LEMMA RxPuts ==
  ASSUME NEW n \in Nat, n > 0, Len(RxQ) \in Nat,
         Len(RxQ) + n <= RxDepth + BufLen - 1,
         RxQ' = RxQ \o Rx!From(rxput, n),
         rxput' = (rxput + n) % Numbers, rxgot' = rxgot
  PROVE  Rx!Next
<1>1. n \in 1..RxDepth + BufLen - 1
  BY JtagAssumption
<1>2. Rx!Put(n)
  BY DEF Rx!Put, RxQ
<1> QED
  BY <1>1, <1>2 DEF Rx!Next

LEMMA RxTakes ==
  ASSUME NEW n \in Nat, n > 0, n <= Len(RxQ), Len(RxQ) \in Nat,
         Len(RxQ) <= RxDepth + BufLen - 1,
         RxQ' = SubSeq(RxQ, n + 1, Len(RxQ)),
         rxgot' = RxQ[n], rxput' = rxput
  PROVE  Rx!Next
<1>1. n \in 1..RxDepth + BufLen - 1
  BY JtagAssumption
<1>2. Rx!Take(n)
  BY DEF Rx!Take, RxQ
<1> QED
  BY <1>1, <1>2 DEF Rx!Next

\* The other steps leave the transmitter alone.
LEMMA TxAlone ==
  ASSUME [Next]_vars
  PROVE  \/ HostTakes \/ IsrTransmit \/ WriteCopy \/ WriteSet \/ SmallWrite
         \/ UNCHANGED <<txfifo, transmit>>
BY DEF Next, Isr, Body, vars, device, HostSends, HostPauses, IsrControl,
   IsrReceive, IsrReceiveNone, IsrReceiveLate, IsrReceiveEnd,
   IsrTransmitEnd, Timeout,
   WriteKick, WriteWait, WriteCheck, ReadCopy, ReadSet, ReadWait, ReadCheck,
   ReadEnd, Close, SmallRead, SmallReadNone, SetTimeout, Call

\* The transmitter's queue, in its two parts.
LEMMA TxParts ==
  ASSUME IInv
  PROVE  /\ txfifo \in Seq(Byte) /\ tx_buf \in [Index -> Byte]
         /\ tx_out \in Index /\ tx_in \in Index
         /\ Ring(tx_buf, tx_out, tx_in) \in Seq(Byte) /\ TxQ \in Seq(Byte)
         /\ Count(tx_out, tx_in) \in Nat
         /\ Len(TxQ) = Len(txfifo) + Count(tx_out, tx_in)
         /\ Len(txfifo) \in Nat /\ Len(TxQ) \in Nat
         /\ Len(TxQ) <= TxDepth + BufLen - 1
<1>1. /\ txfifo \in Seq(Byte) /\ tx_buf \in [Index -> Byte]
      /\ tx_out \in Index /\ tx_in \in Index
      /\ Len(txfifo) \in Nat /\ Len(txfifo) <= TxDepth /\ TxDepth \in Nat
      /\ BufLen \in Nat
  BY JtagAssumption DEF IInv, TypeOK
<1>2. /\ Ring(tx_buf, tx_out, tx_in) \in Seq(Byte)
      /\ Len(Ring(tx_buf, tx_out, tx_in)) = Count(tx_out, tx_in)
      /\ Count(tx_out, tx_in) \in Nat /\ Count(tx_out, tx_in) < BufLen
  BY <1>1, RingIs, Between, Numbered
<1>3. /\ TxQ \in Seq(Byte)
      /\ Len(TxQ) = Len(txfifo) + Count(tx_out, tx_in)
  BY <1>1, <1>2, ConcatProperties DEF TxQ
<1> QED
  BY <1>1, <1>2, <1>3

LEMMA One == 1 \in Nat /\ 1 > 0
OBVIOUS

LEMMA TxStep ==
  IInv /\ IInv' /\ Piped /\ [Next]_vars => [Tx!Next]_(Tx!pipeVars)
<1> SUFFICES ASSUME IInv, IInv', Piped, [Next]_vars
             PROVE  [Tx!Next]_(Tx!pipeVars)
  OBVIOUS
<1>r. PICK r : r = Ring(tx_buf, tx_out, tx_in)
  OBVIOUS
<1>0. /\ txfifo \in Seq(Byte) /\ tx_buf \in [Index -> Byte]
      /\ tx_out \in Index /\ tx_in \in Index /\ r \in Seq(Byte)
      /\ TxQ \in Seq(Byte) /\ Count(tx_out, tx_in) \in Nat
      /\ Len(TxQ) = Len(txfifo) + Count(tx_out, tx_in)
      /\ Len(txfifo) \in Nat /\ Len(TxQ) \in Nat
      /\ Len(TxQ) <= TxDepth + BufLen - 1
      /\ txput \in Byte /\ TxQ = txfifo \o r
  BY TxParts, <1>r DEF IInv, TypeOK, TxQ
<1>1. CASE HostTakes
  <2>1. /\ txfifo # <<>> /\ txfifo' = Tail(txfifo) /\ txgot' = Head(txfifo)
        /\ TxQ' = txfifo' \o r /\ txput' = txput
    BY <1>r, <1>1 DEF HostTakes, TxQ
  <2>2. /\ 1 <= Len(TxQ) /\ TxQ[1] = Head(txfifo)
        /\ SubSeq(TxQ, 1 + 1, Len(TxQ)) = Tail(txfifo) \o r
    BY <1>0, <2>1, TakenHead, Zenon
  <2>3. TxQ' = SubSeq(TxQ, 1 + 1, Len(TxQ))
    BY <2>1, <2>2, Zenon
  <2>4. Tx!Next
    BY One, <1>0, <2>1, <2>2, <2>3, TxTakes, Zenon
  <2> QED
    BY <2>4
<1>2. CASE IsrTransmit
  <2>1. /\ isr.space \in Nat /\ isr.space > 0
        /\ Len(txfifo) + isr.space <= TxDepth /\ TxDepth \in Nat
        /\ tx_out # tx_in /\ isr.pc = "tx"
    BY <1>2, JtagAssumption DEF IsrTransmit, Piped, Roomy, IInv, TypeOK, Rounds
  <2>2. /\ txfifo' = Append(txfifo, tx_buf[tx_out])
        /\ tx_out' = (tx_out + 1) % BufLen
        /\ UNCHANGED <<tx_in, tx_buf, txput, txgot>>
    BY <1>0, <1>2, <2>1 DEF IsrTransmit
  <2>3. 1 <= Count(tx_out, tx_in)
    BY <1>0, <2>1, NotEmpty
  <2>4. /\ Len(r) = Count(tx_out, tx_in) /\ r # <<>>
        /\ Head(r) = tx_buf[tx_out]
    <3>1. /\ Len(r) = Count(tx_out, tx_in)
          /\ r[1] = tx_buf[Place(tx_out, 1 - 1)]
      <4>1. 1 \in 1..Count(tx_out, tx_in)
        BY <1>0, <2>3
      <4> QED
        BY <1>r, <1>0, <4>1, RingIs, Zenon
    <3>2. Place(tx_out, 1 - 1) = tx_out
      BY <1>0, JtagAssumption DEF Place, Index
    <3> QED
      BY <1>0, <2>3, <3>1, <3>2
  <2>5. Ring(tx_buf, (tx_out + 1) % BufLen, tx_in) = Tail(r)
    <3>1. Ring(tx_buf, (tx_out + 1) % BufLen, tx_in)
            = SubSeq(r, 1 + 1, Count(tx_out, tx_in))
      BY One, <1>r, <1>0, <2>3, RingTake, Zenon
    <3>2. Tail(r) = SubSeq(r, 2, Len(r))
      BY <1>0, <2>4, TailIsSubSeq
    <3> QED
      BY <2>4, <3>1, <3>2
  <2>6. TxQ' = Append(txfifo, Head(r)) \o Tail(r)
    BY <2>2, <2>4, <2>5 DEF TxQ
  <2>7. TxQ' = TxQ
    BY <1>0, <2>4, <2>6, HandedOver
  <2> QED
    BY <2>2, <2>7 DEF Tx!pipeVars, TxQ
<1>3. CASE WriteCopy
  <2> DEFINE n == Least(Space(tx_in, tx_out), at.left)
  <2>1. /\ at.left \in Nat /\ Space(tx_in, tx_out) \in Nat
    BY <1>0, Rounded, Fields, Numbered DEF IInv, TypeOK
  <2>2. n \in Nat /\ n <= Space(tx_in, tx_out)
    BY <2>1, Lesser
  <2>3. /\ tx_buf' = [i \in 0..BufLen - 1 |->
                        IF i \in tx_in..tx_in + n - 1
                        THEN (txput + i - tx_in) % Numbers ELSE tx_buf[i]]
        /\ UNCHANGED <<txfifo, tx_in, tx_out, txput, txgot>>
    BY <1>3 DEF WriteCopy, device
  <2> HIDE DEF n
  <2>4. \A k \in 0..Count(tx_out, tx_in) - 1 :
          tx_buf'[Place(tx_out, k)] = tx_buf[Place(tx_out, k)]
    <3>1. \A k \in 0..Count(tx_out, tx_in) - 1 :
            /\ Place(tx_out, k) \in Index
            /\ Place(tx_out, k) \notin tx_in..tx_in + n - 1
      BY <1>0, <2>2, RoundOfWriting
    <3> QED
      BY <2>3, <3>1 DEF Index
  <2>5. tx_buf' \in [Index -> Byte]
    BY DEF IInv, TypeOK
  <2>6. Ring(tx_buf', tx_out, tx_in) = r
    BY <1>r, <1>0, <2>4, <2>5, RingStays
  <2> QED
    BY <1>r, <2>3, <2>6 DEF Tx!pipeVars
<1>4. CASE WriteSet
  <2>1. /\ at.pc = "wset" /\ tx_in' = (tx_in + at.n) % BufLen
        /\ txput' = (txput + at.n) % Numbers
        /\ UNCHANGED <<txfifo, tx_out, tx_buf, txgot>>
    BY <1>4 DEF WriteSet, Runs, device
  <2>2. /\ at.n \in Nat /\ at.n > 0
        /\ Count(tx_out, tx_in) + at.n < BufLen
        /\ \A k \in 0..at.n - 1 :
             tx_buf[Place(tx_in, k)] = (txput + k) % Numbers
    BY <2>1, Fields, Numbered DEF Piped, Copying, IInv, TypeOK
  <2>3. PICK n \in Nat :
          /\ n = at.n /\ n > 0 /\ Count(tx_out, tx_in) + n < BufLen
          /\ \A k \in 0..n - 1 :
               tx_buf[Place(tx_in, k)] = (txput + k) % Numbers
          /\ tx_in' = (tx_in + n) % BufLen
          /\ txput' = (txput + n) % Numbers
    BY <2>1, <2>2
  <2> DEFINE s == Tx!From(txput, n)
  <2>4. /\ s \in Seq(Byte) /\ Len(s) = n
        /\ \A k \in 0..n - 1 : s[k + 1] = (txput + k) % Numbers
    BY <1>0, FromIs
  <2> HIDE DEF s
  <2>5. Ring(tx_buf, tx_out, (tx_in + n) % BufLen) = r \o s
    <3>1. \A k \in 0..n - 1 : tx_buf[Place(tx_in, k)] = s[k + 1]
      BY <2>3, <2>4
    <3>2. tx_buf \in [Index -> Byte] /\ tx_out \in Index /\ tx_in \in Index
      BY <1>0
    <3>3. Count(tx_out, tx_in) + n < BufLen
      BY <2>3
    <3>4. Ring(tx_buf, tx_out, (tx_in + n) % BufLen)
            = Ring(tx_buf, tx_out, tx_in) \o s
      BY <2>4, <3>1, <3>2, <3>3, RingPut, Zenon
    <3> QED
      BY <1>r, <3>4
  <2>6. TxQ' = txfifo \o (r \o s)
    BY <2>1, <2>3, <2>5, Zenon DEF TxQ
  <2>7. TxQ' = TxQ \o s
    <3>1. (txfifo \o r) \o s = txfifo \o (r \o s)
      BY <1>0, <2>4, ConcatAssociative
    <3> QED
      BY <1>0, <2>6, <3>1, Zenon
  <2>8. Len(TxQ) + n <= TxDepth + BufLen - 1
    <3>1. Len(txfifo) <= TxDepth /\ TxDepth \in Nat /\ BufLen \in Nat
      BY JtagAssumption DEF IInv, TypeOK
    <3> QED
      BY <1>0, <2>3, <3>1
  <2>9. Tx!Next
    BY <1>0, <2>1, <2>3, <2>7, <2>8, TxPuts DEF s
  <2> QED
    BY <2>9
<1>5. CASE SmallWrite
  <2>1. /\ at.pc = "swrite" /\ Len(txfifo) < TxDepth
        /\ txfifo' = Append(txfifo, txput)
        /\ txput' = (txput + 1) % Numbers
        /\ UNCHANGED <<tx_in, tx_out, tx_buf, txgot>>
    BY <1>5 DEF SmallWrite, Runs
  <2>2. r = <<>> /\ Count(tx_out, tx_in) = 0
    <3>1. tx_in = tx_out
      BY <2>1 DEF Piped, Apart, Small
    <3> QED
      BY <1>r, <1>0, <3>1, RingEmpty, Zenon
  <2>3. TxQ = txfifo /\ TxQ' = Append(txfifo, txput)
    <3>1. TxQ = txfifo \o r /\ TxQ' = Append(txfifo, txput) \o r
      BY <1>r, <1>0, <2>1 DEF TxQ
    <3>2. Append(txfifo, txput) \in Seq(Byte)
      BY <1>0
    <3> QED
      BY <1>0, <2>2, <3>1, <3>2, ConcatEmptySeq, Zenon
  <2>4. TxQ' = TxQ \o Tx!From(txput, 1)
    <3>1. Append(txfifo, txput) = txfifo \o <<txput>>
      BY <1>0, AppendIsConcat
    <3>2. Tx!From(txput, 1) = <<txput>>
      BY One, <1>0, FromIs, Zenon
    <3> QED
      BY <2>3, <3>1, <3>2, Zenon
  <2>5. Len(TxQ) + 1 <= TxDepth + BufLen - 1
    BY <1>0, <2>1, <2>2, JtagAssumption
  <2>6. Tx!Next
    BY One, <1>0, <2>1, <2>4, <2>5, TxPuts, Zenon
  <2> QED
    BY <2>6
<1>6. CASE UNCHANGED <<txfifo, transmit>>
  BY <1>6 DEF transmit, Tx!pipeVars
<1> QED
  BY <1>1, <1>2, <1>3, <1>4, <1>5, <1>6, TxAlone

\* The same for the receiver.
LEMMA RxAlone ==
  ASSUME IInv, [Next]_vars
  PROVE  \/ HostSends \/ IsrReceive \/ IsrReceiveLate
         \/ ReadCopy \/ ReadSet \/ SmallRead
         \/ UNCHANGED <<rxfifo, receive>> /\ Copied' = Copied
<1> USE DEF device
<1>0. at \in Places
  BY DEF IInv, TypeOK
<1>1. ASSUME UNCHANGED <<rxfifo, receive, at>>
      PROVE  UNCHANGED <<rxfifo, receive>> /\ Copied' = Copied
  BY <1>1 DEF Copied
<1>2. ASSUME UNCHANGED <<rxfifo, receive>>, at.pc # "rset", at'.pc # "rset"
      PROVE  UNCHANGED <<rxfifo, receive>> /\ Copied' = Copied
  BY <1>2 DEF Copied
<1>3. CASE HostTakes \/ HostPauses \/ Timeout \/ SetTimeout \/ UNCHANGED vars
  BY <1>1, <1>3 DEF HostTakes, HostPauses, Timeout, SetTimeout, vars
<1>4. CASE \/ IsrControl \/ IsrReceiveNone \/ IsrReceiveEnd \/ IsrTransmit
           \/ IsrTransmitEnd
  BY <1>1, <1>4 DEF IsrControl, IsrReceiveNone, IsrReceiveEnd, IsrTransmit,
     IsrTransmitEnd
<1>5. CASE WriteCopy
  <2>1. at'.pc # "rset" /\ at.pc # "rset"
    BY <1>0, <1>5 DEF WriteCopy, Runs, Places
  <2> QED
    BY <1>2, <2>1, <1>5 DEF WriteCopy
<1>6. CASE WriteSet \/ ReadWait \/ WriteWait
  <2>1. at'.pc # "rset" /\ at.pc # "rset"
    BY <1>0, <1>6 DEF WriteSet, ReadWait, WriteWait, Runs, Goto, Places
  <2> QED
    BY <1>2, <2>1, <1>6 DEF WriteSet, ReadWait, WriteWait
<1>7. CASE WriteKick \/ ReadEnd \/ Close \/ SmallReadNone
  <2>1. at'.pc # "rset" /\ at.pc # "rset"
    BY <1>0, <1>7 DEF WriteKick, ReadEnd, Close, SmallReadNone, Runs, Goto,
       Return, Idle, Places
  <2> QED
    BY <1>2, <2>1, <1>7 DEF WriteKick, ReadEnd, Close, SmallReadNone
<1>8. CASE WriteCheck
  <2>1. at'.pc # "rset" /\ at.pc # "rset"
    <3>1. at' = Idle \/ at' = [at EXCEPT !.pc = "write", !.seen = 0]
      BY <1>8 DEF WriteCheck, Return
    <3> QED
      BY <1>0, <1>8, <3>1, Origin, Elsewhere DEF WriteCheck, Runs
  <2> QED
    BY <1>2, <2>1, <1>8 DEF WriteCheck
<1>9. CASE ReadCheck
  <2>1. at'.pc # "rset" /\ at.pc # "rset"
    <3>1. at' = Idle \/ at' = [at EXCEPT !.pc = "read", !.seen = 0]
      BY <1>9 DEF ReadCheck, Return
    <3> QED
      BY <1>0, <1>9, <3>1, Origin, Elsewhere DEF ReadCheck, Runs
  <2> QED
    BY <1>2, <2>1, <1>9 DEF ReadCheck
<1>10. CASE SmallWrite
  <2>1. at'.pc # "rset" /\ at.pc # "rset"
    BY <1>0, <1>10 DEF SmallWrite, Runs, Return, Idle, Places
  <2> QED
    BY <1>2, <2>1, <1>10 DEF SmallWrite
<1>11. ASSUME NEW pc \in {"write", "read", "close", "swrite", "sread"},
              Call(pc)
       PROVE  UNCHANGED <<rxfifo, receive>> /\ Copied' = Copied
  <2>1. at'.pc # "rset" /\ at.pc # "rset"
    BY <1>11 DEF Call, Runs, Idle
  <2> QED
    BY <1>2, <2>1, <1>11 DEF Call
<1> QED
  BY <1>3, <1>4, <1>5, <1>6, <1>7, <1>8, <1>9, <1>10, <1>11
     DEF Next, Isr, Body

LEMMA RxParts ==
  ASSUME IInv, Piped
  PROVE  /\ rxfifo \in Seq(Byte) /\ rx_buf \in [Index -> Byte]
         /\ rx_out \in Index /\ rx_in \in Index
         /\ Copied \in Nat /\ Copied <= Count(rx_out, rx_in)
         /\ Count(rx_out, rx_in) \in Nat
         /\ (rx_out + Copied) % BufLen \in Index
         /\ Count((rx_out + Copied) % BufLen, rx_in)
              = Count(rx_out, rx_in) - Copied
         /\ Ring(rx_buf, (rx_out + Copied) % BufLen, rx_in) \in Seq(Byte)
         /\ Len(Ring(rx_buf, (rx_out + Copied) % BufLen, rx_in))
              = Count((rx_out + Copied) % BufLen, rx_in)
<1>1. /\ rxfifo \in Seq(Byte) /\ rx_buf \in [Index -> Byte]
      /\ rx_out \in Index /\ rx_in \in Index
  BY DEF IInv, TypeOK
<1>2. Count(rx_out, rx_in) \in Nat
  BY <1>1, Between
<1>3. Copied \in Nat /\ Copied <= Count(rx_out, rx_in)
  <2>1. at.n \in Nat
    BY Fields, Numbered DEF IInv, TypeOK
  <2> QED
    BY <1>2, <2>1 DEF Copied, Piped, Copying
<1>4. PICK c \in Nat : c = Copied
  BY <1>3
<1>5. /\ (rx_out + c) % BufLen \in Index
      /\ Count((rx_out + c) % BufLen, rx_in) = Count(rx_out, rx_in) - c
  BY <1>1, <1>3, <1>4, Left
<1>6. PICK f \in Index : f = (rx_out + c) % BufLen
  BY <1>5
<1>7. /\ Ring(rx_buf, f, rx_in) \in Seq(Byte)
      /\ Len(Ring(rx_buf, f, rx_in)) = Count(f, rx_in)
  BY <1>1, RingIs
<1> QED
  BY <1>1, <1>2, <1>3, <1>4, <1>5, <1>6, <1>7

LEMMA RxStep ==
  IInv /\ IInv' /\ Piped /\ [Next]_vars => [Rx!Next]_(Rx!pipeVars)
<1> SUFFICES ASSUME IInv, IInv', Piped, [Next]_vars
             PROVE  [Rx!Next]_(Rx!pipeVars)
  OBVIOUS
<1>f. PICK f : f = (rx_out + Copied) % BufLen
  OBVIOUS
<1>r. PICK r : r = Ring(rx_buf, f, rx_in)
  OBVIOUS
<1>0. /\ rxfifo \in Seq(Byte) /\ rx_buf \in [Index -> Byte]
      /\ rx_out \in Index /\ rx_in \in Index /\ f \in Index
      /\ Count(rx_out, rx_in) \in Nat /\ Count(f, rx_in) \in Nat
      /\ Count(f, rx_in) <= Count(rx_out, rx_in)
      /\ Count(f, rx_in) < BufLen /\ BufLen \in Nat
      /\ r \in Seq(Byte) /\ Len(r) = Count(f, rx_in)
      /\ rxput \in Byte
  <2>1. /\ rxfifo \in Seq(Byte) /\ rx_buf \in [Index -> Byte]
        /\ rx_out \in Index /\ rx_in \in Index /\ f \in Index
        /\ r \in Seq(Byte) /\ Len(r) = Count(f, rx_in)
    BY <1>f, <1>r, RxParts
  <2>2. /\ Count(f, rx_in) = Count(rx_out, rx_in) - Copied
        /\ Copied \in Nat /\ Count(rx_out, rx_in) \in Nat
    BY <1>f, RxParts
  <2>3. Count(f, rx_in) \in Nat /\ Count(f, rx_in) < BufLen /\ BufLen \in Nat
    BY <2>1, Between, Numbered, JtagAssumption
  <2> QED
    BY <2>1, <2>2, <2>3 DEF IInv, TypeOK
<1>q. /\ RxQ = r \o rxfifo /\ RxQ \in Seq(Byte)
      /\ Len(RxQ) = Count(f, rx_in) + Len(rxfifo)
      /\ Len(rxfifo) \in Nat /\ Len(rxfifo) <= RxDepth /\ RxDepth \in Nat
      /\ Len(RxQ) \in Nat /\ Len(RxQ) <= RxDepth + BufLen - 1
  <2>1. RxQ = r \o rxfifo
    BY <1>f, <1>r DEF RxQ
  <2>2. RxQ \in Seq(Byte) /\ Len(RxQ) = Len(r) + Len(rxfifo)
    BY <1>0, <2>1, ConcatProperties
  <2>3. Len(rxfifo) \in Nat /\ Len(rxfifo) <= RxDepth /\ RxDepth \in Nat
    BY JtagAssumption DEF IInv, TypeOK
  <2> QED
    BY <1>0, <2>1, <2>2, <2>3
<1>1. CASE HostSends
  <2>1. /\ Len(rxfifo) < RxDepth /\ rxfifo' = Append(rxfifo, rxput)
        /\ rxput' = (rxput + 1) % Numbers
        /\ UNCHANGED <<rx_in, rx_out, rx_buf, rxgot, at>>
    BY <1>1 DEF HostSends
  <2>2. RxQ' = r \o Append(rxfifo, rxput)
    BY <1>f, <1>r, <2>1 DEF RxQ, Copied
  <2>3. RxQ' = RxQ \o Rx!From(rxput, 1)
    <3>1. /\ Append(rxfifo, rxput) = rxfifo \o <<rxput>>
          /\ <<rxput>> \in Seq(Byte)
      BY <1>0, AppendIsConcat
    <3>2. (r \o rxfifo) \o <<rxput>> = r \o (rxfifo \o <<rxput>>)
      BY <1>0, <3>1, ConcatAssociative
    <3>3. Rx!From(rxput, 1) = <<rxput>>
      BY One, <1>0, FromIs, Zenon
    <3> QED
      BY <1>q, <2>2, <3>1, <3>2, <3>3, Zenon
  <2>4. Len(RxQ) + 1 <= RxDepth + BufLen - 1
    BY <1>0, <1>q, <2>1
  <2>5. Rx!Next
    BY One, <1>q, <2>1, <2>3, <2>4, RxPuts, Zenon
  <2> QED
    BY <2>5
<1>2. CASE IsrReceive
  <2>1. /\ (rx_in + 1) % BufLen # rx_out /\ rxfifo # <<>>
        /\ rxfifo' = Tail(rxfifo)
        /\ rx_buf' = [rx_buf EXCEPT ![rx_in] = Head(rxfifo)]
        /\ rx_in' = (rx_in + 1) % BufLen
        /\ UNCHANGED <<rx_out, rxput, rxgot, at>>
    BY <1>2 DEF IsrReceive, ReceiveFull
  <2>2. Head(rxfifo) \in Byte
    BY <1>0, <2>1
  <2>3. Count(f, rx_in) + 1 < BufLen
    <3>1. Count(rx_out, rx_in) + 1 < BufLen
      BY <1>0, <2>1, NotFull
    <3> QED
      BY <1>0, <3>1
  <2>4. Ring(rx_buf', f, rx_in') = Append(r, Head(rxfifo))
    <3>1. Ring([rx_buf EXCEPT ![rx_in] = Head(rxfifo)], f,
               (rx_in + 1) % BufLen)
            = Append(Ring(rx_buf, f, rx_in), Head(rxfifo))
      BY <1>0, <2>2, <2>3, RingGets
    <3> QED
      BY <1>r, <2>1, <3>1, Zenon
  <2>5. RxQ' = Append(r, Head(rxfifo)) \o Tail(rxfifo)
    <3>1. RxQ' = Ring(rx_buf', f, rx_in') \o rxfifo'
      BY <1>f, <2>1 DEF RxQ, Copied
    <3> QED
      BY <2>1, <2>4, <3>1, Zenon
  <2>6. Append(r, Head(rxfifo)) \o Tail(rxfifo) = r \o rxfifo
    BY <1>0, <2>1, HandedOver, Zenon
  <2>7. RxQ' = RxQ
    BY <1>q, <2>5, <2>6, Zenon
  <2> QED
    BY <2>1, <2>7 DEF Rx!pipeVars, RxQ
<1>3. CASE ReadCopy
  <2>0. PICK n : n = Least(Present(rx_in, rx_out), at.left)
    OBVIOUS
  <2>1. /\ at.left \in Nat /\ Present(rx_in, rx_out) \in Nat
        /\ at \in Places /\ at.pc = "read"
    BY <1>0, <1>3, Rounded, Fields, Numbered
       DEF IInv, TypeOK, ReadCopy, Runs
  <2>2. n \in Nat /\ n <= Present(rx_in, rx_out)
    BY <2>0, <2>1, Lesser
  <2>3. /\ n <= Count(rx_out, rx_in)
        /\ n > 0 => Place(rx_out, n - 1) = rx_out + n - 1
    BY <1>0, <2>2, RoundOfReading
  <2>4. f = rx_out
    <3>1. Copied = 0
      BY <2>1 DEF Copied
    <3>2. (rx_out + 0) % BufLen = rx_out
      BY <1>0, RingAtPlace
    <3> QED
      BY <1>f, <3>1, <3>2
  <2>5. UNCHANGED <<rxfifo, rx_in, rx_out, rx_buf, rxput>>
    BY <1>3 DEF ReadCopy, device
  <2>6. CASE n > 0
    <3>1. rxgot' = rx_buf[rx_out + n - 1] /\ at'.pc = "rset" /\ at'.n = n
      BY <1>3, <2>0, <2>1, <2>6 DEF ReadCopy, Places
    <3>2. RxQ' = Ring(rx_buf, (rx_out + n) % BufLen, rx_in) \o rxfifo
      BY <2>5, <3>1 DEF RxQ, Copied
    <3>3. Ring(rx_buf, (rx_out + n) % BufLen, rx_in)
            = SubSeq(r, n + 1, Len(r))
      <4>1. Ring(rx_buf, (rx_out + n) % BufLen, rx_in)
              = SubSeq(Ring(rx_buf, rx_out, rx_in), n + 1,
                       Count(rx_out, rx_in))
        BY <1>0, <2>2, <2>3, RingTake
      <4> QED
        BY <1>r, <1>0, <2>4, <4>1
    <3>4. n \in 1..Len(r)
      BY <1>0, <2>2, <2>3, <2>4, <2>6
    <3>5. /\ n <= Len(RxQ) /\ RxQ[n] = r[n]
          /\ SubSeq(RxQ, n + 1, Len(RxQ)) = SubSeq(r, n + 1, Len(r)) \o rxfifo
      BY <1>0, <1>q, <3>4, TakenFromFirst, Zenon
    <3>6. rxgot' = RxQ[n]
      <4>1. \A i \in 1..Count(f, rx_in) : r[i] = rx_buf[Place(f, i - 1)]
        BY <1>r, <1>0, RingIs
      <4>2. r[n] = rx_buf[Place(f, n - 1)]
        BY <1>0, <3>4, <4>1, Zenon
      <4> QED
        BY <2>3, <2>4, <2>6, <3>1, <3>5, <4>2
    <3>7. RxQ' = SubSeq(RxQ, n + 1, Len(RxQ))
      BY <3>2, <3>3, <3>5, Zenon
    <3>8. Rx!Next
      BY <1>q, <2>2, <2>5, <2>6, <3>5, <3>6, <3>7, RxTakes, Zenon
    <3> QED
      BY <3>8
  <2>7. CASE ~(n > 0)
    <3>1. UNCHANGED rxgot
      BY <1>3, <2>0, <2>7 DEF ReadCopy
    <3>2. at'.pc # "rset"
      <4>1. \/ at' = [at EXCEPT !.pc = "rend"] \/ at' = Idle
            \/ at' = [at EXCEPT !.pc = "rwait", !.seen = rx_in]
        BY <1>3, <2>0, <2>7 DEF ReadCopy, Goto, Return
      <4> QED
        BY <1>0, <2>1, <4>1, Elsewhere
    <3>3. RxQ' = RxQ
      BY <2>1, <2>5, <3>2 DEF RxQ, Copied
    <3> QED
      BY <2>5, <3>1, <3>3 DEF Rx!pipeVars, RxQ
  <2> QED
    BY <2>6, <2>7
<1>4. CASE ReadSet
  <2>1. /\ at.pc = "rset" /\ rx_out' = (rx_out + at.n) % BufLen
        /\ at'.pc # "rset"
        /\ UNCHANGED <<rxfifo, rx_in, rx_buf, rxput, rxgot>>
    <3>1. at \in Places
      BY DEF IInv, TypeOK
    <3> QED
      BY <1>4, <3>1 DEF ReadSet, Runs, device, Places
  <2>2. rx_out' = f /\ Copied' = 0
    BY <1>f, <2>1 DEF Copied
  <2>3. (f + 0) % BufLen = f
    BY <1>0, RingAtPlace
  <2>4. RxQ' = RxQ
    BY <1>f, <2>1, <2>2, <2>3 DEF RxQ
  <2> QED
    BY <2>1, <2>4 DEF Rx!pipeVars, RxQ
<1>5. CASE SmallRead
  <2>1. /\ at.pc = "sread" /\ at'.pc # "rset"
        /\ rxfifo # <<>> /\ rxfifo' = Tail(rxfifo) /\ rxgot' = Head(rxfifo)
        /\ UNCHANGED <<rx_in, rx_out, rx_buf, rxput>>
    <3>1. at \in Places /\ at.pc = "sread"
      BY <1>5 DEF IInv, TypeOK, SmallRead, Runs
    <3>2. at'.pc # "rset"
      <4>1. CASE at.left > 1
        BY <1>5, <3>1, <4>1, CountedOne DEF SmallRead
      <4>2. CASE ~(at.left > 1)
        BY <1>5, <4>2 DEF SmallRead, Return, Idle
      <4> QED
        BY <4>1, <4>2
    <3> QED
      BY <1>5, <3>1, <3>2 DEF SmallRead
  <2>2. r = <<>>
    <3>1. rx_in = rx_out /\ Copied = 0
      BY <2>1 DEF Piped, Apart, Small, Copied
    <3>2. f = rx_out
      BY <1>f, <1>0, <3>1, RingAtPlace, Zenon
    <3> QED
      BY <1>r, <1>0, <3>1, <3>2, RingEmpty, Zenon
  <2>3. RxQ = rxfifo /\ RxQ' = Tail(rxfifo)
    <3>1. RxQ' = r \o Tail(rxfifo)
      BY <1>f, <1>r, <2>1 DEF RxQ, Copied
    <3>2. Tail(rxfifo) \in Seq(Byte)
      BY <1>0, <2>1
    <3> QED
      BY <1>0, <1>q, <2>2, <3>1, <3>2, ConcatEmptySeq, Zenon
  <2>4. RxQ' = SubSeq(RxQ, 1 + 1, Len(RxQ)) /\ rxgot' = RxQ[1] /\ 1 <= Len(RxQ)
    <3>1. Tail(rxfifo) = SubSeq(rxfifo, 2, Len(rxfifo)) /\ 1 + 1 = 2
      BY <1>0, <2>1, TailIsSubSeq
    <3>2. Head(rxfifo) = rxfifo[1] /\ 1 <= Len(rxfifo)
      BY <1>0, <2>1
    <3> QED
      BY <2>1, <2>3, <3>1, <3>2
  <2>5. Rx!Next
    BY One, <1>q, <2>1, <2>4, RxTakes, Zenon
  <2> QED
    BY <2>5
<1>6. CASE UNCHANGED <<rxfifo, receive>> /\ Copied' = Copied
  BY <1>6 DEF receive, Rx!pipeVars
<1>7. CASE IsrReceiveLate
  <2>1. /\ rxfifo = <<>> /\ rxfifo' = <<rxput>>
        /\ rxput' = (rxput + 1) % Numbers
        /\ UNCHANGED <<rx_in, rx_out, rx_buf, rxgot, at>>
    BY <1>7 DEF IsrReceiveLate
  <2>2. RxQ' = r \o <<rxput>>
    BY <1>f, <1>r, <2>1 DEF RxQ, Copied
  <2>3. RxQ = r
    BY <1>0, <1>q, <2>1, ConcatEmptySeq, Zenon
  <2>4. RxQ' = RxQ \o Rx!From(rxput, 1)
    <3>1. Rx!From(rxput, 1) = <<rxput>>
      BY One, <1>0, FromIs, Zenon
    <3> QED
      BY <2>2, <2>3, <3>1, Zenon
  <2>5. Len(RxQ) + 1 <= RxDepth + BufLen - 1
    <3>1. Len(rxfifo) = 0
      BY <2>1
    <3>2. RxDepth >= 1 /\ Count(f, rx_in) <= BufLen - 1
      BY <1>0, JtagAssumption
    <3> QED
      BY <1>0, <1>q, <3>1, <3>2
  <2>6. Rx!Next
    BY One, <1>q, <2>1, <2>4, <2>5, RxPuts, Zenon
  <2> QED
    BY <2>6
<1> QED
  BY <1>1, <1>2, <1>3, <1>4, <1>5, <1>6, <1>7, RxAlone

(* Program to host and host to program, whatever the sizes: the transmit    *)
(* buffer with the device's FIFO, and the FIFO with the receive buffer, are *)
(* pipes, which lose, double and overtake no byte.                          *)
THEOREM ImplementsPipes == Spec => RefinesPipes
<1>1. Init => Tx!Init /\ Rx!Init
  <2> SUFFICES ASSUME Init PROVE Tx!Init /\ Rx!Init
    OBVIOUS
  <2>1. \A buf : Ring(buf, 0, 0) = <<>> /\ Ring(buf, (0 + 0) % BufLen, 0) = <<>>
    <3>1. (0 - 0) % BufLen = 0 /\ (0 + 0) % BufLen = 0
      BY JtagAssumption
    <3> QED
      BY <3>1 DEF Ring
  <2>2. txfifo \o Ring(tx_buf, tx_out, tx_in) = <<>>
    BY <2>1 DEF Init
  <2>3. Ring(rx_buf, (rx_out + Copied) % BufLen, rx_in) \o rxfifo = <<>>
    BY <2>1 DEF Init, Copied, Idle
  <2> QED
    BY <2>2, <2>3 DEF Init, Tx!Init, Rx!Init
<1> QED
  BY <1>1, TxStep, RxStep, Invariant, Pipes, PTL
     DEF Spec, RefinesPipes, Tx!Spec, Rx!Spec
=============================================================================

---------------------------- MODULE UartRxProofs ----------------------------
(***************************************************************************)
(* For every divisor, every jitter within the tolerance and any bytes: the *)
(* receiver makes one right character of each frame, before the frame is   *)
(* over, and STATUS tells what has happened since it was written.          *)
(*                                                                         *)
(* FramesAreReceived speaks of the clock on which a character is complete; *)
(* nothing in it says how the receiver keeps in step with the sender until *)
(* then.  Synchronous does.  Age is the time since the bit on the line     *)
(* should have begun.  While the sample is ahead, what the counter still   *)
(* has to count and Age together are the middle of the bit, give or take   *)
(* the jitter of the edge that started the counter (Ahead); when it is due *)
(* Age is that middle (Due); afterwards the counter aims at the middle of  *)
(* the bit that follows (Past).  An edge is only seen on the first clock   *)
(* of a bit, so it moves the aim within the same limits.                   *)
(***************************************************************************)
EXTENDS UartRx, SequenceTheorems, TLAPS

Half == RxDivisor \div 2

\* The last sample of a frame is taken, and its character made, before the
\* stop bit is over.  With the divisor of 434 the edges may be early or late by
\* 107 clocks, a quarter of a bit.
InTolerance == 2 * Jitter + 3 <= RxDivisor - Half

Age       == RxBitTime + off - wait
Middle(t) == Half + 1 - Jitter <= t /\ t <= Half + 1 + Jitter
AtEdge    == -Jitter <= Age /\ Age <= Jitter

\* The register holds the first n bits of the frame.
Holds(n) ==
  \A i \in 1..10 :
    shift[i] = IF i <= 10 - n THEN 1 ELSE Frame(sent, stop)[i - (10 - n)]

\* Between frames, and the two clocks that notice the start bit.
Between == /\ bit = 11 /\ taken = 1
           /\ shift[1] = 0 /\ ~do_start /\ ~d_in_process
Falls   == /\ bit = 1 /\ taken = 0 /\ d_rxd = 1 /\ Age = 0
           /\ shift[1] = 0 /\ ~do_start /\ ~d_in_process
Starts  == /\ bit = 1 /\ taken = 0 /\ d_rxd = 0 /\ Age = 1
           /\ shift[1] = 0 /\ do_start /\ ~d_in_process
           /\ rx_counter = Half /\ ~rx_baud_clk_en

\* The sample of the bit on the line is ahead, due or past.
Receiving == bit <= 10 /\ taken = 0 /\ ~do_start
Ahead == /\ Receiving /\ Holds(bit - 1) /\ ~rx_baud_clk_en
         /\ Middle(rx_counter + Age) /\ (rxd_edge => AtEdge)
Due   == /\ Receiving /\ Holds(bit - 1) /\ rx_baud_clk_en /\ ~rxd_edge
         /\ rx_counter = RxDivisor /\ Middle(Age - 1)
Past  == /\ Receiving /\ Holds(bit) /\ ~rx_baud_clk_en /\ ~rxd_edge
         /\ bit < 10 /\ Middle(rx_counter + Age - RxBitTime)

\* The stop bit has been sampled.
Made == /\ bit = 10 /\ Holds(10) /\ ~do_start /\ ~rxd_edge
        /\ taken = IF d_in_process THEN 0 ELSE 1

Typed       == RxTypeOK /\ (bit < 11 => wait >= 1)
Synchronous == Between \/ Falls \/ Starts \/ Ahead \/ Due \/ Past \/ Made
-----------------------------------------------------------------------------
(* Numbers and sequences.                                                   *)

LEMMA Numbers ==
  /\ RxDivisor \in Nat /\ RxDivisor >= 1 /\ Jitter \in Nat /\ 2 * Jitter <= RxDivisor
  /\ Half \in Nat /\ 2 * Half <= RxDivisor /\ RxDivisor <= 2 * Half + 1
  /\ RxBitTime \in Nat /\ RxBitTime = RxDivisor + 1
BY RxAssumption DEF Half, RxBitTime

\* What follows holds for any two bits; it is cited for 0 and 1.
LEMMA Words ==
  ASSUME NEW S, NEW n \in Nat, NEW s \in [1..n -> S]
  PROVE  s \in Seq(S) /\ Len(s) = n
BY LenProperties, SeqDef

LEMMA Joined ==
  ASSUME NEW S, NEW s \in Seq(S), NEW t \in Seq(S)
  PROVE  /\ s \o t \in Seq(S) /\ Len(s \o t) = Len(s) + Len(t)
         /\ \A i \in 1..Len(s) : (s \o t)[i] = s[i]
         /\ \A i \in 1..Len(t) : (s \o t)[Len(s) + i] = t[i]
OBVIOUS

LEMMA Moved ==
  ASSUME NEW S, NEW s \in Seq(S), Len(s) >= 1, NEW v \in S
  PROVE  /\ Append(Tail(s), v) \in Seq(S)
         /\ Len(Append(Tail(s), v)) = Len(s)
         /\ Append(Tail(s), v)[Len(s)] = v
         /\ \A i \in 1..Len(s) - 1 : Append(Tail(s), v)[i] = s[i + 1]
<1>1. s # <<>> /\ Len(s) \in Nat
  OBVIOUS
<1>2. PICK t : t = Tail(s)
  OBVIOUS
<1>3. /\ t \in Seq(S) /\ Len(t) = Len(s) - 1
      /\ \A i \in 1..Len(s) - 1 : t[i] = s[i + 1]
  BY <1>1, <1>2
<1>4. PICK a : a = Append(t, v)
  OBVIOUS
<1>5. /\ a \in Seq(S) /\ Len(a) = Len(t) + 1 /\ a[Len(t) + 1] = v
      /\ \A i \in 1..Len(t) : a[i] = t[i]
  BY <1>3, <1>4
<1> QED
  BY <1>1, <1>2, <1>3, <1>4, <1>5

LEMMA ThreeJoined ==
  ASSUME NEW S, NEW z \in Seq(S), NEW c \in Seq(S), NEW y \in Seq(S)
  PROVE  /\ (z \o c) \o y \in Seq(S)
         /\ Len((z \o c) \o y) = Len(z) + Len(c) + Len(y)
         /\ \A i \in 1..Len(z) : ((z \o c) \o y)[i] = z[i]
         /\ \A i \in 1..Len(c) : ((z \o c) \o y)[Len(z) + i] = c[i]
         /\ \A i \in 1..Len(y) : ((z \o c) \o y)[Len(z) + Len(c) + i] = y[i]
<1>1. /\ z \o c \in Seq(S) /\ Len(z \o c) = Len(z) + Len(c)
      /\ \A i \in 1..Len(z) : (z \o c)[i] = z[i]
      /\ \A i \in 1..Len(c) : (z \o c)[Len(z) + i] = c[i]
  BY Joined
<1>2. PICK u \in Seq(S) : u = z \o c
  BY <1>1
<1>3. /\ u \o y \in Seq(S) /\ Len(u \o y) = Len(u) + Len(y)
      /\ \A i \in 1..Len(u) : (u \o y)[i] = u[i]
      /\ \A i \in 1..Len(y) : (u \o y)[Len(u) + i] = y[i]
  BY Joined
<1>4. Len(u) = Len(z) + Len(c)
  BY <1>1, <1>2
<1>5. /\ \A i \in 1..Len(z) : i \in 1..Len(u)
      /\ \A i \in 1..Len(c) : Len(z) + i \in 1..Len(u)
  BY <1>4
<1> QED
  BY <1>1, <1>2, <1>3, <1>4, <1>5

\* The lengths are bounded from both sides: the provers do not take an equation
\* for a length well.
LEMMA FrameOf ==
  ASSUME NEW S, NEW o \in S, NEW c \in Seq(S), NEW s \in S,
         Len(c) <= 8, Len(c) >= 8
  PROVE  LET f == <<o>> \o c \o <<s>>
         IN  /\ f \in Seq(S) /\ Len(f) = 10 /\ f[1] = o /\ f[10] = s
             /\ \A i \in 2..9 : f[i] = c[i - 1]
<1>1. <<o>> \in Seq(S) /\ <<s>> \in Seq(S)
  OBVIOUS
<1>2. PICK z \in Seq(S) : z = <<o>>
  BY <1>1
<1>3. PICK y \in Seq(S) : y = <<s>>
  BY <1>1
<1>4. /\ Len(z) \in Nat /\ Len(z) >= 1 /\ Len(z) <= 1 /\ z[1] = o
      /\ Len(y) \in Nat /\ Len(y) >= 1 /\ Len(y) <= 1 /\ y[1] = s
      /\ Len(c) \in Nat
  BY <1>2, <1>3
<1>5. PICK f \in Seq(S) : f = (z \o c) \o y
  BY ThreeJoined
<1>6. /\ Len(f) = Len(z) + Len(c) + Len(y)
      /\ \A i \in 1..Len(z) : f[i] = z[i]
      /\ \A i \in 1..Len(c) : f[Len(z) + i] = c[i]
      /\ \A i \in 1..Len(y) : f[Len(z) + Len(c) + i] = y[i]
  BY <1>5, ThreeJoined
<1>7. Len(f) = 10 /\ f[1] = o
  BY <1>4, <1>6
<1>8. f[10] = s
  <2>1. 1 \in 1..Len(y) /\ Len(z) + Len(c) + 1 = 10
    BY <1>4
  <2> QED
    BY <1>4, <1>6, <2>1
<1>9. \A i \in 2..9 : f[i] = c[i - 1]
  <2>1. \A i \in 2..9 : i - 1 \in 1..Len(c) /\ Len(z) + (i - 1) = i
    BY <1>4
  <2> QED
    BY <1>6, <2>1
<1>10. f = <<o>> \o c \o <<s>>
  BY <1>2, <1>3, <1>5, Zenon
<1> QED
  BY <1>7, <1>8, <1>9, <1>10

LEMMA FrameIs ==
  ASSUME NEW S, 0 \in S, NEW c \in [1..8 -> S], NEW s \in S
  PROVE  /\ Frame(c, s) \in [1..10 -> S]
         /\ Frame(c, s)[1] = 0 /\ Frame(c, s)[10] = s
         /\ \A i \in 2..9 : Frame(c, s)[i] = c[i - 1]
<1>1. c \in Seq(S) /\ Len(c) <= 8 /\ Len(c) >= 8
  <2>1. c \in Seq(S) /\ Len(c) = 8
    BY Words
  <2> QED
    BY <2>1
<1>2. PICK f : f = Frame(c, s)
  OBVIOUS
<1>3. /\ f \in Seq(S) /\ Len(f) = 10 /\ f[1] = 0 /\ f[10] = s
      /\ \A i \in 2..9 : f[i] = c[i - 1]
  BY <1>1, <1>2, FrameOf DEF Frame
<1>4. f \in [1..10 -> S]
  BY <1>3, LenProperties
<1> QED
  BY <1>2, <1>3, <1>4

\* An operator of its own, which the provers need not look into.
Shifted(s, v) == Append(Tail(s), v)

LEMMA ShiftedIs ==
  ASSUME NEW S, NEW s \in [1..10 -> S], NEW v \in S
  PROVE  /\ Shifted(s, v) \in [1..10 -> S] /\ Shifted(s, v)[10] = v
         /\ \A i \in 1..9 : Shifted(s, v)[i] = s[i + 1]
<1>1. s \in Seq(S) /\ Len(s) = 10
  BY Words
<1>2. PICK r \in Seq(S) : r = s /\ Len(r) = 10
  BY <1>1
<1>3. PICK t : t = Append(Tail(r), v)
  OBVIOUS
<1>4. /\ t \in Seq(S) /\ Len(t) = Len(r) /\ t[Len(r)] = v
      /\ \A i \in 1..Len(r) - 1 : t[i] = r[i + 1]
  <2>1. Len(r) >= 1
    BY <1>2
  <2> QED
    BY <1>3, <2>1, Moved
<1>5. t \in [1..10 -> S]
  BY <1>2, <1>4, LenProperties
<1>6. t = Shifted(s, v)
  BY <1>2, <1>3 DEF Shifted
<1> QED
  BY <1>2, <1>4, <1>5, <1>6

LEMMA DataIs ==
  ASSUME NEW S, NEW s \in [1..10 -> S]
  PROVE  /\ SubSeq(s, 2, 9) \in [1..8 -> S]
         /\ \A i \in 1..8 : SubSeq(s, 2, 9)[i] = s[i + 1]
<1>1. s \in Seq(S) /\ Len(s) = 10
  BY Words
<1>2. PICK d : d = SubSeq(s, 2, 9)
  OBVIOUS
<1>3. /\ d \in Seq(S) /\ Len(d) = 8
      /\ \A i \in 1..8 : d[i] = s[i + 1]
  BY <1>1, <1>2
<1>4. d \in [1..8 -> S]
  BY <1>3
<1> QED
  BY <1>2, <1>3, <1>4
-----------------------------------------------------------------------------
(* The sender and the types.                                                *)

\* What Next does, whichever of its three forms it takes.
LEMMA ClockIs ==
  ASSUME RxNext
  PROVE  \E read, clear \in BOOLEAN :
           (read => rx_char_ready) /\ Clock(read, clear)
BY DEF RxNext, Wait, Read, Clear

LEMMA Edges ==
  ASSUME NEW o \in -Jitter..Jitter, NEW p \in -Jitter..Jitter, NEW w,
         w = RxBitTime - o + p
  PROVE  w \in 0..RxBitTime + 2 * Jitter /\ w >= 1 /\ RxBitTime + p - w = o
BY Numbers

\* A bit begins no further from its time than the jitter, and then gets older
\* until its edge; the stop bit of a break does not.
LEMMA SenderIs ==
  ASSUME Typed, Sender
  PROVE  /\ sent' \in RxChars /\ stop' \in {0, 1} /\ bit' \in 1..11
         /\ wait' \in 0..RxBitTime + 2 * Jitter /\ off' \in -Jitter..Jitter
         /\ bit' < 11 => wait' >= 1
         /\ \/ /\ bit = 11 /\ bit' = 1 /\ Age' = 0
            \/ /\ bit = 11 /\ UNCHANGED <<sent, stop, bit>>
            \/ /\ bit < 11 /\ UNCHANGED <<sent, stop, bit>> /\ Age' = Age + 1
            \/ /\ bit = 10 /\ UNCHANGED <<sent, stop, bit>> /\ Age' = Age
               /\ Age >= RxDivisor - Jitter
            \/ /\ bit < 11 /\ UNCHANGED <<sent, stop>> /\ bit' = bit + 1
               /\ AtEdge' /\ Age' = Age - RxDivisor
               /\ Age >= RxDivisor - Jitter
<1>1. /\ sent \in RxChars /\ stop \in {0, 1} /\ bit \in 1..11
      /\ wait \in 0..RxBitTime + 2 * Jitter /\ off \in -Jitter..Jitter
      /\ bit < 11 => wait >= 1
  BY DEF Typed, RxTypeOK
<1>2. CASE StartFrame
  <2>1. /\ bit = 11 /\ bit' = 1 /\ sent' \in RxChars /\ stop' \in {0, 1}
        /\ off' \in -Jitter..Jitter /\ wait' = RxBitTime + off'
    BY <1>2 DEF StartFrame
  <2>2. /\ wait' \in 0..RxBitTime + 2 * Jitter /\ wait' >= 1
        /\ RxBitTime + off' - wait' = 0
    <3>1. 0 \in -Jitter..Jitter /\ wait' = RxBitTime - 0 + off'
      BY <2>1, Numbers
    <3> QED
      BY <2>1, <3>1, Edges
  <2>3. Age' = 0
    BY <2>2 DEF Age
  <2> QED
    BY <2>1, <2>2, <2>3
<1>3. CASE Hold
  BY <1>1, <1>3, Numbers DEF Hold, Age
<1>4. CASE HoldLow
  BY <1>1, <1>4, Numbers DEF HoldLow, sender, Age
<1>5. CASE NextBit
  <2>1. /\ bit \in 1..10 /\ bit' = bit + 1 /\ UNCHANGED <<sent, stop>>
        /\ wait = 1 /\ off' \in -Jitter..Jitter
        /\ wait' = RxBitTime - off + off'
    BY <1>1, <1>5 DEF NextBit, Until
  <2>2. /\ wait' \in 0..RxBitTime + 2 * Jitter /\ wait' >= 1
        /\ RxBitTime + off' - wait' = off
    BY <1>1, <2>1, Edges, Numbers
  <2>3. Age' = off
    BY <2>2 DEF Age
  <2>4. AtEdge'
    BY <1>1, <2>3, Numbers DEF AtEdge
  <2>5. Age = RxDivisor + off /\ Age >= RxDivisor - Jitter
    BY <1>1, <2>1, Numbers DEF Age
  <2>6. Age' = Age - RxDivisor
    BY <1>1, <2>3, <2>5, Numbers
  <2> QED
    BY <1>1, <2>1, <2>2, <2>4, <2>5, <2>6
<1> QED
  BY <1>2, <1>3, <1>4, <1>5 DEF Sender

LEMMA LineIs ==
  ASSUME RxTypeOK
  PROVE  /\ sent \in [1..8 -> {0, 1}]
         /\ Frame(sent, stop) \in [1..10 -> {0, 1}]
         /\ Frame(sent, stop)[1] = 0 /\ Frame(sent, stop)[10] = stop
         /\ \A i \in 2..9 : Frame(sent, stop)[i] = sent[i - 1]
         /\ rxd \in {0, 1}
<1>1. sent \in [1..8 -> {0, 1}] /\ stop \in {0, 1} /\ bit \in 1..11
  BY RxAssumption DEF RxTypeOK
<1>2. /\ Frame(sent, stop) \in [1..10 -> {0, 1}]
      /\ Frame(sent, stop)[1] = 0 /\ Frame(sent, stop)[10] = stop
      /\ \A i \in 2..9 : Frame(sent, stop)[i] = sent[i - 1]
  <2>1. PICK B : B = {0, 1}
    OBVIOUS
  <2>2. 0 \in B /\ sent \in [1..8 -> B] /\ stop \in B
    BY <1>1, <2>1
  <2>3. /\ Frame(sent, stop) \in [1..10 -> B]
        /\ Frame(sent, stop)[1] = 0 /\ Frame(sent, stop)[10] = stop
        /\ \A i \in 2..9 : Frame(sent, stop)[i] = sent[i - 1]
    BY <2>2, FrameIs
  <2> QED
    BY <2>1, <2>3
<1> QED
  BY <1>1, <1>2 DEF rxd

\* What the registers of one clock become, the history left out.
LEMMA RegistersKeep ==
  ASSUME Typed, NEW read \in BOOLEAN, NEW clear \in BOOLEAN,
         Clock(read, clear)
  PROVE  /\ rx_counter' \in 0..RxDivisor
         /\ {rx_baud_clk_en', do_start', d_in_process'} \subseteq BOOLEAN
         /\ d_rxd' \in {0, 1} /\ shift' \in [1..10 -> {0, 1}]
         /\ rx_data' \in [1..8 -> {0, 1}]
         /\ {rx_char_ready', rx_overrun', framing_error', break_detect'}
              \subseteq BOOLEAN
<1>1. rx_counter' \in 0..RxDivisor
  BY Numbers DEF Clock, Baud, Half, Typed, RxTypeOK
<1>2. /\ {rx_baud_clk_en', do_start', d_in_process'} \subseteq BOOLEAN
      /\ d_rxd' \in {0, 1}
  BY LineIs DEF Clock, DoStart, in_process, Typed
<1>3. shift' \in [1..10 -> {0, 1}]
  <2>1. CASE shift' = [i \in 1..10 |-> 1]
    BY <2>1
  <2>2. CASE shift' = Shifted(shift, rxd)
    BY <2>2, LineIs, ShiftedIs DEF Typed, RxTypeOK
  <2>3. CASE shift' = shift
    BY <2>3 DEF Typed, RxTypeOK
  <2> QED
    BY <2>1, <2>2, <2>3 DEF Clock, Shift, Shifted
<1>4. rx_data' \in [1..8 -> {0, 1}]
  BY DataIs DEF Clock, Status, raw_data_in, Typed, RxTypeOK
<1>5. {rx_char_ready', rx_overrun', framing_error', break_detect'}
        \subseteq BOOLEAN
  BY DEF Clock, Status, CharReady, RxOverrun, got_new_char, in_process,
         is_framing_error, is_break, Typed, RxTypeOK
<1> QED
  BY <1>1, <1>2, <1>3, <1>4, <1>5
-----------------------------------------------------------------------------
(* In step with the sender.                                                 *)

LEMMA AgeIs ==
  ASSUME Typed
  PROVE  Age \in Int /\ (bit < 11 => Age <= RxDivisor + Jitter)
BY Numbers DEF Typed, RxTypeOK, Age

\* The early samples leave room before the next edge.
LEMMA Room ==
  ASSUME InTolerance
  PROVE  /\ Half >= 2 * Jitter + 2
         /\ RxDivisor - Jitter >= Half + Jitter + 3
BY Numbers DEF InTolerance

\* The design is within the tolerance with any jitter up to a quarter of a bit.
LEMMA Design == RxDivisor = 434 /\ Jitter <= 107 => InTolerance
BY Numbers DEF InTolerance, Half

LEMMA NoEdge ==
  ASSUME Typed, RxNext, UNCHANGED <<sent, stop, bit>>
  PROVE  ~rxd_edge'
<1>1. rxd' = rxd
  BY DEF rxd
<1>2. d_rxd' = rxd
  BY ClockIs DEF Clock
<1> QED
  BY <1>1, <1>2 DEF rxd_edge

LEMMA RegistersAre ==
  ASSUME NEW read, NEW clear, Clock(read, clear)
  PROVE  /\ rx_counter' = IF rxd_edge THEN Half
                       ELSE IF rx_counter = 0 THEN RxDivisor ELSE rx_counter - 1
         /\ rx_baud_clk_en' <=> (rx_counter = 0 /\ ~rxd_edge)
         /\ d_rxd' = rxd
         /\ do_start' <=> (~in_process /\ rxd_falling)
         /\ shift' = IF do_start THEN [i \in 1..10 |-> 1]
                     ELSE IF rx_baud_clk_en /\ in_process
                          THEN Shifted(shift, rxd) ELSE shift
         /\ d_in_process' <=> in_process
         /\ taken' = (IF bit = 11 /\ bit' = 1 THEN 0 ELSE taken)
                       + (IF got_new_char THEN 1 ELSE 0)
BY DEF Clock, Baud, Half, DoStart, Shift, Shifted, History

\* While it takes in a frame.
LEMMA InFrame ==
  ASSUME Typed, Receiving, RxNext, NEW n \in 0..9, Holds(n)
  PROVE  /\ in_process /\ ~do_start' /\ taken' = 0 /\ d_in_process'
         /\ ~rx_baud_clk_en => shift' = shift
         /\ rx_baud_clk_en => shift' = Shifted(shift, rxd)
         /\ rx_counter' = IF rxd_edge THEN Half
                       ELSE IF rx_counter = 0 THEN RxDivisor ELSE rx_counter - 1
         /\ rx_baud_clk_en' <=> (rx_counter = 0 /\ ~rxd_edge)
<1>1. in_process
  BY DEF Holds, in_process
<1>2. PICK read, clear \in BOOLEAN : Clock(read, clear)
  BY ClockIs
<1>3. ~got_new_char /\ bit # 11
  BY <1>1 DEF got_new_char, Receiving, Typed, RxTypeOK
<1>4. taken' = 0
  BY <1>2, <1>3, RegistersAre DEF Receiving
<1> QED
  BY <1>1, <1>2, <1>4, RegistersAre DEF Receiving

LEMMA SameBits ==
  ASSUME NEW n \in 0..10, Holds(n), shift' = shift, UNCHANGED <<sent, stop>>
  PROVE  Holds(n)'
BY DEF Holds

LEMMA OneMoreBit ==
  ASSUME Typed, bit \in 1..10, Holds(bit - 1), shift' = Shifted(shift, rxd),
         UNCHANGED <<sent, stop, bit>>
  PROVE  Holds(bit)'
<1>1. rxd = Frame(sent, stop)[bit]
  BY DEF rxd
<1>2. shift \in [1..10 -> {0, 1}]
  BY DEF Typed, RxTypeOK
<1>3. shift'[10] = rxd /\ \A i \in 1..9 : shift'[i] = shift[i + 1]
  <2>1. PICK B : B = {0, 1}
    OBVIOUS
  <2>2. shift \in [1..10 -> B] /\ rxd \in B
    BY <1>2, <2>1, LineIs DEF Typed
  <2> QED
    BY <2>2, ShiftedIs
<1>4. PICK f : f = Frame(sent, stop)
  OBVIOUS
<1>5. PICK b \in 1..10 : b = bit
  OBVIOUS
<1>6. \A i \in 1..10 :
        shift[i] = IF i <= 10 - (b - 1) THEN 1 ELSE f[i - (10 - (b - 1))]
  BY <1>4, <1>5 DEF Holds
<1>7. ASSUME NEW i \in 1..10
      PROVE  shift'[i] = IF i <= 10 - b THEN 1 ELSE f[i - (10 - b)]
  <2>1. CASE i = 10
    <3>1. ~(i <= 10 - b) /\ i - (10 - b) = b
      BY <2>1
    <3>2. shift'[i] = f[b]
      BY <1>1, <1>3, <1>4, <1>5, <2>1
    <3> QED
      BY <3>1, <3>2
  <2>2. CASE i \in 1..9
    <3>1. i + 1 \in 1..10 /\ (i + 1 <= 10 - (b - 1) <=> i <= 10 - b)
          /\ (i + 1) - (10 - (b - 1)) = i - (10 - b)
      BY <2>2
    <3>2. shift[i + 1] = IF i + 1 <= 10 - (b - 1) THEN 1
                         ELSE f[(i + 1) - (10 - (b - 1))]
      BY <1>6, <3>1
    <3>3. shift'[i] = shift[i + 1]
      BY <1>3, <2>2
    <3>4. CASE i <= 10 - b
      BY <3>1, <3>2, <3>3, <3>4
    <3>5. CASE ~(i <= 10 - b)
      <4>1. PICK j : j = i - (10 - b)
        OBVIOUS
      <4>2. f[(i + 1) - (10 - (b - 1))] = f[j]
        BY <3>1, <4>1
      <4> QED
        BY <3>1, <3>2, <3>3, <3>5, <4>1, <4>2
    <3> QED
      BY <3>4, <3>5
  <2>3. i = 10 \/ i \in 1..9
    OBVIOUS
  <2> QED
    BY <2>1, <2>2, <2>3, Zenon
<1>8. Frame(sent, stop)' = f /\ bit' = b
  BY <1>4, <1>5 DEF Frame
<1> QED
  BY <1>7, <1>8 DEF Holds

LEMMA FromBetween ==
  ASSUME Typed, Between, RxNext
  PROVE  Between' \/ Falls'
<1>1. PICK read, clear \in BOOLEAN : Clock(read, clear)
  BY ClockIs
<1>2. rxd = 1 /\ ~in_process /\ ~got_new_char /\ ~rxd_falling
  BY DEF Between, rxd, in_process, got_new_char, rxd_falling
<1>3. /\ d_rxd' = 1 /\ ~do_start' /\ ~d_in_process' /\ shift' = shift
      /\ taken' = IF bit' = 1 THEN 0 ELSE 1
  BY <1>1, <1>2, RegistersAre DEF Between
<1>4. \/ bit' = 1 /\ Age' = 0
      \/ bit' = 11
  BY <1>1, SenderIs DEF Clock, Between
<1> QED
  BY <1>3, <1>4 DEF Between, Falls

LEMMA FromFalls ==
  ASSUME InTolerance, Typed, Falls, RxNext
  PROVE  Starts'
<1>1. PICK read, clear \in BOOLEAN : Clock(read, clear)
  BY ClockIs
<1>2. rxd = 0 /\ rxd_edge /\ rxd_falling /\ ~in_process /\ ~got_new_char
  BY LineIs DEF Falls, Typed, rxd, rxd_edge, rxd_falling, in_process,
                got_new_char
<1>3. /\ d_rxd' = 0 /\ do_start' /\ ~d_in_process' /\ shift' = shift
      /\ taken' = 0 /\ rx_counter' = Half /\ ~rx_baud_clk_en'
  BY <1>1, <1>2, RegistersAre DEF Falls
<1>4. bit' = 1 /\ Age' = 1
  BY <1>1, SenderIs, Room, Numbers DEF Clock, Falls
<1> QED
  BY <1>3, <1>4 DEF Falls, Starts

LEMMA FromStarts ==
  ASSUME InTolerance, Typed, Starts, RxNext
  PROVE  Ahead'
<1>1. PICK read, clear \in BOOLEAN : Clock(read, clear)
  BY ClockIs
<1>2. rxd = 0 /\ ~rxd_edge /\ ~rxd_falling /\ ~got_new_char
  BY LineIs DEF Starts, Typed, rxd, rxd_edge, rxd_falling, got_new_char
<1>3. Half >= 2
  BY Room, Numbers
<1>4. /\ ~do_start' /\ shift' = [i \in 1..10 |-> 1] /\ taken' = 0
      /\ rx_counter' = Half - 1 /\ ~rx_baud_clk_en'
  BY <1>1, <1>2, <1>3, RegistersAre DEF Starts
<1>5. bit' = 1 /\ Age' = 2 /\ UNCHANGED <<sent, stop, bit>>
  BY <1>1, SenderIs, Room, Numbers DEF Clock, Starts
<1>6. ~rxd_edge'
  BY <1>5, NoEdge
<1>7. Holds(bit - 1)'
  BY <1>4, <1>5 DEF Holds
<1>8. Middle(rx_counter + Age)'
  BY <1>4, <1>5, Numbers DEF Middle, Half
<1> QED
  BY <1>4, <1>5, <1>6, <1>7, <1>8 DEF Ahead, Receiving

\* A bit that is not old enough lasts.
LEMMA SameBit ==
  ASSUME InTolerance, Typed, bit \in 1..10, RxNext, Age <= Half + Jitter + 2
  PROVE  /\ UNCHANGED <<sent, stop, bit>> /\ Age' = Age + 1 /\ ~rxd_edge'
<1>1. PICK read, clear \in BOOLEAN : Clock(read, clear)
  BY ClockIs
<1>2. ~(Age >= RxDivisor - Jitter)
  BY Room, Numbers, AgeIs
<1>3. UNCHANGED <<sent, stop, bit>> /\ Age' = Age + 1
  BY <1>1, <1>2, SenderIs DEF Clock
<1> QED
  BY <1>3, NoEdge

LEMMA FromAhead ==
  ASSUME InTolerance, Typed, Ahead, RxNext
  PROVE  Ahead' \/ Due'
<1>1. /\ bit \in 1..10 /\ bit - 1 \in 0..9 /\ Receiving /\ Holds(bit - 1)
      /\ ~rx_baud_clk_en /\ rx_counter \in 0..RxDivisor
  BY DEF Ahead, Receiving, Typed, RxTypeOK
<1>2. /\ ~do_start' /\ taken' = 0 /\ shift' = shift
      /\ rx_counter' = IF rxd_edge THEN Half
                    ELSE IF rx_counter = 0 THEN RxDivisor ELSE rx_counter - 1
      /\ rx_baud_clk_en' <=> (rx_counter = 0 /\ ~rxd_edge)
  BY <1>1, InFrame
<1>3. Age \in Int /\ Age <= Half + Jitter + 2
  BY <1>1, AgeIs, Room, Numbers DEF Ahead, Middle, AtEdge
<1>4. UNCHANGED <<sent, stop, bit>> /\ Age' = Age + 1 /\ ~rxd_edge'
  BY <1>1, <1>3, SameBit
<1>5. Receiving' /\ Holds(bit - 1)'
  BY <1>1, <1>2, <1>4 DEF Receiving, Holds
<1>6. CASE rxd_edge
  <2>1. Middle(rx_counter + Age)'
    BY <1>2, <1>3, <1>4, <1>6, Numbers DEF Ahead, AtEdge, Middle, Half
  <2> QED
    BY <1>2, <1>4, <1>5, <1>6, <2>1 DEF Ahead
<1>7. CASE ~rxd_edge /\ rx_counter = 0
  <2>1. Middle(Age - 1)'
    BY <1>3, <1>4, <1>7, Numbers DEF Ahead, Middle, Half
  <2> QED
    BY <1>2, <1>4, <1>5, <1>7, <2>1 DEF Due
<1>8. CASE ~rxd_edge /\ rx_counter # 0
  <2>1. Middle(rx_counter + Age)'
    BY <1>1, <1>2, <1>3, <1>4, <1>8, Numbers DEF Ahead, Middle, Half
  <2> QED
    BY <1>2, <1>4, <1>5, <1>8, <2>1 DEF Ahead
<1> QED
  BY <1>6, <1>7, <1>8

LEMMA FromDue ==
  ASSUME InTolerance, Typed, Due, RxNext
  PROVE  Past' \/ Made'
<1>1. /\ bit \in 1..10 /\ bit - 1 \in 0..9 /\ Receiving /\ Holds(bit - 1)
      /\ rx_baud_clk_en /\ ~rxd_edge /\ rx_counter = RxDivisor
  BY DEF Due, Receiving, Typed, RxTypeOK
<1>2. /\ ~do_start' /\ taken' = 0 /\ shift' = Shifted(shift, rxd)
      /\ rx_counter' = RxDivisor - 1 /\ ~rx_baud_clk_en' /\ d_in_process'
  BY <1>1, InFrame, Numbers
<1>3. Age \in Int /\ Age <= Half + Jitter + 2
  BY AgeIs, Numbers DEF Due, Middle
<1>4. UNCHANGED <<sent, stop, bit>> /\ Age' = Age + 1 /\ ~rxd_edge'
  BY <1>1, <1>3, SameBit
<1>5. Holds(bit)'
  BY <1>1, <1>2, <1>4, OneMoreBit
<1>6. CASE bit < 10
  <2>1. Middle(rx_counter + Age - RxBitTime)'
    BY <1>2, <1>3, <1>4, Numbers DEF Due, Middle, Half, RxBitTime
  <2>2. Receiving'
    BY <1>1, <1>2, <1>4 DEF Receiving
  <2> QED
    BY <1>2, <1>4, <1>5, <1>6, <2>1, <2>2 DEF Past
<1>7. CASE bit = 10
  BY <1>2, <1>4, <1>5, <1>7 DEF Made
<1> QED
  BY <1>1, <1>6, <1>7

LEMMA FromPast ==
  ASSUME InTolerance, Typed, Past, RxNext
  PROVE  Past' \/ Ahead'
<1>1. /\ bit \in 1..9 /\ bit \in 0..9 /\ Receiving /\ Holds(bit)
      /\ ~rx_baud_clk_en /\ ~rxd_edge /\ rx_counter \in 0..RxDivisor
  BY DEF Past, Receiving, Typed, RxTypeOK
<1>2. Age \in Int /\ Age <= RxDivisor + Jitter
  BY <1>1, AgeIs
<1>3. rx_counter # 0
  BY <1>1, <1>2, Room, Numbers DEF Past, Middle
<1>4. /\ ~do_start' /\ taken' = 0 /\ shift' = shift
      /\ rx_counter' = rx_counter - 1 /\ ~rx_baud_clk_en'
  BY <1>1, <1>3, InFrame
<1>5. PICK read, clear \in BOOLEAN : Clock(read, clear)
  BY ClockIs
<1>6. CASE UNCHANGED <<sent, stop, bit>> /\ Age' = Age + 1
  <2>1. Receiving' /\ Holds(bit)' /\ ~rxd_edge'
    BY <1>1, <1>4, <1>6, NoEdge DEF Receiving, Holds
  <2>2. Middle(rx_counter + Age - RxBitTime)'
    BY <1>1, <1>2, <1>4, <1>6, Numbers DEF Past, Middle, Half, RxBitTime
  <2> QED
    BY <1>1, <1>4, <1>6, <2>1, <2>2 DEF Past
<1>7. CASE UNCHANGED <<sent, stop>> /\ bit' = bit + 1 /\ AtEdge'
           /\ Age' = Age - RxDivisor
  <2>1. bit' - 1 = bit /\ Receiving'
    BY <1>1, <1>4, <1>7 DEF Receiving
  <2>2. Holds(bit - 1)'
    BY <1>1, <1>4, <1>7, <2>1 DEF Holds
  <2>3. Middle(rx_counter + Age)'
    BY <1>1, <1>2, <1>4, <1>7, Numbers DEF Past, Middle, Half, RxBitTime
  <2> QED
    BY <1>4, <1>7, <2>1, <2>2, <2>3 DEF Ahead
<1> QED
  BY <1>1, <1>5, <1>6, <1>7, SenderIs DEF Clock

LEMMA FromMade ==
  ASSUME Typed, Made, RxNext
  PROVE  Made' \/ Between'
<1>1. PICK read, clear \in BOOLEAN : Clock(read, clear)
  BY ClockIs
<1>2. shift[1] = 0 /\ ~in_process
  BY LineIs DEF Made, Holds, Typed, in_process
<1>3. ~rxd_falling /\ got_new_char = d_in_process
  BY <1>2, LineIs DEF Made, Typed, rxd_falling, rxd_edge, got_new_char, RxTypeOK
<1>4. /\ ~do_start' /\ ~d_in_process' /\ shift' = shift /\ taken' = 1
  BY <1>1, <1>2, <1>3, RegistersAre DEF Made
<1>5. CASE UNCHANGED <<sent, stop, bit>>
  BY <1>4, <1>5, NoEdge, SameBits DEF Made
<1>6. CASE bit' = 11
  BY <1>2, <1>4, <1>6 DEF Between
<1> QED
  BY <1>1, <1>5, <1>6, SenderIs DEF Clock, Made

LEMMA InStep ==
  ASSUME InTolerance, Typed, Synchronous, RxNext
  PROVE  Synchronous'
BY FromBetween, FromFalls, FromStarts, FromAhead, FromDue, FromPast, FromMade
DEF Synchronous

LEMMA TypesKept ==
  ASSUME Typed, RxNext, taken' \in 0..1
  PROVE  Typed'
<1>1. PICK read, clear \in BOOLEAN : Clock(read, clear)
  BY ClockIs
<1>2. /\ rx_counter' \in 0..RxDivisor
      /\ {rx_baud_clk_en', do_start', d_in_process'} \subseteq BOOLEAN
      /\ d_rxd' \in {0, 1} /\ shift' \in [1..10 -> {0, 1}]
      /\ rx_data' \in [1..8 -> {0, 1}]
      /\ {rx_char_ready', rx_overrun', framing_error', break_detect'}
           \subseteq BOOLEAN
  BY <1>1, RegistersKeep
<1>3. /\ sent' \in RxChars /\ stop' \in {0, 1} /\ bit' \in 1..11
      /\ wait' \in 0..RxBitTime + 2 * Jitter /\ off' \in -Jitter..Jitter
      /\ bit' < 11 => wait' >= 1
  BY <1>1, SenderIs DEF Clock
<1>4. told' \subseteq {"overrun", "damaged", "break"}
  BY <1>1 DEF Clock, History, Happens, Typed, RxTypeOK
<1> QED
  BY <1>2, <1>3, <1>4 DEF Typed, RxTypeOK, RxBitTime

LEMMA TakenIs ==
  ASSUME Synchronous
  PROVE  taken \in 0..1 /\ (bit = 11 => taken = 1)
BY DEF Synchronous, Between, Falls, Starts, Ahead, Due, Past, Made, Receiving

LEMMA AtFirst ==
  ASSUME RxInit
  PROVE  Typed /\ Synchronous
<1>1. Typed
  <2>1. /\ sent \in RxChars /\ stop \in {0, 1} /\ bit \in 1..11
        /\ wait \in 0..RxBitTime + 2 * Jitter /\ off \in -Jitter..Jitter
        /\ rx_counter \in 0..RxDivisor /\ bit = 11 /\ taken \in 0..1
    BY Numbers DEF RxInit
  <2>2. /\ {rx_baud_clk_en, do_start, d_in_process} \subseteq BOOLEAN
        /\ {rx_char_ready, rx_overrun, framing_error, break_detect}
             \subseteq BOOLEAN
        /\ d_rxd \in {0, 1} /\ shift \in [1..10 -> {0, 1}]
        /\ rx_data \in [1..8 -> {0, 1}]
        /\ told \subseteq {"overrun", "damaged", "break"}
    BY DEF RxInit
  <2> QED
    BY <2>1, <2>2 DEF Typed, RxTypeOK
<1>2. Between
  BY DEF RxInit, Between
<1> QED
  BY <1>1, <1>2 DEF Synchronous
-----------------------------------------------------------------------------
(* The character, and what STATUS says of it.                               *)

\* The two registers that notice the end of a frame do so in its stop bit, with
\* the whole frame in the shift register.
LEMMA NewChar ==
  ASSUME Typed, Synchronous, got_new_char
  PROVE  /\ bit = 10 /\ \A i \in 1..10 : shift[i] = Frame(sent, stop)[i]
<1>1. shift[1] # 1 /\ d_in_process
  BY DEF got_new_char, in_process
<1>2. ASSUME NEW n \in 0..9, Holds(n)
      PROVE  FALSE
  BY <1>1, <1>2 DEF Holds
<1>3. ~Between /\ ~Falls /\ ~Starts
  BY <1>1 DEF Between, Falls, Starts
<1>4. ~Ahead /\ ~Due
  <2>1. bit <= 10 => bit - 1 \in 0..9
    BY DEF Typed, RxTypeOK
  <2> QED
    BY <1>2, <2>1 DEF Ahead, Due, Receiving
<1>5. ~Past
  <2>1. bit < 10 => bit \in 0..9
    BY DEF Typed, RxTypeOK
  <2> QED
    BY <1>2, <2>1 DEF Past
<1>6. bit = 10 /\ Holds(10)
  BY <1>3, <1>4, <1>5 DEF Synchronous, Made
<1>7. \A i \in 1..10 : ~(i <= 10 - 10) /\ i - (10 - 10) = i
  OBVIOUS
<1> QED
  BY <1>6, <1>7 DEF Holds

LEMMA NewCharIs ==
  ASSUME Typed, Synchronous, got_new_char
  PROVE  /\ bit = 10 /\ raw_data_in = sent
         /\ is_break <=> stop = 0 /\ sent = Zeros
         /\ is_framing_error <=> stop = 0 /\ sent # Zeros
<1>1. PICK f : f = Frame(sent, stop)
  OBVIOUS
<1>2. /\ sent \in [1..8 -> {0, 1}] /\ stop \in {0, 1}
      /\ f[1] = 0 /\ f[10] = stop /\ \A i \in 2..9 : f[i] = sent[i - 1]
  BY <1>1, LineIs DEF Typed, RxTypeOK
<1>3. bit = 10 /\ \A i \in 1..10 : shift[i] = f[i]
  BY <1>1, NewChar
<1>4. \A i \in 1..8 : shift[i + 1] = sent[i]
  <2>1. \A i \in 1..8 : i + 1 \in 2..9 /\ i + 1 \in 1..10 /\ (i + 1) - 1 = i
    OBVIOUS
  <2> QED
    BY <1>2, <1>3, <2>1
<1>5. raw_data_in = sent
  <2>1. PICK B : B = {0, 1}
    OBVIOUS
  <2>2. shift \in [1..10 -> B] /\ sent \in [1..8 -> B]
    BY <1>2, <2>1 DEF Typed, RxTypeOK
  <2>3. PICK d : d = raw_data_in
    OBVIOUS
  <2>4. d \in [1..8 -> B] /\ \A i \in 1..8 : d[i] = shift[i + 1]
    BY <2>2, <2>3, DataIs DEF raw_data_in
  <2> QED
    BY <1>4, <2>2, <2>3, <2>4
<1>6. is_break <=> stop = 0 /\ sent = Zeros
  <2>1. ASSUME is_break
        PROVE  stop = 0 /\ sent = Zeros
    <3>1. \A i \in 1..10 : shift[i] = 0
      BY <2>1 DEF is_break
    <3>2. \A i \in 1..8 : sent[i] = 0
      BY <1>4, <3>1
    <3> QED
      BY <1>2, <1>3, <3>1, <3>2 DEF Zeros
  <2>2. ASSUME stop = 0, sent = Zeros
        PROVE  is_break
    <3>1. \A i \in 1..10 : i = 1 \/ i = 10 \/ i \in 2..9
      OBVIOUS
    <3>2. \A i \in 2..9 : i - 1 \in 1..8 /\ sent[i - 1] = 0
      BY <2>2 DEF Zeros
    <3> QED
      BY <1>2, <1>3, <2>2, <3>1, <3>2 DEF is_break
  <2> QED
    BY <2>1, <2>2
<1>7. shift[10] = stop
  BY <1>2, <1>3
<1> QED
  BY <1>3, <1>5, <1>6, <1>7 DEF is_framing_error

\* A character is lost exactly when the one before it waits, read now or not.
LEMMA GoneIs ==
  ASSUME NEW read \in BOOLEAN, NEW clear \in BOOLEAN, Typed,
         Clock(read, clear), read => rx_char_ready, got_new_char
  PROVE  Gone <=> rx_char_ready
BY DEF Clock, Status, CharReady, Gone

LEMMA StatusKept ==
  ASSUME Typed, Synchronous, StatusTellsAll, RxNext
  PROVE  StatusTellsAll'
<1>1. PICK read, clear \in BOOLEAN :
        (read => rx_char_ready) /\ Clock(read, clear)
  BY ClockIs
<1>2. CASE clear
  <2>1. ~rx_overrun' /\ ~framing_error' /\ ~break_detect' /\ told' = {}
    BY <1>1, <1>2 DEF Clock, Status, RxOverrun, History
  <2> QED
    BY <2>1 DEF StatusTellsAll
<1>3. CASE ~clear /\ ~got_new_char
  <2>1. /\ rx_overrun' <=> rx_overrun
        /\ framing_error' <=> framing_error
        /\ break_detect' <=> break_detect
    BY <1>1, <1>3 DEF Clock, Status, RxOverrun
  <2>2. told' = told
    BY <1>1, <1>3 DEF Clock, History, Happens
  <2> QED
    BY <2>1, <2>2 DEF StatusTellsAll
<1>4. CASE ~clear /\ got_new_char
  <2>1. /\ rx_overrun' <=> rx_overrun \/ rx_char_ready
        /\ framing_error' <=> framing_error \/ is_framing_error
        /\ break_detect' <=> break_detect \/ is_break
    BY <1>1, <1>4 DEF Clock, Status, RxOverrun
  <2>2. told' = told \cup Happens
    BY <1>1, <1>4 DEF Clock, History
  <2>3. Gone <=> rx_char_ready
    BY <1>1, <1>4, GoneIs
  <2>4. /\ is_break <=> stop = 0 /\ sent = Zeros
        /\ is_framing_error <=> stop = 0 /\ sent # Zeros
    BY <1>4, NewCharIs
  <2>5. stop \in {0, 1}
    BY DEF Typed, RxTypeOK
  <2>6. /\ "overrun" \in Happens <=> Gone
        /\ "break" \in Happens <=> stop = 0 /\ sent = Zeros
        /\ "damaged" \in Happens <=> stop = 0 /\ sent # Zeros
    BY <1>4, <2>5 DEF Happens
  <2> QED
    BY <2>1, <2>2, <2>3, <2>4, <2>6 DEF StatusTellsAll
<1> QED
  BY <1>2, <1>3, <1>4
-----------------------------------------------------------------------------
(* The theorems.                                                            *)

LEMMA InvariantKept ==
  InTolerance => (RxSpec => [](Typed /\ Synchronous))
<1> SUFFICES ASSUME InTolerance
             PROVE  RxSpec => [](Typed /\ Synchronous)
  OBVIOUS
<1>1. RxInit => Typed /\ Synchronous
  BY AtFirst
<1>2. Typed /\ Synchronous /\ [RxNext]_rxVars => (Typed /\ Synchronous)'
  <2> SUFFICES ASSUME Typed, Synchronous, [RxNext]_rxVars
               PROVE  (Typed /\ Synchronous)'
    OBVIOUS
  <2>1. CASE RxNext
    <3>1. Synchronous'
      BY <2>1, InStep
    <3>2. taken' \in 0..1
      BY <3>1
      DEF Synchronous, Between, Falls, Starts, Ahead, Due, Past, Made, Receiving
    <3> QED
      BY <2>1, <3>1, <3>2, TypesKept
  <2>2. CASE UNCHANGED rxVars
    BY <2>2
    DEF rxVars, sender, status, Typed, RxTypeOK, Synchronous, Between, Falls, Starts,
        Ahead, Due, Past, Made, Receiving, Holds, Middle, AtEdge, Age, rxd_edge,
        rxd
  <2> QED
    BY <2>1, <2>2
<1> QED
  BY <1>1, <1>2, PTL DEF RxSpec

(* Within the tolerance the receiver makes exactly one character of every   *)
(* frame, before the frame is over, and it is the byte that was sent: for   *)
(* every divisor, every jitter of the edges and any bytes (the always       *)
(* blocks of nios_uart_0_rx).                                               *)
THEOREM EachFrameOnce ==
  InTolerance => (RxSpec => []FramesAreReceived)
<1> SUFFICES ASSUME InTolerance
             PROVE  RxSpec => []FramesAreReceived
  OBVIOUS
<1>1. Typed /\ Synchronous => FramesAreReceived
  <2> SUFFICES ASSUME Typed, Synchronous
               PROVE  FramesAreReceived
    OBVIOUS
  <2>1. ReceivedIsSent
    BY NewCharIs DEF ReceivedIsSent
  <2>2. OneForEach
    BY TakenIs DEF OneForEach
  <2> QED
    BY <2>1, <2>2 DEF FramesAreReceived, Typed
<1> QED
  BY <1>1, InvariantKept, PTL

(* Within the tolerance the flags of STATUS are what has happened since it  *)
(* was written: an overrun for every character that found one unread, the   *)
(* one read on that very clock included, a framing error for every damaged  *)
(* frame, a break for every frame of zeros with no stop bit.                *)
THEOREM StatusIsTrue ==
  InTolerance => (RxSpec => []StatusTellsAll)
<1> SUFFICES ASSUME InTolerance
             PROVE  RxSpec => []StatusTellsAll
  OBVIOUS
<1>1. RxInit => StatusTellsAll
  BY DEF RxInit, StatusTellsAll
<1>2. /\ Typed /\ Synchronous /\ StatusTellsAll /\ [RxNext]_rxVars
      => StatusTellsAll'
  BY StatusKept DEF rxVars, status, StatusTellsAll
<1> QED
  BY <1>1, <1>2, InvariantKept, PTL DEF RxSpec
=============================================================================

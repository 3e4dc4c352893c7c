------------------------------ MODULE AppProofs -------------------------------
(***************************************************************************)
(* The networked program, for any buttons, any lengths of its arrays, any  *)
(* console and any number of resets.                                       *)
(*                                                                         *)
(* First the routines: where in Boot and in Selected each of their parts   *)
(* begins (CwmodeAt ... SaidAt) and what operation is at each place.  Boot *)
(* and Selected are concatenations; from BootIs and SelectedIs on they are *)
(* never expanded again.                                                   *)
(*                                                                         *)
(* Then four invariants:                                                   *)
(*   TypeInv  TypeOK, with what keeps it: the ESP counts down only a       *)
(*            packet it waits for, and works on nothing meanwhile;         *)
(*   MenuInv  the text on the display for every place of the program;      *)
(*   LateInv  where the publish of this selection, or the one of the       *)
(*            selection before, can still be: in the ESP while it is being *)
(*            written (BeingWritten) or sent (NowSent, LateSent).  While   *)
(*            the ESP sends it answers nothing, so a program that has come *)
(*            to a readUart since stays in it: no 'K' is on its way (NoK); *)
(*   Talk     while the program is Online: the state of the ESP for every  *)
(*            place of the dialogue.  One lemma per part of a dialogue     *)
(*            (PlainStep, AnnounceStep, ConnectStep, PublishStep,          *)
(*            DisconnectStep) says that a step stays in its part or begins *)
(*            the next.                                                    *)
(*                                                                         *)
(* TypeInv, MenuInv and LateInv need no hypothesis: connections drop, the  *)
(* ESP is late and resets cut a dialogue anywhere.                         *)
(***************************************************************************)
EXTENDS App, TLAPS

\* Every operation of the program.
Operation ==
  {Tx(b) : b \in (Commands \cup Packets) \X (1..39)}
  \cup {Tx(CR), Tx(LF), Sleep, Put, Said}
  \cup {Read(x) : x \in Commands}
  \cup {Show(Opcao[k]) : k \in Option} \cup {Show(Answer[k]) : k \in Option}

\* Where the parts of the start-up dialogue begin: the number of operations
\* before CWMODE, before CWJAP and before the display.
CwmodeAt == Size["AT"] + 4
CwjapAt  == CwmodeAt + Size["CWMODE"] + 4
MenuAt   == CwjapAt + Size["CWJAP"] + 4

\* The same for a selection, whose publish texts are of one length.
SendcAt      == Size["CIPSTART"] + 4
ConnectAt    == SendcAt + Size["SENDC"] + 3
AnswerAt     == ConnectAt + Size["connect"] + 2
SendpAt      == AnswerAt + 2
PublishAt    == SendpAt + Size["SENDP"] + 3
AfterPublish == PublishAt + 2 * Size["publish1"]
SenddAt      == AfterPublish + 3
DisconnectAt == SenddAt + Size["SENDD"] + 3
SaidAt       == DisconnectAt + 2 * Size["disconnect"] + 4

\* readUart's places.
BootRead1  == Size["AT"] + 3
BootRead2  == CwmodeAt + Size["CWMODE"] + 3
SelectRead == Size["CIPSTART"] + 3

NotK(b) == b[1] # "K"

\* No 'K' is on its way to readUart.
NoK == NotK(check) /\ NotK(rx) /\ \A i \in 1..Len(out) : NotK(out[i])

\* An answer ends with a byte that is no 'K'.
EndsInOther ==
  /\ out # <<>> => out[Len(out)] = Other
  /\ out = <<>> => NotK(rx)
  /\ check # Empty => AtOp("read")

InMenu == pc \in {"sample", "decide", "hold", "light"}
Early  == inbox \in {<<>>, <<before>>}

\* The text that waits to be published is of this selection, and goes out once.
OfThis ==
  /\ chosen \in Option /\ line[1] = Publish(chosen) /\ Early
  /\ pc = "select" => PublishAt + 2 * line[2] < at

\* The ESP sends it.
NowSent ==
  /\ job = "send" /\ OfThis
  /\ \/ pc = "select" /\ at <= SenddAt
     \/ pc = "select" /\ NoK
     \/ InMenu /\ NoK
     \/ pc = "boot" /\ at <= CwmodeAt
     \/ pc = "boot" /\ at <= BootRead2 /\ NoK

\* The ESP still sends the one of the selection before.
LateSent ==
  /\ job = "send" /\ before \in Option /\ line[1] = Publish(before)
  /\ inbox = <<>> /\ NoK
  /\ \/ pc = "select" /\ at <= SelectRead
     \/ pc = "boot" /\ at <= BootRead1

\* It is being written, or a reset has cut it short.
BeingWritten ==
  /\ job # "send" /\ OfThis
  /\ \/ pc = "select" /\ at <= AfterPublish + 2
     \/ pc = "boot" /\ at = 1

LateInv ==
  /\ EndsInOther
  /\ pc = "select" => chosen = count
  /\ pc = "select" /\ at <= AfterPublish => Early
  /\ LateAtMostOne
  /\ line[1] \in Publishes => NowSent \/ LateSent \/ BeingWritten

MenuInv ==
  /\ pc = "boot" => count = 0 /\ pushbutton = 0 /\ leds = 0
  /\ pc = "boot" /\ at > MenuAt + 1 => screen = Opcao[0]
  /\ pc \in {"sample", "decide"} => screen = Opcao[count]
  /\ pc = "select" => pushbutton = SELECT
  /\ pc = "select" /\ at <= AnswerAt + 1 => screen = Opcao[count]
  /\ pc = "select" /\ at > AnswerAt + 1 => screen = Answer[count]
  /\ pc \in {"hold", "light"} => screen = Answer[count]

-----------------------------------------------------------------------------
(* The arrays and the routines.                                            *)

Arrays == Commands \cup Packets

LEMMA ArrayNames ==
  /\ DOMAIN FullSize = Arrays
  /\ Publishes = {"publish1", "publish2", "publish3", "publish4", "publish5"}
  /\ \A k \in Option : Publish(k) \in Publishes
  /\ \A x \in Arrays : FullSize[x] \in 1..39
  /\ \A x \in Publishes : FullSize[x] = 24
<1>1. /\ Publish(0) = "publish1" /\ Publish(1) = "publish2"
      /\ Publish(2) = "publish3" /\ Publish(3) = "publish4"
      /\ Publish(4) = "publish5"
  BY DEF Publish
<1>2. Option = {0, 1, 2, 3, 4}
  BY DEF Option
<1>3. Publishes = {"publish1", "publish2", "publish3", "publish4", "publish5"}
  BY <1>1, <1>2 DEF Publishes
<1>4. \A k \in Option : Publish(k) \in Publishes
  BY DEF Publishes
<1>5. DOMAIN FullSize = Arrays
  BY <1>3 DEF FullSize, Arrays, Commands, Packets
<1>6. \A x \in Arrays : FullSize[x] \in 1..39
  BY <1>3 DEF FullSize, Arrays, Commands, Packets
<1>7. \A x \in Publishes : FullSize[x] = 24
  BY <1>3 DEF FullSize
<1> QED
  BY <1>3, <1>4, <1>5, <1>6, <1>7

LEMMA SizeIs ==
  /\ \A x \in Arrays : Size[x] \in 1..39 /\ Size[x] \in Nat /\ Size[x] >= 1
  /\ \A x \in Publishes : Size[x] = Size["publish1"]
<1>1. MaxLen \in Nat /\ MaxLen >= 1
  BY EspAssumption
<1>2. \A x \in Arrays :
        Size[x] = IF FullSize[x] < MaxLen THEN FullSize[x] ELSE MaxLen
  BY ArrayNames DEF Size, Cut
<1>3. \A x \in Arrays : Size[x] \in 1..39
  BY <1>1, <1>2, ArrayNames
<1>4. "publish1" \in Publishes /\ Publishes \subseteq Arrays
  BY ArrayNames DEF Arrays, Packets
<1>5. \A x \in Publishes : Size[x] = Size["publish1"]
  BY <1>2, <1>4, ArrayNames
<1> QED
  BY <1>3, <1>5

LEMMA SizesNamed ==
  /\ \A x \in {"AT", "CWMODE", "CWJAP", "CIPSTART", "SENDC", "SENDP", "SENDD",
               "connect", "publish1", "disconnect"} :
       x \in Arrays /\ Size[x] \in Nat /\ Size[x] >= 1
  /\ \A k \in Option : 
       Publish(k) \in Arrays /\ Size[Publish(k)] = Size["publish1"]
BY ArrayNames, SizeIs DEF Arrays, Commands, Packets

\* The part of s after its first b operations is t.
Part(s, b, t) ==
  /\ b \in Nat /\ s \in Seq(Operation) /\ t \in Seq(Operation)
  /\ b + Len(t) <= Len(s)
  /\ \A i \in 1..Len(t) : s[b + i] = t[i]

LEMMA Joined ==
  ASSUME NEW s \in Seq(Operation), NEW t \in Seq(Operation)
  PROVE  /\ s \o t \in Seq(Operation) /\ Len(s \o t) = Len(s) + Len(t)
         /\ \A i \in 1..Len(s) : (s \o t)[i] = s[i]
         /\ \A i \in 1..Len(t) : (s \o t)[Len(s) + i] = t[i]
         /\ Part(s \o t, 0, s) /\ Part(s \o t, Len(s), t)
<1>1. s \o t \in Seq(Operation) /\ Len(s \o t) = Len(s) + Len(t)
  OBVIOUS
<1>2. \A i \in 1..Len(s) : (s \o t)[0 + i] = s[i]
  OBVIOUS
<1>3. \A i \in 1..Len(t) : (s \o t)[Len(s) + i] = t[i]
  OBVIOUS
<1>4. Len(s) \in Nat /\ Len(t) \in Nat
  OBVIOUS
<1> QED
  BY <1>1, <1>2, <1>3, <1>4 DEF Part

LEMMA PartOfPart ==
  ASSUME NEW s, NEW t, NEW u, NEW b, NEW c, Part(s, b, t), Part(t, c, u)
  PROVE  Part(s, b + c, u)
<1>1. /\ b \in Nat /\ c \in Nat /\ Len(u) \in Nat /\ Len(t) \in Nat
      /\ Len(s) \in Nat
  BY DEF Part
<1>2. b + c + Len(u) <= Len(s)
  BY <1>1 DEF Part
<1>3. ASSUME NEW i \in 1..Len(u) PROVE s[b + c + i] = u[i]
  <2>1. c + i \in 1..Len(t) /\ b + (c + i) = b + c + i
    BY <1>1 DEF Part
  <2>2. t[c + i] = u[i] /\ s[b + (c + i)] = t[c + i]
    BY <2>1 DEF Part
  <2> QED
    BY <2>1, <2>2
<1> QED
  BY <1>1, <1>2, <1>3 DEF Part

LEMMA PartOfStart ==
  ASSUME NEW s, NEW t, NEW u, NEW c, Part(s, 0, t), Part(t, c, u)
  PROVE  Part(s, c, u)
<1>1. Part(s, 0 + c, u)
  BY PartOfPart
<1>2. 0 + c = c
  BY DEF Part
<1> QED
  BY <1>1, <1>2

LEMMA Single ==
  ASSUME NEW o \in Operation
  PROVE  <<o>> \in Seq(Operation) /\ Len(<<o>>) = 1 /\ <<o>>[1] = o
OBVIOUS

LEMMA Ops ==
  /\ {Tx(CR), Tx(LF), Sleep, Put, Said} \subseteq Operation
  /\ \A x \in Commands : Read(x) \in Operation
  /\ \A k \in Option : Show(Opcao[k]) \in Operation
                       /\ Show(Answer[k]) \in Operation
  /\ \A x \in Arrays : \A i \in 1..Size[x] : Tx(<<x, i>>) \in Operation
<1>1. \A x \in Arrays : \A i \in 1..Size[x] : Tx(<<x, i>>) \in Operation
  <2> SUFFICES ASSUME NEW x \in Arrays, NEW i \in 1..Size[x]
               PROVE  Tx(<<x, i>>) \in Operation
    OBVIOUS
  <2>1. Size[x] \in 1..39
    BY SizeIs
  <2>2. <<x, i>> \in (Commands \cup Packets) \X (1..39)
    BY <2>1 DEF Arrays
  <2> QED
    BY <2>2 DEF Operation
<1>2. /\ {Tx(CR), Tx(LF), Sleep, Put, Said} \subseteq Operation
      /\ \A x \in Commands : Read(x) \in Operation
      /\ \A k \in Option : Show(Opcao[k]) \in Operation
                           /\ Show(Answer[k]) \in Operation
  BY DEF Operation
<1> QED
  BY <1>1, <1>2

LEMMA ArrayIs ==
  ASSUME NEW x \in Arrays
  PROVE  /\ Array(x) \in Seq(Operation) /\ Len(Array(x)) = Size[x]
         /\ \A i \in 1..Size[x] : Array(x)[i] = Tx(<<x, i>>)
<1>1. Size[x] \in Nat
  BY SizeIs
<1>2. \A i \in 1..Size[x] : Tx(<<x, i>>) \in Operation
  BY Ops
<1>3. Array(x) = [i \in 1..Size[x] |-> Tx(<<x, i>>)]
  BY Zenon DEF Array
<1> HIDE DEF Array
<1>4. Array(x) \in [1..Size[x] -> Operation]
  BY <1>2, <1>3
<1>5. Array(x) \in Seq(Operation) /\ Len(Array(x)) = Size[x]
  BY <1>1, <1>4
<1> QED
  BY <1>3, <1>5

\* An array, a carriage return and a line feed.
LineOf(x, s, b) ==
  /\ \A i \in 1..Size[x] : s[b + i] = Tx(<<x, i>>)
  /\ s[b + Size[x] + 1] = Tx(CR)
  /\ s[b + Size[x] + 2] = Tx(LF)

LEMMA WritenUartIs ==
  ASSUME NEW x \in Arrays
  PROVE  /\ writenUart(x) \in Seq(Operation)
         /\ Len(writenUart(x)) = Size[x] + 2
         /\ LineOf(x, writenUart(x), 0)
<1> DEFINE s == Array(x)
           t == << Tx(CR), Tx(LF) >>
<1>1. /\ s \in Seq(Operation) /\ Len(s) = Size[x] /\ Size[x] \in Nat
      /\ \A i \in 1..Size[x] : s[i] = Tx(<<x, i>>)
  BY ArrayIs, SizeIs
<1>2. t \in Seq(Operation) /\ Len(t) = 2 /\ t[1] = Tx(CR) /\ t[2] = Tx(LF)
  BY Ops
<1> HIDE DEF s, t
<1>3. /\ s \o t \in Seq(Operation) /\ Len(s \o t) = Size[x] + 2
      /\ \A i \in 1..Size[x] : (s \o t)[i] = s[i]
      /\ (s \o t)[Size[x] + 1] = t[1] /\ (s \o t)[Size[x] + 2] = t[2]
  <2>1. /\ s \o t \in Seq(Operation) /\ Len(s \o t) = Len(s) + Len(t)
        /\ \A i \in 1..Len(s) : (s \o t)[i] = s[i]
        /\ \A i \in 1..Len(t) : (s \o t)[Len(s) + i] = t[i]
    BY <1>1, <1>2, Joined
  <2> QED
    BY <1>1, <1>2, <2>1
<1>4. \A i \in 1..Size[x] : (s \o t)[0 + i] = Tx(<<x, i>>)
  BY <1>1, <1>3
<1>5. LineOf(x, s \o t, 0)
  BY <1>1, <1>2, <1>3, <1>4 DEF LineOf
<1> QED
  BY <1>3, <1>5 DEF writenUart, s, t

LEMMA LineMoves ==
  ASSUME NEW x \in Arrays, NEW s, NEW b, NEW t, NEW c \in Nat,
         Part(s, b, t), LineOf(x, t, c), Len(t) >= c + Size[x] + 2
  PROVE  LineOf(x, s, b + c)
<1>1. b \in Nat /\ Size[x] \in Nat /\ Len(t) \in Nat
  BY SizeIs DEF Part
<1>2. \A i \in 1..Size[x] + 2 : s[b + c + i] = t[c + i]
  <2> SUFFICES ASSUME NEW i \in 1..Size[x] + 2
               PROVE  s[b + c + i] = t[c + i]
    OBVIOUS
  <2>1. c + i \in 1..Len(t) /\ b + (c + i) = b + c + i
    BY <1>1
  <2> QED
    BY <2>1 DEF Part
<1>3. \A i \in 1..Size[x] : t[c + i] = Tx(<<x, i>>)
  BY DEF LineOf
<1>4. t[c + (Size[x] + 1)] = Tx(CR) /\ t[c + (Size[x] + 2)] = Tx(LF)
  <2>1. /\ c + (Size[x] + 1) = c + Size[x] + 1
        /\ c + (Size[x] + 2) = c + Size[x] + 2
    BY <1>1
  <2> QED
    BY <2>1 DEF LineOf
<1>5. /\ s[b + c + (Size[x] + 1)] = Tx(CR)
      /\ s[b + c + (Size[x] + 2)] = Tx(LF)
  <2>1. /\ Size[x] + 1 \in 1..Size[x] + 2
        /\ Size[x] + 2 \in 1..Size[x] + 2
    BY <1>1
  <2> QED
    BY <1>2, <1>4, <2>1, Zenon
<1>6. \A i \in 1..Size[x] : s[b + c + i] = Tx(<<x, i>>)
  <2>1. \A i \in 1..Size[x] : i \in 1..Size[x] + 2
    BY <1>1
  <2> QED
    BY <1>2, <1>3, <2>1, Zenon
<1>7. /\ b + c + (Size[x] + 1) = b + c + Size[x] + 1
      /\ b + c + (Size[x] + 2) = b + c + Size[x] + 2
  BY <1>1
<1> QED
  BY <1>5, <1>6, <1>7 DEF LineOf

\* Each byte of the array after its echo.
EchoOf(x, s, b) ==
  \A i \in 1..Size[x] :
    s[b + 2 * i - 1] = Put /\ s[b + 2 * i] = Tx(<<x, i>>)

LEMMA EchoedIs ==
  ASSUME NEW x \in Arrays
  PROVE  /\ Echoed(x) \in Seq(Operation) /\ Len(Echoed(x)) = 2 * Size[x]
         /\ EchoOf(x, Echoed(x), 0)
<1>1. Size[x] \in Nat
  BY SizeIs
<1>2. ASSUME NEW i \in 1..2 * Size[x]
      PROVE  (IF i % 2 = 1 THEN Put ELSE Tx(<<x, i \div 2>>)) \in Operation
  <2>1. CASE i % 2 = 1
    BY <2>1, Ops
  <2>2. CASE i % 2 # 1
    <3>1. i \div 2 \in 1..Size[x]
      BY <1>1, <2>2
    <3> QED
      BY <2>2, <3>1, Ops
  <2> QED
    BY <2>1, <2>2
<1>e. Echoed(x) = [i \in 1..2 * Size[x] |->
                     IF i % 2 = 1 THEN Put ELSE Tx(<<x, i \div 2>>)]
  BY Zenon DEF Echoed
<1>3. Echoed(x) \in Seq(Operation) /\ Len(Echoed(x)) = 2 * Size[x]
  <2>1. Echoed(x) \in [1..2 * Size[x] -> Operation]
    BY <1>2, <1>e
  <2>2. 2 * Size[x] \in Nat
    BY <1>1
  <2> QED
    BY <2>1, <2>2
<1>4. ASSUME NEW i \in 1..Size[x]
      PROVE  /\ Echoed(x)[0 + 2 * i - 1] = Put
             /\ Echoed(x)[0 + 2 * i] = Tx(<<x, i>>)
  <2>1. 2 * i - 1 \in 1..2 * Size[x] /\ 2 * i \in 1..2 * Size[x]
    BY <1>1
  <2>2. (2 * i - 1) % 2 = 1 /\ (2 * i) % 2 # 1 /\ (2 * i) \div 2 = i
    OBVIOUS
  <2>3. Echoed(x)[2 * i - 1] = Put /\ Echoed(x)[2 * i] = Tx(<<x, i>>)
    BY <2>1, <2>2, <1>e
  <2>4. 0 + 2 * i - 1 = 2 * i - 1 /\ 0 + 2 * i = 2 * i
    OBVIOUS
  <2> QED
    BY <2>3, <2>4
<1> QED
  BY <1>3, <1>4 DEF EchoOf

LEMMA EchoMoves ==
  ASSUME NEW x \in Arrays, NEW s, NEW b, NEW t, NEW c \in Nat,
         Part(s, b, t), EchoOf(x, t, c), Len(t) >= c + 2 * Size[x]
  PROVE  EchoOf(x, s, b + c)
<1> SUFFICES ASSUME NEW i \in 1..Size[x]
             PROVE  /\ s[b + c + 2 * i - 1] = Put
                    /\ s[b + c + 2 * i] = Tx(<<x, i>>)
  BY DEF EchoOf
<1>1. b \in Nat /\ Size[x] \in Nat /\ Len(t) \in Nat
  BY SizeIs DEF Part
<1>2. t[c + 2 * i - 1] = Put /\ t[c + 2 * i] = Tx(<<x, i>>)
  BY DEF EchoOf
<1>3. c + 2 * i - 1 \in 1..Len(t) /\ c + 2 * i \in 1..Len(t)
  BY <1>1
<1>4. /\ s[b + (c + 2 * i - 1)] = t[c + 2 * i - 1]
      /\ s[b + (c + 2 * i)] = t[c + 2 * i]
  BY <1>3 DEF Part
<1>5. /\ b + (c + 2 * i - 1) = b + c + 2 * i - 1
      /\ b + (c + 2 * i) = b + c + 2 * i
  BY <1>1
<1> QED
  BY <1>2, <1>4, <1>5

LEMMA LineStarts ==
  ASSUME NEW x \in Arrays, NEW s, NEW b, NEW t,
         Part(s, b, t), LineOf(x, t, 0), Len(t) = Size[x] + 2
  PROVE  LineOf(x, s, b)
<1>1. b \in Nat /\ Size[x] \in Nat
  BY SizeIs DEF Part
<1>2. 0 \in Nat /\ Len(t) >= 0 + Size[x] + 2 /\ b + 0 = b
  BY <1>1
<1>3. LineOf(x, s, b + 0)
  BY <1>2, LineMoves
<1> QED
  BY <1>2, <1>3

LEMMA EchoStarts ==
  ASSUME NEW x \in Arrays, NEW s, NEW b, NEW t,
         Part(s, b, t), EchoOf(x, t, 0), Len(t) = 2 * Size[x]
  PROVE  EchoOf(x, s, b)
<1>1. b \in Nat /\ Size[x] \in Nat
  BY SizeIs DEF Part
<1>2. 0 \in Nat /\ Len(t) >= 0 + 2 * Size[x] /\ b + 0 = b
  BY <1>1
<1>3. EchoOf(x, s, b + 0)
  BY <1>2, EchoMoves
<1> QED
  BY <1>2, <1>3

LEMMA ThreeIs ==
  << Tx(CR), Tx(LF), Sleep >> \in Seq(Operation)
  /\ Len(<< Tx(CR), Tx(LF), Sleep >>) = 3
BY Ops

LEMMA TwoIs ==
  /\ << Tx(CR), Tx(LF) >> \in Seq(Operation)
  /\ Len(<< Tx(CR), Tx(LF) >>) = 2
BY Ops

LEMMA ReadIs ==
  ASSUME NEW x \in Commands
  PROVE  << Read(x), Sleep >> \in Seq(Operation)
         /\ Len(<< Read(x), Sleep >>) = 2
BY Ops

LEMMA ConnectIs ==
  /\ connectMQTT \in Seq(Operation)
  /\ Len(connectMQTT) = Size["SENDC"] + Size["connect"] + 5
  /\ LineOf("SENDC", connectMQTT, 0)
  /\ connectMQTT[Size["SENDC"] + 3] = Sleep
  /\ LineOf("connect", connectMQTT, Size["SENDC"] + 3)
<1> DEFINE a1 == writenUart("SENDC")
           a2 == <<Sleep>>
           a3 == Array("connect")
           a4 == << Tx(CR), Tx(LF) >>
           s2 == a1 \o a2
           s3 == s2 \o a3
           s4 == s3 \o a4
<1>n. PICK n, m : n = Size["SENDC"] /\ m = Size["connect"]
  OBVIOUS
<1>m. n \in Nat /\ m \in Nat /\ "SENDC" \in Arrays /\ "connect" \in Arrays
  BY <1>n, SizesNamed
<1>1. /\ a1 \in Seq(Operation) /\ Len(a1) = n + 2
      /\ a2 \in Seq(Operation) /\ Len(a2) = 1
      /\ a3 \in Seq(Operation) /\ Len(a3) = m
      /\ a4 \in Seq(Operation) /\ Len(a4) = 2
  BY <1>n, <1>m, WritenUartIs, ArrayIs, TwoIs, Single, Ops
<1>e. /\ LineOf("SENDC", a1, 0) /\ a2[1] = Sleep
      /\ \A i \in 1..m : a3[i] = Tx(<<"connect", i>>)
      /\ a4[1] = Tx(CR) /\ a4[2] = Tx(LF)
  BY <1>n, <1>m, WritenUartIs, ArrayIs
<1>d. connectMQTT = s4
  BY Zenon DEF connectMQTT
<1> HIDE DEF a1, a2, a3, a4, s2, s3, s4
<1>s2. /\ s2 \in Seq(Operation) /\ Len(s2) = Len(a1) + Len(a2)
      /\ Part(s2, 0, a1) /\ Part(s2, Len(a1), a2)
  BY <1>1, Joined DEF s2
<1>s3. /\ s3 \in Seq(Operation) /\ Len(s3) = Len(s2) + Len(a3)
      /\ Part(s3, 0, s2) /\ Part(s3, Len(s2), a3)
  BY <1>1, <1>s2, Joined DEF s3
<1>s4. /\ s4 \in Seq(Operation) /\ Len(s4) = Len(s3) + Len(a4)
      /\ Part(s4, 0, s3) /\ Part(s4, Len(s3), a4)
  BY <1>1, <1>s3, Joined DEF s4
<1>p2. Part(s4, 0, s2)
  BY <1>s4, <1>s3, PartOfStart
<1>p1. Part(s4, 0, a1)
  BY <1>p2, <1>s2, PartOfStart
<1>p. /\ Part(s4, Len(a1), a2)
      /\ Part(s4, Len(s2), a3)
      /\ Part(s4, Len(s3), a4)
  BY <1>s2, <1>p2, <1>s3, <1>s4, PartOfStart
<1>l. /\ Len(a1) = n + 2 /\ Len(s2) = n + 3 /\ Len(s3) = n + 3 + m
      /\ Len(s4) = n + m + 5
  BY <1>m, <1>1, <1>s2, <1>s3, <1>s4
<1>q. Part(s4, n + 2, a2) /\ Part(s4, n + 3, a3) /\ Part(s4, n + 3 + m, a4)
  BY <1>l, <1>p, Zenon
<1>2. LineOf("SENDC", s4, 0)
  <2>1. 0 \in Nat /\ Len(a1) >= 0 + Size["SENDC"] + 2 /\ 0 + 0 = 0
    BY <1>m, <1>n, <1>1
  <2>2. LineOf("SENDC", s4, 0 + 0)
    BY <2>1, <1>m, <1>e, <1>p1, LineMoves, Zenon
  <2> QED
    BY <2>1, <2>2, Zenon
<1>3. s4[n + 3] = Sleep
  <2>1. 1 \in 1..Len(a2) /\ n + 2 + 1 = n + 3
    BY <1>1, <1>m
  <2>2. s4[n + 2 + 1] = a2[1]
    BY <2>1, <1>q DEF Part
  <2> QED
    BY <1>e, <2>1, <2>2, Zenon
<1>4. LineOf("connect", s4, n + 3)
  <2>1. ASSUME NEW i \in 1..m PROVE s4[n + 3 + i] = Tx(<<"connect", i>>)
    <3>1. i \in 1..Len(a3)
      BY <1>1
    <3>2. s4[n + 3 + i] = a3[i]
      BY <1>q, <3>1 DEF Part
    <3> QED
      BY <1>e, <3>2
  <2>2. s4[n + 3 + m + 1] = Tx(CR) /\ s4[n + 3 + m + 2] = Tx(LF)
    <3>1. 1 \in 1..Len(a4) /\ 2 \in 1..Len(a4)
      BY <1>1
    <3> QED
      BY <1>q, <1>e, <3>1 DEF Part
  <2> QED
    BY <1>n, <2>1, <2>2 DEF LineOf
<1> QED
  BY <1>n, <1>d, <1>l, <1>s4, <1>2, <1>3, <1>4

LEMMA Sums ==
  \A a, l \in Nat : a + (l + 2) = a + l + 2 /\ a + l + 2 + 1 = a + l + 3
OBVIOUS

LEMMA OptionZero == 0 \in Option
BY DEF Option

LEMMA BootIs ==
  /\ Boot \in Seq(Operation) /\ Len(Boot) = MenuAt + 1
  /\ LineOf("AT", Boot, 0)
  /\ Boot[Size["AT"] + 3] = Read("AT") /\ Boot[CwmodeAt] = Sleep
  /\ LineOf("CWMODE", Boot, CwmodeAt)
  /\ Boot[CwmodeAt + Size["CWMODE"] + 3] = Read("CWMODE")
  /\ Boot[CwjapAt] = Sleep
  /\ LineOf("CWJAP", Boot, CwjapAt)
  /\ Boot[CwjapAt + Size["CWJAP"] + 3] = Read("CWJAP")
  /\ Boot[MenuAt] = Sleep
  /\ Boot[MenuAt + 1] = Show(Opcao[0])
<1> DEFINE a1 == writenUart("AT")
           a2 == << Read("AT"), Sleep >>
           a3 == writenUart("CWMODE")
           a4 == << Read("CWMODE"), Sleep >>
           a5 == writenUart("CWJAP")
           a6 == << Read("CWJAP"), Sleep >>
           a7 == << Show(Opcao[0]) >>
           s2 == a1 \o a2
           s3 == s2 \o a3
           s4 == s3 \o a4
           s5 == s4 \o a5
           s6 == s5 \o a6
           s7 == s6 \o a7
<1>n. PICK n, m, l :
        n = Size["AT"] /\ m = Size["CWMODE"] /\ l = Size["CWJAP"]
  OBVIOUS
<1>m. /\ n \in Nat /\ "AT" \in Arrays
      /\ m \in Nat /\ "CWMODE" \in Arrays
      /\ l \in Nat /\ "CWJAP" \in Arrays
  BY <1>n, SizesNamed
<1>t1. a1 \in Seq(Operation) /\ Len(a1) = n + 2
  BY <1>m, <1>n, WritenUartIs
<1>t2. a2 \in Seq(Operation) /\ Len(a2) = 2
  BY ReadIs DEF Commands
<1>t3. a3 \in Seq(Operation) /\ Len(a3) = m + 2
  BY <1>m, <1>n, WritenUartIs
<1>t4. a4 \in Seq(Operation) /\ Len(a4) = 2
  BY ReadIs DEF Commands
<1>t5. a5 \in Seq(Operation) /\ Len(a5) = l + 2
  BY <1>m, <1>n, WritenUartIs
<1>t6. a6 \in Seq(Operation) /\ Len(a6) = 2
  BY ReadIs DEF Commands
<1>t7. a7 \in Seq(Operation) /\ Len(a7) = 1
  BY Single, Ops, OptionZero
<1>e. /\ LineOf("AT", a1, 0) /\ a2[1] = Read("AT") /\ a2[2] = Sleep
      /\ LineOf("CWMODE", a3, 0) /\ a4[1] = Read("CWMODE") /\ a4[2] = Sleep
      /\ LineOf("CWJAP", a5, 0) /\ a6[1] = Read("CWJAP") /\ a6[2] = Sleep
      /\ a7[1] = Show(Opcao[0])
  BY <1>n, <1>m, WritenUartIs
<1>d. Boot = s7
  BY Zenon DEF Boot
<1> HIDE DEF a1, a2, a3, a4, a5, a6, a7,
            s2, s3, s4, s5, s6, s7
<1>s2. /\ s2 \in Seq(Operation) /\ Len(s2) = Len(a1) + Len(a2)
      /\ Part(s2, 0, a1) /\ Part(s2, Len(a1), a2)
  BY <1>t1, <1>t2, Joined DEF s2
<1>s3. /\ s3 \in Seq(Operation) /\ Len(s3) = Len(s2) + Len(a3)
      /\ Part(s3, 0, s2) /\ Part(s3, Len(s2), a3)
  BY <1>s2, <1>t3, Joined DEF s3
<1>s4. /\ s4 \in Seq(Operation) /\ Len(s4) = Len(s3) + Len(a4)
      /\ Part(s4, 0, s3) /\ Part(s4, Len(s3), a4)
  BY <1>s3, <1>t4, Joined DEF s4
<1>s5. /\ s5 \in Seq(Operation) /\ Len(s5) = Len(s4) + Len(a5)
      /\ Part(s5, 0, s4) /\ Part(s5, Len(s4), a5)
  BY <1>s4, <1>t5, Joined DEF s5
<1>s6. /\ s6 \in Seq(Operation) /\ Len(s6) = Len(s5) + Len(a6)
      /\ Part(s6, 0, s5) /\ Part(s6, Len(s5), a6)
  BY <1>s5, <1>t6, Joined DEF s6
<1>s7. /\ s7 \in Seq(Operation) /\ Len(s7) = Len(s6) + Len(a7)
      /\ Part(s7, 0, s6) /\ Part(s7, Len(s6), a7)
  BY <1>s6, <1>t7, Joined DEF s7
<1>p5. Part(s7, 0, s5)
  BY <1>s7, <1>s6, PartOfStart
<1>p4. Part(s7, 0, s4)
  BY <1>p5, <1>s5, PartOfStart
<1>p3. Part(s7, 0, s3)
  BY <1>p4, <1>s4, PartOfStart
<1>p2. Part(s7, 0, s2)
  BY <1>p3, <1>s3, PartOfStart
<1>p1. Part(s7, 0, a1)
  BY <1>p2, <1>s2, PartOfStart
<1>p. /\ Part(s7, 0, a1)
      /\ Part(s7, Len(a1), a2)
      /\ Part(s7, Len(s2), a3)
      /\ Part(s7, Len(s3), a4)
      /\ Part(s7, Len(s4), a5)
      /\ Part(s7, Len(s5), a6)
      /\ Part(s7, Len(s6), a7)
  BY <1>p1, <1>s2, <1>p2, <1>s3, <1>p3, <1>s4, <1>p4, <1>s5, <1>p5, <1>s6,
     <1>s7, PartOfStart
<1>l1. Len(a1) = n + 2
  BY <1>t1
<1>l2. Len(s2) = n + 4
  BY <1>m, <1>l1, <1>s2, <1>t2
<1>l3. Len(s3) = n + 4 + m + 2
  BY <1>m, <1>l2, <1>s3, <1>t3
<1>l4. Len(s4) = n + 4 + m + 4
  BY <1>m, <1>l3, <1>s4, <1>t4
<1>l5. Len(s5) = n + 4 + m + 4 + l + 2
  BY <1>m, <1>l4, <1>s5, <1>t5
<1>l6. Len(s6) = n + 4 + m + 4 + l + 4
  BY <1>m, <1>l5, <1>s6, <1>t6
<1>l7. Len(s7) = n + 4 + m + 4 + l + 5
  BY <1>m, <1>l6, <1>s7, <1>t7
<1>q. /\ Part(s7, 0, a1)
      /\ Part(s7, n + 2, a2)
      /\ Part(s7, n + 4, a3)
      /\ Part(s7, n + 4 + m + 2, a4)
      /\ Part(s7, n + 4 + m + 4, a5)
      /\ Part(s7, n + 4 + m + 4 + l + 2, a6)
      /\ Part(s7, n + 4 + m + 4 + l + 4, a7)
  BY <1>l1, <1>l2, <1>l3, <1>l4, <1>l5, <1>l6, <1>p, Zenon
<1>2. LineOf("AT", s7, 0)
  <2>1. "AT" \in Arrays /\ Len(a1) = Size["AT"] + 2
    BY <1>m, <1>n, <1>t1
  <2> QED
    BY <2>1, <1>e, <1>q, LineStarts, Zenon
<1>3. s7[n + 3] = Read("AT")
  <2>1. 1 \in 1..Len(a2)
    BY <1>t2
  <2>3. n + 2 + 1 = n + 3
    BY <1>m
  <2>2. s7[n + 2 + 1] = a2[1]
    BY <2>1, <1>q DEF Part
  <2> QED
    BY <1>e, <2>3, <2>2, Zenon
<1>4. s7[n + 4] = Sleep
  <2>1. 2 \in 1..Len(a2)
    BY <1>t2
  <2>3. n + 2 + 2 = n + 4
    BY <1>m
  <2>2. s7[n + 2 + 2] = a2[2]
    BY <2>1, <1>q DEF Part
  <2> QED
    BY <1>e, <2>3, <2>2, Zenon
<1>5. LineOf("CWMODE", s7, n + 4)
  <2>1. "CWMODE" \in Arrays /\ Len(a3) = Size["CWMODE"] + 2
    BY <1>m, <1>n, <1>t3
  <2> QED
    BY <2>1, <1>e, <1>q, LineStarts, Zenon
<1>6. s7[n + 4 + m + 3] = Read("CWMODE")
  <2>1. 1 \in 1..Len(a4)
    BY <1>t4
  <2>3. n + 4 + m + 2 + 1 = n + 4 + m + 3
    BY <1>m
  <2>2. s7[n + 4 + m + 2 + 1] = a4[1]
    BY <2>1, <1>q DEF Part
  <2> QED
    BY <1>e, <2>3, <2>2, Zenon
<1>7. s7[n + 4 + m + 4] = Sleep
  <2>1. 2 \in 1..Len(a4)
    BY <1>t4
  <2>3. n + 4 + m + 2 + 2 = n + 4 + m + 4
    BY <1>m
  <2>2. s7[n + 4 + m + 2 + 2] = a4[2]
    BY <2>1, <1>q DEF Part
  <2> QED
    BY <1>e, <2>3, <2>2, Zenon
<1>8. LineOf("CWJAP", s7, n + 4 + m + 4)
  <2>1. "CWJAP" \in Arrays /\ Len(a5) = Size["CWJAP"] + 2
    BY <1>m, <1>n, <1>t5
  <2> QED
    BY <2>1, <1>e, <1>q, LineStarts, Zenon
<1>9. s7[n + 4 + m + 4 + l + 3] = Read("CWJAP")
  <2>1. 1 \in 1..Len(a6)
    BY <1>t6
  <2>3. n + 4 + m + 4 + l + 2 + 1 = n + 4 + m + 4 + l + 3
    BY <1>m
  <2>2. s7[n + 4 + m + 4 + l + 2 + 1] = a6[1]
    BY <2>1, <1>q DEF Part
  <2> QED
    BY <1>e, <2>3, <2>2, Zenon
<1>10. s7[n + 4 + m + 4 + l + 4] = Sleep
  <2>1. 2 \in 1..Len(a6)
    BY <1>t6
  <2>3. n + 4 + m + 4 + l + 2 + 2 = n + 4 + m + 4 + l + 4
    BY <1>m
  <2>2. s7[n + 4 + m + 4 + l + 2 + 2] = a6[2]
    BY <2>1, <1>q DEF Part
  <2> QED
    BY <1>e, <2>3, <2>2, Zenon
<1>11. s7[n + 4 + m + 4 + l + 5] = Show(Opcao[0])
  <2>1. 1 \in 1..Len(a7)
    BY <1>t7
  <2>3. n + 4 + m + 4 + l + 4 + 1 = n + 4 + m + 4 + l + 5
    BY <1>m
  <2>2. s7[n + 4 + m + 4 + l + 4 + 1] = a7[1]
    BY <2>1, <1>q DEF Part
  <2> QED
    BY <1>e, <2>3, <2>2, Zenon
<1>c. /\ CwmodeAt = n + 4 /\ CwjapAt = n + 4 + m + 4
      /\ MenuAt = n + 4 + m + 4 + l + 4
      /\ MenuAt + 1 = n + 4 + m + 4 + l + 5
  BY <1>n, <1>m DEF CwmodeAt, CwjapAt, MenuAt
<1>w. /\ s7 \in Seq(Operation) /\ Len(s7) = MenuAt + 1
      /\ LineOf("AT", s7, 0)
      /\ s7[Size["AT"] + 3] = Read("AT") /\ s7[CwmodeAt] = Sleep
      /\ LineOf("CWMODE", s7, CwmodeAt)
      /\ s7[CwmodeAt + Size["CWMODE"] + 3] = Read("CWMODE")
      /\ s7[CwjapAt] = Sleep
      /\ LineOf("CWJAP", s7, CwjapAt)
      /\ s7[CwjapAt + Size["CWJAP"] + 3] = Read("CWJAP")
      /\ s7[MenuAt] = Sleep
      /\ s7[MenuAt + 1] = Show(Opcao[0])
  BY <1>n, <1>c, <1>l7, <1>s7, <1>2, <1>3, <1>4, <1>5, <1>6, <1>7, <1>8, <1>9,
     <1>10, <1>11, Zenon
<1> QED
  BY <1>d, <1>w, Zenon

LEMMA PublishMQTTIs ==
  ASSUME NEW k \in Option, NEW n, NEW m, NEW l, NEW r,
         n = Size["SENDP"], m = Size["publish1"], l = Size["SENDD"],
         r = Size["disconnect"]
  PROVE  /\ publishMQTT(k) \in Seq(Operation)
         /\ Len(publishMQTT(k)) = n + 4 + 2 * m + 3 + l + 3 + 2 * r + 3
         /\ publishMQTT(k)[1] = Sleep
         /\ LineOf("SENDP", publishMQTT(k), 1)
         /\ publishMQTT(k)[n + 4] = Sleep
         /\ EchoOf(Publish(k), publishMQTT(k), n + 4)
         /\ publishMQTT(k)[n + 4 + 2 * m + 1] = Tx(CR)
         /\ publishMQTT(k)[n + 4 + 2 * m + 2] = Tx(LF)
         /\ publishMQTT(k)[n + 4 + 2 * m + 3] = Sleep
         /\ LineOf("SENDD", publishMQTT(k), n + 4 + 2 * m + 3)
         /\ publishMQTT(k)[n + 4 + 2 * m + 3 + l + 3] = Sleep
         /\ EchoOf("disconnect", publishMQTT(k), n + 4 + 2 * m + 3 + l + 3)
         /\ publishMQTT(k)[n + 4 + 2 * m + 3 + l + 3 + 2 * r + 1] = Tx(CR)
         /\ publishMQTT(k)[n + 4 + 2 * m + 3 + l + 3 + 2 * r + 2] = Tx(LF)
         /\ publishMQTT(k)[n + 4 + 2 * m + 3 + l + 3 + 2 * r + 3] = Sleep
<1> DEFINE a1 == <<Sleep>>
           a2 == writenUart("SENDP")
           a3 == <<Sleep>>
           a4 == Echoed(Publish(k))
           a5 == << Tx(CR), Tx(LF), Sleep >>
           a6 == writenUart("SENDD")
           a7 == <<Sleep>>
           a8 == Echoed("disconnect")
           a9 == << Tx(CR), Tx(LF), Sleep >>
           s2 == a1 \o a2
           s3 == s2 \o a3
           s4 == s3 \o a4
           s5 == s4 \o a5
           s6 == s5 \o a6
           s7 == s6 \o a7
           s8 == s7 \o a8
           s9 == s8 \o a9
<1>m. /\ n \in Nat /\ "SENDP" \in Arrays /\ m = Size[Publish(k)]
      /\ m \in Nat /\ Publish(k) \in Arrays
      /\ l \in Nat /\ "SENDD" \in Arrays
      /\ r \in Nat /\ "disconnect" \in Arrays
  BY SizesNamed
<1>z. n \in Nat /\ m \in Nat /\ l \in Nat /\ r \in Nat
  BY <1>m
<1>t1. a1 \in Seq(Operation) /\ Len(a1) = 1
  BY Single, Ops
<1>t2. a2 \in Seq(Operation) /\ Len(a2) = n + 2
  BY <1>m, WritenUartIs
<1>t3. a3 \in Seq(Operation) /\ Len(a3) = 1
  BY Single, Ops
<1>t4. a4 \in Seq(Operation) /\ Len(a4) = 2 * m
  BY <1>m, EchoedIs
<1>t5. a5 \in Seq(Operation) /\ Len(a5) = 3
  BY ThreeIs
<1>t6. a6 \in Seq(Operation) /\ Len(a6) = l + 2
  BY <1>m, WritenUartIs
<1>t7. a7 \in Seq(Operation) /\ Len(a7) = 1
  BY Single, Ops
<1>t8. a8 \in Seq(Operation) /\ Len(a8) = 2 * r
  BY <1>m, EchoedIs
<1>t9. a9 \in Seq(Operation) /\ Len(a9) = 3
  BY ThreeIs
<1>e. /\ a1[1] = Sleep /\ LineOf("SENDP", a2, 0) /\ a3[1] = Sleep
      /\ EchoOf(Publish(k), a4, 0)
      /\ a5[1] = Tx(CR) /\ a5[2] = Tx(LF) /\ a5[3] = Sleep
      /\ LineOf("SENDD", a6, 0) /\ a7[1] = Sleep
      /\ EchoOf("disconnect", a8, 0)
      /\ a9[1] = Tx(CR) /\ a9[2] = Tx(LF) /\ a9[3] = Sleep
  BY <1>m, WritenUartIs, EchoedIs
<1>d. publishMQTT(k) = s9
  BY Zenon DEF publishMQTT
<1> HIDE DEF a1, a2, a3, a4, a5, a6, a7, a8, a9,
            s2, s3, s4, s5, s6, s7, s8, s9
<1>s2. /\ s2 \in Seq(Operation) /\ Len(s2) = Len(a1) + Len(a2)
      /\ Part(s2, 0, a1) /\ Part(s2, Len(a1), a2)
  BY <1>t1, <1>t2, Joined DEF s2
<1>s3. /\ s3 \in Seq(Operation) /\ Len(s3) = Len(s2) + Len(a3)
      /\ Part(s3, 0, s2) /\ Part(s3, Len(s2), a3)
  BY <1>s2, <1>t3, Joined DEF s3
<1>s4. /\ s4 \in Seq(Operation) /\ Len(s4) = Len(s3) + Len(a4)
      /\ Part(s4, 0, s3) /\ Part(s4, Len(s3), a4)
  BY <1>s3, <1>t4, Joined DEF s4
<1>s5. /\ s5 \in Seq(Operation) /\ Len(s5) = Len(s4) + Len(a5)
      /\ Part(s5, 0, s4) /\ Part(s5, Len(s4), a5)
  BY <1>s4, <1>t5, Joined DEF s5
<1>s6. /\ s6 \in Seq(Operation) /\ Len(s6) = Len(s5) + Len(a6)
      /\ Part(s6, 0, s5) /\ Part(s6, Len(s5), a6)
  BY <1>s5, <1>t6, Joined DEF s6
<1>s7. /\ s7 \in Seq(Operation) /\ Len(s7) = Len(s6) + Len(a7)
      /\ Part(s7, 0, s6) /\ Part(s7, Len(s6), a7)
  BY <1>s6, <1>t7, Joined DEF s7
<1>s8. /\ s8 \in Seq(Operation) /\ Len(s8) = Len(s7) + Len(a8)
      /\ Part(s8, 0, s7) /\ Part(s8, Len(s7), a8)
  BY <1>s7, <1>t8, Joined DEF s8
<1>s9. /\ s9 \in Seq(Operation) /\ Len(s9) = Len(s8) + Len(a9)
      /\ Part(s9, 0, s8) /\ Part(s9, Len(s8), a9)
  BY <1>s8, <1>t9, Joined DEF s9
<1>p7. Part(s9, 0, s7)
  BY <1>s9, <1>s8, PartOfStart
<1>p6. Part(s9, 0, s6)
  BY <1>p7, <1>s7, PartOfStart
<1>p5. Part(s9, 0, s5)
  BY <1>p6, <1>s6, PartOfStart
<1>p4. Part(s9, 0, s4)
  BY <1>p5, <1>s5, PartOfStart
<1>p3. Part(s9, 0, s3)
  BY <1>p4, <1>s4, PartOfStart
<1>p2. Part(s9, 0, s2)
  BY <1>p3, <1>s3, PartOfStart
<1>p1. Part(s9, 0, a1)
  BY <1>p2, <1>s2, PartOfStart
<1>p. /\ Part(s9, 0, a1)
      /\ Part(s9, Len(a1), a2)
      /\ Part(s9, Len(s2), a3)
      /\ Part(s9, Len(s3), a4)
      /\ Part(s9, Len(s4), a5)
      /\ Part(s9, Len(s5), a6)
      /\ Part(s9, Len(s6), a7)
      /\ Part(s9, Len(s7), a8)
      /\ Part(s9, Len(s8), a9)
  BY <1>p1, <1>s2, <1>p2, <1>s3, <1>p3, <1>s4, <1>p4, <1>s5, <1>p5, <1>s6,
     <1>p6, <1>s7, <1>p7, <1>s8, <1>s9, PartOfStart
<1>l1. Len(a1) = 1
  BY <1>t1
<1>l2. Len(s2) = n + 3
  BY <1>m, <1>l1, <1>s2, <1>t2
<1>l3. Len(s3) = n + 4
  BY <1>m, <1>l2, <1>s3, <1>t3
<1>l4. Len(s4) = n + 4 + 2 * m
  BY <1>m, <1>l3, <1>s4, <1>t4
<1>l5. Len(s5) = n + 4 + 2 * m + 3
  BY <1>m, <1>l4, <1>s5, <1>t5
<1>l6. Len(s6) = n + 4 + 2 * m + 3 + l + 2
  <2>1. Len(s6) = (n + 4 + 2 * m + 3) + (l + 2)
    BY <1>l5, <1>s6, <1>t6, Zenon
  <2>2. n + 4 + 2 * m + 3 \in Nat
    BY <1>z
  <2> QED
    BY <1>z, <2>1, <2>2, Sums, Zenon
<1>l7. Len(s7) = n + 4 + 2 * m + 3 + l + 3
  <2>1. Len(s7) = (n + 4 + 2 * m + 3 + l + 2) + 1
    BY <1>l6, <1>s7, <1>t7, Zenon
  <2>2. n + 4 + 2 * m + 3 \in Nat
    BY <1>z
  <2> QED
    BY <1>z, <2>1, <2>2, Sums, Zenon
<1>l8. Len(s8) = n + 4 + 2 * m + 3 + l + 3 + 2 * r
  <2>1. Len(s8) = (n + 4 + 2 * m + 3 + l + 3) + (2 * r)
    BY <1>l7, <1>s8, <1>t8, Zenon
  <2>2. n + 4 + 2 * m + 3 \in Nat
    BY <1>z
  <2> QED
    BY <1>z, <2>1, <2>2, Sums
<1>l9. Len(s9) = n + 4 + 2 * m + 3 + l + 3 + 2 * r + 3
  <2>1. Len(s9) = (n + 4 + 2 * m + 3 + l + 3 + 2 * r) + 3
    BY <1>l8, <1>s9, <1>t9, Zenon
  <2>2. n + 4 + 2 * m + 3 \in Nat
    BY <1>z
  <2> QED
    BY <1>z, <2>1, <2>2, Sums
<1>q. /\ Part(s9, 0, a1)
      /\ Part(s9, 1, a2)
      /\ Part(s9, n + 3, a3)
      /\ Part(s9, n + 4, a4)
      /\ Part(s9, n + 4 + 2 * m, a5)
      /\ Part(s9, n + 4 + 2 * m + 3, a6)
      /\ Part(s9, n + 4 + 2 * m + 3 + l + 2, a7)
      /\ Part(s9, n + 4 + 2 * m + 3 + l + 3, a8)
      /\ Part(s9, n + 4 + 2 * m + 3 + l + 3 + 2 * r, a9)
  BY <1>l1, <1>l2, <1>l3, <1>l4, <1>l5, <1>l6, <1>l7, <1>l8, <1>p, Zenon
<1>2. s9[1] = Sleep
  <2>1. 1 \in 1..Len(a1)
    BY <1>t1
  <2>3. 0 + 1 = 1
    BY <1>m
  <2>2. s9[0 + 1] = a1[1]
    BY <2>1, <1>q DEF Part
  <2> QED
    BY <1>e, <2>3, <2>2, Zenon
<1>3. LineOf("SENDP", s9, 1)
  <2>1. "SENDP" \in Arrays /\ Len(a2) = Size["SENDP"] + 2
    BY <1>m, <1>t2
  <2> QED
    BY <2>1, <1>e, <1>q, LineStarts, Zenon
<1>4. s9[n + 4] = Sleep
  <2>1. 1 \in 1..Len(a3)
    BY <1>t3
  <2>3. n + 3 + 1 = n + 4
    BY <1>m
  <2>2. s9[n + 3 + 1] = a3[1]
    BY <2>1, <1>q DEF Part
  <2> QED
    BY <1>e, <2>3, <2>2, Zenon
<1>5. EchoOf(Publish(k), s9, n + 4)
  <2>1. Publish(k) \in Arrays /\ Len(a4) = 2 * Size[Publish(k)]
    BY <1>m, <1>t4
  <2> QED
    BY <2>1, <1>e, <1>q, EchoStarts, Zenon
<1>6. s9[n + 4 + 2 * m + 1] = Tx(CR)
  <2>1. 1 \in 1..Len(a5)
    BY <1>t5
  <2>3. n + 4 + 2 * m + 1 = n + 4 + 2 * m + 1
    BY <1>m
  <2>2. s9[n + 4 + 2 * m + 1] = a5[1]
    BY <2>1, <1>q DEF Part
  <2> QED
    BY <1>e, <2>3, <2>2, Zenon
<1>7. s9[n + 4 + 2 * m + 2] = Tx(LF)
  <2>1. 2 \in 1..Len(a5)
    BY <1>t5
  <2>3. n + 4 + 2 * m + 2 = n + 4 + 2 * m + 2
    BY <1>m
  <2>2. s9[n + 4 + 2 * m + 2] = a5[2]
    BY <2>1, <1>q DEF Part
  <2> QED
    BY <1>e, <2>3, <2>2, Zenon
<1>8. s9[n + 4 + 2 * m + 3] = Sleep
  <2>1. 3 \in 1..Len(a5)
    BY <1>t5
  <2>3. n + 4 + 2 * m + 3 = n + 4 + 2 * m + 3
    BY <1>m
  <2>2. s9[n + 4 + 2 * m + 3] = a5[3]
    BY <2>1, <1>q DEF Part
  <2> QED
    BY <1>e, <2>3, <2>2, Zenon
<1>9. LineOf("SENDD", s9, n + 4 + 2 * m + 3)
  <2>1. "SENDD" \in Arrays /\ Len(a6) = Size["SENDD"] + 2
    BY <1>m, <1>t6
  <2> QED
    BY <2>1, <1>e, <1>q, LineStarts, Zenon
<1>10. s9[n + 4 + 2 * m + 3 + l + 3] = Sleep
  <2>1. 1 \in 1..Len(a7)
    BY <1>t7
  <2>3. n + 4 + 2 * m + 3 + l + 2 + 1 = n + 4 + 2 * m + 3 + l + 3
    BY <1>m
  <2>2. s9[n + 4 + 2 * m + 3 + l + 2 + 1] = a7[1]
    BY <2>1, <1>q DEF Part
  <2> QED
    BY <1>e, <2>3, <2>2, Zenon
<1>11. EchoOf("disconnect", s9, n + 4 + 2 * m + 3 + l + 3)
  <2>1. "disconnect" \in Arrays /\ Len(a8) = 2 * Size["disconnect"]
    BY <1>m, <1>t8
  <2> QED
    BY <2>1, <1>e, <1>q, EchoStarts, Zenon
<1>12. s9[n + 4 + 2 * m + 3 + l + 3 + 2 * r + 1] = Tx(CR)
  <2>1. 1 \in 1..Len(a9)
    BY <1>t9
  <2>3. n + 4 + 2 * m + 3 + l + 3 + 2 * r + 1
        = n + 4 + 2 * m + 3 + l + 3 + 2 * r + 1
    BY <1>m
  <2>2. s9[n + 4 + 2 * m + 3 + l + 3 + 2 * r + 1] = a9[1]
    BY <2>1, <1>q DEF Part
  <2> QED
    BY <1>e, <2>3, <2>2, Zenon
<1>13. s9[n + 4 + 2 * m + 3 + l + 3 + 2 * r + 2] = Tx(LF)
  <2>1. 2 \in 1..Len(a9)
    BY <1>t9
  <2>3. n + 4 + 2 * m + 3 + l + 3 + 2 * r + 2
        = n + 4 + 2 * m + 3 + l + 3 + 2 * r + 2
    BY <1>m
  <2>2. s9[n + 4 + 2 * m + 3 + l + 3 + 2 * r + 2] = a9[2]
    BY <2>1, <1>q DEF Part
  <2> QED
    BY <1>e, <2>3, <2>2, Zenon
<1>14. s9[n + 4 + 2 * m + 3 + l + 3 + 2 * r + 3] = Sleep
  <2>1. 3 \in 1..Len(a9)
    BY <1>t9
  <2>3. n + 4 + 2 * m + 3 + l + 3 + 2 * r + 3
        = n + 4 + 2 * m + 3 + l + 3 + 2 * r + 3
    BY <1>m
  <2>2. s9[n + 4 + 2 * m + 3 + l + 3 + 2 * r + 3] = a9[3]
    BY <2>1, <1>q DEF Part
  <2> QED
    BY <1>e, <2>3, <2>2, Zenon
<1> QED
  BY <1>d, <1>l9, <1>s9, <1>2, <1>3, <1>4, <1>5, <1>6, <1>7, <1>8, <1>9,
     <1>10, <1>11, <1>12, <1>13, <1>14, Zenon

\* The places of a selection, as numbers.
LEMMA Places ==
  ASSUME NEW n, NEW m, NEW l, NEW r,
         n = Size["SENDP"], m = Size["publish1"], l = Size["SENDD"],
         r = Size["disconnect"]
  PROVE  /\ n \in Nat /\ m \in Nat /\ l \in Nat /\ r \in Nat
         /\ n >= 1 /\ m >= 1 /\ l >= 1 /\ r >= 1
         /\ SendcAt \in Nat /\ ConnectAt \in Nat /\ AnswerAt \in Nat
         /\ SendcAt = Size["CIPSTART"] + 4
         /\ ConnectAt = SendcAt + Size["SENDC"] + 3
         /\ AnswerAt = ConnectAt + Size["connect"] + 2
         /\ SendpAt = AnswerAt + 2
         /\ PublishAt = AnswerAt + n + 5
         /\ AfterPublish = AnswerAt + n + 5 + 2 * m
         /\ SenddAt = AnswerAt + n + 5 + 2 * m + 3
         /\ DisconnectAt = AnswerAt + n + 5 + 2 * m + 3 + l + 3
         /\ SaidAt = AnswerAt + n + 5 + 2 * m + 3 + l + 3 + 2 * r + 4
<1>1. /\ n \in Nat /\ m \in Nat /\ l \in Nat /\ r \in Nat
      /\ n >= 1 /\ m >= 1 /\ l >= 1 /\ r >= 1
      /\ Size["CIPSTART"] \in Nat /\ Size["SENDC"] \in Nat
      /\ Size["connect"] \in Nat
  BY SizesNamed
<1>2. /\ SendcAt \in Nat /\ SendcAt = Size["CIPSTART"] + 4
  BY <1>1 DEF SendcAt
<1>3. ConnectAt \in Nat /\ ConnectAt = SendcAt + Size["SENDC"] + 3
  BY <1>1, <1>2 DEF ConnectAt
<1>4. AnswerAt \in Nat /\ AnswerAt = ConnectAt + Size["connect"] + 2
  BY <1>1, <1>3 DEF AnswerAt
<1>5. SendpAt = AnswerAt + 2
  BY DEF SendpAt
<1>6. PublishAt = AnswerAt + n + 5
  BY <1>1, <1>4, <1>5 DEF PublishAt
<1>7. AfterPublish = AnswerAt + n + 5 + 2 * m
  BY <1>6 DEF AfterPublish
<1>8. SenddAt = AnswerAt + n + 5 + 2 * m + 3
  BY <1>7 DEF SenddAt
<1>9. DisconnectAt = AnswerAt + n + 5 + 2 * m + 3 + l + 3
  BY <1>8 DEF DisconnectAt
<1>10. SaidAt = AnswerAt + n + 5 + 2 * m + 3 + l + 3 + 2 * r + 4
  BY <1>9 DEF SaidAt
<1> QED
  BY <1>1, <1>2, <1>3, <1>4, <1>5, <1>6, <1>7, <1>8, <1>9, <1>10

\* The whole of a selection.
SelectionIs(s, k) ==
  /\ s \in Seq(Operation) /\ Len(s) = SaidAt
  /\ LineOf("CIPSTART", s, 0)
  /\ s[SelectRead] = Read("CIPSTART") /\ s[SendcAt] = Sleep
  /\ LineOf("SENDC", s, SendcAt) /\ s[ConnectAt] = Sleep
  /\ LineOf("connect", s, ConnectAt)
  /\ s[AnswerAt + 1] = Show(Answer[k]) /\ s[SendpAt] = Sleep
  /\ LineOf("SENDP", s, SendpAt) /\ s[PublishAt] = Sleep
  /\ EchoOf(Publish(k), s, PublishAt)
  /\ s[AfterPublish + 1] = Tx(CR) /\ s[AfterPublish + 2] = Tx(LF)
  /\ s[SenddAt] = Sleep
  /\ LineOf("SENDD", s, SenddAt) /\ s[DisconnectAt] = Sleep
  /\ EchoOf("disconnect", s, DisconnectAt)
  /\ s[SaidAt - 3] = Tx(CR) /\ s[SaidAt - 2] = Tx(LF)
  /\ s[SaidAt - 1] = Sleep /\ s[SaidAt] = Said

LEMMA SelectedIs ==
  ASSUME NEW k \in Option
  PROVE  SelectionIs(Selected[k], k)
<1> DEFINE a1 == writenUart("CIPSTART")
           a2 == << Read("CIPSTART"), Sleep >>
           a3 == connectMQTT
           a4 == << Show(Answer[k]) >>
           a5 == publishMQTT(k)
           a6 == << Said >>
           s2 == a1 \o a2
           s3 == s2 \o a3
           s4 == s3 \o a4
           s5 == s4 \o a5
           s6 == s5 \o a6
<1>n. PICK n, m, l, r : /\ n = Size["SENDP"] /\ m = Size["publish1"]
                        /\ l = Size["SENDD"] /\ r = Size["disconnect"]
  OBVIOUS
<1>c. PICK c, d, e : /\ c = Size["CIPSTART"] /\ d = Size["SENDC"]
                     /\ e = Size["connect"]
  OBVIOUS
<1>z. /\ n \in Nat /\ m \in Nat /\ l \in Nat /\ r \in Nat
      /\ AnswerAt \in Nat /\ SendcAt \in Nat
      /\ c \in Nat /\ d \in Nat /\ e \in Nat
  BY <1>n, <1>c, Places, SizesNamed
<1>t1. /\ a1 \in Seq(Operation) /\ Len(a1) = c + 2
       /\ LineOf("CIPSTART", a1, 0)
  BY <1>c, WritenUartIs, SizesNamed
<1>t2. /\ a2 \in Seq(Operation) /\ Len(a2) = 2
       /\ a2[1] = Read("CIPSTART") /\ a2[2] = Sleep
  BY ReadIs DEF Commands
<1>t3. a3 \in Seq(Operation) /\ Len(a3) = d + e + 5
  BY <1>c, ConnectIs
<1>t4. /\ a4 \in Seq(Operation) /\ Len(a4) = 1 /\ a4[1] = Show(Answer[k])
  BY Single, Ops
<1>t5. /\ a5 \in Seq(Operation)
       /\ Len(a5) = n + 4 + 2 * m + 3 + l + 3 + 2 * r + 3
  BY <1>n, PublishMQTTIs
<1>t6. a6 \in Seq(Operation) /\ Len(a6) = 1 /\ a6[1] = Said
  BY Single, Ops
<1>d. Selected[k] = s6
  BY Zenon DEF Selected
<1> HIDE DEF a1, a2, a3, a4, a5, a6, s2, s3, s4, s5, s6
<1>s2. /\ s2 \in Seq(Operation) /\ Len(s2) = Len(a1) + Len(a2)
      /\ Part(s2, 0, a1) /\ Part(s2, Len(a1), a2)
  BY <1>t1, <1>t2, Joined DEF s2
<1>s3. /\ s3 \in Seq(Operation) /\ Len(s3) = Len(s2) + Len(a3)
      /\ Part(s3, 0, s2) /\ Part(s3, Len(s2), a3)
  BY <1>s2, <1>t3, Joined DEF s3
<1>s4. /\ s4 \in Seq(Operation) /\ Len(s4) = Len(s3) + Len(a4)
      /\ Part(s4, 0, s3) /\ Part(s4, Len(s3), a4)
  BY <1>s3, <1>t4, Joined DEF s4
<1>s5. /\ s5 \in Seq(Operation) /\ Len(s5) = Len(s4) + Len(a5)
      /\ Part(s5, 0, s4) /\ Part(s5, Len(s4), a5)
  BY <1>s4, <1>t5, Joined DEF s5
<1>s6. /\ s6 \in Seq(Operation) /\ Len(s6) = Len(s5) + Len(a6)
      /\ Part(s6, 0, s5) /\ Part(s6, Len(s5), a6)
  BY <1>s5, <1>t6, Joined DEF s6
<1>p4. Part(s6, 0, s4)
  BY <1>s6, <1>s5, PartOfStart
<1>p3. Part(s6, 0, s3)
  BY <1>p4, <1>s4, PartOfStart
<1>p2. Part(s6, 0, s2)
  BY <1>p3, <1>s3, PartOfStart
<1>p1. Part(s6, 0, a1)
  BY <1>p2, <1>s2, PartOfStart
<1>p. /\ Part(s6, 0, a1)
      /\ Part(s6, Len(a1), a2)
      /\ Part(s6, Len(s2), a3)
      /\ Part(s6, Len(s3), a4)
      /\ Part(s6, Len(s4), a5)
      /\ Part(s6, Len(s5), a6)
  BY <1>p1, <1>s2, <1>p2, <1>s3, <1>p3, <1>s4, <1>p4, <1>s5, <1>s6,
     PartOfStart
<1>l1. Len(a1) = c + 2
  BY <1>t1
<1>l2. Len(s2) = SendcAt
  <2>1. Len(s2) = c + 2 + 2
    BY <1>t1, <1>t2, <1>s2, Zenon
  <2> QED
    BY <2>1, <1>c, <1>z DEF SendcAt
<1>l3. Len(s3) = AnswerAt
  <2>1. Len(s3) = SendcAt + (d + e + 5)
    BY <1>l2, <1>t3, <1>s3, Zenon
  <2>2. AnswerAt = SendcAt + d + 3 + e + 2
    BY <1>c DEF AnswerAt, ConnectAt
  <2> QED
    BY <2>1, <2>2, <1>z
<1>l4. Len(s4) = AnswerAt + 1
  BY <1>l3, <1>t4, <1>s4, Zenon
<1>l5. Len(s5) = SaidAt - 1
  <2>1. Len(s5) = AnswerAt + 1 + Len(a5)
    BY <1>l4, <1>s5, Zenon
  <2>2. Len(s5) =
          AnswerAt + 1 + (n + 4 + 2 * m + 3 + l + 3 + 2 * r + 3)
    BY <2>1, <1>t5
  <2>3. SaidAt = AnswerAt + n + 5 + 2 * m + 3 + l + 3 + 2 * r + 4
    BY <1>n, <1>z, Places
  <2> QED
    BY <2>2, <2>3, <1>z
<1>l6. Len(s6) = SaidAt
  <2>1. Len(s6) = SaidAt - 1 + 1
    BY <1>l5, <1>s6, <1>t6, Zenon
  <2>2. SaidAt \in Int
    BY <1>n, <1>z, Places
  <2> QED
    BY <2>1, <2>2
<1>q. /\ Part(s6, 0, a1) /\ Part(s6, c + 2, a2) /\ Part(s6, SendcAt, a3)
      /\ Part(s6, AnswerAt, a4) /\ Part(s6, AnswerAt + 1, a5)
      /\ Part(s6, SaidAt - 1, a6)
  BY <1>l1, <1>l2, <1>l3, <1>l4, <1>l5, <1>p, Zenon
<1>1. LineOf("CIPSTART", s6, 0)
  BY <1>c, <1>t1, <1>q, SizesNamed, LineStarts
<1>2. s6[SelectRead] = Read("CIPSTART") /\ s6[SendcAt] = Sleep
  <2>1. s6[c + 2 + 1] = a2[1] /\ s6[c + 2 + 2] = a2[2]
    <3>1. 1 \in 1..Len(a2) /\ 2 \in 1..Len(a2)
      BY <1>t2
    <3> QED
      BY <3>1, <1>q DEF Part
  <2>2. c + 2 + 1 = SelectRead /\ c + 2 + 2 = SendcAt
    BY <1>c, <1>z DEF SelectRead, SendcAt
  <2> QED
    BY <1>t2, <2>1, <2>2, Zenon
<1>3. LineOf("SENDC", s6, SendcAt)
  <2>1. 0 \in Nat /\ Len(a3) >= 0 + Size["SENDC"] + 2 /\ SendcAt + 0 = SendcAt
    BY <1>t3, <1>c, <1>z
  <2>2. LineOf("SENDC", s6, SendcAt + 0)
    BY <2>1, <1>q, ConnectIs, LineMoves, SizesNamed DEF a3
  <2> QED
    BY <2>1, <2>2
<1>4. s6[ConnectAt] = Sleep
  <2>1. d + 3 \in 1..Len(a3) /\ SendcAt + (d + 3) = ConnectAt
    BY <1>t3, <1>c, <1>z DEF ConnectAt
  <2>2. s6[SendcAt + (d + 3)] = a3[d + 3]
    BY <2>1, <1>q DEF Part
  <2> QED
    BY <1>c, <2>1, <2>2, ConnectIs DEF a3
<1>5. LineOf("connect", s6, ConnectAt)
  <2>1. /\ Size["SENDC"] + 3 \in Nat
        /\ Len(a3) >= Size["SENDC"] + 3 + Size["connect"] + 2
        /\ SendcAt + (Size["SENDC"] + 3) = ConnectAt
    BY <1>t3, <1>c, <1>z DEF ConnectAt
  <2>2. LineOf("connect", s6, SendcAt + (Size["SENDC"] + 3))
    BY <2>1, <1>q, ConnectIs, LineMoves, SizesNamed DEF a3
  <2> QED
    BY <2>1, <2>2, Zenon
<1>6. s6[AnswerAt + 1] = Show(Answer[k])
  <2>1. 1 \in 1..Len(a4)
    BY <1>t4
  <2>2. s6[AnswerAt + 1] = a4[1]
    BY <2>1, <1>q DEF Part
  <2> QED
    BY <1>t4, <2>2
<1>7. s6[SaidAt] = Said
  <2>0. SaidAt \in Int
    BY <1>n, <1>z, Places
  <2>1. 1 \in 1..Len(a6) /\ SaidAt - 1 + 1 = SaidAt
    BY <1>t6, <2>0
  <2>2. s6[SaidAt - 1 + 1] = a6[1]
    BY <2>1, <1>q DEF Part
  <2> QED
    BY <1>t6, <2>1, <2>2
\* The places in publishMQTT.
<1>a. \A i \in 1..Len(a5) : s6[AnswerAt + 1 + i] = a5[i]
  BY <1>q DEF Part
<1>8. s6[SendpAt] = Sleep
  <2>1. 1 \in 1..Len(a5) /\ AnswerAt + 1 + 1 = SendpAt
    BY <1>t5, <1>z DEF SendpAt
  <2>2. a5[1] = Sleep
    BY <1>n, PublishMQTTIs DEF a5
  <2> QED
    BY <1>a, <2>1, <2>2
<1>9. LineOf("SENDP", s6, SendpAt)
  <2>1. 1 \in Nat /\ "SENDP" \in Arrays /\ Size["SENDP"] = n
    BY <1>n, <1>z, SizesNamed
  <2>2. Len(a5) >= 1 + Size["SENDP"] + 2
    BY <1>t5, <1>z, <2>1
  <2>3. AnswerAt + 1 + 1 = SendpAt
    BY <1>n, <1>z, Places
  <2>4. LineOf("SENDP", a5, 1)
    BY <1>n, PublishMQTTIs DEF a5
  <2>5. LineOf("SENDP", s6, AnswerAt + 1 + 1)
    BY <2>1, <2>2, <2>4, <1>q, LineMoves
  <2> QED
    BY <2>3, <2>5
<1>10. s6[PublishAt] = Sleep
  <2>1. n + 4 \in 1..Len(a5)
    BY <1>t5, <1>z
  <2>2. AnswerAt + 1 + (n + 4) = PublishAt
    BY <1>n, <1>z, Places
  <2>3. a5[n + 4] = Sleep
    BY <1>n, PublishMQTTIs DEF a5
  <2> QED
    BY <1>a, <2>1, <2>2, <2>3
<1>11. EchoOf(Publish(k), s6, PublishAt)
  <2>1. n + 4 \in Nat /\ Publish(k) \in Arrays /\ Size[Publish(k)] = m
    BY <1>n, <1>z, SizesNamed
  <2>2. Len(a5) >= n + 4 + 2 * Size[Publish(k)]
    BY <1>t5, <1>z, <2>1
  <2>3. AnswerAt + 1 + (n + 4) = PublishAt
    BY <1>n, <1>z, Places
  <2>4. EchoOf(Publish(k), a5, n + 4)
    BY <1>n, PublishMQTTIs DEF a5
  <2>5. EchoOf(Publish(k), s6, AnswerAt + 1 + (n + 4))
    BY <2>1, <2>2, <2>4, <1>q, EchoMoves
  <2> QED
    BY <2>3, <2>5
<1>12. s6[AfterPublish + 1] = Tx(CR)
  <2>1. n + 4 + 2 * m + 1 \in 1..Len(a5)
    BY <1>t5, <1>z
  <2>2. AnswerAt + 1 + (n + 4 + 2 * m + 1) = AfterPublish + 1
    BY <1>n, <1>z, Places
  <2>3. a5[n + 4 + 2 * m + 1] = Tx(CR)
    BY <1>n, PublishMQTTIs DEF a5
  <2> QED
    BY <1>a, <2>1, <2>2, <2>3
<1>13. s6[AfterPublish + 2] = Tx(LF)
  <2>1. n + 4 + 2 * m + 2 \in 1..Len(a5)
    BY <1>t5, <1>z
  <2>2. AnswerAt + 1 + (n + 4 + 2 * m + 2) = AfterPublish + 2
    BY <1>n, <1>z, Places
  <2>3. a5[n + 4 + 2 * m + 2] = Tx(LF)
    BY <1>n, PublishMQTTIs DEF a5
  <2> QED
    BY <1>a, <2>1, <2>2, <2>3
<1>14. s6[SenddAt] = Sleep
  <2>1. n + 4 + 2 * m + 3 \in 1..Len(a5)
    BY <1>t5, <1>z
  <2>2. AnswerAt + 1 + (n + 4 + 2 * m + 3) = SenddAt
    BY <1>n, <1>z, Places
  <2>3. a5[n + 4 + 2 * m + 3] = Sleep
    BY <1>n, PublishMQTTIs DEF a5
  <2> QED
    BY <1>a, <2>1, <2>2, <2>3
<1>15. LineOf("SENDD", s6, SenddAt)
  <2>1. n + 4 + 2 * m + 3 \in Nat /\ "SENDD" \in Arrays /\ Size["SENDD"] = l
    BY <1>n, <1>z, SizesNamed
  <2>2. Len(a5) >= n + 4 + 2 * m + 3 + Size["SENDD"] + 2
    BY <1>t5, <1>z, <2>1
  <2>3. AnswerAt + 1 + (n + 4 + 2 * m + 3) = SenddAt
    BY <1>n, <1>z, Places
  <2>4. LineOf("SENDD", a5, n + 4 + 2 * m + 3)
    BY <1>n, PublishMQTTIs DEF a5
  <2>5. LineOf("SENDD", s6, AnswerAt + 1 + (n + 4 + 2 * m + 3))
    BY <2>1, <2>2, <2>4, <1>q, LineMoves
  <2> QED
    BY <2>3, <2>5
<1>16. s6[DisconnectAt] = Sleep
  <2>1. n + 4 + 2 * m + 3 + l + 3 \in 1..Len(a5)
    BY <1>t5, <1>z
  <2>2. AnswerAt + 1 + (n + 4 + 2 * m + 3 + l + 3) = DisconnectAt
    BY <1>n, <1>z, Places
  <2>3. a5[n + 4 + 2 * m + 3 + l + 3] = Sleep
    BY <1>n, PublishMQTTIs DEF a5
  <2> QED
    BY <1>a, <2>1, <2>2, <2>3
<1>17. EchoOf("disconnect", s6, DisconnectAt)
  <2>1. /\ n + 4 + 2 * m + 3 + l + 3 \in Nat
        /\ "disconnect" \in Arrays /\ Size["disconnect"] = r
    BY <1>n, <1>z, SizesNamed
  <2>2. Len(a5) >= n + 4 + 2 * m + 3 + l + 3 + 2 * Size["disconnect"]
    BY <1>t5, <1>z, <2>1
  <2>3. AnswerAt + 1 + (n + 4 + 2 * m + 3 + l + 3) = DisconnectAt
    BY <1>n, <1>z, Places
  <2>4. EchoOf("disconnect", a5, n + 4 + 2 * m + 3 + l + 3)
    BY <1>n, PublishMQTTIs DEF a5
  <2>5. EchoOf("disconnect", s6, AnswerAt + 1 + (n + 4 + 2 * m + 3 + l + 3))
    BY <2>1, <2>2, <2>4, <1>q, EchoMoves
  <2> QED
    BY <2>3, <2>5
<1>18. s6[SaidAt - 3] = Tx(CR)
  <2>1. n + 4 + 2 * m + 3 + l + 3 + 2 * r + 1 \in 1..Len(a5)
    BY <1>t5, <1>z
  <2>2. AnswerAt + 1 + (n + 4 + 2 * m + 3 + l + 3 + 2 * r + 1) = SaidAt - 3
    BY <1>n, <1>z, Places
  <2>3. a5[n + 4 + 2 * m + 3 + l + 3 + 2 * r + 1] = Tx(CR)
    BY <1>n, PublishMQTTIs DEF a5
  <2> QED
    BY <1>a, <2>1, <2>2, <2>3
<1>19. s6[SaidAt - 2] = Tx(LF)
  <2>1. n + 4 + 2 * m + 3 + l + 3 + 2 * r + 2 \in 1..Len(a5)
    BY <1>t5, <1>z
  <2>2. AnswerAt + 1 + (n + 4 + 2 * m + 3 + l + 3 + 2 * r + 2) = SaidAt - 2
    BY <1>n, <1>z, Places
  <2>3. a5[n + 4 + 2 * m + 3 + l + 3 + 2 * r + 2] = Tx(LF)
    BY <1>n, PublishMQTTIs DEF a5
  <2> QED
    BY <1>a, <2>1, <2>2, <2>3
<1>20. s6[SaidAt - 1] = Sleep
  <2>1. n + 4 + 2 * m + 3 + l + 3 + 2 * r + 3 \in 1..Len(a5)
    BY <1>t5, <1>z
  <2>2. AnswerAt + 1 + (n + 4 + 2 * m + 3 + l + 3 + 2 * r + 3) = SaidAt - 1
    BY <1>n, <1>z, Places
  <2>3. a5[n + 4 + 2 * m + 3 + l + 3 + 2 * r + 3] = Sleep
    BY <1>n, PublishMQTTIs DEF a5
  <2> QED
    BY <1>a, <2>1, <2>2, <2>3
<1>21. SelectionIs(s6, k)
  BY <1>s6, <1>l6, <1>1, <1>2, <1>3, <1>4, <1>5, <1>6, <1>7, <1>8, <1>9,
     <1>10, <1>11, <1>12, <1>13, <1>14, <1>15, <1>16, <1>17, <1>18, <1>19,
     <1>20, Zenon DEF SelectionIs
<1> QED
  BY <1>d, <1>21, Zenon

-----------------------------------------------------------------------------
(* Which operation stands at a place.                                      *)

LEMMA LineCover ==
  ASSUME NEW x \in Arrays, NEW s, NEW b \in Nat, NEW i \in Nat,
         LineOf(x, s, b), i > b, i <= b + Size[x] + 2
  PROVE  \/ i - b \in 1..Size[x] /\ s[i] = Tx(<<x, i - b>>)
         \/ i - b = Size[x] + 1 /\ s[i] = Tx(CR)
         \/ i - b = Size[x] + 2 /\ s[i] = Tx(LF)
<1>1. Size[x] \in Nat
  BY SizeIs
<1>2. CASE i <= b + Size[x]
  <2>1. i - b \in 1..Size[x] /\ b + (i - b) = i
    BY <1>1, <1>2
  <2> QED
    BY <2>1 DEF LineOf
<1>3. CASE i = b + Size[x] + 1
  <2>1. i - b = Size[x] + 1
    BY <1>1, <1>3
  <2> QED
    BY <1>3, <2>1 DEF LineOf
<1>4. CASE i = b + Size[x] + 2
  <2>1. i - b = Size[x] + 2
    BY <1>1, <1>4
  <2> QED
    BY <1>4, <2>1 DEF LineOf
<1>5. i <= b + Size[x] \/ i = b + Size[x] + 1 \/ i = b + Size[x] + 2
  BY <1>1
<1> QED
  BY <1>2, <1>3, <1>4, <1>5, Zenon

LEMMA EchoCover ==
  ASSUME NEW x \in Arrays, NEW s, NEW b \in Nat, NEW i \in Nat,
         EchoOf(x, s, b), i > b, i <= b + 2 * Size[x]
  PROVE  \E j \in 1..Size[x] :
           \/ i = b + 2 * j - 1 /\ s[i] = Put
           \/ i = b + 2 * j /\ s[i] = Tx(<<x, j>>)
<1>1. Size[x] \in Nat
  BY SizeIs
<1>2. PICK j \in Int : i - b = 2 * j \/ i - b = 2 * j - 1
  <2>1. i - b \in Int
    OBVIOUS
  <2>2. \A d \in Int : \/ d = 2 * (d \div 2)
                       \/ d = 2 * (d \div 2 + 1) - 1
    OBVIOUS
  <2>3. (i - b) \div 2 \in Int /\ (i - b) \div 2 + 1 \in Int
    BY <2>1
  <2> QED
    BY <2>1, <2>2, <2>3, Zenon
<1>3. j \in 1..Size[x] /\ (i = b + 2 * j \/ i = b + 2 * j - 1)
  BY <1>1, <1>2
<1> QED
  BY <1>3 DEF EchoOf

\* A byte of a routine, other than those of the publish.
Common(o) ==
  \/ \E x \in Arrays \ Publishes : \E j \in 1..39 : o = Tx(<<x, j>>)
  \/ o = Tx(CR) \/ o = Tx(LF) \/ o = Sleep \/ o = Put

LEMMA LineIsCommon ==
  ASSUME NEW x \in Arrays \ Publishes, NEW s, NEW b \in Nat, NEW i \in Nat,
         LineOf(x, s, b), i > b, i <= b + Size[x] + 2
  PROVE  Common(s[i])
<1>1. Size[x] \in 1..39
  BY SizeIs
<1>2. i - b \in 1..Size[x] => i - b \in 1..39
  BY <1>1
<1> QED
  BY <1>2, LineCover DEF Common

LEMMA EchoIsCommon ==
  ASSUME NEW x \in Arrays \ Publishes, NEW s, NEW b \in Nat, NEW i \in Nat,
         EchoOf(x, s, b), i > b, i <= b + 2 * Size[x]
  PROVE  Common(s[i])
<1>1. Size[x] \in 1..39
  BY SizeIs
<1>2. PICK j \in 1..Size[x] : s[i] = Put \/ s[i] = Tx(<<x, j>>)
  BY EchoCover
<1>3. j \in 1..39
  BY <1>1
<1> QED
  BY <1>2, <1>3 DEF Common

LEMMA NotPublishes ==
  {"AT", "CWMODE", "CWJAP", "CIPSTART", "SENDC", "SENDP", "SENDD",
   "connect", "disconnect"} \subseteq Arrays \ Publishes
BY ArrayNames DEF Arrays, Commands, Packets

LEMMA BootPlaces ==
  /\ CwmodeAt \in Nat /\ CwjapAt \in Nat /\ MenuAt \in Nat
  /\ BootRead1 \in Nat /\ BootRead2 \in Nat
  /\ BootRead1 >= 4 /\ CwmodeAt = BootRead1 + 1 /\ BootRead2 >= CwmodeAt + 4
  /\ CwjapAt = BootRead2 + 1 /\ MenuAt >= CwjapAt + 5
BY SizesNamed DEF CwmodeAt, CwjapAt, MenuAt, BootRead1, BootRead2

LEMMA BootOp ==
  ASSUME NEW i \in 1..MenuAt + 1
  PROVE  \/ Common(Boot[i])
         \/ i = BootRead1 /\ Boot[i] = Read("AT")
         \/ i = BootRead2 /\ Boot[i] = Read("CWMODE")
         \/ i = MenuAt - 1 /\ Boot[i] = Read("CWJAP")
         \/ i = MenuAt + 1 /\ Boot[i] = Show(Opcao[0])
<1>n. PICK n, m, l : n = Size["AT"] /\ m = Size["CWMODE"] /\ l = Size["CWJAP"]
  OBVIOUS
<1>1. n \in Nat /\ m \in Nat /\ l \in Nat
  BY <1>n, SizesNamed
<1>2. /\ CwmodeAt = n + 4 /\ CwjapAt = n + 4 + m + 4
      /\ MenuAt = n + 4 + m + 4 + l + 4
  BY <1>n DEF CwmodeAt, CwjapAt, MenuAt
<1>3. BootRead1 = n + 3 /\ BootRead2 = CwmodeAt + m + 3
  BY <1>n DEF BootRead1, BootRead2
<1>4. i \in Nat /\ 0 \in Nat /\ CwmodeAt \in Nat /\ CwjapAt \in Nat
  BY <1>1, <1>2
<1>5. \/ i > 0 /\ i <= 0 + n + 2
      \/ i = n + 3 \/ i = CwmodeAt
      \/ i > CwmodeAt /\ i <= CwmodeAt + m + 2
      \/ i = CwmodeAt + m + 3 \/ i = CwjapAt
      \/ i > CwjapAt /\ i <= CwjapAt + l + 2
      \/ i = CwjapAt + l + 3 \/ i = MenuAt \/ i = MenuAt + 1
  BY <1>1, <1>2
<1>6. CASE i > 0 /\ i <= 0 + n + 2
  BY <1>4, <1>6, <1>n, BootIs, LineIsCommon, NotPublishes
<1>7. CASE i > CwmodeAt /\ i <= CwmodeAt + m + 2
  BY <1>4, <1>7, <1>n, BootIs, LineIsCommon, NotPublishes
<1>8. CASE i > CwjapAt /\ i <= CwjapAt + l + 2
  BY <1>4, <1>8, <1>n, BootIs, LineIsCommon, NotPublishes
<1>9. CASE i \in {CwmodeAt, CwjapAt, MenuAt}
  BY <1>9, BootIs DEF Common
<1>10. CASE i = n + 3
  BY <1>3, <1>10, <1>n, BootIs
<1>11. CASE i = CwmodeAt + m + 3
  BY <1>3, <1>11, <1>n, BootIs
<1>12. CASE i = CwjapAt + l + 3
  <2>1. CwjapAt + l + 3 = MenuAt - 1
    BY <1>1, <1>2
  <2> QED
    BY <2>1, <1>12, <1>n, BootIs
<1>13. CASE i = MenuAt + 1
  BY <1>13, BootIs
<1> QED
  BY <1>5, <1>6, <1>7, <1>8, <1>9, <1>10, <1>11, <1>12, <1>13

LEMMA SelectedOp ==
  ASSUME NEW k \in Option, NEW i \in 1..SaidAt
  PROVE  \/ Common(Selected[k][i])
         \/ i = SelectRead /\ Selected[k][i] = Read("CIPSTART")
         \/ i = AnswerAt + 1 /\ Selected[k][i] = Show(Answer[k])
         \/ \E j \in 1..Size["publish1"] :
              /\ i = PublishAt + 2 * j
              /\ Selected[k][i] = Tx(<<Publish(k), j>>)
         \/ i = SaidAt /\ Selected[k][i] = Said
<1> DEFINE s == Selected[k]
<1>s. SelectionIs(s, k)
  BY SelectedIs
<1> HIDE DEF s
<1>n. PICK n, m, l, r : /\ n = Size["SENDP"] /\ m = Size["publish1"]
                        /\ l = Size["SENDD"] /\ r = Size["disconnect"]
  OBVIOUS
<1>c. PICK c, d, e : /\ c = Size["CIPSTART"] /\ d = Size["SENDC"]
                     /\ e = Size["connect"]
  OBVIOUS
<1>1. /\ n \in Nat /\ m \in Nat /\ l \in Nat /\ r \in Nat
      /\ c \in Nat /\ d \in Nat /\ e \in Nat
      /\ SendcAt \in Nat /\ ConnectAt \in Nat /\ AnswerAt \in Nat
  BY <1>n, <1>c, Places, SizesNamed
<1>2. /\ SendcAt = c + 4 /\ ConnectAt = SendcAt + d + 3
      /\ AnswerAt = ConnectAt + e + 2
  BY <1>c DEF SendcAt, ConnectAt, AnswerAt
<1>3. /\ SendpAt = AnswerAt + 2 /\ PublishAt = SendpAt + n + 3
      /\ AfterPublish = PublishAt + 2 * m /\ SenddAt = AfterPublish + 3
      /\ DisconnectAt = SenddAt + l + 3
      /\ SaidAt = DisconnectAt + 2 * r + 4
  BY <1>n DEF SendpAt, PublishAt, AfterPublish, SenddAt, DisconnectAt, SaidAt
<1>4. SelectRead = c + 3
  BY <1>c DEF SelectRead
<1>5. /\ SendpAt \in Nat /\ PublishAt \in Nat /\ AfterPublish \in Nat
      /\ SenddAt \in Nat /\ DisconnectAt \in Nat /\ 0 \in Nat /\ i \in Nat
      /\ SaidAt \in Nat
  BY <1>1, <1>3
<1>6. \/ i > 0 /\ i <= 0 + c + 2
      \/ i = SelectRead \/ i = SendcAt
      \/ i > SendcAt /\ i <= SendcAt + d + 2
      \/ i = ConnectAt
      \/ i > ConnectAt /\ i <= ConnectAt + e + 2
      \/ i > AnswerAt
  BY <1>1, <1>2, <1>4
<1>7. i > AnswerAt =>
        \/ i = AnswerAt + 1 \/ i = SendpAt
        \/ i > SendpAt /\ i <= SendpAt + n + 2
        \/ i = PublishAt
        \/ i > PublishAt /\ i <= PublishAt + 2 * m
        \/ i > AfterPublish
  BY <1>1, <1>3
<1>8. i > AfterPublish =>
        \/ i = AfterPublish + 1 \/ i = AfterPublish + 2 \/ i = SenddAt
        \/ i > SenddAt /\ i <= SenddAt + l + 2
        \/ i = DisconnectAt
        \/ i > DisconnectAt /\ i <= DisconnectAt + 2 * r
        \/ i = SaidAt - 3 \/ i = SaidAt - 2 \/ i = SaidAt - 1 \/ i = SaidAt
  BY <1>1, <1>3, <1>5
<1>10. CASE i > 0 /\ i <= 0 + c + 2
  BY <1>5, <1>10, <1>c, <1>s, LineIsCommon, NotPublishes DEF SelectionIs, s
<1>11. CASE i > SendcAt /\ i <= SendcAt + d + 2
  BY <1>1, <1>5, <1>11, <1>c, <1>s, LineIsCommon, NotPublishes
     DEF SelectionIs, s
<1>12. CASE i > ConnectAt /\ i <= ConnectAt + e + 2
  BY <1>1, <1>5, <1>12, <1>c, <1>s, LineIsCommon, NotPublishes
     DEF SelectionIs, s
<1>13. CASE i > SendpAt /\ i <= SendpAt + n + 2
  BY <1>1, <1>5, <1>13, <1>n, <1>s, LineIsCommon, NotPublishes
     DEF SelectionIs, s
<1>14. CASE i > SenddAt /\ i <= SenddAt + l + 2
  BY <1>1, <1>5, <1>14, <1>n, <1>s, LineIsCommon, NotPublishes
     DEF SelectionIs, s
<1>15. CASE i > DisconnectAt /\ i <= DisconnectAt + 2 * r
  BY <1>1, <1>5, <1>15, <1>n, <1>s, EchoIsCommon, NotPublishes
     DEF SelectionIs, s
<1>16. CASE i > PublishAt /\ i <= PublishAt + 2 * m
  <2>1. Publish(k) \in Arrays /\ Size[Publish(k)] = m
    BY <1>n, SizesNamed
  <2>2. EchoOf(Publish(k), s, PublishAt)
    BY <1>s DEF SelectionIs
  <2>3. PICK j \in 1..m : \/ i = PublishAt + 2 * j - 1 /\ s[i] = Put
                          \/ i = PublishAt + 2 * j
                             /\ s[i] = Tx(<<Publish(k), j>>)
    BY <1>5, <1>16, <2>1, <2>2, EchoCover
  <2> QED
    BY <1>n, <2>3 DEF Common, s
<1>17. CASE i \in {SendcAt, ConnectAt, SendpAt, PublishAt, SenddAt,
                   DisconnectAt, SaidAt - 1}
  <2>1. s[i] = Sleep
    BY <1>17, <1>s DEF SelectionIs
  <2> QED
    BY <2>1 DEF Common, s
<1>18. CASE i \in {AfterPublish + 1, AfterPublish + 2, SaidAt - 3, SaidAt - 2}
  <2>1. s[i] = Tx(CR) \/ s[i] = Tx(LF)
    BY <1>18, <1>s DEF SelectionIs
  <2> QED
    BY <2>1 DEF Common, s
<1>19. CASE i \in {SelectRead, AnswerAt + 1, SaidAt}
  BY <1>19, <1>s DEF SelectionIs, s
<1> QED
  BY <1>6, <1>7, <1>8, <1>10, <1>11, <1>12, <1>13, <1>14, <1>15, <1>16, <1>17,
     <1>18, <1>19, Zenon

-----------------------------------------------------------------------------
(* Types.                                                                  *)

LEMMA Fields ==
  /\ \A b : Tx(b).op = "tx" /\ Tx(b).arg = b
  /\ \A x : Read(x).op = "read" /\ Read(x).arg = x
  /\ \A t : Show(t).op = "show" /\ Show(t).arg = t
  /\ Sleep.op = "sleep" /\ Put.op = "put" /\ Said.op = "said"
BY DEF Tx, Read, Show, Sleep, Put, Said, Op

LEMMA CommonFields ==
  ASSUME NEW o, Common(o)
  PROVE  /\ o.op \in {"tx", "sleep", "put"}
         /\ o.op = "tx" =>
              \/ o.arg = CR \/ o.arg = LF
              \/ \E x \in Arrays \ Publishes : \E j \in 1..39 : o.arg = <<x, j>>
<1>1. ASSUME NEW x \in Arrays \ Publishes, NEW j \in 1..39, o = Tx(<<x, j>>)
      PROVE  o.op = "tx" /\ o.arg = <<x, j>>
  BY <1>1, Fields
<1>2. CASE \E x \in Arrays \ Publishes : \E j \in 1..39 : o = Tx(<<x, j>>)
  BY <1>1, <1>2
<1>3. CASE o \in {Tx(CR), Tx(LF), Sleep, Put}
  BY <1>3, Fields
<1> QED
  BY <1>2, <1>3 DEF Common

\* The program is somewhere in its routine.
Placed == count \in Option /\ at \in 1..Len(Script) + 1

LEMMA ScriptIs ==
  ASSUME Placed
  PROVE  /\ pc = "boot" => Script = Boot /\ Len(Script) = MenuAt + 1
         /\ pc # "boot" => Script = Selected[count] /\ Len(Script) = SaidAt
         /\ Len(Script) \in Nat /\ at \in Nat /\ at >= 1
<1>1. pc = "boot" => Script = Boot /\ Len(Script) = MenuAt + 1
  BY BootIs DEF Script
<1>2. pc # "boot" => Script = Selected[count] /\ Len(Script) = SaidAt
  BY SelectedIs DEF Script, SelectionIs, Placed
<1>3. MenuAt + 1 \in Nat /\ SaidAt \in Nat
  <2>1. MenuAt \in Nat
    BY BootPlaces
  <2>2. PICK n, m, l, r : /\ n = Size["SENDP"] /\ m = Size["publish1"]
                          /\ l = Size["SENDD"] /\ r = Size["disconnect"]
    OBVIOUS
  <2>3. SaidAt \in Nat
    BY <2>2, Places
  <2> QED
    BY <2>1, <2>3
<1>4. Len(Script) \in Nat
  BY <1>1, <1>2, <1>3
<1> QED
  BY <1>1, <1>2, <1>4 DEF Placed

\* What the operation at hand can be.
LEMMA AtHand ==
  ASSUME Placed, Running, at <= Len(Script)
  PROVE  \/ Common(Script[at])
         \/ /\ pc = "boot"
            /\ \/ at = BootRead1 /\ Script[at] = Read("AT")
               \/ at = BootRead2 /\ Script[at] = Read("CWMODE")
               \/ at = MenuAt - 1 /\ Script[at] = Read("CWJAP")
               \/ at = MenuAt + 1 /\ Script[at] = Show(Opcao[0])
         \/ /\ pc = "select"
            /\ \/ at = SelectRead /\ Script[at] = Read("CIPSTART")
               \/ at = AnswerAt + 1 /\ Script[at] = Show(Answer[count])
               \/ \E j \in 1..Size["publish1"] :
                    /\ at = PublishAt + 2 * j
                    /\ Script[at] = Tx(<<Publish(count), j>>)
               \/ at = SaidAt /\ Script[at] = Said
<1>1. CASE pc = "boot"
  <2>1. Script = Boot /\ at \in 1..MenuAt + 1
    BY <1>1, ScriptIs, BootPlaces
  <2> QED
    BY <1>1, <2>1, BootOp
<1>2. CASE pc = "select"
  <2>1. Script = Selected[count] /\ at \in 1..SaidAt
    BY <1>2, ScriptIs
  <2>2. count \in Option
    BY DEF Placed
  <2> QED
    BY <1>2, <2>1, <2>2, SelectedOp, Zenon
<1> QED
  BY <1>1, <1>2 DEF Running

LEMMA AtTx ==
  ASSUME Placed, AtOp("tx")
  PROVE  \/ Arg = CR \/ Arg = LF
         \/ \E x \in Arrays \ Publishes : \E j \in 1..39 : Arg = <<x, j>>
         \/ /\ pc = "select"
            /\ \E j \in 1..Size["publish1"] :
                 at = PublishAt + 2 * j /\ Arg = <<Publish(count), j>>
<1>1. Running /\ at <= Len(Script) /\ Script[at].op = "tx"
  BY DEF AtOp
<1>2. CASE Common(Script[at])
  BY <1>1, <1>2, CommonFields, Zenon DEF Arg
<1>3. CASE /\ pc = "select"
           /\ \E j \in 1..Size["publish1"] :
                /\ at = PublishAt + 2 * j
                /\ Script[at] = Tx(<<Publish(count), j>>)
  BY <1>3, Fields, Zenon DEF Arg
<1> QED
  BY <1>1, <1>2, <1>3, AtHand, Fields

LEMMA AtRead ==
  ASSUME Placed, AtOp("read")
  PROVE  \/ pc = "boot" /\ at = BootRead1 /\ Arg = "AT"
         \/ pc = "boot" /\ at = BootRead2 /\ Arg = "CWMODE"
         \/ pc = "boot" /\ at = MenuAt - 1 /\ Arg = "CWJAP"
         \/ pc = "select" /\ at = SelectRead /\ Arg = "CIPSTART"
<1>1. Running /\ at <= Len(Script) /\ Script[at].op = "read"
  BY DEF AtOp
<1>2. ~Common(Script[at])
  BY <1>1, CommonFields
<1>3. /\ \A t : Script[at] # Show(t)
      /\ \A b : Script[at] # Tx(b)
      /\ Script[at] # Said
  BY <1>1, Fields
<1>4. \/ pc = "boot" /\ at = BootRead1 /\ Script[at] = Read("AT")
      \/ pc = "boot" /\ at = BootRead2 /\ Script[at] = Read("CWMODE")
      \/ pc = "boot" /\ at = MenuAt - 1 /\ Script[at] = Read("CWJAP")
      \/ pc = "select" /\ at = SelectRead /\ Script[at] = Read("CIPSTART")
  BY <1>1, <1>2, <1>3, AtHand, Zenon
<1>5. \A x : Script[at] = Read(x) => Arg = x
  BY Fields DEF Arg
<1> QED
  BY <1>4, <1>5, Zenon

LEMMA AtShow ==
  ASSUME Placed, AtOp("show")
  PROVE  \/ pc = "boot" /\ at = MenuAt + 1 /\ Arg = Opcao[0]
         \/ pc = "select" /\ at = AnswerAt + 1 /\ Arg = Answer[count]
<1>1. Running /\ at <= Len(Script) /\ Script[at].op = "show"
  BY DEF AtOp
<1>2. ~Common(Script[at])
  BY <1>1, CommonFields
<1>3. /\ \A x : Script[at] # Read(x)
      /\ \A b : Script[at] # Tx(b)
      /\ Script[at] # Said
  BY <1>1, Fields
<1>4. \/ /\ pc = "boot" /\ at = MenuAt + 1
         /\ Script[at] = Show(Opcao[0])
      \/ /\ pc = "select" /\ at = AnswerAt + 1
         /\ Script[at] = Show(Answer[count])
  BY <1>1, <1>2, <1>3, AtHand, Zenon
<1>5. \A t : Script[at] = Show(t) => Arg = t
  BY Fields DEF Arg
<1> QED
  BY <1>4, <1>5, Zenon

LEMMA AtSaid ==
  ASSUME Placed, AtOp("said")
  PROVE  pc = "select" /\ at = SaidAt
<1>1. Running /\ at <= Len(Script) /\ Script[at].op = "said"
  BY DEF AtOp
<1>2. ~Common(Script[at])
  BY <1>1, CommonFields
<1> QED
  BY <1>1, <1>2, AtHand, Fields

\* What the program can write, what the ESP can have received of it, and what
\* it can answer.
Bytes    == {<<x, i>> : x \in Arrays, i \in 1..39} \cup {CR, LF}
Answers  == {Other} \cup {K(x) : x \in Commands \cup {"send"}}
Lines    == {Empty, Junk} \cup Bytes

LEMMA ByteIs ==
  /\ \A x \in Arrays : \A i \in 1..39 : <<x, i>> \in Bytes
  /\ \A b \in Bytes : \/ b = CR \/ b = LF
                      \/ \E x \in Arrays : \E i \in 1..39 : b = <<x, i>>
  /\ CR \in Bytes /\ LF \in Bytes
<1>1. \A x \in Arrays : \A i \in 1..39 : <<x, i>> \in Bytes
  BY DEF Bytes
<1>2. ASSUME NEW b \in Bytes, b # CR, b # LF
      PROVE  \E x \in Arrays : \E i \in 1..39 : b = <<x, i>>
  BY <1>2 DEF Bytes
<1>3. CR \in Bytes /\ LF \in Bytes
  BY DEF Bytes
<1> QED
  BY <1>1, <1>2, <1>3

LEMMA TxIsByte ==
  ASSUME Placed, AtOp("tx")
  PROVE  Arg \in Bytes
<1>1. \A x \in Arrays \ Publishes : x \in Arrays
  OBVIOUS
<1>2. ASSUME pc = "select", NEW j \in 1..Size["publish1"],
             Arg = <<Publish(count), j>>
      PROVE  Arg \in Bytes
  <2>1. count \in Option
    BY DEF Placed
  <2>2. Publish(count) \in Arrays /\ Size["publish1"] \in 1..39
    BY <2>1, SizesNamed, SizeIs
  <2>3. j \in 1..39
    BY <2>2
  <2> QED
    BY <1>2, <2>2, <2>3, ByteIs
<1> QED
  BY <1>1, <1>2, AtTx, ByteIs, Zenon

LEMMA AnnouncedIs ==
  /\ DOMAIN Announced = {"SENDC", "SENDP", "SENDD"}
  /\ \A x \in {"SENDC", "SENDP", "SENDD"} : Announced[x] \in 1..24
  /\ Announced["SENDC"] = Size["connect"]
  /\ Announced["SENDP"] = Size["publish1"]
  /\ Announced["SENDD"] = Size["disconnect"]
<1>1. DOMAIN FullAnnounced = {"SENDC", "SENDP", "SENDD"}
  BY DEF FullAnnounced
<1>2. \A x \in {"SENDC", "SENDP", "SENDD"} :
        Announced[x] = IF FullAnnounced[x] < MaxLen THEN FullAnnounced[x]
                       ELSE MaxLen
  BY <1>1 DEF Announced, Cut
<1>3. /\ FullAnnounced["SENDC"] = 20 /\ FullAnnounced["SENDP"] = 24
      /\ FullAnnounced["SENDD"] = 2
  BY DEF FullAnnounced
<1>4. MaxLen \in Nat /\ MaxLen >= 1
  BY EspAssumption
<1>5. \A x \in {"SENDC", "SENDP", "SENDD"} : Announced[x] \in 1..24
  BY <1>2, <1>3, <1>4
<1>6. \A x \in Arrays :
        Size[x] = IF FullSize[x] < MaxLen THEN FullSize[x] ELSE MaxLen
  BY ArrayNames DEF Size, Cut
<1>7. /\ FullSize["connect"] = 20 /\ FullSize["publish1"] = 24
      /\ FullSize["disconnect"] = 2
  BY DEF FullSize
<1>8. {"connect", "publish1", "disconnect"} \subseteq Arrays
  BY SizesNamed
<1>9. /\ Announced["SENDC"] = Size["connect"]
      /\ Announced["SENDP"] = Size["publish1"]
      /\ Announced["SENDD"] = Size["disconnect"]
  BY <1>2, <1>3, <1>6, <1>7, <1>8
<1>10. DOMAIN Announced = {"SENDC", "SENDP", "SENDD"}
  BY <1>1 DEF Announced, Cut
<1> QED
  BY <1>5, <1>9, <1>10

LEMMA Different ==
  /\ CR # LF /\ Empty # Junk /\ Empty # CR /\ Empty # LF
  /\ Junk # CR /\ Junk # LF /\ Junk \notin Bytes /\ Empty \notin Bytes
  /\ Other \notin {K(x) : x \in Commands \cup {"send"}}
  /\ Other[1] = "." /\ \A x : K(x)[1] = "K" /\ K(x)[2] = x
  /\ CR[1] = "CR" /\ LF[1] = "LF" /\ Empty[1] = "empty" /\ Junk[1] = "junk"
  /\ CR[2] = 1 /\ LF[2] = 1
  /\ {"CR", "LF", "empty", "junk"} \cap Arrays = {}
<1>1. {"CR", "LF", "empty", "junk"} \cap Arrays = {}
  BY ArrayNames DEF Arrays, Commands, Packets
<1>2. /\ CR[1] = "CR" /\ LF[1] = "LF" /\ Empty[1] = "empty" /\ Junk[1] = "junk"
      /\ CR[2] = 1 /\ LF[2] = 1
  BY DEF CR, LF, Empty, Junk
<1>3. Junk \notin Bytes /\ Empty \notin Bytes
  <2>1. \A b \in Bytes : b[1] \in Arrays \cup {"CR", "LF"}
    BY <1>2, ByteIs
  <2> QED
    BY <1>1, <1>2, <2>1
<1>4. Other[1] = "." /\ \A x : K(x)[1] = "K" /\ K(x)[2] = x
  BY DEF Other, K
<1>5. Other \notin {K(x) : x \in Commands \cup {"send"}}
  BY <1>4
<1> QED
  BY <1>1, <1>2, <1>3, <1>4, <1>5

EspInv ==
  /\ EspTypeOK
  /\ mode = "cmd" => rem = 0
  /\ mode = "data" => rem >= 1

LEMMA EspTypes ==
  EspTypeOK <=> /\ mode \in {"cmd", "data"} /\ line \in Lines
                /\ rem \in 0..24 /\ job \in Commands \cup {"none", "send"}
                /\ out \in Seq(Answers) /\ tcp \in BOOLEAN
                /\ session \in {"none", "open", "closing"}
                /\ inbox \in Seq(Option) /\ drops \in 0..MaxDrops
BY DEF EspTypeOK, Lines, Bytes, Arrays, Answers

LEMMA Extended ==
  ASSUME NEW l, NEW b
  PROVE  Extend(l, b) = b \/ Extend(l, b) = Junk
BY DEF Extend

LEMMA AnswersAre ==
  /\ Other \in Answers
  /\ \A x \in Commands \cup {"send"} :
       Ok(x) \in Seq(Answers) /\ Len(Ok(x)) = 3 /\ Ok(x)[1] = Other
       /\ Ok(x)[2] = K(x) /\ Ok(x)[3] = Other
<1>1. Other \in Answers
  BY DEF Answers
<1>2. ASSUME NEW x \in Commands \cup {"send"}
      PROVE  Ok(x) \in Seq(Answers) /\ Len(Ok(x)) = 3 /\ Ok(x)[1] = Other
             /\ Ok(x)[2] = K(x) /\ Ok(x)[3] = Other
  <2>1. K(x) \in Answers
    BY DEF Answers
  <2> QED
    BY <1>1, <2>1 DEF Ok
<1> QED
  BY <1>1, <1>2

\* A byte of a command line.
LEMMA HeardAs ==
  ASSUME NEW b, EspReceive(b), mode = "cmd"
  PROVE  /\ UNCHANGED <<mode, rem>>
         /\ b = LF =>
              /\ line' = IF job = "send" THEN line ELSE Empty
              /\ IF job = "none" /\ Whole(line, Commands)
                 THEN job' = line[1] /\ out' = out
                 ELSE out' = Append(out, Other) /\ job' = job
         /\ b # LF =>
              /\ line' = IF b = CR \/ job = "send" THEN line
                         ELSE Extend(line, b)
              /\ job' = job /\ out' = out
         /\ line' \in {line, Empty, Extend(line, b)}
         /\ job' = job \/ (Whole(line, Commands) /\ job' = line[1])
         /\ out' = out \/ out' = Append(out, Other)
<1>0. mode # "data"
  OBVIOUS
<1>1. CASE b = LF
  <2>1. /\ line' = IF job = "send" THEN line ELSE Empty
        /\ IF job = "none" /\ Whole(line, Commands)
           THEN job' = line[1] /\ UNCHANGED out
           ELSE out' = Append(out, Other) /\ UNCHANGED job
        /\ UNCHANGED <<mode, rem>>
    BY <1>0, <1>1, Zenon DEF EspReceive
  <2>2. /\ line' = line \/ line' = Empty
        /\ job' = job \/ (Whole(line, Commands) /\ job' = line[1])
        /\ out' = out \/ out' = Append(out, Other)
    BY <2>1
  <2> QED
    BY <1>1, <2>1, <2>2
<1>2. CASE b # LF
  <2>1. /\ line' = IF b = CR \/ job = "send" THEN line ELSE Extend(line, b)
        /\ UNCHANGED <<mode, rem, job, out>>
    BY <1>0, <1>2, Zenon DEF EspReceive
  <2>2. line' = line \/ line' = Extend(line, b)
    BY <2>1
  <2> QED
    BY <1>2, <2>1, <2>2
<1> QED
  BY <1>1, <1>2

LEMMA ReceiveTypes ==
  ASSUME EspInv, NEW b \in Bytes, EspReceive(b),
         UNCHANGED <<tcp, session, inbox, drops>>
  PROVE  EspInv'
<1>0. /\ tcp' \in BOOLEAN /\ session' \in {"none", "open", "closing"}
      /\ inbox' \in Seq(Option) /\ drops' \in 0..MaxDrops
  BY EspTypes DEF EspInv
<1>1. /\ mode \in {"cmd", "data"} /\ line \in Lines
      /\ rem \in 0..24 /\ job \in Commands \cup {"none", "send"}
      /\ out \in Seq(Answers)
      /\ mode = "cmd" => rem = 0
      /\ mode = "data" => rem >= 1
  BY EspTypes DEF EspInv
<1>2. Empty \in Lines /\ Extend(line, b) \in Lines
  BY Extended DEF Lines
<1>3. Append(out, Other) \in Seq(Answers)
  BY <1>1, AnswersAre
<1>4. Whole(line, Commands) => line[1] \in Commands
  BY DEF Whole
<1>5. CASE mode = "data"
  <2>1. /\ rem' = rem - 1
        /\ IF rem = 1 THEN mode' = "cmd" /\ job' = "send"
           ELSE mode' = mode /\ job' = job
        /\ line' = Extend(line, b) /\ out' = out
    BY <1>5 DEF EspReceive
  <2>2. /\ rem' \in 0..24
        /\ mode' = "cmd" => rem' = 0
        /\ mode' = "data" => rem' >= 1
    BY <1>1, <1>5, <2>1
  <2>3. /\ mode' \in {"cmd", "data"} /\ line' \in Lines
        /\ job' \in Commands \cup {"none", "send"} /\ out' \in Seq(Answers)
    BY <1>1, <1>2, <2>1
  <2> QED
    BY <1>0, <2>2, <2>3 DEF EspInv, EspTypeOK, Lines, Bytes, Arrays, Answers
<1>6. CASE mode = "cmd"
  <2>1. /\ line' \in {line, Empty, Extend(line, b)}
        /\ UNCHANGED <<mode, rem>>
        /\ job' = job \/ (Whole(line, Commands) /\ job' = line[1])
        /\ out' = out \/ out' = Append(out, Other)
    BY <1>6, HeardAs
  <2>2. /\ mode' \in {"cmd", "data"} /\ line' \in Lines /\ rem' \in 0..24
        /\ job' \in Commands \cup {"none", "send"} /\ out' \in Seq(Answers)
    BY <1>1, <1>2, <1>3, <1>4, <2>1
  <2> QED
    BY <1>0, <1>1, <2>1, <2>2
       DEF EspInv, EspTypeOK, Lines, Bytes, Arrays, Answers
<1> QED
  BY <1>1, <1>5, <1>6

OptionOf(p) == CHOOSE k \in Option : Publish(k) = p[1]

LEMMA PublishNames ==
  /\ \A k, j \in Option : Publish(k) = Publish(j) => k = j
  /\ \A p : p[1] \in Publishes =>
       OptionOf(p) \in Option /\ Publish(OptionOf(p)) = p[1]
<1>1. /\ Publish(0) = "publish1" /\ Publish(1) = "publish2"
      /\ Publish(2) = "publish3" /\ Publish(3) = "publish4"
      /\ Publish(4) = "publish5"
  BY DEF Publish
<1>2. Option = {0, 1, 2, 3, 4}
  BY DEF Option
<1>3. \A k, j \in Option : Publish(k) = Publish(j) => k = j
  BY <1>1, <1>2
<1>4. ASSUME NEW p, p[1] \in Publishes
      PROVE  OptionOf(p) \in Option /\ Publish(OptionOf(p)) = p[1]
  <2>1. \E k \in Option : Publish(k) = p[1]
    BY <1>4 DEF Publishes
  <2> QED
    BY <2>1, Zenon DEF OptionOf
<1> QED
  BY <1>3, <1>4

LEMMA TakeIs ==
  ASSUME NEW p, BrokerTake(p)
  PROVE  \/ /\ Whole(p, {"connect"}) /\ session = "none"
            /\ session' = "open" /\ inbox' = inbox
         \/ /\ Whole(p, Publishes) /\ session = "open"
            /\ session' = session /\ inbox' = Append(inbox, OptionOf(p))
         \/ /\ ~(Whole(p, {"connect"}) /\ session = "none")
            /\ ~(Whole(p, Publishes) /\ session = "open")
            /\ session' = "closing" /\ inbox' = inbox
BY Zenon DEF BrokerTake, OptionOf

\* What the ESP does with a command, by command.
LEMMA FinishIs ==
  ASSUME EspFinish
  PROVE  /\ job # "none" /\ job' = "none" /\ drops' = drops
         /\ \/ /\ job \in {"AT", "CWMODE", "CWJAP"}
               /\ \/ out' = out \o Ok(job)
                  \/ job = "CWJAP" /\ ~Reliable /\ out' = Append(out, Other)
               /\ UNCHANGED <<mode, line, rem, tcp, session, inbox>>
            \/ /\ job = "CIPSTART"
               /\ \/ ~tcp /\ tcp' = TRUE /\ out' = out \o Ok(job)
                  \/ tcp /\ tcp' = tcp /\ out' = Append(out, Other)
                  \/ /\ ~tcp /\ ~Reliable /\ tcp' = tcp
                     /\ out' = Append(out, Other)
               /\ UNCHANGED <<mode, line, rem, session, inbox>>
            \/ /\ job \in {"SENDC", "SENDP", "SENDD"}
               /\ \/ /\ tcp /\ mode' = "data" /\ rem' = Announced[job]
                     /\ line' = Empty /\ out' = out \o Ok(job)
                  \/ /\ ~tcp /\ out' = Append(out, Other)
                     /\ UNCHANGED <<mode, rem, line>>
               /\ UNCHANGED <<tcp, session, inbox>>
            \/ /\ job = "send" /\ line' = Empty
               /\ \/ tcp /\ BrokerTake(line) /\ out' = out \o Ok(job)
                  \/ /\ ~tcp /\ out' = Append(out, Other)
                     /\ UNCHANGED <<session, inbox>>
               /\ UNCHANGED <<mode, rem, tcp>>
<1>1. job # "none" /\ job' = "none" /\ drops' = drops
  BY DEF EspFinish
<1>2. CASE job \in {"AT", "CWMODE", "CWJAP"}
  BY <1>1, <1>2, AnnouncedIs DEF EspFinish
<1>3. CASE job = "CIPSTART"
  BY <1>1, <1>3, AnnouncedIs DEF EspFinish
<1>4. CASE job \in DOMAIN Announced
  <2>1. job \in {"SENDC", "SENDP", "SENDD"}
    BY <1>4, AnnouncedIs
  <2>2. /\ IF tcp
           THEN /\ mode' = "data" /\ rem' = Announced[job] /\ line' = Empty
                /\ out' = out \o Ok(job)
           ELSE out' = Append(out, Other) /\ UNCHANGED <<mode, rem, line>>
        /\ UNCHANGED <<tcp, session, inbox>>
    BY <2>1 DEF EspFinish
  <2> QED
    BY <1>1, <2>1, <2>2
<1>5. CASE job = "send"
  <2>1. job \notin DOMAIN Announced
    BY <1>5, AnnouncedIs
  <2>2. /\ IF tcp
           THEN BrokerTake(line) /\ out' = out \o Ok(job)
           ELSE out' = Append(out, Other) /\ UNCHANGED <<session, inbox>>
        /\ line' = Empty
        /\ UNCHANGED <<mode, rem, tcp>>
    BY <1>5, <2>1 DEF EspFinish
  <2> QED
    BY <1>1, <1>5, <2>2
<1> QED
  BY <1>1, <1>2, <1>3, <1>4, <1>5 DEF EspFinish

LEMMA OutTypes ==
  ASSUME out \in Seq(Answers), NEW x \in Commands \cup {"send"},
         \/ out' = out \o Ok(x) \/ out' = Append(out, Other)
  PROVE  out' \in Seq(Answers)
<1>1. Ok(x) \in Seq(Answers) /\ Other \in Answers
  BY AnswersAre
<1>2. out \o Ok(x) \in Seq(Answers)
  BY <1>1
<1>3. Append(out, Other) \in Seq(Answers)
  BY <1>1
<1> QED
  BY <1>2, <1>3

LEMMA FinishTypes ==
  ASSUME EspInv, mode = "data" => job = "none", EspFinish
  PROVE  EspInv'
<1>1. /\ mode \in {"cmd", "data"} /\ line \in Lines
      /\ rem \in 0..24 /\ job \in Commands \cup {"send"}
      /\ out \in Seq(Answers) /\ tcp \in BOOLEAN
      /\ session \in {"none", "open", "closing"}
      /\ inbox \in Seq(Option) /\ drops' \in 0..MaxDrops
      /\ mode = "cmd" /\ rem = 0 /\ job' = "none"
  BY EspTypes, FinishIs DEF EspInv
<1>2. out' \in Seq(Answers)
  BY <1>1, FinishIs, OutTypes
<1>3. /\ mode' \in {"cmd", "data"} /\ rem' \in 0..24
      /\ mode' = "cmd" => rem' = 0
      /\ mode' = "data" => rem' >= 1
  <2>1. CASE UNCHANGED <<mode, rem>>
    BY <1>1, <2>1
  <2>2. CASE /\ job \in {"SENDC", "SENDP", "SENDD"}
             /\ mode' = "data" /\ rem' = Announced[job]
    <3>1. Announced[job] \in 1..24
      BY <2>2, AnnouncedIs
    <3> QED
      BY <2>2, <3>1
  <2> QED
    BY <2>1, <2>2, FinishIs
<1>4. line' \in Lines
  <2>1. line' = line \/ line' = Empty
    BY FinishIs
  <2> QED
    BY <1>1, <2>1 DEF Lines
<1>5. /\ tcp' \in BOOLEAN /\ session' \in {"none", "open", "closing"}
      /\ inbox' \in Seq(Option)
  <2>1. CASE BrokerTake(line) /\ tcp' = tcp
    <3>1. Whole(line, Publishes) => OptionOf(line) \in Option
      BY PublishNames DEF Whole
    <3>2. OptionOf(line) \in Option =>
            Append(inbox, OptionOf(line)) \in Seq(Option)
      BY <1>1
    <3> QED
      BY <1>1, <2>1, <3>1, <3>2, TakeIs
  <2>2. CASE UNCHANGED <<session, inbox>> /\ (tcp' = tcp \/ tcp' = TRUE)
    BY <1>1, <2>2
  <2> QED
    BY <2>1, <2>2, FinishIs
<1> QED
  BY <1>1, <1>2, <1>3, <1>4, <1>5
     DEF EspInv, EspTypeOK, Lines, Bytes, Arrays, Answers

LEMMA ClosedTypes ==
  ASSUME EspInv, BrokerClose \/ Drop
  PROVE  EspInv'
<1>1. Closed /\ drops' \in 0..MaxDrops
  <2>1. drops \in 0..MaxDrops /\ MaxDrops \in Nat
    BY EspAssumption, EspTypes DEF EspInv
  <2> QED
    BY <2>1 DEF BrokerClose, Drop
<1>2. out' = Append(out, Other) /\ out \in Seq(Answers)
  BY <1>1, EspTypes DEF Closed, EspInv
<1>3. out' \in Seq(Answers)
  BY <1>2, AnswersAre
<1>4. /\ mode \in {"cmd", "data"} /\ line \in Lines
      /\ rem \in 0..24 /\ job \in Commands \cup {"none", "send"}
      /\ inbox \in Seq(Option)
      /\ mode = "cmd" => rem = 0
      /\ mode = "data" => rem >= 1
  BY EspTypes DEF EspInv
<1>5. /\ tcp' = FALSE /\ session' = "none"
      /\ UNCHANGED <<mode, line, rem, job, inbox>>
  BY <1>1 DEF Closed
<1>6. /\ mode' \in {"cmd", "data"} /\ line' \in Lines
      /\ rem' \in 0..24 /\ job' \in Commands \cup {"none", "send"}
      /\ inbox' \in Seq(Option)
      /\ mode' = "cmd" => rem' = 0
      /\ mode' = "data" => rem' >= 1
      /\ tcp' \in BOOLEAN /\ session' \in {"none", "open", "closing"}
  BY <1>4, <1>5
<1> QED
  BY <1>1, <1>3, <1>6
     DEF EspInv, EspTypeOK, Lines, Bytes, Arrays, Answers

Pcs == {"boot", "select", "sample", "decide", "hold", "light"}

Screens == {Blank} \cup {Opcao[k] : k \in Option}
                   \cup {Answer[k] : k \in Option}

AppTypes ==
  /\ keys \in KeyValues /\ pushbutton \in KeyValues \cup {0}
  /\ screen \in Screens /\ leds \in 0..15 /\ pc \in Pcs
  /\ rx \in {Empty} \cup Answers /\ check \in {Empty} \cup Answers
  /\ said \in BOOLEAN /\ console \in 0..ConsoleSize
  /\ resets \in 0..MaxResets
  /\ chosen \in Option \cup {-1} /\ before \in Option \cup {-1}

\* TypeOK, with what keeps it: the ESP works on nothing while it waits for a
\* packet, and the program's place is its routine's.
TypeInv ==
  /\ EspInv /\ AppTypes /\ Placed
  /\ mode = "data" => job = "none"
  /\ ~Running => at = 1

LEMMA TypeInvTypes == TypeInv => TypeOK
BY DEF TypeInv, EspInv, AppTypes, Placed, TypeOK, Screens, Pcs, Answers

LEMMA Advances ==
  ASSUME Placed, Running, at <= Len(Script), Advance, count' = count
  PROVE  Placed' /\ Running' /\ at' = at + 1 /\ pc' = pc
<1>1. at' = at + 1 /\ pc' = pc
  BY DEF Advance
<1>2. Script' = Script
  BY <1>1 DEF Script
<1>3. at \in Nat /\ Len(Script) \in Nat
  BY ScriptIs
<1>4. at' \in 1..Len(Script) + 1
  BY <1>1, <1>3
<1> QED
  BY <1>1, <1>2, <1>4 DEF Placed, Running

LEMMA Stays ==
  ASSUME Placed, UNCHANGED <<run, count>>
  PROVE  Placed' /\ (Running' <=> Running)
<1>1. Script' = Script
  BY DEF Script, run
<1> QED
  BY <1>1 DEF Placed, Running, run

LEMMA Starts ==
  ASSUME NEW k \in Option, count' = k, at' = 1
  PROVE  Placed'
<1>1. Len(Script') \in Nat
  <2>1. CASE pc' = "boot"
    BY <2>1, BootIs DEF Script
  <2>2. CASE pc' # "boot"
    BY <2>2, SelectedIs DEF Script, SelectionIs
  <2> QED
    BY <2>1, <2>2
<1> QED
  BY <1>1 DEF Placed

LEMMA OptionIs == Option = {0, 1, 2, 3, 4} /\ Option \subseteq Int
BY DEF Option

LEMMA Lights == \A k \in Option : onLed[k + 1] \in 0..15
BY OptionIs DEF onLed

LEMMA TypeInit == Init => TypeInv
<1> SUFFICES ASSUME Init PROVE TypeInv
  OBVIOUS
<1>1. EspInv
  <2>1. mode = "cmd" /\ line = Empty /\ rem = 0 /\ job = "none" /\ tcp = FALSE
        /\ session = "none" /\ drops = 0
    BY DEF Init, EspInit
  <2>2. out \in Seq(Answers) /\ inbox \in Seq(Option)
    BY DEF Init, EspInit
  <2>3. drops \in 0..MaxDrops /\ rem \in 0..24
    BY <2>1, EspAssumption
  <2>4. line \in Lines
    BY <2>1 DEF Lines
  <2>5. EspTypeOK
    BY <2>1, <2>2, <2>3, <2>4, EspTypes
  <2> QED
    BY <2>1, <2>5 DEF EspInv
<1>2. AppTypes
  <2>1. console \in 0..ConsoleSize /\ resets \in 0..MaxResets
    BY AppAssumption DEF Init
  <2>2. leds \in 0..15 /\ screen \in Screens /\ pc \in Pcs
    BY DEF Init, Screens, Pcs
  <2>3. keys \in KeyValues /\ pushbutton = 0 /\ rx = Empty /\ check = Empty
        /\ said = FALSE /\ chosen = -1 /\ before = -1
    BY DEF Init
  <2> QED
    BY <2>1, <2>2, <2>3 DEF AppTypes
<1>3. Placed
  <2>1. Script = Boot /\ Len(Boot) \in Nat /\ at = 1 /\ count = 0
    BY BootIs DEF Init, Script
  <2> QED
    BY <2>1, OptionIs DEF Placed
<1> QED
  BY <1>1, <1>2, <1>3 DEF TypeInv, Init, EspInit, Running


LEMMA AtHandIs ==
  ASSUME NEW o, AtOp(o)
  PROVE  Running /\ at <= Len(Script) /\ pc \in {"boot", "select"}
BY DEF AtOp, Running

LEMMA TypeStep == TypeInv /\ [Next]_vars => TypeInv'
<1> SUFFICES ASSUME TypeInv, [Next]_vars PROVE TypeInv'
  OBVIOUS
<1> DEFINE Waiting == mode = "data" => job = "none"
           AtStart == ~Running => at = 1
<1>0. EspInv /\ AppTypes /\ Placed /\ Waiting /\ AtStart
  BY DEF TypeInv
<1>1. ASSUME UNCHANGED espVars PROVE EspInv' /\ Waiting'
  BY <1>0, <1>1 DEF EspInv, EspTypeOK, espVars
<1>2. ASSUME UNCHANGED <<run, count>> PROVE Placed' /\ AtStart' /\ pc' \in Pcs
  <2>1. Placed' /\ (Running' <=> Running)
    BY <1>0, <1>2, Stays
  <2> QED
    BY <1>0, <1>2, <2>1 DEF run, AppTypes
<1>3. ASSUME NEW o, AtOp(o), Advance, count' = count
      PROVE  Placed' /\ AtStart' /\ pc' \in Pcs
  <2>1. Placed' /\ Running' /\ pc' = pc
    BY <1>0, <1>3, AtHandIs, Advances
  <2> QED
    BY <1>0, <2>1 DEF AppTypes
<1>4. ASSUME NEW k \in Option, count' = k, at' = 1, pc' \in Pcs
      PROVE  Placed' /\ AtStart'
  BY <1>4, Starts
<1>5. /\ keys \in KeyValues /\ pushbutton \in KeyValues \cup {0}
      /\ screen \in Screens /\ leds \in 0..15 /\ pc \in Pcs
      /\ rx \in {Empty} \cup Answers /\ check \in {Empty} \cup Answers
      /\ said \in BOOLEAN /\ console \in 0..ConsoleSize
      /\ resets \in 0..MaxResets /\ count \in Option
      /\ chosen \in Option \cup {-1} /\ before \in Option \cup {-1}
      /\ ConsoleSize \in Nat /\ MaxResets \in Nat
  BY <1>0, AppAssumption DEF AppTypes, Placed
<1>6. CASE TxByte
  <2>1. Arg \in Bytes
    BY <1>0, <1>6, TxIsByte DEF TxByte
  <2>2. EspReceive(Arg) /\ UNCHANGED <<tcp, session, inbox, drops>>
    BY <1>6 DEF TxByte
  <2>3. EspInv'
    BY <1>0, <2>1, <2>2, ReceiveTypes
  <2>4. Waiting'
    <3>1. CASE mode = "data"
      BY <1>0, <2>2, <3>1 DEF EspReceive
    <3>2. CASE mode = "cmd"
      BY <2>2, <3>2, HeardAs
    <3> QED
      BY <1>0, <3>1, <3>2, EspTypes DEF EspInv
  <2>5. Placed' /\ AtStart' /\ pc' \in Pcs
    BY <1>3, <1>6 DEF TxByte, menu
  <2>6. AppTypes'
    BY <1>5, <1>6, <2>5 DEF TxByte, menu, past, AppTypes
  <2> QED
    BY <2>3, <2>4, <2>5, <2>6 DEF TypeInv
<1>7. CASE SleepOver
  <2>1. Placed' /\ AtStart' /\ pc' \in Pcs
    BY <1>3, <1>7 DEF SleepOver, menu
  <2>2. AppTypes'
    BY <1>5, <1>7, <2>1 DEF SleepOver, menu, past, AppTypes
  <2> QED
    BY <1>1, <1>7, <2>1, <2>2 DEF TypeInv, SleepOver
<1>8. CASE ReadByte
  <2>1. Placed' /\ AtStart' /\ pc' \in Pcs
    BY <1>2, <1>8 DEF ReadByte, menu
  <2>2. AppTypes'
    BY <1>5, <1>8, <2>1 DEF ReadByte, menu, past, AppTypes
  <2> QED
    BY <1>1, <1>8, <2>1, <2>2 DEF TypeInv, ReadByte
<1>9. CASE PrintByte
  <2>1. Placed' /\ AtStart' /\ pc' \in Pcs
    <3>1. count' = count /\ AtOp("read") /\ (Advance \/ UNCHANGED run)
      BY <1>9 DEF PrintByte, menu
    <3> QED
      BY <1>2, <1>3, <3>1
  <2>2. console' \in 0..ConsoleSize
    BY <1>5, <1>9 DEF PrintByte
  <2>3. AppTypes'
    BY <1>5, <1>9, <2>1, <2>2 DEF PrintByte, menu, past, AppTypes
  <2> QED
    BY <1>1, <1>9, <2>1, <2>3 DEF TypeInv, PrintByte
<1>10. CASE PutChar
  <2>1. Placed' /\ AtStart' /\ pc' \in Pcs
    BY <1>3, <1>10 DEF PutChar, menu
  <2>2. console' \in 0..ConsoleSize /\ said' \in BOOLEAN
    BY <1>5, <1>10 DEF PutChar
  <2>3. AppTypes'
    BY <1>5, <1>10, <2>1, <2>2 DEF PutChar, menu, AppTypes
  <2> QED
    BY <1>1, <1>10, <2>1, <2>3 DEF TypeInv, PutChar
<1>11. CASE ShowText
  <2>1. Placed' /\ AtStart' /\ pc' \in Pcs
    BY <1>3, <1>11 DEF ShowText
  <2>2. screen' \in Screens
    <3>1. screen' = Arg /\ AtOp("show")
      BY <1>11 DEF ShowText
    <3>2. Arg = Opcao[0] \/ Arg = Answer[count]
      BY <1>0, <3>1, AtShow
    <3> QED
      BY <1>5, <3>1, <3>2, OptionIs DEF Screens
  <2>3. AppTypes'
    BY <1>5, <1>11, <2>1, <2>2 DEF ShowText, past, AppTypes
  <2> QED
    BY <1>1, <1>11, <2>1, <2>3 DEF TypeInv, ShowText
<1>12. CASE Return
  <2>1. pc' \in Pcs /\ at' = 1 /\ count' = count
    BY <1>12 DEF Return, menu, Pcs
  <2>2. AppTypes'
    BY <1>5, <1>12, <2>1 DEF Return, menu, past, AppTypes
  <2> QED
    BY <1>1, <1>4, <1>5, <1>12, <2>1, <2>2 DEF TypeInv, Return
<1>13. CASE Sample \/ HoldSample
  <2>1. pc' \in Pcs /\ at = 1 /\ at' = 1 /\ count' = count /\ UNCHANGED espVars
    BY <1>0, <1>13 DEF Sample, HoldSample, Kept, Running, Pcs
  <2>2. AppTypes'
    BY <1>5, <1>13, <2>1 DEF Sample, HoldSample, Idle, Kept, AppTypes
  <2> QED
    BY <1>1, <1>4, <1>5, <2>1, <2>2 DEF TypeInv
<1>14. CASE Up \/ Down
  <2>1. PICK b, next : Move(b, next) /\ next \in Option
    BY <1>5, <1>14, OptionIs DEF Up, Down
  <2>2. pc' \in Pcs /\ at = 1 /\ at' = 1 /\ count' = next /\ UNCHANGED espVars
    BY <1>0, <2>1 DEF Move, Kept, Running, Pcs
  <2>3. screen' \in Screens
    BY <2>1 DEF Move, Screens
  <2>4. AppTypes'
    BY <1>5, <2>1, <2>2, <2>3 DEF Move, Idle, Kept, AppTypes
  <2> QED
    BY <1>1, <1>4, <2>1, <2>2, <2>4 DEF TypeInv
<1>15. CASE Select
  <2>1. pc' \in Pcs /\ at' = 1 /\ count' = count
    BY <1>15 DEF Select, menu, Pcs
  <2>2. before' \in Option \cup {-1} /\ chosen' \in Option \cup {-1}
        /\ said' \in BOOLEAN
    BY <1>5, <1>15 DEF Select
  <2>3. AppTypes'
    BY <1>5, <1>15, <2>1, <2>2 DEF Select, menu, Idle, AppTypes
  <2>4. EspInv' /\ Waiting'
    <3>1. inbox' \in Seq(Option) /\ UNCHANGED <<mode, line, rem, job, out, tcp,
                                               session, drops>>
      BY <1>15 DEF Select
    <3> QED
      BY <1>0, <3>1 DEF EspInv, EspTypeOK
  <2> QED
    BY <1>4, <1>5, <2>1, <2>3, <2>4 DEF TypeInv
<1>16. CASE Ignore
  <2>1. pc' \in Pcs /\ at = 1 /\ at' = 1 /\ count' = count /\ UNCHANGED espVars
    BY <1>0, <1>16 DEF Ignore, menu, Kept, Running, Pcs
  <2>2. AppTypes'
    BY <1>5, <1>16, <2>1 DEF Ignore, menu, Idle, Kept, AppTypes
  <2> QED
    BY <1>1, <1>4, <1>5, <2>1, <2>2 DEF TypeInv
<1>17. CASE Light
  <2>1. pc' \in Pcs /\ at = 1 /\ at' = 1 /\ count' = count /\ UNCHANGED espVars
    BY <1>0, <1>17 DEF Light, Kept, Running, Pcs
  <2>2. screen' \in Screens /\ leds' \in 0..15
    BY <1>5, <1>17, Lights DEF Light, Screens
  <2>3. AppTypes'
    BY <1>5, <1>17, <2>1, <2>2 DEF Light, Idle, Kept, AppTypes
  <2> QED
    BY <1>1, <1>4, <1>5, <2>1, <2>3 DEF TypeInv
<1>18. CASE Arrive
  <2>1. Placed' /\ AtStart' /\ pc' \in Pcs
    BY <1>2, <1>18 DEF Arrive, menu
  <2>2. /\ out \in Seq(Answers) /\ out # <<>>
        /\ out' = Tail(out) /\ rx' = Head(out)
    BY <1>0, <1>18, EspTypes DEF Arrive, EspInv
  <2>3. out' \in Seq(Answers) /\ rx' \in Answers
    BY <2>2
  <2>4. AppTypes'
    BY <1>5, <1>18, <2>1, <2>3 DEF Arrive, menu, past, AppTypes
  <2>5. EspInv' /\ Waiting'
    <3>1. UNCHANGED <<mode, line, rem, job, tcp, session, inbox, drops>>
      BY <1>18 DEF Arrive
    <3> QED
      BY <1>0, <2>3, <3>1 DEF EspInv, EspTypeOK, Answers
  <2> QED
    BY <2>1, <2>4, <2>5 DEF TypeInv
<1>19. CASE EspStep
  <2>1. UNCHANGED <<menu, run, rx, check, console, past>>
        /\ (EspFinish \/ BrokerClose \/ Drop)
    BY <1>19 DEF EspStep
  <2>2. Placed' /\ AtStart' /\ pc' \in Pcs
    BY <1>2, <2>1 DEF menu
  <2>3. AppTypes'
    BY <1>5, <2>1, <2>2 DEF menu, past, AppTypes
  <2>4. EspInv'
    BY <1>0, <2>1, FinishTypes, ClosedTypes
  <2>5. Waiting'
    <3>1. CASE EspFinish
      BY <3>1, FinishIs
    <3>2. CASE BrokerClose \/ Drop
      BY <1>0, <3>2 DEF BrokerClose, Drop, Closed
    <3> QED
      BY <2>1, <3>1, <3>2
  <2> QED
    BY <2>2, <2>3, <2>4, <2>5 DEF TypeInv
<1>20. CASE Fetch
  <2>1. Placed' /\ AtStart' /\ pc' \in Pcs
    BY <1>2, <1>20 DEF Fetch, menu
  <2>2. AppTypes'
    BY <1>5, <1>20, <2>1 DEF Fetch, menu, past, AppTypes
  <2> QED
    BY <1>1, <1>20, <2>1, <2>2 DEF TypeInv, Fetch
<1>21. CASE Reset
  <2>1. pc' \in Pcs /\ at' = 1 /\ count' = 0 /\ 0 \in Option
    BY <1>21, OptionIs DEF Reset, Pcs
  <2>2. resets' \in 0..MaxResets /\ console' \in 0..ConsoleSize
    <3>1. resets < MaxResets /\ resets' = resets + 1 /\ console' = 0
      BY <1>21 DEF Reset
    <3>2. resets + 1 \in 0..MaxResets /\ 0 \in 0..ConsoleSize
      BY <1>5, <3>1
    <3> QED
      BY <3>1, <3>2
  <2>3. AppTypes'
    <3>1. /\ keys' = keys /\ pushbutton' = 0 /\ screen' = screen /\ leds' = 0
          /\ rx' = Empty /\ check' = Empty /\ said' = FALSE
          /\ chosen' = chosen /\ before' = before
      BY <1>21 DEF Reset
    <3>2. 0 \in 0..15
      OBVIOUS
    <3> QED
      BY <1>5, <2>1, <2>2, <3>1, <3>2, Zenon DEF AppTypes
  <2> QED
    BY <1>1, <1>4, <1>21, <2>1, <2>3 DEF TypeInv, Reset
<1>22. CASE \E k \in KeyValues : Press(k)
  <2>1. PICK k \in KeyValues : Press(k)
    BY <1>22
  <2>2. Placed' /\ AtStart' /\ pc' \in Pcs
    BY <1>2, <2>1 DEF Press
  <2>3. AppTypes'
    BY <1>5, <2>1, <2>2 DEF Press, past, AppTypes
  <2> QED
    BY <1>1, <2>1, <2>2, <2>3 DEF TypeInv, Press
<1>23. CASE UNCHANGED vars
  <2>1. Placed' /\ AtStart' /\ pc' \in Pcs
    BY <1>2, <1>23 DEF vars, menu
  <2>2. AppTypes'
    BY <1>5, <1>23, <2>1 DEF vars, menu, past, AppTypes
  <2> QED
    BY <1>1, <1>23, <2>1, <2>2 DEF TypeInv, vars
<1> QED
  BY <1>6, <1>7, <1>8, <1>9, <1>10, <1>11, <1>12, <1>13, <1>14, <1>15, <1>16,
     <1>17, <1>18, <1>19, <1>20, <1>21, <1>22, <1>23 DEF Next, Cpu

\* TypeOK holds in every reachable state: every variable keeps to its type,
\* whatever the ESP, the console and the resets do.
THEOREM TypeCorrect == Spec => []TypeOK
<1>1. Spec => []TypeInv
  BY TypeInit, TypeStep, PTL DEF Spec
<1> QED
  BY <1>1, TypeInvTypes, PTL
-----------------------------------------------------------------------------
(* The menu.                                                               *)

LEMMA SelectPlaces ==
  /\ SelectRead \in Nat /\ AnswerAt \in Nat /\ PublishAt \in Nat
  /\ AfterPublish \in Nat /\ SenddAt \in Nat /\ SaidAt \in Nat
  /\ SelectRead >= 4 /\ AnswerAt >= SelectRead + 8
  /\ PublishAt >= AnswerAt + 6 /\ AfterPublish >= PublishAt + 2
  /\ AfterPublish = PublishAt + 2 * Size["publish1"]
  /\ SenddAt = AfterPublish + 3 /\ SaidAt >= SenddAt + 10
<1>1. PICK n, m, l, r : /\ n = Size["SENDP"] /\ m = Size["publish1"]
                        /\ l = Size["SENDD"] /\ r = Size["disconnect"]
  OBVIOUS
<1>2. PICK c, d, e : /\ c = Size["CIPSTART"] /\ d = Size["SENDC"]
                     /\ e = Size["connect"]
  OBVIOUS
<1>3. /\ n \in Nat /\ m \in Nat /\ l \in Nat /\ r \in Nat
      /\ n >= 1 /\ m >= 1 /\ l >= 1 /\ r >= 1
      /\ c \in Nat /\ d \in Nat /\ e \in Nat /\ c >= 1 /\ d >= 1 /\ e >= 1
  BY <1>1, <1>2, SizesNamed
<1>4. /\ SelectRead = c + 3 /\ AnswerAt = c + 4 + d + 3 + e + 2
      /\ PublishAt = AnswerAt + n + 5 /\ AfterPublish = PublishAt + 2 * m
      /\ SenddAt = AfterPublish + 3
      /\ SaidAt = SenddAt + l + 3 + 2 * r + 4
  <2>1. /\ AnswerAt = ConnectAt + e + 2 /\ ConnectAt = SendcAt + d + 3
        /\ SendcAt = c + 4
    BY <1>1, <1>2, Places
  <2>2. SelectRead = c + 3 /\ AnswerAt = c + 4 + d + 3 + e + 2
    BY <1>2, <1>3, <2>1 DEF SelectRead
  <2>3. /\ PublishAt = AnswerAt + n + 5
        /\ AfterPublish = AnswerAt + n + 5 + 2 * m
        /\ SenddAt = AnswerAt + n + 5 + 2 * m + 3
        /\ SaidAt = AnswerAt + n + 5 + 2 * m + 3 + l + 3 + 2 * r + 4
    BY <1>1, Places
  <2>4. AnswerAt \in Nat
    BY <1>3, <2>2
  <2> QED
    BY <1>3, <2>2, <2>3, <2>4
<1>5. /\ SelectRead \in Nat /\ AnswerAt \in Nat
      /\ SelectRead >= 4 /\ AnswerAt >= SelectRead + 8
  BY <1>3, <1>4
<1>6. PublishAt \in Nat /\ PublishAt >= AnswerAt + 6
  BY <1>3, <1>4, <1>5
<1>7. AfterPublish \in Nat /\ AfterPublish >= PublishAt + 2
  BY <1>3, <1>4, <1>6
<1>8. SenddAt \in Nat /\ SaidAt \in Nat /\ SaidAt >= SenddAt + 10
  BY <1>3, <1>4, <1>7
<1> QED
  BY <1>1, <1>4, <1>5, <1>6, <1>7, <1>8

\* Only imprime is at the places where the display changes.
LEMMA ShowPlaces ==
  ASSUME Placed, NEW o, AtOp(o), o # "show"
  PROVE  /\ pc = "boot" => at # MenuAt + 1
         /\ pc = "select" => at # AnswerAt + 1
<1>1. Script[at].op = o
  BY DEF AtOp
<1>2. ASSUME pc = "boot", at = MenuAt + 1 PROVE FALSE
  <2>1. Script[at] = Show(Opcao[0])
    BY <1>2, ScriptIs, BootIs
  <2> QED
    BY <1>1, <2>1, Fields
<1>3. ASSUME pc = "select", at = AnswerAt + 1 PROVE FALSE
  <2>1. Script[at] = Show(Answer[count])
    BY <1>3, ScriptIs, SelectedIs DEF SelectionIs, Placed
  <2> QED
    BY <1>1, <2>1, Fields
<1> QED
  BY <1>2, <1>3

\* A step of the program that leaves the menu's variables alone and is not at
\* one of those places leaves the menu where it was.
LEMMA SameMenu ==
  ASSUME TypeInv, MenuInv, UNCHANGED menu,
         \/ UNCHANGED run
         \/ Advance /\ (\E o : AtOp(o) /\ o # "show")
  PROVE  MenuInv' /\ MenuPc' = MenuPc
<1>1. CASE UNCHANGED run
  BY <1>1 DEF MenuInv, MenuPc, menu, run
<1>2. CASE Advance /\ (\E o : AtOp(o) /\ o # "show")
  <2>1. at' = at + 1 /\ pc' = pc /\ pc \in {"boot", "select"}
    BY <1>2, AtHandIs DEF Advance
  <2>2. /\ pc = "boot" => at # MenuAt + 1
        /\ pc = "select" => at # AnswerAt + 1
    BY <1>2, ShowPlaces DEF TypeInv
  <2>3. at \in Nat /\ MenuAt \in Nat /\ AnswerAt \in Nat
    BY ScriptIs, BootPlaces, SelectPlaces DEF TypeInv
  <2>4. /\ pc = "boot" => (at' > MenuAt + 1 <=> at > MenuAt + 1)
        /\ pc = "select" => (at' > AnswerAt + 1 <=> at > AnswerAt + 1)
        /\ pc = "select" => (at' <= AnswerAt + 1 <=> at <= AnswerAt + 1)
    BY <2>1, <2>2, <2>3
  <2>5. UNCHANGED <<keys, pushbutton, count, screen, leds>>
    BY DEF menu
  <2>6. MenuInv'
    BY <2>1, <2>4, <2>5 DEF MenuInv
  <2>7. MenuPc' = MenuPc
    BY <2>1, <2>4, <2>5, BootIs DEF MenuPc
  <2> QED
    BY <2>6, <2>7
<1> QED
  BY <1>1, <1>2

\* M's texts are this module's.
LEMMA Texts ==
  /\ M!Opcao = Opcao /\ M!Answer = Answer /\ M!Blank = Blank
  /\ \A k \in Option : Opcao[k] # Answer[k]
  /\ \A k \in Option : M!LedOf[k] = onLed[k + 1]
  /\ M!BUTTON_UP = BUTTON_UP /\ M!BUTTON_DOWN = BUTTON_DOWN
  /\ M!SELECT = SELECT /\ M!BACK = BACK
<1>1. Option = M!Option
  BY DEF Option, M!Option
<1>2. M!Opcao = Opcao /\ M!Answer = Answer /\ M!Blank = Blank
  BY <1>1 DEF Opcao, Answer, Blank, M!Opcao, M!Answer, M!Blank
<1>3. \A k \in Option : Opcao[k] # Answer[k]
  BY DEF Opcao, Answer
<1>4. \A k \in Option : M!LedOf[k] = onLed[k + 1]
  BY <1>1, Zenon DEF M!LedOf, onLed
<1> QED
  BY <1>2, <1>3, <1>4
     DEF BUTTON_UP, BUTTON_DOWN, SELECT, BACK, M!BUTTON_UP, M!BUTTON_DOWN,
         M!SELECT, M!BACK

LEMMA MenuStep ==
  TypeInv /\ MenuInv /\ [Next]_vars
    => MenuInv' /\ [M!Next \/ MenuRestart]_(M!vars)
<1> SUFFICES ASSUME TypeInv, MenuInv, [Next]_vars
             PROVE  MenuInv' /\ [M!Next \/ MenuRestart]_(M!vars)
  OBVIOUS
<1> DEFINE Step == [M!Next \/ MenuRestart]_(M!vars)
<1>1. ASSUME UNCHANGED menu, MenuPc' = MenuPc PROVE Step
  BY <1>1 DEF menu, M!vars
<1>2. count \in Option /\ Placed /\ (~Running => at = 1)
  BY DEF TypeInv, Placed
<1>3. /\ MenuAt \in Nat /\ MenuAt >= 1 /\ AnswerAt \in Nat /\ AnswerAt >= 1
      /\ SaidAt >= AnswerAt + 1 /\ SaidAt \in Nat
      /\ Len(Boot) = MenuAt + 1 /\ at \in Nat
  <2>1. MenuAt \in Nat /\ MenuAt >= 1 /\ Len(Boot) = MenuAt + 1
    BY BootPlaces, BootIs
  <2>2. /\ AnswerAt \in Nat /\ PublishAt \in Nat /\ AfterPublish \in Nat
        /\ SenddAt \in Nat /\ SaidAt \in Nat
        /\ AnswerAt >= 1 /\ PublishAt >= AnswerAt + 6
        /\ AfterPublish >= PublishAt + 2 /\ SenddAt = AfterPublish + 3
        /\ SaidAt >= SenddAt + 10
    BY SelectPlaces
  <2>3. SaidAt >= AnswerAt + 1
    BY <2>2
  <2> QED
    BY <1>2, <2>1, <2>2, <2>3, ScriptIs
<1>4. CASE TxByte \/ SleepOver \/ ReadByte \/ PrintByte \/ PutChar
  <2>1. UNCHANGED menu
    BY <1>4 DEF TxByte, SleepOver, ReadByte, PrintByte, PutChar
  <2>2. \/ UNCHANGED run
        \/ Advance /\ (\E o : AtOp(o) /\ o # "show")
    BY <1>4 DEF TxByte, SleepOver, ReadByte, PrintByte, PutChar
  <2>3. MenuInv' /\ MenuPc' = MenuPc
    BY <2>1, <2>2, SameMenu
  <2> QED
    BY <1>1, <2>1, <2>3
<1>5. CASE ShowText
  <2>1. /\ screen' = Arg /\ at' = at + 1 /\ pc' = pc
        /\ UNCHANGED <<keys, pushbutton, count, leds>>
    BY <1>5 DEF ShowText, Advance
  <2>2. CASE pc = "boot" /\ at = MenuAt + 1 /\ Arg = Opcao[0]
    <3>1. count = 0 /\ at' > MenuAt + 1
      BY <1>3, <2>1, <2>2 DEF MenuInv
    <3>2. MenuPc = "boot" /\ MenuPc' = "sample"
      BY <1>3, <2>1, <2>2, <3>1 DEF MenuPc
    <3>3. M!Boot
      BY <2>1, <2>2, <3>1, <3>2, Texts DEF M!Boot
    <3>4. MenuInv'
      BY <2>1, <2>2, <3>1 DEF MenuInv
    <3> QED
      BY <3>3, <3>4 DEF M!Next, M!Cpu
  <2>3. CASE pc = "select" /\ at = AnswerAt + 1 /\ Arg = Answer[count]
    <3>1. screen = Opcao[count] /\ pushbutton = SELECT /\ at' > AnswerAt + 1
      BY <1>3, <2>1, <2>3 DEF MenuInv
    <3>2. MenuPc = "decide" /\ MenuPc' = "hold"
      BY <1>2, <2>1, <2>3, <3>1, Texts DEF MenuPc
    <3>3. M!Select
      BY <2>1, <2>3, <3>1, <3>2, Texts DEF M!Select
    <3>4. ~(at' <= AnswerAt + 1)
      BY <1>3, <2>1, <2>3
    <3>5. MenuInv'
      BY <2>1, <2>3, <3>1, <3>4 DEF MenuInv
    <3> QED
      BY <3>3, <3>5 DEF M!Next, M!Cpu
  <2> QED
    BY <1>2, <1>5, <2>2, <2>3, AtShow DEF ShowText
<1>6. CASE Return
  <2>1. /\ Running /\ at = Len(Script) + 1 /\ UNCHANGED menu
        /\ pc' = (IF pc = "boot" THEN "sample" ELSE "hold")
    BY <1>6 DEF Return
  <2>2. UNCHANGED <<keys, pushbutton, count, screen, leds>>
    BY <2>1 DEF menu
  <2>3. CASE pc = "boot"
    <3>1. at > MenuAt + 1 /\ count = 0
      BY <1>2, <1>3, <2>1, <2>3, ScriptIs DEF MenuInv
    <3>2. screen = Opcao[0]
      BY <2>3, <3>1 DEF MenuInv
    <3>3. MenuPc = "sample" /\ MenuPc' = "sample"
      BY <1>3, <2>1, <2>3, <3>1 DEF MenuPc
    <3>4. MenuInv'
      BY <2>1, <2>2, <2>3, <3>1, <3>2 DEF MenuInv
    <3> QED
      BY <1>1, <2>1, <3>3, <3>4
  <2>4. CASE pc = "select"
    <3>1. at = SaidAt + 1
      BY <1>2, <2>1, <2>4, ScriptIs
    <3>2. at > AnswerAt + 1
      BY <1>3, <3>1
    <3>3. screen = Answer[count]
      BY <2>4, <3>2 DEF MenuInv
    <3>4. MenuPc = "hold" /\ MenuPc' = "hold"
      BY <2>1, <2>4, <3>3 DEF MenuPc
    <3>5. MenuInv'
      BY <2>1, <2>2, <2>4, <3>3 DEF MenuInv
    <3> QED
      BY <1>1, <2>1, <3>4, <3>5
  <2> QED
    BY <2>1, <2>3, <2>4 DEF Running
<1>7. CASE Sample
  <2>1. M!Sample
    BY <1>7 DEF Sample, M!Sample, MenuPc
  <2>2. MenuInv'
    BY <1>7 DEF Sample, MenuInv
  <2> QED
    BY <2>1, <2>2 DEF M!Next, M!Cpu
<1>8. CASE Up \/ Down
  <2>1. M!Up \/ M!Down
    BY <1>8, Texts
       DEF Up, Down, Move, M!Up, M!Down, M!Move, M!NextUp, M!NextDown, MenuPc
  <2>2. MenuInv'
    BY <1>8 DEF Up, Down, Move, MenuInv
  <2> QED
    BY <2>1, <2>2 DEF M!Next, M!Cpu
<1>9. CASE Select
  <2>1. /\ pc = "decide" /\ pushbutton = SELECT /\ pc' = "select" /\ at' = 1
        /\ UNCHANGED menu /\ UNCHANGED <<pushbutton, count, screen, leds>>
    BY <1>9 DEF Select, menu
  <2>2. screen = Opcao[count] /\ screen # Answer[count]
    BY <1>2, <2>1, Texts DEF MenuInv
  <2>3. MenuPc = "decide" /\ MenuPc' = "decide"
    BY <2>1, <2>2 DEF MenuPc
  <2>4. at' <= AnswerAt + 1 /\ ~(at' > AnswerAt + 1)
    BY <1>3, <2>1
  <2>5. MenuInv'
    BY <2>1, <2>2, <2>4 DEF MenuInv
  <2> QED
    BY <1>1, <2>1, <2>3, <2>5
<1>10. CASE Ignore
  <2>1. M!Ignore
    BY <1>10, Texts DEF Ignore, menu, M!Ignore, MenuPc
  <2>2. MenuInv'
    BY <1>10 DEF Ignore, menu, MenuInv
  <2> QED
    BY <2>1, <2>2 DEF M!Next, M!Cpu
<1>11. CASE HoldSample
  <2>1. M!HoldSample
    BY <1>11 DEF HoldSample, M!HoldSample, MenuPc
  <2>2. MenuInv'
    BY <1>11 DEF HoldSample, MenuInv
  <2> QED
    BY <2>1, <2>2 DEF M!Next, M!Cpu
<1>12. CASE Light
  <2>1. M!LedOf[count] = onLed[count + 1]
    BY <1>2, Texts
  <2>2. M!Light
    BY <1>12, <2>1, Texts DEF Light, M!Light, MenuPc
  <2>3. MenuInv'
    BY <1>12 DEF Light, MenuInv
  <2> QED
    BY <2>2, <2>3 DEF M!Next, M!Cpu
<1>13. CASE Arrive \/ EspStep \/ Fetch \/ UNCHANGED vars
  <2>1. UNCHANGED menu /\ UNCHANGED run
    BY <1>13 DEF Arrive, EspStep, Fetch, vars
  <2>2. MenuInv' /\ MenuPc' = MenuPc
    BY <2>1, SameMenu
  <2> QED
    BY <1>1, <2>1, <2>2
<1>14. CASE Reset
  <2>1. /\ pushbutton' = 0 /\ count' = 0 /\ leds' = 0 /\ pc' = "boot"
        /\ at' = 1 /\ UNCHANGED <<keys, screen>>
    BY <1>14 DEF Reset
  <2>2. MenuPc' = "boot" /\ ~(at' > MenuAt + 1)
    BY <1>3, <2>1, BootIs DEF MenuPc
  <2>3. MenuRestart
    BY <2>1, <2>2 DEF MenuRestart
  <2>4. MenuInv'
    BY <2>1, <2>2 DEF MenuInv
  <2> QED
    BY <2>3, <2>4
<1>15. CASE \E k \in KeyValues : Press(k)
  <2>1. PICK k \in KeyValues : Press(k)
    BY <1>15
  <2>2. /\ keys # k /\ keys' = k
        /\ UNCHANGED <<pushbutton, count, screen, leds, pc, at>>
    BY <2>1 DEF Press, run
  <2>3. MenuPc' = MenuPc /\ MenuInv'
    BY <2>2 DEF MenuPc, MenuInv
  <2>4. M!Press(k)
    BY <2>2, <2>3 DEF M!Press
  <2> QED
    BY <2>3, <2>4 DEF M!Next
<1> QED
  BY <1>4, <1>5, <1>6, <1>7, <1>8, <1>9, <1>10, <1>11, <1>12, <1>13, <1>14,
     <1>15 DEF Next, Cpu

LEMMA MenuInitially == Init => MenuInv /\ M!Init
<1> SUFFICES ASSUME Init PROVE MenuInv /\ M!Init
  OBVIOUS
<1>1. /\ keys \in KeyValues /\ pushbutton = 0 /\ count = 0 /\ screen = Blank
      /\ leds = 0 /\ pc = "boot" /\ at = 1
  BY DEF Init
<1>2. ~(at > MenuAt + 1) /\ MenuPc = "boot"
  BY <1>1, BootPlaces, BootIs DEF MenuPc
<1>3. MenuInv
  BY <1>1, <1>2 DEF MenuInv
<1>4. M!Init
  BY <1>1, <1>2, Texts DEF M!Init
<1> QED
  BY <1>3, <1>4

\* Every step of the networked program, with its boot, its dialogue and its
\* resets, is a step of the menu of the first version, a reset, or nothing to
\* the user: the safety half of RefinesMenu.
THEOREM MenuStaysTheMenu == Spec => MenuSteps
<1>1. Spec => [](TypeInv /\ MenuInv)
  BY TypeInit, TypeStep, MenuInitially, MenuStep, PTL DEF Spec
<1>2. TypeInv /\ MenuInv /\ [Next]_vars => [M!Next \/ MenuRestart]_(M!vars)
  BY MenuStep
<1>3. Init => M!Init
  BY MenuInitially
<1> QED
  BY <1>1, <1>2, <1>3, PTL DEF Spec, MenuSteps
-----------------------------------------------------------------------------
(* Late publishes.                                                         *)

\* What is at the places where the cases of LateInv change.
LEMMA OpPlaces ==
  ASSUME Placed, NEW o, AtOp(o)
  PROVE  /\ o # "read" => /\ pc = "boot" => at \notin {BootRead1, BootRead2}
                          /\ pc = "select" => at # SelectRead
         /\ o # "sleep" => /\ pc = "boot" => at # CwmodeAt
                           /\ pc = "select" => at # SenddAt
         /\ o # "tx" \/ Arg = CR =>
              /\ pc = "boot" => at # 1
              /\ pc = "select" => at # AfterPublish + 2
<1>1. Script[at].op = o /\ Arg = Script[at].arg
  BY DEF AtOp, Arg
<1>2. pc = "boot" => Script = Boot
  BY ScriptIs
<1>3. pc = "select" => Script = Selected[count] /\ count \in Option
  BY ScriptIs DEF Placed
<1>4. /\ Boot[BootRead1] = Read("AT") /\ Boot[CwmodeAt] = Sleep
      /\ Boot[BootRead2] = Read("CWMODE")
  BY BootIs DEF BootRead1, BootRead2
<1>5. Boot[1] = Tx(<<"AT", 1>>)
  <2>1. LineOf("AT", Boot, 0) /\ Size["AT"] \in Nat /\ Size["AT"] >= 1
    BY BootIs, SizesNamed
  <2>2. Boot[0 + 1] = Tx(<<"AT", 1>>)
    BY <2>1 DEF LineOf
  <2> QED
    BY <2>2
<1>6. ASSUME pc = "select"
      PROVE  /\ Script[SelectRead] = Read("CIPSTART") /\ Script[SenddAt] = Sleep
             /\ Script[AfterPublish + 2] = Tx(LF)
  BY <1>3, <1>6, SelectedIs DEF SelectionIs
<1>7. <<"AT", 1>> # CR
  BY DEF CR
<1> QED
  BY <1>1, <1>2, <1>4, <1>5, <1>6, <1>7, Fields, Different

LEMMA OnlyRead ==
  ASSUME NEW o, AtOp(o), o # "read", EndsInOther
  PROVE  check = Empty
BY DEF AtOp, EndsInOther

LEMMA NoKs == NotK(Empty) /\ NotK(Other) /\ \A x : ~NotK(K(x))
BY Different DEF NotK

LEMMA OfThisMoves ==
  ASSUME TypeInv, OfThis, at' = at + 1, pc' = pc,
         UNCHANGED <<line, inbox, chosen, before>>
  PROVE  OfThis'
<1>1. /\ chosen \in Option /\ line[1] = Publish(chosen) /\ Early
      /\ pc = "select" => PublishAt + 2 * line[2] < at
  BY DEF OfThis
<1>2. line \in Lines /\ line[1] \in Arrays
  <2>1. Publish(chosen) \in Arrays
    BY <1>1, SizesNamed
  <2> QED
    BY <1>1, <2>1, EspTypes DEF TypeInv, EspInv
<1>3. line # Empty /\ line # Junk /\ line # CR /\ line # LF
  BY <1>2, Different
<1>4. line[2] \in 1..39 /\ PublishAt \in Nat /\ at \in Nat
  <2>1. line[2] \in 1..39
    BY <1>2, <1>3, ByteIs DEF Lines
  <2> QED
    BY <2>1, SelectPlaces, ScriptIs DEF TypeInv
<1>5. pc = "select" => PublishAt + 2 * line[2] < at + 1
  BY <1>1, <1>4
<1>6. Early'
  BY <1>1 DEF Early
<1> QED
  BY <1>1, <1>5, <1>6 DEF OfThis

\* A publish being sent stays one while the program goes on: it does not get
\* past a sleep or a read without what is said of the 'K's.
LEMMA SendMoves ==
  ASSUME TypeInv, NEW o, AtOp(o), Advance, job = "send", NowSent \/ LateSent,
         UNCHANGED <<line, job, inbox, chosen, before>>,
         NoK => NoK', o = "sleep" => NoK, o = "read" => ~NoK
  PROVE  NowSent' \/ LateSent'
<1>1. at' = at + 1 /\ pc' = pc /\ pc \in {"boot", "select"} /\ at \in Nat
  BY AtHandIs, ScriptIs DEF Advance, TypeInv
<1>2. /\ CwmodeAt \in Nat /\ BootRead1 \in Nat /\ BootRead2 \in Nat
      /\ BootRead2 >= CwmodeAt + 4 /\ BootRead1 >= 4
      /\ SelectRead \in Nat /\ SenddAt \in Nat /\ PublishAt \in Nat
  BY BootPlaces, SelectPlaces
<1>3. Placed
  BY DEF TypeInv
<1>4. CASE NowSent
  <2>1. OfThis'
    BY <1>1, <1>4, OfThisMoves DEF NowSent
  <2>2. CASE pc = "select" /\ at <= SenddAt /\ ~NoK
    <3>1. at # SenddAt
      BY <1>3, <2>2, OpPlaces
    <3>2. at' <= SenddAt
      BY <1>1, <1>2, <2>2, <3>1
    <3> QED
      BY <1>1, <2>1, <2>2, <3>2 DEF NowSent
  <2>3. CASE pc = "select" /\ NoK
    BY <1>1, <2>1, <2>3 DEF NowSent
  <2>4. CASE pc = "boot" /\ at <= CwmodeAt /\ ~NoK
    <3>1. at # CwmodeAt
      BY <1>3, <2>4, OpPlaces
    <3>2. at' <= CwmodeAt
      BY <1>1, <1>2, <2>4, <3>1
    <3> QED
      BY <1>1, <2>1, <2>4, <3>2 DEF NowSent
  <2>5. CASE pc = "boot" /\ (at <= CwmodeAt \/ at <= BootRead2) /\ NoK
    <3>1. at # BootRead2
      BY <1>3, <2>5, OpPlaces
    <3>2. at' <= BootRead2
      BY <1>1, <1>2, <2>5, <3>1
    <3> QED
      BY <1>1, <2>1, <2>5, <3>2 DEF NowSent
  <2> QED
    BY <1>1, <1>4, <2>2, <2>3, <2>4, <2>5 DEF NowSent, InMenu
<1>5. CASE LateSent
  <2>1. NoK /\ o # "read"
    BY <1>5 DEF LateSent
  <2>2. /\ pc = "select" => at # SelectRead
        /\ pc = "boot" => at # BootRead1
    BY <1>3, <2>1, OpPlaces
  <2>3. /\ pc = "select" /\ at <= SelectRead => at' <= SelectRead
        /\ pc = "boot" /\ at <= BootRead1 => at' <= BootRead1
    BY <1>1, <1>2, <2>2
  <2> QED
    BY <1>1, <1>5, <2>1, <2>3 DEF LateSent
<1> QED
  BY <1>4, <1>5

\* The same for one that is not complete, or cut short.
LEMMA WritingMoves ==
  ASSUME TypeInv, NEW o, AtOp(o), Advance, BeingWritten, o # "tx" \/ Arg = CR,
         UNCHANGED <<line, job, inbox, chosen, before>>
  PROVE  BeingWritten'
<1>1. at' = at + 1 /\ pc' = pc /\ at \in Nat /\ Placed
  BY ScriptIs DEF Advance, TypeInv
<1>2. /\ pc = "boot" => at # 1
      /\ pc = "select" => at # AfterPublish + 2
  BY <1>1, OpPlaces
<1>3. pc = "select" /\ at <= AfterPublish + 2 /\ AfterPublish \in Nat
  BY <1>2, SelectPlaces DEF BeingWritten
<1>4. at' <= AfterPublish + 2
  BY <1>1, <1>2, <1>3
<1>5. OfThis'
  BY <1>1, OfThisMoves DEF BeingWritten
<1> QED
  BY <1>1, <1>3, <1>4, <1>5 DEF BeingWritten

\* What the rest of LateInv says while a routine goes on.
LEMMA RestMoves ==
  ASSUME TypeInv, LateInv, UNCHANGED <<inbox, chosen, before, count>>,
         UNCHANGED run \/ Advance
  PROVE  /\ pc' = "select" => chosen' = count'
         /\ pc' = "select" /\ at' <= AfterPublish => Early'
         /\ LateAtMostOne'
<1>1. pc' = pc /\ at \in Nat /\ (at' = at \/ at' = at + 1)
  BY ScriptIs DEF run, Advance, TypeInv
<1>2. AfterPublish \in Nat
  BY SelectPlaces
<1>3. at' <= AfterPublish => at <= AfterPublish
  BY <1>1, <1>2
<1>4. Early => Early'
  BY DEF Early
<1> QED
  BY <1>1, <1>3, <1>4 DEF LateInv, LateAtMostOne

\* A step that moves nothing of it.
LEMMA LateStays ==
  ASSUME UNCHANGED <<line, job, inbox, chosen, before, pc, at>>,
         NoK => NoK', NowSent \/ LateSent \/ BeingWritten
  PROVE  NowSent' \/ LateSent' \/ BeingWritten'
<1>1. OfThis => OfThis'
  BY DEF OfThis, Early
<1>2. InMenu' <=> InMenu
  BY DEF InMenu
<1>3. NowSent => NowSent'
  BY <1>1, <1>2 DEF NowSent
<1>4. LateSent => LateSent'
  BY DEF LateSent
<1>5. BeingWritten => BeingWritten'
  BY <1>1 DEF BeingWritten
<1> QED
  BY <1>3, <1>4, <1>5

\* A byte more of an answer leaves no 'K' where none was; an answer ends with a
\* byte that is none.
LEMMA AppendOther ==
  ASSUME out \in Seq(Answers), out' = Append(out, Other)
  PROVE  /\ out' # <<>> /\ out'[Len(out')] = Other
         /\ NoK /\ UNCHANGED <<rx, check>> => NoK'
<1>1. Len(out) \in Nat /\ Len(out') = Len(out) + 1
      /\ (\A i \in 1..Len(out) : out'[i] = out[i])
      /\ out'[Len(out) + 1] = Other
  BY AnswersAre
<1>2. \A i \in 1..Len(out') : i \in 1..Len(out) \/ i = Len(out) + 1
  BY <1>1
<1>3. ASSUME NoK, UNCHANGED <<rx, check>> PROVE NoK'
  <2>1. \A i \in 1..Len(out') : NotK(out'[i])
    BY <1>1, <1>2, <1>3, NoKs DEF NoK
  <2> QED
    BY <1>3, <2>1 DEF NoK, NotK
<1>4. out' # <<>>
  BY <1>1
<1> QED
  BY <1>1, <1>3, <1>4

LEMMA LastOf ==
  ASSUME NEW s \in Seq(Answers), NEW t \in Seq(Answers), Len(t) >= 1
  PROVE  s \o t # <<>> /\ (s \o t)[Len(s \o t)] = t[Len(t)]
<1>1. Len(s \o t) = Len(s) + Len(t)
  OBVIOUS
<1>2. \A i \in 1..Len(t) : (s \o t)[Len(s) + i] = t[i]
  OBVIOUS
<1>3. Len(s) \in Nat /\ Len(t) \in 1..Len(t) /\ Len(t) \in Nat
  OBVIOUS
<1>4. (s \o t)[Len(s) + Len(t)] = t[Len(t)]
  BY <1>2, <1>3
<1>5. Len(s \o t) # 0
  BY <1>1, <1>3
<1> QED
  BY <1>1, <1>4, <1>5

LEMMA AppendOk ==
  ASSUME out \in Seq(Answers), NEW x \in Commands \cup {"send"},
         out' = out \o Ok(x)
  PROVE  out' # <<>> /\ out'[Len(out')] = Other
<1>1. Ok(x) \in Seq(Answers) /\ Len(Ok(x)) = 3 /\ Ok(x)[3] = Other
  BY AnswersAre
<1>2. Len(Ok(x)) >= 1
  BY <1>1
<1>3. /\ out \o Ok(x) # <<>>
      /\ (out \o Ok(x))[Len(out \o Ok(x))] = Ok(x)[Len(Ok(x))]
  BY <1>1, <1>2, LastOf, Zenon
<1> QED
  BY <1>1, <1>3, Zenon

LEMMA TailIs ==
  ASSUME out \in Seq(Answers), out # <<>>, out[Len(out)] = Other,
         out' = Tail(out), rx' = Head(out)
  PROVE  /\ out' # <<>> => out'[Len(out')] = Other
         /\ out' = <<>> => rx' = Other
         /\ NoK /\ check' = check => NoK'
<1>1. /\ Len(out) \in Nat /\ Len(out) >= 1 /\ Len(out') = Len(out) - 1
      /\ (\A i \in 1..Len(out') : out'[i] = out[i + 1]) /\ rx' = out[1]
  OBVIOUS
<1>2. ASSUME out' # <<>> PROVE out'[Len(out')] = Other
  <2>1. Len(out') >= 1
    BY <1>1, <1>2
  <2>2. Len(out') \in 1..Len(out') /\ Len(out') + 1 = Len(out)
    BY <1>1, <2>1
  <2> QED
    BY <1>1, <2>2
<1>3. ASSUME out' = <<>> PROVE rx' = Other
  <2>1. Len(out') = 0
    <3>1. Len(<<>>) = 0
      OBVIOUS
    <3> QED
      BY <1>3, <3>1, Zenon
  <2>2. Len(out) = 1
    BY <1>1, <2>1
  <2> QED
    BY <1>1, <2>2
<1>4. ASSUME NoK, check' = check PROVE NoK'
  <2>1. \A i \in 1..Len(out') : i + 1 \in 1..Len(out)
    BY <1>1
  <2>2. \A i \in 1..Len(out') : NotK(out'[i])
    BY <1>1, <1>4, <2>1 DEF NoK
  <2>3. NotK(rx')
    BY <1>1, <1>4 DEF NoK
  <2> QED
    BY <1>4, <2>2, <2>3 DEF NoK, NotK
<1> QED
  BY <1>2, <1>3, <1>4

\* A byte of a publish has reached the ESP: the text on the way is of this
\* selection.
LEMMA PublishWritten ==
  ASSUME TypeInv, LateInv, TxByte, line' = Arg, Arg[1] \in Publishes,
         job # "send", job' \in {job, "send"}
  PROVE  NowSent' \/ BeingWritten'
<1>1. /\ AtOp("tx") /\ at' = at + 1 /\ pc' = pc /\ Placed
      /\ UNCHANGED <<inbox, chosen, before, count>>
  BY DEF TxByte, Advance, menu, past, TypeInv
<1>2. PICK j \in 1..Size["publish1"] :
        /\ pc = "select" /\ at = PublishAt + 2 * j
        /\ Arg = <<Publish(count), j>>
  <2>1. CR[1] \notin Publishes /\ LF[1] \notin Publishes
    BY Different, ArrayNames
  <2>2. \A x \in Arrays \ Publishes : \A j \in 1..39 :
          <<x, j>>[1] \notin Publishes
    OBVIOUS
  <2> QED
    BY <1>1, <2>1, <2>2, AtTx
<1>3. /\ PublishAt \in Nat /\ AfterPublish \in Nat
      /\ SenddAt = AfterPublish + 3
      /\ AfterPublish = PublishAt + 2 * Size["publish1"]
      /\ Size["publish1"] \in Nat
  BY SelectPlaces, SizesNamed
<1>4. /\ at <= AfterPublish /\ at' <= AfterPublish + 1
      /\ at < at' /\ at' <= SenddAt
  <2>1. PICK m \in Nat : m = Size["publish1"]
    BY <1>3
  <2> QED
    BY <1>1, <1>2, <1>3, <2>1
<1>5. chosen = count /\ count \in Option /\ Early
  BY <1>1, <1>2, <1>4 DEF LateInv, Placed
<1>6. Early' /\ line'[1] = Publish(chosen) /\ line'[2] = j
  BY <1>1, <1>2, <1>5 DEF Early
<1>7. OfThis'
  <2>1. PublishAt + 2 * line'[2] < at'
    BY <1>2, <1>4, <1>6
  <2> QED
    BY <1>1, <1>5, <1>6, <2>1 DEF OfThis
<1>8. at' <= AfterPublish + 2
  BY <1>1, <1>2, <1>3, <1>4, SelectPlaces, ScriptIs
<1> QED
  BY <1>1, <1>2, <1>4, <1>7, <1>8 DEF NowSent, BeingWritten

LEMMA LateTx == TypeInv /\ LateInv /\ TxByte => LateInv'
<1> SUFFICES ASSUME TypeInv, LateInv, TxByte PROVE LateInv'
  OBVIOUS
<1>1. /\ AtOp("tx") /\ EspReceive(Arg) /\ Advance /\ Placed
      /\ UNCHANGED <<menu, rx, check, console, past, inbox>>
      /\ UNCHANGED <<inbox, chosen, before, count>>
  BY DEF TxByte, menu, past, TypeInv
<1>2. /\ mode \in {"cmd", "data"} /\ out \in Seq(Answers)
      /\ mode = "data" => job = "none"
  BY EspTypes DEF TypeInv, EspInv
<1>3. out' = out \/ out' = Append(out, Other)
  BY <1>1, <1>2, HeardAs DEF EspReceive
<1>4. check = Empty
  BY <1>1, OnlyRead DEF LateInv
<1>5. EndsInOther' /\ (NoK => NoK')
  <2>1. CASE out' = out
    BY <1>1, <1>4, <2>1 DEF LateInv, EndsInOther, NoK, NotK
  <2>2. CASE out' = Append(out, Other)
    BY <1>1, <1>2, <1>4, <2>2, AppendOther DEF EndsInOther
  <2> QED
    BY <1>3, <2>1, <2>2
<1>6. line'[1] \in Publishes => NowSent' \/ LateSent' \/ BeingWritten'
  <2> SUFFICES ASSUME line'[1] \in Publishes
               PROVE  NowSent' \/ LateSent' \/ BeingWritten'
    OBVIOUS
  <2>1. Empty[1] \notin Publishes /\ Junk[1] \notin Publishes
    BY Different, ArrayNames
  <2>2. CASE line' = Extend(line, Arg) /\ job # "send" /\ job' \in {job, "send"}
    <3>1. line' = Arg
      BY <2>1, <2>2, Extended
    <3> QED
      BY <2>2, <3>1, PublishWritten
  <2>3. CASE line' = line /\ job' = job /\ job = "send"
    <3>1. NowSent \/ LateSent
      BY <2>3 DEF LateInv, BeingWritten
    <3> QED
      BY <1>1, <1>5, <2>3, <3>1, SendMoves
  <2>4. CASE line' = line /\ job' = job /\ job # "send" /\ Arg = CR
    <3>1. BeingWritten
      BY <2>4 DEF LateInv, NowSent, LateSent
    <3> QED
      BY <1>1, <2>4, <3>1, WritingMoves
  <2>5. CASE line' = Empty
    BY <2>1, <2>5
  <2>6. CASE mode = "data"
    <3>1. line' = Extend(line, Arg) /\ job' \in {job, "send"}
      BY <1>1, <2>6 DEF EspReceive
    <3> QED
      BY <1>2, <2>2, <2>6, <3>1
  <2>7. CASE mode = "cmd" /\ Arg = LF
    <3>1. /\ line' = IF job = "send" THEN line ELSE Empty
          /\ job = "send" => job' = job
      BY <1>1, <2>7, HeardAs
    <3> QED
      BY <2>3, <2>5, <3>1
  <2>8. CASE mode = "cmd" /\ Arg # LF
    <3>1. /\ line' = IF Arg = CR \/ job = "send" THEN line
                     ELSE Extend(line, Arg)
          /\ job' = job
      BY <1>1, <2>8, HeardAs
    <3> QED
      BY <2>2, <2>3, <2>4, <3>1
  <2> QED
    BY <1>2, <2>6, <2>7, <2>8
<1>7. /\ pc' = "select" => chosen' = count'
      /\ pc' = "select" /\ at' <= AfterPublish => Early'
      /\ LateAtMostOne'
  BY <1>1, RestMoves
<1> QED
  BY <1>5, <1>6, <1>7 DEF LateInv

\* The other steps of a routine leave the ESP alone.
LEMMA LateRoutine ==
  ASSUME TypeInv, LateInv,
         SleepOver \/ ReadByte \/ PrintByte \/ PutChar \/ ShowText
  PROVE  LateInv'
<1>1. /\ UNCHANGED <<mode, line, rem, job, out, inbox, chosen, before, count>>
      /\ UNCHANGED run \/ Advance
  BY DEF SleepOver, ReadByte, PrintByte, PutChar, ShowText, menu, past, espVars
<1>2. PICK o \in {"sleep", "read", "put", "said", "show"} : AtOp(o)
  BY DEF SleepOver, ReadByte, PrintByte, PutChar, ShowText
<1>3. /\ pc' = "select" => chosen' = count'
      /\ pc' = "select" /\ at' <= AfterPublish => Early'
      /\ LateAtMostOne'
  BY <1>1, RestMoves
<1>4. ASSUME Advance, NoK => NoK', o = "sleep" => NoK, o = "read" => ~NoK
      PROVE  line'[1] \in Publishes => NowSent' \/ LateSent' \/ BeingWritten'
  <2> SUFFICES ASSUME line'[1] \in Publishes
               PROVE  NowSent' \/ LateSent' \/ BeingWritten'
    OBVIOUS
  <2>1. NowSent \/ LateSent \/ BeingWritten
    BY <1>1 DEF LateInv
  <2>2. CASE NowSent \/ LateSent
    BY <1>1, <1>2, <1>4, <2>2, SendMoves DEF NowSent, LateSent
  <2>3. CASE BeingWritten
    BY <1>1, <1>2, <1>4, <2>3, WritingMoves
  <2> QED
    BY <2>1, <2>2, <2>3
<1>5. CASE SleepOver \/ PutChar \/ ShowText
  <2>1. o # "read" /\ Advance /\ UNCHANGED <<rx, check>>
        /\ (SleepOver => out = <<>>)
    BY <1>2, <1>5 DEF SleepOver, PutChar, ShowText, AtOp
  <2>2. check = Empty
    BY <1>2, <2>1, OnlyRead DEF LateInv
  <2>3. NoK => NoK'
    BY <1>1, <2>1 DEF NoK, NotK
  <2>4. EndsInOther'
    BY <1>1, <2>1, <2>2 DEF LateInv, EndsInOther, NotK
  <2>5. o = "sleep" => NoK
    <3> SUFFICES ASSUME o = "sleep" PROVE NoK
      OBVIOUS
    <3>1. out = <<>>
      BY <1>2, <1>5, <2>1 DEF PutChar, ShowText, AtOp
    <3>2. NotK(rx) /\ NotK(check)
      BY <2>2, <3>1, NoKs DEF LateInv, EndsInOther
    <3>3. Len(out) = 0
      BY <3>1
    <3> QED
      BY <3>2, <3>3 DEF NoK
  <2> QED
    BY <1>3, <1>4, <2>1, <2>3, <2>4, <2>5 DEF LateInv
<1>6. CASE ReadByte \/ (PrintByte /\ UNCHANGED run)
  <2>1. /\ UNCHANGED <<pc, at, count>>
        /\ \/ check' = rx /\ rx' = Empty
           \/ check' = Empty /\ rx' = rx
    BY <1>1, <1>6 DEF ReadByte, PrintByte, run
  <2>2. NoK => NoK'
    BY <1>1, <2>1, NoKs DEF NoK, NotK
  <2>3. AtOp("read") /\ AtOp("read")'
    BY <1>6, <2>1 DEF ReadByte, PrintByte, AtOp, Running, Script
  <2>4. EndsInOther'
    BY <1>1, <2>1, <2>3, NoKs DEF LateInv, EndsInOther, NotK
  <2>5. line'[1] \in Publishes => NowSent' \/ LateSent' \/ BeingWritten'
    BY <1>1, <2>1, <2>2, LateStays DEF LateInv
  <2> QED
    BY <1>3, <2>4, <2>5 DEF LateInv
<1>7. CASE PrintByte /\ ~UNCHANGED run
  <2>1. /\ check[1] = "K" /\ Advance /\ check' = Empty /\ rx' = rx
        /\ AtOp("read")
    BY <1>7 DEF PrintByte
  <2>2. ~NoK
    BY <2>1 DEF NoK, NotK
  <2>3. EndsInOther'
    BY <1>1, <2>1 DEF LateInv, EndsInOther, NotK
  <2>4. o # "sleep"
    BY <1>2, <2>1 DEF AtOp
  <2> QED
    BY <1>3, <1>4, <2>1, <2>2, <2>3, <2>4 DEF LateInv
<1> QED
  BY <1>5, <1>6, <1>7

LEMMA PairIs ==
  ASSUME NEW S, NEW a \in S, NEW b \in S
  PROVE  Append(<<a>>, b) = <<a, b>>
<1>1. <<a>> \in Seq(S) /\ Len(<<a>>) = 1 /\ <<a>>[1] = a
  OBVIOUS
<1>2. Append(<<a>>, b) \in Seq(S) /\ Len(Append(<<a>>, b)) = 2
  BY <1>1
<1>3. Append(<<a>>, b)[1] = a /\ Append(<<a>>, b)[2] = b
  BY <1>1
<1>4. \A s \in Seq(S) : Len(s) = 2 => s = <<s[1], s[2]>>
  OBVIOUS
<1> QED
  BY <1>2, <1>3, <1>4

\* The ESP is done: the publish that was on its way gets its place.
LEMMA LateFinish == TypeInv /\ LateInv /\ EspStep => LateInv'
<1> SUFFICES ASSUME TypeInv, LateInv, EspStep PROVE LateInv'
  OBVIOUS
<1>1. /\ UNCHANGED <<chosen, before, count, pc, at, rx, check>>
      /\ UNCHANGED run
      /\ EspFinish \/ BrokerClose \/ Drop
  BY DEF EspStep, menu, run, past
<1>2. out \in Seq(Answers) /\ job \in Commands \cup {"none", "send"}
  BY EspTypes DEF TypeInv, EspInv
<1>3. out' # <<>> /\ out'[Len(out')] = Other
  <2>1. CASE EspFinish
    <3>1. out' = out \o Ok(job) \/ out' = Append(out, Other)
      BY <2>1, FinishIs
    <3>2. job \in Commands \cup {"send"}
      BY <1>2, <2>1, FinishIs
    <3> QED
      BY <1>2, <3>1, <3>2, AppendOther, AppendOk
  <2>2. CASE BrokerClose \/ Drop
    <3>1. out' = Append(out, Other)
      BY <2>2 DEF BrokerClose, Drop, Closed
    <3> QED
      BY <1>2, <3>1, AppendOther
  <2> QED
    BY <1>1, <2>1, <2>2
<1>4. EndsInOther'
  <2>1. AtOp("read")' <=> AtOp("read")
    BY <1>1 DEF AtOp, Running, Script
  <2> QED
    BY <1>1, <1>3, <2>1 DEF LateInv, EndsInOther
<1>5. CASE inbox' = inbox
  <2>1. /\ pc' = "select" => chosen' = count'
        /\ pc' = "select" /\ at' <= AfterPublish => Early'
        /\ LateAtMostOne'
    BY <1>1, <1>5, RestMoves
  <2>2. ASSUME line'[1] \in Publishes
        PROVE  NowSent' \/ LateSent' \/ BeingWritten'
    <3>1. CASE BrokerClose \/ Drop
      <4>1. UNCHANGED <<line, job>> /\ out' = Append(out, Other)
        BY <3>1 DEF BrokerClose, Drop, Closed
      <4>2. NoK => NoK'
        BY <1>1, <1>2, <4>1, AppendOther
      <4> QED
        BY <1>1, <1>5, <2>2, <4>1, <4>2, LateStays DEF LateInv
    <3>2. CASE EspFinish
      <4>1. line' # Empty
        BY <2>2, Different, ArrayNames
      <4>2. line' = line /\ job # "send" /\ job' = "none"
        BY <3>2, <4>1, FinishIs
      <4>3. BeingWritten
        BY <2>2, <4>2 DEF LateInv, NowSent, LateSent
      <4>4. OfThis'
        BY <1>1, <1>5, <4>2, <4>3 DEF BeingWritten, OfThis, Early
      <4> QED
        BY <1>1, <4>2, <4>3, <4>4 DEF BeingWritten
    <3> QED
      BY <1>1, <3>1, <3>2
  <2> QED
    BY <1>4, <2>1, <2>2 DEF LateInv
<1>6. CASE inbox' # inbox
  <2>1. EspFinish
    BY <1>1, <1>6 DEF BrokerClose, Drop, Closed
  <2>2. job = "send" /\ line' = Empty /\ BrokerTake(line)
    BY <1>6, <2>1, FinishIs
  <2>3. Whole(line, Publishes) /\ inbox' = Append(inbox, OptionOf(line))
    BY <1>6, <2>2, TakeIs
  <2>4. line[1] \in Publishes /\ line[2] = Size["publish1"]
    BY <2>3, SizeIs DEF Whole
  <2>5. OptionOf(line) \in Option /\ Publish(OptionOf(line)) = line[1]
    BY <2>4, PublishNames
  <2>6. NowSent \/ LateSent
    BY <2>2, <2>4 DEF LateInv, BeingWritten
  <2>7. CASE NowSent
    <3>1. OfThis
      BY <2>7 DEF NowSent
    <3>2. OptionOf(line) = chosen
      BY <2>5, <3>1, PublishNames DEF OfThis
    <3>3. inbox' \in {<<chosen>>, <<before, chosen>>}
      <4>1. inbox = <<>> \/ inbox = <<before>>
        BY <3>1 DEF OfThis, Early
      <4>2. inbox' = Append(inbox, chosen)
        BY <2>3, <3>2
      <4>3. Append(<<>>, chosen) = <<chosen>>
        OBVIOUS
      <4>4. Append(<<before>>, chosen) = <<before, chosen>>
        <5>1. chosen \in Option \cup {-1} /\ before \in Option \cup {-1}
          BY DEF TypeInv, AppTypes
        <5> QED
          BY <5>1, PairIs
      <4> QED
        BY <4>1, <4>2, <4>3, <4>4, Zenon
    <3>4. pc = "select" => ~(at <= AfterPublish)
      <4>1. pc = "select" => PublishAt + 2 * line[2] < at
        BY <3>1 DEF OfThis
      <4>2. pc = "select" => AfterPublish < at
        BY <2>4, <4>1, SelectPlaces
      <4> QED
        BY <4>2, SelectPlaces, ScriptIs DEF TypeInv
    <3> QED
      BY <1>1, <1>4, <2>2, <3>3, <3>4, Different, ArrayNames
         DEF LateInv, LateAtMostOne
  <2>8. CASE LateSent
    <3>1. before \in Option /\ line[1] = Publish(before) /\ inbox = <<>>
      BY <2>8 DEF LateSent
    <3>2. OptionOf(line) = before
      BY <2>5, <3>1, PublishNames
    <3>3. inbox' = <<before>>
      BY <2>3, <3>1, <3>2
    <3> QED
      BY <1>1, <1>4, <2>2, <3>3, Different, ArrayNames
         DEF LateInv, LateAtMostOne, Early
  <2> QED
    BY <2>6, <2>7, <2>8
<1> QED
  BY <1>5, <1>6

\* A selection begins: what is still on its way becomes the late one.
LEMMA LateSelect == TypeInv /\ LateInv /\ Select => LateInv'
<1> SUFFICES ASSUME TypeInv, LateInv, Select PROVE LateInv'
  OBVIOUS
<1>1. /\ pc = "decide" /\ pc' = "select" /\ at' = 1 /\ chosen' = count
      /\ before' = (IF Quiet THEN -1 ELSE chosen) /\ inbox' = <<>>
      /\ UNCHANGED <<line, job, out, rx, check, count>>
  BY DEF Select, menu, Idle
<1>2. EndsInOther'
  <2>1. check = Empty
    BY <1>1 DEF LateInv, EndsInOther, AtOp, Running
  <2> QED
    BY <1>1, <2>1 DEF LateInv, EndsInOther, NotK
<1>3. Early' /\ LateAtMostOne'
  BY <1>1 DEF Early, LateAtMostOne
<1>4. ASSUME line'[1] \in Publishes PROVE LateSent'
  <2>1. NowSent /\ NoK
    BY <1>1, <1>4 DEF LateInv, NowSent, LateSent, BeingWritten
  <2>2. job = "send" /\ chosen \in Option /\ line[1] = Publish(chosen)
    BY <2>1 DEF NowSent, OfThis
  <2>3. before' = chosen
    BY <1>1, <2>2 DEF Quiet
  <2>4. NoK'
    BY <1>1, <2>1 DEF NoK, NotK
  <2>5. at' <= SelectRead
    BY <1>1, SelectPlaces
  <2> QED
    BY <1>1, <2>2, <2>3, <2>4, <2>5 DEF LateSent
<1> QED
  BY <1>1, <1>2, <1>3, <1>4 DEF LateInv

LEMMA LateReturn == TypeInv /\ LateInv /\ Return => LateInv'
<1> SUFFICES ASSUME TypeInv, LateInv, Return PROVE LateInv'
  OBVIOUS
<1>1. /\ pc \in {"boot", "select"} /\ at = Len(Script) + 1
      /\ pc' = (IF pc = "boot" THEN "sample" ELSE "hold")
      /\ UNCHANGED <<line, job, out, rx, check, inbox, chosen, before>>
  BY DEF Return, Running, espVars, past
<1>2. /\ Len(Script) \in Nat
      /\ pc = "boot" => at = MenuAt + 2
      /\ pc = "select" => at = SaidAt + 1
  <2>1. /\ pc = "boot" => Len(Script) = MenuAt + 1
        /\ pc = "select" => Len(Script) = SaidAt /\ Len(Script) \in Nat
    BY ScriptIs DEF TypeInv
  <2>2. MenuAt \in Nat
    BY BootPlaces
  <2> QED
    BY <1>1, <2>1, <2>2
<1>3. check = Empty
  BY <1>1, <1>2 DEF LateInv, EndsInOther, AtOp
<1>4. EndsInOther'
  BY <1>1, <1>3 DEF LateInv, EndsInOther, NotK
<1>5. ASSUME line'[1] \in Publishes PROVE NowSent'
  <2>1. /\ pc = "boot" => ~(at <= CwmodeAt) /\ ~(at <= BootRead2)
                          /\ ~(at <= BootRead1) /\ at # 1
    BY <1>2, BootPlaces
  <2>2. /\ SelectRead \in Nat /\ SenddAt \in Nat /\ AfterPublish \in Nat
        /\ SaidAt \in Nat /\ SaidAt > SenddAt /\ SaidAt > AfterPublish + 2
        /\ SaidAt > SelectRead
    <3>1. /\ SelectRead \in Nat /\ AnswerAt \in Nat /\ PublishAt \in Nat
          /\ AfterPublish \in Nat /\ SenddAt \in Nat /\ SaidAt \in Nat
          /\ AnswerAt >= SelectRead + 8
          /\ PublishAt >= AnswerAt + 6 /\ AfterPublish >= PublishAt + 2
          /\ SenddAt = AfterPublish + 3 /\ SaidAt >= SenddAt + 10
      BY SelectPlaces
    <3> QED
      BY <3>1
  <2>3. pc = "select" => ~(at <= SenddAt) /\ ~(at <= AfterPublish + 2)
                         /\ ~(at <= SelectRead)
    BY <1>2, <2>2
  <2>4. NowSent /\ NoK /\ pc = "select"
    BY <1>1, <1>5, <2>1, <2>3
       DEF LateInv, NowSent, LateSent, BeingWritten, InMenu
  <2>5. NoK' /\ OfThis' /\ InMenu'
    BY <1>1, <2>4 DEF NowSent, NoK, NotK, OfThis, Early, InMenu
  <2> QED
    BY <1>1, <2>4, <2>5 DEF NowSent
<1> QED
  BY <1>1, <1>4, <1>5 DEF LateInv, LateAtMostOne

LEMMA LateMenu ==
  ASSUME TypeInv, LateInv, InMenu, InMenu', UNCHANGED <<rx, check>>,
         UNCHANGED <<line, job, out, inbox, chosen, before>>
  PROVE  LateInv'
<1>1. check = Empty
  BY DEF LateInv, EndsInOther, AtOp, Running, InMenu
<1>2. EndsInOther'
  BY <1>1 DEF LateInv, EndsInOther, NotK
<1>3. ASSUME line'[1] \in Publishes PROVE NowSent'
  <2>1. NowSent /\ NoK
    BY <1>3 DEF LateInv, NowSent, LateSent, BeingWritten, InMenu
  <2>2. NoK' /\ OfThis'
    BY <2>1 DEF NowSent, NoK, NotK, OfThis, Early, InMenu
  <2> QED
    BY <2>1, <2>2 DEF NowSent
<1> QED
  BY <1>2, <1>3 DEF LateInv, LateAtMostOne, InMenu

\* A reset may cut a publish short anywhere: what the ESP has of it, it keeps.
LEMMA LateReset == TypeInv /\ LateInv /\ Reset => LateInv'
<1> SUFFICES ASSUME TypeInv, LateInv, Reset PROVE LateInv'
  OBVIOUS
<1>1. /\ pc' = "boot" /\ at' = 1 /\ rx' = Empty /\ check' = Empty
      /\ UNCHANGED <<line, job, out, inbox, chosen, before>>
  BY DEF Reset, espVars
<1>2. EndsInOther'
  BY <1>1, NoKs DEF LateInv, EndsInOther, NotK
<1>3. OfThis => OfThis'
  BY <1>1 DEF OfThis, Early
<1>4. NoK => NoK'
  BY <1>1, NoKs DEF NoK, NotK
<1>5. at' <= CwmodeAt /\ at' <= BootRead1
  BY <1>1, BootPlaces
<1>6. /\ NowSent => NowSent'
      /\ LateSent => LateSent'
      /\ BeingWritten => BeingWritten'
  BY <1>1, <1>3, <1>4, <1>5 DEF NowSent, LateSent, BeingWritten
<1> QED
  BY <1>1, <1>2, <1>6 DEF LateInv, LateAtMostOne

LEMMA LateStep == TypeInv /\ LateInv /\ [Next]_vars => LateInv'
<1> SUFFICES ASSUME TypeInv, LateInv, [Next]_vars PROVE LateInv'
  OBVIOUS
<1>1. CASE Sample \/ Up \/ Down \/ Ignore \/ HoldSample \/ Light
  <2>1. InMenu /\ InMenu' /\ UNCHANGED <<rx, check>>
        /\ UNCHANGED <<line, job, out, inbox, chosen, before>>
    BY <1>1 DEF Sample, Up, Down, Move, Ignore, HoldSample, Light, InMenu, Idle,
                Kept, espVars
  <2> QED
    BY <2>1, LateMenu
<1>2. CASE Arrive
  <2>1. /\ out # <<>> /\ out' = Tail(out) /\ rx' = Head(out)
        /\ UNCHANGED <<check, line, job, inbox, chosen, before, count, pc, at>>
        /\ UNCHANGED run
    BY <1>2 DEF Arrive, menu, run, past
  <2>2. out \in Seq(Answers) /\ out[Len(out)] = Other
    BY <2>1, EspTypes DEF TypeInv, EspInv, LateInv, EndsInOther
  <2>3. /\ out' # <<>> => out'[Len(out')] = Other
        /\ out' = <<>> => rx' = Other
        /\ NoK => NoK'
    BY <2>1, <2>2, TailIs
  <2>4. EndsInOther'
    <3>1. AtOp("read")' <=> AtOp("read")
      BY <2>1 DEF AtOp, Running, Script
    <3> QED
      BY <2>1, <2>3, <3>1, NoKs DEF LateInv, EndsInOther, NotK
  <2> QED
    BY <2>1, <2>3, <2>4, RestMoves, LateStays DEF LateInv
<1>3. CASE Fetch \/ (\E k \in KeyValues : Press(k)) \/ UNCHANGED vars
  <2>1. /\ UNCHANGED <<rx, check, out, line, job, inbox, chosen, before, count>>
        /\ UNCHANGED <<pc, at>> /\ UNCHANGED run
    BY <1>3 DEF Fetch, Press, vars, menu, run, past, espVars
  <2>2. EndsInOther' /\ (NoK => NoK')
    <3>1. AtOp("read")' <=> AtOp("read")
      BY <2>1 DEF AtOp, Running, Script
    <3> QED
      BY <2>1, <3>1 DEF LateInv, EndsInOther, NoK, NotK
  <2> QED
    BY <2>1, <2>2, RestMoves, LateStays DEF LateInv
<1> QED
  BY <1>1, <1>2, <1>3, LateTx, LateRoutine, LateReturn, LateSelect, LateFinish,
     LateReset DEF Next, Cpu

LEMMA LateInit == Init => LateInv
<1> SUFFICES ASSUME Init PROVE LateInv
  OBVIOUS
<1>1. pc = "boot" /\ rx = Empty /\ check = Empty /\ line = Empty
      /\ out = <<>> /\ inbox = <<>>
  BY DEF Init, EspInit
<1>2. EndsInOther
  BY <1>1, NoKs DEF EndsInOther
<1> QED
  BY <1>1, <1>2, Different, ArrayNames DEF LateInv, LateAtMostOne

\* However long the ESP takes, whatever connections are lost and wherever the
\* processor is reset: the broker's inbox holds at most one publish of the
\* selection before and then at most one of this one.
THEOREM LateAtMostOneAlways == Spec => []LateAtMostOne
<1>1. Spec => [](TypeInv /\ LateInv)
  BY TypeInit, TypeStep, LateInit, LateStep, PTL DEF Spec
<1>2. LateInv => LateAtMostOne
  BY DEF LateInv
<1> QED
  BY <1>1, <1>2, PTL
-----------------------------------------------------------------------------
(* The dialogue, as long as what the program relies on holds: its sleeps    *)
(* outlast the ESP, the access point and the broker are there, no connection*)
(* is lost, and the processor is reset only while the menu waits.           *)

Online == Prompt /\ Reliable /\ MaxDrops = 0 /\ ~ResetAnywhere

\* What is on its way to the program belongs to the answer to x.
AnswerTo(x) == \A i \in 1..Len(out) : out[i] \in {Other, K(x)}

\* The first i - 1 bytes of the command x have been written.
Writing(x, i) ==
  /\ mode = "cmd" /\ job = "none" /\ rem = 0 /\ out = <<>>
  /\ i = 1 => line = Empty
  /\ i \in 2..Size[x] + 1 => line = <<x, i - 1>>
  /\ i = Size[x] + 2 => line = <<x, Size[x]>>

\* The ESP works on x.
Working(x) ==
  mode = "cmd" /\ job = x /\ rem = 0 /\ line = Empty /\ out = <<>>

\* It has answered.
Answered(x) ==
  mode = "cmd" /\ job = "none" /\ rem = 0 /\ line = Empty /\ AnswerTo(x)

\* It has answered x and waits for n bytes.
Prompted(x, n) ==
  mode = "data" /\ job = "none" /\ rem = n /\ line = Empty /\ AnswerTo(x)

\* i bytes of the packet x have been written.
InPacket(x, i) ==
  /\ mode = "data" /\ job = "none" /\ out = <<>>
  /\ rem = Size[x] - i /\ i < Size[x]
  /\ i = 0 => line = Empty
  /\ i # 0 => line = <<x, i>>

\* The packet x is complete and the ESP sends it.
Sending(x) ==
  /\ mode = "cmd" /\ job = "send" /\ rem = 0 /\ line = <<x, Size[x]>>
  /\ AnswerTo("send")

Sent == Answered("send")

Link(t, s) == tcp = t /\ session = s

\* The ESP waits for a command, or for a packet of n bytes.
Ready(t, s) ==
  /\ mode = "cmd" /\ job = "none" /\ rem = 0 /\ line = Empty /\ out = <<>>
  /\ Link(t, s)

Waiting(n, s) ==
  /\ mode = "data" /\ job = "none" /\ rem = n /\ line = Empty /\ out = <<>>
  /\ Link(TRUE, s)

Resting == Ready(FALSE, "none")

\* The command x, written from place b on, and read or waited for; t says
\* whether there is a connection after it.
Plain(x, b, t) ==
  /\ session = "none"
  /\ \/ ~tcp /\ \E i \in 1..Size[x] + 2 : at = b + i /\ Writing(x, i)
     \/ /\ at \in {b + Size[x] + 3, b + Size[x] + 4}
        /\ \/ Working(x) /\ ~tcp
           \/ Answered(x) /\ tcp = t

\* A CIPSEND, which announces a packet of n bytes.
Announcing(x, b, n, s) ==
  /\ Link(TRUE, s)
  /\ \/ \E i \in 1..Size[x] + 2 : at = b + i /\ Writing(x, i)
     \/ at = b + Size[x] + 3 /\ (Working(x) \/ Prompted(x, n))

Connect ==
  \/ /\ Link(TRUE, "none")
     /\ \E i \in Nat : at = ConnectAt + i + 1 /\ InPacket("connect", i)
  \/ /\ at \in AnswerAt - 1..AnswerAt + 2
     /\ \/ Sending("connect") /\ Link(TRUE, "none")
        \/ Sent /\ Link(TRUE, "open")

\* i bytes of a packet with an echo, which begins at place b, are written.
Echoing(x, b, i) ==
  at \in {b + 2 * i + 1, b + 2 * i + 2} /\ InPacket(x, i)

PublishIt ==
  /\ Link(TRUE, "open")
  /\ \/ inbox = <<>> /\ \E i \in Nat : Echoing(Publish(count), PublishAt, i)
     \/ /\ at \in AfterPublish + 1..AfterPublish + 3
        /\ \/ Sending(Publish(count)) /\ inbox = <<>>
           \/ Sent /\ inbox = <<count>>

Disconnect ==
  \/ Link(TRUE, "open") /\ \E i \in Nat : Echoing("disconnect", DisconnectAt, i)
  \/ /\ at \in SaidAt - 3..SaidAt - 1
     /\ \/ Sending("disconnect") /\ Link(TRUE, "open")
        \/ Sent /\ (Link(TRUE, "closing") \/ Link(FALSE, "none"))

BootTalk ==
  \/ Plain("AT", 0, FALSE)
  \/ Plain("CWMODE", CwmodeAt, FALSE)
  \/ Plain("CWJAP", CwjapAt, FALSE)
  \/ at > MenuAt /\ Resting

SelectTalk ==
  \/ inbox = <<>> /\ Plain("CIPSTART", 0, TRUE)
  \/ inbox = <<>> /\ Announcing("SENDC", SendcAt, Size["connect"], "none")
  \/ inbox = <<>> /\ Connect
  \/ inbox = <<>> /\ Announcing("SENDP", SendpAt, Size["publish1"], "open")
  \/ PublishIt
  \/ /\ inbox = <<count>>
     /\ Announcing("SENDD", SenddAt, Size["disconnect"], "open")
  \/ inbox = <<count>> /\ Disconnect
  \/ inbox = <<count>> /\ at >= SaidAt /\ Resting

FreshK ==
  AtOp("read") => /\ rx[1] = "K" => rx[2] = Arg
                  /\ check[1] = "K" => check[2] = Arg

Talk ==
  /\ FreshK
  /\ pc = "boot" => BootTalk
  /\ pc = "select" => SelectTalk /\ (at <= SaidAt => ~said)
  /\ InMenu => Resting
  /\ pc \in {"hold", "light"} => inbox = <<count>>

\* What a byte does in each of these states.
LEMMA DataIs ==
  ASSUME NEW b, EspReceive(b), mode = "data"
  PROVE  /\ rem' = rem - 1 /\ line' = Extend(line, b) /\ out' = out
         /\ rem = 1 => mode' = "cmd" /\ job' = "send"
         /\ rem # 1 => mode' = mode /\ job' = job
BY DEF EspReceive

LEMMA WriteByte ==
  ASSUME NEW x \in Commands, NEW i \in 1..Size[x], Writing(x, i),
         EspReceive(<<x, i>>)
  PROVE  Writing(x, i + 1)'
<1>1. x \in Arrays /\ Size[x] \in Nat
  BY SizeIs DEF Arrays
<1>2. <<x, i>> # CR /\ <<x, i>> # LF /\ <<x, i>>[1] = x /\ <<x, i>>[2] = i
  BY <1>1, Different
<1>3. /\ line' = Extend(line, <<x, i>>)
      /\ mode' = "cmd" /\ job' = "none" /\ rem' = 0 /\ out' = <<>>
  BY <1>2, HeardAs DEF Writing
<1>4. line' = <<x, i>>
  <2>1. CASE i = 1
    BY <1>2, <1>3, <2>1 DEF Writing, Extend
  <2>2. CASE i # 1
    <3>1. i \in 2..Size[x] + 1 /\ i = (i - 1) + 1
      BY <1>1, <2>2
    <3>2. line[1] = x /\ line[2] = i - 1
      BY <3>1 DEF Writing
    <3> QED
      BY <1>2, <1>3, <3>1, <3>2 DEF Extend
  <2> QED
    BY <2>1, <2>2
<1>5. /\ i + 1 # 1 /\ (i + 1) - 1 = i
      /\ i + 1 = Size[x] + 2 => FALSE
  BY <1>1
<1> QED
  BY <1>3, <1>4, <1>5 DEF Writing

LEMMA WriteCR ==
  ASSUME NEW x \in Commands, Writing(x, Size[x] + 1), EspReceive(CR)
  PROVE  Writing(x, Size[x] + 2)'
<1>1. Size[x] \in Nat /\ Size[x] >= 1
  BY SizeIs DEF Arrays
<1>2. /\ line' = line
      /\ mode' = "cmd" /\ job' = "none" /\ rem' = 0 /\ out' = <<>>
  BY HeardAs, Different DEF Writing
<1>3. Size[x] + 1 \in 2..Size[x] + 1 /\ (Size[x] + 1) - 1 = Size[x]
  BY <1>1
<1>4. line = <<x, Size[x]>>
  BY <1>3 DEF Writing
<1>5. Size[x] + 2 # 1 /\ ~(Size[x] + 2 \in 2..Size[x] + 1)
  BY <1>1
<1> QED
  BY <1>2, <1>4, <1>5 DEF Writing

LEMMA WriteLF ==
  ASSUME NEW x \in Commands, Writing(x, Size[x] + 2), EspReceive(LF)
  PROVE  Working(x)'
<1>1. Size[x] \in Nat
  BY SizeIs DEF Arrays
<1>2. line = <<x, Size[x]>> /\ job = "none" /\ mode = "cmd" /\ rem = 0
      /\ out = <<>>
  BY DEF Writing
<1>3. Whole(line, Commands)
  BY <1>2 DEF Whole
<1>4. /\ line' = Empty /\ job' = line[1] /\ out' = out
      /\ UNCHANGED <<mode, rem>>
  BY <1>2, <1>3, HeardAs
<1> QED
  BY <1>2, <1>4 DEF Working

LEMMA PacketByte ==
  ASSUME NEW x \in Packets, NEW i \in Nat, InPacket(x, i),
         EspReceive(<<x, i + 1>>)
  PROVE  /\ i + 1 < Size[x] => InPacket(x, i + 1)'
         /\ ~(i + 1 < Size[x]) => Sending(x)' /\ i + 1 = Size[x]
<1>1. x \in Arrays /\ Size[x] \in Nat
  BY SizeIs DEF Arrays
<1>2. /\ mode = "data" /\ job = "none" /\ out = <<>>
      /\ rem = Size[x] - i /\ i < Size[x]
  BY DEF InPacket
<1>3. /\ rem' = rem - 1 /\ line' = Extend(line, <<x, i + 1>>) /\ out' = out
      /\ rem = 1 => mode' = "cmd" /\ job' = "send"
      /\ rem # 1 => mode' = mode /\ job' = job
  BY <1>2, DataIs
<1>4. line' = <<x, i + 1>>
  <2>1. CASE i = 0
    <3>1. line = Empty /\ <<x, i + 1>>[2] = 1
      BY <2>1 DEF InPacket
    <3> QED
      BY <1>3, <3>1 DEF Extend
  <2>2. CASE i # 0
    <3>1. line[1] = x /\ line[2] = i
      BY <2>2 DEF InPacket
    <3> QED
      BY <1>3, <3>1 DEF Extend
  <2> QED
    BY <2>1, <2>2
<1>5. /\ rem' = Size[x] - (i + 1) /\ i + 1 # 0
      /\ i + 1 < Size[x] => rem # 1
      /\ ~(i + 1 < Size[x]) => rem = 1 /\ i + 1 = Size[x] /\ rem' = 0
  BY <1>1, <1>2, <1>3
<1>6. ASSUME i + 1 < Size[x] PROVE InPacket(x, i + 1)'
  BY <1>2, <1>3, <1>4, <1>5, <1>6 DEF InPacket
<1>7. ASSUME ~(i + 1 < Size[x]) PROVE Sending(x)' /\ i + 1 = Size[x]
  <2>1. AnswerTo("send")'
    <3>1. Len(<<>>) = 0
      OBVIOUS
    <3>2. Len(out') = 0
      BY <1>2, <1>3, <3>1, Zenon
    <3> QED
      BY <3>2 DEF AnswerTo
  <2> QED
    BY <1>3, <1>4, <1>5, <1>7, <2>1 DEF Sending
<1> QED
  BY <1>6, <1>7

\* An answer grows and is sent.
LEMMA AnswerGrows ==
  ASSUME NEW x, AnswerTo(x), out \in Seq(Answers)
  PROVE  /\ out' = out => AnswerTo(x)'
         /\ out' = Append(out, Other) => AnswerTo(x)'
         /\ out # <<>> /\ out' = Tail(out) =>
              AnswerTo(x)' /\ Head(out) \in {Other, K(x)}
<1>1. ASSUME out' = out PROVE AnswerTo(x)'
  BY <1>1 DEF AnswerTo
<1>2. ASSUME out' = Append(out, Other) PROVE AnswerTo(x)'
  <2>1. /\ Len(out) \in Nat /\ Len(out') = Len(out) + 1
        /\ (\A i \in 1..Len(out) : out'[i] = out[i])
        /\ out'[Len(out) + 1] = Other
    BY <1>2, AnswersAre
  <2>2. \A i \in 1..Len(out') : i \in 1..Len(out) \/ i = Len(out) + 1
    BY <2>1
  <2> QED
    BY <2>1, <2>2 DEF AnswerTo
<1>3. ASSUME out # <<>>, out' = Tail(out)
      PROVE  AnswerTo(x)' /\ Head(out) \in {Other, K(x)}
  <2>1. /\ Len(out) \in Nat /\ Len(out) >= 1 /\ Len(out') = Len(out) - 1
        /\ (\A i \in 1..Len(out') : out'[i] = out[i + 1]) /\ Head(out) = out[1]
    BY <1>3
  <2>2. \A i \in 1..Len(out') : i + 1 \in 1..Len(out)
    BY <2>1
  <2>3. 1 \in 1..Len(out)
    BY <2>1
  <2> QED
    BY <2>1, <2>2, <2>3 DEF AnswerTo
<1> QED
  BY <1>1, <1>2, <1>3

LEMMA AnswerOk ==
  ASSUME NEW x \in Commands \cup {"send"}, AnswerTo(x), out \in Seq(Answers),
         out' = out \o Ok(x)
  PROVE  AnswerTo(x)'
<1>1. /\ Ok(x) \in Seq(Answers) /\ Len(Ok(x)) = 3
      /\ Ok(x)[1] = Other /\ Ok(x)[2] = K(x) /\ Ok(x)[3] = Other
  BY AnswersAre
<1>2. PICK s, t : s = out /\ t = Ok(x)
  OBVIOUS
<1>3. s \in Seq(Answers) /\ t \in Seq(Answers)
  BY <1>1, <1>2
<1>4. /\ Len(s \o t) = Len(s) + Len(t) /\ Len(s) \in Nat /\ Len(t) \in Nat
      /\ \A i \in 1..Len(s) : (s \o t)[i] = s[i]
      /\ \A i \in 1..Len(t) : (s \o t)[Len(s) + i] = t[i]
  BY <1>3
<1>5. \A i \in 1..Len(t) : t[i] \in {Other, K(x)}
  <2>1. \A i \in 1..3 : i = 1 \/ i = 2 \/ i = 3
    OBVIOUS
  <2> QED
    BY <1>1, <1>2, <2>1
<1>6. \A i \in 1..Len(s) : s[i] \in {Other, K(x)}
  BY <1>2 DEF AnswerTo
<1>7. ASSUME NEW i \in 1..Len(s \o t)
      PROVE  (s \o t)[i] \in {Other, K(x)}
  <2>1. CASE i \in 1..Len(s)
    BY <1>4, <1>6, <2>1
  <2>2. CASE ~(i \in 1..Len(s))
    <3>1. i - Len(s) \in 1..Len(t) /\ Len(s) + (i - Len(s)) = i
      BY <1>4, <2>2
    <3> QED
      BY <1>4, <1>5, <3>1
  <2> QED
    BY <2>1, <2>2
<1>8. out' = s \o t
  BY <1>2
<1> QED
  BY <1>7, <1>8 DEF AnswerTo

\* CR LF after a packet changes nothing.
LEMMA SendingLine ==
  ASSUME NEW x, NEW b \in {CR, LF}, Sending(x), EspReceive(b),
         out \in Seq(Answers)
  PROVE  Sending(x)'
<1>1. mode = "cmd" /\ job = "send" /\ AnswerTo("send")
  BY DEF Sending
<1>2. /\ UNCHANGED <<mode, rem, line, job>>
      /\ out' = out \/ out' = Append(out, Other)
  BY <1>1, HeardAs, Different
<1>3. AnswerTo("send")'
  BY <1>1, <1>2, AnswerGrows
<1> QED
  BY <1>2, <1>3 DEF Sending

LEMMA SentLine ==
  ASSUME NEW b \in {CR, LF}, Sent, EspReceive(b), out \in Seq(Answers)
  PROVE  Sent'
<1>1. mode = "cmd" /\ job = "none" /\ AnswerTo("send") /\ line = Empty
  BY DEF Sent, Answered
<1>2. ~Whole(line, Commands)
  BY <1>1, Different DEF Whole, Arrays
<1>3. /\ UNCHANGED <<mode, rem, line, job>>
      /\ out' = out \/ out' = Append(out, Other)
  BY <1>1, <1>2, HeardAs, Different
<1>4. AnswerTo("send")'
  BY <1>1, <1>3, AnswerGrows
<1> QED
  BY <1>3, <1>4 DEF Sent, Answered

\* What the ESP does with what it works on.
LEMMA EmptyOut == out = <<>> => \A x : AnswerTo(x)
<1> SUFFICES ASSUME out = <<>> PROVE \A x : AnswerTo(x)
  OBVIOUS
<1>1. Len(<<>>) = 0
  OBVIOUS
<1>2. Len(out) = 0
  BY <1>1, Zenon
<1> QED
  BY <1>2 DEF AnswerTo

LEMMA WorkDone ==
  ASSUME NEW x \in {"AT", "CWMODE", "CWJAP", "CIPSTART"}, Online, Working(x),
         ~tcp, EspFinish, out \in Seq(Answers), tcp \in BOOLEAN
  PROVE  /\ Answered(x)' /\ UNCHANGED <<session, inbox>>
         /\ tcp' = (x = "CIPSTART")
<1>1. x \in Commands \cup {"send"}
  BY DEF Commands
<1>2. Reliable /\ job = x /\ mode = "cmd" /\ rem = 0 /\ line = Empty
      /\ AnswerTo(x)
  BY EmptyOut DEF Online, Working
<1>3. /\ job' = "none" /\ out' = out \o Ok(x)
      /\ UNCHANGED <<mode, line, rem, session, inbox>>
      /\ tcp' = (x = "CIPSTART")
  <2>1. CASE x = "CIPSTART"
    BY <1>2, <2>1, FinishIs
  <2>2. CASE x # "CIPSTART"
    <3>1. x \in {"AT", "CWMODE", "CWJAP"}
      BY <2>2
    <3>2. /\ job' = "none" /\ out' = out \o Ok(x)
          /\ UNCHANGED <<mode, line, rem, session, inbox, tcp>>
      BY <1>2, <3>1, FinishIs
    <3> QED
      BY <2>2, <3>2
  <2> QED
    BY <2>1, <2>2
<1>4. AnswerTo(x)'
  BY <1>1, <1>2, <1>3, AnswerOk
<1> QED
  BY <1>2, <1>3, <1>4 DEF Answered

LEMMA PromptDone ==
  ASSUME NEW x \in {"SENDC", "SENDP", "SENDD"}, Working(x), tcp, EspFinish,
         out \in Seq(Answers)
  PROVE  Prompted(x, Announced[x])' /\ UNCHANGED <<tcp, session, inbox>>
<1>1. x \in Commands \cup {"send"}
  BY DEF Commands
<1>2. job = x /\ AnswerTo(x)
  BY EmptyOut DEF Working
<1>3. /\ job' = "none" /\ out' = out \o Ok(x) /\ mode' = "data"
      /\ rem' = Announced[x] /\ line' = Empty
      /\ UNCHANGED <<tcp, session, inbox>>
  BY <1>2, FinishIs
<1>4. AnswerTo(x)'
  BY <1>1, <1>2, <1>3, AnswerOk
<1> QED
  BY <1>3, <1>4 DEF Prompted

LEMMA SendDone ==
  ASSUME NEW x, Sending(x), tcp, EspFinish, out \in Seq(Answers)
  PROVE  /\ Sent' /\ tcp' = tcp /\ BrokerTake(<<x, Size[x]>>)
<1>1. job = "send" /\ mode = "cmd" /\ rem = 0 /\ line = <<x, Size[x]>>
      /\ AnswerTo("send")
  BY DEF Sending
<1>2. /\ job' = "none" /\ line' = Empty /\ BrokerTake(line)
      /\ out' = out \o Ok("send") /\ UNCHANGED <<mode, rem, tcp>>
  BY <1>1, FinishIs
<1>3. AnswerTo("send")'
  BY <1>1, <1>2, AnswerOk
<1>4. BrokerTake(<<x, Size[x]>>)
  BY <1>1, <1>2, Zenon
<1> QED
  BY <1>1, <1>2, <1>3, <1>4 DEF Sent, Answered

LEMMA ConnectTaken ==
  ASSUME BrokerTake(<<"connect", Size["connect"]>>), session = "none"
  PROVE  session' = "open" /\ inbox' = inbox
<1>1. Whole(<<"connect", Size["connect"]>>, {"connect"})
  BY DEF Whole
<1> QED
  BY <1>1, TakeIs

LEMMA PublishTaken ==
  ASSUME NEW k \in Option, session = "open", inbox = <<>>,
         BrokerTake(<<Publish(k), Size[Publish(k)]>>)
  PROVE  session' = "open" /\ inbox' = <<k>>
<1> DEFINE p == <<Publish(k), Size[Publish(k)]>>
<1>1. p[1] = Publish(k) /\ p[2] = Size[Publish(k)]
  OBVIOUS
<1>2. p[1] \in Publishes
  BY <1>1, ArrayNames
<1>3. Whole(p, Publishes)
  BY <1>1, <1>2 DEF Whole
<1>4. OptionOf(p) = k
  BY <1>1, <1>2, PublishNames
<1>5. session' = session /\ inbox' = Append(inbox, OptionOf(p))
  BY <1>3, TakeIs
<1> QED
  BY <1>4, <1>5

LEMMA DisconnectTaken ==
  ASSUME BrokerTake(<<"disconnect", Size["disconnect"]>>)
  PROVE  session' = "closing" /\ inbox' = inbox
<1>1. /\ ~Whole(<<"disconnect", Size["disconnect"]>>, {"connect"})
      /\ ~Whole(<<"disconnect", Size["disconnect"]>>, Publishes)
  BY ArrayNames DEF Whole
<1> QED
  BY <1>1, TakeIs
-----------------------------------------------------------------------------
(* One step of a routine, while the program is online.                     *)

\* What the world outside the processor may do.
Outside ==
  /\ at' = at /\ UNCHANGED <<check, said>>
  /\ \/ /\ out # <<>> /\ out' = Tail(out) /\ rx' = Head(out) /\ ~ReadBusy
        /\ UNCHANGED <<mode, line, rem, job, tcp, session, inbox>>
     \/ EspFinish /\ rx' = rx
     \/ BrokerClose /\ rx' = rx
     \/ UNCHANGED <<espVars, rx>>

Kind ==
  \/ /\ AtOp("tx") /\ EspReceive(Arg) /\ at' = at + 1
     /\ UNCHANGED <<tcp, session, inbox, rx, check, said>>
  \/ /\ AtOp("sleep") /\ out = <<>> /\ Quiet /\ at' = at + 1
     /\ UNCHANGED <<espVars, rx, check, said>>
  \/ /\ AtOp("read") /\ (at' = at \/ at' = at + 1)
     /\ \/ check' = rx /\ rx' = Empty /\ at' = at
        \/ check' = Empty /\ rx' = rx
     /\ UNCHANGED <<espVars, said>>
  \/ /\ AtOp("put") \/ AtOp("show")
     /\ at' = at + 1 /\ UNCHANGED <<espVars, rx, check, said>>
  \/ AtOp("said") /\ at' = at + 1 /\ UNCHANGED <<espVars, rx, check>>
  \/ Outside

LEMMA KindIs ==
  ASSUME Online, TypeInv, Running, at <= Len(Script), [Next]_vars
  PROVE  Kind /\ pc' = pc /\ count' = count /\ Script' = Script
<1>1. pc \in {"boot", "select"} /\ pc # "sample"
  BY DEF Running
<1>2. ~Drop
  <2>1. drops \in 0..MaxDrops /\ MaxDrops = 0
    BY EspTypes DEF TypeInv, EspInv, Online
  <2> QED
    BY <2>1 DEF Drop
<1>3. Prompt /\ ~ResetAnywhere
  BY DEF Online
<1>4. at # Len(Script) + 1
  BY ScriptIs DEF TypeInv
<1>5. /\ ~Return /\ ~Sample /\ ~Up /\ ~Down /\ ~Select /\ ~Ignore
      /\ ~HoldSample /\ ~Light /\ ~Reset
  BY <1>1, <1>3, <1>4
     DEF Return, Sample, Up, Down, Move, Select, Ignore, HoldSample, Light,
         Reset
<1>6. CASE TxByte
  BY <1>6 DEF TxByte, Advance, menu, past, Kind, Script
<1>7. CASE SleepOver
  BY <1>3, <1>7 DEF SleepOver, Advance, menu, past, Kind, Script
<1>8. CASE ReadByte
  BY <1>8 DEF ReadByte, menu, run, past, Kind, Script
<1>9. CASE PrintByte
  <2>1. AtOp("read") /\ check' = Empty /\ rx' = rx
        /\ UNCHANGED <<espVars, said, count>> /\ (Advance \/ UNCHANGED run)
    BY <1>9 DEF PrintByte, menu, past
  <2> QED
    BY <2>1 DEF Advance, run, Kind, Script
<1>10. CASE PutChar
  <2>1. (AtOp("put") \/ AtOp("said")) /\ at' = at + 1 /\ pc' = pc
        /\ UNCHANGED <<espVars, rx, check, count>>
        /\ said' = (said \/ AtOp("said"))
    BY <1>10 DEF PutChar, Advance, menu
  <2>2. CASE AtOp("said")
    BY <2>1, <2>2 DEF Kind, Script
  <2>3. CASE AtOp("put")
    <3>1. ~AtOp("said") /\ said \in BOOLEAN
      BY <2>3 DEF AtOp, TypeInv, AppTypes
    <3> QED
      BY <2>1, <2>3, <3>1 DEF Kind, Script
  <2> QED
    BY <2>1, <2>2, <2>3
<1>11. CASE ShowText
  BY <1>11 DEF ShowText, Advance, past, Kind, Script
<1>12. CASE Arrive
  BY <1>3, <1>12 DEF Arrive, menu, run, past, Kind, Outside, Script
<1>13. CASE EspStep
  BY <1>2, <1>13 DEF EspStep, menu, run, past, Kind, Outside, Script
<1>14. CASE Fetch \/ (\E k \in KeyValues : Press(k)) \/ UNCHANGED vars
  BY <1>14 DEF Fetch, Press, vars, menu, run, past, Kind, Outside, Script
<1> QED
  BY <1>5, <1>6, <1>7, <1>8, <1>9, <1>10, <1>11, <1>12, <1>13, <1>14
     DEF Next, Cpu

\* The operation at hand decides which of these it is.
LEMMA KindTx ==
  ASSUME Kind, NEW b, Script[at] = Tx(b)
  PROVE  \/ /\ EspReceive(b) /\ at' = at + 1
            /\ UNCHANGED <<tcp, session, inbox, rx, check, said>>
         \/ Outside
BY Fields DEF Kind, AtOp, Arg

LEMMA KindSleep ==
  ASSUME Kind, Script[at] = Sleep
  PROVE  \/ /\ out = <<>> /\ job = "none" /\ session # "closing"
            /\ at' = at + 1 /\ UNCHANGED <<espVars, rx, check, said>>
         \/ Outside
BY Fields DEF Kind, AtOp, Quiet

LEMMA KindRead ==
  ASSUME Kind, NEW x, Script[at] = Read(x)
  PROVE  \/ (at' = at \/ at' = at + 1) /\ UNCHANGED <<espVars, said>>
         \/ Outside
BY Fields DEF Kind, AtOp

LEMMA KindPut ==
  ASSUME Kind, \/ Script[at] = Put \/ \E t : Script[at] = Show(t)
  PROVE  \/ at' = at + 1 /\ UNCHANGED <<espVars, rx, check, said>>
         \/ Outside
BY Fields DEF Kind, AtOp

LEMMA KindSaid ==
  ASSUME Kind, Script[at] = Said
  PROVE  \/ at' = at + 1 /\ UNCHANGED <<espVars, rx, check>>
         \/ Outside
BY Fields DEF Kind, AtOp

\* Behind the line nothing happens, or the ESP sends what is left of an answer.
LEMMA NothingOutside ==
  ASSUME Outside, out = <<>>, job = "none", session # "closing"
  PROVE  UNCHANGED <<espVars, at, said>>
BY FinishIs DEF Outside, BrokerClose

LEMMA AnswerOutside ==
  ASSUME Outside, job = "none", session # "closing", NEW x, AnswerTo(x),
         out \in Seq(Answers)
  PROVE  /\ AnswerTo(x)'
         /\ UNCHANGED <<mode, line, rem, job, tcp, session, inbox, at, said>>
<1>1. CASE out # <<>> /\ out' = Tail(out) /\ at' = at /\ UNCHANGED said
           /\ UNCHANGED <<mode, line, rem, job, tcp, session, inbox>>
  BY <1>1, AnswerGrows
<1>2. CASE at' = at /\ UNCHANGED said /\ UNCHANGED espVars
  BY <1>2, AnswerGrows DEF espVars
<1> QED
  BY <1>1, <1>2, FinishIs DEF Outside, BrokerClose

LEMMA WorkOutside ==
  ASSUME Outside, session # "closing", NEW x, Working(x)
  PROVE  \/ EspFinish /\ UNCHANGED <<at, said>>
         \/ UNCHANGED <<espVars, at, said>>
BY DEF Outside, BrokerClose, Working

LEMMA SendOutside ==
  ASSUME Outside, session # "closing", NEW x, Sending(x), out \in Seq(Answers)
  PROVE  \/ EspFinish /\ UNCHANGED <<at, said>>
         \/ Sending(x)' /\ UNCHANGED <<tcp, session, inbox, at, said>>
<1>1. CASE out # <<>> /\ out' = Tail(out) /\ at' = at /\ UNCHANGED said
           /\ UNCHANGED <<mode, line, rem, job, tcp, session, inbox>>
  BY <1>1, AnswerGrows DEF Sending
<1>2. CASE at' = at /\ UNCHANGED said /\ UNCHANGED espVars
  BY <1>2, AnswerGrows DEF espVars, Sending
<1>3. CASE EspFinish /\ at' = at /\ UNCHANGED said
  BY <1>3
<1> QED
  BY <1>1, <1>2, <1>3 DEF Outside, BrokerClose

LEMMA ReadyWrites ==
  ASSUME NEW x \in Commands, NEW t, NEW s, Ready(t, s)'
  PROVE  Writing(x, 1)'
<1>1. Size[x] \in Nat /\ Size[x] >= 1
  BY SizeIs DEF Arrays
<1>2. ~(1 \in 2..Size[x] + 1) /\ 1 # Size[x] + 2
  BY <1>1
<1> QED
  BY <1>2 DEF Ready, Writing

\* A command being written.
LEMMA WritingStep ==
  ASSUME Kind, NEW x \in Commands, NEW b \in Nat, NEW i \in 1..Size[x] + 2,
         LineOf(x, Script, b), at = b + i, Writing(x, i), session # "closing"
  PROVE  /\ UNCHANGED <<tcp, session, inbox, said>>
         /\ \/ \E j \in 1..Size[x] + 2 : at' = b + j /\ Writing(x, j)'
            \/ at' = b + Size[x] + 3 /\ Working(x)'
<1>1. Size[x] \in Nat /\ x \in Arrays
  BY SizeIs DEF Arrays
<1>2. CASE Outside
  <2>1. UNCHANGED <<espVars, at, said>>
    BY <1>2, NothingOutside DEF Writing
  <2>2. Writing(x, i)'
    BY <2>1 DEF Writing, espVars
  <2> QED
    BY <2>1, <2>2 DEF espVars
<1>3. CASE i \in 1..Size[x] /\ ~Outside
  <2>1. Script[at] = Tx(<<x, i>>)
    BY <1>3 DEF LineOf
  <2>2. /\ EspReceive(<<x, i>>) /\ at' = at + 1
        /\ UNCHANGED <<tcp, session, inbox, said>>
    BY <1>3, <2>1, KindTx
  <2>3. Writing(x, i + 1)'
    BY <1>3, <2>2, WriteByte
  <2>4. i + 1 \in 1..Size[x] + 2 /\ at' = b + (i + 1)
    BY <1>1, <1>3, <2>2
  <2> QED
    BY <2>2, <2>3, <2>4
<1>4. CASE i = Size[x] + 1 /\ ~Outside
  <2>1. Script[at] = Tx(CR)
    <3>1. b + Size[x] + 1 = at
      BY <1>1, <1>4
    <3> QED
      BY <3>1 DEF LineOf
  <2>2. /\ EspReceive(CR) /\ at' = at + 1
        /\ UNCHANGED <<tcp, session, inbox, said>>
    BY <1>4, <2>1, KindTx
  <2>3. Writing(x, Size[x] + 1)
    BY <1>4
  <2>4. Writing(x, Size[x] + 2)'
    BY <2>2, <2>3, WriteCR
  <2>5. Size[x] + 2 \in 1..Size[x] + 2 /\ at' = b + (Size[x] + 2)
    BY <1>1, <1>4, <2>2
  <2> QED
    BY <2>2, <2>4, <2>5
<1>5. CASE i = Size[x] + 2 /\ ~Outside
  <2>1. Script[at] = Tx(LF)
    <3>1. b + Size[x] + 2 = at
      BY <1>1, <1>5
    <3> QED
      BY <3>1 DEF LineOf
  <2>2. /\ EspReceive(LF) /\ at' = at + 1
        /\ UNCHANGED <<tcp, session, inbox, said>>
    BY <1>5, <2>1, KindTx
  <2>3. Writing(x, Size[x] + 2)
    BY <1>5
  <2>4. Working(x)'
    BY <2>2, <2>3, WriteLF
  <2>5. at' = b + Size[x] + 3
    BY <1>1, <1>5, <2>2
  <2> QED
    BY <2>2, <2>4, <2>5
<1>6. i \in 1..Size[x] \/ i = Size[x] + 1 \/ i = Size[x] + 2
  BY <1>1
<1> QED
  BY <1>2, <1>3, <1>4, <1>5, <1>6

LEMMA PlainStep ==
  ASSUME Online, TypeInv, Kind, NEW b \in Nat,
         NEW x \in {"AT", "CWMODE", "CWJAP", "CIPSTART"},
         NEW t, t = (x = "CIPSTART"), Plain(x, b, t), LineOf(x, Script, b),
         Script[b + Size[x] + 3] = Read(x), Script[b + Size[x] + 4] = Sleep
  PROVE  /\ UNCHANGED <<inbox, said>>
         /\ \/ Plain(x, b, t)'
            \/ at' = b + Size[x] + 5 /\ Ready(t, "none")'
<1>1. x \in Commands /\ Size[x] \in Nat /\ session = "none"
      /\ out \in Seq(Answers) /\ tcp \in BOOLEAN
  <2>1. x \in Commands
    BY DEF Commands
  <2> QED
    BY <2>1, SizeIs, EspTypes DEF Arrays, Plain, TypeInv, EspInv
<1>2. CASE ~tcp /\ \E i \in 1..Size[x] + 2 : at = b + i /\ Writing(x, i)
  <2>1. PICK i \in 1..Size[x] + 2 : at = b + i /\ Writing(x, i)
    BY <1>2
  <2>2. /\ UNCHANGED <<tcp, session, inbox, said>>
        /\ \/ \E j \in 1..Size[x] + 2 : at' = b + j /\ Writing(x, j)'
           \/ at' = b + Size[x] + 3 /\ Working(x)'
    BY <1>1, <2>1, WritingStep
  <2> QED
    BY <1>1, <1>2, <2>2 DEF Plain
<1>3. ASSUME at \in {b + Size[x] + 3, b + Size[x] + 4}, Outside,
             \/ Working(x) /\ ~tcp
             \/ Answered(x) /\ tcp = t
      PROVE  UNCHANGED <<inbox, said>> /\ Plain(x, b, t)'
  <2>1. CASE Working(x) /\ ~tcp
    <3>1. CASE EspFinish /\ UNCHANGED <<at, said>>
      <4>1. /\ Answered(x)' /\ UNCHANGED <<session, inbox>>
            /\ tcp' = (x = "CIPSTART")
        BY <1>1, <2>1, <3>1, WorkDone
      <4> QED
        BY <1>1, <1>3, <3>1, <4>1 DEF Plain
    <3>2. CASE UNCHANGED <<espVars, at, said>>
      <4>1. Working(x)' /\ tcp' = tcp /\ session' = session /\ inbox' = inbox
        BY <2>1, <3>2 DEF Working, espVars
      <4> QED
        BY <1>1, <1>3, <2>1, <3>2, <4>1 DEF Plain
    <3> QED
      BY <1>1, <1>3, <2>1, <3>1, <3>2, WorkOutside
  <2>2. CASE Answered(x) /\ tcp = t
    <3>1. /\ AnswerTo(x)'
          /\ UNCHANGED <<mode, line, rem, job, tcp, session, inbox, at, said>>
      BY <1>1, <1>3, <2>2, AnswerOutside DEF Answered
    <3>2. Answered(x)'
      BY <2>2, <3>1 DEF Answered
    <3> QED
      BY <1>1, <1>3, <2>2, <3>1, <3>2 DEF Plain
  <2> QED
    BY <1>3, <2>1, <2>2
<1>4. CASE /\ at = b + Size[x] + 3
           /\ \/ Working(x) /\ ~tcp
              \/ Answered(x) /\ tcp = t
  <2>1. CASE Outside
    BY <1>3, <1>4, <2>1
  <2>2. CASE (at' = at \/ at' = at + 1) /\ UNCHANGED <<espVars, said>>
    <3>1. at' \in {b + Size[x] + 3, b + Size[x] + 4}
      BY <1>1, <1>4, <2>2
    <3>2. /\ Working(x) => Working(x)'
          /\ Answered(x) => Answered(x)'
          /\ UNCHANGED <<tcp, session, inbox, said>>
      BY <2>2 DEF Working, Answered, AnswerTo, espVars
    <3> QED
      BY <1>1, <1>4, <3>1, <3>2 DEF Plain
  <2> QED
    BY <1>4, <2>1, <2>2, KindRead
<1>5. CASE /\ at = b + Size[x] + 4
           /\ \/ Working(x) /\ ~tcp
              \/ Answered(x) /\ tcp = t
  <2>1. CASE Outside
    BY <1>3, <1>5, <2>1
  <2>2. CASE /\ out = <<>> /\ job = "none" /\ at' = at + 1
             /\ UNCHANGED <<espVars, said>>
    <3>1. Answered(x) /\ tcp = t
      BY <1>1, <1>5, <2>2 DEF Working, Commands
    <3>2. at' = b + Size[x] + 5
      BY <1>1, <1>5, <2>2
    <3>3. Ready(t, "none")'
      BY <1>1, <2>2, <3>1 DEF Answered, Ready, Link, espVars
    <3>4. inbox' = inbox
      BY <2>2 DEF espVars
    <3> QED
      BY <2>2, <3>2, <3>3, <3>4
  <2> QED
    BY <1>5, <2>1, <2>2, KindSleep
<1> QED
  BY <1>2, <1>4, <1>5 DEF Plain

LEMMA AnnounceStep ==
  ASSUME TypeInv, Kind, NEW b \in Nat, NEW x \in {"SENDC", "SENDP", "SENDD"},
         NEW s, s # "closing", NEW n, n = Announced[x], Announcing(x, b, n, s),
         LineOf(x, Script, b), Script[b + Size[x] + 3] = Sleep
  PROVE  /\ UNCHANGED <<inbox, said>>
         /\ \/ Announcing(x, b, n, s)'
            \/ at' = b + Size[x] + 4 /\ Waiting(n, s)'
<1>1. x \in Commands /\ Size[x] \in Nat /\ tcp = TRUE /\ session = s
      /\ out \in Seq(Answers)
  <2>1. x \in Commands
    BY DEF Commands
  <2> QED
    BY <2>1, SizeIs, EspTypes DEF Arrays, Announcing, Link, TypeInv, EspInv
<1>2. CASE \E i \in 1..Size[x] + 2 : at = b + i /\ Writing(x, i)
  <2>1. PICK i \in 1..Size[x] + 2 : at = b + i /\ Writing(x, i)
    BY <1>2
  <2>2. /\ UNCHANGED <<tcp, session, inbox, said>>
        /\ \/ \E j \in 1..Size[x] + 2 : at' = b + j /\ Writing(x, j)'
           \/ at' = b + Size[x] + 3 /\ Working(x)'
    BY <1>1, <2>1, WritingStep
  <2> QED
    BY <1>1, <2>2 DEF Announcing, Link
<1>3. CASE at = b + Size[x] + 3 /\ Working(x)
  <2>1. CASE EspFinish /\ UNCHANGED <<at, said>>
    <3>1. Prompted(x, n)' /\ UNCHANGED <<tcp, session, inbox>>
      BY <1>1, <1>3, <2>1, PromptDone
    <3> QED
      BY <1>1, <1>3, <2>1, <3>1 DEF Announcing, Link
  <2>2. CASE UNCHANGED <<espVars, at, said>>
    <3>1. Working(x)' /\ tcp' = tcp /\ session' = session /\ inbox' = inbox
      BY <1>3, <2>2 DEF Working, espVars
    <3> QED
      BY <1>1, <1>3, <2>2, <3>1 DEF Announcing, Link
  <2>3. job # "none"
    BY <1>1, <1>3 DEF Working, Commands
  <2> QED
    BY <1>1, <1>3, <2>1, <2>2, <2>3, KindSleep, WorkOutside
<1>4. CASE at = b + Size[x] + 3 /\ Prompted(x, n)
  <2>1. CASE Outside
    <3>1. /\ AnswerTo(x)'
          /\ UNCHANGED <<mode, line, rem, job, tcp, session, inbox, at, said>>
      BY <1>1, <1>4, <2>1, AnswerOutside DEF Prompted
    <3>2. Prompted(x, n)'
      BY <1>4, <3>1 DEF Prompted
    <3> QED
      BY <1>1, <1>4, <3>1, <3>2 DEF Announcing, Link
  <2>2. CASE /\ out = <<>> /\ job = "none" /\ at' = at + 1
             /\ UNCHANGED <<espVars, said>>
    <3>1. at' = b + Size[x] + 4
      BY <1>1, <1>4, <2>2
    <3>2. Waiting(n, s)' /\ inbox' = inbox
      BY <1>1, <1>4, <2>2 DEF Prompted, Waiting, Link, espVars
    <3> QED
      BY <2>2, <3>1, <3>2
  <2> QED
    BY <1>4, <2>1, <2>2, KindSleep
<1> QED
  BY <1>2, <1>3, <1>4 DEF Announcing

\* A packet with its echo.
LEMMA EchoStep ==
  ASSUME Kind, NEW x \in Packets, NEW b \in Nat, NEW i \in Nat,
         Echoing(x, b, i), EchoOf(x, Script, b), session # "closing"
  PROVE  /\ UNCHANGED <<tcp, session, inbox, said>>
         /\ \/ \E j \in Nat : Echoing(x, b, j)'
            \/ at' = b + 2 * Size[x] + 1 /\ Sending(x)'
<1>1. PICK n \in Nat : n = Size[x]
  BY SizeIs DEF Arrays
<1>2. /\ at = b + 2 * i + 1 \/ at = b + 2 * i + 2
      /\ InPacket(x, i) /\ i < n /\ out = <<>> /\ job = "none"
  BY <1>1 DEF Echoing, InPacket
<1>3. i + 1 \in 1..Size[x]
  BY <1>1, <1>2
<1>4. /\ b + 2 * (i + 1) - 1 = b + 2 * i + 1
      /\ b + 2 * (i + 1) = b + 2 * i + 2
  OBVIOUS
<1>5. /\ Script[b + 2 * i + 1] = Put
      /\ Script[b + 2 * i + 2] = Tx(<<x, i + 1>>)
  BY <1>3, <1>4 DEF EchoOf
<1>6. ASSUME UNCHANGED espVars, at' \in {b + 2 * i + 1, b + 2 * i + 2}
      PROVE  Echoing(x, b, i)'
  BY <1>2, <1>6 DEF espVars, InPacket, Echoing
<1>7. CASE Outside
  <2>1. UNCHANGED <<espVars, at, said>>
    BY <1>2, <1>7, NothingOutside
  <2> QED
    BY <1>2, <1>6, <2>1 DEF espVars
<1>8. CASE at = b + 2 * i + 1 /\ ~Outside
  <2>1. at' = at + 1 /\ UNCHANGED <<espVars, said>>
    BY <1>5, <1>8, KindPut
  <2>2. at' = b + 2 * i + 2
    BY <1>8, <2>1
  <2> QED
    BY <1>6, <2>1, <2>2 DEF espVars
<1>9. CASE at = b + 2 * i + 2 /\ ~Outside
  <2>1. /\ EspReceive(<<x, i + 1>>) /\ at' = at + 1
        /\ UNCHANGED <<tcp, session, inbox, said>>
    BY <1>5, <1>9, KindTx
  <2>2. CASE i + 1 < Size[x]
    <3>1. InPacket(x, i + 1)'
      BY <1>2, <2>1, <2>2, PacketByte
    <3>2. at' = b + 2 * (i + 1) + 1 /\ i + 1 \in Nat
      BY <1>9, <2>1
    <3>3. Echoing(x, b, i + 1)'
      BY <3>1, <3>2 DEF Echoing
    <3> QED
      BY <2>1, <3>2, <3>3
  <2>3. CASE ~(i + 1 < Size[x])
    <3>1. Sending(x)' /\ i + 1 = Size[x]
      BY <1>2, <2>1, <2>3, PacketByte
    <3>2. at' = b + 2 * n + 1
      BY <1>1, <1>9, <2>1, <3>1
    <3> QED
      BY <1>1, <2>1, <3>1, <3>2
  <2> QED
    BY <2>2, <2>3
<1> QED
  BY <1>2, <1>7, <1>8, <1>9

\* What is done between a packet and the next command.
AfterOp(o) == o \in {Tx(CR), Tx(LF), Sleep} \/ \E t : o = Show(t)

LEMMA SendingStep ==
  ASSUME TypeInv, Kind, NEW x, Sending(x), tcp, session # "closing",
         AfterOp(Script[at])
  PROVE  /\ said' = said
         /\ \/ /\ Sending(x)' /\ UNCHANGED <<tcp, session, inbox>>
               /\ at' = at \/ (at' = at + 1 /\ Script[at] # Sleep)
            \/ at' = at /\ Sent' /\ tcp' = tcp /\ BrokerTake(<<x, Size[x]>>)
<1>1. out \in Seq(Answers) /\ job = "send"
  BY EspTypes DEF TypeInv, EspInv, Sending
<1>2. CASE Outside
  <2>1. CASE EspFinish /\ UNCHANGED <<at, said>>
    BY <1>1, <2>1, SendDone
  <2>2. CASE Sending(x)' /\ UNCHANGED <<tcp, session, inbox, at, said>>
    BY <2>2
  <2> QED
    BY <1>1, <1>2, <2>1, <2>2, SendOutside
<1>3. ASSUME NEW b \in {CR, LF}, Script[at] = Tx(b), ~Outside
      PROVE  /\ Sending(x)' /\ at' = at + 1 /\ Script[at] # Sleep
             /\ UNCHANGED <<tcp, session, inbox, said>>
  <2>1. /\ EspReceive(b) /\ at' = at + 1
        /\ UNCHANGED <<tcp, session, inbox, said>>
    BY <1>3, KindTx
  <2>2. Sending(x)'
    BY <1>1, <2>1, SendingLine
  <2>3. Script[at] # Sleep
    BY <1>3, Fields
  <2> QED
    BY <2>1, <2>2, <2>3
<1>4. ASSUME NEW t, Script[at] = Show(t), ~Outside
      PROVE  /\ Sending(x)' /\ at' = at + 1 /\ Script[at] # Sleep
             /\ UNCHANGED <<tcp, session, inbox, said>>
  <2>1. at' = at + 1 /\ UNCHANGED <<espVars, said>>
    BY <1>4, KindPut
  <2>2. Script[at] # Sleep
    BY <1>4, Fields
  <2> QED
    BY <2>1, <2>2 DEF espVars, Sending, AnswerTo
<1>5. CASE Script[at] = Sleep /\ ~Outside
  BY <1>1, <1>5, KindSleep
<1> QED
  BY <1>2, <1>3, <1>4, <1>5 DEF AfterOp

LEMMA SentStep ==
  ASSUME TypeInv, Kind, Sent, AfterOp(Script[at])
  PROVE  /\ said' = said /\ inbox' = inbox /\ Sent'
         /\ at' \in {at, at + 1}
         /\ \/ UNCHANGED <<tcp, session>>
            \/ session = "closing" /\ Link(FALSE, "none")'
         /\ at' # at /\ Script[at] = Sleep =>
              out' = <<>> /\ session # "closing" /\ UNCHANGED <<tcp, session>>
<1>1. /\ out \in Seq(Answers) /\ job = "none" /\ AnswerTo("send")
      /\ at \in Nat
  BY EspTypes, ScriptIs DEF TypeInv, EspInv, Sent, Answered
<1>2. CASE Outside /\ session # "closing"
  <2>1. /\ AnswerTo("send")'
        /\ UNCHANGED <<mode, line, rem, job, tcp, session, inbox, at, said>>
    BY <1>1, <1>2, AnswerOutside
  <2> QED
    BY <2>1 DEF Sent, Answered
<1>3. CASE Outside /\ session = "closing"
  <2>1. at' = at /\ said' = said
    BY <1>3 DEF Outside
  <2>2. CASE BrokerClose
    <3>1. /\ tcp' = FALSE /\ session' = "none" /\ out' = Append(out, Other)
          /\ UNCHANGED <<mode, line, rem, job, inbox>>
      BY <2>2 DEF BrokerClose, Closed
    <3>2. AnswerTo("send")'
      BY <1>1, <3>1, AnswerGrows
    <3> QED
      BY <1>3, <2>1, <3>1, <3>2 DEF Sent, Answered, Link
  <2>3. CASE UNCHANGED espVars
    BY <2>1, <2>3 DEF Sent, Answered, AnswerTo, espVars
  <2>4. CASE /\ out # <<>> /\ out' = Tail(out)
             /\ UNCHANGED <<mode, line, rem, job, tcp, session, inbox>>
    <3>1. AnswerTo("send")'
      BY <1>1, <2>4, AnswerGrows
    <3> QED
      BY <2>1, <2>4, <3>1 DEF Sent, Answered
  <2>5. ~EspFinish
    BY <1>1, FinishIs
  <2> QED
    BY <1>3, <2>2, <2>3, <2>4, <2>5 DEF Outside
<1>4. ASSUME NEW b \in {CR, LF}, Script[at] = Tx(b), ~Outside
      PROVE  /\ Sent' /\ at' = at + 1 /\ Script[at] # Sleep
             /\ UNCHANGED <<tcp, session, inbox, said>>
  <2>1. /\ EspReceive(b) /\ at' = at + 1
        /\ UNCHANGED <<tcp, session, inbox, said>>
    BY <1>4, KindTx
  <2>2. Sent'
    BY <1>1, <2>1, SentLine
  <2>3. Script[at] # Sleep
    BY <1>4, Fields
  <2> QED
    BY <2>1, <2>2, <2>3
<1>5. ASSUME NEW t, Script[at] = Show(t), ~Outside
      PROVE  /\ Sent' /\ at' = at + 1 /\ Script[at] # Sleep
             /\ UNCHANGED <<tcp, session, inbox, said>>
  <2>1. at' = at + 1 /\ UNCHANGED <<espVars, said>>
    BY <1>5, KindPut
  <2>2. Script[at] # Sleep
    BY <1>5, Fields
  <2> QED
    BY <2>1, <2>2 DEF espVars, Sent, Answered, AnswerTo
<1>6. CASE Script[at] = Sleep /\ ~Outside
  <2>1. /\ out = <<>> /\ session # "closing"
        /\ at' = at + 1 /\ UNCHANGED <<espVars, said>>
    BY <1>6, KindSleep
  <2> QED
    BY <2>1 DEF espVars, Sent, Answered, AnswerTo
<1> QED
  BY <1>1, <1>2, <1>3, <1>4, <1>5, <1>6 DEF AfterOp

LEMMA MorePlaces ==
  /\ SendcAt \in Nat /\ ConnectAt \in Nat /\ SendpAt \in Nat
  /\ DisconnectAt \in Nat
  /\ SendcAt = SelectRead + 1 /\ ConnectAt >= SendcAt + 4
  /\ AnswerAt = ConnectAt + Size["connect"] + 2 /\ SendpAt = AnswerAt + 2
  /\ PublishAt >= SendpAt + 4 /\ DisconnectAt >= SenddAt + 4
  /\ SaidAt = DisconnectAt + 2 * Size["disconnect"] + 4
<1>1. PICK n, m, l, r : /\ n = Size["SENDP"] /\ m = Size["publish1"]
                        /\ l = Size["SENDD"] /\ r = Size["disconnect"]
  OBVIOUS
<1>2. PICK c, d, e : /\ c = Size["CIPSTART"] /\ d = Size["SENDC"]
                     /\ e = Size["connect"]
  OBVIOUS
<1>3. /\ n \in Nat /\ m \in Nat /\ l \in Nat /\ r \in Nat
      /\ n >= 1 /\ m >= 1 /\ l >= 1 /\ r >= 1
      /\ c \in Nat /\ d \in Nat /\ e \in Nat /\ c >= 1 /\ d >= 1 /\ e >= 1
  BY <1>1, <1>2, SizesNamed
<1>4. /\ SendcAt = c + 4 /\ SelectRead = c + 3
      /\ ConnectAt = SendcAt + d + 3 /\ AnswerAt = ConnectAt + e + 2
      /\ SendpAt = AnswerAt + 2 /\ PublishAt = SendpAt + n + 3
      /\ DisconnectAt = SenddAt + l + 3 /\ SaidAt = DisconnectAt + 2 * r + 4
  BY <1>1, <1>2, Zenon
     DEF SendcAt, SelectRead, ConnectAt, AnswerAt, SendpAt, PublishAt,
         DisconnectAt, SaidAt
<1>5. SendcAt \in Nat /\ SendcAt = SelectRead + 1
  BY <1>3, <1>4
<1>6. ConnectAt \in Nat /\ ConnectAt >= SendcAt + 4
  BY <1>3, <1>4, <1>5
<1>7. AnswerAt \in Nat /\ SendpAt \in Nat /\ PublishAt >= SendpAt + 4
  BY <1>3, <1>4, <1>6
<1>8. SenddAt \in Nat
  BY SelectPlaces
<1>9. DisconnectAt \in Nat /\ DisconnectAt >= SenddAt + 4
  BY <1>3, <1>4, <1>8
<1> QED
  BY <1>1, <1>2, <1>4, <1>5, <1>6, <1>7, <1>9

LEMMA ConnectStep ==
  ASSUME TypeInv, Kind, Connect, NEW k, SelectionIs(Script, k)
  PROVE  /\ UNCHANGED <<inbox, said>>
         /\ Connect' \/ (at' = SendpAt + 1 /\ Ready(TRUE, "open")')
<1>1. PICK n \in Nat : n = Size["connect"]
  BY SizesNamed
<1>2. /\ ConnectAt \in Nat /\ AnswerAt = ConnectAt + n + 2
      /\ SendpAt = AnswerAt + 2 /\ AnswerAt \in Nat /\ SendpAt \in Nat
  BY <1>1, MorePlaces, SelectPlaces
<1>3. tcp = TRUE
  BY DEF Connect, Link
<1>4. LineOf("connect", Script, ConnectAt)
  BY DEF SelectionIs
<1>5. "connect" \in Packets
  BY DEF Packets
<1>6. CASE /\ Link(TRUE, "none")
           /\ \E i \in Nat : at = ConnectAt + i + 1 /\ InPacket("connect", i)
  <2>1. PICK i \in Nat : at = ConnectAt + i + 1 /\ InPacket("connect", i)
    BY <1>6
  <2>2. i < n /\ out = <<>> /\ job = "none" /\ i + 1 \in 1..Size["connect"]
    BY <1>1, <2>1 DEF InPacket
  <2>3. Script[at] = Tx(<<"connect", i + 1>>)
    <3>1. at = ConnectAt + (i + 1)
      BY <1>2, <2>1
    <3> QED
      BY <1>4, <2>2, <3>1 DEF LineOf
  <2>4. CASE Outside
    <3>1. UNCHANGED <<espVars, at, said>>
      BY <1>6, <2>2, <2>4, NothingOutside DEF Link
    <3>2. InPacket("connect", i)'
      BY <2>1, <3>1 DEF InPacket, espVars
    <3>3. UNCHANGED <<tcp, session, inbox, at, said>>
      BY <3>1 DEF espVars
    <3> QED
      BY <1>3, <1>6, <2>1, <3>2, <3>3 DEF Connect, Link
  <2>5. CASE ~Outside
    <3>1. /\ EspReceive(<<"connect", i + 1>>) /\ at' = at + 1
          /\ UNCHANGED <<tcp, session, inbox, said>>
      BY <2>3, <2>5, KindTx
    <3>2. CASE i + 1 < Size["connect"]
      <4>1. InPacket("connect", i + 1)'
        BY <1>5, <2>1, <3>1, <3>2, PacketByte
      <4>2. at' = ConnectAt + (i + 1) + 1 /\ i + 1 \in Nat
        BY <1>2, <2>1, <3>1
      <4> QED
        BY <1>3, <1>6, <3>1, <4>1, <4>2 DEF Connect, Link
    <3>3. CASE ~(i + 1 < Size["connect"])
      <4>1. Sending("connect")' /\ i + 1 = Size["connect"]
        BY <1>5, <2>1, <3>1, <3>3, PacketByte
      <4>2. at' \in AnswerAt - 1..AnswerAt + 2
        BY <1>1, <1>2, <2>1, <3>1, <4>1
      <4> QED
        BY <1>3, <1>6, <3>1, <4>1, <4>2 DEF Connect, Link
    <3> QED
      BY <3>2, <3>3
  <2> QED
    BY <2>4, <2>5
<1>7. CASE /\ at \in AnswerAt - 1..AnswerAt + 2
           /\ \/ Sending("connect") /\ Link(TRUE, "none")
              \/ Sent /\ Link(TRUE, "open")
  <2>1. AfterOp(Script[at]) /\ (at = AnswerAt + 2 => Script[at] = Sleep)
    <3>1. /\ Script[ConnectAt + Size["connect"] + 1] = Tx(CR)
          /\ Script[ConnectAt + Size["connect"] + 2] = Tx(LF)
      BY <1>4 DEF LineOf
    <3>2. Script[AnswerAt + 1] = Show(Answer[k]) /\ Script[AnswerAt + 2] = Sleep
      BY <1>2 DEF SelectionIs
    <3>3. /\ ConnectAt + Size["connect"] + 1 = AnswerAt - 1
          /\ ConnectAt + Size["connect"] + 2 = AnswerAt
      BY <1>1, <1>2
    <3>4. at \in {AnswerAt - 1, AnswerAt, AnswerAt + 1, AnswerAt + 2}
      BY <1>2, <1>7
    <3> QED
      BY <3>1, <3>2, <3>3, <3>4 DEF AfterOp
  <2>2. ASSUME at' \in {at, at + 1}, at' # at => at # AnswerAt + 2
        PROVE  at' \in AnswerAt - 1..AnswerAt + 2
    BY <1>2, <1>7, <2>2
  <2>3. CASE Sending("connect") /\ Link(TRUE, "none")
    <3>1. /\ said' = said
          /\ \/ /\ Sending("connect")' /\ UNCHANGED <<tcp, session, inbox>>
                /\ at' = at \/ (at' = at + 1 /\ Script[at] # Sleep)
             \/ /\ at' = at /\ Sent' /\ tcp' = tcp
                /\ BrokerTake(<<"connect", Size["connect"]>>)
      BY <1>3, <2>1, <2>3, SendingStep DEF Link
    <3>2. CASE /\ Sending("connect")' /\ UNCHANGED <<tcp, session, inbox>>
               /\ at' = at \/ (at' = at + 1 /\ Script[at] # Sleep)
      <4>1. at' \in AnswerAt - 1..AnswerAt + 2
        BY <2>1, <2>2, <3>2
      <4> QED
        BY <1>3, <2>3, <3>1, <3>2, <4>1 DEF Connect, Link
    <3>3. CASE /\ at' = at /\ Sent' /\ tcp' = tcp
               /\ BrokerTake(<<"connect", Size["connect"]>>)
      <4>1. session' = "open" /\ inbox' = inbox
        BY <2>3, <3>3, ConnectTaken DEF Link
      <4> QED
        BY <1>3, <1>7, <3>1, <3>3, <4>1 DEF Connect, Link
    <3> QED
      BY <3>1, <3>2, <3>3
  <2>4. CASE Sent /\ Link(TRUE, "open")
    <3>1. /\ said' = said /\ inbox' = inbox /\ Sent'
          /\ at' \in {at, at + 1} /\ UNCHANGED <<tcp, session>>
          /\ at' # at /\ Script[at] = Sleep => out' = <<>>
      BY <2>1, <2>4, SentStep DEF Link
    <3>2. CASE at' # at => at # AnswerAt + 2
      <4>1. at' \in AnswerAt - 1..AnswerAt + 2
        BY <2>2, <3>1, <3>2
      <4> QED
        BY <1>3, <2>4, <3>1, <4>1 DEF Connect, Link
    <3>3. CASE at' # at /\ at = AnswerAt + 2
      <4>1. out' = <<>> /\ at' = SendpAt + 1
        BY <1>2, <2>1, <3>1, <3>3
      <4>2. Ready(TRUE, "open")'
        BY <1>3, <2>4, <3>1, <4>1 DEF Sent, Answered, Ready, Link
      <4> QED
        BY <3>1, <4>1, <4>2
    <3> QED
      BY <3>2, <3>3
  <2> QED
    BY <1>7, <2>3, <2>4
<1> QED
  BY <1>6, <1>7 DEF Connect, Link

LEMMA PublishStep ==
  ASSUME TypeInv, Kind, count' = count, PublishIt, SelectionIs(Script, count)
  PROVE  /\ said' = said
         /\ \/ PublishIt'
            \/ /\ at' = SenddAt + 1 /\ inbox' = <<count>>
               /\ Ready(TRUE, "open")'
<1>1. /\ AfterPublish \in Nat /\ PublishAt \in Nat /\ SenddAt = AfterPublish + 3
      /\ AfterPublish = PublishAt + 2 * Size["publish1"]
      /\ count \in Option /\ Publish(count) \in Packets
      /\ Size[Publish(count)] = Size["publish1"] /\ Size["publish1"] \in Nat
  BY SelectPlaces, SizesNamed, ArrayNames DEF TypeInv, Placed, Packets
<1>2. tcp = TRUE /\ session = "open"
  BY DEF PublishIt, Link
<1>3. CASE inbox = <<>> /\ \E i \in Nat : Echoing(Publish(count), PublishAt, i)
  <2>1. PICK i \in Nat : Echoing(Publish(count), PublishAt, i)
    BY <1>3
  <2>2. EchoOf(Publish(count), Script, PublishAt)
    BY DEF SelectionIs
  <2>3. /\ UNCHANGED <<tcp, session, inbox, said>>
        /\ \/ \E j \in Nat : Echoing(Publish(count), PublishAt, j)'
           \/ /\ at' = PublishAt + 2 * Size[Publish(count)] + 1
              /\ Sending(Publish(count))'
    BY <1>1, <1>2, <2>1, <2>2, EchoStep
  <2>4. CASE \E j \in Nat : Echoing(Publish(count), PublishAt, j)'
    BY <1>2, <1>3, <2>3, <2>4 DEF PublishIt, Link
  <2>5. CASE /\ at' = PublishAt + 2 * Size[Publish(count)] + 1
             /\ Sending(Publish(count))'
    <3>1. at' = AfterPublish + 1
      BY <1>1, <2>5
    <3>2. at' \in AfterPublish + 1..AfterPublish + 3
      BY <1>1, <3>1
    <3> QED
      BY <1>2, <1>3, <2>3, <2>5, <3>2 DEF PublishIt, Link
  <2> QED
    BY <2>3, <2>4, <2>5
<1>4. CASE /\ at \in AfterPublish + 1..AfterPublish + 3
           /\ \/ Sending(Publish(count)) /\ inbox = <<>>
              \/ Sent /\ inbox = <<count>>
  <2>1. AfterOp(Script[at]) /\ (at = AfterPublish + 3 => Script[at] = Sleep)
    <3>1. /\ Script[AfterPublish + 1] = Tx(CR)
          /\ Script[AfterPublish + 2] = Tx(LF)
          /\ Script[AfterPublish + 3] = Sleep
      BY <1>1 DEF SelectionIs
    <3>2. at \in {AfterPublish + 1, AfterPublish + 2, AfterPublish + 3}
      BY <1>1, <1>4
    <3> QED
      BY <3>1, <3>2 DEF AfterOp
  <2>2. ASSUME at' \in {at, at + 1}, at' # at => at # AfterPublish + 3
        PROVE  at' \in AfterPublish + 1..AfterPublish + 3
    BY <1>1, <1>4, <2>2
  <2>3. CASE Sending(Publish(count)) /\ inbox = <<>>
    <3>1. /\ said' = said
          /\ \/ /\ Sending(Publish(count))'
                /\ UNCHANGED <<tcp, session, inbox>>
                /\ at' = at \/ (at' = at + 1 /\ Script[at] # Sleep)
             \/ /\ at' = at /\ Sent' /\ tcp' = tcp
                /\ BrokerTake(<<Publish(count), Size[Publish(count)]>>)
      BY <1>2, <2>1, <2>3, SendingStep
    <3>2. CASE /\ Sending(Publish(count))' /\ UNCHANGED <<tcp, session, inbox>>
               /\ at' = at \/ (at' = at + 1 /\ Script[at] # Sleep)
      <4>1. at' \in AfterPublish + 1..AfterPublish + 3
        BY <2>1, <2>2, <3>2
      <4> QED
        BY <1>2, <2>3, <3>1, <3>2, <4>1 DEF PublishIt, Link
    <3>3. CASE /\ at' = at /\ Sent' /\ tcp' = tcp
               /\ BrokerTake(<<Publish(count), Size[Publish(count)]>>)
      <4>1. session' = "open" /\ inbox' = <<count>>
        BY <1>1, <1>2, <2>3, <3>3, PublishTaken
      <4> QED
        BY <1>2, <1>4, <3>1, <3>3, <4>1 DEF PublishIt, Link
    <3> QED
      BY <3>1, <3>2, <3>3
  <2>4. CASE Sent /\ inbox = <<count>>
    <3>1. /\ said' = said /\ inbox' = inbox /\ Sent'
          /\ at' \in {at, at + 1} /\ UNCHANGED <<tcp, session>>
          /\ at' # at /\ Script[at] = Sleep => out' = <<>>
      BY <1>2, <2>1, <2>4, SentStep
    <3>2. CASE at' # at => at # AfterPublish + 3
      <4>1. at' \in AfterPublish + 1..AfterPublish + 3
        BY <2>2, <3>1, <3>2
      <4> QED
        BY <1>2, <2>4, <3>1, <4>1 DEF PublishIt, Link
    <3>3. CASE at' # at /\ at = AfterPublish + 3
      <4>1. out' = <<>> /\ at' = SenddAt + 1
        BY <1>1, <2>1, <3>1, <3>3
      <4>2. Ready(TRUE, "open")'
        BY <1>2, <3>1, <4>1 DEF Sent, Answered, Ready, Link
      <4> QED
        BY <2>4, <3>1, <4>1, <4>2
    <3> QED
      BY <3>2, <3>3
  <2> QED
    BY <1>4, <2>3, <2>4
<1> QED
  BY <1>3, <1>4 DEF PublishIt

LEMMA DisconnectStep ==
  ASSUME TypeInv, Kind, Disconnect, NEW k, SelectionIs(Script, k)
  PROVE  /\ UNCHANGED <<inbox, said>>
         /\ Disconnect' \/ (at' = SaidAt /\ Resting')
<1>1. /\ DisconnectAt \in Nat /\ SaidAt \in Nat /\ Size["disconnect"] \in Nat
      /\ SaidAt = DisconnectAt + 2 * Size["disconnect"] + 4
      /\ "disconnect" \in Packets
  BY MorePlaces, SelectPlaces, SizesNamed DEF Packets
<1>2. CASE /\ Link(TRUE, "open")
           /\ \E i \in Nat : Echoing("disconnect", DisconnectAt, i)
  <2>1. PICK i \in Nat : Echoing("disconnect", DisconnectAt, i)
    BY <1>2
  <2>2. EchoOf("disconnect", Script, DisconnectAt)
    BY DEF SelectionIs
  <2>3. /\ UNCHANGED <<tcp, session, inbox, said>>
        /\ \/ \E j \in Nat : Echoing("disconnect", DisconnectAt, j)'
           \/ /\ at' = DisconnectAt + 2 * Size["disconnect"] + 1
              /\ Sending("disconnect")'
    BY <1>1, <1>2, <2>1, <2>2, EchoStep DEF Link
  <2>4. CASE \E j \in Nat : Echoing("disconnect", DisconnectAt, j)'
    BY <1>2, <2>3, <2>4 DEF Disconnect, Link
  <2>5. CASE /\ at' = DisconnectAt + 2 * Size["disconnect"] + 1
             /\ Sending("disconnect")'
    <3>1. at' \in SaidAt - 3..SaidAt - 1
      <4>1. PICK r \in Nat : r = Size["disconnect"]
        BY <1>1
      <4> QED
        BY <1>1, <2>5, <4>1
    <3> QED
      BY <1>2, <2>3, <2>5, <3>1 DEF Disconnect, Link
  <2> QED
    BY <2>3, <2>4, <2>5
<1>3. CASE /\ at \in SaidAt - 3..SaidAt - 1
           /\ \/ Sending("disconnect") /\ Link(TRUE, "open")
              \/ Sent /\ (Link(TRUE, "closing") \/ Link(FALSE, "none"))
  <2>1. AfterOp(Script[at]) /\ (at = SaidAt - 1 => Script[at] = Sleep)
    <3>1. /\ Script[SaidAt - 3] = Tx(CR) /\ Script[SaidAt - 2] = Tx(LF)
          /\ Script[SaidAt - 1] = Sleep
      BY DEF SelectionIs
    <3>2. at \in {SaidAt - 3, SaidAt - 2, SaidAt - 1}
      <4>1. PICK q \in Nat : q = SaidAt
        BY <1>1
      <4>2. at \in q - 3..q - 1
        BY <1>3, <4>1
      <4>3. at = q - 3 \/ at = q - 2 \/ at = q - 1
        BY <4>2
      <4> QED
        BY <4>1, <4>3
    <3> QED
      BY <3>1, <3>2 DEF AfterOp
  <2>2. ASSUME at' \in {at, at + 1}, at' # at => at # SaidAt - 1
        PROVE  at' \in SaidAt - 3..SaidAt - 1
    BY <1>1, <1>3, <2>2
  <2>3. CASE Sending("disconnect") /\ Link(TRUE, "open")
    <3>1. /\ said' = said
          /\ \/ /\ Sending("disconnect")' /\ UNCHANGED <<tcp, session, inbox>>
                /\ at' = at \/ (at' = at + 1 /\ Script[at] # Sleep)
             \/ /\ at' = at /\ Sent' /\ tcp' = tcp
                /\ BrokerTake(<<"disconnect", Size["disconnect"]>>)
      BY <2>1, <2>3, SendingStep DEF Link
    <3>2. CASE /\ Sending("disconnect")' /\ UNCHANGED <<tcp, session, inbox>>
               /\ at' = at \/ (at' = at + 1 /\ Script[at] # Sleep)
      <4>1. at' \in SaidAt - 3..SaidAt - 1
        BY <2>1, <2>2, <3>2
      <4> QED
        BY <2>3, <3>1, <3>2, <4>1 DEF Disconnect, Link
    <3>3. CASE /\ at' = at /\ Sent' /\ tcp' = tcp
               /\ BrokerTake(<<"disconnect", Size["disconnect"]>>)
      <4>1. session' = "closing" /\ inbox' = inbox
        BY <3>3, DisconnectTaken
      <4> QED
        BY <1>3, <2>3, <3>1, <3>3, <4>1 DEF Disconnect, Link
    <3> QED
      BY <3>1, <3>2, <3>3
  <2>4. CASE Sent /\ (Link(TRUE, "closing") \/ Link(FALSE, "none"))
    <3>1. /\ said' = said /\ inbox' = inbox /\ Sent' /\ at' \in {at, at + 1}
          /\ \/ UNCHANGED <<tcp, session>>
             \/ session = "closing" /\ Link(FALSE, "none")'
          /\ at' # at /\ Script[at] = Sleep =>
               out' = <<>> /\ session # "closing" /\ UNCHANGED <<tcp, session>>
      BY <2>1, <2>4, SentStep
    <3>2. CASE at' # at => at # SaidAt - 1
      <4>1. at' \in SaidAt - 3..SaidAt - 1
        BY <2>2, <3>1, <3>2
      <4>2. Link(TRUE, "closing")' \/ Link(FALSE, "none")'
        BY <2>4, <3>1 DEF Link
      <4> QED
        BY <3>1, <4>1, <4>2 DEF Disconnect
    <3>3. CASE at' # at /\ at = SaidAt - 1
      <4>1. /\ out' = <<>> /\ session # "closing"
            /\ UNCHANGED <<tcp, session>> /\ at' = SaidAt
        BY <1>1, <2>1, <3>1, <3>3
      <4>2. Resting'
        BY <2>4, <3>1, <4>1 DEF Sent, Answered, Resting, Ready, Link
      <4> QED
        BY <3>1, <4>1, <4>2
    <3> QED
      BY <3>2, <3>3
  <2> QED
    BY <1>3, <2>3, <2>4
<1> QED
  BY <1>2, <1>3 DEF Disconnect

\* Where each part of the dialogue is.
LEMMA PlainIs ==
  ASSUME NEW x \in Commands, NEW b \in Nat, NEW t, Plain(x, b, t)
  PROVE  /\ at \in b + 1..b + Size[x] + 4
         /\ at <= b + Size[x] + 2 => out = <<>>
         /\ at = b + Size[x] + 3 => AnswerTo(x)
<1>1. PICK n \in Nat : n = Size[x]
  BY SizeIs DEF Arrays
<1>2. CASE \E i \in 1..n + 2 : at = b + i /\ Writing(x, i)
  <2>1. PICK i \in 1..n + 2 : at = b + i /\ Writing(x, i)
    BY <1>2
  <2>2. at \in b + 1..b + n + 4 /\ at # b + n + 3
    BY <2>1
  <2> QED
    BY <1>1, <2>1, <2>2 DEF Writing
<1>3. CASE /\ at \in {b + n + 3, b + n + 4}
           /\ Working(x) \/ Answered(x)
  <2>1. at \in b + 1..b + n + 4 /\ ~(at <= b + n + 2)
    BY <1>3
  <2>2. AnswerTo(x)
    BY <1>3, EmptyOut DEF Working, Answered
  <2> QED
    BY <1>1, <2>1, <2>2
<1> QED
  BY <1>1, <1>2, <1>3 DEF Plain

LEMMA AnnouncingIs ==
  ASSUME NEW x \in Commands, NEW b \in Nat, NEW n, NEW s, Announcing(x, b, n, s)
  PROVE  at \in b + 1..b + Size[x] + 3
<1>1. PICK m \in Nat : m = Size[x]
  BY SizeIs DEF Arrays
<1>2. at = b + m + 3 \/ \E i \in 1..m + 2 : at = b + i
  BY <1>1 DEF Announcing
<1>3. at \in b + 1..b + m + 3
  BY <1>2
<1> QED
  BY <1>1, <1>3

LEMMA EchoingIs ==
  ASSUME NEW x, Size[x] \in Nat, NEW b \in Nat, NEW i \in Nat, Echoing(x, b, i)
  PROVE  at \in b + 1..b + 2 * Size[x]
<1>1. PICK m \in Nat : m = Size[x]
  OBVIOUS
<1>2. i < m /\ (at = b + 2 * i + 1 \/ at = b + 2 * i + 2)
  BY <1>1 DEF Echoing, InPacket
<1>3. at \in b + 1..b + 2 * m
  BY <1>2
<1> QED
  BY <1>1, <1>3

LEMMA BootParts ==
  /\ Plain("AT", 0, FALSE) => at \in 1..CwmodeAt
  /\ Plain("CWMODE", CwmodeAt, FALSE) => at \in CwmodeAt + 1..CwjapAt
  /\ Plain("CWJAP", CwjapAt, FALSE) => at \in CwjapAt + 1..MenuAt
<1>1. PICK n, m, l : n = Size["AT"] /\ m = Size["CWMODE"] /\ l = Size["CWJAP"]
  OBVIOUS
<1>2. n \in Nat /\ m \in Nat /\ l \in Nat
  BY <1>1, SizesNamed
<1>3. CwmodeAt = n + 4 /\ CwjapAt = CwmodeAt + m + 4 /\ MenuAt = CwjapAt + l + 4
  BY <1>1, Zenon DEF CwmodeAt, CwjapAt, MenuAt
<1>4. CwmodeAt \in Nat /\ CwjapAt \in Nat /\ MenuAt \in Nat
  BY BootPlaces
<1>5. {"AT", "CWMODE", "CWJAP"} \subseteq Commands
  BY DEF Commands
<1>6. ASSUME Plain("AT", 0, FALSE) PROVE at \in 1..CwmodeAt
  <2>1. at \in 0 + 1..0 + n + 4
    BY <1>1, <1>5, <1>6, PlainIs
  <2> QED
    BY <1>2, <1>3, <2>1
<1>7. ASSUME Plain("CWMODE", CwmodeAt, FALSE)
      PROVE  at \in CwmodeAt + 1..CwjapAt
  <2>1. at \in CwmodeAt + 1..CwmodeAt + m + 4
    BY <1>1, <1>4, <1>5, <1>7, PlainIs
  <2> QED
    BY <1>3, <2>1
<1>8. ASSUME Plain("CWJAP", CwjapAt, FALSE) PROVE at \in CwjapAt + 1..MenuAt
  <2>1. at \in CwjapAt + 1..CwjapAt + l + 4
    BY <1>1, <1>4, <1>5, <1>8, PlainIs
  <2> QED
    BY <1>3, <2>1
<1> QED
  BY <1>6, <1>7, <1>8

LEMMA SelectParts ==
  /\ Plain("CIPSTART", 0, TRUE) => at \in 1..SendcAt
  /\ \A n, s : Announcing("SENDC", SendcAt, n, s) =>
                 at \in SendcAt + 1..ConnectAt
  /\ Connect => at \in ConnectAt + 1..SendpAt
  /\ \A n, s : Announcing("SENDP", SendpAt, n, s) =>
                 at \in SendpAt + 1..PublishAt
  /\ PublishIt /\ count \in Option => at \in PublishAt + 1..SenddAt
  /\ \A n, s : Announcing("SENDD", SenddAt, n, s) =>
                 at \in SenddAt + 1..DisconnectAt
  /\ Disconnect => at \in DisconnectAt + 1..SaidAt - 1
<1>1. PICK n, m, l, r : /\ n = Size["SENDP"] /\ m = Size["publish1"]
                        /\ l = Size["SENDD"] /\ r = Size["disconnect"]
  OBVIOUS
<1>2. PICK c, d, e : /\ c = Size["CIPSTART"] /\ d = Size["SENDC"]
                     /\ e = Size["connect"]
  OBVIOUS
<1>3. /\ n \in Nat /\ m \in Nat /\ l \in Nat /\ r \in Nat
      /\ n >= 1 /\ m >= 1 /\ l >= 1 /\ r >= 1
      /\ c \in Nat /\ d \in Nat /\ e \in Nat /\ c >= 1 /\ d >= 1 /\ e >= 1
  BY <1>1, <1>2, SizesNamed
<1>4. /\ SendcAt = c + 4 /\ ConnectAt = SendcAt + d + 3
      /\ AnswerAt = ConnectAt + e + 2 /\ SendpAt = AnswerAt + 2
      /\ PublishAt = SendpAt + n + 3 /\ AfterPublish = PublishAt + 2 * m
      /\ SenddAt = AfterPublish + 3
      /\ DisconnectAt = SenddAt + l + 3 /\ SaidAt = DisconnectAt + 2 * r + 4
  BY <1>1, <1>2, Zenon
     DEF SendcAt, ConnectAt, AnswerAt, SendpAt, PublishAt, AfterPublish,
         SenddAt, DisconnectAt, SaidAt
<1>5. /\ SendcAt \in Nat /\ ConnectAt \in Nat /\ AnswerAt \in Nat
      /\ SendpAt \in Nat /\ PublishAt \in Nat /\ AfterPublish \in Nat
      /\ SenddAt \in Nat /\ DisconnectAt \in Nat /\ SaidAt \in Nat
  BY SelectPlaces, MorePlaces
<1>6. {"CIPSTART", "SENDC", "SENDP", "SENDD"} \subseteq Commands
  BY DEF Commands
<1>7. ASSUME Plain("CIPSTART", 0, TRUE) PROVE at \in 1..SendcAt
  <2>1. at \in 0 + 1..0 + c + 4
    BY <1>2, <1>6, <1>7, PlainIs
  <2> QED
    BY <1>3, <1>4, <2>1
<1>8. ASSUME NEW p, NEW s, Announcing("SENDC", SendcAt, p, s)
      PROVE  at \in SendcAt + 1..ConnectAt
  <2>1. at \in SendcAt + 1..SendcAt + d + 3
    BY <1>2, <1>5, <1>6, <1>8, AnnouncingIs
  <2> QED
    BY <1>4, <2>1
<1>9. ASSUME Connect PROVE at \in ConnectAt + 1..SendpAt
  <2>1. CASE \E i \in Nat : at = ConnectAt + i + 1 /\ InPacket("connect", i)
    <3>1. PICK i \in Nat : at = ConnectAt + i + 1 /\ InPacket("connect", i)
      BY <2>1
    <3>2. i < e
      BY <1>2, <3>1 DEF InPacket
    <3> QED
      BY <1>3, <1>4, <1>5, <3>1, <3>2
  <2>2. CASE at \in AnswerAt - 1..AnswerAt + 2
    BY <1>3, <1>4, <1>5, <2>2
  <2> QED
    BY <1>9, <2>1, <2>2 DEF Connect
<1>10. ASSUME NEW p, NEW s, Announcing("SENDP", SendpAt, p, s)
       PROVE  at \in SendpAt + 1..PublishAt
  <2>1. at \in SendpAt + 1..SendpAt + n + 3
    BY <1>1, <1>5, <1>6, <1>10, AnnouncingIs
  <2> QED
    BY <1>4, <2>1
<1>11. ASSUME PublishIt, count \in Option PROVE at \in PublishAt + 1..SenddAt
  <2>1. CASE \E i \in Nat : Echoing(Publish(count), PublishAt, i)
    <3>1. Size[Publish(count)] = m
      BY <1>1, <1>11, SizesNamed
    <3>2. at \in PublishAt + 1..PublishAt + 2 * m
      BY <1>3, <1>5, <2>1, <3>1, EchoingIs
    <3> QED
      BY <1>3, <1>4, <1>5, <3>2
  <2>2. CASE at \in AfterPublish + 1..AfterPublish + 3
    BY <1>3, <1>4, <1>5, <2>2
  <2> QED
    BY <1>11, <2>1, <2>2 DEF PublishIt
<1>12. ASSUME NEW p, NEW s, Announcing("SENDD", SenddAt, p, s)
       PROVE  at \in SenddAt + 1..DisconnectAt
  <2>1. at \in SenddAt + 1..SenddAt + l + 3
    BY <1>1, <1>5, <1>6, <1>12, AnnouncingIs
  <2> QED
    BY <1>4, <2>1
<1>13. ASSUME Disconnect PROVE at \in DisconnectAt + 1..SaidAt - 1
  <2>1. CASE \E i \in Nat : Echoing("disconnect", DisconnectAt, i)
    <3>1. at \in DisconnectAt + 1..DisconnectAt + 2 * r
      BY <1>1, <1>3, <1>5, <2>1, EchoingIs
    <3> QED
      BY <1>3, <1>4, <1>5, <3>1
  <2>2. CASE at \in SaidAt - 3..SaidAt - 1
    BY <1>3, <1>4, <1>5, <2>2
  <2> QED
    BY <1>13, <2>1, <2>2 DEF Disconnect
<1> QED
  BY <1>7, <1>8, <1>9, <1>10, <1>11, <1>12, <1>13

\* The next command or packet begins.
LEMMA PlainBegins ==
  ASSUME NEW x \in Commands, NEW b \in Nat, NEW t, Ready(FALSE, "none")',
         at' = b + 1
  PROVE  Plain(x, b, t)'
<1>1. Writing(x, 1)'
  BY ReadyWrites
<1>2. 1 \in 1..Size[x] + 2
  <2>1. Size[x] \in Nat
    BY SizeIs DEF Arrays
  <2> QED
    BY <2>1
<1>3. session' = "none" /\ tcp' = FALSE
  BY DEF Ready, Link
<1> QED
  BY <1>1, <1>2, <1>3 DEF Plain

LEMMA AnnouncingBegins ==
  ASSUME NEW x \in Commands, NEW b \in Nat, NEW n, NEW s, Ready(TRUE, s)',
         at' = b + 1
  PROVE  Announcing(x, b, n, s)'
<1>1. Writing(x, 1)'
  BY ReadyWrites
<1>2. 1 \in 1..Size[x] + 2
  <2>1. Size[x] \in Nat
    BY SizeIs DEF Arrays
  <2> QED
    BY <2>1
<1>3. Link(TRUE, s)'
  BY DEF Ready
<1> QED
  BY <1>1, <1>2, <1>3 DEF Announcing

LEMMA PacketBegins ==
  ASSUME NEW x \in Packets, NEW s, Waiting(Size[x], s)'
  PROVE  InPacket(x, 0)' /\ Link(TRUE, s)'
<1>1. Size[x] \in Nat /\ 0 < Size[x] /\ Size[x] = Size[x] - 0
  BY SizeIs DEF Arrays
<1>2. /\ mode' = "data" /\ job' = "none" /\ rem' = Size[x] /\ line' = Empty
      /\ out' = <<>> /\ Link(TRUE, s)'
  BY DEF Waiting
<1> QED
  BY <1>1, <1>2 DEF InPacket

\* A step of the start-up.
LEMMA BootStep ==
  ASSUME Online, TypeInv, Kind, pc = "boot", at <= Len(Script), BootTalk
  PROVE  BootTalk'
<1>1. /\ Script = Boot /\ Len(Script) = MenuAt + 1 /\ at \in Nat
      /\ MenuAt \in Nat /\ CwmodeAt \in Nat /\ CwjapAt \in Nat
  BY ScriptIs, BootPlaces DEF TypeInv
<1>2. PICK n, m, l : n = Size["AT"] /\ m = Size["CWMODE"] /\ l = Size["CWJAP"]
  OBVIOUS
<1>3. n \in Nat /\ m \in Nat /\ l \in Nat
  BY <1>2, SizesNamed
<1>4. CwmodeAt = n + 4 /\ CwjapAt = CwmodeAt + m + 4 /\ MenuAt = CwjapAt + l + 4
  BY <1>2, Zenon DEF CwmodeAt, CwjapAt, MenuAt
<1>5. {"AT", "CWMODE", "CWJAP"} \subseteq Commands
  BY DEF Commands
<1>6. CASE Plain("AT", 0, FALSE)
  <2>1. /\ LineOf("AT", Script, 0) /\ Script[0 + Size["AT"] + 3] = Read("AT")
        /\ Script[0 + Size["AT"] + 4] = Sleep
    <3>1. 0 + n + 3 = n + 3 /\ 0 + n + 4 = CwmodeAt
      BY <1>3, <1>4
    <3> QED
      BY <1>1, <1>2, <3>1, BootIs
  <2>2. \/ Plain("AT", 0, FALSE)'
        \/ at' = 0 + Size["AT"] + 5 /\ Ready(FALSE, "none")'
    BY <1>6, <2>1, PlainStep
  <2>3. ASSUME at' = 0 + Size["AT"] + 5, Ready(FALSE, "none")'
        PROVE  Plain("CWMODE", CwmodeAt, FALSE)'
    <3>1. at' = CwmodeAt + 1
      BY <1>2, <1>3, <1>4, <2>3
    <3> QED
      BY <1>1, <1>5, <2>3, <3>1, PlainBegins
  <2> QED
    BY <2>2, <2>3 DEF BootTalk
<1>7. CASE Plain("CWMODE", CwmodeAt, FALSE)
  <2>1. /\ LineOf("CWMODE", Script, CwmodeAt)
        /\ Script[CwmodeAt + Size["CWMODE"] + 3] = Read("CWMODE")
        /\ Script[CwmodeAt + Size["CWMODE"] + 4] = Sleep
    BY <1>1, <1>2, <1>4, BootIs
  <2>2. \/ Plain("CWMODE", CwmodeAt, FALSE)'
        \/ at' = CwmodeAt + Size["CWMODE"] + 5 /\ Ready(FALSE, "none")'
    BY <1>1, <1>7, <2>1, PlainStep
  <2>3. ASSUME at' = CwmodeAt + Size["CWMODE"] + 5, Ready(FALSE, "none")'
        PROVE  Plain("CWJAP", CwjapAt, FALSE)'
    <3>1. at' = CwmodeAt + m + 5
      BY <1>2, <2>3
    <3>2. at' = CwjapAt + 1
      BY <1>1, <1>3, <1>4, <3>1
    <3> QED
      BY <1>1, <1>5, <2>3, <3>2, PlainBegins
  <2> QED
    BY <2>2, <2>3 DEF BootTalk
<1>8. CASE Plain("CWJAP", CwjapAt, FALSE)
  <2>1. /\ LineOf("CWJAP", Script, CwjapAt)
        /\ Script[CwjapAt + Size["CWJAP"] + 3] = Read("CWJAP")
        /\ Script[CwjapAt + Size["CWJAP"] + 4] = Sleep
    BY <1>1, <1>2, <1>4, BootIs
  <2>2. \/ Plain("CWJAP", CwjapAt, FALSE)'
        \/ at' = CwjapAt + Size["CWJAP"] + 5 /\ Ready(FALSE, "none")'
    BY <1>1, <1>8, <2>1, PlainStep
  <2>3. ASSUME at' = CwjapAt + Size["CWJAP"] + 5, Ready(FALSE, "none")'
        PROVE  at' > MenuAt /\ Resting'
    <3>1. at' = CwjapAt + l + 5
      BY <1>2, <2>3
    <3>2. at' = MenuAt + 1
      BY <1>1, <1>3, <1>4, <3>1
    <3>3. at' > MenuAt
      BY <1>1, <3>2
    <3> QED
      BY <2>3, <3>3 DEF Resting
  <2> QED
    BY <2>2, <2>3 DEF BootTalk
<1>9. CASE at > MenuAt /\ Resting
  <2>1. Script[at] = Show(Opcao[0])
    <3>1. at = MenuAt + 1
      BY <1>1, <1>9
    <3> QED
      BY <1>1, <3>1, BootIs
  <2>2. (at' = at \/ at' = at + 1) /\ UNCHANGED espVars
    <3>1. out = <<>> /\ job = "none" /\ session # "closing"
      BY <1>9 DEF Resting, Ready, Link
    <3> QED
      BY <2>1, <3>1, KindPut, NothingOutside
  <2>3. at' > MenuAt
    BY <1>1, <1>9, <2>2
  <2> QED
    BY <1>9, <2>2, <2>3 DEF BootTalk, Resting, Ready, Link, espVars
<1> QED
  BY <1>6, <1>7, <1>8, <1>9 DEF BootTalk

\* A step of a selection.
LEMMA SelectStep ==
  ASSUME Online, TypeInv, Kind, pc = "select", at <= Len(Script),
         count' = count, SelectTalk, ~said
  PROVE  SelectTalk' /\ (at' <= SaidAt => ~said')
<1>1. /\ SelectionIs(Script, count) /\ Len(Script) = SaidAt /\ at \in Nat
      /\ count \in Option
  <2>1. pc # "boot" /\ count \in Option
    BY DEF TypeInv, Placed
  <2> QED
    BY <2>1, ScriptIs, SelectedIs DEF TypeInv
<1>2. PICK n, m, l, r : /\ n = Size["SENDP"] /\ m = Size["publish1"]
                        /\ l = Size["SENDD"] /\ r = Size["disconnect"]
  OBVIOUS
<1>3. PICK c, d, e : /\ c = Size["CIPSTART"] /\ d = Size["SENDC"]
                     /\ e = Size["connect"]
  OBVIOUS
<1>4. /\ n \in Nat /\ m \in Nat /\ l \in Nat /\ r \in Nat
      /\ c \in Nat /\ d \in Nat /\ e \in Nat
  BY <1>2, <1>3, SizesNamed
<1>5. /\ SendcAt = c + 4 /\ ConnectAt = SendcAt + d + 3
      /\ AnswerAt = ConnectAt + e + 2 /\ SendpAt = AnswerAt + 2
      /\ PublishAt = SendpAt + n + 3 /\ AfterPublish = PublishAt + 2 * m
      /\ SenddAt = AfterPublish + 3
      /\ DisconnectAt = SenddAt + l + 3 /\ SaidAt = DisconnectAt + 2 * r + 4
  BY <1>2, <1>3, Zenon
     DEF SendcAt, ConnectAt, AnswerAt, SendpAt, PublishAt, AfterPublish,
         SenddAt, DisconnectAt, SaidAt
<1>6. /\ SendcAt \in Nat /\ ConnectAt \in Nat /\ AnswerAt \in Nat
      /\ SendpAt \in Nat /\ PublishAt \in Nat /\ AfterPublish \in Nat
      /\ SenddAt \in Nat /\ DisconnectAt \in Nat /\ SaidAt \in Nat
  BY SelectPlaces, MorePlaces
<1>7. {"CIPSTART", "SENDC", "SENDP", "SENDD"} \subseteq Commands
  BY DEF Commands
<1>8. /\ Announced["SENDC"] = Size["connect"]
      /\ Announced["SENDP"] = Size["publish1"]
      /\ Announced["SENDD"] = Size["disconnect"]
  BY AnnouncedIs
<1>9. CASE inbox = <<>> /\ Plain("CIPSTART", 0, TRUE)
  <2>1. /\ LineOf("CIPSTART", Script, 0)
        /\ Script[0 + Size["CIPSTART"] + 3] = Read("CIPSTART")
        /\ Script[0 + Size["CIPSTART"] + 4] = Sleep
    <3>1. SelectRead = c + 3
      BY <1>3, Zenon DEF SelectRead
    <3>2. 0 + c + 3 = SelectRead /\ 0 + c + 4 = SendcAt
      BY <1>4, <1>5, <3>1
    <3> QED
      BY <1>1, <1>3, <3>2 DEF SelectionIs
  <2>2. /\ UNCHANGED <<inbox, said>>
        /\ \/ Plain("CIPSTART", 0, TRUE)'
           \/ at' = 0 + Size["CIPSTART"] + 5 /\ Ready(TRUE, "none")'
    BY <1>9, <2>1, PlainStep
  <2>3. ASSUME at' = 0 + Size["CIPSTART"] + 5, Ready(TRUE, "none")'
        PROVE  Announcing("SENDC", SendcAt, Size["connect"], "none")'
    <3>1. at' = 0 + c + 5
      BY <1>3, <2>3
    <3>2. at' = SendcAt + 1
      BY <1>4, <1>5, <3>1
    <3> QED
      BY <1>6, <1>7, <2>3, <3>2, AnnouncingBegins
  <2>4. inbox' = <<>> /\ ~said'
    BY <1>9, <2>2
  <2> QED
    BY <2>2, <2>3, <2>4 DEF SelectTalk
<1>10. CASE /\ inbox = <<>>
            /\ Announcing("SENDC", SendcAt, Size["connect"], "none")
  <2>1. /\ LineOf("SENDC", Script, SendcAt)
        /\ Script[SendcAt + Size["SENDC"] + 3] = Sleep
    BY <1>1, <1>3, <1>5 DEF SelectionIs
  <2>2. /\ UNCHANGED <<inbox, said>>
        /\ \/ Announcing("SENDC", SendcAt, Size["connect"], "none")'
           \/ /\ at' = SendcAt + Size["SENDC"] + 4
              /\ Waiting(Size["connect"], "none")'
    BY <1>6, <1>8, <1>10, <2>1, AnnounceStep
  <2>3. ASSUME at' = SendcAt + Size["SENDC"] + 4,
               Waiting(Size["connect"], "none")'
        PROVE  Connect'
    <3>1. at' = ConnectAt + 0 + 1 /\ 0 \in Nat
      <4>1. at' = SendcAt + d + 4
        BY <1>3, <2>3
      <4>2. ConnectAt = SendcAt + d + 3
        BY <1>5
      <4> QED
        BY <1>4, <1>6, <4>1, <4>2
    <3>2. InPacket("connect", 0)' /\ Link(TRUE, "none")'
      BY <2>3, PacketBegins DEF Packets
    <3> QED
      BY <3>1, <3>2 DEF Connect
  <2>4. inbox' = <<>> /\ ~said'
    BY <1>10, <2>2
  <2> QED
    BY <2>2, <2>3, <2>4 DEF SelectTalk
<1>11. CASE inbox = <<>> /\ Connect
  <2>1. /\ UNCHANGED <<inbox, said>>
        /\ Connect' \/ (at' = SendpAt + 1 /\ Ready(TRUE, "open")')
    BY <1>1, <1>11, ConnectStep
  <2>2. ASSUME at' = SendpAt + 1, Ready(TRUE, "open")'
        PROVE  Announcing("SENDP", SendpAt, Size["publish1"], "open")'
    BY <1>6, <1>7, <2>2, AnnouncingBegins
  <2>3. inbox' = <<>> /\ ~said'
    BY <1>11, <2>1
  <2> QED
    BY <2>1, <2>2, <2>3 DEF SelectTalk
<1>12. CASE /\ inbox = <<>>
            /\ Announcing("SENDP", SendpAt, Size["publish1"], "open")
  <2>1. /\ LineOf("SENDP", Script, SendpAt)
        /\ Script[SendpAt + Size["SENDP"] + 3] = Sleep
    BY <1>1, <1>2, <1>5 DEF SelectionIs
  <2>2. /\ UNCHANGED <<inbox, said>>
        /\ \/ Announcing("SENDP", SendpAt, Size["publish1"], "open")'
           \/ /\ at' = SendpAt + Size["SENDP"] + 4
              /\ Waiting(Size["publish1"], "open")'
    BY <1>6, <1>8, <1>12, <2>1, AnnounceStep
  <2>3. inbox' = <<>> /\ ~said'
    BY <1>12, <2>2
  <2>4. ASSUME at' = SendpAt + Size["SENDP"] + 4,
               Waiting(Size["publish1"], "open")'
        PROVE  PublishIt'
    <3>1. at' = PublishAt + 2 * 0 + 1 /\ 0 \in Nat
      <4>1. at' = SendpAt + n + 4
        BY <1>2, <2>4
      <4>2. PublishAt = SendpAt + n + 3
        BY <1>5
      <4> QED
        BY <1>4, <1>6, <4>1, <4>2
    <3>2. Publish(count) \in Packets /\ Size[Publish(count)] = Size["publish1"]
      BY <1>1, SizesNamed DEF Packets, Publishes
    <3>3. InPacket(Publish(count), 0)' /\ Link(TRUE, "open")'
      BY <2>4, <3>2, PacketBegins
    <3>4. Echoing(Publish(count), PublishAt, 0)'
      BY <3>1, <3>3 DEF Echoing
    <3>5. Publish(count)' = Publish(count)
      BY DEF Publish
    <3> QED
      BY <2>3, <3>1, <3>3, <3>4, <3>5 DEF PublishIt
  <2> QED
    BY <2>2, <2>3, <2>4 DEF SelectTalk
<1>13. CASE PublishIt
  <2>1. /\ said' = said
        /\ \/ PublishIt'
           \/ /\ at' = SenddAt + 1 /\ inbox' = <<count>>
              /\ Ready(TRUE, "open")'
    BY <1>1, <1>13, PublishStep
  <2>2. ASSUME at' = SenddAt + 1, Ready(TRUE, "open")'
        PROVE  Announcing("SENDD", SenddAt, Size["disconnect"], "open")'
    BY <1>6, <1>7, <2>2, AnnouncingBegins
  <2> QED
    BY <2>1, <2>2 DEF SelectTalk
<1>14. CASE /\ inbox = <<count>>
            /\ Announcing("SENDD", SenddAt, Size["disconnect"], "open")
  <2>1. /\ LineOf("SENDD", Script, SenddAt)
        /\ Script[SenddAt + Size["SENDD"] + 3] = Sleep
    BY <1>1, <1>2, <1>5 DEF SelectionIs
  <2>2. /\ UNCHANGED <<inbox, said>>
        /\ \/ Announcing("SENDD", SenddAt, Size["disconnect"], "open")'
           \/ /\ at' = SenddAt + Size["SENDD"] + 4
              /\ Waiting(Size["disconnect"], "open")'
    BY <1>6, <1>8, <1>14, <2>1, AnnounceStep
  <2>3. inbox' = <<count>> /\ ~said'
    BY <1>14, <2>2
  <2>4. ASSUME at' = SenddAt + Size["SENDD"] + 4,
               Waiting(Size["disconnect"], "open")'
        PROVE  Disconnect'
    <3>1. at' = DisconnectAt + 2 * 0 + 1 /\ 0 \in Nat
      <4>1. at' = SenddAt + l + 4
        BY <1>2, <2>4
      <4>2. DisconnectAt = SenddAt + l + 3
        BY <1>5
      <4> QED
        BY <1>4, <1>6, <4>1, <4>2
    <3>2. InPacket("disconnect", 0)' /\ Link(TRUE, "open")'
      BY <2>4, PacketBegins DEF Packets
    <3>3. Echoing("disconnect", DisconnectAt, 0)'
      BY <3>1, <3>2 DEF Echoing
    <3> QED
      BY <3>1, <3>2, <3>3 DEF Disconnect
  <2> QED
    BY <2>2, <2>3, <2>4 DEF SelectTalk
<1>15. CASE inbox = <<count>> /\ Disconnect
  <2>1. /\ UNCHANGED <<inbox, said>>
        /\ Disconnect' \/ (at' = SaidAt /\ Resting')
    BY <1>1, <1>15, DisconnectStep
  <2>2. inbox' = <<count>> /\ ~said'
    BY <1>15, <2>1
  <2>3. at' = SaidAt => at' >= SaidAt
    BY <1>6
  <2> QED
    BY <2>1, <2>2, <2>3 DEF SelectTalk
<1>16. CASE inbox = <<count>> /\ at >= SaidAt /\ Resting
  <2>1. Script[at] = Said /\ at = SaidAt
    <3>1. at = SaidAt
      BY <1>1, <1>6, <1>16
    <3> QED
      BY <1>1, <3>1 DEF SelectionIs
  <2>2. out = <<>> /\ job = "none" /\ session # "closing"
    BY <1>16 DEF Resting, Ready, Link
  <2>3. UNCHANGED espVars /\ (at' = at + 1 \/ (at' = at /\ said' = said))
    BY <2>1, <2>2, KindSaid, NothingOutside
  <2>4. at' >= SaidAt /\ (at' <= SaidAt => ~said')
    BY <1>6, <2>1, <2>3
  <2>5. inbox' = <<count>> /\ Resting'
    BY <1>16, <2>3 DEF Resting, Ready, Link, espVars
  <2> QED
    BY <2>4, <2>5 DEF SelectTalk
<1> QED
  BY <1>9, <1>10, <1>11, <1>12, <1>13, <1>14, <1>15, <1>16 DEF SelectTalk

LEMMA InOrder ==
  /\ SendcAt < ConnectAt /\ ConnectAt < SendpAt /\ SendpAt < PublishAt
  /\ PublishAt < SenddAt /\ SenddAt < DisconnectAt /\ DisconnectAt < SaidAt
<1>1. PICK r, e : r = Size["disconnect"] /\ e = Size["connect"]
  OBVIOUS
<1>2. r \in Nat /\ e \in Nat
  BY <1>1, SizesNamed
<1>3. /\ ConnectAt >= SendcAt + 4 /\ AnswerAt = ConnectAt + e + 2
      /\ SendpAt = AnswerAt + 2 /\ PublishAt >= SendpAt + 4
      /\ AfterPublish >= PublishAt + 2 /\ SenddAt = AfterPublish + 3
      /\ DisconnectAt >= SenddAt + 4 /\ SaidAt = DisconnectAt + 2 * r + 4
      /\ AfterPublish \in Nat /\ AnswerAt \in Nat /\ SendcAt \in Nat
      /\ ConnectAt \in Nat /\ SendpAt \in Nat /\ PublishAt \in Nat
      /\ SenddAt \in Nat /\ DisconnectAt \in Nat /\ SaidAt \in Nat
  BY <1>1, SelectPlaces, MorePlaces
<1> QED
  BY <1>2, <1>3

\* After the last sleep of a routine the ESP rests.
LEMMA BootRests ==
  ASSUME BootTalk, at \in Nat, at > MenuAt
  PROVE  Resting
<1>1. /\ CwmodeAt \in Nat /\ CwjapAt \in Nat /\ MenuAt \in Nat
      /\ CwmodeAt < CwjapAt /\ CwjapAt < MenuAt
  BY BootPlaces
<1>2. /\ ~(at \in 1..CwmodeAt) /\ ~(at \in CwmodeAt + 1..CwjapAt)
      /\ ~(at \in CwjapAt + 1..MenuAt)
  BY <1>1
<1> QED
  BY <1>2, BootParts, Zenon DEF BootTalk

LEMMA SelectRests ==
  ASSUME SelectTalk, at \in Nat, count \in Option, at >= SaidAt
  PROVE  Resting /\ inbox = <<count>>
<1>1. /\ SendcAt \in Nat /\ ConnectAt \in Nat /\ SendpAt \in Nat
      /\ PublishAt \in Nat /\ SenddAt \in Nat /\ DisconnectAt \in Nat
      /\ SaidAt \in Nat
  BY SelectPlaces, MorePlaces
<1>2. /\ at > SendcAt /\ at > ConnectAt /\ at > SendpAt /\ at > PublishAt
      /\ at > SenddAt /\ at > DisconnectAt /\ at > SaidAt - 1
  BY <1>1, InOrder
<1>3. /\ ~(at \in 1..SendcAt) /\ ~(at \in SendcAt + 1..ConnectAt)
      /\ ~(at \in ConnectAt + 1..SendpAt) /\ ~(at \in SendpAt + 1..PublishAt)
      /\ ~(at \in PublishAt + 1..SenddAt) /\ ~(at \in SenddAt + 1..DisconnectAt)
      /\ ~(at \in DisconnectAt + 1..SaidAt - 1)
  BY <1>1, <1>2
<1> QED
  BY <1>3, SelectParts, Zenon DEF SelectTalk

\* readUart's places, in the dialogue.
LEMMA ReadPlace ==
  ASSUME TypeInv, Talk, Running,
         NEW p, p \in {at, at + 1}, p <= Len(Script), Script[p].op = "read"
  PROVE  /\ p = at => AnswerTo(Arg)
         /\ p = at + 1 => out = <<>>
<1>1. at \in Nat /\ at >= 1 /\ count \in Option
  BY ScriptIs DEF TypeInv, Placed
<1>2. PICK n, m, l, c : /\ n = Size["AT"] /\ m = Size["CWMODE"]
                        /\ l = Size["CWJAP"] /\ c = Size["CIPSTART"]
  OBVIOUS
<1>3. n \in Nat /\ m \in Nat /\ l \in Nat /\ c \in Nat
  BY <1>2, SizesNamed
<1>4. {"AT", "CWMODE", "CWJAP", "CIPSTART"} \subseteq Commands
  BY DEF Commands
<1>5. ASSUME NEW x \in Commands, NEW b \in Nat, NEW t, Plain(x, b, t),
             p = b + Size[x] + 3, Script[p] = Read(x)
      PROVE  /\ p = at => AnswerTo(Arg)
             /\ p = at + 1 => out = <<>>
  <2>1. PICK k \in Nat : k = Size[x]
    BY SizeIs DEF Arrays
  <2>2. /\ at \in b + 1..b + k + 4 /\ (at <= b + k + 2 => out = <<>>)
        /\ (at = b + k + 3 => AnswerTo(x))
    BY <1>5, <2>1, PlainIs
  <2>3. p = b + k + 3
    BY <1>5, <2>1
  <2>4. ASSUME p = at PROVE AnswerTo(Arg)
    <3>1. Arg = x
      BY <1>5, <2>4, Fields DEF Arg
    <3> QED
      BY <2>2, <2>3, <2>4, <3>1
  <2>5. ASSUME p = at + 1 PROVE out = <<>>
    BY <1>1, <2>2, <2>3, <2>5
  <2> QED
    BY <2>4, <2>5
<1>6. CASE pc = "boot"
  <2>1. /\ Script = Boot /\ p \in 1..MenuAt + 1 /\ BootTalk
        /\ CwmodeAt \in Nat /\ CwjapAt \in Nat /\ MenuAt \in Nat
    BY <1>1, <1>6, ScriptIs, BootPlaces DEF TypeInv, Talk
  <2>2. /\ CwmodeAt = n + 4 /\ CwjapAt = CwmodeAt + m + 4
        /\ MenuAt = CwjapAt + l + 4
    BY <1>2, Zenon DEF CwmodeAt, CwjapAt, MenuAt
  <2>3. BootRead1 = n + 3 /\ BootRead2 = CwmodeAt + m + 3
    BY <1>2, Zenon DEF BootRead1, BootRead2
  <2>4. ~Common(Script[p])
        /\ \A t : Script[p] # Show(t)
    BY CommonFields, Fields
  <2>5. \/ p = n + 3 /\ Script[p] = Read("AT")
        \/ p = CwmodeAt + m + 3 /\ Script[p] = Read("CWMODE")
        \/ p = CwjapAt + l + 3 /\ Script[p] = Read("CWJAP")
    <3>1. \/ p = BootRead1 /\ Script[p] = Read("AT")
          \/ p = BootRead2 /\ Script[p] = Read("CWMODE")
          \/ p = MenuAt - 1 /\ Script[p] = Read("CWJAP")
      BY <2>1, <2>4, BootOp
    <3>2. MenuAt - 1 = CwjapAt + l + 3
      BY <1>3, <2>1, <2>2
    <3> QED
      BY <2>3, <3>1, <3>2, Zenon
  <2>6. /\ Plain("AT", 0, FALSE) => at <= CwmodeAt
        /\ Plain("CWMODE", CwmodeAt, FALSE) => at > CwmodeAt /\ at <= CwjapAt
        /\ Plain("CWJAP", CwjapAt, FALSE) => at > CwjapAt /\ at <= MenuAt
    <3>1. PICK u, v, w : u = CwmodeAt /\ v = CwjapAt /\ w = MenuAt
      OBVIOUS
    <3>2. /\ Plain("AT", 0, FALSE) => at \in 1..u
          /\ Plain("CWMODE", CwmodeAt, FALSE) => at \in u + 1..v
          /\ Plain("CWJAP", CwjapAt, FALSE) => at \in v + 1..w
      BY <3>1, BootParts, Zenon
    <3>3. u \in Nat /\ v \in Nat /\ w \in Nat
      BY <2>1, <3>1
    <3>4. /\ at \in 1..u => at <= u
          /\ at \in u + 1..v => at > u /\ at <= v
          /\ at \in v + 1..w => at > v /\ at <= w
      BY <3>3
    <3> QED
      BY <3>1, <3>2, <3>4, Zenon
  <2>7. CASE p = n + 3 /\ Script[p] = Read("AT")
    <3>1. at <= CwmodeAt
      BY <1>1, <1>3, <2>2, <2>7
    <3>2. ~(at > CwmodeAt) /\ ~(at > CwjapAt) /\ ~(at > MenuAt)
      BY <1>1, <1>3, <2>1, <2>2, <3>1
    <3>3. Plain("AT", 0, FALSE)
      BY <2>1, <2>6, <3>2, Zenon DEF BootTalk
    <3>4. p = 0 + Size["AT"] + 3
      BY <1>2, <1>3, <2>7
    <3> QED
      BY <1>4, <1>5, <2>7, <3>3, <3>4
  <2>8. CASE p = CwmodeAt + m + 3 /\ Script[p] = Read("CWMODE")
    <3>1. at > CwmodeAt /\ at <= CwjapAt
      BY <1>1, <1>3, <2>1, <2>2, <2>8
    <3>2. ~(at <= CwmodeAt) /\ ~(at > CwjapAt) /\ ~(at > MenuAt)
      BY <1>1, <1>3, <2>1, <2>2, <3>1
    <3>3. Plain("CWMODE", CwmodeAt, FALSE)
      BY <2>1, <2>6, <3>2, Zenon DEF BootTalk
    <3>4. p = CwmodeAt + Size["CWMODE"] + 3
      BY <1>2, <2>8
    <3> QED
      BY <1>4, <1>5, <2>1, <2>8, <3>3, <3>4
  <2>9. CASE p = CwjapAt + l + 3 /\ Script[p] = Read("CWJAP")
    <3>1. at > CwjapAt /\ at <= MenuAt
      BY <1>1, <1>3, <2>1, <2>2, <2>9
    <3>2. ~(at <= CwmodeAt) /\ ~(at <= CwjapAt) /\ ~(at > MenuAt)
      BY <1>1, <1>3, <2>1, <2>2, <3>1
    <3>3. Plain("CWJAP", CwjapAt, FALSE)
      BY <2>1, <2>6, <3>2, Zenon DEF BootTalk
    <3>4. p = CwjapAt + Size["CWJAP"] + 3
      BY <1>2, <2>9
    <3> QED
      BY <1>4, <1>5, <2>1, <2>9, <3>3, <3>4
  <2> QED
    BY <2>5, <2>7, <2>8, <2>9
<1>7. CASE pc = "select"
  <2>1. /\ Script = Selected[count] /\ p \in 1..SaidAt /\ SelectTalk
        /\ SendcAt \in Nat /\ ConnectAt \in Nat /\ SendpAt \in Nat
        /\ PublishAt \in Nat /\ SenddAt \in Nat /\ DisconnectAt \in Nat
        /\ SaidAt \in Nat
    <3>1. Script = Selected[count] /\ Len(Script) = SaidAt
      BY <1>7, ScriptIs DEF TypeInv
    <3>2. SelectTalk
      BY <1>7 DEF Talk
    <3>3. p >= 1 /\ p <= SaidAt /\ p \in Nat
      BY <1>1, <3>1
    <3>4. p \in 1..SaidAt
      BY <3>3, SelectPlaces
    <3> QED
      BY <3>1, <3>2, <3>4, SelectPlaces, MorePlaces
  <2>2. ~Common(Script[p]) /\ (\A t : Script[p] # Show(t))
        /\ (\A b : Script[p] # Tx(b)) /\ Script[p] # Said
    BY CommonFields, Fields
  <2>3. p = SelectRead /\ Script[p] = Read("CIPSTART")
    BY <1>1, <2>1, <2>2, SelectedOp
  <2>4. SelectRead = c + 3 /\ SendcAt = c + 4
    BY <1>2, Zenon DEF SelectRead, SendcAt
  <2>5. at <= SendcAt
    BY <1>1, <1>3, <2>3, <2>4
  <2>6. /\ SendcAt < ConnectAt /\ ConnectAt < SendpAt
        /\ SendpAt < PublishAt /\ PublishAt < SenddAt
        /\ SenddAt < DisconnectAt /\ DisconnectAt < SaidAt
    BY InOrder
  <2>7. /\ ~(at > SendcAt) /\ ~(at > ConnectAt) /\ ~(at > SendpAt)
        /\ ~(at > PublishAt) /\ ~(at > SenddAt) /\ ~(at > DisconnectAt)
        /\ ~(at >= SaidAt)
    BY <1>1, <2>1, <2>5, <2>6
  <2>8. Plain("CIPSTART", 0, TRUE)
    <3>1. /\ ~Announcing("SENDC", SendcAt, Size["connect"], "none")
          /\ ~Connect
      BY <1>1, <2>1, <2>7, SelectParts
    <3>2. /\ ~Announcing("SENDP", SendpAt, Size["publish1"], "open")
          /\ ~PublishIt
      BY <1>1, <2>1, <2>7, SelectParts
    <3>3. /\ ~Announcing("SENDD", SenddAt, Size["disconnect"], "open")
          /\ ~Disconnect
      BY <1>1, <2>1, <2>7, SelectParts
    <3> QED
      BY <2>1, <2>7, <3>1, <3>2, <3>3, Zenon DEF SelectTalk
  <2>9. p = 0 + Size["CIPSTART"] + 3
    BY <1>2, <1>3, <2>3, <2>4
  <2> QED
    BY <1>4, <1>5, <2>3, <2>8, <2>9
<1> QED
  BY <1>6, <1>7 DEF Running

\* readUart never sees a 'K' of another answer.
LEMMA FreshStep ==
  ASSUME TypeInv, LateInv, Talk, Running, at <= Len(Script), Kind,
         pc' = pc, count' = count, Script' = Script
  PROVE  FreshK'
<1>1. at \in Nat /\ Len(Script) \in Nat
  BY ScriptIs DEF TypeInv
<1>2. SUFFICES ASSUME AtOp("read")'
               PROVE  /\ rx'[1] = "K" => rx'[2] = Arg'
                      /\ check'[1] = "K" => check'[2] = Arg'
  BY DEF FreshK
<1>3. at' <= Len(Script) /\ Script[at'].op = "read"
  BY <1>2 DEF AtOp
<1>4. at' = at \/ at' = at + 1
  BY DEF Kind, Outside
<1>5. NotK(Empty) /\ NotK(Other)
  BY NoKs
<1>6. CASE at' = at + 1
  <2>1. out = <<>>
    BY <1>3, <1>6, ReadPlace
  <2>2. NotK(rx)
    BY <2>1 DEF LateInv, EndsInOther
  <2>3. rx' = rx /\ (check' = Empty \/ check' = check)
    BY <1>1, <1>6 DEF Kind, Outside
  <2>4. check' = Empty
    <3>1. CASE AtOp("read")
      BY <1>1, <1>6, <3>1, Fields DEF Kind, Outside, AtOp
    <3>2. CASE ~AtOp("read")
      BY <2>3, <3>2 DEF LateInv, EndsInOther
    <3> QED
      BY <3>1, <3>2
  <2> QED
    BY <1>5, <2>2, <2>3, <2>4 DEF NotK
<1>7. CASE at' = at
  <2>1. AtOp("read") /\ Arg' = Arg
    BY <1>2, <1>7 DEF AtOp, Arg, Running
  <2>2. AnswerTo(Arg)
    BY <2>1, ReadPlace DEF AtOp
  <2>3. /\ rx[1] = "K" => rx[2] = Arg
        /\ check[1] = "K" => check[2] = Arg
    BY <2>1 DEF Talk, FreshK
  <2>4. CASE \/ check' = rx /\ rx' = Empty
             \/ check' = Empty /\ rx' = rx
             \/ check' = check /\ rx' = rx
    BY <1>5, <2>1, <2>3, <2>4 DEF NotK
  <2>5. CASE /\ out # <<>> /\ out' = Tail(out) /\ rx' = Head(out)
             /\ check' = check
    <3>1. out \in Seq(Answers)
      BY EspTypes DEF TypeInv, EspInv
    <3>2. Head(out) \in {Other, K(Arg)}
      BY <2>2, <2>5, <3>1, AnswerGrows
    <3>3. K(Arg)[2] = Arg
      BY DEF K
    <3> QED
      BY <1>5, <2>1, <2>3, <2>5, <3>2, <3>3 DEF NotK
  <2>6. at' # at + 1
    BY <1>1, <1>7
  <2> QED
    BY <1>7, <2>1, <2>4, <2>5, <2>6, Fields DEF Kind, Outside, AtOp, espVars
<1> QED
  BY <1>4, <1>6, <1>7

LEMMA TalkStep ==
  ASSUME Online, TypeInv, LateInv, Talk, [Next]_vars
  PROVE  Talk'
<1>1. CASE Running /\ at <= Len(Script)
  <2>1. Kind /\ pc' = pc /\ count' = count /\ Script' = Script
    BY <1>1, KindIs
  <2>2. FreshK'
    BY <1>1, <2>1, FreshStep
  <2>3. CASE pc = "boot"
    <3>1. BootTalk'
      BY <1>1, <2>1, <2>3, BootStep DEF Talk
    <3> QED
      BY <2>1, <2>2, <2>3, <3>1 DEF Talk, InMenu
  <2>4. CASE pc = "select"
    <3>1. SelectTalk /\ ~said
      <4>1. at <= SaidAt
        BY <1>1, <2>4, ScriptIs DEF TypeInv
      <4> QED
        BY <2>4, <4>1 DEF Talk
    <3>2. SelectTalk' /\ (at' <= SaidAt => ~said')
      BY <1>1, <2>1, <2>4, <3>1, SelectStep
    <3> QED
      BY <2>1, <2>2, <2>4, <3>2 DEF Talk, InMenu
  <2> QED
    BY <1>1, <2>3, <2>4 DEF Running
<1>2. ASSUME ~(Running /\ at <= Len(Script)), Resting
      PROVE  /\ ~Arrive /\ ~EspStep
             /\ ~TxByte /\ ~SleepOver /\ ~ReadByte /\ ~PrintByte /\ ~PutChar
             /\ ~ShowText
  <2>1. \A o : ~AtOp(o)
    BY <1>2 DEF AtOp
  <2>2. ~Drop
    <3>1. drops \in 0..MaxDrops /\ MaxDrops = 0
      BY EspTypes DEF TypeInv, EspInv, Online
    <3> QED
      BY <3>1 DEF Drop
  <2>3. ~EspFinish /\ ~BrokerClose /\ out = <<>>
    BY <1>2 DEF EspFinish, BrokerClose, Resting, Ready, Link
  <2> QED
    BY <2>1, <2>2, <2>3
       DEF Arrive, EspStep, TxByte, SleepOver, ReadByte, PrintByte, PutChar,
           ShowText
<1>3. ASSUME at' = 1, pc' \in {"boot", "select"}, count' \in Option
      PROVE  ~AtOp("read")'
  <2>1. /\ Size["AT"] \in Nat /\ Size["AT"] >= 1
        /\ Size["CIPSTART"] \in Nat /\ Size["CIPSTART"] >= 1
    BY SizesNamed
  <2>2. CASE pc' = "boot"
    <3>1. Boot[0 + 1] = Tx(<<"AT", 1>>)
      BY <2>1, BootIs DEF LineOf
    <3>2. Script'[at'] = Tx(<<"AT", 1>>)
      BY <1>3, <2>2, <3>1 DEF Script
    <3> QED
      BY <3>2, Fields DEF AtOp
  <2>3. CASE pc' = "select"
    <3>1. LineOf("CIPSTART", Selected[count'], 0)
      BY <1>3, SelectedIs DEF SelectionIs
    <3>2. Selected[count'][0 + 1] = Tx(<<"CIPSTART", 1>>)
      BY <2>1, <3>1 DEF LineOf
    <3>3. Script'[at'] = Tx(<<"CIPSTART", 1>>)
      BY <1>3, <2>3, <3>2 DEF Script
    <3> QED
      BY <3>3, Fields DEF AtOp
  <2> QED
    BY <1>3, <2>2, <2>3
<1>4. ASSUME Resting, UNCHANGED <<mode, line, rem, job, out, tcp, session>>
      PROVE  Resting'
  BY <1>4 DEF Resting, Ready, Link
<1>5. {"AT", "CIPSTART"} \subseteq Commands /\ 0 \in Nat
  BY DEF Commands
<1>6. ASSUME at' = 1 PROVE at' = 0 + 1
  BY <1>6
<1>7. CASE Running /\ ~(at <= Len(Script))
  <2>1. /\ at \in Nat /\ Len(Script) \in Nat /\ at = Len(Script) + 1
    BY <1>7, ScriptIs DEF TypeInv, Placed
  <2>2. Resting /\ (pc = "select" => inbox = <<count>>)
    <3>1. CASE pc = "boot"
      <4>1. at = MenuAt + 2 /\ BootTalk /\ MenuAt \in Nat
        BY <2>1, <3>1, ScriptIs, BootPlaces DEF TypeInv, Talk
      <4>2. at > MenuAt
        BY <4>1
      <4> QED
        BY <2>1, <3>1, <4>1, <4>2, BootRests
    <3>2. CASE pc = "select"
      <4>1. at = SaidAt + 1 /\ SelectTalk /\ SaidAt \in Nat /\ count \in Option
        BY <2>1, <3>2, ScriptIs, SelectPlaces DEF TypeInv, Talk, Placed
      <4>2. at >= SaidAt
        BY <4>1
      <4> QED
        BY <2>1, <4>1, <4>2, SelectRests
    <3> QED
      BY <1>7, <3>1, <3>2 DEF Running
  <2>3. ASSUME UNCHANGED <<pc, at, count, espVars>>, said' = said
        PROVE  Talk'
    <3>1. ~AtOp("read")'
      <4>1. Script' = Script
        BY <2>3 DEF Script
      <4> QED
        BY <1>7, <2>3, <4>1 DEF AtOp
    <3>2. Resting'
      BY <1>4, <2>2, <2>3 DEF espVars
    <3>3. pc = "boot" => BootTalk'
      <4>1. pc = "boot" => at' > MenuAt
        <5>1. pc = "boot" => at = MenuAt + 2 /\ MenuAt \in Nat
          BY <2>1, ScriptIs, BootPlaces DEF TypeInv
        <5> QED
          BY <2>3, <5>1
      <4> QED
        BY <3>2, <4>1 DEF BootTalk
    <3>4. pc = "select" => SelectTalk' /\ ~(at' <= SaidAt)
      <4>1. pc = "select" => at' >= SaidAt /\ ~(at' <= SaidAt)
        <5>1. pc = "select" => at = SaidAt + 1 /\ SaidAt \in Nat
          BY <2>1, ScriptIs, SelectPlaces DEF TypeInv
        <5> QED
          BY <2>3, <5>1
      <4>2. pc = "select" => inbox' = <<count'>>
        BY <2>2, <2>3 DEF espVars
      <4> QED
        BY <3>2, <4>1, <4>2 DEF SelectTalk
    <3> QED
      BY <1>7, <2>3, <3>1, <3>3, <3>4 DEF Talk, FreshK, Running, InMenu
  <2>4. CASE Return
    <3>1. /\ pc' = (IF pc = "boot" THEN "sample" ELSE "hold")
          /\ UNCHANGED <<count, espVars>>
      BY <2>4 DEF Return, menu
    <3>2. Resting' /\ inbox' = inbox
      BY <1>4, <2>2, <3>1 DEF espVars
    <3>3. ~Running'
      BY <3>1 DEF Running
    <3> QED
      BY <1>7, <2>2, <3>1, <3>2, <3>3
         DEF Talk, FreshK, AtOp, Running
  <2>5. CASE Fetch \/ (\E k \in KeyValues : Press(k)) \/ UNCHANGED vars
    <3>1. UNCHANGED <<pc, at, count, espVars>> /\ said' = said
      BY <2>5 DEF Fetch, Press, vars, menu, run, past
    <3> QED
      BY <2>3, <3>1
  <2>6. /\ ~Sample /\ ~Up /\ ~Down /\ ~Select /\ ~Ignore /\ ~HoldSample
        /\ ~Light /\ ~Reset
    BY <1>7 DEF Running, Sample, Up, Down, Move, Select, Ignore, HoldSample,
                Light, Reset, Online
  <2> QED
    BY <1>2, <1>7, <2>2, <2>4, <2>5, <2>6 DEF Next, Cpu
<1>8. CASE ~Running
  <2>1. InMenu /\ Resting /\ at = 1 /\ count \in Option
    <3>1. InMenu
      BY <1>8 DEF Running, InMenu, TypeInv, AppTypes, Pcs
    <3> QED
      BY <1>8, <3>1 DEF Talk, TypeInv, Placed
  <2>2. ASSUME InMenu', UNCHANGED espVars,
               pc' \in {"hold", "light"} => inbox = <<count'>>
        PROVE  Talk'
    <3>1. Resting' /\ inbox' = inbox
      BY <1>4, <2>1, <2>2 DEF espVars
    <3>2. ~AtOp("read")' /\ pc' # "boot" /\ pc' # "select"
      BY <2>2 DEF AtOp, Running, InMenu
    <3> QED
      BY <2>2, <3>1, <3>2 DEF Talk, FreshK
  <2>3. CASE Sample \/ Up \/ Down \/ Ignore
    <3>1. pc' \in {"sample", "decide"} /\ UNCHANGED espVars
      BY <2>3 DEF Sample, Up, Down, Move, Ignore, Kept
    <3> QED
      BY <2>2, <3>1 DEF InMenu
  <2>4. CASE HoldSample \/ Light
    <3>1. /\ pc \in {"hold", "light"} /\ pc' \in {"hold", "light", "sample"}
          /\ UNCHANGED <<count, espVars>>
      BY <2>4 DEF HoldSample, Light, Kept
    <3>2. inbox = <<count>>
      BY <3>1 DEF Talk
    <3> QED
      BY <2>2, <3>1, <3>2 DEF InMenu
  <2>5. CASE Select
    <3>1. /\ pc' = "select" /\ at' = 1 /\ said' = FALSE /\ inbox' = <<>>
          /\ UNCHANGED <<mode, line, rem, job, out, tcp, session, count>>
      BY <2>5 DEF Select, menu
    <3>2. ~AtOp("read")'
      BY <1>3, <2>1, <3>1
    <3>3. Ready(FALSE, "none")'
      BY <1>4, <2>1, <3>1 DEF Resting
    <3>4. Plain("CIPSTART", 0, TRUE)'
      BY <1>5, <1>6, <3>1, <3>3, PlainBegins
    <3>5. SelectTalk'
      BY <3>1, <3>4 DEF SelectTalk
    <3> QED
      BY <3>1, <3>2, <3>5 DEF Talk, FreshK, InMenu
  <2>6. CASE Reset
    <3>1. pc' = "boot" /\ at' = 1 /\ count' = 0 /\ UNCHANGED espVars
      BY <2>6 DEF Reset
    <3>2. ~AtOp("read")'
      BY <1>3, <3>1, OptionZero
    <3>3. Ready(FALSE, "none")'
      BY <1>4, <2>1, <3>1 DEF Resting, espVars
    <3>4. Plain("AT", 0, FALSE)'
      BY <1>5, <1>6, <3>1, <3>3, PlainBegins
    <3>5. BootTalk'
      BY <3>4 DEF BootTalk
    <3> QED
      BY <3>1, <3>2, <3>5 DEF Talk, FreshK, InMenu
  <2>7. CASE Fetch \/ (\E k \in KeyValues : Press(k)) \/ UNCHANGED vars
    <3>1. UNCHANGED <<pc, count, espVars>>
      BY <2>7 DEF Fetch, Press, vars, menu, run
    <3>2. InMenu'
      BY <2>1, <3>1 DEF InMenu
    <3>3. pc' \in {"hold", "light"} => inbox = <<count'>>
      BY <3>1 DEF Talk
    <3> QED
      BY <2>2, <3>1, <3>2, <3>3
  <2>8. ~Return
    BY <1>8 DEF Return
  <2> QED
    BY <1>2, <1>8, <2>1, <2>3, <2>4, <2>5, <2>6, <2>7, <2>8 DEF Next, Cpu
<1> QED
  BY <1>1, <1>7, <1>8

LEMMA TalkInit == Init => Talk
<1> SUFFICES ASSUME Init PROVE Talk
  OBVIOUS
<1>1. /\ pc = "boot" /\ at = 1 /\ mode = "cmd" /\ line = Empty /\ rem = 0
      /\ job = "none" /\ out = <<>> /\ tcp = FALSE /\ session = "none"
      /\ rx = Empty /\ check = Empty
  BY DEF Init, EspInit
<1>2. Size["AT"] \in Nat /\ Size["AT"] >= 1
  BY SizesNamed
<1>3. Writing("AT", 1)
  <2>1. ~(1 \in 2..Size["AT"] + 1) /\ 1 # Size["AT"] + 2
    BY <1>2
  <2> QED
    BY <1>1, <2>1 DEF Writing
<1>4. Plain("AT", 0, FALSE)
  <2>1. 1 \in 1..Size["AT"] + 2 /\ at = 0 + 1
    BY <1>1, <1>2
  <2> QED
    BY <1>1, <1>3, <2>1 DEF Plain
<1>5. FreshK
  BY <1>1, NoKs DEF FreshK, NotK
<1> QED
  BY <1>1, <1>4, <1>5 DEF Talk, BootTalk, InMenu

\* The byte at hand is one the ESP takes for what it is.
Heard ==
  Script[at].op = "tx" =>
    /\ Arg[1] \in Commands /\ Arg[2] = 1 =>
         mode = "cmd" /\ job = "none" /\ line = Empty
    /\ Arg[1] \in Packets =>
         /\ mode = "data"
         /\ rem = Size[Arg[1]] - Arg[2] + 1
         /\ line = IF Arg[2] = 1 THEN Empty ELSE <<Arg[1], Arg[2] - 1>>

LEMMA OtherHeard ==
  ASSUME \/ Script[at] \in {Tx(CR), Tx(LF), Sleep, Put, Said}
         \/ \E x : Script[at] = Read(x)
         \/ \E t : Script[at] = Show(t)
  PROVE  Heard
<1>1. CASE Script[at] = Tx(CR) \/ Script[at] = Tx(LF)
  <2>1. Arg = CR \/ Arg = LF
    BY <1>1, Fields DEF Arg
  <2>2. Arg[1] \notin Arrays
    BY <2>1, Different
  <2> QED
    BY <2>2 DEF Heard, Arrays
<1>2. CASE ~(Script[at] = Tx(CR) \/ Script[at] = Tx(LF))
  <2>1. Script[at].op # "tx"
    BY <1>2, Fields
  <2> QED
    BY <2>1 DEF Heard
<1> QED
  BY <1>1, <1>2

LEMMA WritingHeard ==
  ASSUME NEW x \in Commands, NEW b \in Nat, NEW i \in 1..Size[x] + 2,
         LineOf(x, Script, b), at = b + i, Writing(x, i)
  PROVE  Heard
<1>1. PICK n \in Nat : n = Size[x]
  BY SizeIs DEF Arrays
<1>2. CASE i \in 1..n
  <2>1. Arg = <<x, i>>
    <3>1. Script[at] = Tx(<<x, i>>)
      BY <1>1, <1>2 DEF LineOf
    <3> QED
      BY <3>1, Fields DEF Arg
  <2>2. Arg[1] = x /\ Arg[2] = i
    BY <2>1
  <2>3. x \notin Packets
    BY ArrayNames DEF Packets, Commands
  <2>4. i = 1 => mode = "cmd" /\ job = "none" /\ line = Empty
    BY DEF Writing
  <2> QED
    BY <2>2, <2>3, <2>4 DEF Heard
<1>3. CASE i = n + 1 \/ i = n + 2
  <2>1. at = b + n + 1 \/ at = b + n + 2
    BY <1>3
  <2>2. Script[at] = Tx(CR) \/ Script[at] = Tx(LF)
    BY <1>1, <2>1 DEF LineOf
  <2> QED
    BY <2>2, OtherHeard
<1>4. i \in 1..n \/ i = n + 1 \/ i = n + 2
  BY <1>1
<1> QED
  BY <1>2, <1>3, <1>4

LEMMA PacketHeard ==
  ASSUME NEW x \in Packets, NEW i \in Nat, InPacket(x, i),
         Script[at] = Tx(<<x, i + 1>>)
  PROVE  Heard
<1>1. Arg = <<x, i + 1>>
  BY Fields DEF Arg
<1>2. Arg[1] = x /\ Arg[2] = i + 1
  BY <1>1
<1>3. x \notin Commands
  BY ArrayNames DEF Packets, Commands
<1>4. PICK n \in Nat : n = Size[x]
  BY SizeIs DEF Arrays
<1>5. mode = "data" /\ rem = n - i /\ (i = 0 => line = Empty)
      /\ (i # 0 => line = <<x, i>>)
  BY <1>4 DEF InPacket
<1>6. n - (i + 1) + 1 = n - i /\ (i + 1) - 1 = i /\ (i + 1 = 1 <=> i = 0)
  BY <1>4
<1>7. rem = Size[x] - (i + 1) + 1
  BY <1>4, <1>5, <1>6
<1>8. line = IF i + 1 = 1 THEN Empty ELSE <<x, (i + 1) - 1>>
  BY <1>5, <1>6
<1> QED
  BY <1>2, <1>3, <1>5, <1>7, <1>8 DEF Heard

LEMMA EchoHeard ==
  ASSUME NEW x \in Packets, NEW b \in Nat, NEW i \in Nat,
         Echoing(x, b, i), EchoOf(x, Script, b)
  PROVE  Heard
<1>1. PICK n \in Nat : n = Size[x]
  BY SizeIs DEF Arrays
<1>2. InPacket(x, i) /\ (at = b + 2 * i + 1 \/ at = b + 2 * i + 2) /\ i < n
  BY <1>1 DEF Echoing, InPacket
<1>3. i + 1 \in 1..Size[x]
  BY <1>1, <1>2
<1>4. /\ b + 2 * (i + 1) - 1 = b + 2 * i + 1
      /\ b + 2 * (i + 1) = b + 2 * i + 2
  OBVIOUS
<1>5. /\ Script[b + 2 * i + 1] = Put
      /\ Script[b + 2 * i + 2] = Tx(<<x, i + 1>>)
  BY <1>3, <1>4 DEF EchoOf
<1> QED
  BY <1>2, <1>5, OtherHeard, PacketHeard

LEMMA PlainHeard ==
  ASSUME NEW x \in Commands, NEW b \in Nat, NEW t, Plain(x, b, t),
         LineOf(x, Script, b), Script[b + Size[x] + 3] = Read(x),
         Script[b + Size[x] + 4] = Sleep
  PROVE  Heard
<1>1. CASE \E i \in 1..Size[x] + 2 : at = b + i /\ Writing(x, i)
  BY <1>1, WritingHeard
<1>2. CASE at \in {b + Size[x] + 3, b + Size[x] + 4}
  BY <1>2, OtherHeard
<1> QED
  BY <1>1, <1>2 DEF Plain

LEMMA AnnouncingHeard ==
  ASSUME NEW x \in Commands, NEW b \in Nat, NEW n, NEW s,
         Announcing(x, b, n, s), LineOf(x, Script, b),
         Script[b + Size[x] + 3] = Sleep
  PROVE  Heard
<1>1. CASE \E i \in 1..Size[x] + 2 : at = b + i /\ Writing(x, i)
  BY <1>1, WritingHeard
<1>2. CASE at = b + Size[x] + 3
  BY <1>2, OtherHeard
<1> QED
  BY <1>1, <1>2 DEF Announcing

LEMMA BootHeard ==
  ASSUME TypeInv, pc = "boot", at <= Len(Script), BootTalk
  PROVE  Heard
<1>1. /\ Script = Boot /\ Len(Script) = MenuAt + 1 /\ at \in Nat
      /\ MenuAt \in Nat /\ CwmodeAt \in Nat /\ CwjapAt \in Nat
  BY ScriptIs, BootPlaces DEF TypeInv
<1>2. PICK n, m, l : n = Size["AT"] /\ m = Size["CWMODE"] /\ l = Size["CWJAP"]
  OBVIOUS
<1>3. n \in Nat /\ m \in Nat /\ l \in Nat
  BY <1>2, SizesNamed
<1>4. CwmodeAt = n + 4 /\ CwjapAt = CwmodeAt + m + 4 /\ MenuAt = CwjapAt + l + 4
  BY <1>2, Zenon DEF CwmodeAt, CwjapAt, MenuAt
<1>5. {"AT", "CWMODE", "CWJAP"} \subseteq Commands
  BY DEF Commands
<1>6. CASE Plain("AT", 0, FALSE)
  <2>1. /\ LineOf("AT", Script, 0) /\ Script[0 + Size["AT"] + 3] = Read("AT")
        /\ Script[0 + Size["AT"] + 4] = Sleep
    <3>1. 0 + n + 3 = n + 3 /\ 0 + n + 4 = CwmodeAt
      BY <1>3, <1>4
    <3> QED
      BY <1>1, <1>2, <3>1, BootIs
  <2> QED
    BY <1>5, <1>6, <2>1, PlainHeard
<1>7. CASE Plain("CWMODE", CwmodeAt, FALSE)
  <2>1. /\ LineOf("CWMODE", Script, CwmodeAt)
        /\ Script[CwmodeAt + Size["CWMODE"] + 3] = Read("CWMODE")
        /\ Script[CwmodeAt + Size["CWMODE"] + 4] = Sleep
    BY <1>1, <1>2, <1>4, BootIs
  <2> QED
    BY <1>1, <1>5, <1>7, <2>1, PlainHeard
<1>8. CASE Plain("CWJAP", CwjapAt, FALSE)
  <2>1. /\ LineOf("CWJAP", Script, CwjapAt)
        /\ Script[CwjapAt + Size["CWJAP"] + 3] = Read("CWJAP")
        /\ Script[CwjapAt + Size["CWJAP"] + 4] = Sleep
    BY <1>1, <1>2, <1>4, BootIs
  <2> QED
    BY <1>1, <1>5, <1>8, <2>1, PlainHeard
<1>9. CASE at > MenuAt
  <2>1. at = MenuAt + 1
    BY <1>1, <1>9
  <2> QED
    BY <1>1, <2>1, BootIs, OtherHeard
<1> QED
  BY <1>6, <1>7, <1>8, <1>9 DEF BootTalk

LEMMA SelectHeard ==
  ASSUME TypeInv, pc = "select", at <= Len(Script), SelectTalk
  PROVE  Heard
<1>1. /\ SelectionIs(Script, count) /\ Len(Script) = SaidAt /\ at \in Nat
      /\ count \in Option
  <2>1. pc # "boot" /\ count \in Option
    BY DEF TypeInv, Placed
  <2> QED
    BY <2>1, ScriptIs, SelectedIs DEF TypeInv
<1>2. PICK n, l, c, d : /\ n = Size["SENDP"] /\ l = Size["SENDD"]
                        /\ c = Size["CIPSTART"] /\ d = Size["SENDC"]
  OBVIOUS
<1>3. PICK e, r : e = Size["connect"] /\ r = Size["disconnect"]
  OBVIOUS
<1>4. n \in Nat /\ l \in Nat /\ c \in Nat /\ d \in Nat /\ e \in Nat /\ r \in Nat
  BY <1>2, <1>3, SizesNamed
<1>5. /\ SendcAt = c + 4 /\ ConnectAt = SendcAt + d + 3
      /\ AnswerAt = ConnectAt + e + 2 /\ SendpAt = AnswerAt + 2
      /\ PublishAt = SendpAt + n + 3
      /\ DisconnectAt = SenddAt + l + 3 /\ SelectRead = c + 3
  BY <1>2, <1>3, Zenon
     DEF SendcAt, ConnectAt, AnswerAt, SendpAt, PublishAt, DisconnectAt,
         SelectRead
<1>6. /\ SendcAt \in Nat /\ ConnectAt \in Nat /\ AnswerAt \in Nat
      /\ SendpAt \in Nat /\ PublishAt \in Nat /\ AfterPublish \in Nat
      /\ SenddAt \in Nat /\ DisconnectAt \in Nat /\ SaidAt \in Nat
      /\ SenddAt = AfterPublish + 3
  BY SelectPlaces, MorePlaces
<1>7. {"CIPSTART", "SENDC", "SENDP", "SENDD"} \subseteq Commands
  BY DEF Commands
<1>8. CASE Plain("CIPSTART", 0, TRUE)
  <2>1. 0 + c + 3 = SelectRead /\ 0 + c + 4 = SendcAt
    BY <1>4, <1>5
  <2>2. /\ LineOf("CIPSTART", Script, 0)
        /\ Script[0 + Size["CIPSTART"] + 3] = Read("CIPSTART")
        /\ Script[0 + Size["CIPSTART"] + 4] = Sleep
    BY <1>1, <1>2, <2>1 DEF SelectionIs
  <2> QED
    BY <1>7, <1>8, <2>2, PlainHeard
<1>9. ASSUME NEW p, NEW s, Announcing("SENDC", SendcAt, p, s) PROVE Heard
  <2>1. /\ LineOf("SENDC", Script, SendcAt)
        /\ Script[SendcAt + Size["SENDC"] + 3] = Sleep
    BY <1>1, <1>2, <1>5 DEF SelectionIs
  <2> QED
    BY <1>6, <1>7, <1>9, <2>1, AnnouncingHeard
<1>10. CASE Connect
  <2>1. LineOf("connect", Script, ConnectAt) /\ "connect" \in Packets
    BY <1>1 DEF SelectionIs, Packets
  <2>2. CASE \E i \in Nat : at = ConnectAt + i + 1 /\ InPacket("connect", i)
    <3>1. PICK i \in Nat : at = ConnectAt + i + 1 /\ InPacket("connect", i)
      BY <2>2
    <3>2. i < e
      BY <1>3, <3>1 DEF InPacket
    <3>3. i + 1 \in 1..Size["connect"] /\ at = ConnectAt + (i + 1)
      BY <1>3, <1>4, <1>6, <3>1, <3>2
    <3>4. Script[at] = Tx(<<"connect", i + 1>>)
      BY <2>1, <3>3 DEF LineOf
    <3> QED
      BY <2>1, <3>1, <3>4, PacketHeard
  <2>3. CASE at \in AnswerAt - 1..AnswerAt + 2
    <3>1. at \in {AnswerAt - 1, AnswerAt, AnswerAt + 1, AnswerAt + 2}
      BY <1>6, <2>3
    <3>2. ConnectAt + e + 1 = AnswerAt - 1 /\ ConnectAt + e + 2 = AnswerAt
      BY <1>4, <1>5, <1>6
    <3>3. Script[AnswerAt - 1] = Tx(CR) /\ Script[AnswerAt] = Tx(LF)
      BY <1>3, <2>1, <3>2 DEF LineOf
    <3>4. /\ Script[AnswerAt + 1] = Show(Answer[count])
          /\ Script[AnswerAt + 2] = Sleep
      BY <1>1, <1>5 DEF SelectionIs
    <3> QED
      BY <3>1, <3>3, <3>4, OtherHeard
  <2> QED
    BY <1>10, <2>2, <2>3 DEF Connect
<1>11. ASSUME NEW p, NEW s, Announcing("SENDP", SendpAt, p, s) PROVE Heard
  <2>1. /\ LineOf("SENDP", Script, SendpAt)
        /\ Script[SendpAt + Size["SENDP"] + 3] = Sleep
    BY <1>1, <1>2, <1>5 DEF SelectionIs
  <2> QED
    BY <1>6, <1>7, <1>11, <2>1, AnnouncingHeard
<1>12. CASE PublishIt
  <2>1. CASE \E i \in Nat : Echoing(Publish(count), PublishAt, i)
    <3>1. /\ Publish(count) \in Packets
          /\ EchoOf(Publish(count), Script, PublishAt)
      BY <1>1, ArrayNames DEF Packets, SelectionIs
    <3> QED
      BY <1>6, <2>1, <3>1, EchoHeard
  <2>2. CASE at \in AfterPublish + 1..AfterPublish + 3
    <3>1. at = AfterPublish + 1 \/ at = AfterPublish + 2 \/ at = SenddAt
      BY <1>6, <2>2
    <3>2. Script[at] \in {Tx(CR), Tx(LF), Sleep}
      BY <1>1, <3>1 DEF SelectionIs
    <3> QED
      BY <3>2, OtherHeard
  <2> QED
    BY <1>12, <2>1, <2>2 DEF PublishIt
<1>13. ASSUME NEW p, NEW s, Announcing("SENDD", SenddAt, p, s) PROVE Heard
  <2>1. /\ LineOf("SENDD", Script, SenddAt)
        /\ Script[SenddAt + Size["SENDD"] + 3] = Sleep
    BY <1>1, <1>2, <1>5 DEF SelectionIs
  <2> QED
    BY <1>6, <1>7, <1>13, <2>1, AnnouncingHeard
<1>14. CASE Disconnect
  <2>1. CASE \E i \in Nat : Echoing("disconnect", DisconnectAt, i)
    <3>1. "disconnect" \in Packets /\ EchoOf("disconnect", Script, DisconnectAt)
      BY <1>1 DEF Packets, SelectionIs
    <3> QED
      BY <1>6, <2>1, <3>1, EchoHeard
  <2>2. CASE at \in SaidAt - 3..SaidAt - 1
    <3>1. at = SaidAt - 3 \/ at = SaidAt - 2 \/ at = SaidAt - 1
      <4>1. PICK q \in Nat : q = SaidAt
        BY <1>6
      <4>2. at \in q - 3..q - 1
        BY <2>2, <4>1
      <4>3. at = q - 3 \/ at = q - 2 \/ at = q - 1
        BY <4>2
      <4> QED
        BY <4>1, <4>3
    <3>2. Script[at] \in {Tx(CR), Tx(LF), Sleep}
      BY <1>1, <3>1 DEF SelectionIs
    <3> QED
      BY <3>2, OtherHeard
  <2> QED
    BY <1>14, <2>1, <2>2 DEF Disconnect
<1>15. CASE at >= SaidAt
  <2>1. at = SaidAt
    BY <1>1, <1>6, <1>15
  <2>2. Script[at] = Said
    BY <1>1, <2>1 DEF SelectionIs
  <2> QED
    BY <2>2, OtherHeard
<1> QED
  BY <1>8, <1>9, <1>10, <1>11, <1>12, <1>13, <1>14, <1>15 DEF SelectTalk

LEMMA TalkIs ==
  ASSUME TypeInv, Talk
  PROVE  DialogueInStep /\ OkIsFresh /\ MessageSentIsTrue /\ MenuIsOffline
<1>1. CommandsAreHeard /\ PacketsAreData
  <2>1. CASE AtOp("tx")
    <3>1. Heard
      <4>1. CASE pc = "boot"
        BY <2>1, <4>1, BootHeard DEF AtOp, Talk
      <4>2. CASE pc = "select"
        BY <2>1, <4>2, SelectHeard DEF AtOp, Talk
      <4> QED
        BY <2>1, <4>1, <4>2 DEF AtOp, Running
    <3> QED
      BY <2>1, <3>1 DEF Heard, AtOp, CommandsAreHeard, PacketsAreData
  <2>2. CASE ~AtOp("tx")
    BY <2>2 DEF CommandsAreHeard, PacketsAreData
  <2> QED
    BY <2>1, <2>2
<1>2. OkIsFresh
  BY DEF Talk, FreshK, OkIsFresh
<1>3. MessageSentIsTrue
  <2>1. ASSUME said, pc = "select" PROVE inbox = <<count>>
    <3>1. SelectTalk /\ ~(at <= SaidAt)
      BY <2>1 DEF Talk
    <3>2. at \in Nat /\ count \in Option /\ SaidAt \in Nat
      BY ScriptIs, SelectPlaces DEF TypeInv, Placed
    <3>3. at >= SaidAt
      BY <3>1, <3>2
    <3> QED
      BY <3>1, <3>2, <3>3, SelectRests
  <2> QED
    BY <2>1 DEF MessageSentIsTrue, Talk
<1>4. MenuIsOffline
  BY DEF Talk, InMenu, Resting, Ready, Link, MenuIsOffline
<1> QED
  BY <1>1, <1>2, <1>3, <1>4, TypeInvTypes DEF DialogueInStep

LEMMA TalkAlways ==
  ASSUME Online
  PROVE  Spec => [](DialogueInStep /\ OkIsFresh /\ MessageSentIsTrue
                    /\ MenuIsOffline)
<1>1. Init => TypeInv /\ LateInv /\ Talk
  BY TypeInit, LateInit, TalkInit
<1>2. TypeInv /\ LateInv /\ Talk /\ [Next]_vars => (TypeInv /\ LateInv /\ Talk)'
  BY TypeStep, LateStep, TalkStep
<1>3. TypeInv /\ LateInv /\ Talk =>
        DialogueInStep /\ OkIsFresh /\ MessageSentIsTrue /\ MenuIsOffline
  BY TalkIs
<1> QED
  BY <1>1, <1>2, <1>3, PTL DEF Spec

\* Online, program and ESP8266 agree at every byte whether it belongs to a
\* command or to a packet, and to which place of it.
THEOREM DialogueInStepAlways == Online => (Spec => []DialogueInStep)
<1> SUFFICES ASSUME Online PROVE Spec => []DialogueInStep
  OBVIOUS
<1>1. Spec => [](DialogueInStep /\ OkIsFresh /\ MessageSentIsTrue
                /\ MenuIsOffline)
  BY TalkAlways
<1> QED
  BY <1>1, PTL

\* Online, readUart leaves its loop only on the 'K' of the command just written.
THEOREM OkIsFreshAlways == Online => (Spec => []OkIsFresh)
<1> SUFFICES ASSUME Online PROVE Spec => []OkIsFresh
  OBVIOUS
<1>1. Spec => [](DialogueInStep /\ OkIsFresh /\ MessageSentIsTrue
                /\ MenuIsOffline)
  BY TalkAlways
<1> QED
  BY <1>1, PTL

\* Online, "Message sent" is printed only when the broker has got one publish of
\* the option on the display.
THEOREM MessageSentIsTrueAlways == Online => (Spec => []MessageSentIsTrue)
<1> SUFFICES ASSUME Online PROVE Spec => []MessageSentIsTrue
  OBVIOUS
<1>1. Spec => [](DialogueInStep /\ OkIsFresh /\ MessageSentIsTrue
                /\ MenuIsOffline)
  BY TalkAlways
<1> QED
  BY <1>1, PTL

\* Online, the menu is never left holding a connection.
THEOREM MenuIsOfflineAlways == Online => (Spec => []MenuIsOffline)
<1> SUFFICES ASSUME Online PROVE Spec => []MenuIsOffline
  OBVIOUS
<1>1. Spec => [](DialogueInStep /\ OkIsFresh /\ MessageSentIsTrue
                /\ MenuIsOffline)
  BY TalkAlways
<1> QED
  BY <1>1, PTL
=============================================================================

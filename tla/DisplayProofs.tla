---------------------------- MODULE DisplayProofs ----------------------------
(***************************************************************************)
(* For every set of texts that fit on the display and every number of      *)
(* resets, at whatever point: the controller misses nothing but function   *)
(* sets, the glass never shows anything but the beginning of one text, and *)
(* when imprime returns it shows its text.                                 *)
(*                                                                         *)
(* All of them need what the registers still hold, which the controller    *)
(* takes one call late: where the routine is tells what that is (Place).   *)
(* The first is then a matter of time: what the controller is still busy   *)
(* with at each place of initialize_Lcd (Timed).  For the other two, a     *)
(* character in the registers is the one that continues the text on the    *)
(* glass (Continued), whether or not the routine it came from still runs.  *)
(***************************************************************************)
EXTENDS Display, SequenceTheorems, TLAPS

Call == [wait : Nat, op : Operand]

LEMMA Operands ==
  /\ \A i \in Instr : Cmd(i) \in Operand /\ Cmd(i).rs = 0 /\ Cmd(i).byte = i
  /\ \A c \in Chars : Data(c) \in Operand /\ Data(c).rs = 1 /\ Data(c).byte = c
  /\ \A c : Data(c).rs = 1
BY DEF Cmd, Data, Operand

LEMMA Calls ==
  \A w \in Nat, o \in Operand : /\ After(w, o) \in Call
                                /\ After(w, o).wait = w /\ After(w, o).op = o
BY DEF After, Call

\* The same, for the proofs about one routine.
LEMMA Instructions ==
  /\ "function_set" \in Instr /\ "display_off" \in Instr
  /\ "display_on" \in Instr /\ "entry_mode" \in Instr /\ "home" \in Instr
  /\ "clear" \in Instr /\ "none" \in Instr
BY DEF Instr

LEMMA TextChars ==
  ASSUME NEW t \in Texts
  PROVE  /\ Len(t) \in Nat /\ Len(t) \in 1..Cells /\ Cells \in Nat
         /\ t # <<>>
         /\ \A i \in 1..Len(t) : t[i] \in Chars
BY DisplayAssumption DEF Chars

LEMMA Sizes == Cells \in Nat /\ Cells >= 1
BY DisplayAssumption

\* What is left of a sequence, and what it begins with.
LEMMA TailFacts ==
  ASSUME NEW S, NEW s \in Seq(S), s # <<>>
  PROVE  /\ Tail(s) \in Seq(S) /\ Len(s) \in Nat /\ Len(s) >= 1
         /\ Len(Tail(s)) = Len(s) - 1 /\ Head(s) = s[1] /\ Head(s) \in S
         /\ \A i \in 1..Len(s) - 1 : Tail(s)[i] = s[i + 1]
OBVIOUS

\* The two routines, call by call.
LEMMA InitializeIs ==
  /\ initialize_Lcd \in Seq(Call) /\ Len(initialize_Lcd) = 9
  /\ initialize_Lcd[1] = After(15000, Cmd("function_set"))
  /\ initialize_Lcd[2] = After(4100, Cmd("function_set"))
  /\ initialize_Lcd[3] = After(100, Cmd("function_set"))
  /\ initialize_Lcd[4] = After(5000, Cmd("function_set"))
  /\ initialize_Lcd[5] = After(100, Cmd("display_off"))
  /\ initialize_Lcd[6] = After(100, Cmd("display_on"))
  /\ initialize_Lcd[7] = After(100, Cmd("entry_mode"))
  /\ initialize_Lcd[8] = After(100, Cmd("home"))
  /\ initialize_Lcd[9] = After(2000, Cmd("clear"))
<1>1. /\ After(15000, Cmd("function_set")) \in Call
      /\ After(4100, Cmd("function_set")) \in Call
      /\ After(100, Cmd("function_set")) \in Call
      /\ After(5000, Cmd("function_set")) \in Call
      /\ After(100, Cmd("display_off")) \in Call
      /\ After(100, Cmd("display_on")) \in Call
      /\ After(100, Cmd("entry_mode")) \in Call
      /\ After(100, Cmd("home")) \in Call
      /\ After(2000, Cmd("clear")) \in Call
  BY Operands, Calls, Instructions
<1> QED
  BY <1>1 DEF initialize_Lcd

Clearing   == << After(2000, Cmd("home")), After(2000, Cmd("clear")) >>
Writing(t) == [i \in 1..Len(t) |-> After(2000, Data(t[i]))]
Flushing   == << After(2000, Cmd("none")) >>

LEMMA ImprimeIs ==
  ASSUME NEW t \in Texts
  PROVE  /\ imprime(t) \in Seq(Call) /\ Len(imprime(t)) = Len(t) + 3
         /\ imprime(t)[1] = After(2000, Cmd("home"))
         /\ imprime(t)[2] = After(2000, Cmd("clear"))
         /\ \A i \in 1..Len(t) : imprime(t)[i + 2] = After(2000, Data(t[i]))
         /\ imprime(t)[Len(t) + 3] = After(2000, Cmd("none"))
<1>a. PICK a : a = Clearing
  OBVIOUS
<1>b. PICK b : b = Writing(t)
  OBVIOUS
<1>c. PICK c : c = Flushing
  OBVIOUS
<1>1. /\ a \in Seq(Call) /\ Len(a) = 2
      /\ a[1] = After(2000, Cmd("home")) /\ a[2] = After(2000, Cmd("clear"))
  <2>1. /\ After(2000, Cmd("home")) \in Call
        /\ After(2000, Cmd("clear")) \in Call
    BY Operands, Calls, Instructions
  <2> QED
    BY <1>a, <2>1 DEF Clearing
<1>2. /\ b \in Seq(Call) /\ Len(b) = Len(t)
      /\ \A i \in 1..Len(t) : b[i] = After(2000, Data(t[i]))
  <2>1. \A i \in 1..Len(t) : After(2000, Data(t[i])) \in Call
    BY TextChars, Operands, Calls
  <2>2. Len(t) \in Nat
    BY TextChars
  <2> QED
    BY <1>b, <2>1, <2>2 DEF Writing
<1>3. c \in Seq(Call) /\ Len(c) = 1 /\ c[1] = After(2000, Cmd("none"))
  <2>1. After(2000, Cmd("none")) \in Call
    BY Operands, Calls, Instructions
  <2> QED
    BY <1>c, <2>1 DEF Flushing
<1>4. imprime(t) = (a \o b) \o c
  BY <1>a, <1>b, <1>c DEF imprime, Clearing, Writing, Flushing
<1>5. /\ a \o b \in Seq(Call) /\ Len(a \o b) = Len(t) + 2
      /\ \A i \in 1..Len(t) + 2 :
           (a \o b)[i] = IF i <= 2 THEN a[i] ELSE b[i - 2]
  <2>1. /\ a \o b \in Seq(Call) /\ Len(a \o b) = Len(a) + Len(b)
        /\ \A i \in 1..Len(a) + Len(b) :
             (a \o b)[i] = IF i <= Len(a) THEN a[i] ELSE b[i - Len(a)]
    <3>1. a \in Seq(Call) /\ b \in Seq(Call)
      BY <1>1, <1>2
    <3> QED
      BY <3>1, ConcatProperties
  <2> QED
    BY <1>1, <1>2, <2>1, TextChars
<1>d. PICK d : d = a \o b
  OBVIOUS
<1>6. /\ d \o c \in Seq(Call) /\ Len(d \o c) = Len(t) + 3
      /\ \A i \in 1..Len(t) + 3 :
           (d \o c)[i] = IF i <= Len(t) + 2 THEN d[i] ELSE c[i - (Len(t) + 2)]
  <2>1. /\ d \o c \in Seq(Call) /\ Len(d \o c) = Len(d) + Len(c)
        /\ \A i \in 1..Len(d) + Len(c) :
             (d \o c)[i] = IF i <= Len(d) THEN d[i] ELSE c[i - Len(d)]
    <3>1. d \in Seq(Call) /\ c \in Seq(Call)
      BY <1>3, <1>5, <1>d
    <3> QED
      BY <3>1, ConcatProperties
  <2> QED
    BY <1>3, <1>5, <1>d, <2>1, TextChars
<1>r. PICK r : r = imprime(t)
  OBVIOUS
<1>7. /\ r \in Seq(Call) /\ Len(r) = Len(t) + 3
      /\ \A i \in 1..Len(t) + 2 : r[i] = IF i <= 2 THEN a[i] ELSE b[i - 2]
      /\ r[Len(t) + 3] = c[1]
  BY <1>d, <1>r, <1>4, <1>5, <1>6, TextChars
<1>8. /\ r[1] = After(2000, Cmd("home")) /\ r[2] = After(2000, Cmd("clear"))
      /\ \A i \in 1..Len(t) : r[i + 2] = After(2000, Data(t[i]))
      /\ r[Len(t) + 3] = After(2000, Cmd("none"))
  <2>1. Len(t) \in Nat /\ Len(t) >= 1
    BY TextChars
  <2>2. r[1] = a[1] /\ r[2] = a[2]
    BY <1>7, <2>1
  <2>3. \A i \in 1..Len(t) : r[i + 2] = b[i]
    BY <1>7, <2>1
  <2> QED
    BY <1>1, <1>2, <1>3, <1>7, <2>2, <2>3
<1> QED
  BY <1>r, <1>7, <1>8
-----------------------------------------------------------------------------
LEMMA LongIs == Long = 30000 /\ Long \in Nat
BY DEF Long

\* The microseconds are counted up to Long and stay there.
LEMMA Capped ==
  ASSUME NEW l \in Nat, NEW e \in 0..l, NEW w \in Nat
  PROVE  (IF e + w > l THEN l ELSE e + w) \in 0..l
OBVIOUS

LEMMA LastsNat == \A w \in Nat : Lasts(w) \in Nat
BY DEF Lasts

LEMMA TypeNumbers ==
  ASSUME DisplayTypeOK
  PROVE  /\ elapsed \in 0..Long /\ elapsed \in Nat /\ elapsed <= Long
         /\ cursor \in 0..Cells - 1
         /\ need \in {37, 100, 1520, 4100, PowerUpTime} /\ resets \in 0..MaxResets
         /\ script \in Seq(Call) /\ lcd_port \in Operand /\ lcd_en \in {0, 1}
         /\ sets \in 0..2 /\ lost \subseteq Operand /\ slept \in BOOLEAN
         /\ goal \in Texts \cup {<<>>}
<1>1. elapsed \in 0..Long
  BY DEF DisplayTypeOK
<1>2. elapsed \in Nat /\ elapsed <= Long
  BY <1>1, LongIs
<1>3. /\ cursor \in 0..Cells - 1
      /\ need \in {37, 100, 1520, 4100, PowerUpTime} /\ resets \in 0..MaxResets
      /\ script \in Seq(Call) /\ lcd_port \in Operand /\ lcd_en \in {0, 1}
      /\ sets \in 0..2 /\ lost \subseteq Operand /\ slept \in BOOLEAN
      /\ goal \in Texts \cup {<<>>}
  BY DEF DisplayTypeOK, Call
<1> QED
  BY <1>1, <1>2, <1>3

LEMMA TakeTypes ==
  ASSUME DisplayTypeOK, Take(lcd_port)
  PROVE  /\ ddram' \in [0..Cells - 1 -> Chars \cup {Space}]
         /\ cursor' \in 0..Cells - 1 /\ on' \in BOOLEAN /\ inc' \in BOOLEAN
         /\ need' \in {37, 100, 1520, 4100, PowerUpTime} /\ sets' \in 0..2
<1>1. ddram' \in [0..Cells - 1 -> Chars \cup {Space}]
  BY DEF DisplayTypeOK, Take, Operand, Empty
<1>2. cursor' \in 0..Cells - 1
  <2>1. \A x \in Int : x % Cells \in 0..Cells - 1
    BY Sizes
  <2>2. cursor + 1 \in Int /\ cursor - 1 \in Int
    BY Sizes, TypeNumbers
  <2>3. \/ cursor' = 0
        \/ cursor' = cursor
        \/ cursor' = (cursor + 1) % Cells
        \/ cursor' = (cursor - 1) % Cells
    <3>1. cursor' = IF lcd_port.rs = 1
                    THEN (IF inc THEN cursor + 1 ELSE cursor - 1) % Cells
                    ELSE IF lcd_port.byte \in {"clear", "home"} THEN 0 ELSE cursor
      BY DEF Take
    <3>2. CASE lcd_port.rs = 1 /\ inc
      BY <3>1, <3>2
    <3>3. CASE lcd_port.rs = 1 /\ ~inc
      BY <3>1, <3>3
    <3>4. CASE lcd_port.rs # 1
      BY <3>1, <3>4
    <3> QED
      BY <3>2, <3>3, <3>4
  <2>4. 0 \in 0..Cells - 1 /\ cursor \in 0..Cells - 1
    BY Sizes, TypeNumbers
  <2> QED
    BY <2>1, <2>2, <2>3, <2>4, Zenon
<1>3. on' \in BOOLEAN
  <2>1. \/ on' = (lcd_port.byte = "display_on")
        \/ on' = on
    BY Zenon DEF Take
  <2>2. on \in BOOLEAN
    BY DEF DisplayTypeOK
  <2> QED
    BY <2>1, <2>2
<1>4. inc' \in BOOLEAN
  BY DEF DisplayTypeOK, Take
<1>5. need' \in {37, 100, 1520, 4100, PowerUpTime}
  <2>1. /\ FunctionSetTime[0] = 4100 /\ FunctionSetTime[1] = 100
        /\ FunctionSetTime[2] = 37
    BY DEF FunctionSetTime
  <2>2. sets = 0 \/ sets = 1 \/ sets = 2
    BY DEF DisplayTypeOK
  <2>3. ExecTime(lcd_port) \in {37, 100, 1520, 4100}
    BY <2>1, <2>2 DEF ExecTime
  <2> QED
    BY <2>3 DEF Take
<1>6. sets' \in 0..2
  BY DEF DisplayTypeOK, Take
<1> QED
  BY <1>1, <1>2, <1>3, <1>4, <1>5, <1>6

(* Every variable of the display path keeps its type, for any texts.        *)
THEOREM TypeCorrect == DisplaySpec => []DisplayTypeOK
<1>1. DisplayInit => DisplayTypeOK
  <2> SUFFICES ASSUME DisplayInit PROVE DisplayTypeOK
    OBVIOUS
  <2>1. script \in Seq(Call) /\ lcd_port \in Operand
    BY InitializeIs, Operands, Instructions DEF DisplayInit
  <2>2. /\ ddram \in [0..Cells - 1 -> Chars \cup {Space}]
        /\ cursor \in 0..Cells - 1
    BY Sizes DEF DisplayInit, Empty
  <2> QED
    BY <2>1, <2>2, DisplayAssumption DEF DisplayInit, DisplayTypeOK, Call, Long
<1>2. DisplayTypeOK /\ [DisplayNext]_displayVars => DisplayTypeOK'
  <2> SUFFICES ASSUME DisplayTypeOK, [DisplayNext]_displayVars PROVE DisplayTypeOK'
    OBVIOUS
  <2>0. script \in Seq(Call)
    BY DEF DisplayTypeOK, Call
  <2>1. CASE Usleep
    <3>1. Head(script) \in Call
      BY <2>0, <2>1, TailFacts DEF Usleep
    <3>w. PICK w : w = Lasts(Head(script).wait)
      OBVIOUS
    <3>2. w \in Nat
      BY <3>w, <3>1, LastsNat DEF Call
    <3>3. elapsed' = IF elapsed + w > Long THEN Long ELSE elapsed + w
      BY <2>1, <3>w DEF Usleep
    <3>4. elapsed' \in 0..Long
      <4>1. elapsed \in 0..Long
        BY TypeNumbers
      <4>2. Long \in Nat
        BY LongIs
      <4>3. (IF elapsed + w > Long THEN Long ELSE elapsed + w) \in 0..Long
        BY <3>2, <4>1, <4>2, Capped
      <4> QED
        BY <3>3, <4>3, Zenon
    <3> QED
      BY <2>1, <3>4 DEF Usleep, DisplayTypeOK, lcd
  <2>f. ASSUME Fall \/ UNCHANGED <<elapsed, lcd>>
        PROVE  /\ elapsed' \in 0..Long
               /\ ddram' \in [0..Cells - 1 -> Chars \cup {Space}]
               /\ cursor' \in 0..Cells - 1
               /\ on' \in BOOLEAN /\ inc' \in BOOLEAN
               /\ need' \in {37, 100, 1520, 4100, PowerUpTime}
               /\ sets' \in 0..2 /\ lost' \subseteq Operand
    <3>1. elapsed' \in 0..Long
      <4>1. elapsed' = 0 \/ elapsed' = elapsed
        BY <2>f DEF Fall
      <4> QED
        BY <4>1, TypeNumbers, LongIs
    <3>2. lost' \subseteq Operand
      <4>1. lost' = lost \cup {lcd_port} \/ lost' = lost
        BY <2>f DEF Fall, lcd
      <4> QED
        BY <4>1, TypeNumbers
    <3>3. CASE Take(lcd_port)
      BY <3>1, <3>2, <3>3, TakeTypes
    <3>4. CASE UNCHANGED <<ddram, cursor, on, inc, need, sets>>
      BY <3>1, <3>2, <3>4 DEF DisplayTypeOK
    <3> QED
      BY <2>f, <3>3, <3>4 DEF Fall, lcd
  <2>2. CASE AltCi
    <3>1. Tail(script) \in Seq(Call) /\ Head(script) \in Call
      BY <2>0, <2>2, TailFacts DEF AltCi
    <3>2. script' \in Seq(Call) /\ lcd_port' \in Operand
      BY <2>2, <3>1 DEF AltCi, Call
    <3>3. Fall \/ UNCHANGED <<elapsed, lcd>>
      BY <2>2 DEF AltCi
    <3> QED
      <4>1. /\ slept' = FALSE /\ lcd_en' = 1 /\ goal' = goal
            /\ resets' = resets
        BY <2>2 DEF AltCi
      <4>2. slept' \in BOOLEAN /\ lcd_en' \in {0, 1}
        BY <4>1
      <4>3. goal' \in Texts \cup {<<>>} /\ resets' \in 0..MaxResets
        <5>1. goal \in Texts \cup {<<>>} /\ resets \in 0..MaxResets
          BY DEF DisplayTypeOK
        <5> QED
          BY <4>1, <5>1, Zenon
      <4>4. /\ elapsed' \in 0..Long
            /\ ddram' \in [0..Cells - 1 -> Chars \cup {Space}]
            /\ cursor' \in 0..Cells - 1
            /\ on' \in BOOLEAN /\ inc' \in BOOLEAN
            /\ need' \in {37, 100, 1520, 4100, PowerUpTime}
            /\ sets' \in 0..2 /\ lost' \subseteq Operand
        BY <2>f, <3>3
      <4> QED
        BY <3>2, <4>2, <4>3, <4>4 DEF DisplayTypeOK, Call
  <2>3. ASSUME NEW t \in Texts, Imprime(t) PROVE DisplayTypeOK'
    <3>1. script' \in Seq(Call)
      BY <2>3, ImprimeIs DEF Imprime
    <3> QED
      BY <2>3, <3>1 DEF Imprime, DisplayTypeOK, Call, regs, lcd
  <2>4. CASE CpuReset
    <3>1. script' \in Seq(Call)
      BY <2>4, InitializeIs DEF CpuReset, Restart
    <3> QED
      BY <2>4, <3>1, DisplayAssumption
         DEF CpuReset, Restart, DisplayTypeOK, Call, regs, lcd
  <2>5. CASE ResetInCall
    <3>1. script' \in Seq(Call) /\ lcd_port' \in Operand
      BY <2>5, InitializeIs, Operands, Instructions DEF ResetInCall, Restart
    <3>2. Fall \/ UNCHANGED <<elapsed, lcd>>
      BY <2>5 DEF ResetInCall
    <3> QED
      <4>1. /\ slept' = FALSE /\ lcd_en' = 1 /\ goal' = <<>>
            /\ resets < MaxResets /\ resets' = resets + 1
        BY <2>5 DEF ResetInCall, Restart
      <4>2. resets' \in 0..MaxResets
        BY <4>1, DisplayAssumption, TypeNumbers
      <4>3. /\ slept' \in BOOLEAN /\ lcd_en' \in {0, 1}
            /\ goal' \in Texts \cup {<<>>}
        BY <4>1
      <4>4. /\ elapsed' \in 0..Long
            /\ ddram' \in [0..Cells - 1 -> Chars \cup {Space}]
            /\ cursor' \in 0..Cells - 1
            /\ on' \in BOOLEAN /\ inc' \in BOOLEAN
            /\ need' \in {37, 100, 1520, 4100, PowerUpTime}
            /\ sets' \in 0..2 /\ lost' \subseteq Operand
        BY <2>f, <3>2
      <4> QED
        BY <3>1, <4>2, <4>3, <4>4 DEF DisplayTypeOK, Call
  <2>6. CASE UNCHANGED displayVars
    BY <2>6 DEF displayVars, DisplayTypeOK
  <2> QED
    BY <2>1, <2>2, <2>3, <2>4, <2>5, <2>6 DEF DisplayNext, Processor
<1> QED
  BY <1>1, <1>2, PTL DEF DisplaySpec
-----------------------------------------------------------------------------
(* Where the routine is.                                                    *)

Routine == IF goal = <<>> THEN initialize_Lcd ELSE imprime(goal)
Done    == Len(Routine) - Len(script)

\* What is left to do is the end of the routine.
Follows ==
  /\ Len(script) <= Len(Routine)
  /\ \A i \in 1..Len(script) : script[i] = Routine[Done + i]

\* The registers hold the call made last.
Behind ==
  /\ Done >= 1 \/ goal # <<>> => lcd_en = 1
  /\ Done >= 1 => lcd_port = Routine[Done].op
  /\ Done = 0 /\ goal # <<>> => lcd_port \in {Cmd("none"), Cmd("clear")}

Place == Follows /\ Behind

Switches == {Cmd("display_on"), Cmd("display_off")}

LEMMA OperandsDiffer ==
  /\ \A i : Cmd(i).rs = 0 /\ Cmd(i).byte = i
  /\ \A c : Data(c).rs = 1 /\ Data(c).byte = c
  /\ \A i : i \notin {"display_on", "display_off"} => Cmd(i) \notin Switches
  /\ \A c : Data(c) \notin Switches
<1>1. \A i : Cmd(i).rs = 0 /\ Cmd(i).byte = i
  BY DEF Cmd
<1>2. \A c : Data(c).rs = 1 /\ Data(c).byte = c
  BY DEF Data
<1>3. \A x \in Switches : x.rs = 0 /\ x.byte \in {"display_on", "display_off"}
  BY <1>1 DEF Switches
<1> QED
  BY <1>1, <1>2, <1>3

LEMMA InitializeOps ==
  /\ Len(initialize_Lcd) = 9
  /\ \A i \in 1..9 : initialize_Lcd[i].op.rs = 0
  /\ initialize_Lcd[6].op = Cmd("display_on")
  /\ \A i \in 7..9 : initialize_Lcd[i].op \notin Switches
  /\ initialize_Lcd[9].op = Cmd("clear")
<1>s. PICK s : s = initialize_Lcd
  OBVIOUS
<1>1. \A w, o : After(w, o).op = o
  BY DEF After
<1>2. /\ s[1].op = Cmd("function_set") /\ s[2].op = Cmd("function_set")
      /\ s[3].op = Cmd("function_set") /\ s[4].op = Cmd("function_set")
      /\ s[5].op = Cmd("display_off") /\ s[6].op = Cmd("display_on")
      /\ s[7].op = Cmd("entry_mode") /\ s[8].op = Cmd("home")
      /\ s[9].op = Cmd("clear")
  BY <1>s, <1>1, InitializeIs
<1>3. ASSUME NEW i \in 1..9 PROVE s[i].op.rs = 0
  <2>1. i \in {1, 2, 3, 4, 5, 6, 7, 8, 9}
    BY <1>3
  <2> QED
    BY <1>2, <2>1, OperandsDiffer
<1>4. ASSUME NEW i \in 7..9 PROVE s[i].op \notin Switches
  <2>1. i \in {7, 8, 9}
    BY <1>4
  <2> QED
    BY <1>2, <2>1, OperandsDiffer
<1>5. Len(s) = 9
  BY <1>s, InitializeIs
<1> QED
  BY <1>s, <1>2, <1>3, <1>4, <1>5

LEMMA ImprimeOps ==
  ASSUME NEW t \in Texts
  PROVE  /\ Len(imprime(t)) = Len(t) + 3
         /\ imprime(t)[1].op = Cmd("home")
         /\ imprime(t)[2].op = Cmd("clear")
         /\ \A i \in 3..Len(t) + 2 : imprime(t)[i].op = Data(t[i - 2])
         /\ imprime(t)[Len(t) + 3].op = Cmd("none")
         /\ \A i \in 1..Len(t) + 3 : imprime(t)[i].op \notin Switches
<1>s. PICK s : s = imprime(t)
  OBVIOUS
<1>n. PICK n : n = Len(t)
  OBVIOUS
<1>0. n \in Nat /\ n >= 1
  BY <1>n, TextChars
<1>1. \A w, o : After(w, o).op = o
  BY DEF After
<1>2. /\ Len(s) = n + 3
      /\ s[1].op = Cmd("home") /\ s[2].op = Cmd("clear")
      /\ \A i \in 1..n : s[i + 2].op = Data(t[i])
      /\ s[n + 3].op = Cmd("none")
  <2>1. /\ Len(s) = n + 3
        /\ s[1] = After(2000, Cmd("home")) /\ s[2] = After(2000, Cmd("clear"))
        /\ \A i \in 1..n : s[i + 2] = After(2000, Data(t[i]))
        /\ s[n + 3] = After(2000, Cmd("none"))
    BY <1>s, <1>n, ImprimeIs
  <2>2. \A i \in 1..n : s[i + 2].op = Data(t[i])
    <3>1. \A i \in 1..n : After(2000, Data(t[i])).op = Data(t[i])
      BY <1>1
    <3> QED
      BY <2>1, <3>1
  <2>3. s[1].op = Cmd("home") /\ s[2].op = Cmd("clear")
    BY <1>1, <2>1
  <2>4. s[n + 3].op = Cmd("none")
    BY <1>1, <2>1
  <2> QED
    BY <2>1, <2>2, <2>3, <2>4
<1>3. ASSUME NEW i \in 3..n + 2 PROVE s[i].op = Data(t[i - 2])
  <2>1. i - 2 \in 1..n /\ (i - 2) + 2 = i
    BY <1>0, <1>3
  <2> QED
    BY <1>2, <2>1
<1>4. ASSUME NEW i \in 1..n + 3 PROVE s[i].op \notin Switches
  <2>1. i = 1 \/ i = 2 \/ i \in 3..n + 2 \/ i = n + 3
    BY <1>0, <1>4
  <2> QED
    BY <1>2, <1>3, <2>1, OperandsDiffer
<1> QED
  BY <1>s, <1>n, <1>2, <1>3, <1>4


\* How far the routine is, in numbers.
LEMMA DoneIs ==
  ASSUME DisplayTypeOK, Place
  PROVE  /\ Done \in Nat /\ Len(script) \in Nat
         /\ goal = <<>> => Routine = initialize_Lcd /\ Len(script) = 9 - Done /\ Done <= 9
         /\ goal # <<>> => /\ goal \in Texts /\ Routine = imprime(goal)
                           /\ Len(script) = Len(goal) + 3 - Done
                           /\ Len(goal) \in Nat /\ Len(goal) >= 1 /\ Len(goal) <= Cells
                           /\ Done <= Len(goal) + 3
         /\ script # <<>> <=> Len(script) >= 1
         /\ script # <<>> => /\ script[1] = Routine[Done + 1] /\ Head(script) = script[1]
                             /\ Head(script) \in Call
<1>1. script \in Seq(Call) /\ goal \in Texts \cup {<<>>}
  BY TypeNumbers
<1>2. Len(script) \in Nat /\ (script # <<>> <=> Len(script) >= 1)
  BY <1>1
<1>3. script # <<>> => Head(script) = script[1] /\ Head(script) \in Call
  BY <1>1, TailFacts
<1>4. PICK n \in Nat : n = Len(script)
  BY <1>2
<1>5. PICK r : r = Routine
  OBVIOUS
<1>6. Done = Len(r) - n /\ n <= Len(r) /\ \A i \in 1..n : script[i] = r[(Len(r) - n) + i]
  BY <1>4, <1>5 DEF Place, Follows, Done
<1>7. CASE goal = <<>>
  <2>1. r = initialize_Lcd /\ Len(r) = 9
    BY <1>5, <1>7, InitializeOps DEF Routine
  <2> QED
    BY <1>2, <1>3, <1>4, <1>5, <1>6, <1>7, <2>1
<1>8. CASE goal # <<>>
  <2>1. /\ goal \in Texts /\ r = imprime(goal) /\ Len(r) = Len(goal) + 3
        /\ Len(goal) \in Nat /\ Len(goal) >= 1 /\ Len(goal) <= Cells
    BY <1>1, <1>5, <1>8, ImprimeOps, TextChars DEF Routine
  <2>2. PICK m \in Nat : m = Len(goal)
    BY <2>1
  <2> QED
    BY <1>2, <1>3, <1>4, <1>5, <1>6, <1>8, <2>1, <2>2
<1> QED
  BY <1>7, <1>8

LEMMA PlaceCall ==
  ASSUME DisplayTypeOK, Place, AltCi
  PROVE  /\ Place' /\ Routine' = Routine /\ Done' = Done + 1
         /\ lcd_port' = Routine[Done + 1].op
<1>r. PICK r : r = Routine
  OBVIOUS
<1>k. PICK k \in Nat : k = Done
  BY DoneIs
<1>0. /\ script \in Seq(Call) /\ script # <<>> /\ goal' = goal
      /\ script' = Tail(script) /\ lcd_port' = Head(script).op /\ lcd_en' = 1
  BY TypeNumbers DEF AltCi
<1>1. /\ Tail(script) \in Seq(Call) /\ Len(script) \in Nat
      /\ Len(script) >= 1 /\ Len(Tail(script)) = Len(script) - 1
      /\ Head(script) = script[1]
      /\ \A i \in 1..Len(script) - 1 : Tail(script)[i] = script[i + 1]
  BY <1>0, TailFacts
<1>2. /\ k = Len(r) - Len(script) /\ Len(script) <= Len(r) /\ Len(r) \in Nat
      /\ \A i \in 1..Len(script) : script[i] = r[k + i]
  <2>1. Len(r) \in Nat
    BY <1>r, DoneIs, InitializeOps, ImprimeOps
  <2> QED
    BY <1>r, <1>k, <2>1 DEF Place, Follows, Done
<1>4. Routine' = r
  BY <1>r, <1>0 DEF Routine
<1>5. Done' = k + 1
  BY <1>0, <1>1, <1>2, <1>4 DEF Done
<1>6. lcd_port' = r[k + 1].op
  BY <1>0, <1>1, <1>2
<1>7. ASSUME NEW i \in 1..Len(script) - 1
      PROVE  Tail(script)[i] = r[(k + 1) + i]
  <2>1. i + 1 \in 1..Len(script) /\ k + (i + 1) = (k + 1) + i
    BY <1>1
  <2> QED
    BY <1>1, <1>2, <2>1
<1>8. Follows'
  BY <1>0, <1>1, <1>2, <1>4, <1>5, <1>7 DEF Follows
<1>9. Behind'
  BY <1>0, <1>4, <1>5, <1>6 DEF Behind
<1> QED
  BY <1>r, <1>k, <1>4, <1>5, <1>6, <1>8, <1>9 DEF Place

\* A routine begins: a reset, or a call of imprime.
LEMMA PlaceRestart ==
  ASSUME script' = initialize_Lcd, goal' = <<>>
  PROVE  Place' /\ Done' = 0 /\ Routine' = initialize_Lcd
<1>1. Routine' = initialize_Lcd
  BY DEF Routine
<1>2. Done' = 0
  BY <1>1, InitializeOps DEF Done
<1> QED
  BY <1>1, <1>2, InitializeOps DEF Place, Follows, Behind

LEMMA PlaceImprime ==
  ASSUME DisplayTypeOK, Place, NEW t \in Texts, Imprime(t)
  PROVE  /\ Place' /\ Done' = 0 /\ Routine' = imprime(t)
         /\ goal = <<>> => Done = 9
         /\ goal # <<>> => Done = Len(goal) + 3
<1>1. /\ script = <<>> /\ script' = imprime(t) /\ goal' = t
      /\ UNCHANGED <<lcd_en, lcd_port>>
  BY DEF Imprime, regs
<1>2. Routine' = imprime(t) /\ t # <<>> /\ Len(imprime(t)) \in Nat
  BY <1>1, TextChars, ImprimeOps DEF Routine
<1>3. Done' = 0 /\ Follows'
  BY <1>1, <1>2 DEF Done, Follows
<1>4. /\ goal = <<>> => Done = 9 /\ Routine = initialize_Lcd
      /\ goal # <<>> => /\ goal \in Texts /\ Done = Len(goal) + 3 /\ Done >= 1
                        /\ Routine = imprime(goal)
  BY <1>1, DoneIs
<1>5. lcd_en = 1 /\ lcd_port \in {Cmd("none"), Cmd("clear")}
  <2>1. CASE goal = <<>>
    BY <1>4, <2>1, InitializeOps DEF Place, Behind
  <2>2. CASE goal # <<>>
    BY <1>4, <2>2, ImprimeOps DEF Place, Behind
  <2> QED
    BY <2>1, <2>2
<1> QED
  BY <1>1, <1>2, <1>3, <1>4, <1>5 DEF Place, Behind

LEMMA PlaceStep == DisplayTypeOK /\ Place /\ [DisplayNext]_displayVars => Place'
<1> SUFFICES ASSUME DisplayTypeOK, Place, [DisplayNext]_displayVars PROVE Place'
  OBVIOUS
<1>1. CASE Usleep
  BY <1>1 DEF Usleep, Place, Follows, Behind, Routine, Done
<1>2. CASE AltCi
  BY <1>2, PlaceCall
<1>3. ASSUME NEW t \in Texts, Imprime(t) PROVE Place'
  BY <1>3, PlaceImprime
<1>4. CASE CpuReset \/ ResetInCall
  BY <1>4, PlaceRestart DEF CpuReset, ResetInCall, Restart
<1>5. CASE UNCHANGED displayVars
  BY <1>5 DEF displayVars, Place, Follows, Behind, Routine, Done
<1> QED
  BY <1>1, <1>2, <1>3, <1>4, <1>5 DEF DisplayNext, Processor

LEMMA PlaceAlways == DisplaySpec => []Place
<1>1. DisplayInit => Place
  <2> SUFFICES ASSUME DisplayInit PROVE Place
    OBVIOUS
  <2>1. script = initialize_Lcd /\ goal = <<>>
    BY DEF DisplayInit
  <2>2. Routine = initialize_Lcd
    BY <2>1 DEF Routine
  <2>3. Done = 0
    BY <2>1, <2>2, InitializeOps DEF Done
  <2> QED
    BY <2>1, <2>2, <2>3, InitializeOps DEF Place, Follows, Behind
<1> QED
  BY <1>1, PlaceStep, TypeCorrect, PTL DEF DisplaySpec
-----------------------------------------------------------------------------
(* The controller is given time.                                            *)

FunctionSet == Cmd("function_set")

\* What it is still busy with, by the place of the routine: the times that only
\* power-up and the first two function sets take are over before they matter.
Busy ==
  /\ need \in {100, 4100} => sets >= 1
  /\ need = PowerUpTime =>
       /\ goal = <<>> /\ Done <= 1
       /\ IF lcd_en = 1 THEN elapsed >= 13500 ELSE Done = 0
  /\ goal = <<>> /\ Done >= 2 => sets >= 1
  /\ goal # <<>> \/ Done >= 4 => sets = 2 /\ need \in {37, 100, 1520}
  /\ goal = <<>> /\ Done = 4 => need # 1520
  /\ goal = <<>> /\ Done = 5 => need = 37 \/ (need = 100 /\ elapsed >= 90)
  /\ goal = <<>> /\ Done \in 6..8 => need = 37

\* What the wait before the next call adds to that.
Waited ==
  /\ script # <<>>
  /\ lcd_en = 1 /\ (lcd_port # FunctionSet \/ need = PowerUpTime) => elapsed >= need
  /\ goal = <<>> /\ Done = 0 => elapsed >= 13500
  /\ goal = <<>> /\ Done = 1 => elapsed >= 3690
  /\ goal = <<>> /\ Done = 3 => elapsed >= 4500
  /\ goal = <<>> /\ Done = 4 => elapsed >= 90

Timed ==
  /\ lost \subseteq {FunctionSet}
  /\ Busy
  /\ slept => Waited

LEMMA InitializeWaits ==
  /\ Lasts(initialize_Lcd[1].wait) = 13500 /\ Lasts(initialize_Lcd[2].wait) = 3690
  /\ Lasts(initialize_Lcd[3].wait) = 90    /\ Lasts(initialize_Lcd[4].wait) = 4500
  /\ Lasts(initialize_Lcd[5].wait) = 90    /\ Lasts(initialize_Lcd[6].wait) = 90
  /\ Lasts(initialize_Lcd[7].wait) = 90    /\ Lasts(initialize_Lcd[8].wait) = 90
  /\ Lasts(initialize_Lcd[9].wait) = 1800
<1>s. PICK s : s = initialize_Lcd
  OBVIOUS
<1>1. /\ s[1].wait = 15000 /\ s[2].wait = 4100 /\ s[3].wait = 100
      /\ s[4].wait = 5000 /\ s[5].wait = 100 /\ s[6].wait = 100
      /\ s[7].wait = 100 /\ s[8].wait = 100 /\ s[9].wait = 2000
  BY <1>s, InitializeIs DEF After
<1>2. /\ Lasts(15000) = 13500 /\ Lasts(4100) = 3690 /\ Lasts(100) = 90
      /\ Lasts(5000) = 4500 /\ Lasts(2000) = 1800
  BY DEF Lasts
<1> QED
  BY <1>s, <1>1, <1>2

LEMMA ImprimeWaits ==
  ASSUME NEW t \in Texts, NEW i \in 1..Len(t) + 3
  PROVE  Lasts(imprime(t)[i].wait) = 1800
<1> PICK s : s = imprime(t)
  OBVIOUS
<1> PICK n : n = Len(t)
  OBVIOUS
<1>1. n \in Nat /\ n >= 1 /\ \A j \in 1..n : t[j] \in Chars
  BY TextChars
<1>2. /\ s[1] = After(2000, Cmd("home"))
      /\ s[2] = After(2000, Cmd("clear"))
      /\ \A j \in 1..n : s[j + 2] = After(2000, Data(t[j]))
      /\ s[n + 3] = After(2000, Cmd("none"))
  BY ImprimeIs
<1>3. \A o : After(2000, o).wait = 2000
  BY DEF After
<1>4. s[i].wait = 2000
  <2>1. CASE i \in {1, 2, n + 3}
    BY <1>2, <1>3, <2>1
  <2>2. CASE i \notin {1, 2, n + 3}
    <3>1. i - 2 \in 1..n /\ (i - 2) + 2 = i
      BY <1>1, <2>2
    <3>2. s[i] = After(2000, Data(t[i - 2]))
      BY <1>2, <3>1
    <3> QED
      BY <1>3, <3>2
  <2> QED
    BY <2>1, <2>2
<1> QED
  BY <1>4 DEF Lasts

\* The wait before the next call, by the place.
LEMMA WaitIs ==
  ASSUME DisplayTypeOK, Place, script # <<>>, NEW w, w = Lasts(Head(script).wait)
  PROVE  /\ goal # <<>> => w = 1800
         /\ goal = <<>> => /\ Done = 0 => w = 13500
                           /\ Done = 1 => w = 3690
                           /\ Done = 2 => w = 90
                           /\ Done = 3 => w = 4500
                           /\ Done \in 4..7 => w = 90
                           /\ Done = 8 => w = 1800
                           /\ Done \in 0..8
<1>k. PICK k \in Nat : k = Done
  BY DoneIs
<1>1. Head(script) = Routine[k + 1] /\ Len(script) >= 1
  BY <1>k, DoneIs
<1>2. CASE goal # <<>>
  <2>1. goal \in Texts /\ Routine = imprime(goal) /\ k + 1 \in 1..Len(goal) + 3
    BY <1>k, <1>1, <1>2, DoneIs
  <2> QED
    BY <1>1, <1>2, <2>1, ImprimeWaits
<1>3. CASE goal = <<>>
  <2>1. Routine = initialize_Lcd /\ k \in 0..8
    BY <1>k, <1>1, <1>3, DoneIs
  <2>2. w = Lasts(initialize_Lcd[k + 1].wait)
    BY <1>1, <2>1
  <2>3. k \in {0, 1, 2, 3, 4, 5, 6, 7, 8}
    BY <2>1
  <2> QED
    BY <1>k, <1>3, <2>1, <2>2, <2>3, InitializeWaits
<1> QED
  BY <1>2, <1>3

\* The operands in the registers, by the place.
LEMMA PortIs ==
  ASSUME DisplayTypeOK, Place
  PROVE  /\ goal # <<>> => lcd_en = 1 /\ lcd_port # FunctionSet
         /\ goal = <<>> => /\ Done \in 1..4 => lcd_en = 1 /\ lcd_port = FunctionSet
                           /\ Done \in 5..9 => lcd_en = 1 /\ lcd_port # FunctionSet
                           /\ Done \in 5..7 =>
                                lcd_port \notin {FunctionSet, Cmd("clear"), Cmd("home")}
<1>k. PICK k \in Nat : k = Done
  BY DoneIs
<1>c. \A i, j : Cmd(i) = Cmd(j) => i = j
  BY OperandsDiffer
<1>d. \A c : Data(c) # FunctionSet
  BY OperandsDiffer DEF FunctionSet
<1>1. CASE goal # <<>>
  <2>1. goal \in Texts /\ Routine = imprime(goal) /\ k <= Len(goal) + 3 /\ Len(goal) \in Nat
    BY <1>k, <1>1, DoneIs
  <2>2. CASE k = 0
    BY <1>k, <1>c, <1>1, <2>2 DEF Place, Behind, FunctionSet
  <2>3. CASE k >= 1
    <3>1. lcd_port = imprime(goal)[k].op
      BY <1>k, <2>1, <2>3 DEF Place, Behind
    <3>2. k = 1 \/ k = 2 \/ k \in 3..Len(goal) + 2 \/ k = Len(goal) + 3
      BY <2>1, <2>3
    <3>3. lcd_port # FunctionSet
      BY <1>c, <1>d, <2>1, <3>1, <3>2, ImprimeOps DEF FunctionSet
    <3> QED
      BY <1>1, <3>3 DEF Place, Behind
  <2> QED
    BY <2>2, <2>3
<1>2. CASE goal = <<>>
  <2>1. Routine = initialize_Lcd /\ k <= 9
    BY <1>k, <1>2, DoneIs
  <2>2. \A w, o : After(w, o).op = o
    BY DEF After
  <2>3. k >= 1 => lcd_en = 1 /\ lcd_port = initialize_Lcd[k].op
    BY <1>k, <2>1 DEF Place, Behind
  <2>4. CASE k \in 1..4
    <3>1. k \in {1, 2, 3, 4}
      BY <2>4
    <3>2. lcd_port = FunctionSet
      BY <2>2, <2>3, <3>1, InitializeIs DEF FunctionSet
    <3> QED
      BY <1>k, <1>2, <2>3, <2>4, <3>2
  <2>5. CASE k \in 5..7
    <3>1. k \in {5, 6, 7}
      BY <2>5
    <3>2. lcd_port \in {Cmd("display_off"), Cmd("display_on"), Cmd("entry_mode")}
      BY <2>2, <2>3, <3>1, InitializeIs
    <3>3. lcd_port \notin {FunctionSet, Cmd("clear"), Cmd("home")}
      BY <1>c, <3>2 DEF FunctionSet
    <3> QED
      BY <1>k, <1>2, <2>3, <2>5, <3>3
  <2>6. CASE k \in 8..9
    <3>1. k \in {8, 9}
      BY <2>6
    <3>2. lcd_port \in {Cmd("home"), Cmd("clear")}
      BY <2>2, <2>3, <3>1, InitializeIs
    <3>3. lcd_port # FunctionSet
      BY <1>c, <3>2 DEF FunctionSet
    <3> QED
      BY <1>k, <1>2, <2>3, <2>6, <3>3
  <2>7. k = 0 \/ k \in 1..4 \/ k \in 5..7 \/ k \in 8..9
    BY <2>1
  <2> QED
    BY <1>k, <1>2, <2>4, <2>5, <2>6, <2>7
<1> QED
  BY <1>1, <1>2

\* What a fall of en leaves the controller with.
LEMMA FallIs ==
  ASSUME DisplayTypeOK, Fall
  PROVE  /\ elapsed >= need =>
              /\ elapsed' = 0 /\ lost' = lost /\ Take(lcd_port)
              /\ lcd_port # FunctionSet => sets' = sets /\ need' \in {37, 1520}
              /\ lcd_port \notin {FunctionSet, Cmd("clear"), Cmd("home")} => need' = 37
              /\ lcd_port = FunctionSet =>
                   /\ sets = 0 => sets' = 1 /\ need' = 4100
                   /\ sets = 1 => sets' = 2 /\ need' = 100
                   /\ sets = 2 => sets' = 2 /\ need' = 37
         /\ elapsed < need =>
              /\ lost' = lost \cup {lcd_port}
              /\ UNCHANGED <<elapsed, ddram, cursor, on, inc, need, sets>>
<1>0. elapsed \in Nat /\ need \in Nat
  BY TypeNumbers DEF PowerUpTime
<1>1. CASE elapsed >= need
  <2>1. Take(lcd_port) /\ elapsed' = 0 /\ lost' = lost
    BY <1>0, <1>1 DEF Fall
  <2>2. need' = ExecTime(lcd_port)
    BY <2>1 DEF Take
  <2>3. sets' = IF lcd_port = FunctionSet /\ sets < 2 THEN sets + 1 ELSE sets
    BY <2>1 DEF Take, FunctionSet
  <2>4. /\ FunctionSetTime[0] = 4100 /\ FunctionSetTime[1] = 100
        /\ FunctionSetTime[2] = 37
    BY DEF FunctionSetTime
  <2>5. /\ lcd_port = FunctionSet => need' = FunctionSetTime[sets]
        /\ lcd_port # FunctionSet => need' \in {37, 1520}
        /\ lcd_port \notin {FunctionSet, Cmd("clear"), Cmd("home")} => need' = 37
    BY <2>2 DEF ExecTime, FunctionSet
  <2> QED
    BY <1>0, <1>1, <2>1, <2>3, <2>4, <2>5
<1>2. CASE elapsed < need
  BY <1>0, <1>2 DEF Fall
<1> QED
  BY <1>0, <1>1, <1>2

LEMMA TimedUsleep ==
  ASSUME DisplayTypeOK, Place, Timed, Usleep
  PROVE  Timed'
<1>1. /\ script # <<>> /\ ~slept /\ slept'
      /\ UNCHANGED <<script, goal, lcd_en, lcd_port, need, sets, lost>>
  BY DEF Usleep, lcd
<1>w. PICK w : w = Lasts(Head(script).wait)
  OBVIOUS
<1>2. elapsed' = IF elapsed + w > Long THEN Long ELSE elapsed + w
  BY <1>w DEF Usleep
<1>3. elapsed \in Nat /\ elapsed <= Long /\ Long = 30000
  BY TypeNumbers, LongIs
<1>4. Done' = Done /\ Routine' = Routine
  BY <1>1 DEF Done, Routine
<1>k. PICK k \in Nat : k = Done
  BY DoneIs
<1>5. /\ goal # <<>> => w = 1800
      /\ goal = <<>> => /\ k = 0 => w = 13500
                        /\ k = 1 => w = 3690
                        /\ k = 2 => w = 90
                        /\ k = 3 => w = 4500
                        /\ k \in 4..7 => w = 90
                        /\ k = 8 => w = 1800
                        /\ k \in 0..8
  BY <1>1, <1>w, <1>k, WaitIs
<1>6. /\ goal # <<>> => lcd_port # FunctionSet
      /\ goal = <<>> => /\ k \in 1..4 => lcd_port = FunctionSet
                        /\ k \in 5..8 => lcd_port # FunctionSet
  BY <1>k, PortIs
<1>7. w \in Nat /\ elapsed' >= elapsed /\ (elapsed' >= elapsed + w \/ elapsed' = 30000)
  BY <1>2, <1>3, <1>5
<1>8. need \in {37, 100, 1520, 4100, 15000}
  BY TypeNumbers DEF PowerUpTime
<1>b. /\ need \in {100, 4100} => sets >= 1
      /\ need = 15000 =>
           /\ goal = <<>> /\ k <= 1
           /\ IF lcd_en = 1 THEN elapsed >= 13500 ELSE k = 0
      /\ goal # <<>> \/ k >= 4 => sets = 2 /\ need \in {37, 100, 1520}
      /\ goal = <<>> /\ k = 4 => need # 1520
      /\ goal = <<>> /\ k = 5 => need = 37 \/ (need = 100 /\ elapsed >= 90)
      /\ goal = <<>> /\ k \in 6..8 => need = 37
  BY <1>k DEF Timed, Busy, PowerUpTime
<1>e. PICK e, e2, n : e = elapsed /\ e2 = elapsed' /\ n = need
  OBVIOUS
<1>f. /\ e \in Nat /\ w \in Nat /\ n \in Nat /\ n <= 15000
      /\ n \in {37, 100, 1520, 4100, 15000}
      /\ e2 = IF e + w > 30000 THEN 30000 ELSE e + w
  <2>1. e \in Nat /\ w \in Nat
    BY <1>3, <1>5, <1>e
  <2>2. e2 = IF e + w > 30000 THEN 30000 ELSE e + w
    BY <1>2, <1>3, <1>e
  <2> QED
    BY <1>8, <1>e, <2>1, <2>2
<1>9. Waited'
  <2>1. lcd_en = 1 /\ (lcd_port # FunctionSet \/ need = 15000) => elapsed' >= need
    <3> SUFFICES ASSUME lcd_en = 1, lcd_port # FunctionSet \/ need = 15000
                 PROVE  e2 >= n
      BY <1>e
    <3>1. CASE goal # <<>>
      <4>1. n \in {37, 100, 1520} /\ w = 1800
        BY <1>5, <1>b, <1>e, <3>1
      <4> QED
        BY <1>f, <4>1
    <3>2. CASE goal = <<>> /\ k = 0
      <4>1. w = 13500 /\ (n = 15000 => e >= 13500)
        BY <1>5, <1>b, <1>e, <3>2
      <4> QED
        BY <1>f, <4>1
    <3>3. CASE goal = <<>> /\ k \in {1, 2, 3, 4}
      <4>1. n = 15000
        BY <1>6, <1>e, <3>3
      <4>2. k = 1
        BY <1>b, <1>e, <3>3, <4>1
      <4>3. w = 3690 /\ e >= 13500
        BY <1>5, <1>b, <1>e, <3>3, <4>1, <4>2
      <4> QED
        BY <1>f, <4>1, <4>3
    <3>4. CASE goal = <<>> /\ k = 5
      <4>1. w = 90 /\ (n = 37 \/ (n = 100 /\ e >= 90))
        BY <1>5, <1>b, <1>e, <3>4
      <4> QED
        BY <1>f, <4>1
    <3>5. CASE goal = <<>> /\ k \in {6, 7, 8}
      <4>1. n = 37 /\ w >= 90
        BY <1>5, <1>b, <1>e, <3>5
      <4> QED
        BY <1>f, <4>1
    <3>6. goal = <<>> => k \in {0, 1, 2, 3, 4, 5, 6, 7, 8}
      BY <1>5
    <3> QED
      BY <3>1, <3>2, <3>3, <3>4, <3>5, <3>6
  <2>2. goal = <<>> => /\ k = 0 => e2 >= 13500
                       /\ k = 1 => e2 >= 3690
                       /\ k = 3 => e2 >= 4500
                       /\ k = 4 => e2 >= 90
    <3>1. CASE goal = <<>> /\ k = 0
      BY <1>5, <1>f, <3>1
    <3>2. CASE goal = <<>> /\ k = 1
      BY <1>5, <1>f, <3>2
    <3>3. CASE goal = <<>> /\ k = 3
      BY <1>5, <1>f, <3>3
    <3>4. CASE goal = <<>> /\ k = 4
      BY <1>5, <1>f, <3>4
    <3> QED
      BY <3>1, <3>2, <3>3, <3>4
  <2>3. FunctionSet' = FunctionSet /\ PowerUpTime' = 15000
    BY DEF FunctionSet, Cmd, PowerUpTime
  <2> QED
    BY <1>1, <1>k, <1>4, <1>e, <2>1, <2>2, <2>3 DEF Waited
<1>10. Busy'
  <2>1. e2 >= e
    BY <1>3, <1>e, <1>f
  <2>2. e2 >= 13500 \/ ~(e >= 13500)
    BY <1>f, <2>1
  <2>3. e2 >= 90 \/ ~(e >= 90)
    BY <1>f, <2>1
  <2>4. /\ need \in {100, 4100} => sets >= 1
        /\ need = 15000 =>
             /\ goal = <<>> /\ Done <= 1
             /\ IF lcd_en = 1 THEN elapsed' >= 13500 ELSE Done = 0
        /\ goal = <<>> /\ Done >= 2 => sets >= 1
        /\ goal # <<>> \/ Done >= 4 => sets = 2 /\ need \in {37, 100, 1520}
        /\ goal = <<>> /\ Done = 4 => need # 1520
        /\ goal = <<>> /\ Done = 5 => need = 37 \/ (need = 100 /\ elapsed' >= 90)
        /\ goal = <<>> /\ Done \in 6..8 => need = 37
    BY <1>e, <2>2, <2>3 DEF Timed, Busy, PowerUpTime
  <2> QED
    BY <1>1, <1>4, <2>4 DEF Busy, PowerUpTime
<1> QED
  BY <1>1, <1>9, <1>10 DEF Timed, FunctionSet, Cmd

LEMMA TimedCall ==
  ASSUME DisplayTypeOK, Place, Timed, AltCi
  PROVE  Timed'
<1>1. /\ script # <<>> /\ slept /\ ~slept' /\ goal' = goal /\ lcd_en' = 1
      /\ IF lcd_en = 1 THEN Fall ELSE UNCHANGED <<elapsed, lcd>>
      /\ slept' = FALSE
  BY DEF AltCi
<1>k. PICK k \in Nat : k = Done
  BY DoneIs
<1>2. Done' = k + 1 /\ (goal = <<>> => k <= 8)
  BY <1>k, <1>1, PlaceCall, DoneIs
<1>3. /\ goal # <<>> => lcd_en = 1 /\ lcd_port # FunctionSet
      /\ goal = <<>> => /\ k \in 1..4 => lcd_en = 1 /\ lcd_port = FunctionSet
                        /\ k \in 5..8 => lcd_en = 1 /\ lcd_port # FunctionSet
                        /\ k \in 5..7 =>
                             lcd_port \notin {FunctionSet, Cmd("clear"), Cmd("home")}
  BY <1>k, PortIs
<1>4. /\ elapsed \in Nat /\ sets \in 0..2
      /\ need \in {37, 100, 1520, 4100, 15000}
  BY TypeNumbers DEF PowerUpTime
<1>b. /\ need \in {100, 4100} => sets >= 1
      /\ need = 15000 =>
           /\ goal = <<>> /\ k <= 1
           /\ IF lcd_en = 1 THEN elapsed >= 13500 ELSE k = 0
      /\ goal = <<>> /\ k >= 2 => sets >= 1
      /\ goal # <<>> \/ k >= 4 => sets = 2 /\ need \in {37, 100, 1520}
      /\ goal = <<>> /\ k = 4 => need # 1520
      /\ goal = <<>> /\ k \in 6..8 => need = 37
      /\ lost \subseteq {FunctionSet}
  BY <1>k DEF Timed, Busy, PowerUpTime
<1>w. /\ lcd_en = 1 /\ (lcd_port # FunctionSet \/ need = 15000) => elapsed >= need
      /\ goal = <<>> /\ k = 0 => elapsed >= 13500
      /\ goal = <<>> /\ k = 1 => elapsed >= 3690
      /\ goal = <<>> /\ k = 3 => elapsed >= 4500
      /\ goal = <<>> /\ k = 4 => elapsed >= 90
  BY <1>k, <1>1 DEF Timed, Waited, PowerUpTime
<1>5. lost' \subseteq {FunctionSet}
  <2>1. CASE lcd_en = 1
    <3>1. elapsed >= need => lost' = lost
      BY <1>1, <2>1, FallIs
    <3>2. elapsed < need => lost' = lost \cup {lcd_port} /\ lcd_port = FunctionSet
      BY <1>1, <1>4, <1>w, <2>1, FallIs
    <3> QED
      BY <1>4, <1>b, <3>1, <3>2
  <2>2. CASE lcd_en # 1
    BY <1>1, <1>b, <2>2 DEF lcd
  <2> QED
    BY <2>1, <2>2
<1>6. CASE lcd_en # 1
  <2>1. goal = <<>> /\ k = 0 /\ UNCHANGED <<elapsed, need, sets>>
    BY <1>1, <1>2, <1>3, <1>6 DEF lcd
  <2>2. Busy'
    BY <1>1, <1>2, <1>4, <1>b, <1>w, <2>1 DEF Busy, PowerUpTime
  <2> QED
    BY <1>1, <1>5, <2>2 DEF Timed, FunctionSet, Cmd
<1>7. CASE lcd_en = 1
  <2>1. Fall
    BY <1>1, <1>7
  <2>2. /\ need' \in {37, 100, 1520, 4100}
        /\ need' \in {100, 4100} => sets' >= 1
        /\ sets' >= sets /\ sets' \in 0..2
    <3>1. CASE elapsed >= need
      BY <1>4, <2>1, <3>1, FallIs
    <3>2. CASE elapsed < need
      BY <1>4, <1>b, <1>w, <1>7, <2>1, <3>2, FallIs
    <3> QED
      BY <1>4, <3>1, <3>2
  <2>3. goal = <<>> /\ k >= 1 => sets' >= 1
    <3>1. CASE goal = <<>> /\ k = 1 /\ elapsed >= need
      BY <1>3, <1>4, <2>1, <3>1, FallIs
    <3>2. CASE goal = <<>> /\ k = 1 /\ elapsed < need
      BY <1>4, <1>b, <1>w, <1>7, <2>2, <3>2
    <3>3. CASE goal = <<>> /\ k >= 2
      BY <1>4, <1>b, <2>2, <3>3
    <3> QED
      BY <1>4, <3>1, <3>2, <3>3
  <2>4. goal # <<>> \/ k >= 3 => sets' = 2 /\ need' \in {37, 100, 1520}
    <3>1. CASE goal # <<>> \/ k >= 4
      <4>1. elapsed >= need => sets' = 2 /\ need' \in {37, 100, 1520}
        BY <1>4, <1>b, <2>1, <3>1, FallIs
      <4>2. elapsed < need => sets' = 2 /\ need' \in {37, 100, 1520}
        BY <1>4, <1>b, <2>1, <3>1, FallIs
      <4> QED
        BY <1>4, <4>1, <4>2
    <3>2. CASE goal = <<>> /\ k = 3
      <4>1. elapsed >= need /\ lcd_port = FunctionSet /\ (sets = 1 \/ sets = 2)
        BY <1>3, <1>4, <1>b, <1>w, <1>7, <3>2
      <4> QED
        BY <2>1, <4>1, FallIs
    <3> QED
      BY <3>1, <3>2
  <2>5. goal = <<>> /\ k = 3 => need' # 1520
    <3> SUFFICES ASSUME goal = <<>>, k = 3 PROVE need' # 1520
      OBVIOUS
    <3>1. elapsed >= need /\ lcd_port = FunctionSet /\ (sets = 1 \/ sets = 2)
      BY <1>3, <1>4, <1>b, <1>w, <1>7
    <3> QED
      BY <2>1, <3>1, FallIs
  <2>6. goal = <<>> /\ k = 4 => need' = 37 \/ (need' = 100 /\ elapsed' >= 90)
    <3> SUFFICES ASSUME goal = <<>>, k = 4
                 PROVE  need' = 37 \/ (need' = 100 /\ elapsed' >= 90)
      OBVIOUS
    <3>1. lcd_port = FunctionSet /\ sets = 2 /\ need \in {37, 100} /\ elapsed >= 90
      BY <1>3, <1>b, <1>w
    <3>2. CASE elapsed >= need
      BY <2>1, <3>1, <3>2, FallIs
    <3>3. CASE elapsed < need
      BY <1>4, <2>1, <3>1, <3>3, FallIs
    <3> QED
      BY <1>4, <3>1, <3>2, <3>3
  <2>7. goal = <<>> /\ k \in 5..7 => need' = 37
    BY <1>3, <1>w, <1>7, <2>1, FallIs
  <2>8. Busy'
    BY <1>1, <1>2, <2>2, <2>3, <2>4, <2>5, <2>6, <2>7 DEF Busy, PowerUpTime
  <2> QED
    BY <1>1, <1>5, <2>8 DEF Timed, FunctionSet, Cmd
<1> QED
  BY <1>6, <1>7

LEMMA TimedReset ==
  ASSUME DisplayTypeOK, Place, Timed, CpuReset \/ ResetInCall
  PROVE  Timed'
<1>1. /\ script' = initialize_Lcd /\ goal' = <<>> /\ slept' = FALSE
  BY DEF CpuReset, ResetInCall, Restart
<1>2. Done' = 0
  BY <1>1, PlaceRestart
<1>3. /\ elapsed \in Nat /\ sets \in 0..2 /\ lcd_en \in {0, 1}
      /\ need \in {37, 100, 1520, 4100, 15000}
  BY TypeNumbers DEF PowerUpTime
<1>b. /\ need \in {100, 4100} => sets >= 1
      /\ need = 15000 => IF lcd_en = 1 THEN elapsed >= 13500 ELSE goal = <<>> /\ Done = 0
      /\ lost \subseteq {FunctionSet}
  BY DEF Timed, Busy, PowerUpTime
<1>4. CASE CpuReset
  <2>1. UNCHANGED <<lcd_en, elapsed, need, sets, lost>>
    BY <1>4 DEF CpuReset, regs, lcd
  <2> QED
    BY <1>1, <1>2, <1>b, <2>1 DEF Timed, Busy, PowerUpTime, FunctionSet, Cmd
<1>5. CASE ResetInCall
  <2>1. /\ slept /\ lcd_en' = 1
        /\ IF lcd_en = 1 THEN Fall ELSE UNCHANGED <<elapsed, lcd>>
    BY <1>5 DEF ResetInCall
  <2>w. /\ lcd_en = 1 /\ (lcd_port # FunctionSet \/ need = 15000) => elapsed >= need
        /\ goal = <<>> /\ Done = 0 => elapsed >= 13500
    BY <2>1 DEF Timed, Waited, PowerUpTime
  <2>2. CASE lcd_en = 1 /\ elapsed >= need
    BY <1>1, <1>2, <1>3, <1>b, <2>1, <2>2, FallIs
    DEF Timed, Busy, PowerUpTime, FunctionSet, Cmd
  <2>3. CASE lcd_en = 1 /\ elapsed < need
    <3>1. /\ lcd_port = FunctionSet /\ need # 15000
          /\ lost' = lost \cup {lcd_port} /\ UNCHANGED <<elapsed, need, sets>>
      BY <1>3, <2>1, <2>w, <2>3, FallIs
    <3>2. lost' \subseteq {FunctionSet}
      BY <1>b, <3>1
    <3> QED
      BY <1>1, <1>2, <1>b, <2>1, <3>1, <3>2 DEF Timed, Busy, PowerUpTime, FunctionSet, Cmd
  <2>4. CASE lcd_en # 1
    <3>1. UNCHANGED <<elapsed, need, sets, lost>>
      BY <2>1, <2>4 DEF lcd
    <3> QED
      BY <1>1, <1>2, <1>b, <2>1, <2>4, <2>w, <3>1
      DEF Timed, Busy, PowerUpTime, FunctionSet, Cmd
  <2> QED
    BY <1>3, <2>2, <2>3, <2>4
<1> QED
  BY <1>4, <1>5

LEMMA TimedStep == DisplayTypeOK /\ Place /\ Timed /\ [DisplayNext]_displayVars => Timed'
<1> SUFFICES ASSUME DisplayTypeOK, Place, Timed, [DisplayNext]_displayVars PROVE Timed'
  OBVIOUS
<1>1. ASSUME NEW t \in Texts, Imprime(t) PROVE Timed'
  <2>1. /\ script = <<>> /\ goal' = t /\ t # <<>>
        /\ UNCHANGED <<slept, lcd_en, lcd_port, elapsed, need, sets, lost>>
    BY <1>1, TextChars DEF Imprime, regs, lcd
  <2>2. Done' = 0 /\ (goal = <<>> => Done = 9)
    BY <1>1, PlaceImprime
  <2>3. sets = 2 /\ need \in {37, 100, 1520}
    BY <2>2 DEF Timed, Busy
  <2>4. ~slept
    BY <2>1 DEF Timed, Waited
  <2>5. lost' \subseteq {FunctionSet}
    BY <2>1 DEF Timed
  <2> QED
    BY <2>1, <2>2, <2>3, <2>4, <2>5 DEF Timed, Busy, PowerUpTime, FunctionSet, Cmd
<1>2. CASE UNCHANGED displayVars
  BY <1>2 DEF displayVars, Timed, Busy, Waited, Done, Routine, FunctionSet, Cmd, PowerUpTime
<1> QED
  BY <1>1, <1>2, TimedUsleep, TimedCall, TimedReset DEF DisplayNext, Processor

LEMMA TimedAlways == DisplaySpec => []Timed
<1>1. DisplayInit => Timed
  <2> SUFFICES ASSUME DisplayInit PROVE Timed
    OBVIOUS
  <2>1. /\ script = initialize_Lcd /\ goal = <<>> /\ slept = FALSE /\ lcd_en = 0
        /\ need = PowerUpTime /\ lost = {}
    BY DEF DisplayInit
  <2>2. Routine = initialize_Lcd
    BY <2>1 DEF Routine
  <2>3. Done = 0
    BY <2>1, <2>2, InitializeOps DEF Done
  <2> QED
    BY <2>1, <2>3 DEF Timed, Busy, PowerUpTime
<1> QED
  BY <1>1, TimedStep, PlaceAlways, TypeCorrect, PTL DEF DisplaySpec

(* Nothing but a function set is ever given to the controller while it is   *)
(* busy: not by imprime, not by initialize_Lcd, and not where a reset makes *)
(* one follow the other; and initialize_Lcd is never over with fewer than   *)
(* two function sets taken.                                                 *)
THEOREM OnlySetsAreLostEver == DisplaySpec => []OnlySetsAreLost
<1>1. DisplayTypeOK /\ Place /\ Timed => OnlySetsAreLost
  <2> SUFFICES ASSUME DisplayTypeOK, Place, Timed PROVE OnlySetsAreLost
    OBVIOUS
  <2>1. script = <<>> => goal # <<>> \/ Done >= 4
    BY DoneIs
  <2> QED
    BY <2>1 DEF Timed, Busy, OnlySetsAreLost, FunctionSet
<1> QED
  BY <1>1, TypeCorrect, PlaceAlways, TimedAlways, PTL
-----------------------------------------------------------------------------
(* The glass shows one text.                                                *)

\* The address moves to the right, and from display_on on the display is on.
Switched ==
  /\ inc
  /\ Done >= 7 \/ goal # <<>> => on

\* A character in the registers belongs after those on the glass.
Continued ==
  \E t \in Texts : \E n \in 0..Len(t) :
    /\ Shows(t, n)
    /\ lcd_port.rs = 1 => n < Len(t) /\ lcd_port.byte = t[n + 1] /\ cursor = n

\* How far imprime has got.
Written ==
  goal # <<>> /\ Done >= 3 =>
    /\ Shows(goal, Done - 3)
    /\ Done <= Len(goal) + 2 => cursor = Done - 3

Glass == Switched /\ Continued /\ Written

\* What the controller does with what it takes.
LEMMA TakeWrites ==
  ASSUME Take(lcd_port)
  PROVE  /\ lcd_port.rs = 1 => ddram' = [ddram EXCEPT ![cursor] = lcd_port.byte]
         /\ lcd_port.rs = 1 /\ inc => cursor' = (cursor + 1) % Cells
         /\ lcd_port.rs = 0 => ddram' = Empty \/ ddram' = ddram
         /\ lcd_port = Cmd("clear") => ddram' = Empty /\ cursor' = 0
         /\ lcd_port = Cmd("display_on") => on'
         /\ lcd_port \notin Switches => on' = on
         /\ inc => inc'
<1>1. ddram' = IF lcd_port.rs = 1 THEN [ddram EXCEPT ![cursor] = lcd_port.byte]
               ELSE IF lcd_port.byte = "clear" THEN Empty ELSE ddram
  BY DEF Take
<1>2. cursor' = IF lcd_port.rs = 1
                THEN (IF inc THEN cursor + 1 ELSE cursor - 1) % Cells
                ELSE IF lcd_port.byte \in {"clear", "home"} THEN 0 ELSE cursor
  BY DEF Take
<1>3. on' = IF lcd_port \in Switches THEN lcd_port.byte = "display_on" ELSE on
  BY DEF Take, Switches
<1>4. inc => inc'
  BY DEF Take
<1>5. lcd_port = Cmd("clear") => ddram' = Empty /\ cursor' = 0
  BY <1>1, <1>2, OperandsDiffer
<1>6. lcd_port = Cmd("display_on") => on'
  BY <1>3, OperandsDiffer DEF Switches
<1>7. lcd_port \notin Switches => on' = on
  BY <1>3
<1>8. lcd_port.rs = 1 /\ inc => cursor' = (cursor + 1) % Cells
  BY <1>2
<1> QED
  BY <1>1, <1>4, <1>5, <1>6, <1>7, <1>8

\* A character written behind those that are there makes one more.
LEMMA OneMore ==
  ASSUME DisplayTypeOK, NEW t \in Texts, NEW n \in Nat, n < Len(t), Shows(t, n),
         cursor = n, ddram' = [ddram EXCEPT ![cursor] = t[n + 1]]
  PROVE  Shows(t, n + 1)'
<1>1. /\ ddram \in [0..Cells - 1 -> Chars \cup {Space}]
      /\ cursor \in 0..Cells - 1
  BY DEF DisplayTypeOK
<1>2. ASSUME NEW a \in 0..Cells - 1
      PROVE  ddram'[a] = IF a < n + 1 THEN t[a + 1] ELSE Space
  <2>1. CASE a = n
    BY <1>1, <2>1
  <2>2. CASE a # n
    <3>1. ddram'[a] = ddram[a] /\ (a < n + 1 <=> a < n)
      BY <1>1, <2>2
    <3> QED
      BY <1>2, <3>1 DEF Shows
  <2> QED
    BY <2>1, <2>2
<1> QED
  BY <1>2 DEF Shows

LEMMA NoneYet ==
  ASSUME NEW t, ddram' = Empty
  PROVE  Shows(t, 0)'
BY DEF Shows, Empty

\* Whatever falls, the glass shows one text.
LEMMA FallShows ==
  ASSUME DisplayTypeOK, Continued,
         IF lcd_en = 1 THEN Fall ELSE UNCHANGED <<elapsed, lcd>>
  PROVE  \E t \in Texts : \E n \in 0..Len(t) : Shows(t, n)'
<1>1. PICK t \in Texts : \E n \in 0..Len(t) :
         /\ Shows(t, n)
         /\ lcd_port.rs = 1 => n < Len(t) /\ lcd_port.byte = t[n + 1] /\ cursor = n
  BY DEF Continued
<1>2. PICK n \in 0..Len(t) :
         /\ Shows(t, n)
         /\ lcd_port.rs = 1 => n < Len(t) /\ lcd_port.byte = t[n + 1] /\ cursor = n
  BY <1>1
<1>3. Len(t) \in Nat
  BY TextChars
<1>4. CASE Take(lcd_port)
  <2>1. CASE lcd_port.rs = 1
    <3>1. /\ n \in Nat /\ n < Len(t) /\ cursor = n
          /\ ddram' = [ddram EXCEPT ![cursor] = t[n + 1]]
      BY <1>2, <1>3, <1>4, <2>1, TakeWrites
    <3>2. Shows(t, n + 1)'
      BY <1>2, <3>1, OneMore
    <3> QED
      BY <1>3, <3>1, <3>2
  <2>2. CASE lcd_port.rs = 0
    <3>1. ddram' = Empty \/ ddram' = ddram
      BY <1>4, <2>2, TakeWrites
    <3>2. Shows(t, 0)' \/ Shows(t, n)'
      BY <1>2, <3>1, NoneYet DEF Shows
    <3> QED
      BY <1>3, <3>2
  <2> QED
    BY <2>1, <2>2 DEF DisplayTypeOK, Operand
<1>5. CASE UNCHANGED ddram
  BY <1>2, <1>5 DEF Shows
<1>6. Fall => Take(lcd_port) \/ UNCHANGED ddram
  BY DEF Fall
<1>7. UNCHANGED <<elapsed, lcd>> => UNCHANGED ddram
  BY DEF lcd
<1> QED
  BY <1>4, <1>5, <1>6, <1>7

\* After the wait nothing but a function set is lost.
LEMMA Falls ==
  ASSUME DisplayTypeOK, Timed, slept, lcd_en = 1, Fall
  PROVE  \/ Take(lcd_port)
         \/ lcd_port = FunctionSet /\ UNCHANGED <<ddram, cursor, on, inc>>
<1>1. elapsed \in Nat /\ need \in Nat
  BY TypeNumbers DEF PowerUpTime
<1>2. lcd_port # FunctionSet => elapsed >= need
  BY DEF Timed, Waited
<1> QED
  BY <1>1, <1>2, FallIs

\* A call of the routine that runs.
LEMMA GlassCall ==
  ASSUME DisplayTypeOK, Place, Timed, Glass, AltCi
  PROVE  Glass'
<1>r. PICK r : r = Routine
  OBVIOUS
<1>k. PICK k \in Nat : k = Done
  BY DoneIs
<1>0. /\ script # <<>> /\ slept /\ goal' = goal
      /\ IF lcd_en = 1 THEN Fall ELSE UNCHANGED <<elapsed, lcd>>
  BY DEF AltCi
<1>1. /\ goal = <<>> => r = initialize_Lcd /\ k <= 8
      /\ goal # <<>> => /\ goal \in Texts /\ r = imprime(goal)
                        /\ Len(goal) \in Nat /\ Len(goal) >= 1
                        /\ Len(goal) <= Cells /\ k <= Len(goal) + 2
  BY <1>r, <1>k, <1>0, DoneIs
<1>2. Done' = k + 1 /\ lcd_port' = r[k + 1].op
  BY <1>r, <1>k, PlaceCall
<1>b. /\ inc
      /\ k >= 1 \/ goal # <<>> => lcd_en = 1
      /\ k >= 1 => lcd_port = r[k].op
      /\ k = 0 /\ goal # <<>> => lcd_port \in {Cmd("none"), Cmd("clear")}
      /\ k >= 7 \/ goal # <<>> => on
  BY <1>r, <1>k DEF Place, Behind, Glass, Switched
<1>w. goal # <<>> /\ k >= 3 =>
        /\ Shows(goal, k - 3)
        /\ k <= Len(goal) + 2 => cursor = k - 3
  BY <1>k DEF Glass, Written
<1>f. lcd_en = 1 => \/ Take(lcd_port)
                    \/ lcd_port = FunctionSet /\ UNCHANGED <<ddram, cursor, on, inc>>
  BY <1>0, Falls
<1>p. /\ goal # <<>> => lcd_port # FunctionSet
      /\ goal = <<>> /\ k \in 5..9 => lcd_port # FunctionSet
  BY <1>k, PortIs
<1>3. inc'
  <2>1. CASE lcd_en = 1 /\ Take(lcd_port)
    BY <1>b, <2>1, TakeWrites
  <2>2. CASE UNCHANGED inc
    BY <1>b, <2>2
  <2>3. UNCHANGED <<elapsed, lcd>> => UNCHANGED inc
    BY DEF lcd
  <2> QED
    BY <1>0, <1>f, <2>1, <2>2, <2>3
<1>4. k + 1 >= 7 \/ goal # <<>> => on'
  <2>1. CASE goal # <<>>
    <3>1. lcd_port \notin Switches
      <4>1. CASE k = 0
        BY <1>b, <2>1, <4>1, OperandsDiffer
      <4>2. CASE k >= 1
        <5>1. k \in 1..Len(goal) + 3
          BY <1>1, <2>1, <4>2
        <5> QED
          BY <1>1, <1>b, <2>1, <4>2, <5>1, ImprimeOps
      <4> QED
        BY <4>1, <4>2
    <3> QED
      BY <1>b, <1>f, <1>p, <2>1, <3>1, TakeWrites
  <2>2. CASE goal = <<>> /\ k = 6
    <3>1. lcd_en = 1 /\ lcd_port = r[6].op
      BY <1>b, <2>2
    <3>2. lcd_port = Cmd("display_on")
      BY <1>1, <2>2, <3>1, InitializeOps
    <3>3. Take(lcd_port)
      BY <1>f, <1>p, <2>2, <3>1
    <3> QED
      BY <3>2, <3>3, TakeWrites
  <2>3. CASE goal = <<>> /\ k >= 7
    <3>1. k \in 7..9 /\ lcd_en = 1 /\ on /\ lcd_port = r[k].op
      BY <1>1, <1>b, <2>3
    <3>2. lcd_port \notin Switches
      BY <1>1, <2>3, <3>1, InitializeOps
    <3>3. lcd_en = 1 /\ lcd_port # FunctionSet
      <4>1. k \in 5..9 /\ lcd_en = 1
        BY <3>1
      <4> QED
        BY <1>p, <2>3, <4>1
    <3>4. Take(lcd_port)
      BY <1>f, <3>3
    <3> QED
      BY <3>1, <3>2, <3>4, TakeWrites
  <2> QED
    BY <2>1, <2>2, <2>3
<1>5. Switched'
  BY <1>0, <1>2, <1>3, <1>4 DEF Switched
<1>6. goal # <<>> /\ k + 1 >= 3 =>
        /\ Shows(goal, k - 2)'
        /\ k + 1 <= Len(goal) + 2 => cursor' = k - 2
  <2> SUFFICES ASSUME goal # <<>>, k + 1 >= 3
               PROVE  /\ Shows(goal, k - 2)'
                      /\ k + 1 <= Len(goal) + 2 => cursor' = k - 2
    OBVIOUS
  <2>g. PICK t : t = goal
    OBVIOUS
  <2>1. /\ t \in Texts /\ r = imprime(t)
        /\ Len(t) \in Nat /\ Len(t) >= 1 /\ Len(t) <= Cells
        /\ k \in Nat /\ k >= 2 /\ k <= Len(t) + 2
    BY <1>1, <2>g
  <2>p. k >= 1
    BY <2>1
  <2>2. Take(lcd_port) /\ lcd_port = r[k].op /\ inc
    BY <1>b, <1>f, <1>p, <2>p
  <2>3. CASE k = 2
    <3>1. lcd_port = Cmd("clear")
      BY <2>1, <2>2, <2>3, ImprimeOps
    <3>2. ddram' = Empty /\ cursor' = 0
      BY <2>2, <3>1, TakeWrites
    <3>3. Shows(t, 0)' /\ t' = t
      BY <3>2, NoneYet
    <3> QED
      BY <1>0, <2>g, <2>3, <3>2, <3>3
  <2>4. CASE k # 2
    <3>1. k \in 3..Len(t) + 2 /\ k - 3 \in Nat /\ k - 3 < Len(t)
          /\ (k - 3) + 1 = k - 2
      BY <2>1, <2>4
    <3>2. lcd_port = Data(t[k - 2])
      BY <2>1, <2>2, <3>1, ImprimeOps
    <3>3. Shows(t, k - 3) /\ cursor = k - 3
      BY <1>w, <2>g, <2>1, <3>1
    <3>4. /\ ddram' = [ddram EXCEPT ![cursor] = t[k - 2]]
          /\ cursor' = (cursor + 1) % Cells
      BY <2>2, <3>2, OperandsDiffer, TakeWrites
    <3>5. Shows(t, k - 2)'
      <4> PICK n : n = k - 3
        OBVIOUS
      <4>1. /\ n \in Nat /\ n < Len(t) /\ Shows(t, n) /\ cursor = n
            /\ ddram' = [ddram EXCEPT ![cursor] = t[n + 1]]
        BY <3>1, <3>3, <3>4
      <4>2. Shows(t, n + 1)'
        BY <2>1, <4>1, OneMore
      <4> QED
        BY <3>1, <4>2
    <3>6. k + 1 <= Len(t) + 2 => cursor' = k - 2
      <4> SUFFICES ASSUME k + 1 <= Len(t) + 2 PROVE cursor' = k - 2
        OBVIOUS
      <4>1. k - 2 \in 0..Cells - 1
        BY <2>1, <3>1, Sizes
      <4>2. (k - 2) % Cells = k - 2
        BY <4>1, Sizes
      <4> QED
        BY <3>1, <3>3, <3>4, <4>2
    <3> QED
      BY <1>0, <2>g, <3>5, <3>6
  <2> QED
    BY <2>3, <2>4
<1>7. Written'
  <2>1. Done' - 3 = k - 2
    BY <1>2
  <2> QED
    BY <1>0, <1>2, <1>6, <2>1 DEF Written, Shows
<1>8. Continued'
  <2>1. CASE goal # <<>> /\ k + 1 >= 3
    <3>g. PICK t : t = goal
      OBVIOUS
    <3>n. PICK n : n = k - 2
      OBVIOUS
    <3>1. /\ t \in Texts /\ r = imprime(t)
          /\ Len(t) \in Nat /\ Len(t) >= 1
          /\ n \in 0..Len(t) /\ k + 1 = n + 3
      BY <1>1, <2>1, <3>g, <3>n
    <3>2. /\ Shows(t, n)'
          /\ n < Len(t) => cursor' = n
      <4>1. Shows(goal, k - 2)' /\ goal' = goal
        BY <1>0, <1>6, <2>1
      <4>2. Shows(t, n)'
        BY <3>g, <3>n, <4>1 DEF Shows
      <4>3. n < Len(t) => k + 1 <= Len(goal) + 2
        BY <3>1, <3>g
      <4> QED
        BY <1>6, <2>1, <3>n, <4>2, <4>3
    <3>3. CASE n < Len(t)
      <4>1. n + 3 \in 3..Len(t) + 2 /\ (n + 3) - 2 = n + 1
        BY <3>1, <3>3
      <4>2. r[n + 3].op = Data(t[n + 1])
        BY <3>1, <4>1, ImprimeOps
      <4>3. lcd_port'.byte = t[n + 1]
        BY <1>2, <3>1, <4>2, OperandsDiffer
      <4> QED
        BY <3>1, <3>2, <3>3, <4>3 DEF Continued
    <3>4. CASE n = Len(t)
      <4>1. lcd_port' = Cmd("none")
        BY <1>2, <3>1, <3>4, ImprimeOps
      <4>2. lcd_port'.rs = 0
        BY <4>1, OperandsDiffer
      <4> QED
        BY <3>1, <3>2, <4>2 DEF Continued
    <3> QED
      BY <3>1, <3>3, <3>4
  <2>2. CASE goal = <<>> \/ k + 1 < 3
    <3>1. lcd_port'.rs = 0
      <4>1. CASE goal = <<>>
        <5>1. k + 1 \in 1..9
          BY <1>1, <4>1
        <5> QED
          BY <1>1, <1>2, <4>1, <5>1, InitializeOps
      <4>2. CASE goal # <<>> /\ k + 1 < 3
        <5>1. k + 1 = 1 \/ k + 1 = 2
          BY <4>2
        <5>2. lcd_port' = Cmd("home") \/ lcd_port' = Cmd("clear")
          BY <1>1, <1>2, <4>2, <5>1, ImprimeOps
        <5> QED
          BY <5>2, OperandsDiffer
      <4> QED
        BY <2>2, <4>1, <4>2
    <3>2. \E t \in Texts : \E n \in 0..Len(t) : Shows(t, n)'
      BY <1>0, FallShows DEF Glass
    <3> QED
      BY <3>1, <3>2 DEF Continued
  <2> QED
    BY <1>2, <2>1, <2>2
<1> QED
  BY <1>5, <1>7, <1>8 DEF Glass

LEMMA GlassStep ==
  DisplayTypeOK /\ Place /\ Timed /\ Glass /\ [DisplayNext]_displayVars => Glass'
<1> SUFFICES ASSUME DisplayTypeOK, Place, Timed, Glass, [DisplayNext]_displayVars
             PROVE  Glass'
  OBVIOUS
<1>1. CASE Usleep
  BY <1>1 DEF Usleep, lcd, Glass, Switched, Continued, Written, Routine, Done, Shows
<1>2. CASE AltCi
  BY <1>2, GlassCall
<1>3. ASSUME NEW t \in Texts, Imprime(t) PROVE Glass'
  <2>1. UNCHANGED <<lcd_port, ddram, cursor, on, inc>>
    BY <1>3 DEF Imprime, regs, lcd
  <2>2. Done' = 0 /\ (goal = <<>> => Done = 9)
    BY <1>3, PlaceImprime
  <2>3. on /\ inc
    BY <2>2 DEF Glass, Switched
  <2>4. Continued'
    BY <2>1 DEF Glass, Continued, Shows
  <2> QED
    BY <2>1, <2>2, <2>3, <2>4 DEF Glass, Switched, Written
<1>r. ASSUME Restart PROVE Done' = 0 /\ goal' = <<>>
  BY <1>r, PlaceRestart DEF Restart
<1>4. CASE CpuReset
  <2>1. Done' = 0 /\ goal' = <<>> /\ UNCHANGED <<lcd_port, ddram, cursor, inc>>
    BY <1>4, <1>r DEF CpuReset, regs, lcd
  <2>2. Switched' /\ Written'
    BY <2>1 DEF Glass, Switched, Written
  <2>3. Continued'
    BY <2>1 DEF Glass, Continued, Shows
  <2> QED
    BY <2>2, <2>3 DEF Glass
<1>5. CASE ResetInCall
  <2>1. /\ Done' = 0 /\ goal' = <<>> /\ lcd_port' = Cmd("none") /\ slept
        /\ IF lcd_en = 1 THEN Fall ELSE UNCHANGED <<elapsed, lcd>>
    BY <1>5, <1>r DEF ResetInCall
  <2>2. inc'
    <3>1. inc
      BY DEF Glass, Switched
    <3>2. CASE Take(lcd_port)
      BY <3>1, <3>2, TakeWrites
    <3>3. CASE UNCHANGED inc
      BY <3>1, <3>3
    <3>4. UNCHANGED <<elapsed, lcd>> => UNCHANGED inc
      BY DEF lcd
    <3> QED
      BY <2>1, <3>2, <3>3, <3>4, Falls
  <2>3. Switched' /\ Written'
    BY <2>1, <2>2 DEF Switched, Written
  <2>4. \E t \in Texts : \E n \in 0..Len(t) : Shows(t, n)'
    BY <2>1, FallShows DEF Glass
  <2>5. lcd_port'.rs = 0
    BY <2>1, OperandsDiffer
  <2>6. Continued'
    BY <2>4, <2>5 DEF Continued
  <2> QED
    BY <2>3, <2>6 DEF Glass
<1>6. CASE UNCHANGED displayVars
  BY <1>6 DEF displayVars, Glass, Switched, Continued, Written, Routine, Done, Shows
<1> QED
  BY <1>1, <1>2, <1>3, <1>4, <1>5, <1>6 DEF DisplayNext, Processor

LEMMA GlassAlways == DisplaySpec => []Glass
<1>1. DisplayInit => Glass
  <2> SUFFICES ASSUME DisplayInit PROVE Glass
    OBVIOUS
  <2>1. /\ script = initialize_Lcd /\ goal = <<>> /\ inc
        /\ lcd_port = Cmd("none") /\ ddram = Empty
    BY DEF DisplayInit
  <2>2. Routine = initialize_Lcd
    BY <2>1 DEF Routine
  <2>3. Done = 0
    BY <2>1, <2>2, InitializeOps DEF Done
  <2>4. Switched /\ Written
    BY <2>1, <2>3 DEF Switched, Written
  <2>5. Continued
    <3>1. PICK t \in Texts : TRUE
      BY DisplayAssumption
    <3>2. 0 \in 0..Len(t) /\ lcd_port.rs = 0
      BY <2>1, TextChars, OperandsDiffer
    <3>3. Shows(t, 0)
      BY <2>1 DEF Shows, Empty
    <3> QED
      BY <3>2, <3>3 DEF Continued
  <2> QED
    BY <2>4, <2>5 DEF Glass
<1> QED
  BY <1>1, GlassStep, TypeCorrect, PlaceAlways, TimedAlways, PTL DEF DisplaySpec

(* The remains of one text never stand beside another's characters, at      *)
(* whatever point of imprime or of initialize_Lcd the processor is reset.   *)
THEOREM OneTextAlways == DisplaySpec => []OneTextAtATime
<1>1. DisplayTypeOK /\ Glass => OneTextAtATime
  BY DEF Glass, Continued, OneTextAtATime
<1> QED
  BY <1>1, TypeCorrect, GlassAlways, PTL

(* When imprime returns, its text and nothing else is on the glass, and the *)
(* display is on.                                                           *)
THEOREM ImprimeShows == DisplaySpec => []ShownOnReturn
<1>1. DisplayTypeOK /\ Place /\ Glass => ShownOnReturn
  <2> SUFFICES ASSUME DisplayTypeOK, Place, Glass, script = <<>>, goal # <<>>
               PROVE  Shows(goal, Len(goal)) /\ on
    BY DEF ShownOnReturn
  <2>1. Done = Len(goal) + 3 /\ Done - 3 = Len(goal) /\ Done >= 3
    BY DoneIs
  <2> QED
    BY <2>1 DEF Glass, Written, Switched
<1> QED
  BY <1>1, TypeCorrect, PlaceAlways, GlassAlways, PTL
=============================================================================

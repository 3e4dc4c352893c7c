----------------------------- MODULE FirstProofs -----------------------------
(***************************************************************************)
(* The first program, "Code in C/hello_world_small.c", proved: its menu    *)
(* for every set of button levels, and what its imprime is made of, the    *)
(* call of the custom instruction, for every set of operands, and the      *)
(* wait after it, for every width of a register, every speed of the        *)
(* processor and every argument of usleep.                                 *)
(***************************************************************************)
EXTENDS Menu, LcdCi, BusySleep, TLAPS
-----------------------------------------------------------------------------
(* The menu.                                                                *)

(* Moving up and down stays within the five options, and each move undoes   *)
(* the other: the two wraps of main agree.                                  *)
LEMMA MovesInverse ==
  \A c \in Option : /\ NextUp(c) \in Option
                    /\ NextDown(c) \in Option
                    /\ NextDown(NextUp(c)) = c
                    /\ NextUp(NextDown(c)) = c
  BY DEF NextUp, NextDown, Option

LEMMA LedBits == \A k \in Option : LedOf[k] \in 0..15
  BY DEF LedOf, Option

(* No two options light the same pattern.                                   *)
LEMMA LedsTellOptionsApart ==
  \A j, k \in Option : LedOf[j] = LedOf[k] => j = k
  BY DEF LedOf, Option

(* Names and answers of options are different texts.                        *)
LEMMA TextsDiffer ==
  \A j, k \in Option : /\ Opcao[j] # Answer[k]
                       /\ Opcao[j] = Opcao[k] => j = k
                       /\ Answer[j] = Answer[k] => j = k
                       /\ Opcao[j] # Blank
                       /\ Answer[j] # Blank
                       /\ Opcao[j] \in Text
                       /\ Answer[j] \in Text
  BY DEF Opcao, Answer, Blank, Text

(* The inductive invariant: the type, the relation of the display to count  *)
(* and, before the first onMessage, a blank display.                        *)
IInv ==
  /\ TypeOK
  /\ ScreenFollowsCount
  /\ pc = "boot" => screen = Blank

LEMMA InitIInv == Init => IInv
  <1> SUFFICES ASSUME Init PROVE IInv
    OBVIOUS
  <1>1. TypeOK
    BY DEF Init, TypeOK, Option, Text
  <1>2. QED
    BY <1>1 DEF Init, IInv, ScreenFollowsCount

LEMMA NextIInv == IInv /\ [Next]_vars => IInv'
  <1> SUFFICES ASSUME IInv, [Next]_vars PROVE IInv'
    OBVIOUS
  <1> USE DEF IInv, TypeOK, ScreenFollowsCount
  <1>1. CASE Boot
    BY <1>1, TextsDiffer DEF Boot
  <1>2. CASE Sample
    BY <1>2 DEF Sample
  <1>3. CASE Up
    BY <1>3, TextsDiffer, MovesInverse DEF Up, Move
  <1>4. CASE Down
    BY <1>4, TextsDiffer, MovesInverse DEF Down, Move
  <1>5. CASE Select
    BY <1>5, TextsDiffer DEF Select
  <1>6. CASE Ignore
    BY <1>6 DEF Ignore
  <1>7. CASE HoldSample
    BY <1>7 DEF HoldSample
  <1>8. CASE Light
    BY <1>8, TextsDiffer, LedBits DEF Light
  <1>9. CASE \E k \in KeyValues : Press(k)
    BY <1>9 DEF Press
  <1>10. CASE UNCHANGED vars
    BY <1>10 DEF vars
  <1>11. QED
    BY <1>1, <1>2, <1>3, <1>4, <1>5, <1>6, <1>7, <1>8, <1>9, <1>10 DEF Next, Cpu

(* Every variable keeps its type: in particular count stays an option, so   *)
(* the switches of onLed and onMessage never fall through.                  *)
THEOREM TypeCorrect == Spec => []TypeOK
  <1>1. IInv => TypeOK
    BY DEF IInv
  <1>2. QED
    BY <1>1, InitIInv, NextIInv, PTL DEF Spec

(* The display always shows the text that belongs to count.                 *)
THEOREM DisplayIsCount == Spec => []ScreenFollowsCount
  <1>1. IInv => ScreenFollowsCount
    BY DEF IInv
  <1>2. QED
    BY <1>1, InitIInv, NextIInv, PTL DEF Spec

LEMMA AnswerStep ==
  ASSUME IInv, [Next]_vars, NEW k \in Option, screen = Answer[k], screen' # screen
  PROVE  pushbutton = BACK /\ count = k /\ screen' = Opcao[k] /\ leds' = LedOf[k]
  <1> USE DEF IInv, TypeOK, ScreenFollowsCount
  <1>1. pc \in {"hold", "light"} /\ count = k
    BY TextsDiffer
  <1>2. Light
    BY <1>1 DEF Next, Cpu, Boot, Sample, Up, Down, Move, Select, Ignore, HoldSample,
                Press, vars
  <1>3. QED
    BY <1>1, <1>2 DEF Light

(* An answer is replaced only by the name of its option, after a sample in  *)
(* which the back button was down alone.                                    *)
THEOREM AnswerStays == Spec => AnswerUntilBack
  <1>1. IInv /\ [Next]_vars =>
          [\A k \in Option :
             screen = Answer[k] /\ screen' # screen =>
               pushbutton = BACK /\ count = k /\ screen' = Opcao[k]]_vars
    BY AnswerStep
  <1>2. QED
    BY <1>1, InitIInv, NextIInv, PTL DEF Spec, AnswerUntilBack

(* Whatever is sampled, the LEDs name the option by the time its answer     *)
(* leaves the display.                                                      *)
THEOREM LedsNameSelection == Spec => LitOnceAnswered
  <1>1. IInv /\ [Next]_vars =>
          [\A k \in Option :
             screen = Answer[k] /\ screen' = Opcao[k] => leds' = LedOf[k]]_vars
    BY AnswerStep, TextsDiffer
  <1>2. QED
    BY <1>1, InitIInv, NextIInv, PTL DEF Spec, LitOnceAnswered
-----------------------------------------------------------------------------
(* The call.                                                                *)

(* What relates the registers of the three parts.  RefinesBus needs: a call *)
(* past its start cycle has lowered en, and until it is written back the    *)
(* operand registers and the register file agree.                           *)
Calling ==
  /\ CiTypeOK
  /\ OperandsStillThere
  /\ stage \in {"other", "R"} => ~clk_en /\ ~start
  /\ stage = "R" => ~state
  /\ stage = "E" => clk_en /\ E_src = src
  /\ start => stage = "E" /\ ~state
  /\ stage = "E" /\ ~start => state
  /\ state => en = 0

(* Counting modulo four stays within the counter's two bits.                *)
LEMMA ReloadType == Reload \in 0..3 /\ \A c \in 0..3 : (c - 1) % 4 \in 0..3
  <1>1. Reload \in 0..3
    <2>1. 0 - 2 \in Int
      OBVIOUS
    <2>2. \A i \in Int : i % 4 \in 0..3
      OBVIOUS
    <2>3. QED
      BY <2>1, <2>2, Zenon DEF Reload
  <1>2. ASSUME NEW c \in 0..3 PROVE (c - 1) % 4 \in 0..3
    <2>1. c - 1 \in Int
      OBVIOUS
    <2>2. QED
      BY <2>1
  <1>3. QED
    BY <1>1, <1>2

LEMMA CallingInit == CiInit => Calling
  BY CiAssumption, ReloadType DEF CiInit, Calling, CiTypeOK, OperandsStillThere

LEMMA ClockTypes ==
  ASSUME Calling, Clock
  PROVE  CiTypeOK'
  <1> USE DEF Calling, CiTypeOK, Clock
  <1>1. stage' \in {"other", "R", "E", "W"} /\ src' \in Operands /\ E_src' \in Operands
    BY DEF CpuEdge, Other, Read, Enter, Execute
  <1>2. start' \in BOOLEAN /\ clk_en' \in BOOLEAN
    BY DEF CpuEdge, Other, Read, Enter, Execute
  <1>3. tr_count' \in 0..3
    BY ReloadType DEF TranslatorEdge, trVars
  <1>4. running' \in BOOLEAN
    BY DEF TranslatorEdge, trVars
  <1>5. state' \in BOOLEAN /\ en' \in {0, 1} /\ port' \in Operands
    BY DEF LcdEdge, lcdVars
  <1>6. QED
    BY <1>1, <1>2, <1>3, <1>4, <1>5

LEMMA CallingStep == Calling /\ [CiNext]_ciVars => Calling'
  <1> SUFFICES ASSUME Calling, [CiNext]_ciVars PROVE Calling'
    OBVIOUS
  <1>1. CASE Clock
    <2>1. CiTypeOK'
      BY <1>1, ClockTypes
    <2>2. CASE Other \/ Read
      BY <1>1, <2>1, <2>2
      DEF Calling, CiTypeOK, OperandsStillThere, Clock, CpuEdge, Other, Read, LcdEdge, lcdVars
    <2>3. CASE Enter
      BY <1>1, <2>1, <2>3
      DEF Calling, CiTypeOK, OperandsStillThere, Clock, CpuEdge, Enter, LcdEdge, lcdVars
    <2>4. CASE Execute
      BY <1>1, <2>1, <2>4
      DEF Calling, CiTypeOK, OperandsStillThere, Clock, CpuEdge, Execute, LcdEdge, lcdVars
    <2>5. QED
      BY <1>1, <2>2, <2>3, <2>4 DEF Clock, CpuEdge
  <1>2. CASE Reset
    BY <1>2, CiAssumption, ReloadType
    DEF Calling, CiTypeOK, OperandsStillThere, Reset, lcdVars
  <1>3. CASE UNCHANGED ciVars
    BY <1>3 DEF Calling, CiTypeOK, OperandsStillThere, ciVars
  <1>4. QED
    BY <1>1, <1>2, <1>3 DEF CiNext

LEMMA CallingAlways == CiSpec => []Calling
  BY CallingInit, CallingStep, PTL DEF CiSpec

(* Every register keeps a value of its width.                               *)
THEOREM CallTypeCorrect == CiSpec => []CiTypeOK
  <1>1. Calling => CiTypeOK
    BY DEF Calling
  <1>2. QED
    BY <1>1, CallingAlways, PTL

(* The operands outlive the instruction by the one cycle lcd.v needs.       *)
THEOREM OperandsOutliveCall == CiSpec => []OperandsStillThere
  <1>1. Calling => OperandsStillThere
    BY DEF Calling
  <1>2. QED
    BY <1>1, CallingAlways, PTL

LEMMA InitRefines == CiInit => Bus!Init
  BY DEF CiInit, Bus!Init, Phase

LEMMA ClockRefines ==
  ASSUME Calling, Clock
  PROVE  [Bus!Next]_(Bus!busVars)
  <1> USE DEF Calling, CiTypeOK, Clock, Phase
  <1>1. CASE Other \/ Read
    <2>1. CASE state
      <3>1. Bus!Raise
        BY <1>1, <2>1 DEF Bus!Raise, CpuEdge, Other, Read, LcdEdge, lcdVars, OperandsStillThere
      <3>2. QED
        BY <3>1 DEF Bus!Next
    <2>2. CASE ~state
      BY <1>1, <2>2 DEF Bus!busVars, CpuEdge, Other, Read, LcdEdge, lcdVars, OperandsStillThere
    <2>3. QED
      BY <2>1, <2>2
  <1>2. CASE Enter
    <2>1. Bus!Issue(src)
      BY <1>2 DEF Bus!Issue, CpuEdge, Enter, LcdEdge, lcdVars
    <2>2. QED
      BY <2>1 DEF Bus!Next
  <1>3. CASE Execute
    <2>1. CASE start
      <3>1. Bus!Lower
        BY <1>3, <2>1 DEF Bus!Lower, CpuEdge, Execute, LcdEdge, lcdVars
      <3>2. QED
        BY <3>1 DEF Bus!Next
    <2>2. CASE ~start
      BY <1>3, <2>2 DEF Bus!busVars, CpuEdge, Execute, LcdEdge, lcdVars
    <2>3. QED
      BY <2>1, <2>2
  <1>4. QED
    BY <1>1, <1>2, <1>3 DEF CpuEdge

LEMMA NextRefines == Calling /\ [CiNext]_ciVars => [Bus!Next]_(Bus!busVars)
  <1> SUFFICES ASSUME Calling, [CiNext]_ciVars PROVE [Bus!Next]_(Bus!busVars)
    OBVIOUS
  <1>1. CASE Clock
    BY <1>1, ClockRefines
  <1>2. CASE Reset
    <2>1. CASE Phase = "idle"
      BY <1>2, <2>1 DEF Reset, Bus!busVars, Phase, lcdVars
    <2>2. CASE Phase = "issued"
      <3>1. Bus!Abort
        BY <1>2, <2>2 DEF Bus!Abort, Reset, Phase, lcdVars
      <3>2. QED
        BY <3>1 DEF Bus!Next
    <2>3. CASE Phase = "low"
      <3>1. Bus!Abort
        BY <1>2, <2>3 DEF Bus!Abort, Reset, Phase, lcdVars
      <3>2. QED
        BY <3>1 DEF Bus!Next
    <2>4. QED
      BY <2>1, <2>2, <2>3 DEF Phase
  <1>3. CASE UNCHANGED ciVars
    BY <1>3 DEF ciVars, Bus!busVars, Phase
  <1>4. QED
    BY <1>1, <1>2, <1>3 DEF CiNext

(* Each call of ALT_CI_LCD_0 is one pulse on en with that call's operands,  *)
(* whatever instructions surround it and wherever a reset falls.            *)
THEOREM ImplementsBus == CiSpec => RefinesBus
  BY InitRefines, NextRefines, CallingAlways, PTL DEF CiSpec, RefinesBus
-----------------------------------------------------------------------------
(* The wait.                                                                *)

\* The rounds the loop that runs still makes, if it stops at zero: from zero
\* it counts through the whole width of the register.
ToGo == IF reg = 0 THEN Values ELSE reg

\* The rounds that u microseconds take.
Rounds(u) == u * LoopsPerUs

\* SleepsAsCalibrated, counted in rounds.
EnoughRounds == loop = "idle" => loops >= Rounds(asked)
JustRounds   == loop = "idle" /\ asked \in 1..BigUs - 1 => loops = Rounds(asked)
SleepRounds  == SleepTypeOK /\ EnoughRounds /\ JustRounds

\* What is done and what the running loop will do make up for what is no longer
\* in us, which still holds the time of that loop.
InBig ==
  /\ BigUs * big_loops <= us /\ us < BigUs * big_loops + BigUs
  /\ big_loops >= 1 /\ us <= asked
  /\ loops + ToGo >= Rounds(asked - us) + Rounds(BigUs)
InRest == asked >= BigUs /\ loops + ToGo >= Rounds(asked)
InShort ==
  /\ asked < BigUs /\ reg <= INT_MAX
  /\ loops + reg = Rounds(asked)
  /\ reg = 0 => asked = 0

(* The inductive invariant: SleepRounds looks at a sleep when it is over,   *)
(* this at every round of it.                                               *)
Sleeping ==
  /\ SleepRounds
  /\ loop = "big"   => InBig
  /\ loop = "rest"  => InRest
  /\ loop = "short" => InShort

LEMMA DivIs ==
  ASSUME NEW a \in Nat, NEW b \in Nat, b >= 1
  PROVE  /\ a \div b \in Nat /\ b * (a \div b) <= a /\ a < b * (a \div b) + b
         /\ \A q \in Nat : b * q <= a => q <= a \div b
OBVIOUS

LEMMA ModIs ==
  ASSUME NEW v \in Nat, v >= 1
  PROVE  /\ \A x \in 0..v - 1 : x % v = x
         /\ (0 - 1) % v = v - 1
OBVIOUS

\* The register and the product fit: no big loop is longer than INT_MAX, and
\* what takes less than one does not wrap.
LEMMA Sizes ==
  /\ Values \in Nat /\ LoopsPerUs \in Nat /\ MaxLoops \in Nat
  /\ INT_MAX \in Nat /\ INT_MAX >= 1
  /\ INT_MAX < Values
  /\ BigUs \in Nat /\ BigUs >= 1
  /\ Rounds(BigUs) <= INT_MAX
  /\ Rounds(Values) <= MaxLoops
  /\ Requests \subseteq 0..Values - 1
<1>1. /\ Values \in Nat /\ LoopsPerUs \in Nat /\ MaxLoops \in Nat
      /\ LoopsPerUs >= 1 /\ LoopsPerUs <= INT_MAX
      /\ MaxLoops >= Values * LoopsPerUs
      /\ Requests \subseteq 0..Values - 1
  BY SleepAssumption DEF INT_MAX
<1>2. /\ INT_MAX \in Int /\ INT_MAX < Values
  BY <1>1 DEF INT_MAX
<1>3. PICK m \in Nat : m = INT_MAX
  BY <1>1, <1>2
<1>4. PICK b \in Nat : b = BigUs
  BY <1>1, <1>3, DivIs DEF BigUs
<1>5. LoopsPerUs * b <= m /\ b >= 1
  <2>1. b = m \div LoopsPerUs
    BY <1>3, <1>4 DEF BigUs
  <2>2. LoopsPerUs * 1 <= m
    BY <1>1, <1>3
  <2> QED
    BY <1>1, <2>1, <2>2, DivIs
<1>6. Rounds(b) <= m /\ Rounds(Values) <= MaxLoops
  BY <1>1, <1>5 DEF Rounds
<1> QED
  BY <1>1, <1>2, <1>3, <1>4, <1>5, <1>6

\* From here on Rounds is not expanded.
LEMMA RoundsAre ==
  ASSUME NEW a \in Nat, NEW b \in Nat
  PROVE  /\ Rounds(a) \in Nat /\ Rounds(a) + Rounds(b) = Rounds(a + b)
         /\ Rounds(0) = 0
         /\ a <= b => Rounds(a) <= Rounds(b)
         /\ a >= 1 => Rounds(a) >= 1
<1>1. LoopsPerUs \in Nat /\ LoopsPerUs >= 1
  BY SleepAssumption DEF INT_MAX
<1>2. PICK l \in Nat : l = LoopsPerUs /\ l >= 1
  BY <1>1
<1>3. (a + b) * l = a * l + b * l /\ a * l \in Nat /\ 0 * l = 0
  OBVIOUS
<1>4. a <= b => a * l <= b * l
  OBVIOUS
<1>5. a >= 1 => a * l >= 1
  BY <1>2
<1> QED
  BY <1>2, <1>3, <1>4, <1>5 DEF Rounds

LEMMA TypesAre ==
  ASSUME Sleeping
  PROVE  /\ asked \in 0..Values - 1 /\ us \in 0..Values - 1
         /\ reg \in 0..Values - 1 /\ loops \in 0..MaxLoops
         /\ big_loops \in Nat
         /\ big_loops <= (Values - 1) \div BigUs
         /\ asked \in Requests \cup {0}
         /\ loop \in {"idle", "big", "rest", "short"}
         /\ ToGo \in Nat /\ ToGo >= 1
BY Sizes, DivIs DEF Sleeping, SleepRounds, SleepTypeOK, ToGo

\* A call, from whatever the one before it left.
LEMMA CallBegins ==
  ASSUME Sleeping, NEW u \in Requests,
         CallBig(u) \/ CallShort(u)
  PROVE  Sleeping'
<1>1. /\ u \in 0..Values - 1 /\ asked' = u /\ us' = u /\ loops' = 0
      /\ u \in Requests
  BY Sizes DEF CallBig, CallShort
<1>2. PICK b \in Nat : b = BigUs /\ b >= 1
  BY Sizes
<1>3. PICK q \in Nat : q = u \div b /\ b * q <= u /\ u < b * q + b
  <2>1. u \in Nat
    BY <1>1, Sizes
  <2>2. PICK q \in Nat : q = u \div b
    BY <1>2, <2>1, DivIs
  <2> QED
    BY <1>2, <2>1, <2>2, DivIs
<1>4. CASE CallBig(u)
  <2>1. /\ q >= 1 /\ big_loops' = q /\ reg' = INT_MAX /\ loop' = "big"
    BY <1>2, <1>3, <1>4 DEF CallBig
  <2>2. q <= (Values - 1) \div b
    <3>1. b * q <= Values - 1
      <4>1. PICK p \in Nat : p = b * q
        OBVIOUS
      <4>2. p <= u /\ u <= Values - 1 /\ u \in Nat /\ Values \in Nat
        BY <1>1, <1>3, <4>1, Sizes
      <4> QED
        BY <4>1, <4>2
    <3>2. Values - 1 \in Nat
      BY Sizes
    <3> QED
      BY <1>2, <3>1, <3>2, DivIs
  <2>3. q \in 0..(Values - 1) \div b
    BY <1>2, <2>2, DivIs, Sizes
  <2>4. SleepTypeOK'
    <3>1. BigUs' = b
      BY <1>2 DEF BigUs, INT_MAX, LoopsPerUs
    <3>2. big_loops' \in 0..(Values - 1) \div BigUs'
      BY <2>1, <2>3, <3>1
    <3>3. reg' \in 0..Values - 1 /\ loops' \in 0..MaxLoops
      BY <1>1, <2>1, Sizes
    <3> QED
      BY <1>1, <2>1, <3>2, <3>3 DEF SleepTypeOK
  <2>5. InBig'
    <3>1. Rounds(b) <= INT_MAX /\ Rounds(0) = 0 /\ Rounds(b) \in Nat
      BY <1>2, Sizes, RoundsAre
    <3>2. ToGo' = INT_MAX
      BY <2>1, Sizes DEF ToGo
    <3>3. u - u = 0
      BY <1>1
    <3>4. b' = BigUs'
      BY <1>2 DEF BigUs, INT_MAX, LoopsPerUs
    <3>5. Rounds(asked - us)' = 0 /\ Rounds(BigUs)' = Rounds(b)
      BY <1>1, <1>2, <3>1, <3>3 DEF Rounds, BigUs, INT_MAX, LoopsPerUs
    <3> QED
      BY <1>1, <1>3, <2>1, <3>1, <3>2, <3>4, <3>5, Sizes DEF InBig
  <2> QED
    BY <2>1, <2>4, <2>5
    DEF Sleeping, SleepRounds, EnoughRounds, JustRounds
<1>5. CASE CallShort(u)
  <2>1. q = 0 /\ UNCHANGED big_loops /\ loop' = "short"
        /\ reg' = u * LoopsPerUs % Values
    BY <1>2, <1>3, <1>5 DEF CallShort
  <2>2. u < b
    BY <1>2, <1>3, <2>1
  <2>3. /\ Rounds(u) \in Nat /\ Rounds(u) <= INT_MAX
        /\ u >= 1 => Rounds(u) >= 1
    BY <1>1, <1>2, <2>2, RoundsAre, Sizes
  <2>4. reg' = Rounds(u)
    <3>1. Rounds(u) \in 0..Values - 1 /\ Values >= 1
      BY <2>3, Sizes
    <3>2. Rounds(u) % Values = Rounds(u)
      BY <3>1, ModIs, Sizes
    <3> QED
      BY <2>1, <3>2 DEF Rounds
  <2>5. SleepTypeOK'
    BY <1>1, <2>1, <2>3, <2>4, TypesAre, Sizes
    DEF Sleeping, SleepRounds, SleepTypeOK, BigUs, INT_MAX, LoopsPerUs
  <2>6. InShort'
    <3>1. Rounds(asked)' = Rounds(u)
      BY <1>1 DEF Rounds
    <3> QED
      BY <1>1, <1>2, <2>2, <2>3, <2>4, <3>1
      DEF InShort, BigUs, INT_MAX, LoopsPerUs
  <2> QED
    BY <2>1, <2>5, <2>6
    DEF Sleeping, SleepRounds, EnoughRounds, JustRounds
<1> QED
  BY <1>4, <1>5

LEMMA Counted ==
  ASSUME loops \in 0..MaxLoops, Count
  PROVE  /\ loops' \in 0..MaxLoops
         /\ loops' = loops + 1 \/ (loops' = MaxLoops /\ loops = MaxLoops)
<1>1. MaxLoops \in Nat
  BY Sizes
<1>2. CASE loops < MaxLoops
  BY <1>1, <1>2 DEF Count
<1>3. CASE loops = MaxLoops
  BY <1>1, <1>3 DEF Count
<1> QED
  BY <1>1, <1>2, <1>3

\* One round: the register has one less to go.
LEMMA RoundIs ==
  ASSUME Sleeping, CountDown
  PROVE  /\ reg' \in 0..Values - 1 /\ loops' \in 0..MaxLoops
         /\ reg = 0 => reg' = Values - 1
         /\ reg >= 1 => reg' = reg - 1
         /\ loops' = loops + 1 \/ (loops' = MaxLoops /\ loops = MaxLoops)
<1>1. /\ reg \in 0..Values - 1 /\ loops \in 0..MaxLoops /\ Values \in Nat
      /\ Values >= 1 /\ MaxLoops \in Nat
  BY TypesAre, Sizes
<1>2. reg = 0 => reg' = Values - 1
  BY <1>1, ModIs DEF CountDown
<1>3. reg >= 1 => reg' = reg - 1
  <2>1. reg >= 1 => reg - 1 \in 0..Values - 1
    BY <1>1
  <2> QED
    BY <1>1, <2>1, ModIs DEF CountDown
<1>4. reg' \in 0..Values - 1
  BY <1>1, <1>2, <1>3
<1>5. /\ loops' \in 0..MaxLoops
      /\ loops' = loops + 1 \/ (loops' = MaxLoops /\ loops = MaxLoops)
  BY <1>1, Counted DEF CountDown
<1> QED
  BY <1>2, <1>3, <1>4, <1>5

\* Nothing that is ever asked for takes more rounds than loops can count.
LEMMA Bounded ==
  ASSUME NEW a \in 0..Values - 1
  PROVE  Rounds(a) \in Nat /\ Rounds(a) <= MaxLoops
<1>1. a \in Nat /\ Values \in Nat /\ a <= Values
  BY Sizes
<1>2. Rounds(a) \in Nat /\ Rounds(Values) \in Nat /\ Rounds(a) <= Rounds(Values)
  BY <1>1, RoundsAre
<1> QED
  BY <1>2, Sizes

\* The loop goes round and what it makes up for does not change.
LEMMA GoesOn ==
  ASSUME Sleeping, CountDown, reg # 1,
         NEW n \in Nat, n <= MaxLoops, loops + ToGo >= n
  PROVE  reg' # 0 /\ loops' + ToGo' >= n
<1>1. /\ reg \in 0..Values - 1 /\ loops \in 0..MaxLoops /\ Values \in Nat
      /\ Values >= 2 /\ MaxLoops \in Nat
  BY TypesAre, Sizes
<1>2. /\ ToGo' = ToGo - 1 /\ ToGo' >= 1 /\ ToGo' \in Nat /\ ToGo \in Nat
      /\ reg' # 0
  <2>1. CASE reg = 0
    <3>1. reg' = Values - 1 /\ reg' # 0
      BY <1>1, <2>1, RoundIs
    <3> QED
      BY <1>1, <2>1, <3>1 DEF ToGo
  <2>2. CASE reg >= 2
    <3>1. reg' = reg - 1 /\ reg' # 0
      BY <1>1, <2>2, RoundIs
    <3> QED
      BY <1>1, <2>2, <3>1 DEF ToGo
  <2> QED
    BY <1>1, <2>1, <2>2
<1> QED
  BY <1>1, <1>2, RoundIs

LEMMA FromBigRound ==
  ASSUME Sleeping, BigRound
  PROVE  Sleeping'
<1>1. /\ loop = "big" /\ loop' = "big" /\ reg # 1 /\ CountDown
      /\ UNCHANGED <<asked, us, big_loops>> /\ InBig
  BY DEF BigRound, Sleeping
<1>2. PICK n : n = Rounds(asked - us) + Rounds(BigUs)
  OBVIOUS
<1>3. n \in Nat /\ n <= MaxLoops
  <2>1. /\ asked \in 0..Values - 1 /\ asked - us \in Nat
        /\ BigUs \in Nat /\ asked - us + BigUs <= asked
    <3>1. PICK b \in Nat : b = BigUs /\ b >= 1
      BY Sizes
    <3>2. b * big_loops >= b
      <4>1. big_loops \in Nat /\ big_loops >= 1
        BY <1>1, TypesAre DEF InBig
      <4> QED
        BY <3>1, <4>1
    <3> QED
      BY <1>1, <3>1, <3>2, TypesAre DEF InBig
  <2>2. PICK d \in Nat : d = asked - us
    BY <2>1
  <2>3. PICK b \in Nat : b = BigUs
    BY <2>1
  <2>4. /\ n = Rounds(d) + Rounds(b) /\ d + b \in Nat /\ d + b <= asked
        /\ asked \in Nat
    BY <1>2, <2>1, <2>2, <2>3, TypesAre, Sizes
  <2>5. n = Rounds(d + b) /\ n \in Nat
    BY <2>4, RoundsAre
  <2>6. n <= Rounds(asked)
    BY <2>4, <2>5, RoundsAre
  <2> QED
    BY <2>1, <2>5, <2>6, Bounded, Sizes
<1>4. loops' + ToGo' >= n
  BY <1>1, <1>2, <1>3, GoesOn DEF InBig
<1>5. InBig'
  <2>1. /\ BigUs' = BigUs
        /\ (Rounds(asked - us) + Rounds(BigUs))' = n
    BY <1>1, <1>2 DEF Rounds, BigUs, INT_MAX, LoopsPerUs
  <2> QED
    BY <1>1, <1>4, <2>1 DEF InBig
<1>6. SleepTypeOK'
  BY <1>1, RoundIs
  DEF Sleeping, SleepRounds, SleepTypeOK, BigUs, INT_MAX, LoopsPerUs
<1> QED
  BY <1>1, <1>5, <1>6
  DEF Sleeping, SleepRounds, EnoughRounds, JustRounds

LEMMA FromRestRound ==
  ASSUME Sleeping, RestRound
  PROVE  Sleeping'
<1>1. /\ loop = "rest" /\ CountDown /\ InRest
      /\ UNCHANGED <<asked, us, big_loops>>
      /\ loop' = IF reg' # 0 THEN "rest" ELSE "idle"
  BY DEF RestRound, Sleeping
<1>2. PICK n \in Nat : n = Rounds(asked) /\ n <= MaxLoops
  BY TypesAre, Bounded
<1>3. Rounds(asked)' = n /\ BigUs' = BigUs
  BY <1>1, <1>2 DEF Rounds, BigUs, INT_MAX, LoopsPerUs
<1>4. SleepTypeOK'
  BY <1>1, RoundIs
  DEF Sleeping, SleepRounds, SleepTypeOK, BigUs, INT_MAX, LoopsPerUs
<1>5. CASE reg # 1
  <2>1. reg' # 0 /\ loops' + ToGo' >= n
    BY <1>1, <1>2, <1>5, GoesOn DEF InRest
  <2> QED
    BY <1>1, <1>3, <1>4, <2>1
    DEF Sleeping, InRest, SleepRounds, EnoughRounds, JustRounds
<1>6. CASE reg = 1
  <2>1. reg' = 0 /\ loop' = "idle"
    BY <1>1, <1>6, RoundIs
  <2>2. loops' >= n
    BY <1>1, <1>2, <1>6, RoundIs, TypesAre DEF InRest, ToGo
  <2>3. EnoughRounds'
    BY <1>3, <2>2 DEF EnoughRounds, Rounds
  <2>4. JustRounds'
    BY <1>1, <1>3, TypesAre, Sizes DEF InRest, JustRounds
  <2> QED
    BY <1>4, <2>1, <2>3, <2>4 DEF Sleeping, SleepRounds
<1> QED
  BY <1>5, <1>6

LEMMA FromShortRound ==
  ASSUME Sleeping, ShortRound
  PROVE  Sleeping'
<1>1. /\ loop = "short" /\ CountDown /\ InShort
      /\ UNCHANGED <<asked, us, big_loops>>
      /\ loop' = IF reg' \in 1..INT_MAX THEN "short" ELSE "idle"
  BY DEF ShortRound, Sleeping
<1>2. PICK n \in Nat : n = Rounds(asked) /\ n <= MaxLoops
  BY TypesAre, Bounded
<1>3. /\ Rounds(asked)' = n /\ BigUs' = BigUs
      /\ INT_MAX' = INT_MAX
  BY <1>1, <1>2 DEF Rounds, BigUs, INT_MAX, LoopsPerUs
<1>4. SleepTypeOK'
  BY <1>1, RoundIs
  DEF Sleeping, SleepRounds, SleepTypeOK, BigUs, INT_MAX, LoopsPerUs
<1>5. /\ loops + reg = n /\ reg <= INT_MAX /\ reg \in Nat
      /\ loops \in Nat /\ INT_MAX \in Nat /\ INT_MAX < Values - 1
      /\ asked < BigUs /\ (reg = 0 => asked = 0)
  <2>1. INT_MAX < Values - 1
    BY SleepAssumption DEF INT_MAX
  <2> QED
    BY <1>1, <1>2, <2>1, TypesAre, Sizes DEF InShort
<1>6. CASE reg >= 2
  <2>1. reg' = reg - 1 /\ loops' = loops + 1 /\ loop' = "short"
    BY <1>1, <1>2, <1>5, <1>6, RoundIs
  <2>2. InShort'
    BY <1>1, <1>3, <1>5, <1>6, <2>1 DEF InShort
  <2> QED
    BY <1>4, <2>1, <2>2
    DEF Sleeping, SleepRounds, EnoughRounds, JustRounds
<1>7. CASE reg = 1
  <2>1. reg' = 0 /\ loops' = n /\ loop' = "idle"
    BY <1>1, <1>2, <1>5, <1>7, RoundIs
  <2>2. EnoughRounds' /\ JustRounds'
    BY <1>3, <2>1 DEF EnoughRounds, JustRounds, Rounds
  <2> QED
    BY <1>4, <2>1, <2>2 DEF Sleeping, SleepRounds
<1>8. CASE reg = 0
  <2>1. reg' = Values - 1 /\ loop' = "idle" /\ asked' = 0 /\ loops' \in Nat
    BY <1>1, <1>5, <1>8, RoundIs, Sizes
  <2>2. n = 0
    BY <1>2, <1>5, <1>8, RoundsAre
  <2>3. EnoughRounds'
    BY <1>3, <2>1, <2>2 DEF EnoughRounds, Rounds
  <2>4. JustRounds'
    BY <2>1 DEF JustRounds
  <2> QED
    BY <1>4, <2>1, <2>3, <2>4 DEF Sleeping, SleepRounds
<1> QED
  BY <1>5, <1>6, <1>7, <1>8

\* The time of a big loop leaves us when the loop is over.
LEMMA FromBigEnd ==
  ASSUME Sleeping, BigEnd
  PROVE  Sleeping'
<1>1. /\ loop = "big" /\ reg = 1 /\ Count /\ InBig
      /\ us' = us - BigUs /\ big_loops' = big_loops - 1
      /\ asked' = asked
      /\ \/ /\ big_loops > 1 /\ reg' \in {INT_MAX, 0} /\ loop' = "big"
         \/ /\ big_loops = 1 /\ reg' = us' * LoopsPerUs % Values
            /\ loop' = "rest"
  BY DEF BigEnd, Sleeping
<1>2. PICK b \in Nat : b = BigUs /\ b >= 1 /\ Rounds(b) <= INT_MAX
  BY Sizes
<1>3. PICK q \in Nat : q = big_loops /\ q >= 1 /\ b * q <= us /\ us < b * q + b
  BY <1>1, <1>2, TypesAre DEF InBig
<1>4. b * (q - 1) = b * q - b /\ b * q >= b
  BY <1>2, <1>3
<1>5. PICK a \in Nat : a = asked /\ a <= Values - 1
  BY TypesAre, Sizes
<1>6. PICK w \in Nat : w = us' /\ w = us - b
  BY <1>1, <1>2, <1>3, <1>4, TypesAre, Sizes
<1>7. PICK d \in Nat : d = asked - us
  BY <1>1, TypesAre, Sizes DEF InBig
<1>8. /\ d + b = a - w /\ (a - w) + w = a /\ a - w \in Nat /\ a >= b
      /\ w <= a
  BY <1>2, <1>3, <1>4, <1>5, <1>6, <1>7, TypesAre, Sizes
<1>9. /\ Rounds(b) \in Nat /\ Rounds(d) \in Nat /\ Rounds(a - w) \in Nat
          /\ Rounds(w) \in Nat /\ (w <= b => Rounds(w) <= Rounds(b))
  BY <1>8, RoundsAre
<1>10. loops' >= Rounds(a - w)
  <2>1. loops + 1 >= Rounds(d) + Rounds(b)
    <3>1. ToGo = 1
      BY <1>1 DEF ToGo
    <3> QED
      BY <1>1, <1>2, <1>7, <3>1 DEF InBig
  <2>2. Rounds(d) + Rounds(b) = Rounds(a - w)
    <3>1. Rounds(d) + Rounds(b) = Rounds(d + b)
      BY RoundsAre
    <3> QED
      BY <1>8, <3>1
  <2>3. Rounds(a - w) <= MaxLoops
    <3>1. a - w \in 0..Values - 1
      BY <1>5, <1>6, <1>8, Sizes
    <3> QED
      BY <3>1, Bounded
  <2> QED
    BY <1>1, <1>9, <2>1, <2>2, <2>3, Counted, TypesAre, Sizes
<1>11. /\ BigUs' = b /\ INT_MAX' = INT_MAX
       /\ \A u \in Nat : Rounds(u)' = Rounds(u)
  BY <1>2 DEF Rounds, BigUs, INT_MAX, LoopsPerUs
<1>12. /\ loops' \in 0..MaxLoops /\ us' \in 0..Values - 1
       /\ big_loops' \in 0..(Values - 1) \div BigUs
  <2>1. loops' \in 0..MaxLoops
    BY <1>1, Counted, TypesAre
  <2>2. us' \in 0..Values - 1
    BY <1>5, <1>6, <1>8, Sizes
  <2>3. PICK k : k = (Values - 1) \div BigUs
    OBVIOUS
  <2>4. k \in Nat
    BY <1>2, <2>3, Sizes, DivIs
  <2>5. q <= k /\ big_loops' = q - 1
    BY <1>1, <1>3, <2>3, TypesAre
  <2> QED
    BY <1>3, <2>1, <2>2, <2>3, <2>4, <2>5
<1>13. CASE big_loops > 1
  <2>1. reg' \in {INT_MAX, 0} /\ loop' = "big"
    BY <1>1, <1>13
  <2>2. reg' \in 0..Values - 1 /\ ToGo' >= Rounds(b) /\ ToGo' \in Nat
    <3>1. /\ INT_MAX \in 0..Values - 1 /\ Values \in Nat
          /\ INT_MAX >= 1
      BY Sizes
    <3>2. CASE reg' = 0
      BY <1>2, <1>9, <3>1, <3>2 DEF ToGo
    <3>3. CASE reg' = INT_MAX
      BY <1>2, <1>9, <3>1, <3>3 DEF ToGo
    <3> QED
      BY <2>1, <3>2, <3>3
  <2>3. SleepTypeOK'
    BY <1>1, <1>12, <2>1, <2>2, TypesAre
    DEF SleepTypeOK, BigUs, INT_MAX, LoopsPerUs
  <2>4. /\ Rounds(asked - us)' = Rounds(a - w)
        /\ Rounds(BigUs)' = Rounds(b)
    BY <1>1, <1>2, <1>5, <1>6 DEF Rounds, BigUs, INT_MAX, LoopsPerUs
  <2>5. loops' + ToGo' >= Rounds(a - w) + Rounds(b)
    BY <1>10, <1>12, <1>9, <2>2, Sizes
  <2>6. /\ b * big_loops' <= us' /\ us' < b * big_loops' + b
        /\ big_loops' >= 1 /\ us' <= asked'
    <3>1. /\ big_loops' = q - 1 /\ b * big_loops' = b * q - b
      BY <1>1, <1>3, <1>4
    <3>2. us' = us - b /\ b * q \in Nat /\ us \in Nat
      BY <1>2, <1>3, <1>6, TypesAre, Sizes
    <3> QED
      BY <1>1, <1>2, <1>3, <1>5, <1>6, <1>8, <1>13, <3>1, <3>2
  <2>7. InBig'
    BY <1>11, <2>4, <2>5, <2>6 DEF InBig
  <2> QED
    BY <2>1, <2>3, <2>7
    DEF Sleeping, SleepRounds, EnoughRounds, JustRounds
<1>14. CASE big_loops = 1
  <2>1. /\ reg' = us' * LoopsPerUs % Values /\ loop' = "rest"
    BY <1>1, <1>14
  <2>2. w < b
    BY <1>2, <1>3, <1>6, <1>14, TypesAre, Sizes
  <2>3. Rounds(w) \in Nat /\ Rounds(w) <= INT_MAX
    BY <1>2, <1>9, <2>2, Sizes
  <2>4. reg' = Rounds(w)
    <3>1. Rounds(w) \in 0..Values - 1 /\ Values >= 1
      BY <2>3, Sizes
    <3>2. Rounds(w) % Values = Rounds(w)
      BY <3>1, ModIs, Sizes
    <3> QED
      BY <1>6, <2>1, <3>2 DEF Rounds
  <2>5. reg' \in 0..Values - 1 /\ ToGo' >= Rounds(w) /\ ToGo' \in Nat
    BY <2>3, <2>4, Sizes DEF ToGo
  <2>6. SleepTypeOK'
    BY <1>1, <1>12, <2>1, <2>5, TypesAre
    DEF SleepTypeOK, BigUs, INT_MAX, LoopsPerUs
  <2>7. Rounds(a - w) + Rounds(w) = Rounds(a)
    <3>1. PICK e \in Nat : e = a - w
      BY <1>8
    <3>2. Rounds(e) + Rounds(w) = Rounds(e + w)
      BY RoundsAre
    <3> QED
      BY <1>8, <3>1, <3>2
  <2>8. loops' + ToGo' >= Rounds(a)
    BY <1>9, <1>10, <1>12, <2>3, <2>5, <2>7, Sizes
  <2>9. Rounds(asked)' = Rounds(a)
    BY <1>1, <1>5 DEF Rounds
  <2>10. InRest'
    BY <1>1, <1>5, <1>8, <1>11, <2>8, <2>9 DEF InRest
  <2> QED
    BY <2>1, <2>6, <2>10
    DEF Sleeping, SleepRounds, EnoughRounds, JustRounds
<1> QED
  BY <1>1, <1>13, <1>14

LEMMA SleepBegins ==
  ASSUME SleepInit
  PROVE  Sleeping
<1>1. /\ asked = 0 /\ us = 0 /\ big_loops = 0 /\ reg = 0 /\ loop = "idle"
      /\ loops = 0
  BY DEF SleepInit
<1>2. 0 \in 0..Values - 1 /\ 0 \in 0..MaxLoops
  BY Sizes
<1>3. 0 \in 0..(Values - 1) \div BigUs
  BY Sizes, DivIs
<1>4. SleepTypeOK
  BY <1>1, <1>2, <1>3 DEF SleepTypeOK
<1>5. EnoughRounds /\ JustRounds
  BY <1>1, Sizes, RoundsAre DEF EnoughRounds, JustRounds, Rounds
<1> QED
  BY <1>1, <1>4, <1>5 DEF Sleeping, SleepRounds

\* What the division keeps of a microsecond is a whole number of rounds.
LEMMA CyclesOfRounds ==
  ASSUME NEW u \in Nat
  PROVE  AtLeast(u) = Rounds(u) * CyclesPerLoop
<1>1. PICK f \in Nat : f = CyclesPerUs
  BY SleepAssumption
<1>2. PICK c \in Nat : c = CyclesPerLoop /\ c >= 1
  BY SleepAssumption
<1>3. PICK l \in Nat : l = LoopsPerUs /\ l = f \div c
  BY <1>1, <1>2, DivIs DEF LoopsPerUs
<1>4. PICK d : d = Dropped /\ d = f % c
  BY <1>1, <1>2 DEF Dropped
<1>5. f - d = l * c
  BY <1>1, <1>2, <1>3, <1>4
<1>6. u * (l * c) = (u * l) * c
  BY <1>2, <1>3
<1> QED
  BY <1>1, <1>2, <1>3, <1>4, <1>5, <1>6 DEF AtLeast, Rounds

LEMMA InCycles == SleepRounds => SleepsAsCalibrated
<1> SUFFICES ASSUME SleepRounds PROVE SleepsAsCalibrated
  OBVIOUS
<1>1. asked \in Nat /\ loops \in Nat
  BY Sizes DEF SleepRounds, SleepTypeOK
<1>2. PICK c \in Nat : c = CyclesPerLoop
  BY SleepAssumption
<1>3. PICK n \in Nat : n = Rounds(asked)
  BY <1>1, RoundsAre
<1>4. AtLeast(asked) = n * c /\ Lasted = loops * c
  BY <1>1, <1>2, <1>3, CyclesOfRounds DEF Lasted
<1>5. loops >= n => loops * c >= n * c
  BY <1>1, <1>2, <1>3
<1> QED
  BY <1>3, <1>4, <1>5
  DEF SleepRounds, EnoughRounds, JustRounds, SleepsAsCalibrated, LosesTheRestOnly, ShortIsExact

(* Of every microsecond a sleep is asked for it loses what the division of  *)
(* the calibration drops, and no more: neither the rounding of the big      *)
(* loops, nor the width of the product of the rest, nor what the compiler   *)
(* leaves in the register costs a round, for every width, every clock and   *)
(* every argument.  Without big loops it is exactly that much shorter.      *)
THEOREM SleepLasts == SleepSpec => []SleepsAsCalibrated
<1>1. SleepInit => Sleeping
  BY SleepBegins
<1>2. Sleeping /\ [SleepNext]_sleepVars => Sleeping'
  <2> SUFFICES ASSUME Sleeping, [SleepNext]_sleepVars
               PROVE  Sleeping'
    OBVIOUS
  <2>1. CASE SleepNext
    BY <2>1, CallBegins, FromBigRound, FromBigEnd, FromRestRound, FromShortRound
    DEF SleepNext
  <2>2. CASE UNCHANGED sleepVars
    BY <2>2
    DEF sleepVars, Sleeping, InBig, InRest, InShort, ToGo, Rounds,
        SleepRounds, SleepTypeOK, EnoughRounds, JustRounds,
        BigUs, INT_MAX, LoopsPerUs
  <2> QED
    BY <2>1, <2>2
<1>3. Sleeping => SleepsAsCalibrated
  BY InCycles DEF Sleeping
<1> QED
  BY <1>1, <1>2, <1>3, PTL DEF SleepSpec
=============================================================================

------------------------------ MODULE Display -------------------------------
(***************************************************************************)
(* The path from imprime to the characters on the glass: the two routines  *)
(* of "Project/software/nios_1/hello_world_small.c" that write the         *)
(* display, the registers of the custom instruction they write, and the    *)
(* HD44780-compatible controller behind it (external to the repository).   *)
(*                                                                         *)
(* LcdCustomInstruction.v lowers en on one clock and, on the next, raises  *)
(* it again with the new rs and display.  The controller takes what is on  *)
(* its pins when en FALLS, so an ALT_CI_LCD_0 call makes it take the       *)
(* operands of the call BEFORE.  imprime ends with a call that writes      *)
(* nothing of its own (0, 0x00): it is what pushes the last character out. *)
(*                                                                         *)
(* Time is counted in microseconds, as the least that can have passed:     *)
(* usleep adds what it really lasts, nine tenths of its argument (module   *)
(* BusySleep), and nothing else takes time.  After power-up and after the  *)
(* first function sets the controller is busy for as long as the comments  *)
(* of initialize_Lcd say.  The processor can be reset at any point; the    *)
(* controller and its registers are not on the reset line and keep what    *)
(* they hold.                                                              *)
(***************************************************************************)
EXTENDS Integers, Sequences

CONSTANTS
  Texts,      \* the texts imprime is called with, sequences of characters
  Space,      \* the character of an empty cell
  Cells,      \* cells of the display's memory that are looked at
  MaxResets   \* bound: how often the processor is reset

\* The characters of the texts.
Chars == UNION {{t[i] : i \in 1..Len(t)} : t \in Texts}

ASSUME DisplayAssumption ==
  /\ Texts # {} /\ Cells \in Nat
  /\ \A t \in Texts : Len(t) \in 1..Cells
  /\ MaxResets \in Nat /\ Space \notin Chars

\* The operands of ALT_CI_LCD_0: rs, and the byte, named by what it means to
\* the controller.  0x00 is not an instruction of the HD44780.
Instr   == {"function_set", "display_off", "display_on", "entry_mode", "home",
            "clear", "none"}
Cmd(i)  == [rs |-> 0, byte |-> i]
Data(c) == [rs |-> 1, byte |-> c]
Operand == [rs : {0}, byte : Instr] \cup [rs : {1}, byte : Chars]

\* A call and the usleep that comes before it.
After(us, op) == [wait |-> us, op |-> op]

VARIABLES
  script,    \* the calls the processor still has to make in this routine
  slept,     \* the wait before the head of script is over
  goal,      \* the text of the imprime that runs or ran last, or <<>>
  resets,    \* resets so far
  lcd_en, lcd_port,  \* the custom instruction's registers: en, and rs with display
  elapsed,   \* microseconds since the controller last took something
  ddram, cursor, on, inc,  \* the controller: memory, address, display on,
                           \* and the direction the address moves in
  need,      \* microseconds the controller needs for what it last took
  sets,      \* function sets it has taken since it was powered, 2 for more
  lost       \* history: the operands it was given while it was busy

cpu  == <<script, slept, goal, resets>>
regs == <<lcd_en, lcd_port>>
lcd  == <<ddram, cursor, on, inc, need, sets, lost>>
displayVars == <<script, slept, goal, resets, lcd_en, lcd_port, elapsed, ddram,
                 cursor, on, inc, need, sets, lost>>
-----------------------------------------------------------------------------
(* The two routines, as the calls they make.                               *)

initialize_Lcd ==
  << After(15000, Cmd("function_set")), After(4100, Cmd("function_set")),
     After(100,   Cmd("function_set")), After(5000, Cmd("function_set")),
     After(100,   Cmd("display_off")),  After(100,  Cmd("display_on")),
     After(100,   Cmd("entry_mode")),   After(100,  Cmd("home")),
     After(2000,  Cmd("clear")) >>

\* Mutated forms: no trailing call, no clear, short waits, one character too few.
imprimeNoFlush(t) ==
  << After(2000, Cmd("home")), After(2000, Cmd("clear")) >>
  \o [i \in 1..Len(t) |-> After(2000, Data(t[i]))]

imprimeNoClear(t) ==
  << After(2000, Cmd("home")), After(2000, Cmd("none")) >>
  \o [i \in 1..Len(t) |-> After(2000, Data(t[i]))]
  \o << After(2000, Cmd("none")) >>

imprimeFast(t) ==
  << After(2000, Cmd("home")), After(2000, Cmd("clear")) >>
  \o [i \in 1..Len(t) |-> After(100, Data(t[i]))]
  \o << After(2000, Cmd("none")) >>

imprimeShort(t) ==
  << After(2000, Cmd("home")), After(2000, Cmd("clear")) >>
  \o [i \in 1..Len(t) - 1 |-> After(2000, Data(t[i]))]
  \o << After(2000, Cmd("none")) >>

imprime(t) ==
  << After(2000, Cmd("home")), After(2000, Cmd("clear")) >>
  \o [i \in 1..Len(t) |-> After(2000, Data(t[i]))]
  \o << After(2000, Cmd("none")) >>
-----------------------------------------------------------------------------
(* The controller (external): what it does with what it takes, and how     *)
(* long that keeps it busy.  What arrives while it is busy is lost.        *)

\* "Wait for more than 15 ms before initialize": from power-up.
PowerUpTime == 15000

\* After the first function set it must be left alone for 4.1 ms and after the
\* second for 100 us; from the third on they are instructions like others.
FunctionSetTime == [k \in 0..2 |-> <<4100, 100, 37>>[k + 1]]

ExecTime(op) ==
  IF op = Cmd("function_set") THEN FunctionSetTime[sets]
  ELSE IF op \in {Cmd("clear"), Cmd("home")} THEN 1520 ELSE 37

Empty == [a \in 0..Cells - 1 |-> Space]

Take(op) ==
  /\ need' = ExecTime(op)
  /\ ddram' = IF op.rs = 1 THEN [ddram EXCEPT ![cursor] = op.byte]
              ELSE IF op.byte = "clear" THEN Empty ELSE ddram
  /\ cursor' = IF op.rs = 1 THEN (IF inc THEN cursor + 1 ELSE cursor - 1) % Cells
               ELSE IF op.byte \in {"clear", "home"} THEN 0 ELSE cursor
  /\ on' = IF op \in {Cmd("display_on"), Cmd("display_off")}
           THEN op.byte = "display_on" ELSE on
  /\ inc' = (inc \/ op \in {Cmd("entry_mode"), Cmd("clear")})
  /\ sets' = IF op = Cmd("function_set") /\ sets < 2 THEN sets + 1 ELSE sets

\* The falling edge of en.
Fall ==
  \/ /\ elapsed >= need
     /\ Take(lcd_port)
     /\ elapsed' = 0
     /\ UNCHANGED lost
  \/ /\ elapsed < need
     /\ lost' = lost \cup {lcd_port}
     /\ UNCHANGED <<elapsed, ddram, cursor, on, inc, need, sets>>
-----------------------------------------------------------------------------
\* The longest wait, twice: beyond it elapsed makes no difference.
Long == 30000

DisplayInit ==
  /\ script = initialize_Lcd
  /\ slept = FALSE
  /\ goal = <<>>
  /\ resets = 0
  /\ lcd_en = 0
  /\ lcd_port = Cmd("none")
  /\ elapsed = 0
  /\ ddram = Empty
  /\ cursor = 0
  /\ on = FALSE
  /\ inc = TRUE
  /\ need = PowerUpTime
  /\ sets = 0
  /\ lost = {}

\* A microsecond of usleep is five loops of nine cycles, and one has fifty.
Lasts(us) == (us * 45) \div 50

\* usleep, as in front of every call.
Usleep ==
  /\ script # <<>>
  /\ ~slept
  /\ slept' = TRUE
  /\ elapsed' = IF elapsed + Lasts(Head(script).wait) > Long THEN Long
                ELSE elapsed + Lasts(Head(script).wait)
  /\ UNCHANGED <<script, goal, resets, lcd_en, lcd_port, lcd>>

\* ALT_CI_LCD_0: en goes down and up again with the new operands.  Before the
\* first call of all en is already low: nothing falls.
AltCi ==
  /\ script # <<>>
  /\ slept
  /\ script' = Tail(script)
  /\ slept' = FALSE
  /\ lcd_en' = 1
  /\ lcd_port' = Head(script).op
  /\ IF lcd_en = 1 THEN Fall ELSE UNCHANGED <<elapsed, lcd>>
  /\ UNCHANGED <<goal, resets>>

\* onMessage or onMessageSelected calls imprime.  The last usleep of
\* initialize_Lcd only makes the wait before the first imprime longer.
Imprime(t) ==
  /\ script = <<>>
  /\ script' = imprime(t)
  /\ goal' = t
  /\ UNCHANGED <<slept, resets, regs, elapsed, lcd>>

\* The debugger resets the processor; main starts over.
Restart ==
  /\ resets < MaxResets
  /\ resets' = resets + 1
  /\ script' = initialize_Lcd
  /\ slept' = FALSE
  /\ goal' = <<>>

CpuReset == Restart /\ UNCHANGED <<regs, elapsed, lcd>>

\* The reset comes while the custom instruction executes: en has gone down, and
\* it goes up again with the operands the reset has cleared (module LcdCi).
ResetInCall ==
  /\ script # <<>>
  /\ slept
  /\ Restart
  /\ lcd_en' = 1
  /\ lcd_port' = Cmd("none")
  /\ IF lcd_en = 1 THEN Fall ELSE UNCHANGED <<elapsed, lcd>>

Processor  == Usleep \/ AltCi
DisplayNext == Processor \/ CpuReset \/ ResetInCall \/ \E t \in Texts : Imprime(t)

DisplaySpec == DisplayInit /\ [][DisplayNext]_displayVars /\ WF_displayVars(Processor)
-----------------------------------------------------------------------------
\* The first n characters of t are on the glass, and nothing after them.
Shows(t, n) ==
  \A a \in 0..Cells - 1 : ddram[a] = IF a < n THEN t[a + 1] ELSE Space

(* Every variable has a value of its type.                                  *)
DisplayTypeOK ==
  /\ script \in Seq([wait : Nat, op : Operand])
  /\ slept \in BOOLEAN
  /\ goal \in Texts \cup {<<>>}
  /\ resets \in 0..MaxResets
  /\ lcd_en \in {0, 1}
  /\ lcd_port \in Operand
  /\ elapsed \in 0..Long
  /\ ddram \in [0..Cells - 1 -> Chars \cup {Space}]
  /\ cursor \in 0..Cells - 1
  /\ on \in BOOLEAN /\ inc \in BOOLEAN
  /\ need \in {37, 100, 1520, 4100, PowerUpTime}
  /\ sets \in 0..2
  /\ lost \subseteq Operand

(* When imprime returns, its text and nothing else is on the glass and the  *)
(* display is on -- whatever was there before, and however often the        *)
(* processor had been reset, at whatever point.                             *)
ShownOnReturn ==
  script = <<>> /\ goal # <<>> => Shows(goal, Len(goal)) /\ on

(* Of what the program writes the controller misses nothing but function    *)
(* sets, although each call is taken only at the next one, when the wait    *)
(* between them has passed and not the wait before.  initialize_Lcd writes  *)
(* the same function set four times, and two of them have been taken by the *)
(* time it is over, wherever a reset of the processor fell.                 *)
OnlySetsAreLost ==
  /\ lost \subseteq {Cmd("function_set")}
  /\ script = <<>> => sets = 2

(* The waits are long enough: the controller is never given anything while  *)
(* it is busy, in particular not within the 4.1 ms after the first function *)
(* set ("Wait for more than 4.1 ms") or the 100 us after the next.          *)
NothingLost == lost = {}

(* At no time do the remains of one text stand beside another's characters: *)
(* the glass shows the beginning of a single text, or nothing.  A reset     *)
(* leaves one character in the registers, which the first call of           *)
(* initialize_Lcd writes: it is the one that continues the text.            *)
OneTextAtATime == DisplayTypeOK /\ \E t \in Texts : \E n \in 0..Len(t) : Shows(t, n)

(* A text that imprime is asked for gets shown, unless a reset comes first. *)
AskedIsShown ==
  \A t \in Texts : goal = t ~> Shows(t, Len(t)) \/ goal = <<>>
=============================================================================

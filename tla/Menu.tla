-------------------------------- MODULE Menu --------------------------------
(***************************************************************************)
(* The man-machine interface on its own: the first version of the program, *)
(* "Code in C/hello_world_small.c", which has the menu, the display and    *)
(* the LEDs but no serial line.  A run of main is a loop that samples the  *)
(* push buttons, sleeps, acts on the sample, and, once an option has been  *)
(* selected, stays in an inner loop until the back button is seen alone.   *)
(*                                                                         *)
(* imprime is one step here (module Display models it instruction by       *)
(* instruction), so the model says WHICH text is on the display and the    *)
(* module Display says that the text gets there.  The networked program    *)
(* (module App) is shown to implement this one.                            *)
(***************************************************************************)
EXTENDS Integers

CONSTANT
  KeyValues   \* the values the push-button PIO can be read with

\* The PIO is four bits wide, so a read is a number below 16.
ASSUME KeyAssumption == KeyValues \subseteq 0..15

BUTTON_UP   == 11   \* one bit per button, 0 when the button is down
BUTTON_DOWN == 7
SELECT      == 13
BACK        == 14   \* the literal of the inner loop's condition

Option == 0..4      \* the values count takes between two steps

Opcao  == [k \in Option |-> <<"opcao", k>>]    \* the texts opcao1 .. opcao5
Answer == [k \in Option |-> <<"answer", k>>]   \* the texts answer1 .. answer5
Blank  == <<"blank", 0>>                       \* the display after its reset
Text   == {Opcao[k] : k \in Option} \cup {Answer[k] : k \in Option} \cup {Blank}

VARIABLES
  keys,        \* the level of the buttons, moved by the user
  pushbutton,  \* main's local: the last sample
  count,       \* main's local: the option
  screen,      \* the text imprime was last called with
  leds,        \* the LED PIO's data_out register
  pc           \* where main is

vars == <<keys, pushbutton, count, screen, leds, pc>>

\* onLed: the four bits that reach the LEDs (~15 has its low bits clear).
LedOfUnmasked == [k \in Option |-> <<7, 11, 13, 14, -16>>[k + 1]]   \* mutated form
LedOf == [k \in Option |-> <<7, 11, 13, 14, 0>>[k + 1]]

\* Mutated forms, each a slip this code could have had: a wrap one too late, a
\* forgotten redraw, the loop condition tested before onLed, a wider condition.
NextUpSkips(c)   == IF c + 1 > 3 THEN 0 ELSE c + 1

NextUp(c)   == IF c + 1 > 4  THEN 0 ELSE c + 1
NextDown(c) == IF c - 1 = -1 THEN 4 ELSE c - 1

Init ==
  /\ keys \in KeyValues
  /\ pushbutton = 0
  /\ count = 0
  /\ screen = Blank
  /\ leds = 0
  /\ pc = "boot"

\* initialize_Lcd and the first onMessage.
Boot ==
  /\ pc = "boot"
  /\ screen' = Opcao[count]
  /\ pc' = "sample"
  /\ UNCHANGED <<keys, pushbutton, count, leds>>

\* pushbutton = IORD(PUSHBUTTON_BASE, 0), before the 100 ms sleep.
Sample ==
  /\ pc = "sample"
  /\ pushbutton' = keys
  /\ pc' = "decide"
  /\ UNCHANGED <<keys, count, screen, leds>>

Move(button, next) ==
  /\ pc = "decide"
  /\ pushbutton = button
  /\ count' = next
  /\ screen' = Opcao[next]
  /\ pc' = "sample"
  /\ UNCHANGED <<keys, pushbutton, leds>>

Up   == Move(BUTTON_UP, NextUp(count))
Down == Move(BUTTON_DOWN, NextDown(count))

\* onMessageSelected: the answer goes to the display, then the inner loop.
Select ==
  /\ pc = "decide"
  /\ pushbutton = SELECT
  /\ screen' = Answer[count]
  /\ pc' = "hold"
  /\ UNCHANGED <<keys, pushbutton, count, leds>>

\* No branch of the if applies: nothing pressed, back, or a chord.
Ignore ==
  /\ pc = "decide"
  /\ pushbutton \notin {BUTTON_UP, BUTTON_DOWN, SELECT}
  /\ pc' = "sample"
  /\ UNCHANGED <<keys, pushbutton, count, screen, leds>>

\* Mutated forms of Light.
LightAnyRelease ==
  /\ pc = "light"
  /\ leds' = LedOf[count]
  /\ IF pushbutton \in {SELECT, BUTTON_UP, BUTTON_DOWN}
     THEN pc' = "hold" /\ UNCHANGED screen
     ELSE pc' = "sample" /\ screen' = Opcao[count]
  /\ UNCHANGED <<keys, pushbutton, count>>

LightNoRedraw ==
  /\ pc = "light"
  /\ leds' = LedOf[count]
  /\ pc' = IF pushbutton # BACK THEN "hold" ELSE "sample"
  /\ UNCHANGED <<keys, pushbutton, count, screen>>

LightTestFirst ==
  /\ pc = "light"
  /\ IF pushbutton # BACK
     THEN pc' = "hold" /\ leds' = LedOf[count] /\ UNCHANGED screen
     ELSE pc' = "sample" /\ screen' = Opcao[count] /\ UNCHANGED leds
  /\ UNCHANGED <<keys, pushbutton, count>>

\* The body of do { ... } while(pushbutton != 14), up to the LED write.
HoldSample ==
  /\ pc = "hold"
  /\ pushbutton' = keys
  /\ pc' = "light"
  /\ UNCHANGED <<keys, count, screen, leds>>

\* onLed(count), the test, and onMessage(count) when the loop is left.
Light ==
  /\ pc = "light"
  /\ leds' = LedOf[count]
  /\ IF pushbutton # BACK
     THEN pc' = "hold" /\ UNCHANGED screen
     ELSE pc' = "sample" /\ screen' = Opcao[count]
  /\ UNCHANGED <<keys, pushbutton, count>>

\* The user moves the buttons, at any time and to any level.
Press(k) ==
  /\ keys # k
  /\ keys' = k
  /\ UNCHANGED <<pushbutton, count, screen, leds, pc>>

Cpu  == Boot \/ Sample \/ Up \/ Down \/ Select \/ Ignore \/ HoldSample \/ Light
Next == Cpu \/ \E k \in KeyValues : Press(k)

\* The processor never stops; the user may do nothing for ever.
Live == WF_vars(Cpu)
Spec == Init /\ [][Next]_vars /\ Live
-----------------------------------------------------------------------------
(* Every variable has a value of its type.                                  *)
TypeOK ==
  /\ keys \in KeyValues
  /\ pushbutton \in KeyValues \cup {0}
  /\ count \in Option
  /\ screen \in Text
  /\ leds \in 0..15
  /\ pc \in {"boot", "sample", "decide", "hold", "light"}

(* The text on the display is always the one of the option held in count:   *)
(* its name while main waits for a button, its answer inside the selection  *)
(* loop.  count and the display are only related through the order of the   *)
(* calls of onMessage and onMessageSelected.                                *)
ScreenFollowsCount ==
  /\ pc \in {"sample", "decide"} => screen = Opcao[count]
  /\ pc \in {"hold", "light"}    => screen = Answer[count]

(* The answer stays until the back button has been sampled alone, and what  *)
(* replaces it is the name of the option it answered.                       *)
AnswerUntilBack ==
  [][\A k \in Option :
       screen = Answer[k] /\ screen' # screen =>
         pushbutton = BACK /\ count = k /\ screen' = Opcao[k]]_vars

(* When the selection loop is left the LEDs show the option that was        *)
(* selected, even when back was already down at the first sample: the LED   *)
(* write comes before the test.                                             *)
LitOnceAnswered ==
  [][\A k \in Option : screen = Answer[k] /\ screen' = Opcao[k] => leds' = LedOf[k]]_vars

(* A button held long enough does what it is for.  UP and DOWN repeat, and  *)
(* the repetition visits every option again and again: the wraps at 4 and   *)
(* at 0 leave none out.  BACK always gets the program back to the menu.     *)
HeldButtonsWork ==
  /\ \A button \in {BUTTON_UP, BUTTON_DOWN} :
       <>[](keys = button /\ pc \in {"sample", "decide"}) =>
         \A k \in Option : []<>(count = k)
  /\ [](pc = "hold" /\ [](keys = BACK) => <>(pc = "sample"))
=============================================================================

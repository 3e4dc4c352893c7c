-------------------------------- MODULE App ---------------------------------
(***************************************************************************)
(* The networked program, "Project/software/nios_1/hello_world_small.c":   *)
(* the menu of module Menu, and for every selection a TCP connection, an   *)
(* MQTT connect, a publish and a disconnect, written byte by byte through  *)
(* the UART to the ESP8266 of module Esp8266.                              *)
(*                                                                         *)
(* A routine that writes, reads or waits is a sequence of operations; main *)
(* runs one such sequence at start-up ("boot") and one for each selection  *)
(* ("select").  The sequences are the program's control flow laid out flat *)
(* (its loops have constant bounds); everything that branches on the       *)
(* buttons or on a received byte is an action of its own.                  *)
(*                                                                         *)
(* Timing.  One byte leaves the transmitter before the next is written     *)
(* (module UartTx), so writing and receiving it is one step.  The ESP's    *)
(* answer is sent within any of the program's one-second sleeps once it is *)
(* ready.  Between two bytes of the ESP the loop of readUart gets round,   *)
(* unless alt_printf blocks it.  With Prompt, the sleeps are also longer   *)
(* than anything the ESP and the broker do, and the console keeps up; that *)
(* is what the program relies on and never checks.                         *)
(***************************************************************************)
EXTENDS Esp8266

CONSTANTS
  KeyValues,    \* the values the push-button PIO can be read with
  Prompt,       \* the one-second sleeps outlast the ESP
  ConsoleSize,  \* characters the JTAG UART holds for the host (64 in the design)
  MaxResets,    \* bound: resets of the processor
  ResetAnywhere \* they may come at any point, not only while the menu waits

ASSUME AppAssumption ==
  /\ KeyValues \subseteq 0..15
  /\ Prompt \in BOOLEAN
  /\ ConsoleSize \in Nat \ {0}
  /\ MaxResets \in Nat /\ ResetAnywhere \in BOOLEAN

BUTTON_UP   == 11
BUTTON_DOWN == 7
SELECT      == 13
BACK        == 14

Opcao  == [k \in Option |-> <<"opcao", k>>]
Answer == [k \in Option |-> <<"answer", k>>]
Blank  == <<"blank", 0>>

VARIABLES
  keys,         \* the level of the buttons
  pushbutton, count, screen, leds,   \* as in Menu
  pc,           \* "boot", "select", "sample", "decide", "hold" or "light"
  at,           \* the operation of the running sequence
  rx,           \* the UART: the received byte while RRDY is set, else Empty
  check,        \* readUart's local: the byte being printed, or Empty
  console,      \* characters the host has not fetched yet
  said,         \* "Message sent" has been printed for this selection
  resets,       \* resets so far
  chosen,       \* history: the option selected last, or -1
  before        \* history: the one before it, if the ESP was not done when this
                \* selection began, else -1

past == <<said, resets, chosen, before>>
menu == <<keys, pushbutton, count, screen, leds>>
run  == <<pc, at>>
vars == <<menu, run, rx, check, console, past, espVars>>
-----------------------------------------------------------------------------
(* The operations, and the routines as sequences of them.                  *)

Op(o, x) == [op |-> o, arg |-> x]
Tx(b)    == Op("tx", b)          \* IOWR TXDATA and the usleep after it
Read(x)  == Op("read", x)        \* readUart; x is the command just written
Sleep    == Op("sleep", Empty)   \* usleep(1000000)
Put      == Op("put", Empty)     \* alt_printf of one character
Said     == Op("said", Empty)    \* alt_printf("Message sent")
Show(t)  == Op("show", t)        \* imprime

Array(x) == [i \in 1..Size[x] |-> Tx(<<x, i>>)]

writenUart(x) == Array(x) \o << Tx(CR), Tx(LF) >>

\* Each byte of x printed, then written by writenUartQuick.
Echoed(x) == [i \in 1..2 * Size[x] |->
                IF i % 2 = 1 THEN Put ELSE Tx(<<x, i \div 2>>)]

\* Mutated forms of the routines below: the connect left out, no disconnect, no
\* wait at the end.
connectMQTTNone   == <<Sleep>>

connectMQTT ==
  writenUart("SENDC") \o <<Sleep>> \o Array("connect") \o << Tx(CR), Tx(LF) >>

publishMQTTNoDisconnect(k) ==
  <<Sleep>> \o writenUart("SENDP") \o <<Sleep>>
  \o Echoed(Publish(k)) \o << Tx(CR), Tx(LF), Sleep >>

publishMQTTNoFinalWait(k) ==
  <<Sleep>> \o writenUart("SENDP") \o <<Sleep>>
  \o Echoed(Publish(k)) \o << Tx(CR), Tx(LF), Sleep >>
  \o writenUart("SENDD") \o <<Sleep>>
  \o Echoed("disconnect") \o << Tx(CR), Tx(LF) >>

publishMQTT(k) ==
  <<Sleep>> \o writenUart("SENDP") \o <<Sleep>>
  \o Echoed(Publish(k)) \o << Tx(CR), Tx(LF), Sleep >>
  \o writenUart("SENDD") \o <<Sleep>>
  \o Echoed("disconnect") \o << Tx(CR), Tx(LF), Sleep >>

Boot ==
  writenUart("AT") \o << Read("AT"), Sleep >>
  \o writenUart("CWMODE") \o << Read("CWMODE"), Sleep >>
  \o writenUart("CWJAP") \o << Read("CWJAP"), Sleep >>
  \o << Show(Opcao[0]) >>

\* A mutated form: the cases of the switch shifted by one in the publish.
SelectedShifted == [k \in Option |->
  writenUart("CIPSTART") \o << Read("CIPSTART"), Sleep >> \o connectMQTT
  \o << Show(Answer[k]) >> \o publishMQTT((k + 1) % 5) \o << Said >>]

Selected == [k \in Option |->
  writenUart("CIPSTART") \o << Read("CIPSTART"), Sleep >> \o connectMQTT
  \o << Show(Answer[k]) >> \o publishMQTT(k) \o << Said >>]

Running == pc \in {"boot", "select"}
Script  == IF pc = "boot" THEN Boot ELSE Selected[count]
AtOp(o) == Running /\ at <= Len(Script) /\ Script[at].op = o
Arg     == Script[at].arg
Advance == at' = at + 1 /\ UNCHANGED pc
-----------------------------------------------------------------------------
Init ==
  /\ EspInit
  /\ keys \in KeyValues
  /\ pushbutton = 0 /\ count = 0 /\ screen = Blank /\ leds = 0
  /\ pc = "boot" /\ at = 1
  /\ rx = Empty /\ check = Empty /\ console = 0
  /\ said = FALSE /\ resets = 0 /\ chosen = -1 /\ before = -1

TxByte ==
  /\ AtOp("tx")
  /\ EspReceive(Arg)
  /\ Advance
  /\ UNCHANGED <<menu, rx, check, console, past, tcp, session, inbox, drops>>

\* usleep(1000000).
SleepOver ==
  /\ AtOp("sleep")
  /\ out = <<>>
  /\ Prompt => Quiet
  /\ Advance
  /\ UNCHANGED <<menu, rx, check, console, past, espVars>>

\* readUart: RRDY is set, the byte is read.
ReadByte ==
  /\ AtOp("read")
  /\ rx # Empty /\ check = Empty
  /\ check' = rx
  /\ rx' = Empty
  /\ UNCHANGED <<menu, run, console, past, espVars>>

\* readUart: the byte is printed, and the loop left if it is a 'K'.
PrintByte ==
  /\ AtOp("read")
  /\ check # Empty
  /\ console < ConsoleSize
  /\ console' = console + 1
  /\ check' = Empty
  /\ IF check[1] = "K" THEN Advance ELSE UNCHANGED run
  /\ UNCHANGED <<menu, rx, past, espVars>>

\* alt_printf in publishMQTT, and the message at the end.
PutChar ==
  /\ AtOp("put") \/ AtOp("said")
  /\ console < ConsoleSize
  /\ console' = console + 1
  /\ said' = (said \/ AtOp("said"))
  /\ Advance
  /\ UNCHANGED <<menu, rx, check, resets, chosen, before, espVars>>

\* imprime, with the initialize_Lcd before it at start-up.
ShowText ==
  /\ AtOp("show")
  /\ screen' = Arg
  /\ Advance
  /\ UNCHANGED <<keys, pushbutton, count, leds, rx, check, console, past, espVars>>

\* The end of a sequence: main goes to its loop, or to the selection's loop.
Return ==
  /\ Running /\ at = Len(Script) + 1
  /\ pc' = IF pc = "boot" THEN "sample" ELSE "hold"
  /\ at' = 1
  /\ UNCHANGED <<menu, rx, check, console, past, espVars>>
-----------------------------------------------------------------------------
(* The loop of main.                                                       *)

Idle == UNCHANGED <<rx, check, console, resets>>
Kept == UNCHANGED <<said, chosen, before, espVars>>

Sample ==
  /\ pc = "sample"
  /\ pushbutton' = keys
  /\ pc' = "decide"
  /\ UNCHANGED <<keys, count, screen, leds, at>> /\ Idle /\ Kept

Move(button, next) ==
  /\ pc = "decide"
  /\ pushbutton = button
  /\ count' = next
  /\ screen' = Opcao[next]
  /\ pc' = "sample"
  /\ UNCHANGED <<keys, pushbutton, leds, at>> /\ Idle /\ Kept

Up   == Move(BUTTON_UP, IF count + 1 > 4 THEN 0 ELSE count + 1)
Down == Move(BUTTON_DOWN, IF count - 1 = -1 THEN 4 ELSE count - 1)

\* A selection begins; inbox and said are about it from here on.
Select ==
  /\ pc = "decide"
  /\ pushbutton = SELECT
  /\ pc' = "select" /\ at' = 1
  /\ said' = FALSE
  /\ chosen' = count
  /\ before' = IF Quiet THEN -1 ELSE chosen
  /\ inbox' = <<>>
  /\ UNCHANGED <<menu, mode, line, rem, job, out, tcp, session, drops>> /\ Idle

Ignore ==
  /\ pc = "decide"
  /\ pushbutton \notin {BUTTON_UP, BUTTON_DOWN, SELECT}
  /\ pc' = "sample"
  /\ UNCHANGED <<menu, at>> /\ Idle /\ Kept

HoldSample ==
  /\ pc = "hold"
  /\ pushbutton' = keys
  /\ pc' = "light"
  /\ UNCHANGED <<keys, count, screen, leds, at>> /\ Idle /\ Kept

\* What onLed writes, in the four bits the port has.
onLed == <<7, 11, 13, 14, 0>>

\* A mutated form: onMessage is not called after the loop.
LightNoRedraw ==
  /\ pc = "light"
  /\ leds' = onLed[count + 1]
  /\ pc' = IF pushbutton # BACK THEN "hold" ELSE "sample"
  /\ UNCHANGED <<keys, pushbutton, count, screen, at>> /\ Idle /\ Kept

Light ==
  /\ pc = "light"
  /\ leds' = onLed[count + 1]
  /\ IF pushbutton # BACK
     THEN pc' = "hold" /\ UNCHANGED screen
     ELSE pc' = "sample" /\ screen' = Opcao[count]
  /\ UNCHANGED <<keys, pushbutton, count, at>> /\ Idle /\ Kept
-----------------------------------------------------------------------------
(* What happens around the program.                                        *)

Press(k) ==
  /\ keys # k
  /\ keys' = k
  /\ UNCHANGED <<pushbutton, count, screen, leds, run, rx, check, console, past, espVars>>

\* The loop of readUart has not come round to its next look at RRDY.
ReadBusy == AtOp("read") /\ (rx # Empty \/ check # Empty)

\* A byte of the ESP is complete in the receiver, which holds one: a byte that
\* was not read is overwritten.
Arrive ==
  /\ out # <<>>
  /\ ReadBusy => ~Prompt /\ check # Empty /\ console = ConsoleSize
  /\ out' = Tail(out)
  /\ rx' = Head(out)
  /\ UNCHANGED <<menu, run, check, console, past, mode, line, rem, job, tcp, session, inbox, drops>>

EspStep ==
  /\ EspFinish \/ BrokerClose \/ Drop
  /\ UNCHANGED <<menu, run, rx, check, console, past>>

\* The host fetches what the JTAG UART holds.
Fetch ==
  /\ console > 0
  /\ console' = 0
  /\ UNCHANGED <<menu, run, rx, check, past, espVars>>

\* The debugger resets the processor and the peripherals, not the display and
\* not the ESP, which may be in the middle of a line or of a packet.
Reset ==
  /\ pc = "sample" \/ ResetAnywhere
  /\ resets < MaxResets
  /\ resets' = resets + 1
  /\ pushbutton' = 0 /\ count' = 0 /\ leds' = 0
  /\ pc' = "boot" /\ at' = 1
  /\ rx' = Empty /\ check' = Empty /\ console' = 0
  /\ said' = FALSE
  /\ UNCHANGED <<keys, screen, chosen, before, espVars>>

Cpu == \/ TxByte \/ SleepOver \/ ReadByte \/ PrintByte \/ PutChar \/ ShowText \/ Return
       \/ Sample \/ Up \/ Down \/ Select \/ Ignore \/ HoldSample \/ Light

Next == \/ Cpu \/ Arrive \/ EspStep \/ Fetch \/ Reset
        \/ \E k \in KeyValues : Press(k)

\* The processor runs, the ESP works, the line transmits and the host fetches;
\* nobody has to press a button, drop a connection or reset anything.
Spec == /\ Init /\ [][Next]_vars
        /\ WF_vars(Cpu) /\ WF_vars(Arrive) /\ WF_vars(Fetch)
        /\ WF_vars((EspFinish \/ BrokerClose)
                   /\ UNCHANGED <<menu, run, rx, check, console, past>>)
-----------------------------------------------------------------------------
(* Every variable has a value of its type.                                  *)
TypeOK ==
  /\ EspTypeOK
  /\ keys \in KeyValues
  /\ pushbutton \in KeyValues \cup {0}
  /\ count \in Option
  /\ screen \in {Blank} \cup {Opcao[k] : k \in Option} \cup {Answer[k] : k \in Option}
  /\ leds \in 0..15
  /\ pc \in {"boot", "select", "sample", "decide", "hold", "light"}
  /\ at \in 1..Len(Script) + 1
  /\ {rx, check} \subseteq {Empty, Other} \cup {K(x) : x \in Commands \cup {"send"}}
  /\ said \in BOOLEAN
  /\ console \in 0..ConsoleSize
  /\ resets \in 0..MaxResets
  /\ {chosen, before} \subseteq Option \cup {-1}

\* The menu main would be in without the network: a selection is decided until
\* its answer is shown, and then held; the boot is over when the menu is shown.
MenuPc ==
  IF pc = "boot" THEN IF at > Len(Boot) THEN "sample" ELSE "boot"
  ELSE IF pc = "select" THEN IF screen = Answer[count] THEN "hold" ELSE "decide"
  ELSE pc

M == INSTANCE Menu WITH pc <- MenuPc

\* A reset of the processor, as the menu sees it: the display keeps its text.
MenuRestart ==
  /\ MenuPc' = "boot"
  /\ count' = 0 /\ pushbutton' = 0 /\ leds' = 0
  /\ UNCHANGED <<keys, screen>>

(* To the user the networked program is the menu of the first version: the  *)
(* same texts and LEDs for the same buttons, only later, and again after a  *)
(* reset.  With an ESP that answers, it never stops being it either.        *)
RefinesMenu ==
  M!Init /\ [][M!Next \/ MenuRestart]_(M!vars) /\ M!Live

(* The same, for as long as the program gets on at all.                     *)
MenuSteps == M!Init /\ [][M!Next \/ MenuRestart]_(M!vars)

(* readUart leaves its loop on the 'K' that answers the command writenUart  *)
(* wrote just before, not on one left over from an answer nobody read:      *)
(* connectMQTT and publishMQTT provoke several and read none.               *)
OkIsFresh == AtOp("read") /\ check[1] = "K" => check[2] = Arg

\* When a command is begun the ESP is at the start of a line and idle: the
\* lengths announced by CIPSEND were the lengths of the packets, and the CR LF
\* written after each packet has left nothing behind.
CommandsAreHeard ==
  AtOp("tx") /\ Arg[1] \in Commands /\ Arg[2] = 1 =>
    mode = "cmd" /\ job = "none" /\ line = Empty

\* Every byte of a packet reaches the ESP as a byte of that packet.
PacketsAreData ==
  AtOp("tx") /\ Arg[1] \in Packets =>
    /\ mode = "data"
    /\ rem = Size[Arg[1]] - Arg[2] + 1
    /\ line = IF Arg[2] = 1 THEN Empty ELSE <<Arg[1], Arg[2] - 1>>

(* Program and ESP8266 agree at every byte whether it belongs to a command  *)
(* or to a packet, and to which place of it; every variable has a value of  *)
(* its type.                                                                *)
DialogueInStep == TypeOK /\ CommandsAreHeard /\ PacketsAreData

(* "Message sent" is printed only after the broker has got one publish, of  *)
(* the option on the display.                                               *)
MessageSentIsTrue ==
  said /\ pc \in {"select", "hold", "light"} => inbox = <<count>>

(* Even when the ESP takes its time, connections are lost and the processor *)
(* is reset in the middle of a dialogue, every publish the broker gets is of*)
(* one of the last two selections, in their order and at most once each:    *)
(* the next CIPSEND waits behind a packet still being sent, so no more than *)
(* one can be late, and only while the ESP works.                           *)
LateAtMostOne == inbox \in { <<>>, <<chosen>>, <<before>>, <<before, chosen>> }

(* The menu is never left holding a connection: the next CIPSTART would be  *)
(* answered ALREADY CONNECTED, and readUart would wait for ever.            *)
MenuIsOffline == pc \in {"sample", "hold"} => ~tcp /\ session = "none"

(* Every start and every selection comes to an end.                         *)
RunsEnd == Running ~> ~Running
=============================================================================

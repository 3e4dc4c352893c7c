------------------------------ MODULE Esp8266 -------------------------------
(***************************************************************************)
(* The other end of the serial line (external to the repository, modelled  *)
(* from what the program sends and expects): the ESP8266 with its AT       *)
(* firmware, and behind its TCP connection the MQTT broker.                *)
(*                                                                         *)
(* A byte the program writes is a pair <<X, i>>: the i-th byte of the      *)
(* array X.  A byte the ESP writes is a pair too, and all that matters of  *)
(* it is whether it is a 'K', and of which answer: "OK" and "SEND OK" have *)
(* one, while ERROR, FAIL, CLOSED, ALREADY CONNECTED, busy and the prompt  *)
(* have none.                                                              *)
(*                                                                         *)
(* While the ESP works on a command it answers "busy" to any other line.   *)
(* After CIPSEND=n the next n bytes are the packet, whatever they are.     *)
(***************************************************************************)
EXTENDS Integers, Sequences

CONSTANTS
  Reliable,   \* the access point and the broker are always reachable
  MaxDrops,   \* bound: how often the TCP connection drops by itself
  MaxLen      \* bound: arrays are cut to this length; 39 cuts none

ASSUME EspAssumption ==
  Reliable \in BOOLEAN /\ MaxDrops \in Nat /\ MaxLen \in Nat \ {0}

Option   == 0..4
Publish(k) == <<"publish1", "publish2", "publish3", "publish4", "publish5">>[k + 1]
Publishes  == {Publish(k) : k \in Option}

\* How many bytes each array of the program has.
FullSize == [ AT |-> 2, CWMODE |-> 11, CWJAP |-> 31, CIPSTART |-> 39,
              SENDC |-> 13, SENDP |-> 13, SENDD |-> 12,
              connect |-> 20, publish1 |-> 24, publish2 |-> 24, publish3 |-> 24,
              publish4 |-> 24, publish5 |-> 24, disconnect |-> 2 ]

\* The number written in the text of each CIPSEND command; a mutated form, in
\* which the publishes have grown and their command has not.
AnnouncedOld  == [ SENDC |-> 20, SENDP |-> 27, SENDD |-> 2 ]
FullAnnounced == [ SENDC |-> 20, SENDP |-> 24, SENDD |-> 2 ]

Cut(f)    == [x \in DOMAIN f |-> IF f[x] < MaxLen THEN f[x] ELSE MaxLen]
Size      == Cut(FullSize)
Announced == Cut(FullAnnounced)

Commands == {"AT", "CWMODE", "CWJAP", "CIPSTART", "SENDC", "SENDP", "SENDD"}
Packets  == {"connect", "disconnect"} \cup Publishes

CR    == <<"CR", 1>>
LF    == <<"LF", 1>>
Empty == <<"empty", 0>>     \* nothing received
Junk  == <<"junk", 0>>      \* bytes that are not the beginning of one array

Other == <<".", "">>        \* a byte that is not 'K'
K(x)  == <<"K", x>>         \* the 'K' of the answer to x
Ok(x) == <<Other, K(x), Other>>

VARIABLES
  mode,     \* "cmd" or "data"
  line,     \* what has been received of a line or of a packet
  rem,      \* bytes of the packet still to come
  job,      \* what the ESP is working on, or "none"
  out,      \* bytes still to be sent to the program
  tcp,      \* the connection is open
  session,  \* the broker's side: "none", "open" or "closing"
  inbox,    \* the options published at the broker since inbox was cleared
  drops     \* connections lost so far

espVars == <<mode, line, rem, job, out, tcp, session, inbox, drops>>

EspInit ==
  /\ mode = "cmd" /\ line = Empty /\ rem = 0 /\ job = "none" /\ out = <<>>
  /\ tcp = FALSE /\ session = "none" /\ inbox = <<>> /\ drops = 0

\* What has been received, with one more byte.
Extend(l, b) ==
  IF \/ l = Empty /\ b[2] = 1
     \/ l[1] = b[1] /\ b[2] = l[2] + 1
  THEN b ELSE Junk

Whole(l, set) == l[1] \in set /\ l[2] = Size[l[1]]

\* A byte of the program arrives.
EspReceive(b) ==
  \/ /\ mode = "data"
     /\ rem' = rem - 1
     /\ IF rem = 1
        THEN mode' = "cmd" /\ job' = "send"
        ELSE UNCHANGED <<mode, job>>
     /\ line' = Extend(line, b)
     /\ UNCHANGED out
  \/ /\ mode = "cmd" /\ b = LF
     /\ line' = IF job = "send" THEN line ELSE Empty
     /\ IF job = "none" /\ Whole(line, Commands)
        THEN job' = line[1] /\ UNCHANGED out
        ELSE out' = Append(out, Other) /\ UNCHANGED job
     /\ UNCHANGED <<mode, rem>>
  \/ /\ mode = "cmd" /\ b # LF
     /\ line' = IF b = CR \/ job = "send" THEN line ELSE Extend(line, b)
     /\ UNCHANGED <<mode, rem, job, out>>

\* The broker gets a packet.
BrokerTake(p) ==
  IF Whole(p, {"connect"}) /\ session = "none"
  THEN session' = "open" /\ UNCHANGED inbox
  ELSE IF Whole(p, Publishes) /\ session = "open"
  THEN /\ inbox' = Append(inbox, CHOOSE k \in Option : Publish(k) = p[1])
       /\ UNCHANGED session
  ELSE session' = "closing" /\ UNCHANGED inbox    \* disconnect, or an error

\* The ESP is done with what it works on.
EspFinish ==
  /\ job # "none"
  /\ job' = "none"
  /\ \/ /\ job \in {"AT", "CWMODE", "CWJAP"}
        /\ \/ out' = out \o Ok(job)
           \/ job = "CWJAP" /\ ~Reliable /\ out' = Append(out, Other)
        /\ UNCHANGED <<mode, line, rem, tcp, session, inbox>>
     \/ /\ job = "CIPSTART"
        /\ \/ ~tcp /\ tcp' = TRUE /\ out' = out \o Ok(job)
           \/ tcp /\ UNCHANGED tcp /\ out' = Append(out, Other)
           \/ ~tcp /\ ~Reliable /\ UNCHANGED tcp /\ out' = Append(out, Other)
        /\ UNCHANGED <<mode, line, rem, session, inbox>>
     \/ /\ job \in DOMAIN Announced
        /\ IF tcp
           THEN /\ mode' = "data" /\ rem' = Announced[job] /\ line' = Empty
                /\ out' = out \o Ok(job)
           ELSE out' = Append(out, Other) /\ UNCHANGED <<mode, rem, line>>
        /\ UNCHANGED <<tcp, session, inbox>>
     \/ /\ job = "send"
        /\ IF tcp
           THEN BrokerTake(line) /\ out' = out \o Ok(job)
           ELSE out' = Append(out, Other) /\ UNCHANGED <<session, inbox>>
        /\ line' = Empty
        /\ UNCHANGED <<mode, rem, tcp>>
  /\ UNCHANGED drops

\* The connection goes down: the broker closes it, or it is lost.
Closed ==
  /\ tcp' = FALSE
  /\ session' = "none"
  /\ out' = Append(out, Other)
  /\ UNCHANGED <<mode, line, rem, job, inbox>>

BrokerClose == session = "closing" /\ Closed /\ UNCHANGED drops
Drop        == tcp /\ drops < MaxDrops /\ drops' = drops + 1 /\ Closed

\* Nothing is going on behind the serial line.
Quiet == job = "none" /\ session # "closing"

EspTypeOK ==
  /\ mode \in {"cmd", "data"}
  /\ line \in {Empty, Junk} \cup {<<x, i>> : x \in Commands \cup Packets, i \in 1..39}
                            \cup {CR, LF}
  /\ rem \in 0..24
  /\ job \in Commands \cup {"none", "send"}
  /\ out \in Seq({Other} \cup {K(x) : x \in Commands \cup {"send"}})
  /\ tcp \in BOOLEAN
  /\ session \in {"none", "open", "closing"}
  /\ inbox \in Seq(Option)
  /\ drops \in 0..MaxDrops
=============================================================================

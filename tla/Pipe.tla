-------------------------------- MODULE Pipe ---------------------------------
(***************************************************************************)
(* What a driver with buffers promises in each direction: at most Cap      *)
(* bytes are on their way, and they come out as they went in, each once.   *)
(* The bytes are numbered modulo Numbers as they go in, so that a lost, a  *)
(* doubled or a displaced one shows.                                       *)
(***************************************************************************)
EXTENDS Integers, Sequences

CONSTANTS Cap, Numbers

VARIABLES
  q,     \* on their way
  put,   \* number of the next byte to go in
  got    \* the byte that came out last

pipeVars == <<q, put, got>>

From(number, n) == [i \in 1..n |-> (number + i - 1) % Numbers]

Init == q = <<>> /\ put = 0 /\ got = 0

Put(n) ==
  /\ Len(q) + n <= Cap
  /\ q' = q \o From(put, n)
  /\ put' = (put + n) % Numbers
  /\ UNCHANGED got

Take(n) ==
  /\ n <= Len(q)
  /\ got' = q[n]
  /\ q' = SubSeq(q, n + 1, Len(q))
  /\ UNCHANGED put

Next == \E n \in 1..Cap : Put(n) \/ Take(n)

Spec == Init /\ [][Next]_pipeVars
=============================================================================

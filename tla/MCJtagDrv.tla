------------------------------ MODULE MCJtagDrv ------------------------------
(***************************************************************************)
(* JtagDrv for TLC: buffers of three places, of which two can be filled,   *)
(* FIFOs of one place and of two that are nearly empty or full only when   *)
(* they are, and calls for one byte or two.                                *)
(***************************************************************************)
EXTENDS JtagDrv

MCTimeouts == {1, 2}
MCUses == {{"write", "close"}, {"read"}, {"swrite", "sread"}}
=============================================================================

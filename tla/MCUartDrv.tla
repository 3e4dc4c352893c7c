------------------------------ MODULE MCUartDrv ------------------------------
(***************************************************************************)
(* UartDrv for TLC: buffers of four places, of which three can be filled,  *)
(* and calls for no byte, for one and for one more than fit.               *)
(***************************************************************************)
EXTENDS UartDrv

MCUses == {{"write", "close"}, {"read"},
            {"swrite"}, {"sread"}}
=============================================================================

------------------------------ MODULE MCFiles ------------------------------
(***************************************************************************)
(* Files for TLC: two tasks, the three streams and two more descriptors, a *)
(* console that is also standard output, and a file system.                *)
(***************************************************************************)
EXTENDS Files

MCNull        == <<"dev", "null">>
MCDevices     == <<<<"dev", "jtag">>>>
MCFileSystems == <<<<"mnt">>>>
MCNames       == {<<"dev", "jtag">>, <<"mnt", "a">>}
MCStreams     == <<<<"dev", "jtag">>, <<"dev", "none">>, <<"dev", "null">>>>
=============================================================================

------------------------------ MODULE MCUsbTx -------------------------------
(* Model-checking instance of UsbTx: the named sets of quiet program points. *)
EXTENDS UsbTx

NeverQuiet  == {}
\* from the ring snapshot to the store of the new counter
WriteQuiet  == {"copy", "load", "store"}
\* between start_write and the assignment of the flag
FlagQuiet   == {"flag"}
BothQuiet   == WriteQuiet \cup FlagQuiet
=============================================================================

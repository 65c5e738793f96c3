------------------------------ MODULE MCUsbRx -------------------------------
(* Model-checking instance of UsbRx: the named sets of quiet program points. *)
EXTENDS UsbRx

NeverQuiet   == {}
\* from the test that decides to restart to the restart itself
RestartQuiet == Restarting
=============================================================================

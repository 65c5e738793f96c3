-------------------------------- MODULE Fifo --------------------------------
(***************************************************************************)
(* What each direction of the USB link promises to the two ends: a FIFO.   *)
(* `put' is everything ever handed to the link, `got' everything that ever *)
(* came out of it.                                                         *)
(***************************************************************************)
EXTENDS Naturals, Sequences, SequencesExt

VARIABLES put, got

vars == <<put, got>>

Init == put = <<>> /\ got = <<>>

Put == /\ Len(put') > Len(put)
       /\ IsPrefix(put, put')
       /\ UNCHANGED got

Get == /\ Len(got') > Len(got)
       /\ IsPrefix(got, got')
       /\ IsPrefix(got', put)
       /\ UNCHANGED put

Next == Put \/ Get

\* The safety half: nothing lost, duplicated, reordered or made up.
Safety == Init /\ [][Next]_vars

\* The liveness half, for the first n units: what is put in comes out.
Delivers(n) == \A k \in 1..n : (Len(put) >= k) ~> (Len(got) >= k)
=============================================================================

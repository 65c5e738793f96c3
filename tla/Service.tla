------------------------------ MODULE Service ------------------------------
(***************************************************************************)
(* What the probe promises to the host: the commands are carried out one   *)
(* after the other; the reply of a direct command goes out when it is      *)
(* carried out, what an IR/DR access reads is held back and goes out in    *)
(* order; and once an access asks for immediate send-back, nothing more is *)
(* carried out until everything held is out.                               *)
(***************************************************************************)
EXTENDS Integers, Sequences

CONSTANTS Direct(_),   \* the command is answered at once, with one dword
          Collects(_), \* the dwords it reads and leaves to be sent later
          Urgent(_)    \* it asks for them, and for all before, to be sent

VARIABLES asked,    \* the commands the host has sent completely
          finished, \* how many of them have been carried out
          held,     \* dwords held back, each the number of its command
          out       \* dwords sent, likewise

vars == <<asked, finished, held, out>>

Init == asked = <<>> /\ finished = 0 /\ held = <<>> /\ out = <<>>

Ask == /\ Len(asked') = Len(asked) + 1
       /\ asked = SubSeq(asked', 1, Len(asked))
       /\ UNCHANGED <<finished, held, out>>

\* Nothing that an urgent command wants sent is still held.
Settled ==
  \A k \in 1..finished : Urgent(asked[k]) => \A i \in DOMAIN held : held[i] > k

Finish ==
  /\ finished < Len(asked) /\ Settled
  /\ finished' = finished + 1
  /\ LET c == asked[finished + 1]
     IN  /\ out' = IF Direct(c) THEN Append(out, finished + 1) ELSE out
         /\ held' = held \o [i \in 1..Collects(c) |-> finished + 1]
  /\ UNCHANGED asked

Release ==
  /\ \E n \in 1..Len(held) :
       /\ out' = out \o SubSeq(held, 1, n)
       /\ held' = SubSeq(held, n + 1, Len(held))
  /\ UNCHANGED <<asked, finished>>

Next == Ask \/ Finish \/ Release
Spec == Init /\ [][Next]_vars
=============================================================================

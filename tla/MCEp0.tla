------------------------------- MODULE MCEp0 --------------------------------
(* Model-checking instance of Ep0: the requests a host makes.               *)
EXTENDS Ep0

Req(kind, dirIn, length, value) ==
  [kind |-> kind, dirIn |-> dirIn, length |-> length, value |-> value]

\* Packets of 2 bytes, a buffer of 4; one reply a multiple of the packet, one not.
Lengths == [device |-> 4, config |-> 3, status |-> 2]

\* Reads of less than the reply, of all of it and of more; writes with a whole and
\* with a short last packet; requests without data; requests that are refused at
\* the SETUP and after their data.
Enumeration ==
  {Req("device", TRUE, n, 0) : n \in {1, 4, 6}}
  \cup {Req("config", TRUE, n, 0) : n \in {2, 6}}
  \cup {Req("address", FALSE, 0, a) : a \in {1, 2}}
  \cup {Req("configuration", FALSE, 0, c) : c \in {0, 1, 2}}
Running ==
  {Req("status", TRUE, 2, 0), Req("halt", FALSE, 0, 0), Req("resume", FALSE, 0, 0)}
  \cup {Req("vendor", FALSE, n, 0) : n \in {0, 3, 4}} \cup {Req("vendor", TRUE, 6, 0)}
  \cup {Req("unknown", FALSE, n, 0) : n \in {0, 2}} \cup {Req("unknown", TRUE, 2, 0)}
Usual == Enumeration \cup Running

\* What the runs for the record add.
WithInterface == Usual \cup {Req("interface", FALSE, 0, 0)}
WithLongWrite == Usual \cup {Req("vendor", FALSE, 5, 0)}

ButAddress == Kinds \ {"address"}
AnyKind == Kinds
=============================================================================

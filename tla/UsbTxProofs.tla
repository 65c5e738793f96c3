---------------------------- MODULE UsbTxProofs -----------------------------
(***************************************************************************)
(* Theorems about the transmit path that hold for every packet size, ring  *)
(* size and number of resets, and with the USB interrupt arriving at any   *)
(* program point (no assumption on QuietPcs).                              *)
(***************************************************************************)
EXTENDS UsbTx, RingBufferProofs

\* What the locals of an unfinished write promise: the room for its units.
WriteFits == pc \in {"copy", "load", "store"} => written + len <= MaxUnits

\* A packet built from the ring is at most one packet long.
LEMMA NextPacketType ==
  ASSUME TypeOK, NEW i \in Counter, NEW o \in Counter
  PROVE  NextPacket(i, o) \in Seq(0..MaxUnits) /\ Len(NextPacket(i, o)) <= Mps
<1>1. LinearRead(i, o) \in Nat /\ SlotOf(o) \in Slot
  BY RingTypes
<1>2. Least(Mps, LinearRead(i, o)) \in Nat /\ Least(Mps, LinearRead(i, o)) <= Mps
  BY <1>1, MpsAssumption DEF Least
<1>3. pool \in [Slot -> 0..MaxUnits]
  BY DEF TypeOK
<1> QED
  BY <1>1, <1>2, <1>3, CopyOutType DEF NextPacket

-----------------------------------------------------------------------------
LEMMA TypeCorrectInitially == Init => TypeOK /\ WriteFits
<1> SUFFICES ASSUME Init PROVE TypeOK /\ WriteFits
  OBVIOUS
<1>1. 0 \in Counter /\ 0 \in Slot /\ 0 \in 0..MaxUnits
  BY SizeAssumption, CounterModAssumption, BoundAssumption DEF Counter, Slot
<1>2. pma \in Seq(0..MaxUnits) /\ Len(pma) = 0 /\ host \in Seq(0..MaxUnits)
  BY EmptyIsSeq DEF Init
<1>3. Len(pma) <= Mps
  BY <1>2, MpsAssumption
<1>4. /\ in = 0 /\ out = 0 /\ tmp = 0 /\ pool = [k \in Slot |-> 0]
      /\ busy = FALSE /\ epEnable = TRUE /\ short = TRUE /\ epStatus = "nak"
      /\ pc = "idle" /\ len = 0 /\ offset = 0 /\ written = 0 /\ resets = 0
  BY DEF Init
<1>5. len \in 0..MaxCall /\ written \in 0..MaxUnits /\ resets \in 0..MaxResets
  BY <1>4, BoundAssumption
<1> QED
  BY <1>1, <1>2, <1>3, <1>4, <1>5 DEF TypeOK, WriteFits, Pcs, EpStatus

\* Every variable keeps its type, and a write in progress still fits: the ring
\* counters stay unsigned words and no packet exceeds the packet size.
THEOREM TypeCorrect == Spec => [](TypeOK /\ WriteFits)
<1> DEFINE Inv == TypeOK /\ WriteFits
<1>1. Init => Inv
  BY TypeCorrectInitially
<1>2. Inv /\ [Next]_vars => Inv'
  <2> SUFFICES ASSUME Inv, [Next]_vars PROVE Inv'
    OBVIOUS
  <2> USE DEF mainVars, ringVars, epVars, histVars
  <2>0. /\ Mps \in Nat /\ MaxCall \in Nat /\ MaxUnits \in Nat /\ MaxResets \in Nat
        /\ Size \in Nat /\ Size > 0 /\ 0 \in Counter
    BY MpsAssumption, BoundAssumption, SizeAssumption, CounterModAssumption
    DEF Counter
  <2>1. ASSUME NEW n \in 0..MaxCall, Call(n) PROVE Inv'
    <3>1. SlotOf(in) \in Slot
      BY RingTypes DEF TypeOK
    <3> QED
      BY <2>1, <3>1 DEF Call, TypeOK, WriteFits, Pcs
  <2>2. CASE Copy
    <3> DEFINE s == [i \in 1..len |-> written + i]
    <3>1. len \in Nat /\ s \in [1..len -> 0..MaxUnits]
      BY <2>0, <2>2 DEF Copy, TypeOK, WriteFits
    <3>2. s \in Seq(0..MaxUnits)
      BY <3>1, FunIsSeq
    <3>3. pool' \in [Slot -> 0..MaxUnits]
      BY <2>2, <3>2, CopyInType DEF Copy, TypeOK
    <3> QED
      BY <2>2, <3>3 DEF Copy, TypeOK, WriteFits, Pcs
  <2>3. CASE Load
    BY <2>3 DEF Load, TypeOK, WriteFits, Pcs
  <2>4. CASE Store
    <3>1. in' \in Counter
      BY <2>4, RingTypes DEF Store, TypeOK
    <3>2. written' \in 0..MaxUnits
      BY <2>0, <2>4 DEF Store, TypeOK, WriteFits
    <3> QED
      BY <2>4, <3>1, <3>2 DEF Store, TypeOK, WriteFits, Pcs
  <2>5. CASE Test
    BY <2>5 DEF Test, TypeOK, WriteFits, Pcs
  <2>6. ASSUME NEW packet \in Seq(0..MaxUnits), Len(packet) <= Mps, StartWrite(packet)
        PROVE  /\ pma' \in Seq(0..MaxUnits) /\ Len(pma') <= Mps
               /\ epStatus' \in EpStatus /\ epEnable' \in BOOLEAN
    BY <2>6 DEF StartWrite, TypeOK, EpStatus
  <2>7. CASE Start
    <3>1. NextPacket(in, out) \in Seq(0..MaxUnits) /\ Len(NextPacket(in, out)) <= Mps
      BY NextPacketType DEF TypeOK
    <3>2. /\ pma' \in Seq(0..MaxUnits) /\ Len(pma') <= Mps
          /\ epStatus' \in EpStatus /\ epEnable' \in BOOLEAN
      BY <2>6, <2>7, <3>1 DEF Start
    <3> QED
      BY <2>7, <3>2 DEF Start, TypeOK, WriteFits, Pcs
  <2>8. CASE SetFlag
    BY <2>8 DEF SetFlag, TypeOK, WriteFits, Pcs
  <2>9. CASE HostIn
    <3>1. host' \in Seq(0..MaxUnits)
      BY <2>9, ConcatProperties DEF HostIn, TypeOK
    <3> QED
      BY <2>9, <3>1 DEF HostIn, TypeOK, WriteFits, EpStatus
  <2>10. CASE InComplete
    <3> DEFINE n == Len(pma)
               o == ReadDone(in, out, n)
    <3>1. n \in Nat
      BY LenProperties DEF TypeOK
    <3>2. o \in Counter
      BY <3>1, RingTypes DEF TypeOK
    <3>3. NextPacket(in, o) \in Seq(0..MaxUnits) /\ Len(NextPacket(in, o)) <= Mps
      BY <3>2, NextPacketType DEF TypeOK
    <3> HIDE DEF o, n
    <3>4. /\ in' \in Counter /\ out' \in Counter /\ busy' \in BOOLEAN
          /\ pma' \in Seq(0..MaxUnits) /\ Len(pma') <= Mps
          /\ epStatus' \in EpStatus /\ epEnable' \in BOOLEAN
      <4>1. CASE SendZlp(n, o)
        <5>1. <<>> \in Seq(0..MaxUnits) /\ Len(<<>>) <= Mps
          BY <2>0, EmptySeq
        <5> QED
          BY <2>6, <3>2, <4>1, <5>1, Zenon DEF SendZlp, TypeOK
      <4>2. CASE SendNext(n, o)
        BY <2>6, <3>2, <3>3, <4>2 DEF SendNext, TypeOK
      <4>3. CASE EndTransmission(n, o)
        BY <2>0, <4>3 DEF EndTransmission, TypeOK, EpStatus
      <4> QED
        BY <2>10, <4>1, <4>2, <4>3 DEF InComplete, n, o
    <3> QED
      BY <2>10, <3>4 DEF InComplete, TypeOK, WriteFits
  <2>11. CASE BusReset
    <3>1. pma' \in Seq(0..MaxUnits) /\ Len(pma') = 0
      BY <2>11, EmptyIsSeq DEF BusReset
    <3>2. Len(pma') <= Mps
      BY <2>0, <3>1
    <3>3. resets' \in 0..MaxResets
      BY <2>0, <2>11 DEF BusReset, TypeOK
    <3>4. /\ UNCHANGED <<ringVars, busy, mainVars, host>>
          /\ epEnable' = FALSE /\ epStatus' = "disabled" /\ short' = TRUE
      BY <2>11 DEF BusReset
    <3> QED
      BY <3>1, <3>2, <3>3, <3>4 DEF TypeOK, WriteFits, EpStatus
  <2>12. CASE Configured
    BY <2>12 DEF Configured, TypeOK, WriteFits, EpStatus
  <2>13. CASE UNCHANGED vars
    BY <2>13 DEF vars, TypeOK, WriteFits
  <2> QED
    BY <2>1, <2>2, <2>3, <2>4, <2>5, <2>7, <2>8, <2>9, <2>10, <2>11, <2>12, <2>13
    DEF Next, Main
<1> QED
  BY <1>1, <1>2, PTL DEF Spec
-----------------------------------------------------------------------------
(***************************************************************************)
(* Who may arm the endpoint: whoever armed it last set or is about to set  *)
(* the busy flag, and usbtx only gets past its test of the flag while      *)
(* nothing is in flight.                                                   *)
(***************************************************************************)
InFlight == epStatus \in {"valid", "done"}

OneSender == /\ InFlight => busy \/ pc = "flag"
             /\ pc = "start" => ~InFlight
             /\ ~epEnable => epStatus = "disabled"

LEMMA OneSenderInvariant == Spec => []OneSender
<1>1. Init => OneSender
  BY DEF Init, OneSender, InFlight
<1>2. OneSender /\ [Next]_vars => OneSender'
  <2> SUFFICES ASSUME OneSender, [Next]_vars PROVE OneSender'
    OBVIOUS
  <2> USE DEF OneSender, InFlight, mainVars, ringVars, epVars, histVars
  <2>1. ASSUME NEW n \in 0..MaxCall, Call(n) PROVE OneSender'
    BY <2>1 DEF Call
  <2>2. CASE Copy \/ Load \/ Store
    BY <2>2 DEF Copy, Load, Store
  <2>3. CASE Test
    BY <2>3 DEF Test
  <2>4. CASE Start
    BY <2>4 DEF Start, StartWrite
  <2>5. CASE SetFlag
    BY <2>5 DEF SetFlag
  <2>6. CASE HostIn
    BY <2>6 DEF HostIn
  <2>7. CASE InComplete
    <3>1. epStatus = "done" /\ pc' = pc
      BY <2>7 DEF InComplete
    <3>2. (busy' = busy \/ epStatus' = "nak") /\ epEnable' = epEnable
      BY <2>7 DEF InComplete, SendZlp, SendNext, EndTransmission, StartWrite
    <3> QED
      BY <3>1, <3>2
  <2>8. CASE BusReset \/ Configured
    BY <2>8 DEF BusReset, Configured
  <2>9. CASE UNCHANGED vars
    BY <2>9 DEF vars
  <2> QED
    BY <2>1, <2>2, <2>3, <2>4, <2>5, <2>6, <2>7, <2>8, <2>9 DEF Next, Main
<1> QED
  BY <1>1, <1>2, PTL DEF Spec

\* A packet the host has not taken is never replaced, whatever the order of
\* the main loop's and the interrupt's steps: usbtx and the completion callback
\* cannot both be arming the endpoint.
THEOREM NeverOverArmed == Spec => NoOverwriteInFlight
<1> DEFINE Kept == epStatus = "valid" /\ epEnable' =>
                     pma' = pma /\ epStatus' \in {"valid", "done"}
<1>1. OneSender /\ [Next]_vars => [Kept]_vars
  <2> SUFFICES ASSUME OneSender, Next, epStatus = "valid", epEnable'
               PROVE  pma' = pma /\ epStatus' \in {"valid", "done"}
    OBVIOUS
  <2> USE DEF mainVars, ringVars, epVars, histVars
  <2>1. pc # "start"
    BY DEF OneSender, InFlight
  <2>2. ASSUME NEW n \in 0..MaxCall, Call(n) PROVE UNCHANGED epVars
    BY <2>2 DEF Call
  <2>3. CASE Main
    BY <2>1, <2>3 DEF Main, Copy, Load, Store, Test, Start, SetFlag
  <2>4. CASE HostIn
    BY <2>4 DEF HostIn
  <2>5. CASE InComplete
    BY <2>5 DEF InComplete
  <2>6. CASE BusReset
    BY <2>6 DEF BusReset
  <2>7. CASE Configured
    BY <2>7 DEF Configured, OneSender
  <2> QED
    BY <2>2, <2>3, <2>4, <2>5, <2>6, <2>7 DEF Next
<1> QED
  BY <1>1, OneSenderInvariant, PTL DEF Spec, NoOverwriteInFlight
-----------------------------------------------------------------------------
(***************************************************************************)
(* The last packet of a transmission.                                      *)
(***************************************************************************)
Terminating ==
  /\ epStatus = "done" => (short <=> Len(pma) < Mps)
  /\ epStatus \in {"nak", "disabled"} => short
  /\ ~epEnable => epStatus = "disabled"

\* A packet that calls for no zero-length packet after it is a short one.
LEMMA NoZlpIsShort ==
  ASSUME NEW n \in Nat, n <= Mps, ~NeedsZlp(n)
  PROVE  n < Mps
<1>1. Mps % Mps = 0
  BY MpsAssumption, SMT
<1> QED
  BY <1>1, MpsAssumption DEF NeedsZlp

\* When the transmitter is idle, the last packet the host took was a short or
\* an empty one: every bulk read of the host ends.  The zero-length packet
\* after a full one is what this rests on.
THEOREM AlwaysTerminated == Spec => []IdleIsTerminated
<1>1. Init => Terminating
  BY DEF Init, Terminating
<1>2. TypeOK /\ Terminating /\ [Next]_vars => Terminating'
  <2> SUFFICES ASSUME TypeOK, Terminating, [Next]_vars PROVE Terminating'
    OBVIOUS
  <2> USE DEF Terminating, mainVars, ringVars, epVars, histVars
  <2>1. ASSUME NEW n \in 0..MaxCall, Call(n) PROVE Terminating'
    BY <2>1 DEF Call
  <2>2. CASE Copy \/ Load \/ Store \/ Test \/ SetFlag
    BY <2>2 DEF Copy, Load, Store, Test, SetFlag
  <2>3. CASE Start
    BY <2>3 DEF Start, StartWrite
  <2>4. CASE HostIn
    BY <2>4 DEF HostIn
  <2>5. CASE InComplete
    <3> DEFINE n == Len(pma)
    <3>1. n \in Nat /\ n <= Mps
      BY LenProperties DEF TypeOK
    <3>2. epEnable /\ epEnable' = epEnable /\ short' = short
      BY <2>5 DEF InComplete, SendZlp, SendNext, EndTransmission, StartWrite
    <3>3. epStatus' = "valid" \/ (epStatus' = "nak" /\ ~NeedsZlp(n))
      BY <2>5, <3>2 DEF InComplete, SendZlp, SendNext, EndTransmission, StartWrite
    <3>4. epStatus = "done" /\ (short <=> n < Mps)
      BY <2>5 DEF InComplete
    <3> QED
      BY <3>1, <3>2, <3>3, <3>4, NoZlpIsShort
  <2>6. CASE BusReset \/ Configured
    BY <2>6 DEF BusReset, Configured
  <2>7. CASE UNCHANGED vars
    BY <2>7 DEF vars
  <2> QED
    BY <2>1, <2>2, <2>3, <2>4, <2>5, <2>6, <2>7 DEF Next, Main
<1>3. Terminating => IdleIsTerminated
  BY DEF Terminating, IdleIsTerminated
<1> QED
  BY <1>1, <1>2, <1>3, TypeCorrect, PTL DEF Spec
-----------------------------------------------------------------------------
(***************************************************************************)
(* The two windows closed and no bus reset: the interrupt is held off from *)
(* the ring offset to the new counter, and between the start of a transfer *)
(* and the assignment of the flag.                                         *)
(***************************************************************************)
Writing == {"copy", "load", "store"}
Windows == Writing \cup {"flag"}

\* Where the main loop, the ring and the endpoint stand.
Placed ==
  /\ epEnable
  /\ pc = "flag" => InFlight
  /\ pc = "start" => ~busy
  /\ pc \in Writing => offset = SlotOf(in) /\ Used(in, out) + len <= Size
  /\ pc = "store" => tmp = in
  /\ InFlight => Len(pma) <= Used(in, out)

TxInv == TypeOK /\ WriteFits /\ Placed /\ BusyIffInFlight /\ RingAccounts

LEMMA SizesFit ==
  /\ Size \in Nat /\ Size > 0 /\ Mps \in Nat /\ Mps > 0 /\ CounterMod \in Nat /\ CounterMod > Size
  /\ MaxCall \in Nat /\ MaxUnits \in Nat /\ MaxHost \in Nat /\ MaxResets \in Nat
BY SizeAssumption, CounterModAssumption, MpsAssumption, BoundAssumption

LEMMA Numbers ==
  ASSUME TxInv
  PROVE  /\ in \in Counter /\ out \in Counter /\ Used(in, out) \in Nat /\ Used(in, out) <= Size
         /\ Len(pma) \in Nat /\ Len(host) \in Nat /\ written \in Nat /\ len \in Nat
         /\ SlotOf(in) \in Nat /\ SlotOf(out) \in Nat /\ SlotOf(out) \in Slot
         /\ pool \in [Slot -> 0..MaxUnits]
<1>1. in \in Counter /\ out \in Counter /\ pool \in [Slot -> 0..MaxUnits]
  BY DEF TxInv, TypeOK
<1>2. Used(in, out) \in Nat /\ SlotOf(in) \in Slot /\ SlotOf(out) \in Slot
  BY <1>1, RingTypes
<1>3. SlotOf(in) \in Nat /\ SlotOf(out) \in Nat
  BY <1>2, SizesFit DEF Slot
<1>4. Len(pma) \in Nat /\ Len(host) \in Nat
  BY LenProperties DEF TxInv, TypeOK
<1>5. written \in Nat /\ len \in Nat
  BY SizesFit DEF TxInv, TypeOK
<1> QED
  BY <1>1, <1>2, <1>3, <1>4, <1>5 DEF TxInv, RingAccounts

LEMMA EmptyRing == \A c \in Counter : Used(c, c) = 0 /\ 0 \in Counter
<1>1. 0 \in Counter
  BY SizesFit DEF Counter
<1> QED
  BY <1>1, EmptyIffNoneUsed DEF IsEmpty

LEMMA TxInitially == Init => TxInv
<1> SUFFICES ASSUME Init PROVE TxInv
  OBVIOUS
<1>1. TypeOK /\ WriteFits
  BY TypeCorrectInitially
<1>2. Used(in, out) = 0 /\ Len(host) = 0
  BY <1>1, EmptyRing, EmptyIsSeq DEF Init, TypeOK
<1>3. Used(in, out) <= Size /\ Used(in, out) = written - Len(host)
  BY <1>2, SizesFit DEF Init
<1> QED
  BY <1>1, <1>3, SizesFit DEF Init, TxInv, Placed, BusyIffInFlight, RingAccounts, InFlight, Writing

\* A call finds the room its caller was told of.
LEMMA CallKeeps ==
  ASSUME TxInv, NEW n \in 0..MaxCall, Call(n)
  PROVE  (Placed /\ BusyIffInFlight /\ RingAccounts)'
<1> USE DEF mainVars, ringVars, epVars, histVars
<1>1. /\ pc = "idle" /\ pc' = "copy" /\ len' = n /\ offset' = SlotOf(in) /\ n <= Free(in, out)
      /\ UNCHANGED <<in, out, busy, epEnable, epStatus, pma, written, host>>
  BY DEF Call
<1>2. Free(in, out) = Size - Used(in, out)
  BY Numbers, FreeIs
<1>3. Used(in, out) + n <= Size
  BY <1>1, <1>2, Numbers, SizesFit
<1> QED
  BY <1>1, <1>3 DEF TxInv, Placed, BusyIffInFlight, RingAccounts, InFlight, Writing

LEMMA CopyLoadKeep ==
  ASSUME TxInv, Copy \/ Load
  PROVE  (Placed /\ BusyIffInFlight /\ RingAccounts)'
<1> USE DEF mainVars, ringVars, epVars, histVars
<1>1. /\ pc \in {"copy", "load"} /\ pc' \in {"load", "store"} /\ (pc' = "store" => tmp' = in)
      /\ UNCHANGED <<in, out, busy, epEnable, epStatus, pma, len, offset, written, host>>
  BY DEF Copy, Load
<1>2. BusyIffInFlight' /\ RingAccounts'
  BY <1>1 DEF TxInv, BusyIffInFlight, RingAccounts
<1>3. Placed'
  BY <1>1 DEF TxInv, Placed, InFlight, Writing
<1> QED
  BY <1>2, <1>3

LEMMA StoreKeeps ==
  ASSUME TxInv, Store
  PROVE  (Placed /\ BusyIffInFlight /\ RingAccounts)'
<1> USE DEF mainVars, ringVars, epVars, histVars
<1>1. /\ pc = "store" /\ pc' = "test" /\ in' = Advance(in, len) /\ written' = written + len
      /\ UNCHANGED <<out, busy, epEnable, epStatus, pma, host>>
  BY DEF Store, TxInv, Placed
<1>2. Used(in, out) + len <= Size
  BY <1>1 DEF TxInv, Placed, Writing
<1>3. Used(in', out') = Used(in, out) + len
  BY <1>1, <1>2, Numbers, UsedAfterWrite
<1>4. Placed'
  <2>1. InFlight' => Len(pma') <= Used(in', out')
    BY <1>1, <1>3, Numbers DEF TxInv, Placed, InFlight
  <2> QED
    BY <1>1, <2>1 DEF TxInv, Placed, Writing
<1>5. BusyIffInFlight'
  BY <1>1 DEF TxInv, BusyIffInFlight
<1>6. RingAccounts'
  <2> DEFINE d == IF epStatus = "done" THEN Len(pma) ELSE 0
  <2>1. d \in Nat /\ d' = d
    BY <1>1, Numbers
  <2>2. Used(in, out) = written - Len(host) + d
    BY DEF TxInv, RingAccounts
  <2> HIDE DEF d
  <2>3. Used(in', out') = written' - Len(host') + d' /\ Used(in', out') <= Size
    BY <1>1, <1>2, <1>3, <2>1, <2>2, Numbers
  <2> QED
    BY <2>3 DEF RingAccounts, d
<1> QED
  BY <1>4, <1>5, <1>6

LEMMA TestKeeps ==
  ASSUME TxInv, Test
  PROVE  (Placed /\ BusyIffInFlight /\ RingAccounts)'
BY DEF Test, TxInv, Placed, BusyIffInFlight, RingAccounts, InFlight, Writing,
       mainVars, ringVars, epVars, histVars

\* A packet holds no more than the ring.
LEMMA PacketFits ==
  ASSUME TypeOK, NEW i \in Counter, NEW o \in Counter
  PROVE  /\ Least(Mps, LinearRead(i, o)) \in Nat
         /\ Len(NextPacket(i, o)) = Least(Mps, LinearRead(i, o))
         /\ Len(NextPacket(i, o)) <= Used(i, o)
<1>1. LinearRead(i, o) \in Nat /\ Used(i, o) \in Nat /\ SlotOf(o) \in Slot
  BY RingTypes
<1>2. Least(Mps, LinearRead(i, o)) \in Nat /\ Least(Mps, LinearRead(i, o)) <= LinearRead(i, o)
  BY <1>1, SizesFit DEF Least
<1>3. LinearRead(i, o) <= Used(i, o)
  <2>1. Size - SlotOf(o) \in Int
    BY <1>1, SizesFit DEF Slot
  <2> QED
    BY <1>1, <2>1 DEF LinearRead, Least
<1>4. pool \in [Slot -> 0..MaxUnits]
  BY DEF TypeOK
<1>5. Len(NextPacket(i, o)) = Least(Mps, LinearRead(i, o))
  BY <1>1, <1>2, <1>4, CopyOutType DEF NextPacket
<1> QED
  BY <1>1, <1>2, <1>3, <1>5

LEMMA StartKeeps ==
  ASSUME TxInv, Start
  PROVE  (Placed /\ BusyIffInFlight /\ RingAccounts)'
<1> USE DEF mainVars, ringVars, epVars, histVars
<1>1. /\ pc = "start" /\ pc' = "flag" /\ epStatus' = "valid" /\ epEnable' /\ epStatus # "done"
      /\ pma' = NextPacket(in, out) /\ UNCHANGED <<in, out, busy, written, host>>
  BY DEF Start, StartWrite, TxInv, Placed, BusyIffInFlight
<1>2. Len(pma') <= Used(in', out')
  <2>1. Len(NextPacket(in, out)) <= Used(in, out)
    BY Numbers, PacketFits DEF TxInv
  <2> QED
    BY <1>1, <2>1
<1> QED
  BY <1>1, <1>2 DEF TxInv, Placed, BusyIffInFlight, RingAccounts, InFlight, Writing

LEMMA SetFlagKeeps ==
  ASSUME TxInv, SetFlag
  PROVE  (Placed /\ BusyIffInFlight /\ RingAccounts)'
BY DEF SetFlag, TxInv, Placed, BusyIffInFlight, RingAccounts, InFlight, Writing,
       mainVars, ringVars, epVars, histVars

LEMMA HostInKeeps ==
  ASSUME TxInv, HostIn
  PROVE  /\ (Placed /\ BusyIffInFlight /\ RingAccounts)'
         /\ Len(host') = Len(host) + Len(pma)
<1> USE DEF mainVars, ringVars, epVars, histVars
<1>1. /\ epStatus = "valid" /\ epStatus' = "done" /\ host' = host \o pma
      /\ UNCHANGED <<in, out, busy, epEnable, pma, pc, len, offset, tmp, written>>
  BY DEF HostIn
<1>2. Len(host') = Len(host) + Len(pma)
  <2>1. host \in Seq(0..MaxUnits) /\ pma \in Seq(0..MaxUnits)
    BY DEF TxInv, TypeOK
  <2> QED
    BY <1>1, <2>1, Longer
<1>3. Placed' /\ BusyIffInFlight'
  BY <1>1 DEF TxInv, Placed, BusyIffInFlight, InFlight, Writing
<1>4. RingAccounts'
  <2>1. Used(in, out) = written - Len(host) /\ Used(in, out) <= Size
    BY <1>1, Numbers DEF TxInv, RingAccounts
  <2>2. Used(in', out') = (written' - Len(host')) + Len(pma') /\ Used(in', out') <= Size
    BY <1>1, <1>2, <2>1, Numbers
  <2> QED
    BY <1>1, <2>2 DEF RingAccounts
<1> QED
  BY <1>2, <1>3, <1>4

\* The interrupt, once the packet's units have left the ring.
LEMMA Drained ==
  ASSUME TxInv, InComplete, Windows \subseteq QuietPcs
  PROVE  LET n == Len(pma)
             o == Advance(out, n)
         IN  /\ epStatus = "done" /\ pc \notin Windows /\ busy /\ epEnable
             /\ n <= Used(in, out) /\ ReadDone(in, out, n) = o
             /\ o \in Counter /\ Used(in, o) = Used(in, out) - n
             /\ Used(in, o) = written - Len(host)
             /\ UNCHANGED <<pool, epEnable, pc, len, offset, tmp, written, host, short, resets>>
             /\ \/ /\ out' = o /\ in' = in /\ busy' = busy /\ epStatus' = "valid"
                   /\ pma' = <<>> \/ pma' = NextPacket(in, o)
                \/ /\ in = o /\ in' = 0 /\ out' = 0 /\ busy' = FALSE /\ epStatus' = "nak"
                   /\ pma' = pma
<1> USE DEF mainVars, ringVars, epVars, histVars
<1> DEFINE n == Len(pma)
           o == Advance(out, n)
<1>1. /\ epStatus = "done" /\ pc \notin Windows
      /\ UNCHANGED <<pool, pc, len, offset, tmp, written, host, short, resets>>
  BY DEF InComplete
<1>2. busy /\ epEnable /\ n <= Used(in, out)
  BY <1>1 DEF TxInv, BusyIffInFlight, Placed, InFlight, Windows
<1>3. ReadDone(in, out, n) = o
  BY <1>2, Numbers DEF ReadDone, Least
<1>4. o \in Counter /\ Used(in, o) = Used(in, out) - n
  BY <1>2, Numbers, UsedAfterRead
<1>5. Used(in, o) = written - Len(host)
  <2>1. Used(in, out) = (written - Len(host)) + n
    BY <1>1, Numbers DEF TxInv, RingAccounts
  <2> HIDE DEF o, n
  <2>2. n \in Nat
    BY Numbers DEF n
  <2> QED
    BY <1>4, <2>1, <2>2, Numbers
<1>6. SendZlp(n, o) \/ SendNext(n, o) \/ EndTransmission(n, o)
  BY <1>3 DEF InComplete
<1> HIDE DEF n, o
<1>7. /\ epEnable' = epEnable
      /\ \/ /\ out' = o /\ in' = in /\ busy' = busy /\ epStatus' = "valid"
            /\ pma' = <<>> \/ pma' = NextPacket(in, o)
         \/ /\ in = o /\ in' = 0 /\ out' = 0 /\ busy' = FALSE /\ epStatus' = "nak"
            /\ pma' = pma
  BY <1>2, <1>6 DEF SendZlp, SendNext, EndTransmission, StartWrite, IsEmpty
<1> QED
  BY <1>1, <1>2, <1>3, <1>4, <1>5, <1>7 DEF n, o

LEMMA InCompleteKeeps ==
  ASSUME TxInv, InComplete, Windows \subseteq QuietPcs
  PROVE  (Placed /\ BusyIffInFlight /\ RingAccounts)'
<1> DEFINE n == Len(pma)
           o == Advance(out, n)
<1>1. /\ epStatus = "done" /\ pc \notin Windows /\ busy /\ epEnable
      /\ n <= Used(in, out) /\ o \in Counter /\ Used(in, o) = Used(in, out) - n
      /\ Used(in, o) = written - Len(host)
      /\ UNCHANGED <<pool, epEnable, pc, len, offset, tmp, written, host, short, resets>>
      /\ \/ /\ out' = o /\ in' = in /\ busy' = busy /\ epStatus' = "valid"
            /\ pma' = <<>> \/ pma' = NextPacket(in, o)
         \/ /\ in = o /\ in' = 0 /\ out' = 0 /\ busy' = FALSE /\ epStatus' = "nak"
            /\ pma' = pma
  BY Drained
<1>2. Used(in, o) <= Size /\ Used(in, o) \in Nat /\ pc # "start"
  <2>1. pc # "start"
    BY <1>1 DEF TxInv, Placed
  <2>2. n \in Nat
    BY Numbers
  <2> HIDE DEF n, o
  <2> QED
    BY <1>1, <2>1, <2>2, Numbers, SizesFit
<1> HIDE DEF n, o
<1>3. CASE epStatus' = "valid"
  <2>1. out' = o /\ in' = in /\ busy' = busy /\ (pma' = <<>> \/ pma' = NextPacket(in, o))
    BY <1>1, <1>3
  <2>2. Len(pma') <= Used(in, o)
    <3>1. Len(NextPacket(in, o)) <= Used(in, o)
      BY <1>1, Numbers, PacketFits DEF TxInv
    <3>2. Len(<<>>) <= Used(in, o)
      BY <1>2, EmptySeq
    <3> QED
      BY <2>1, <3>1, <3>2
  <2>3. Used(in', out') = written' - Len(host') /\ Used(in', out') <= Size
    BY <1>1, <1>2, <2>1
  <2>4. RingAccounts'
    BY <1>3, <2>3, Numbers, <1>1 DEF RingAccounts
  <2> QED
    BY <1>1, <1>2, <1>3, <2>1, <2>2, <2>4 DEF Placed, BusyIffInFlight, InFlight, Windows, Writing
<1>4. CASE epStatus' # "valid"
  <2>1. in = o /\ in' = 0 /\ out' = 0 /\ busy' = FALSE /\ epStatus' = "nak"
    BY <1>1, <1>4
  <2>2. Used(in, o) = 0 /\ Used(in', out') = 0
    BY <1>1, <2>1, EmptyRing
  <2>3. written' - Len(host') = 0
    BY <1>1, <2>2
  <2>4. RingAccounts'
    BY <2>1, <2>2, <2>3, <1>1, Numbers, SizesFit DEF RingAccounts
  <2> QED
    BY <1>1, <1>2, <2>1, <2>4 DEF Placed, BusyIffInFlight, InFlight, Windows, Writing
<1> QED
  BY <1>3, <1>4

LEMMA TxKept ==
  ASSUME Windows \subseteq QuietPcs, MaxResets = 0
  PROVE  TxInv /\ TypeOK' /\ WriteFits' /\ [Next]_vars => TxInv'
<1> SUFFICES ASSUME TxInv, TypeOK', WriteFits', [Next]_vars
             PROVE  (Placed /\ BusyIffInFlight /\ RingAccounts)'
  BY DEF TxInv
<1>1. ASSUME NEW n \in 0..MaxCall, Call(n) PROVE (Placed /\ BusyIffInFlight /\ RingAccounts)'
  BY <1>1, CallKeeps
<1>2. CASE Main
  BY <1>2, CopyLoadKeep, StoreKeeps, TestKeeps, StartKeeps, SetFlagKeeps DEF Main
<1>3. CASE HostIn
  BY <1>3, HostInKeeps
<1>4. CASE InComplete
  BY <1>4, InCompleteKeeps
<1>5. CASE BusReset
  BY <1>5 DEF BusReset, TxInv, TypeOK
<1>6. CASE Configured
  BY <1>6 DEF Configured, TxInv, Placed
<1>7. CASE UNCHANGED vars
  BY <1>7 DEF vars, TxInv, Placed, BusyIffInFlight, RingAccounts, InFlight
<1> QED
  BY <1>1, <1>2, <1>3, <1>4, <1>5, <1>6, <1>7 DEF Next

\* With the two windows closed the flag says whether a packet is in flight, and the
\* ring holds just what was written and has not been taken out.
THEOREM FlagAndRingTruthful ==
  ASSUME Windows \subseteq QuietPcs, MaxResets = 0
  PROVE  Spec => [](BusyIffInFlight /\ RingAccounts)
<1>1. TxInv => BusyIffInFlight /\ RingAccounts
  BY DEF TxInv
<1> QED
  BY <1>1, TxInitially, TxKept, TypeCorrect, PTL DEF Spec

\* The flag alone: whoever reads ep_tx_busy_flag, in the main loop or in the
\* completion, learns whether the endpoint still holds a packet.
THEOREM FlagMeansInFlight ==
  ASSUME Windows \subseteq QuietPcs, MaxResets = 0
  PROVE  Spec => []BusyIffInFlight
<1>1. Spec => [](BusyIffInFlight /\ RingAccounts)
  BY FlagAndRingTruthful
<1>2. BusyIffInFlight /\ RingAccounts => BusyIffInFlight
  OBVIOUS
<1> QED
  BY <1>1, <1>2, PTL
-----------------------------------------------------------------------------
(***************************************************************************)
(* The units themselves.  Gone units have left the ring; the ring holds    *)
(* the next ones, and the packet in flight is the beginning of the ring.   *)
(***************************************************************************)
Gone == Len(host) - (IF epStatus = "done" THEN Len(pma) ELSE 0)

TakenInOrder == \A k \in 1..Len(host) : host[k] = k
RingInOrder ==
  \A j \in Nat : j < Used(in, out) => pool[(SlotOf(out) + j) % Size] = Gone + j + 1
WriteInOrder ==
  pc \in {"load", "store"} =>
    \A j \in Nat : j < len => pool[(SlotOf(in) + j) % Size] = written + j + 1
PacketInOrder ==
  epStatus = "valid" => \A k \in 1..Len(pma) : pma[k] = Len(host) + k

InOrder == TakenInOrder /\ RingInOrder /\ WriteInOrder /\ PacketInOrder

LEMMA GoneIs ==
  ASSUME TxInv
  PROVE  Gone \in Int /\ Gone + Used(in, out) = written
<1> DEFINE d == IF epStatus = "done" THEN Len(pma) ELSE 0
<1>1. d \in Nat /\ Gone = Len(host) - d /\ Used(in, out) = (written - Len(host)) + d
  BY Numbers DEF Gone, TxInv, RingAccounts
<1> HIDE DEF d
<1> QED
  BY <1>1, Numbers

LEMMA OrderInitially == Init => InOrder
<1> SUFFICES ASSUME Init PROVE InOrder
  OBVIOUS
<1>1. Used(in, out) = 0 /\ Len(host) = 0
  BY EmptyRing, EmptyIsSeq, TypeCorrectInitially DEF Init, TypeOK
<1> QED
  BY <1>1 DEF Init, InOrder, TakenInOrder, RingInOrder, WriteInOrder, PacketInOrder

\* The units of the call go behind those of the ring, which stay.
LEMMA CopyInOrder ==
  ASSUME TxInv, InOrder, Copy
  PROVE  InOrder'
<1> USE DEF mainVars, ringVars, epVars, histVars
<1> DEFINE s == [i \in 1..len |-> written + i]
<1>1. /\ pc = "copy" /\ pool' = CopyIn(pool, SlotOf(in), s)
      /\ Used(in, out) + len <= Size
      /\ UNCHANGED <<in, out, epStatus, pma, len, written, host>>
  BY DEF Copy, TxInv, Placed, Writing
<1>2. s \in Seq(0..MaxUnits) /\ Len(s) = len
  <2>1. s \in [1..len -> 0..MaxUnits]
    BY <1>1, Numbers, SizesFit DEF TxInv, WriteFits
  <2> QED
    BY <2>1, Numbers, FunIsSeq
<1>3. \A i \in 1..len : s[i] = written + i
  OBVIOUS
<1> HIDE DEF s
<1>4. /\ \A t \in Nat : t < len => pool'[(SlotOf(in) + t) % Size] = s[t + 1]
      /\ \A j \in Nat : j < Used(in, out) =>
           pool'[(SlotOf(out) + j) % Size] = pool[(SlotOf(out) + j) % Size]
  <2>1. Used(in, out) + Len(s) <= Size
    BY <1>1, <1>2
  <2>2. in \in Counter /\ out \in Counter /\ pool \in [Slot -> 0..MaxUnits]
    BY Numbers
  <2>3. /\ \A t \in Nat : t < Len(s) =>
              CopyIn(pool, SlotOf(in), s)[(SlotOf(in) + t) % Size] = s[t + 1]
        /\ \A j \in Nat : j < Used(in, out) =>
              CopyIn(pool, SlotOf(in), s)[(SlotOf(out) + j) % Size] = pool[(SlotOf(out) + j) % Size]
    <3> DEFINE T == 0..MaxUnits
    <3>1. pool \in [Slot -> T] /\ s \in Seq(T)
      BY <1>2, <2>2
    <3> HIDE DEF T
    <3> QED
      BY <2>1, <2>2, <3>1, CopiedIn
  <2> QED
    BY <1>1, <1>2, <2>3
<1>5. WriteInOrder'
  <2> SUFFICES ASSUME NEW j \in Nat, j < len
               PROVE  pool'[(SlotOf(in) + j) % Size] = written + j + 1
    BY <1>1 DEF WriteInOrder
  <2>1. j + 1 \in 1..len /\ written + (j + 1) = written + j + 1
    BY Numbers
  <2>2. s[j + 1] = written + j + 1
    BY <1>3, <2>1
  <2> QED
    BY <1>4, <2>2
<1>6. Gone' = Gone
  BY <1>1 DEF Gone
<1>7. RingInOrder'
  BY <1>1, <1>4, <1>6 DEF InOrder, RingInOrder
<1> QED
  BY <1>1, <1>5, <1>7 DEF InOrder, TakenInOrder, PacketInOrder

LEMMA StoreInOrder ==
  ASSUME TxInv, InOrder, Store
  PROVE  InOrder'
<1> USE DEF mainVars, ringVars, epVars, histVars
<1>1. /\ pc = "store" /\ pc' = "test" /\ in' = Advance(in, len)
      /\ Used(in, out) + len <= Size
      /\ UNCHANGED <<out, pool, epStatus, pma, host>>
  BY DEF Store, TxInv, Placed, Writing
<1>2. Used(in', out') = Used(in, out) + len
  BY <1>1, Numbers, UsedAfterWrite
<1>3. Gone' = Gone
  BY <1>1 DEF Gone
<1>4. RingInOrder'
  <2> SUFFICES ASSUME NEW j \in Nat, j < Used(in, out) + len
               PROVE  pool[(SlotOf(out) + j) % Size] = Gone + j + 1
    BY <1>1, <1>2, <1>3 DEF RingInOrder
  <2>1. CASE j < Used(in, out)
    BY <2>1 DEF InOrder, RingInOrder
  <2>2. CASE ~(j < Used(in, out))
    <3> DEFINE t == j - Used(in, out)
    <3>1. t \in Nat /\ t < len /\ j = Used(in, out) + t
      BY <2>2, Numbers
    <3> HIDE DEF t
    <3>2. pool[(SlotOf(in) + t) % Size] = written + t + 1
      BY <1>1, <3>1 DEF InOrder, WriteInOrder
    <3>3. (SlotOf(in) + t) % Size = (SlotOf(out) + Used(in, out) + t) % Size
      BY <3>1, Numbers, SlotBehind
    <3>4. SlotOf(out) + j = SlotOf(out) + Used(in, out) + t
      BY <3>1, Numbers
    <3>5. Gone + j + 1 = written + t + 1
      BY <3>1, GoneIs, Numbers
    <3> QED
      BY <3>2, <3>3, <3>4, <3>5
  <2> QED
    BY <2>1, <2>2
<1> QED
  BY <1>1, <1>4 DEF InOrder, TakenInOrder, WriteInOrder, PacketInOrder

\* A packet taken from a ring that is in order.
LEMMA PacketFrom ==
  ASSUME TypeOK, NEW i \in Counter, NEW o \in Counter, NEW base \in Int,
         \A j \in Nat : j < Used(i, o) => pool[(SlotOf(o) + j) % Size] = base + j + 1
  PROVE  \A k \in 1..Len(NextPacket(i, o)) : NextPacket(i, o)[k] = base + k
<1> DEFINE n == Least(Mps, LinearRead(i, o))
<1>1. n \in Nat /\ Len(NextPacket(i, o)) = n /\ n <= Used(i, o) /\ SlotOf(o) \in Nat
      /\ Used(i, o) \in Nat
  <2>1. SlotOf(o) \in Slot /\ Used(i, o) \in Nat
    BY RingTypes
  <2> QED
    BY <2>1, PacketFits, SizesFit DEF Slot
<1>2. NextPacket(i, o) = CopyOut(pool, SlotOf(o), n)
  BY DEF NextPacket
<1> HIDE DEF n
<1> SUFFICES ASSUME NEW k \in 1..n PROVE CopyOut(pool, SlotOf(o), n)[k] = base + k
  BY <1>1, <1>2
<1>3. CopyOut(pool, SlotOf(o), n)[k] = pool[(SlotOf(o) + k - 1) % Size]
  BY DEF CopyOut
<1>4. k - 1 \in Nat /\ k - 1 < Used(i, o) /\ SlotOf(o) + k - 1 = SlotOf(o) + (k - 1)
      /\ base + (k - 1) + 1 = base + k
  BY <1>1
<1>5. pool[(SlotOf(o) + (k - 1)) % Size] = base + (k - 1) + 1
  BY <1>4
<1> QED
  BY <1>3, <1>4, <1>5

LEMMA StartInOrder ==
  ASSUME TxInv, InOrder, Start
  PROVE  InOrder'
<1> USE DEF mainVars, ringVars, epVars, histVars
<1>1. /\ pc = "start" /\ pc' = "flag" /\ epStatus' = "valid" /\ epStatus # "done"
      /\ pma' = NextPacket(in, out) /\ UNCHANGED <<in, out, pool, written, host>>
  BY DEF Start, StartWrite, TxInv, Placed, BusyIffInFlight
<1>2. Gone = Len(host) /\ Gone' = Gone
  BY <1>1, Numbers DEF Gone
<1>3. \A k \in 1..Len(NextPacket(in, out)) : NextPacket(in, out)[k] = Gone + k
  BY Numbers, GoneIs, PacketFrom DEF InOrder, RingInOrder, TxInv
<1>4. PacketInOrder'
  BY <1>1, <1>2, <1>3 DEF PacketInOrder
<1> QED
  BY <1>1, <1>2, <1>4 DEF InOrder, TakenInOrder, RingInOrder, WriteInOrder

LEMMA HostInInOrder ==
  ASSUME TxInv, InOrder, HostIn
  PROVE  InOrder'
<1> USE DEF mainVars, ringVars, epVars, histVars
<1>1. /\ epStatus = "valid" /\ epStatus' = "done" /\ host' = host \o pma
      /\ UNCHANGED <<in, out, pool, pma, pc, len, written>>
  BY DEF HostIn
<1>2. host \in Seq(0..MaxUnits) /\ pma \in Seq(0..MaxUnits)
  BY DEF TxInv, TypeOK
<1>3. Len(host') = Len(host) + Len(pma)
  BY HostInKeeps
<1>4. Gone' = Gone
  BY <1>1, <1>3, Numbers DEF Gone
<1>5. TakenInOrder'
  <2> SUFFICES ASSUME NEW k \in 1..Len(host') PROVE host'[k] = k
    BY DEF TakenInOrder
  <2>1. CASE k <= Len(host)
    <3>1. k \in 1..Len(host)
      BY <1>3, <2>1, Numbers
    <3>2. (host \o pma)[k] = host[k]
      BY <1>2, <3>1, Longer, Zenon
    <3> QED
      BY <1>1, <3>1, <3>2 DEF InOrder, TakenInOrder
  <2>2. CASE k > Len(host)
    <3>1. k - Len(host) \in 1..Len(pma)
      BY <1>3, <2>2, Numbers
    <3>2. (host \o pma)[k] = pma[k - Len(host)]
      BY <1>2, <1>3, <2>2, Numbers, ConcatProperties
    <3>3. pma[k - Len(host)] = Len(host) + (k - Len(host))
      BY <1>1, <3>1 DEF InOrder, PacketInOrder
    <3> QED
      BY <1>1, <3>2, <3>3, Numbers
  <2> QED
    BY <1>3, <2>1, <2>2, Numbers
<1> QED
  BY <1>1, <1>4, <1>5 DEF InOrder, RingInOrder, WriteInOrder, PacketInOrder

LEMMA InCompleteInOrder ==
  ASSUME TxInv, InOrder, InComplete, Windows \subseteq QuietPcs
  PROVE  InOrder'
<1> DEFINE n == Len(pma)
           o == Advance(out, n)
<1>1. /\ epStatus = "done" /\ pc \notin Windows
      /\ n <= Used(in, out) /\ o \in Counter /\ Used(in, o) = Used(in, out) - n
      /\ UNCHANGED <<pool, pc, len, written, host>>
      /\ \/ /\ out' = o /\ in' = in /\ epStatus' = "valid"
            /\ pma' = <<>> \/ pma' = NextPacket(in, o)
         \/ /\ in = o /\ in' = 0 /\ out' = 0 /\ epStatus' = "nak"
  BY Drained
<1>2. n \in Nat /\ Gone \in Int /\ Len(host) = Gone + n /\ Gone' = Len(host) /\ n <= Size
  <2>1. Gone = Len(host) - n
    BY <1>1 DEF Gone
  <2>2. epStatus' # "done" /\ Len(host') = Len(host)
    BY <1>1
  <2>3. Gone' = Len(host)
    BY <2>2, Numbers DEF Gone
  <2> QED
    BY <1>1, <2>1, <2>3, Numbers, GoneIs, SizesFit
<1>3. \A j \in Nat : j < Used(in, o) => pool[(SlotOf(o) + j) % Size] = Len(host) + j + 1
  <2> SUFFICES ASSUME NEW j \in Nat, j < Used(in, o)
               PROVE  pool[(SlotOf(o) + j) % Size] = Len(host) + j + 1
    OBVIOUS
  <2>1. (SlotOf(o) + j) % Size = (SlotOf(out) + n + j) % Size
    BY <1>2, Numbers, SlotAfter
  <2> HIDE DEF n, o
  <2>2. n + j \in Nat /\ n + j < Used(in, out) /\ SlotOf(out) + (n + j) = SlotOf(out) + n + j
    BY <1>1, <1>2, Numbers
  <2>3. pool[(SlotOf(out) + (n + j)) % Size] = Gone + (n + j) + 1
    BY <2>2 DEF InOrder, RingInOrder
  <2> QED
    BY <1>2, <2>1, <2>2, <2>3
<1> HIDE DEF n, o
<1>4. PacketInOrder' /\ RingInOrder'
  <2>1. CASE epStatus' = "valid"
    <3>1. out' = o /\ in' = in /\ (pma' = <<>> \/ pma' = NextPacket(in, o))
      BY <1>1, <2>1
    <3>2. RingInOrder'
      BY <1>1, <1>2, <1>3, <3>1 DEF RingInOrder
    <3>3. \A k \in 1..Len(NextPacket(in, o)) : NextPacket(in, o)[k] = Len(host) + k
      <4>1. in \in Counter /\ o \in Counter /\ Len(host) \in Int /\ TypeOK
        BY <1>1, Numbers DEF TxInv
      <4> QED
        BY <1>3, <4>1, PacketFrom, Zenon
    <3>4. \A k \in 1..Len(pma') : pma'[k] = Len(host) + k
      <4>1. CASE pma' = <<>>
        <5>1. 1..Len(<<>>) = {}
          BY EmptySeq
        <5> QED
          BY <4>1, <5>1
      <4>2. CASE pma' = NextPacket(in, o)
        BY <3>3, <4>2
      <4> QED
        BY <3>1, <4>1, <4>2
    <3>5. host' = host
      BY <1>1
    <3> QED
      BY <3>2, <3>4, <3>5 DEF PacketInOrder
  <2>2. CASE epStatus' # "valid"
    <3>1. in' = 0 /\ out' = 0
      BY <1>1, <2>2
    <3>2. Used(in', out') = 0
      BY <3>1, Numbers, EmptyRing
    <3> QED
      BY <2>2, <3>2 DEF PacketInOrder, RingInOrder
  <2> QED
    BY <2>1, <2>2
<1> QED
  BY <1>1, <1>4 DEF InOrder, TakenInOrder, WriteInOrder, Windows, Writing

LEMMA OrderKept ==
  ASSUME Windows \subseteq QuietPcs, MaxResets = 0
  PROVE  TxInv /\ InOrder /\ [Next]_vars => InOrder'
<1> SUFFICES ASSUME TxInv, InOrder, [Next]_vars PROVE InOrder'
  OBVIOUS
<1> USE DEF mainVars, ringVars, epVars, histVars
<1>1. ASSUME NEW n \in 0..MaxCall, Call(n) PROVE InOrder'
  BY <1>1 DEF Call, InOrder, TakenInOrder, RingInOrder, WriteInOrder, PacketInOrder, Gone
<1>2. CASE Load
  BY <1>2 DEF Load, InOrder, TakenInOrder, RingInOrder, WriteInOrder, PacketInOrder, Gone,
     TxInv, TypeOK
<1>3. CASE Test \/ SetFlag
  BY <1>3 DEF Test, SetFlag, InOrder, TakenInOrder, RingInOrder, WriteInOrder, PacketInOrder, Gone
<1>4. CASE BusReset
  BY <1>4 DEF BusReset, TxInv, TypeOK
<1>5. CASE Configured
  BY <1>5 DEF Configured, TxInv, Placed
<1>6. CASE UNCHANGED vars
  BY <1>6 DEF vars, InOrder, TakenInOrder, RingInOrder, WriteInOrder, PacketInOrder, Gone
<1> QED
  BY <1>1, <1>2, <1>3, <1>4, <1>5, <1>6, CopyInOrder, StoreInOrder, StartInOrder,
     HostInInOrder, InCompleteInOrder DEF Next, Main

\* Nothing of what was taken was not written.
LEMMA NoneMadeUp ==
  ASSUME TxInv
  PROVE  Len(host) <= written
<1> DEFINE d == IF epStatus = "done" THEN Len(pma) ELSE 0
<1>1. d \in Nat /\ d <= Used(in, out) /\ Used(in, out) = (written - Len(host)) + d
  BY Numbers DEF TxInv, Placed, InFlight, RingAccounts
<1> HIDE DEF d
<1> QED
  BY <1>1, Numbers

\* With the two windows closed the n-th unit the host takes is the n-th that usbtx
\* was given, however the two overlap and the ring wraps.
THEOREM UnitsInOrder ==
  ASSUME Windows \subseteq QuietPcs, MaxResets = 0
  PROVE  Spec => []HostInOrder
<1>1. TxInv /\ InOrder => HostInOrder
  BY NoneMadeUp DEF InOrder, TakenInOrder, HostInOrder
<1> QED
  BY <1>1, TxInitially, TxKept, OrderInitially, OrderKept, TypeCorrect, PTL DEF Spec
-----------------------------------------------------------------------------
(***************************************************************************)
(* The path is a FIFO: every step puts units in, or takes out the next     *)
(* ones, or leaves both ends alone.                                        *)
(***************************************************************************)
LEMMA IsPrefixOf ==
  ASSUME NEW S, NEW s \in Seq(S), NEW t \in Seq(S), Len(s) <= Len(t),
         \A k \in 1..Len(s) : s[k] = t[k]
  PROVE  TxFifo!IsPrefix(s, t)
BY SamePrefix DEF TxFifo!IsPrefix

\* What was put in.
Put == UpTo(written)

LEMMA PutIsPut == Put = [i \in 1..written |-> i] /\ Put' = [i \in 1..written |-> i]'
  BY DEF Put, UpTo

Ends ==
  /\ written \in Nat /\ host \in Seq(Nat) /\ Len(host) \in Nat /\ len \in Nat
  /\ TxFifo!IsPrefix(host, Put)

LEMMA BothEnds == TxInv /\ InOrder => Ends
<1> SUFFICES ASSUME TxInv, InOrder PROVE Ends
  OBVIOUS
<1>1. host \in Seq(Nat)
  <2>1. host \in Seq(0..MaxUnits) /\ 0..MaxUnits \subseteq Nat
    BY SizesFit DEF TxInv, TypeOK
  <2> QED
    BY <2>1, SeqMonotonic
<1>2. Put \in Seq(Nat) /\ Len(Put) = written /\ \A k \in 1..written : Put[k] = k
  BY Numbers, UpToIsSeq DEF Put
<1>3. Len(host) <= written
  BY NoneMadeUp
<1>4. \A k \in 1..Len(host) : host[k] = Put[k]
  BY <1>2, <1>3, Numbers DEF InOrder, TakenInOrder
<1> QED
  BY <1>1, <1>2, <1>3, <1>4, Numbers, IsPrefixOf DEF Ends

LEMMA BothEndsNext == TxInv' /\ InOrder' => Ends'
  BY BothEnds, PTL

LEMMA FifoInitially == Init => TxFifo!Init
<1> SUFFICES ASSUME Init PROVE TxFifo!Init
  OBVIOUS
<1>1. UpTo(0) = <<>>
  BY UpToIsSeq, EmptySeq
<1> QED
  BY <1>1 DEF Init, TxFifo!Init, UpTo

LEMMA FifoStep ==
  ASSUME TxInv, InOrder, TxInv', InOrder', [Next]_vars
  PROVE  [TxFifo!Next]_(TxFifo!vars)
<1> USE DEF mainVars, ringVars, epVars, histVars
<1>1. CASE UNCHANGED <<written, host>>
  BY <1>1 DEF TxFifo!vars
<1>2. CASE HostIn
  <2>1. written' = written /\ host' = host \o pma
    BY <1>2 DEF HostIn
  <2>2. host \in Seq(0..MaxUnits) /\ pma \in Seq(0..MaxUnits) /\ Len(pma) \in Nat /\ Len(host) \in Nat
    BY Numbers DEF TxInv, TypeOK
  <2>3. CASE Len(pma) = 0
    <3>1. pma = <<>>
      BY <2>2, <2>3, EmptySeq
    <3>2. host' = host
      BY <2>1, <2>2, <3>1, ConcatEmptySeq
    <3> QED
      BY <1>1, <2>1, <3>2
  <2>4. CASE Len(pma) # 0
    <3>1. /\ Len(host \o pma) = Len(host) + Len(pma)
          /\ \A k \in 1..Len(host) : (host \o pma)[k] = host[k]
      BY <2>2, Longer, Zenon
    <3>2. Len(host') > Len(host) /\ Len(host) <= Len(host')
      BY <2>1, <2>2, <2>4, <3>1
    <3>3. host \in Seq(Nat) /\ host' \in Seq(Nat)
      BY BothEnds, BothEndsNext DEF Ends
    <3>4. \A k \in 1..Len(host) : host[k] = host'[k]
      BY <2>1, <3>1
    <3>5. TxFifo!IsPrefix(host, host')
      BY <3>2, <3>3, <3>4, IsPrefixOf, Zenon
    <3>6. Put' = Put /\ TxFifo!IsPrefix(host', Put')
      BY <2>1, BothEndsNext DEF Put, Ends
    <3>7. TxFifo!IsPrefix(host', Put)
      BY <3>6
    <3> QED
      BY <2>1, <3>2, <3>5, <3>7, PutIsPut DEF TxFifo!Next, TxFifo!Get
  <2> QED
    BY <2>3, <2>4
<1>3. CASE Store
  <2>1. len \in Nat /\ written \in Nat /\ written' = written + len /\ host' = host
    BY <1>3, BothEnds DEF Store, Ends
  <2>2. CASE len = 0
    BY <1>1, <2>1, <2>2
  <2>3. CASE len # 0
    <3>1. /\ Put \in Seq(Nat) /\ Len(Put) = written /\ \A k \in 1..written : Put[k] = k
          /\ Put' \in Seq(Nat) /\ Len(Put') = written' /\ \A k \in 1..written' : Put'[k] = k
      BY <2>1, UpToIsSeq DEF Put
    <3>2. Len(Put') > Len(Put) /\ Len(Put) <= Len(Put')
          /\ \A k \in 1..Len(Put) : Put[k] = Put'[k]
      BY <2>1, <2>3, <3>1
    <3>3. TxFifo!IsPrefix(Put, Put')
      BY <3>1, <3>2, IsPrefixOf
    <3> QED
      BY <2>1, <3>2, <3>3, PutIsPut DEF TxFifo!Next, TxFifo!Put
  <2> QED
    BY <2>2, <2>3
<1>4. ASSUME NEW n \in 0..MaxCall, Call(n) PROVE [TxFifo!Next]_(TxFifo!vars)
  BY <1>1, <1>4 DEF Call
<1>5. CASE Copy \/ Load \/ Test \/ Start \/ SetFlag \/ InComplete \/ BusReset \/ Configured
  BY <1>1, <1>5 DEF Copy, Load, Test, Start, SetFlag, InComplete, BusReset, Configured
<1>6. CASE UNCHANGED vars
  BY <1>1, <1>6 DEF vars
<1> QED
  BY <1>2, <1>3, <1>4, <1>5, <1>6 DEF Next, Main

\* With the two windows closed the transmit path implements the FIFO that the
\* library's model takes it for.
THEOREM TransmitPathIsFifo ==
  ASSUME Windows \subseteq QuietPcs, MaxResets = 0
  PROVE  Spec => FifoSafety
<1> USE DEF FifoSafety, TxFifo!Safety
<1> QED
  BY TxInitially, TxKept, OrderInitially, OrderKept, TypeCorrect, FifoInitially, FifoStep, PTL
  DEF Spec
=============================================================================

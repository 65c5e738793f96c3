---------------------------- MODULE UsbRxProofs -----------------------------
(***************************************************************************)
(* Theorems about the receive path.  The first two hold with packets, bus  *)
(* resets and configurations arriving at any program point; the others     *)
(* with no packet arriving while the consumer restarts reception.          *)
(***************************************************************************)
EXTENDS UsbRx, RingBufferProofs

LEMMA SizesFit ==
  /\ Size \in Nat /\ Size > 0 /\ CounterMod \in Nat /\ CounterMod > Size
  /\ Mps \in Nat /\ Mps > 0 /\ Mps <= Size /\ Mps \in Counter
  /\ 0 \in Counter /\ MaxBytes \in Nat /\ MaxConfigs \in Nat
  BY SizeAssumption, CounterModAssumption, MpsAssumption, BoundAssumption DEF Counter

\* The linear space is a word.
LEMMA LinearWriteType ==
  ASSUME NEW i \in Counter, NEW o \in Counter
  PROVE  LinearWrite(i, o) \in Counter
<1>1. i - o \in Int /\ i \in Int
  BY SizesFit DEF Counter
<1>2. Used(i, o) \in 0..(CounterMod - 1) /\ SlotOf(i) \in 0..(Size - 1)
  BY <1>1, SizesFit, ModRange DEF Used, SlotOf
<1>3. Free(i, o) \in 0..(CounterMod - 1)
  BY <1>2, SizesFit, ModRange DEF Free
<1> QED
  BY <1>2, <1>3, SizesFit DEF LinearWrite, Least, Counter

\* Arming the endpoint keeps the types.
LEMMA StartReadType ==
  ASSUME TypeOK, NEW at \in Nat, NEW n \in Counter, StartRead(at, n)
  PROVE  /\ xfer' \in [buf : Nat, left : Counter, actual : Nat]
         /\ epStatus' \in EpStatus
  BY DEF StartRead, Transfer, TypeOK, EpStatus

\* Every variable keeps its type: the ring's counters stay unsigned words and no
\* packet exceeds the packet size, whatever arrives when.
THEOREM TypeCorrect == Spec => []TypeOK
<1>1. Init => TypeOK
  <2> SUFFICES ASSUME Init PROVE TypeOK
    OBVIOUS
  <2>1. /\ pma \in Seq(0..MaxBytes) /\ Len(pma) = 0 /\ taken \in Seq(0..MaxBytes)
    BY EmptyIsSeq DEF Init
  <2> QED
    BY <2>1, SizesFit DEF Init, TypeOK, Slot, Transfer, EpStatus, Pcs
<1>2. TypeOK /\ [Next]_vars => TypeOK'
  <2> SUFFICES ASSUME TypeOK, [Next]_vars PROVE TypeOK'
    OBVIOUS
  <2> USE DEF Restarting, Arming, ringVars, epVars, mainVars
  <2>1. ASSUME NEW n \in 0..Size, Peek(n) PROVE TypeOK'
    <3>1. CopyOut(pool, SlotOf(out), n) \in Seq(0..MaxBytes)
      <4>1. SlotOf(out) \in Slot /\ n \in Nat /\ pool \in [Slot -> 0..MaxBytes]
        BY RingTypes, SizesFit DEF TypeOK
      <4> QED
        BY <4>1, CopyOutType
    <3>2. taken' \in Seq(0..MaxBytes)
      BY <2>1, <3>1, ConcatProperties DEF Peek, TypeOK
    <3> QED
      BY <2>1, <3>2 DEF Peek, TypeOK, Pcs
  <2>2. CASE Drop
    <3>1. out' \in Counter
      <4>1. in \in Counter /\ out \in Counter /\ len \in Nat
        BY SizesFit DEF TypeOK
      <4> QED
        BY <2>2, <4>1, RingTypes DEF Drop
    <3> QED
      BY <2>2, <3>1 DEF Drop, TypeOK, Pcs
  <2>3. CASE Test
    BY <2>3 DEF Test, TypeOK, Pcs
  <2>4. CASE Reset
    BY <2>4, SizesFit DEF Reset, TypeOK, Pcs
  <2>5. CASE Setup
    <3>1. dest' \in Slot
      BY <2>5, RingTypes DEF Setup, TypeOK
    <3> QED
      BY <2>5, <3>1 DEF Setup, TypeOK, Pcs
  <2>6. CASE SetFlag \/ Arm \/ Start
    BY <2>6 DEF SetFlag, Arm, Start, TypeOK, Pcs, EpStatus
  <2>12. CASE PlaceBuf \/ PlaceLeft \/ PlaceActual
    <3>1. dest \in Nat /\ xfer \in [buf : Nat, left : Counter, actual : Nat]
      BY DEF TypeOK, Slot
    <3>2. xfer' \in [buf : Nat, left : Counter, actual : Nat]
      BY <2>12, <3>1, SizesFit DEF PlaceBuf, PlaceLeft, PlaceActual, Place
    <3> QED
      BY <2>12, <3>2 DEF PlaceBuf, PlaceLeft, PlaceActual, Place, TypeOK, Pcs
  <2>7. ASSUME NEW n \in 0..Mps, HostOut(n) PROVE TypeOK'
    <3>1. n \in Nat /\ sent \in Nat /\ sent + n \in 0..MaxBytes
      BY <2>7, SizesFit DEF HostOut, TypeOK
    <3>2. [i \in 1..n |-> sent + i] \in [1..n -> 0..MaxBytes]
      BY <3>1, SizesFit
    <3>3. pma' \in Seq(0..MaxBytes) /\ Len(pma') = n
      BY <2>7, <3>1, <3>2, FunIsSeq DEF HostOut
    <3>4. Len(pma') <= Mps
      BY <3>3
    <3> QED
      BY <2>7, <3>1, <3>3, <3>4 DEF HostOut, TypeOK, EpStatus
  <2>8. CASE OutInterrupt
    <3> DEFINE n == Len(pma)
               x == Transfer(xfer.buf + n, (xfer.left - n) % CounterMod, xfer.actual + n)
               i == WriteDone(in, out, x.actual)
    <3>1. n \in Nat /\ xfer.buf \in Nat /\ xfer.left \in Int /\ xfer.actual \in Nat
      BY LenProperties DEF TypeOK, Counter
    <3>2. x \in [buf : Nat, left : Counter, actual : Nat]
      BY <3>1, SizesFit, ModRange, SMTT(30) DEF Transfer, Counter
    <3>3. pool' \in [Slot -> 0..MaxBytes]
      <4>1. ASSUME NEW k \in Slot, k >= xfer.buf, k < xfer.buf + n
            PROVE  pma[k - xfer.buf + 1] \in 0..MaxBytes
        <5>1. k - xfer.buf + 1 \in 1..n
          BY <3>1, <4>1, SizesFit DEF Slot
        <5> QED
          BY <5>1, LenProperties DEF TypeOK
      <4>2. pool' = [k \in Slot |-> IF k >= xfer.buf /\ k < xfer.buf + n
                                    THEN pma[k - xfer.buf + 1] ELSE pool[k]]
        BY <2>8 DEF OutInterrupt
      <4> QED
        BY <4>1, <4>2 DEF TypeOK
    <3>4. i \in Counter /\ SlotOf(i) \in Nat
      <4>1. in \in Counter /\ out \in Counter /\ x.actual \in Nat
        BY <3>2 DEF TypeOK
      <4>2. i \in Counter
        BY <4>1, RingTypes
      <4> QED
        BY <4>2, RingTypes DEF Slot
    <3> HIDE DEF x, i
    <3>5. /\ in' \in Counter /\ busy' \in BOOLEAN /\ epStatus' \in EpStatus
          /\ xfer' \in [buf : Nat, left : Counter, actual : Nat]
      <4>1. CASE ~Finished(n, x)
        BY <2>8, <3>2, <4>1 DEF OutInterrupt, x, TypeOK, EpStatus
      <4>2. CASE OutComplete(x) /\ RoomForPacket(i)
        BY <3>4, <4>2, StartReadType, SizesFit DEF OutComplete, i, TypeOK
      <4>3. CASE OutComplete(x) /\ ~RoomForPacket(i)
        BY <3>2, <3>4, <4>3 DEF OutComplete, i, TypeOK, EpStatus
      <4> QED
        BY <2>8, <4>1, <4>2, <4>3 DEF OutInterrupt, x
    <3> QED
      BY <2>8, <3>3, <3>5 DEF OutInterrupt, TypeOK
  <2>9. CASE BusReset
    <3>1. pma' \in Seq(0..MaxBytes) /\ Len(pma') = 0
      BY <2>9, EmptyIsSeq DEF BusReset
    <3>2. xfer' \in [buf : Nat, left : Counter, actual : Nat]
      BY <2>9, SizesFit DEF BusReset, Transfer
    <3>3. Len(pma') <= Mps
      BY <3>1, SizesFit
    <3> QED
      BY <2>9, <3>1, <3>2, <3>3 DEF BusReset, TypeOK, EpStatus
  <2>10. CASE Configured
    <3>1. LinearWrite(in, out) \in Counter /\ SlotOf(in) \in Nat
      BY LinearWriteType, RingTypes DEF TypeOK, Slot
    <3>2. configs' \in 0..MaxConfigs
      BY <2>10, SizesFit DEF Configured, TypeOK
    <3>3. Transfer(SlotOf(in), LinearWrite(in, out), 0) \in [buf : Nat, left : Counter, actual : Nat]
      BY <3>1 DEF Transfer
    <3>4. xfer' \in [buf : Nat, left : Counter, actual : Nat]
      BY <2>10, <3>3 DEF Configured, TypeOK
    <3>5. epStatus' \in EpStatus /\ halted' \in BOOLEAN
      BY <2>10 DEF Configured, TypeOK, EpStatus
    <3> QED
      BY <2>10, <3>2, <3>4, <3>5 DEF Configured, TypeOK
  <2>11. CASE UNCHANGED vars
    BY <2>11 DEF vars, TypeOK
  <2> QED
    BY <2>1, <2>2, <2>3, <2>4, <2>5, <2>6, <2>7, <2>8, <2>9, <2>10, <2>11, <2>12 DEF Next, Restart
<1> QED
  BY <1>1, <1>2, PTL DEF Spec
-----------------------------------------------------------------------------
(***************************************************************************)
(* The flag.                                                               *)
(***************************************************************************)
FlagInv ==
  /\ ~epEnable => epStatus \in {"disabled", "valid"}
  /\ epStatus = "nak" /\ pc \notin Arming => ~busy
  /\ epStatus = "disabled" => ~epEnable \/ halted

\* A set ep_rx_busy_flag is never left behind by a reception that has stopped,
\* whatever arrives between whichever steps: the consumer, who restarts reception
\* only when the flag is clear, is not kept from it.
THEOREM FlagTruthful == Spec => []BusyMeansArmed
<1>1. Init => FlagInv
  BY DEF Init, FlagInv
<1>2. FlagInv /\ [Next]_vars => FlagInv'
  <2> SUFFICES ASSUME FlagInv, [Next]_vars PROVE FlagInv'
    OBVIOUS
  <2> USE DEF FlagInv, Arming, ringVars, epVars, mainVars
  <2>1. ASSUME NEW n \in 0..Size, Peek(n) PROVE FlagInv'
    BY <2>1 DEF Peek
  <2>2. CASE Drop \/ Test \/ Reset \/ Setup \/ SetFlag
    BY <2>2 DEF Drop, Test, Reset, Setup, SetFlag
  <2>3. CASE Arm \/ PlaceBuf \/ PlaceLeft \/ PlaceActual \/ Start
    BY <2>3 DEF Arm, PlaceBuf, PlaceLeft, PlaceActual, Place, Start
  <2>4. ASSUME NEW n \in 0..Mps, HostOut(n) PROVE FlagInv'
    BY <2>4 DEF HostOut
  <2>5. CASE OutInterrupt
    <3>1. epEnable /\ epStatus = "done" /\ UNCHANGED <<epEnable, halted, pc>>
      BY <2>5 DEF OutInterrupt
    <3>2. (epStatus' = "valid" /\ busy' = busy) \/ (epStatus' = "nak" /\ busy' = FALSE)
      BY <2>5, <3>1 DEF OutInterrupt, OutComplete, StartRead
    <3> QED
      BY <3>1, <3>2
  <2>6. CASE BusReset
    BY <2>6 DEF BusReset
  <2>7. CASE Configured
    BY <2>7 DEF Configured
  <2>8. CASE UNCHANGED vars
    BY <2>8 DEF vars
  <2> QED
    BY <2>1, <2>2, <2>3, <2>4, <2>5, <2>6, <2>7, <2>8 DEF Next, Restart
<1>3. TypeOK /\ FlagInv => BusyMeansArmed
  BY DEF TypeOK, EpStatus, FlagInv, BusyMeansArmed, Armed
<1> QED
  BY <1>1, <1>2, <1>3, TypeCorrect, PTL DEF Spec
-----------------------------------------------------------------------------
(***************************************************************************)
(* No packet arrives between the consumer's decision to restart reception  *)
(* and the restart.                                                        *)
(***************************************************************************)
\* A restart that finds the endpoint closed sets the flag all the same; the next
\* configuration arms the endpoint and makes it true.
QuietFlagInv ==
  /\ epStatus = "done" => epEnable
  /\ pc \in Restarting => epStatus # "done"
  /\ pc \in Arming => busy
  /\ started /\ ~epEnable => busy
  /\ BusyIffArmed

\* Once the consumer has restarted reception, ep_rx_busy_flag is set exactly
\* while a read is armed, through any number of bus resets and configurations.
THEOREM FlagSaysArmed ==
  ASSUME Restarting \subseteq QuietPcs
  PROVE  Spec => []BusyIffArmed
<1>1. Init => QuietFlagInv
  BY DEF Init, QuietFlagInv, BusyIffArmed, Restarting, Arming
<1>2. QuietFlagInv /\ [Next]_vars => QuietFlagInv'
  <2> SUFFICES ASSUME QuietFlagInv, [Next]_vars PROVE QuietFlagInv'
    OBVIOUS
  <2> USE DEF QuietFlagInv, BusyIffArmed, Armed, Restarting, Arming, ringVars, epVars, mainVars
  <2>1. ASSUME NEW n \in 0..Size, Peek(n) PROVE QuietFlagInv'
    BY <2>1 DEF Peek
  <2>2. CASE Drop \/ Test \/ Reset \/ Setup \/ SetFlag
    BY <2>2 DEF Drop, Test, Reset, Setup, SetFlag, Running
  <2>3. CASE Arm \/ PlaceBuf \/ PlaceLeft \/ PlaceActual \/ Start
    BY <2>3 DEF Arm, PlaceBuf, PlaceLeft, PlaceActual, Place, Start, Running
  <2>4. ASSUME NEW n \in 0..Mps, HostOut(n) PROVE QuietFlagInv'
    BY <2>4 DEF HostOut
  <2>5. CASE OutInterrupt
    <3>1. /\ epEnable /\ epStatus = "done" /\ pc \notin Restarting
          /\ UNCHANGED <<epEnable, started, halted, pc>>
      BY <2>5 DEF OutInterrupt
    <3>2. (epStatus' = "valid" /\ busy' = busy) \/ (epStatus' = "nak" /\ busy' = FALSE)
      BY <2>5, <3>1 DEF OutInterrupt, OutComplete, StartRead
    <3> QED
      BY <3>1, <3>2
  <2>6. CASE BusReset
    BY <2>6 DEF BusReset
  <2>7. CASE Configured
    BY <2>7 DEF Configured
  <2>8. CASE UNCHANGED vars
    BY <2>8 DEF vars
  <2> QED
    BY <2>1, <2>2, <2>3, <2>4, <2>5, <2>6, <2>7, <2>8 DEF Next, Restart
<1>3. QuietFlagInv => BusyIffArmed
  BY DEF QuietFlagInv
<1> QED
  BY <1>1, <1>2, <1>3, PTL DEF Spec
-----------------------------------------------------------------------------
(***************************************************************************)
(* A device configured once, with no packet arriving between the           *)
(* consumer's decision to restart reception and the restart.               *)
(***************************************************************************)
\* Where the ring and the endpoint stand at each point of the consumer.  The last
\* but one says why a restart under an armed endpoint loses nothing: only the
\* first transfer is longer than a packet, and nothing is consumed before it ends.
Placed ==
  /\ configs = 0 => /\ ~epEnable /\ epStatus = "disabled" /\ pc = "idle"
                    /\ taken = <<>> /\ in = 0 /\ out = 0 /\ sent = 0
  /\ configs # 0 => epEnable
  /\ Used(in, out) <= Size
  /\ pc = "drop" => len <= Used(in, out)
  /\ pc = "reset" => in = out
  /\ pc \in {"setup", "flag"} \cup Arming => in = 0 /\ out = 0
  /\ pc \in {"flag"} \cup Arming => dest = 0
  /\ pc \in {"left", "actual", "start"} => xfer.buf = 0
  /\ pc \in {"actual", "start"} => xfer.left = Mps
  /\ pc = "start" => xfer.actual = 0
  /\ pc \in Restarting => epStatus # "done"
  /\ Armed => \/ xfer.actual = 0 /\ xfer.left = Mps
              \/ in = out /\ taken = <<>> /\ pc = "idle"
  /\ epStatus = "nak" /\ pc \notin Arming => ~busy

RxInv == TypeOK /\ Placed /\ RegionFree /\ BytesAccounted /\ StallLeavesWork

\* An empty ring at the start of the pool has room for everything.
LEMMA EmptyRing ==
  /\ Used(0, 0) = 0 /\ SlotOf(0) = 0 /\ LinearWrite(0, 0) = Size
  /\ Size % Mps = 0 /\ Mps % Mps = 0
<1>1. Used(0, 0) = 0 /\ SlotOf(0) = 0
  BY SizesFit, UsedIs, ModNear DEF SlotOf
<1>2. Free(0, 0) = Size
  BY <1>1, SizesFit, FreeIs
<1>3. Mps % Mps = 0
  BY SizesFit, ModNear
<1> QED
  BY <1>1, <1>2, <1>3, SizesFit, MpsAssumption DEF LinearWrite, Least

\* Only the ring's counters and the units in transit matter to the ring.
LEMMA RingTyped ==
  ASSUME TypeOK, Placed
  PROVE  /\ in \in Counter /\ out \in Counter
         /\ Used(in, out) \in 0..Size
         /\ Len(taken) \in Nat /\ Len(pma) \in 0..Mps /\ sent \in Nat
         /\ xfer.buf \in Nat /\ xfer.actual \in Nat /\ xfer.left \in Nat
<1>1. in \in Counter /\ out \in Counter /\ Used(in, out) <= Size
  BY DEF TypeOK, Placed
<1>2. Used(in, out) \in 0..Size
  BY <1>1, FreeIs
<1>3. Len(taken) \in Nat /\ Len(pma) \in Nat
  BY LenProperties DEF TypeOK
<1> QED
  BY <1>1, <1>2, <1>3 DEF TypeOK, Counter

LEMMA RxInitially == Init => RxInv
<1> SUFFICES ASSUME Init PROVE RxInv
  OBVIOUS
<1>1. TypeOK
  <2>1. /\ pma \in Seq(0..MaxBytes) /\ Len(pma) = 0 /\ taken \in Seq(0..MaxBytes)
    BY EmptyIsSeq DEF Init
  <2> QED
    BY <2>1, SizesFit DEF Init, TypeOK, Slot, Transfer, EpStatus, Pcs
<1>2. Placed
  BY EmptyRing, SizesFit DEF Init, Placed, Restarting, Arming, Armed
<1>3. RegionFree /\ StallLeavesWork
  BY DEF Init, RegionFree, StallLeavesWork, Armed
<1>4. Len(taken) = 0 /\ Used(in, out) = 0
  BY EmptyRing, EmptyIsSeq DEF Init
<1>5. BytesAccounted
  BY <1>4 DEF Init, BytesAccounted, Armed
<1> QED
  BY <1>1, <1>2, <1>3, <1>5 DEF RxInv

LEMMA PeekKeeps ==
  ASSUME RxInv, NEW n \in 0..Size, Peek(n)
  PROVE  (Placed /\ RegionFree /\ BytesAccounted /\ StallLeavesWork)'
<1> USE DEF RxInv, Restarting, Arming, ringVars, epVars, mainVars
<1>1. in \in Counter /\ out \in Counter /\ Used(in, out) \in 0..Size /\ Len(taken) \in Nat
  BY RingTyped
<1>2. /\ pc = "idle" /\ pc' = "drop" /\ len' = n /\ n <= Used(in, out)
      /\ UNCHANGED <<in, out, busy, epEnable, epStatus, xfer, pma, dest, configs, sent>>
      /\ Running /\ n \in Nat
  BY SizesFit DEF Peek
<1>3. Len(taken') = Len(taken) + n
  <2>1. SlotOf(out) \in Slot /\ pool \in [Slot -> 0..MaxBytes]
    BY <1>1, RingTypes DEF TypeOK
  <2>2. CopyOut(pool, SlotOf(out), n) \in Seq(0..MaxBytes) /\ Len(CopyOut(pool, SlotOf(out), n)) = n
    BY <1>2, <2>1, CopyOutType
  <2> QED
    BY <2>2, ConcatProperties DEF Peek, TypeOK
<1>4. Armed => xfer.actual = 0 /\ xfer.left = Mps
  <2> SUFFICES ASSUME in = out, taken = <<>> PROVE FALSE
    BY DEF Placed
  <2>1. Used(in, out) = 0
    BY <1>1, EmptyIffNoneUsed DEF IsEmpty
  <2> QED
    BY <1>2, <2>1 DEF Peek
<1>5. configs # 0
  <2> SUFFICES ASSUME configs = 0 PROVE FALSE
    OBVIOUS
  <2>1. in = out /\ taken = <<>>
    BY DEF Placed
  <2>2. Used(in, out) = 0
    BY <1>1, <2>1, EmptyIffNoneUsed DEF IsEmpty
  <2> QED
    BY <1>2, <2>1, <2>2 DEF Peek
<1>6. Placed'
  BY <1>2, <1>4, <1>5 DEF Placed, Restarting, Armed
<1>7. RegionFree' /\ StallLeavesWork'
  BY <1>2 DEF RegionFree, StallLeavesWork, Armed
<1>8. BytesAccounted'
  BY <1>1, <1>2, <1>3 DEF BytesAccounted, Armed
<1> QED
  BY <1>6, <1>7, <1>8

LEMMA DropKeeps ==
  ASSUME RxInv, Drop
  PROVE  (Placed /\ RegionFree /\ BytesAccounted /\ StallLeavesWork)'
<1> USE DEF RxInv, Restarting, Arming, ringVars, epVars, mainVars
<1>1. /\ in \in Counter /\ out \in Counter /\ Used(in, out) \in 0..Size /\ Len(taken) \in Nat
      /\ xfer.actual \in Nat /\ xfer.left \in Nat
  BY RingTyped
<1>2. /\ pc = "drop" /\ pc' = "test" /\ len \in Nat /\ len <= Used(in, out)
      /\ UNCHANGED <<in, len, busy, epEnable, epStatus, xfer, pma, dest, configs, sent, taken>>
  BY SizesFit DEF Drop, Placed, TypeOK
<1>3. out' = Advance(out, len)
  BY <1>1, <1>2 DEF Drop, ReadDone, Least
<1>4. out' \in Counter /\ Used(in', out') = Used(in, out) - len
  BY <1>1, <1>2, <1>3, UsedAfterRead
<1>5. Used(in, out') <= Used(in, out)
  BY <1>1, <1>2, <1>4
<1>6. LinearWrite(in, out) <= LinearWrite(in, out')
  BY <1>1, <1>4, <1>5, LinearWriteIs
<1>7. LinearWrite(in, out) \in Nat /\ LinearWrite(in, out') \in Nat
  BY <1>1, <1>4, LinearWriteType DEF Counter
<1>8. Placed'
  BY <1>1, <1>2, <1>4, SizesFit DEF Placed, Restarting, Armed
<1>9. RegionFree'
  BY <1>1, <1>2, <1>6, <1>7 DEF RegionFree, Armed
<1>10. StallLeavesWork'
  BY <1>2 DEF StallLeavesWork
<1>11. BytesAccounted'
  BY <1>1, <1>2, <1>4 DEF BytesAccounted, Armed
<1> QED
  BY <1>8, <1>9, <1>10, <1>11

LEMMA TestKeeps ==
  ASSUME RxInv, Test
  PROVE  (Placed /\ RegionFree /\ BytesAccounted /\ StallLeavesWork)'
<1> USE DEF RxInv, Restarting, Arming, ringVars, epVars, mainVars
<1>1. /\ pc = "test" /\ epStatus # "done"
      /\ UNCHANGED <<in, out, busy, epEnable, epStatus, xfer, pma, len, dest, configs, sent, taken>>
      /\ \/ pc' = "reset" /\ in = out
         \/ pc' = "idle" /\ (busy \/ ~IsEmpty(in, out))
  BY DEF Test, Running, MustRestart, IsEmpty
<1>2. Placed'
  BY <1>1 DEF Placed, Restarting, Armed
<1>3. RegionFree'
  BY <1>1 DEF RegionFree, Armed
<1>4. StallLeavesWork'
  BY <1>1 DEF StallLeavesWork, Placed
<1>5. BytesAccounted'
  BY <1>1 DEF BytesAccounted, Armed
<1> QED
  BY <1>2, <1>3, <1>4, <1>5

LEMMA ResetKeeps ==
  ASSUME RxInv, Reset
  PROVE  (Placed /\ RegionFree /\ BytesAccounted /\ StallLeavesWork)'
<1> USE DEF RxInv, Restarting, Arming, ringVars, epVars, mainVars
<1>1. in \in Counter /\ out \in Counter
  BY RingTyped
<1>2. /\ pc = "reset" /\ pc' = "setup" /\ in = out /\ in' = 0 /\ out' = 0 /\ epStatus # "done"
      /\ UNCHANGED <<busy, epEnable, epStatus, xfer, pma, len, dest, configs, sent, taken>>
  BY DEF Reset, Placed, Restarting
<1>3. Used(in, out) = 0 /\ Used(in', out') = 0
  BY <1>1, <1>2, EmptyIffNoneUsed, EmptyRing DEF IsEmpty
<1>4. Placed'
  BY <1>2, <1>3, SizesFit DEF Placed, Restarting, Armed
<1>5. RegionFree' /\ StallLeavesWork'
  BY <1>2 DEF RegionFree, StallLeavesWork
<1>6. BytesAccounted'
  BY <1>2, <1>3 DEF BytesAccounted, Armed
<1> QED
  BY <1>4, <1>5, <1>6

LEMMA SetupKeeps ==
  ASSUME RxInv, Setup
  PROVE  (Placed /\ RegionFree /\ BytesAccounted /\ StallLeavesWork)'
<1> USE DEF RxInv, Restarting, Arming, ringVars, epVars, mainVars
<1>1. /\ pc = "setup" /\ pc' = "flag" /\ dest' = SlotOf(in) /\ in = 0 /\ out = 0
      /\ UNCHANGED <<in, out, busy, epEnable, epStatus, xfer, pma, len, configs, sent, taken>>
  BY DEF Setup, Placed
<1>2. dest' = 0
  BY <1>1, EmptyRing
<1>3. Placed'
  BY <1>1, <1>2 DEF Placed, Restarting, Armed
<1>4. RegionFree' /\ StallLeavesWork'
  BY <1>1 DEF RegionFree, StallLeavesWork
<1>5. BytesAccounted'
  BY <1>1 DEF BytesAccounted, Armed
<1> QED
  BY <1>3, <1>4, <1>5

LEMMA SetFlagKeeps ==
  ASSUME RxInv, SetFlag
  PROVE  (Placed /\ RegionFree /\ BytesAccounted /\ StallLeavesWork)'
<1> USE DEF RxInv, Restarting, Arming, ringVars, epVars, mainVars
<1>1. /\ pc = "flag" /\ pc' = "arm"
      /\ UNCHANGED <<in, out, epEnable, epStatus, xfer, pma, len, dest, configs, sent, taken>>
  BY DEF SetFlag
<1>2. Placed'
  BY <1>1 DEF Placed, Restarting, Armed
<1>3. RegionFree' /\ StallLeavesWork'
  BY <1>1 DEF RegionFree, StallLeavesWork
<1>4. BytesAccounted'
  BY <1>1 DEF BytesAccounted, Armed
<1> QED
  BY <1>2, <1>3, <1>4

LEMMA ArmKeeps ==
  ASSUME RxInv, Arm
  PROVE  (Placed /\ RegionFree /\ BytesAccounted /\ StallLeavesWork)'
<1> USE DEF RxInv, Restarting, Arming, ringVars, epVars, mainVars
<1>1. /\ pc = "arm" /\ pc' = "buf"
      /\ UNCHANGED <<in, out, busy, epEnable, epStatus, xfer, pma, len, dest, configs, sent, taken>>
  BY DEF Arm, Placed
<1>2. Placed'
  BY <1>1 DEF Placed, Armed
<1>3. RegionFree' /\ StallLeavesWork'
  BY <1>1 DEF RegionFree, StallLeavesWork
<1>4. BytesAccounted'
  BY <1>1 DEF BytesAccounted, Armed
<1> QED
  BY <1>2, <1>3, <1>4

\* Half a transfer written over an armed one is still one of a packet from the
\* start of the pool.
LEMMA PlaceKeeps ==
  ASSUME RxInv, PlaceBuf \/ PlaceLeft \/ PlaceActual
  PROVE  (Placed /\ RegionFree /\ BytesAccounted /\ StallLeavesWork)'
<1> USE DEF RxInv, Restarting, Arming, ringVars, epVars, mainVars
<1>1. /\ pc \in Arming /\ pc' \in Arming /\ pc # "start" /\ pc' # "buf" /\ pc' # "arm"
      /\ pc # "drop" /\ pc' # "drop" /\ epStatus # "done"
      /\ UNCHANGED <<in, out, busy, epEnable, epStatus, pma, len, dest, configs, sent, taken>>
  BY DEF PlaceBuf, PlaceLeft, PlaceActual, Place, Running
<1>2. xfer \in [buf : Nat, left : Counter, actual : Nat] /\ dest = 0
  BY <1>1 DEF TypeOK, Placed
<1>3. /\ xfer'.buf = 0
      /\ pc' \in {"actual", "start"} => xfer'.left = Mps
      /\ pc' = "start" => xfer'.actual = 0
      /\ xfer'.left \in {xfer.left, Mps} /\ xfer'.actual \in {xfer.actual, 0}
  BY <1>2 DEF PlaceBuf, PlaceLeft, PlaceActual, Place, Placed
<1>4. Armed => xfer.actual = 0 /\ xfer.left = Mps
  BY <1>1 DEF Placed
<1>5. Placed'
  BY <1>1, <1>2, <1>3, <1>4 DEF Placed, Armed
<1>6. RegionFree' /\ StallLeavesWork'
  BY <1>1 DEF RegionFree, StallLeavesWork
<1>7. BytesAccounted'
  BY <1>1, <1>3, <1>4 DEF BytesAccounted, Armed
<1> QED
  BY <1>5, <1>6, <1>7

LEMMA StartKeeps ==
  ASSUME RxInv, Start
  PROVE  (Placed /\ RegionFree /\ BytesAccounted /\ StallLeavesWork)'
<1> USE DEF RxInv, Restarting, Arming, ringVars, epVars, mainVars
<1>1. /\ pc = "start" /\ pc' = "idle" /\ in = 0 /\ out = 0 /\ epStatus # "done"
      /\ configs # 0 /\ epEnable /\ epStatus' = "valid"
      /\ xfer.buf = 0 /\ xfer.left = Mps /\ xfer.actual = 0
      /\ UNCHANGED <<in, out, busy, epEnable, xfer, pma, len, configs, sent, taken>>
  BY DEF Start, Placed, Running
<1>2. Placed'
  BY <1>1 DEF Placed, Armed
<1>3. RegionFree'
  BY <1>1, EmptyRing, SizesFit DEF RegionFree
<1>4. StallLeavesWork'
  BY <1>1 DEF StallLeavesWork
<1>5. BytesAccounted'
  BY <1>1 DEF BytesAccounted, Armed
<1> QED
  BY <1>2, <1>3, <1>4, <1>5

LEMMA HostOutKeeps ==
  ASSUME RxInv, Restarting \subseteq QuietPcs, NEW n \in 0..Mps, HostOut(n)
  PROVE  (Placed /\ RegionFree /\ BytesAccounted /\ StallLeavesWork)'
<1> USE DEF RxInv, Restarting, Arming, ringVars, epVars, mainVars
<1>1. sent \in Nat /\ n \in Nat /\ Len(taken) \in Nat /\ xfer.actual \in Nat
      /\ Used(in, out) \in 0..Size
  BY RingTyped, SizesFit
<1>2. /\ pc \notin Restarting /\ epStatus = "valid" /\ epStatus' = "done" /\ sent' = sent + n
      /\ UNCHANGED <<in, out, busy, epEnable, xfer, pc, len, dest, taken, configs>>
  BY DEF HostOut
<1>3. Len(pma') = n
  <2>1. [i \in 1..n |-> sent + i] \in [1..n -> Nat]
    BY <1>1
  <2> QED
    BY <1>1, <2>1, FunIsSeq DEF HostOut
<1>4. Placed'
  BY <1>2 DEF Placed, Restarting, Armed
<1>5. RegionFree' /\ StallLeavesWork'
  BY <1>2 DEF RegionFree, StallLeavesWork, Armed
<1>6. len \in Nat
  BY SizesFit DEF TypeOK
<1>7. BytesAccounted'
  BY <1>1, <1>2, <1>3, <1>6 DEF BytesAccounted, Armed
<1> QED
  BY <1>4, <1>5, <1>7

\* A packet that does not finish the first, long transfer.
LEMMA UnfinishedKeeps ==
  ASSUME RxInv, OutInterrupt, UNCHANGED in,
         xfer' = Transfer(xfer.buf + Len(pma), (xfer.left - Len(pma)) % CounterMod,
                          xfer.actual + Len(pma)),
         ~Finished(Len(pma), xfer'), epStatus' = "valid", UNCHANGED busy
  PROVE  (Placed /\ RegionFree /\ BytesAccounted /\ StallLeavesWork)'
<1> USE DEF RxInv, Restarting, Arming, ringVars, epVars, mainVars
<1>1. /\ in \in Counter /\ out \in Counter /\ Used(in, out) \in 0..Size /\ Len(taken) \in Nat
      /\ Len(pma) \in 0..Mps /\ sent \in Nat
      /\ xfer.buf \in Nat /\ xfer.actual \in Nat /\ xfer.left \in Nat
  BY RingTyped
<1>2. /\ epStatus = "done" /\ pc \notin Restarting /\ configs # 0
      /\ UNCHANGED <<in, out, busy, epEnable, pma, pc, len, dest, taken, sent, configs>>
  BY DEF OutInterrupt, Placed
<1>3. /\ xfer.buf = SlotOf(in) + xfer.actual
      /\ xfer.actual + xfer.left <= LinearWrite(in, out)
      /\ xfer.left >= Mps /\ xfer.left % Mps = 0
  BY <1>2 DEF RegionFree, Armed, Restarting
<1>4. xfer.left < CounterMod
  <2>1. Used(in, out) <= Size /\ Size \in Nat
    BY <1>1, SizesFit
  <2>2. LinearWrite(in, out) \in 0..Size
    BY <1>1, <2>1, LinearWriteIs
  <2> HIDE DEF RxInv
  <2> QED
    BY <1>1, <1>3, <2>2, SizesFit, SMTT(30)
<1>5. (xfer.left - Len(pma)) % CounterMod = xfer.left - Len(pma)
  <2>1. xfer.left - Len(pma) \in Int
    BY <1>1
  <2>2. Len(pma) \in Nat /\ Len(pma) <= Mps /\ Mps \in Nat /\ Mps <= xfer.left
    BY <1>1, <1>3, SizesFit
  <2>3. 0 <= xfer.left - Len(pma) /\ xfer.left - Len(pma) < CounterMod
    <3>1. xfer.left \in Nat /\ CounterMod \in Nat
      BY <1>1, SizesFit
    <3> HIDE DEF RxInv
    <3> QED
      BY <1>4, <2>2, <3>1
  <2> QED
    BY <2>1, <2>3, ModNear, SizesFit
<1>6. /\ xfer'.buf = xfer.buf + Len(pma) /\ xfer'.left = xfer.left - Len(pma)
      /\ xfer'.actual = xfer.actual + Len(pma)
  BY <1>5 DEF Transfer
<1>7. Len(pma) = Mps /\ xfer.left # Mps
  BY <1>1, <1>6, SizesFit DEF Finished
<1>8. xfer.left - Mps >= Mps /\ (xfer.left - Mps) % Mps = 0
  <2>1. xfer.left > Mps
    BY <1>1, <1>3, <1>7, SizesFit
  <2> QED
    BY <1>1, <1>3, <2>1, WholeLess, SizesFit
<1>9. in = out /\ taken = <<>> /\ pc = "idle"
  BY <1>2, <1>7 DEF Placed, Armed
<1>10. Placed'
  BY <1>2, <1>9 DEF Placed, Armed, Restarting
<1>11. RegionFree'
  <2>1. LinearWrite(in, out) \in Nat /\ SlotOf(in) \in Nat
    BY <1>1, LinearWriteType, RingTypes DEF Counter, Slot
  <2>2. xfer'.left >= Mps /\ xfer'.left % Mps = 0
    BY <1>6, <1>7, <1>8
  <2>3. Len(pma) \in Nat
    BY <1>1, SizesFit
  <2>4. xfer'.buf = SlotOf(in) + xfer'.actual
    BY <1>1, <1>3, <1>6, <2>1, <2>3
  <2>5. xfer'.actual + xfer'.left <= LinearWrite(in, out)
    BY <1>1, <1>3, <1>6, <2>1, <2>3
  <2> QED
    BY <1>2, <2>2, <2>4, <2>5 DEF RegionFree
<1>12. StallLeavesWork'
  BY DEF StallLeavesWork
<1>13. BytesAccounted'
  BY <1>1, <1>2, <1>6, <1>9 DEF BytesAccounted, Armed
<1> QED
  BY <1>10, <1>11, <1>12, <1>13

\* A transfer that ends: the ring takes it in and goes on only with room for a
\* packet.
LEMMA FinishedKeeps ==
  ASSUME RxInv, OutInterrupt, NEW x, x.actual = xfer.actual + Len(pma), OutComplete(x)
  PROVE  (Placed /\ RegionFree /\ BytesAccounted /\ StallLeavesWork)'
<1> USE DEF RxInv, Restarting, Arming, ringVars, epVars, mainVars
<1>1. /\ in \in Counter /\ out \in Counter /\ Used(in, out) \in 0..Size /\ Len(taken) \in Nat
      /\ Len(pma) \in 0..Mps /\ sent \in Nat
      /\ xfer.actual \in Nat /\ xfer.left \in Nat /\ x.actual \in Nat /\ len \in Nat
  BY RingTyped, SizesFit DEF TypeOK
<1>2. /\ epStatus = "done" /\ pc \notin Restarting /\ configs # 0 /\ epEnable
      /\ UNCHANGED <<out, epEnable, pma, pc, len, dest, taken, sent, configs>>
  BY DEF OutInterrupt, Placed
<1>3. /\ xfer.actual + xfer.left <= LinearWrite(in, out) /\ xfer.left >= Mps
  BY <1>2 DEF RegionFree, Armed, Restarting
<1>4. x.actual <= Size - Used(in, out) /\ LinearWrite(in, out) >= Mps
  BY <1>1, <1>3, LinearWriteIs, SizesFit
<1>5. in' = Advance(in, x.actual)
  <2>1. Free(in, out) = Size - Used(in, out)
    BY <1>1, FreeIs
  <2> QED
    BY <1>1, <1>4, <2>1, SizesFit DEF OutComplete, WriteDone, Least
<1>6. in' \in Counter /\ Used(in', out) = Used(in, out) + x.actual
  BY <1>1, <1>4, <1>5, UsedAfterWrite, SizesFit
<1>7. \/ /\ RoomForPacket(in') /\ busy' = busy /\ epStatus' = "valid"
         /\ xfer' = Transfer(SlotOf(in'), Mps, 0)
      \/ ~RoomForPacket(in') /\ busy' = FALSE /\ epStatus' = "nak"
  <2>1. in' = WriteDone(in, out, x.actual)
    BY DEF OutComplete
  <2> QED
    BY <1>2, <2>1 DEF OutComplete, StartRead
<1>8. epStatus' = "valid" =>
        /\ xfer'.buf = SlotOf(in') /\ xfer'.left = Mps /\ xfer'.actual = 0
        /\ LinearWrite(in', out) >= Mps
  BY <1>7 DEF Transfer, RoomForPacket
<1>9. pc = "drop" => len <= Used(in', out)
  BY <1>1, <1>6 DEF Placed
<1>10. Placed'
  <2>1. Used(in', out') <= Size
    BY <1>1, <1>2, <1>4, <1>6, SizesFit
  <2> QED
    BY <1>2, <1>7, <1>8, <1>9, <2>1 DEF Placed, Armed, Restarting
<1>11. RegionFree'
  <2>1. SlotOf(in') \in Nat
    BY <1>6, RingTypes DEF Slot
  <2> QED
    BY <1>2, <1>7, <1>8, <2>1, EmptyRing, SizesFit DEF RegionFree, Armed
<1>12. StallLeavesWork'
  <2> SUFFICES ASSUME epStatus' = "nak", IsEmpty(in', out) PROVE FALSE
    BY <1>2 DEF StallLeavesWork
  <2>1. Used(in', out) = 0
    BY <1>1, <1>6, EmptyIffNoneUsed
  <2>2. x.actual = 0
    BY <1>1, <1>6, <2>1
  <2>3. Advance(in, 0) = in
    BY <1>1, ModNear, SizesFit DEF Advance, Counter
  <2>4. in' = in
    BY <1>5, <2>2, <2>3
  <2>5. ~RoomForPacket(in')
    BY <1>7
  <2>6. RoomForPacket(in)
    BY <1>4 DEF RoomForPacket
  <2> QED
    BY <2>4, <2>5, <2>6
<1>13. BytesAccounted'
  <2> DEFINE d == IF pc = "drop" THEN len ELSE 0
  <2>1. d \in Nat /\ d' = d
    BY <1>1, <1>2, SizesFit
  <2>2. (IF Armed' THEN xfer'.actual ELSE 0) = 0 /\ epStatus' # "done"
    BY <1>7, <1>8 DEF Armed
  <2>3. sent = Len(taken) + Used(in, out) - d + xfer.actual + Len(pma)
    BY <1>2 DEF BytesAccounted, Armed
  <2> HIDE DEF d
  <2>4. sent' = Len(taken') + Used(in', out') - d'
    <3>1. sent' = sent /\ Len(taken') = Len(taken) /\ Used(in', out') = Used(in, out) + x.actual
      BY <1>2, <1>6
    <3>2. Used(in, out) \in Nat /\ Len(taken) \in Nat /\ Len(pma) \in Nat
          /\ xfer.actual \in Nat /\ d \in Nat /\ x.actual = xfer.actual + Len(pma)
      BY <1>1, <2>1, SizesFit
    <3> HIDE DEF RxInv
    <3> QED
      BY <2>1, <2>3, <3>1, <3>2
  <2> QED
    BY <1>1, <1>2, <1>6, <2>1, <2>2, <2>4 DEF BytesAccounted, d
<1> QED
  BY <1>10, <1>11, <1>12, <1>13

LEMMA ConfiguredKeeps ==
  ASSUME RxInv, MaxConfigs <= 1, Configured
  PROVE  (Placed /\ RegionFree /\ BytesAccounted /\ StallLeavesWork)'
<1> USE DEF RxInv, Restarting, Arming, ringVars, epVars, mainVars
<1>1. /\ configs = 0 /\ configs' = 1 /\ epEnable' = TRUE /\ in = 0 /\ out = 0
      /\ pc = "idle" /\ taken = <<>> /\ epStatus = "disabled"
      /\ UNCHANGED <<in, out, busy, pma, pc, len, dest, taken, sent>>
  BY SizesFit DEF Configured, Placed, TypeOK
<1>2. xfer' = Transfer(0, Size, 0) /\ epStatus' = "valid"
  BY <1>1, EmptyRing, SizesFit DEF Configured
<1>3. xfer'.buf = 0 /\ xfer'.left = Size /\ xfer'.actual = 0
  BY <1>2 DEF Transfer
<1>4. Placed'
  BY <1>1, <1>2 DEF Placed, Armed, Restarting
<1>5. RegionFree'
  BY <1>1, <1>3, EmptyRing, SizesFit DEF RegionFree
<1>6. StallLeavesWork'
  BY <1>2 DEF StallLeavesWork
<1>7. BytesAccounted'
  BY <1>1, <1>2, <1>3 DEF BytesAccounted, Armed
<1> QED
  BY <1>4, <1>5, <1>6, <1>7

LEMMA RxKept ==
  ASSUME Restarting \subseteq QuietPcs, MaxConfigs <= 1
  PROVE  RxInv /\ TypeOK' /\ [Next]_vars => RxInv'
<1> SUFFICES ASSUME RxInv, TypeOK', [Next]_vars
             PROVE  (Placed /\ RegionFree /\ BytesAccounted /\ StallLeavesWork)'
  BY DEF RxInv
<1>1. ASSUME NEW n \in 0..Size, Peek(n)
      PROVE  (Placed /\ RegionFree /\ BytesAccounted /\ StallLeavesWork)'
  BY <1>1, PeekKeeps
<1>2. CASE Restart
  BY <1>2, DropKeeps, TestKeeps, ResetKeeps, SetupKeeps, SetFlagKeeps, ArmKeeps,
     PlaceKeeps, StartKeeps DEF Restart
<1>3. ASSUME NEW n \in 0..Mps, HostOut(n)
      PROVE  (Placed /\ RegionFree /\ BytesAccounted /\ StallLeavesWork)'
  BY <1>3, HostOutKeeps
<1>4. CASE OutInterrupt
  <2> DEFINE x == Transfer(xfer.buf + Len(pma), (xfer.left - Len(pma)) % CounterMod,
                           xfer.actual + Len(pma))
  <2>1. \/ OutComplete(x)
        \/ ~Finished(Len(pma), x) /\ xfer' = x /\ epStatus' = "valid" /\ UNCHANGED <<in, busy>>
    BY <1>4 DEF OutInterrupt
  <2>2. x.actual = xfer.actual + Len(pma)
    BY DEF Transfer
  <2>3. CASE OutComplete(x)
    <3> HIDE DEF x
    <3> QED
      BY <1>4, <2>2, <2>3, FinishedKeeps
  <2>4. CASE ~Finished(Len(pma), x) /\ xfer' = x /\ epStatus' = "valid" /\ UNCHANGED <<in, busy>>
    BY <1>4, <2>4, UnfinishedKeeps
  <2> QED
    BY <2>1, <2>3, <2>4
<1>5. CASE BusReset
  <2>1. configs = 0 /\ epEnable
    BY <1>5, SizesFit DEF BusReset, RxInv, TypeOK
  <2> QED
    BY <2>1 DEF RxInv, Placed
<1>6. CASE Configured
  BY <1>6, ConfiguredKeeps
<1>7. CASE UNCHANGED vars
  BY <1>7 DEF vars, RxInv, Placed, RegionFree, BytesAccounted, StallLeavesWork, Armed
<1> QED
  BY <1>1, <1>2, <1>3, <1>4, <1>5, <1>6, <1>7 DEF Next

\* With the restart out of the way of arriving packets, the interrupt writes into
\* free space only, every byte the device accepted is consumed or still to be
\* found, and a stopped reception has work left for the consumer who restarts it.
THEOREM NothingLost ==
  ASSUME Restarting \subseteq QuietPcs, MaxConfigs <= 1
  PROVE  Spec => [](RegionFree /\ BytesAccounted /\ StallLeavesWork)
<1>1. RxInv => RegionFree /\ BytesAccounted /\ StallLeavesWork
  BY DEF RxInv
<1> QED
  BY <1>1, RxInitially, RxKept, TypeCorrect, PTL DEF Spec

\* The OUT interrupt never writes over bytes that the library has not read, nor
\* past the end of the buffer, although transfers wrap and are cut to whole packets.
THEOREM WritesIntoFreeSpace ==
  ASSUME Restarting \subseteq QuietPcs, MaxConfigs <= 1
  PROVE  Spec => []RegionFree
<1>1. Spec => [](RegionFree /\ BytesAccounted /\ StallLeavesWork)
  BY NothingLost
<1>2. RegionFree /\ BytesAccounted /\ StallLeavesWork => RegionFree
  OBVIOUS
<1> QED
  BY <1>1, <1>2, PTL

\* A reception that has stopped for want of room always leaves its restart to
\* someone: there are bytes whose consumer will restart it, or it is being restarted.
THEOREM StalledIsRestarted ==
  ASSUME Restarting \subseteq QuietPcs, MaxConfigs <= 1
  PROVE  Spec => []StallLeavesWork
<1>1. Spec => [](RegionFree /\ BytesAccounted /\ StallLeavesWork)
  BY NothingLost
<1>2. RegionFree /\ BytesAccounted /\ StallLeavesWork => StallLeavesWork
  OBVIOUS
<1> QED
  BY <1>1, <1>2, PTL
-----------------------------------------------------------------------------
(***************************************************************************)
(* The bytes themselves.  Base bytes have left the ring; the ring holds    *)
(* the next ones, the unfinished transfer those behind, and packet memory  *)
(* the last.                                                               *)
(***************************************************************************)
Base == Len(taken) - (IF pc = "drop" THEN len ELSE 0)

TakenInOrder == \A k \in 1..Len(taken) : taken[k] = k
RingInOrder ==
  \A j \in Nat : j < Used(in, out) => pool[(SlotOf(out) + j) % Size] = Base + j + 1
TransferInOrder ==
  Armed /\ pc \notin Restarting =>
    \A j \in Nat : j < xfer.actual => pool[SlotOf(in) + j] = Base + Used(in, out) + j + 1
PacketInOrder ==
  epStatus = "done" => \A k \in 1..Len(pma) : pma[k] = sent - Len(pma) + k

InOrder == TakenInOrder /\ RingInOrder /\ TransferInOrder /\ PacketInOrder

LEMMA BaseType ==
  ASSUME RxInv
  PROVE  Base \in Int /\ (Armed /\ pc \notin Restarting /\ xfer.actual # 0 => pc # "drop")
<1>1. Len(taken) \in Nat /\ len \in Nat
  BY RingTyped, SizesFit DEF RxInv, TypeOK
<1> QED
  BY <1>1 DEF Base, RxInv, Placed

LEMMA OrderInitially == Init => InOrder
<1> SUFFICES ASSUME Init PROVE InOrder
  OBVIOUS
<1>1. Len(taken) = 0 /\ Used(in, out) = 0 /\ ~Armed /\ epStatus # "done"
  BY EmptyRing, EmptyIsSeq DEF Init, Armed
<1> QED
  BY <1>1 DEF InOrder, TakenInOrder, RingInOrder, TransferInOrder, PacketInOrder

LEMMA PeekInOrder ==
  ASSUME RxInv, InOrder, NEW n \in 0..Size, Peek(n)
  PROVE  InOrder'
<1> USE DEF RxInv, ringVars, epVars, mainVars
<1>1. /\ in \in Counter /\ out \in Counter /\ Used(in, out) \in 0..Size /\ Len(taken) \in Nat
      /\ n \in Nat /\ SlotOf(out) \in Slot
  <2>1. in \in Counter /\ out \in Counter /\ Used(in, out) \in 0..Size /\ Len(taken) \in Nat
    BY RingTyped
  <2> QED
    BY <2>1, SizesFit, RingTypes
<1>2. /\ pc = "idle" /\ pc' = "drop" /\ len' = n /\ n <= Used(in, out)
      /\ taken' = taken \o CopyOut(pool, SlotOf(out), n)
      /\ UNCHANGED <<in, out, pool, epStatus, xfer, pma, sent>>
  BY DEF Peek
<1> DEFINE c == CopyOut(pool, SlotOf(out), n)
<1>3. c \in Seq(0..MaxBytes) /\ Len(c) = n /\ taken \in Seq(0..MaxBytes)
  <2>1. pool \in [Slot -> 0..MaxBytes] /\ taken \in Seq(0..MaxBytes)
    BY DEF TypeOK
  <2>2. n \in Nat /\ SlotOf(out) \in Slot
    BY <1>1
  <2> QED
    BY <2>1, <2>2, CopyOutType, Zenon
<1>4. ASSUME NEW i \in 1..n PROVE c[i] = Len(taken) + i
  <2>1. c[i] = pool[(SlotOf(out) + i - 1) % Size]
    BY <1>4 DEF CopyOut
  <2>2. i - 1 \in Nat /\ i - 1 < Used(in, out)
    BY <1>1, <1>2, <1>4
  <2>3. pool[(SlotOf(out) + (i - 1)) % Size] = Base + (i - 1) + 1
    BY <2>2 DEF InOrder, RingInOrder
  <2>4. Base = Len(taken)
    BY <1>1, <1>2 DEF Base
  <2>5. SlotOf(out) + i - 1 = SlotOf(out) + (i - 1)
    BY <1>1, SizesFit DEF Slot
  <2> QED
    BY <1>1, <2>1, <2>3, <2>4, <2>5
<1> HIDE DEF c
<1>5. Len(taken') = Len(taken) + n
  BY <1>2, <1>3, ConcatProperties DEF c
<1>6. TakenInOrder'
  <2> SUFFICES ASSUME NEW k \in 1..Len(taken') PROVE taken'[k] = k
    BY DEF TakenInOrder
  <2>1. CASE k <= Len(taken)
    <3>1. taken'[k] = taken[k] /\ k \in 1..Len(taken)
      BY <1>1, <1>2, <1>3, <1>5, <2>1, ConcatProperties DEF c
    <3> QED
      BY <3>1 DEF InOrder, TakenInOrder
  <2>2. CASE k > Len(taken)
    <3>1. k - Len(taken) \in 1..n
      BY <1>1, <1>5, <2>2
    <3>2. taken'[k] = c[k - Len(taken)]
      BY <1>1, <1>2, <1>3, <1>5, <2>2, ConcatProperties DEF c
    <3> QED
      BY <1>1, <1>4, <3>1, <3>2
  <2> QED
    BY <1>1, <1>5, <2>1, <2>2
<1>7. Base' = Base
  BY <1>1, <1>2, <1>5 DEF Base
<1>8. RingInOrder'
  BY <1>2, <1>7 DEF InOrder, RingInOrder
<1>9. TransferInOrder'
  BY <1>2, <1>7 DEF InOrder, TransferInOrder, Armed, Restarting, Arming
<1>10. PacketInOrder'
  BY <1>2 DEF InOrder, PacketInOrder
<1> QED
  BY <1>6, <1>8, <1>9, <1>10 DEF InOrder

LEMMA DropInOrder ==
  ASSUME RxInv, InOrder, Drop
  PROVE  InOrder'
<1> USE DEF RxInv, ringVars, epVars, mainVars
<1>1. /\ in \in Counter /\ out \in Counter /\ Used(in, out) \in 0..Size /\ Len(taken) \in Nat
      /\ SlotOf(out) \in Nat
  BY RingTyped, RingTypes DEF Slot
<1>2. /\ pc = "drop" /\ pc' = "test" /\ len \in Nat /\ len <= Used(in, out)
      /\ UNCHANGED <<in, pool, len, epStatus, xfer, pma, sent, taken>>
  BY SizesFit DEF Drop, Placed, TypeOK
<1>3. out' = Advance(out, len)
  BY <1>1, <1>2 DEF Drop, ReadDone, Least
<1>4. Used(in', out') = Used(in, out) - len
  BY <1>1, <1>2, <1>3, UsedAfterRead
<1>5. Base' = Base + len /\ Base \in Int
  BY <1>1, <1>2 DEF Base
<1>6. RingInOrder'
  <2> SUFFICES ASSUME NEW j \in Nat, j < Used(in', out')
               PROVE  pool'[(SlotOf(out') + j) % Size] = Base' + j + 1
    BY DEF RingInOrder
  <2>1. (SlotOf(out') + j) % Size = (SlotOf(out) + len + j) % Size
    <3>1. len <= Size
      BY <1>1, <1>2, SizesFit
    <3> QED
      BY <1>1, <1>2, <1>3, <3>1, SlotAfter
  <2>2. len + j \in Nat /\ len + j < Used(in, out)
    BY <1>1, <1>2, <1>4
  <2>3. pool[(SlotOf(out) + (len + j)) % Size] = Base + (len + j) + 1
    BY <2>2 DEF InOrder, RingInOrder
  <2>4. SlotOf(out) + len + j = SlotOf(out) + (len + j)
    BY <1>1, <1>2
  <2> QED
    BY <1>2, <1>5, <2>1, <2>3, <2>4
<1>7. TransferInOrder'
  <2> SUFFICES ASSUME Armed, NEW j \in Nat, j < xfer.actual PROVE FALSE
    BY <1>2 DEF TransferInOrder, Armed
  <2>1. xfer.actual # 0
    OBVIOUS
  <2> QED
    BY <1>2, <2>1, BaseType DEF Restarting, Arming
<1>8. TakenInOrder' /\ PacketInOrder'
  BY <1>2 DEF InOrder, TakenInOrder, PacketInOrder
<1> QED
  BY <1>6, <1>7, <1>8 DEF InOrder

LEMMA RestartInOrder ==
  ASSUME RxInv, InOrder,
         \/ Test \/ Reset \/ Setup \/ SetFlag \/ Arm
         \/ PlaceBuf \/ PlaceLeft \/ PlaceActual \/ Start
  PROVE  InOrder'
<1> USE DEF RxInv, ringVars, epVars, mainVars
<1>1. in \in Counter /\ out \in Counter
  BY RingTyped
<1>2. /\ pc # "drop" /\ pc' # "drop" /\ UNCHANGED <<pool, pma, sent, taken>>
      /\ epStatus' = "done" => epStatus = "done"
  BY DEF Test, Reset, Setup, SetFlag, Arm, PlaceBuf, PlaceLeft, PlaceActual, Place, Start
<1>3. TakenInOrder' /\ PacketInOrder' /\ Base' = Base
  BY <1>2 DEF InOrder, TakenInOrder, PacketInOrder, Base
<1>4. RingInOrder'
  <2>1. CASE UNCHANGED <<in, out>>
    BY <1>2, <1>3, <2>1 DEF InOrder, RingInOrder
  <2>2. CASE Reset
    <3>1. Used(in', out') = 0
      BY <2>2, EmptyRing DEF Reset
    <3> QED
      BY <3>1 DEF RingInOrder
  <2> QED
    BY <2>1, <2>2 DEF Test, Setup, SetFlag, Arm, PlaceBuf, PlaceLeft, PlaceActual, Place, Start
<1>5. TransferInOrder'
  <2>1. CASE Test
    <3>1. UNCHANGED <<in, out, epStatus, xfer>> /\ pc \notin Restarting
      BY <2>1 DEF Test, Restarting, Arming
    <3> QED
      BY <1>2, <1>3, <3>1 DEF InOrder, TransferInOrder, Armed
  <2>2. CASE ~Test /\ ~Start
    <3>1. pc' \in Restarting
      BY <2>2 DEF Reset, Setup, SetFlag, Arm, PlaceBuf, PlaceLeft, PlaceActual, Place,
                  Placed, Restarting, Arming
    <3> QED
      BY <3>1 DEF TransferInOrder
  <2>3. CASE Start
    <3>1. xfer'.actual = 0
      BY <2>3 DEF Start, Placed
    <3> QED
      BY <3>1 DEF TransferInOrder
  <2> QED
    BY <2>1, <2>2, <2>3
<1> QED
  BY <1>3, <1>4, <1>5 DEF InOrder

LEMMA HostOutInOrder ==
  ASSUME RxInv, InOrder, NEW n \in 0..Mps, HostOut(n)
  PROVE  InOrder'
<1> USE DEF RxInv, ringVars, epVars, mainVars
<1>1. sent \in Nat /\ n \in Nat
  BY RingTyped, SizesFit
<1>2. /\ epStatus = "valid" /\ epStatus' = "done" /\ sent' = sent + n
      /\ pma' = [i \in 1..n |-> sent + i]
      /\ UNCHANGED <<in, out, pool, xfer, pc, len, taken>>
  BY DEF HostOut
<1>3. Len(pma') = n
  <2>1. [i \in 1..n |-> sent + i] \in [1..n -> Nat]
    BY <1>1
  <2> QED
    BY <1>1, <1>2, <2>1, FunIsSeq
<1>4. PacketInOrder'
  BY <1>1, <1>2, <1>3 DEF PacketInOrder
<1>5. Base' = Base
  BY <1>2 DEF Base
<1>6. TakenInOrder' /\ RingInOrder' /\ TransferInOrder'
  BY <1>2, <1>5 DEF InOrder, TakenInOrder, RingInOrder, TransferInOrder, Armed
<1> QED
  BY <1>4, <1>6 DEF InOrder

\* After the interrupt has copied its packet, the bytes of the transfer follow
\* those of the ring, and those of the ring are where they were.
LEMMA PacketCopied ==
  ASSUME RxInv, InOrder, OutInterrupt
  PROVE  /\ \A t \in Nat : t < xfer.actual + Len(pma) =>
              /\ t < LinearWrite(in, out)
              /\ pool'[SlotOf(in) + t] = Base + Used(in, out) + t + 1
         /\ \A j \in Nat : j < Used(in, out) =>
              pool'[(SlotOf(out) + j) % Size] = Base + j + 1
<1> USE DEF RxInv, ringVars, epVars, mainVars
<1> DEFINE n == Len(pma)
<1>1. /\ in \in Counter /\ out \in Counter /\ Used(in, out) \in 0..Size /\ Len(taken) \in Nat
      /\ n \in 0..Mps /\ sent \in Nat
      /\ xfer.buf \in Nat /\ xfer.actual \in Nat /\ xfer.left \in Nat
  BY RingTyped
<1>2. epStatus = "done" /\ pc \notin Restarting
  BY DEF OutInterrupt, Placed
<1>3. /\ xfer.buf = SlotOf(in) + xfer.actual
      /\ xfer.actual + xfer.left <= LinearWrite(in, out)
      /\ xfer.left >= Mps
  BY <1>2 DEF RegionFree, Armed, Restarting, Arming
<1>4. /\ LinearWrite(in, out) \in Nat /\ SlotOf(in) \in Nat /\ SlotOf(out) \in Nat
      /\ Base \in Int /\ n \in Nat /\ n <= Mps
  BY <1>1, LinearWriteType, RingTypes, BaseType, SizesFit DEF Counter, Slot
<1>5. pool' = [k \in Slot |-> IF k >= xfer.buf /\ k < xfer.buf + n
                              THEN pma[k - xfer.buf + 1] ELSE pool[k]]
  BY DEF OutInterrupt
<1>6. sent = Base + Used(in, out) + xfer.actual + n
  <2> DEFINE d == IF pc = "drop" THEN len ELSE 0
  <2>1. d \in Nat /\ Used(in, out) \in Nat
    BY <1>1, SizesFit DEF TypeOK
  <2>2. sent = Len(taken) + Used(in, out) - d + xfer.actual + n /\ Base = Len(taken) - d
    BY <1>2 DEF BytesAccounted, Base, Armed
  <2> HIDE DEF d
  <2> QED
    BY <1>1, <1>4, <2>1, <2>2, SMTT(30)
<1> HIDE DEF n
<1>7. ASSUME NEW t \in Nat, t < xfer.actual + n
      PROVE  t < LinearWrite(in, out) /\ pool'[SlotOf(in) + t] = Base + Used(in, out) + t + 1
  <2>1. t < LinearWrite(in, out)
    BY <1>1, <1>3, <1>4, <1>7, SizesFit, SMTT(30)
  <2>2. SlotOf(in) + t \in Slot
    BY <1>1, <2>1, LinearSlots
  <2>3. CASE t < xfer.actual
    <3>1. pool'[SlotOf(in) + t] = pool[SlotOf(in) + t]
      BY <1>1, <1>3, <1>4, <1>5, <2>2, <2>3
    <3>2. pool[SlotOf(in) + t] = Base + Used(in, out) + t + 1
      BY <1>2, <2>3 DEF InOrder, TransferInOrder, Armed
    <3> QED
      BY <2>1, <3>1, <3>2
  <2>4. CASE ~(t < xfer.actual)
    <3>1. /\ SlotOf(in) + t >= xfer.buf /\ SlotOf(in) + t < xfer.buf + n
          /\ (SlotOf(in) + t) - xfer.buf + 1 = t - xfer.actual + 1
          /\ t - xfer.actual + 1 \in 1..n
      <4>1. xfer.actual \in Nat /\ SlotOf(in) \in Nat /\ xfer.buf = SlotOf(in) + xfer.actual
        BY <1>1, <1>3, <1>4
      <4>2. n \in Nat /\ t \in Nat /\ t < xfer.actual + n
        BY <1>4, <1>7
      <4> HIDE DEF RxInv
      <4> QED
        BY <2>4, <4>1, <4>2
    <3>2. pool'[SlotOf(in) + t] = pma[t - xfer.actual + 1]
      BY <1>5, <2>2, <3>1
    <3>3. pma[t - xfer.actual + 1] = sent - n + (t - xfer.actual + 1)
      BY <1>2, <3>1 DEF InOrder, PacketInOrder, n
    <3>4. sent - n + (t - xfer.actual + 1) = Base + Used(in, out) + t + 1
      BY <1>1, <1>4, <1>6, SMTT(30)
    <3>5. pool'[SlotOf(in) + t] = Base + Used(in, out) + t + 1
      BY <3>2, <3>3, <3>4, Zenon
    <3> QED
      BY <2>1, <3>5, Zenon
  <2> QED
    BY <2>3, <2>4
<1>8. ASSUME NEW j \in Nat, j < Used(in, out)
      PROVE  pool'[(SlotOf(out) + j) % Size] = Base + j + 1
  <2> DEFINE k == (SlotOf(out) + j) % Size
  <2>1. k \in Slot
    BY <1>4, SizesFit, ModRange DEF Slot
  <2>2. ASSUME NEW s \in Int, s >= xfer.buf, s < xfer.buf + n
        PROVE  k # s
    <3> DEFINE t == s - SlotOf(in)
    <3>1. xfer.actual \in Nat /\ xfer.left \in Nat /\ n <= xfer.left
      BY <1>1, <1>3, <1>4, SizesFit
    <3>2. t \in Nat /\ s = SlotOf(in) + t
      BY <1>3, <1>4, <2>2, <3>1
    <3>3. t < LinearWrite(in, out)
      BY <1>3, <1>4, <2>2, <3>1
    <3> HIDE DEF t
    <3>4. (SlotOf(out) + j) % Size # SlotOf(in) + t
      BY <1>1, <1>8, <3>2, <3>3, SlotsApart
    <3> QED
      BY <3>2, <3>4
  <2> HIDE DEF k
  <2>3. pool'[k] = pool[k]
    <3>1. k \in Int
      BY <2>1, SizesFit DEF Slot
    <3> QED
      BY <1>5, <2>1, <2>2, <3>1
  <2> USE DEF k
  <2>4. pool[k] = Base + j + 1
    BY <1>8 DEF InOrder, RingInOrder
  <2> QED
    BY <2>3, <2>4
<1> QED
  BY <1>7, <1>8 DEF n

LEMMA InterruptInOrder ==
  ASSUME RxInv, InOrder, OutInterrupt
  PROVE  InOrder'
<1> USE DEF RxInv, ringVars, epVars, mainVars
<1> DEFINE n == Len(pma)
           x == Transfer(xfer.buf + n, (xfer.left - n) % CounterMod, xfer.actual + n)
<1>1. /\ in \in Counter /\ out \in Counter /\ Used(in, out) \in 0..Size /\ Len(taken) \in Nat
      /\ n \in 0..Mps /\ xfer.actual \in Nat /\ xfer.left \in Nat
  BY RingTyped
<1>2. /\ epStatus = "done" /\ epStatus' # "done" /\ epEnable /\ pc \notin Restarting
      /\ UNCHANGED <<out, pc, len, taken>>
  BY DEF OutInterrupt, Placed, OutComplete, StartRead
<1>3. x.actual = xfer.actual + n /\ x.actual \in Nat
  BY <1>1, SizesFit DEF Transfer
<1>4. Base' = Base /\ Base \in Int
  BY <1>2, BaseType DEF Base
<1>5. TakenInOrder' /\ PacketInOrder'
  BY <1>2 DEF InOrder, TakenInOrder, PacketInOrder
<1>6. CASE ~Finished(n, x) /\ xfer' = x /\ UNCHANGED in
  <2>1. RingInOrder'
    BY <1>2, <1>4, <1>6, PacketCopied DEF RingInOrder
  <2>2. TransferInOrder'
    BY <1>2, <1>3, <1>4, <1>6, PacketCopied DEF TransferInOrder
  <2> QED
    BY <1>5, <2>1, <2>2 DEF InOrder
<1>7. CASE OutComplete(x)
  <2>1. LinearWrite(in, out) \in 0..Size /\ LinearWrite(in, out) <= Size - Used(in, out)
        /\ Free(in, out) = Size - Used(in, out)
    <3>1. Used(in, out) <= Size
      BY <1>1, SizesFit
    <3> QED
      BY <1>1, <3>1, LinearWriteIs, FreeIs
  <2>2. x.actual <= LinearWrite(in, out) /\ x.actual <= Size - Used(in, out)
    <3>1. xfer.actual + xfer.left <= LinearWrite(in, out) /\ xfer.left >= Mps
      BY <1>2 DEF RegionFree, Armed, Restarting, Arming
    <3>2. n \in Nat /\ n <= Mps
      BY <1>1, SizesFit
    <3>3. x.actual <= LinearWrite(in, out)
      BY <1>1, <1>3, <2>1, <3>1, <3>2, SizesFit, SMTT(30)
    <3> QED
      BY <1>1, <1>3, <2>1, <3>3, SizesFit
  <2>3. in' = Advance(in, x.actual)
    <3>1. Least(x.actual, Free(in, out)) = x.actual
      BY <1>1, <1>3, <2>1, <2>2, SizesFit, SMTT(30) DEF Least
    <3>2. in' = Advance(in, Least(x.actual, Free(in, out)))
      BY <1>7 DEF OutComplete, WriteDone
    <3> QED
      BY <3>1, <3>2
  <2>4. Used(in', out) = Used(in, out) + x.actual
    <3>1. Used(in, out) + x.actual <= Size
      BY <1>1, <1>3, <2>2, SizesFit
    <3> QED
      BY <1>1, <1>3, <2>3, <3>1, UsedAfterWrite
  <2>5. RingInOrder'
    <3> SUFFICES ASSUME NEW j \in Nat, j < Used(in', out)
                 PROVE  pool'[(SlotOf(out) + j) % Size] = Base + j + 1
      BY <1>2, <1>4 DEF RingInOrder
    <3>1. CASE j < Used(in, out)
      BY <3>1, PacketCopied
    <3>2. CASE ~(j < Used(in, out))
      <4> DEFINE t == j - Used(in, out)
      <4>1. t \in Nat /\ t < xfer.actual + n
        BY <1>1, <1>3, <2>4, <3>2
      <4> HIDE DEF t
      <4>2. t < LinearWrite(in, out) /\ pool'[SlotOf(in) + t] = Base + Used(in, out) + t + 1
        BY <4>1, PacketCopied
      <4>3. (SlotOf(out) + Used(in, out) + t) % Size = SlotOf(in) + t
        BY <1>1, <4>1, <4>2, LinearSlots
      <4>4. SlotOf(out) \in Int
        BY <1>1, SizesFit, RingTypes DEF Slot
      <4>5. SlotOf(out) + Used(in, out) + t = SlotOf(out) + j
            /\ Base + Used(in, out) + t + 1 = Base + j + 1
        BY <1>1, <1>4, <4>4 DEF t
      <4> QED
        BY <4>2, <4>3, <4>5
    <3> QED
      BY <3>1, <3>2
  <2>6. TransferInOrder'
    <3> SUFFICES ASSUME epStatus' = "valid" PROVE xfer'.actual = 0
      BY <1>2 DEF TransferInOrder, Armed
    <3>1. xfer' = Transfer(SlotOf(WriteDone(in, out, x.actual)), Mps, 0)
      BY <1>2, <1>7 DEF OutComplete, StartRead
    <3> QED
      BY <3>1 DEF Transfer
  <2> QED
    BY <1>5, <2>5, <2>6 DEF InOrder
<1> QED
  BY <1>6, <1>7 DEF OutInterrupt

LEMMA OrderKept ==
  ASSUME Restarting \subseteq QuietPcs, MaxConfigs <= 1
  PROVE  RxInv /\ RxInv' /\ InOrder /\ [Next]_vars => InOrder'
<1> SUFFICES ASSUME RxInv, InOrder, [Next]_vars
             PROVE  InOrder'
  OBVIOUS
<1> USE DEF RxInv, ringVars, epVars, mainVars
<1>1. ASSUME NEW n \in 0..Size, Peek(n) PROVE InOrder'
  BY <1>1, PeekInOrder
<1>2. CASE Restart
  BY <1>2, DropInOrder, RestartInOrder DEF Restart
<1>3. ASSUME NEW n \in 0..Mps, HostOut(n) PROVE InOrder'
  BY <1>3, HostOutInOrder
<1>4. CASE OutInterrupt
  BY <1>4, InterruptInOrder
<1>5. CASE BusReset
  <2>1. configs = 0 /\ epEnable
    BY <1>5, SizesFit DEF BusReset, TypeOK
  <2> QED
    BY <2>1 DEF Placed
<1>6. CASE Configured
  <2>1. /\ UNCHANGED <<in, out, pool, pma, pc, len, taken, sent>> /\ epStatus' # "done"
        /\ ~epEnable /\ configs = 0 /\ in = 0 /\ out = 0
    BY <1>6, SizesFit DEF Configured, TypeOK, Placed
  <2>2. Base' = Base /\ epStatus' # "done"
    BY <2>1 DEF Base
  <2>3. xfer'.actual = 0 \/ ~Armed'
    <3>1. CASE epStatus' = "valid"
      <4>1. xfer' = Transfer(SlotOf(in), LinearWrite(in, out), 0)
        BY <1>6, <2>1, <3>1 DEF Configured, Placed
      <4> QED
        BY <4>1 DEF Transfer
    <3>2. CASE epStatus' # "valid"
      BY <2>1, <3>2 DEF Armed
    <3> QED
      BY <3>1, <3>2
  <2> QED
    BY <2>1, <2>2, <2>3
    DEF InOrder, TakenInOrder, RingInOrder, TransferInOrder, PacketInOrder
<1>7. CASE UNCHANGED vars
  <2>1. Base' = Base
    BY <1>7 DEF vars, Base
  <2> QED
    BY <1>7, <2>1 DEF vars, InOrder, TakenInOrder, RingInOrder, TransferInOrder,
                      PacketInOrder, Armed
<1> QED
  BY <1>1, <1>2, <1>3, <1>4, <1>5, <1>6, <1>7 DEF Next

\* The consumer gets the host's bytes and nothing else, each once and in order.
THEOREM BytesInOrder ==
  ASSUME Restarting \subseteq QuietPcs, MaxConfigs <= 1
  PROVE  Spec => []TakenInOrder
<1>1. InOrder => TakenInOrder
  BY DEF InOrder
<1> QED
  BY <1>1, RxInitially, RxKept, OrderInitially, OrderKept, TypeCorrect, PTL DEF Spec
-----------------------------------------------------------------------------
(***************************************************************************)
(* The path is a FIFO: every step puts bytes in, or takes out the next     *)
(* ones, or leaves both ends alone.                                        *)
(***************************************************************************)
LEMMA IsPrefixOf ==
  ASSUME NEW S, NEW s \in Seq(S), NEW t \in Seq(S), Len(s) <= Len(t),
         \A k \in 1..Len(s) : s[k] = t[k]
  PROVE  RxFifo!IsPrefix(s, t)
BY SamePrefix DEF RxFifo!IsPrefix

\* Bytes put in and bytes got out.
Put == UpTo(sent)

LEMMA PutIsPut == Put = [i \in 1..sent |-> i] /\ Put' = [i \in 1..sent |-> i]'
  BY DEF Put, UpTo

Ends ==
  /\ sent \in Nat /\ taken \in Seq(Nat) /\ Len(taken) \in Nat /\ Len(taken) <= sent
  /\ RxFifo!IsPrefix(taken, Put)

LEMMA BothEnds == RxInv /\ InOrder => Ends
<1> SUFFICES ASSUME RxInv, InOrder PROVE Ends
  OBVIOUS
<1>1. /\ Used(in, out) \in Nat /\ Len(taken) \in Nat /\ sent \in Nat
      /\ Len(pma) \in Nat /\ xfer.actual \in Nat /\ len \in Nat
  BY RingTyped, SizesFit DEF RxInv, TypeOK
<1>2. taken \in Seq(Nat)
  <2>1. taken \in Seq(0..MaxBytes) /\ 0..MaxBytes \subseteq Nat
    BY SizesFit DEF RxInv, TypeOK
  <2> QED
    BY <2>1, SeqMonotonic
<1>3. Len(taken) <= sent
  <2> DEFINE d == IF pc = "drop" THEN len ELSE 0
             a == IF Armed THEN xfer.actual ELSE 0
             p == IF epStatus = "done" THEN Len(pma) ELSE 0
  <2>1. d \in Nat /\ d <= Used(in, out) /\ a \in Nat /\ p \in Nat
    BY <1>1 DEF RxInv, Placed
  <2>2. sent = Len(taken) + Used(in, out) - d + a + p
    BY DEF RxInv, BytesAccounted
  <2> HIDE DEF d, a, p
  <2> QED
    BY <1>1, <2>1, <2>2
<1>4. Put \in Seq(Nat) /\ Len(Put) = sent /\ \A k \in 1..sent : Put[k] = k
  BY <1>1, UpToIsSeq DEF Put
<1>5. \A k \in 1..Len(taken) : taken[k] = Put[k]
  BY <1>1, <1>3, <1>4 DEF InOrder, TakenInOrder
<1> QED
  BY <1>1, <1>2, <1>3, <1>4, <1>5, IsPrefixOf DEF Ends

LEMMA BothEndsNext == RxInv' /\ InOrder' => Ends'
  BY BothEnds, PTL

LEMMA FifoInitially == Init => RxFifo!Init
<1> SUFFICES ASSUME Init PROVE RxFifo!Init
  OBVIOUS
<1>1. UpTo(0) = <<>>
  BY UpToIsSeq, EmptySeq
<1> QED
  BY <1>1 DEF Init, RxFifo!Init, UpTo

LEMMA FifoStep ==
  ASSUME RxInv, InOrder, RxInv', InOrder', [Next]_vars
  PROVE  [RxFifo!Next]_(RxFifo!vars)
<1> USE DEF ringVars, epVars, mainVars
<1>1. CASE UNCHANGED <<sent, taken>>
  BY <1>1 DEF RxFifo!vars
<1>2. ASSUME NEW n \in 0..Size, Peek(n) PROVE [RxFifo!Next]_(RxFifo!vars)
  <2> DEFINE c == CopyOut(pool, SlotOf(out), n)
  <2>1. n \in Nat /\ SlotOf(out) \in Slot /\ pool \in [Slot -> 0..MaxBytes]
        /\ taken \in Seq(0..MaxBytes) /\ Len(taken) \in Nat
    <3>1. out \in Counter /\ n \in Nat /\ Len(taken) \in Nat
      BY RingTyped, SizesFit DEF RxInv
    <3> QED
      BY <3>1, RingTypes DEF RxInv, TypeOK
  <2>2. c \in Seq(0..MaxBytes) /\ Len(c) = n
    BY <2>1, CopyOutType
  <2>3. sent' = sent /\ taken' = taken \o c
    BY <1>2 DEF Peek
  <2> HIDE DEF c
  <2>4. CASE n = 0
    <3>1. c = <<>>
      BY <2>2, <2>4, EmptySeq
    <3>2. taken' = taken
      BY <2>1, <2>3, <3>1, ConcatEmptySeq
    <3> QED
      BY <1>1, <2>3, <3>2
  <2>5. CASE n # 0
    <3>0. /\ Len(taken \o c) = Len(taken) + Len(c)
          /\ \A k \in 1..Len(taken) : (taken \o c)[k] = taken[k]
      <4>1. taken \in Seq(0..MaxBytes) /\ c \in Seq(0..MaxBytes)
        BY <2>1, <2>2
      <4> QED
        BY <4>1, Longer, Zenon
    <3>1. Len(taken') = Len(taken) + n /\ Len(taken') > Len(taken)
      BY <2>1, <2>2, <2>3, <2>5, <3>0
    <3>2. \A k \in 1..Len(taken) : taken[k] = taken'[k]
      BY <2>3, <3>0
    <3>3. taken \in Seq(Nat) /\ taken' \in Seq(Nat)
      BY BothEnds, BothEndsNext DEF Ends
    <3>4. RxFifo!IsPrefix(taken, taken')
      <4>1. Len(taken) <= Len(taken')
        BY <2>1, <3>1
      <4> QED
        BY <3>2, <3>3, <4>1, IsPrefixOf, Zenon
    <3>5. RxFifo!IsPrefix(taken', Put)
      <4>1. Put' = Put /\ RxFifo!IsPrefix(taken', Put')
        BY <2>3, BothEndsNext DEF Put, Ends
      <4> QED
        BY <4>1
    <3> QED
      BY <2>3, <3>1, <3>4, <3>5, PutIsPut DEF RxFifo!Next, RxFifo!Get
  <2> QED
    BY <2>4, <2>5
<1>3. ASSUME NEW n \in 0..Mps, HostOut(n) PROVE [RxFifo!Next]_(RxFifo!vars)
  <2>1. n \in Nat /\ sent \in Nat /\ sent' = sent + n /\ taken' = taken
    BY <1>3, BothEnds, SizesFit DEF HostOut, Ends
  <2>2. CASE n = 0
    BY <1>1, <2>1, <2>2
  <2>3. CASE n # 0
    <3>1. /\ Put \in Seq(Nat) /\ Len(Put) = sent /\ \A k \in 1..sent : Put[k] = k
          /\ Put' \in Seq(Nat) /\ Len(Put') = sent' /\ \A k \in 1..sent' : Put'[k] = k
      BY <2>1, UpToIsSeq DEF Put
    <3>2. Len(Put') > Len(Put) /\ \A k \in 1..Len(Put) : Put[k] = Put'[k]
      BY <2>1, <2>3, <3>1
    <3>3. RxFifo!IsPrefix(Put, Put')
      BY <2>1, <3>1, <3>2, IsPrefixOf
    <3> QED
      BY <2>1, <3>2, <3>3, PutIsPut DEF RxFifo!Next, RxFifo!Put
  <2> QED
    BY <2>2, <2>3
<1>4. CASE Restart \/ OutInterrupt \/ BusReset \/ Configured
  BY <1>1, <1>4 DEF Restart, Drop, Test, Reset, Setup, SetFlag, Arm,
     PlaceBuf, PlaceLeft, PlaceActual, Place, Start, OutInterrupt, BusReset, Configured
<1>5. CASE UNCHANGED vars
  BY <1>1, <1>5 DEF vars
<1> QED
  BY <1>2, <1>3, <1>4, <1>5 DEF Next

\* With the restart out of the way of arriving packets, the receive path
\* implements the FIFO that the library's model takes it for.
THEOREM ReceivePathIsFifo ==
  ASSUME Restarting \subseteq QuietPcs, MaxConfigs <= 1
  PROVE  Spec => FifoSafety
<1> USE DEF FifoSafety, RxFifo!Safety
<1> QED
  BY RxInitially, RxKept, OrderInitially, OrderKept, TypeCorrect, FifoInitially, FifoStep, PTL
  DEF Spec
=============================================================================

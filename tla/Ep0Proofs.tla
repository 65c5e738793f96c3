----------------------------- MODULE Ep0Proofs ------------------------------
(***************************************************************************)
(* Control transfers, for every set of requests, every packet, buffer and  *)
(* reply length: the types with any host, and the four safety properties   *)
(* of Ep0 with a host that lets a completion be served before its next     *)
(* SETUP.                                                                  *)
(***************************************************************************)
EXTENDS Ep0, TLAPS
-----------------------------------------------------------------------------
(***************************************************************************)
(* The inductive invariant of every host: the full types, and what the two *)
(* byte counts can have grown to.                                          *)
(***************************************************************************)
Holding == [kind : Kinds \cup {"none"}, bit : BOOLEAN]
Asking == Requests \cup {NoRequest}

Sent == [of : Holding, from : Nat, n : 0..Mps]
Came == [req : Asking, n : 0..Mps]
Transfer == [setup : Asking, pos : Nat, residue : 0..(Wrap - 1), zlp : BOOLEAN,
             holds : Holding]
Device == [pending : Nat, address : Nat \cup {NoAddress}, configuration : Nat,
           speedKnown : BOOLEAN, out : Status, in : Status]
Host == [stage : Stages, req : Asking, moved : Nat, good : BOOLEAN, told : BOOLEAN,
         address : Nat, abandons : Nat]

Types ==
  /\ tx \in Status /\ rx \in Status
  /\ ctrTx \in BOOLEAN /\ ctrRx \in BOOLEAN /\ isSetup \in BOOLEAN /\ busReset \in BOOLEAN
  /\ txPkt \in Sent /\ rxPkt \in Came
  /\ inDone \in Nat /\ outDone \in Nat
  /\ core \in Transfer /\ dev \in Device
  /\ serving \in {"none", "setup", "out", "in"} /\ count \in 0..Mps /\ handled \in 0..2
  /\ host \in Host

\* The handler works on a completion, another waits and a packet is armed, one at
\* least of which is missing: each adds a packet's bytes to the count once, and
\* arming a packet clears it.
Counted(working, waiting, armed, done) ==
  /\ ~(working /\ waiting /\ armed)
  /\ done <= Mps + Mps
  /\ working \/ waiting \/ armed => done <= Mps
  /\ (working /\ waiting) \/ (working /\ armed) \/ (waiting /\ armed) => done = 0

InCounted == Counted(serving = "in", ctrTx, tx = "valid", inDone)
OutCounted == Counted(serving = "out", ctrRx /\ ~isSetup, rx = "valid", outDone)

\* What the host sends never exceeds what it announced.
Fits == host.stage = "data" /\ ~IsRead(host.req) => host.moved <= host.req.length

\* Types, with what keeps them.
TInv == Types /\ Fits /\ InCounted /\ OutCounted
-----------------------------------------------------------------------------
(***************************************************************************)
(* The inductive invariant of a host that lets a completion be served      *)
(* before its next SETUP: outside a bus reset host, endpoint and device    *)
(* core are in one of ten phases of a control transfer, each of which says *)
(* how far all three have come.                                            *)
(***************************************************************************)
Quiet == serving = "none" /\ ~ctrTx /\ ~ctrRx
\* A read refused for its length alone, when its handler has run.
TooBig(r) == IsRead(r) /\ r.length > BufferLen
\* What a read is to bring, and that it has.
Wanted(r) == ToSend(ReplyLen[r.kind], r.length)
Whole == host.req.kind \in Reads => host.moved = Wanted(host.req)

\* No transfer, or one that is over.
Rest ==
  /\ ~Busy /\ Quiet
  /\ host.stage = "done" => handled = 1 /\ host.good /\ (IsRead(host.req) => Whole)
  /\ host.stage = "refused" => handled = 0 \/ TooBig(host.req)

\* The SETUP is in and not yet handled.
Asked ==
  /\ (serving = "none" /\ ctrRx /\ isSetup) \/ (serving = "setup" /\ ~ctrRx)
  /\ ~ctrTx /\ tx = "nak" /\ rx = "nak" /\ rxPkt.req = host.req
  /\ handled = 0 /\ host.moved = 0 /\ host.good
  /\ host.stage = IF host.req.length > 0 THEN "data" ELSE "status"

\* The endpoint answers STALL until the next SETUP.
Refusing ==
  /\ Busy /\ Quiet /\ tx = "stall" /\ rx = "nak" /\ host.good
  /\ handled = 0 \/ TooBig(host.req)
  /\ IsRead(host.req) => host.stage = "data"

\* An IN, an OUT completion of n bytes waits, or its handler is about to run.
InWaits(n) == ~ctrRx /\ \/ serving = "none" /\ ctrTx
                        \/ serving = "in" /\ ~ctrTx /\ count = n
OutWaits(n) == ~ctrTx /\ \/ serving = "none" /\ ctrRx /\ ~isSetup
                         \/ serving = "out" /\ ~ctrRx /\ count = n

\* What ends a reply: its last packet, when it has the length asked for; an empty
\* packet still due, a short last packet, or an empty one, when it is shorter.
LastPacket(moved, residue, zlp, length) ==
  \/ moved + residue = length /\ ~zlp /\ residue > 0
  \/ moved + residue < length /\ zlp /\ residue % Mps = 0
  \/ moved + residue < length /\ ~zlp /\ residue % Mps # 0
  \/ moved < length /\ ~zlp /\ residue = 0

\* A reply on its way: the next packet is armed, or the host has taken it.
Sending ==
  /\ IsRead(host.req) /\ core.setup = host.req /\ rx = "nak" /\ handled = 1
  /\ inDone = 0 /\ host.good
  /\ txPkt = Packet(core.holds, core.pos, Chunk(core.residue))
  /\ LastPacket(core.pos, core.residue, core.zlp, host.req.length)
  /\ host.req.kind \in Reads =>
       /\ core.holds.kind = host.req.kind
       /\ core.pos + core.residue = Wanted(host.req)
       /\ core.zlp => core.residue > 0
SendingArmed ==
  /\ Sending /\ tx = "valid" /\ Quiet /\ host.stage = "data" /\ host.moved = core.pos
SendingTaken ==
  /\ Sending /\ tx = "nak" /\ InWaits(txPkt.n)
  /\ host.moved = core.pos + txPkt.n
  /\ host.stage = IF txPkt.n < Mps \/ host.moved >= host.req.length THEN "status" ELSE "data"

\* The status stage of a read: begun, or acknowledged and not yet served.
ReadEnding ==
  /\ IsRead(host.req) /\ outDone = 0 /\ handled = 1 /\ host.good /\ Whole
  /\ \/ host.stage = "status" /\ rx = "valid" /\ Quiet
     \/ host.stage = "done" /\ rxPkt.n = 0 /\ OutWaits(0)

\* A request of another kind that asked for data and is answered with none gets an
\* empty packet armed where the host awaits its status stage: both wait until the
\* host gives up.
Deaf ==
  /\ IsRead(host.req) /\ host.req.kind \notin Reads /\ host.good
  /\ host.stage = "status" /\ Quiet /\ rx = "nak"

\* Data on their way from the host: the endpoint is armed, or has taken a packet.
Receiving ==
  /\ ~IsRead(host.req) /\ core.setup = host.req /\ ~core.zlp /\ tx = "nak"
  /\ handled = 0 /\ outDone = 0 /\ host.good /\ host.moved <= host.req.length
ReceivingArmed ==
  /\ Receiving /\ rx = "valid" /\ Quiet /\ host.stage = "data"
  /\ core.residue + host.moved = host.req.length /\ core.residue > 0
ReceivingTaken ==
  /\ Receiving /\ rx = "nak" /\ OutWaits(rxPkt.n) /\ rxPkt.n > 0
  /\ core.residue + host.moved = host.req.length + rxPkt.n
  /\ host.stage = IF host.moved = host.req.length THEN "status" ELSE "data"

\* The status stage of any other transfer: begun, or acknowledged and not yet served.
WriteEnding ==
  /\ ~IsRead(host.req) /\ core.setup = host.req /\ ~core.zlp /\ core.residue = 0
  /\ handled = 1 /\ inDone = 0 /\ txPkt.n = 0 /\ host.good
  /\ \/ host.stage = "status" /\ tx = "valid" /\ Quiet
     \/ host.stage = "done" /\ tx = "nak" /\ InWaits(0)

Phase == \/ Rest \/ Asked \/ Refusing \/ SendingArmed \/ SendingTaken \/ ReadEnding \/ Deaf
         \/ ReceivingArmed \/ ReceivingTaken \/ WriteEnding
\* A bus reset ends the host's transfer; what the interrupt still serves is void.
PInv == IF busReset THEN host.stage = "idle" ELSE Phase
-----------------------------------------------------------------------------
(***************************************************************************)
(* Two invariants on top of the phases: the address in use and the one     *)
(* pending, and the endpoint of a configured device.                       *)
(***************************************************************************)
\* WriteEnding, as far as the address goes.
Ending ==
  /\ ~IsRead(host.req) /\ handled = 1
  /\ host.stage = "status" \/ (host.stage = "done" /\ ~Quiet)
\* The device's and the host's address agree and none is pending, except in the
\* status stage of SET_ADDRESS: there the new one is pending, and from its
\* acknowledgement until that is served the host alone uses it.
AInv ==
  /\ busReset => host.address = 0
  /\ ~busReset /\ Ending /\ host.req.kind = "address" =>
       /\ dev.pending = host.req.value
       /\ host.stage = "status" => Hears
       /\ host.stage = "done" => host.address = host.req.value
  /\ ~busReset /\ ~(Ending /\ host.req.kind = "address") => dev.pending = 0 /\ Hears

Opened(d) == d.configuration # 0 => d.out # "dis"
\* A device that is about to be configured knows its speed, hence its endpoints.
CInv == ~busReset =>
  /\ Opened(dev)
  /\ Busy /\ host.req.kind = "configuration" => dev.speedKnown
-----------------------------------------------------------------------------
(***************************************************************************)
(* Types.  The provers see a record changed in several fields as a chain   *)
(* of changes of one, which is why each record has a lemma on those.       *)
(***************************************************************************)
\* wLength has 16 bits and ep0_data_buf_residue 32.
LengthsFit == Wrap > 0 /\ \A r \in Requests : r.length < Wrap

LEMMA AskingTyped ==
  ASSUME LengthsFit, NEW r \in Asking
  PROVE  /\ r \in Request /\ r.kind \in Kinds /\ r.dirIn \in BOOLEAN
         /\ r.length \in Nat /\ r.value \in Nat
         /\ r.length \in 0..(Wrap - 1)
<1>0. NoRequest \in Request
  BY SMT DEF NoRequest, Request, Kinds, Reads
<1>1. r \in Request
  BY <1>0, HostAssumption, Zenon DEF Asking
<1>2. CASE r \in Requests
  BY <1>1, <1>2, SizeAssumption, SMT DEF Request, LengthsFit
<1>3. CASE r = NoRequest
  BY <1>1, <1>3, SizeAssumption, SMT DEF Request, LengthsFit, NoRequest
<1> QED
  BY <1>2, <1>3 DEF Asking

LEMMA LessTyped ==
  ASSUME LengthsFit, NEW residue \in Nat, NEW n \in Nat
  PROVE  Less(residue, n) \in 0..(Wrap - 1)
  BY SizeAssumption, SMT DEF LengthsFit, Less

LEMMA LessExact ==
  ASSUME LengthsFit, NEW residue \in 0..(Wrap - 1), NEW n \in 0..residue
  PROVE  Less(residue, n) = residue - n
  BY SizeAssumption, SMT DEF LengthsFit, Less

LEMMA ChunkTyped ==
  ASSUME NEW n \in Nat
  PROVE  Chunk(n) \in 0..Mps /\ Chunk(n) <= n /\ (n > 0 => Chunk(n) > 0)
  BY SizeAssumption, SMT DEF Chunk

LEMMA ToSendTyped ==
  ASSUME NEW len \in Nat, NEW asked \in Nat
  PROVE  /\ ToSend(len, asked) \in 0..asked /\ ToSend(len, asked) <= len
         /\ ToSend(len, asked) \in {len, asked}
         /\ ZlpDue(len, asked) \in BOOLEAN
  BY SMT DEF ToSend, ZlpDue

Answer == [ok : BOOLEAN, len : Nat, holds : Holding, dev : Device]

LEMMA DeviceFields ==
  ASSUME NEW d \in Device
  PROVE  /\ d.pending \in Nat /\ d.address \in Nat \cup {NoAddress}
         /\ d.configuration \in Nat /\ d.speedKnown \in BOOLEAN
         /\ d.out \in Status /\ d.in \in Status
  BY DEF Device

LEMMA DoneTyped ==
  ASSUME core.holds \in Holding, NEW len \in Nat, NEW d \in Device
  PROVE  /\ Done(len, d) \in Answer /\ Done(len, d).ok /\ Done(len, d).len = len
         /\ Done(len, d).dev = d
         /\ Refusal(d) \in Answer /\ ~Refusal(d).ok /\ Refusal(d).dev = d
  BY SMT DEF Refusal, Done, Answer

LEMMA ReplyTyped ==
  ASSUME core.holds \in Holding, NEW r, r.kind \in Reads, NEW bit \in BOOLEAN,
         NEW d \in Device
  PROVE  /\ Reply(r, bit, d) \in Answer /\ Reply(r, bit, d).ok
         /\ Reply(r, bit, d).len = ReplyLen[r.kind]
         /\ Reply(r, bit, d).holds.kind = r.kind /\ Reply(r, bit, d).dev = d
<1> DEFINE len == ReplyLen[r.kind]
           held == [kind |-> r.kind, bit |-> bit]
<1>1. len \in Nat
  BY SizeAssumption, SMT
<1> DEFINE done == Done(len, d)
<1>2. done \in Answer /\ done.ok /\ done.len = len /\ done.dev = d
  BY <1>1, DoneTyped
<1>3. held \in Holding /\ held.kind = r.kind
  BY SMT DEF Holding, Kinds
<1>4. Reply(r, bit, d) = [done EXCEPT !.holds = held]
  BY Zenon DEF Reply
<1> HIDE DEF done, len, held
<1>5. [done EXCEPT !.holds = held] \in Answer
  BY <1>2, <1>3, SMT DEF Answer
<1>6. [done EXCEPT !.holds = held].ok
  BY <1>2, SMT DEF Answer
<1>7. /\ [done EXCEPT !.holds = held].len = done.len
      /\ [done EXCEPT !.holds = held].dev = done.dev
  BY <1>2, SMT DEF Answer, Device
<1>8. [done EXCEPT !.holds = held].holds = held
  BY <1>2, SMT DEF Answer
<1> QED
  BY <1>2, <1>3, <1>4, <1>5, <1>6, <1>7, <1>8, Zenon DEF len

LEMMA DeviceFieldSet ==
  ASSUME NEW d \in Device
  PROVE  /\ \A p \in Nat : [d EXCEPT !.pending = p] \in Device
         /\ \A a \in Nat \cup {NoAddress} : [d EXCEPT !.address = a] \in Device
         /\ \A c \in Nat : [d EXCEPT !.configuration = c] \in Device
         /\ \A k \in BOOLEAN : [d EXCEPT !.speedKnown = k] \in Device
         /\ \A s \in Status : [d EXCEPT !.out = s] \in Device /\ [d EXCEPT !.in = s] \in Device
<1>1. ASSUME NEW p \in Nat PROVE [d EXCEPT !.pending = p] \in Device
  BY SMT DEF Device
<1>2. ASSUME NEW a \in Nat \cup {NoAddress} PROVE [d EXCEPT !.address = a] \in Device
  BY SMT DEF Device
<1>3. ASSUME NEW c \in Nat PROVE [d EXCEPT !.configuration = c] \in Device
  BY SMT DEF Device
<1>4. ASSUME NEW k \in BOOLEAN PROVE [d EXCEPT !.speedKnown = k] \in Device
  BY SMT DEF Device
<1>5. ASSUME NEW s \in Status
      PROVE [d EXCEPT !.out = s] \in Device /\ [d EXCEPT !.in = s] \in Device
  BY SMT DEF Device
<1> QED
  BY <1>1, <1>2, <1>3, <1>4, <1>5

LEMMA DeviceChanges ==
  ASSUME NEW d \in Device, NEW a \in Nat
  PROVE  /\ SetAddress(d, a) \in Device /\ [d EXCEPT !.speedKnown = TRUE] \in Device
         /\ [d EXCEPT !.configuration = a] \in Device
         /\ Configured(d, a) \in Device /\ SetInterface(d) \in Device
         /\ SetStall(d) \in Device /\ ClearStall(d) \in Device
         /\ Forgotten(d) \in Device
<1>1. SetAddress(d, a) \in Device
  <2> DEFINE at  == IF a = 0 THEN 0 ELSE d.address
             d1  == [d EXCEPT !.pending = a]
             d2  == [d1 EXCEPT !.address = at]
  <2>1. SetAddress(d, a) = d2
    BY SMT DEF SetAddress, Device
  <2>2. at \in Nat \cup {NoAddress}
    BY DeviceFields
  <2>3. d1 \in Device
    BY DeviceFieldSet
  <2> QED
    BY <2>1, <2>2, <2>3, DeviceFieldSet
<1>2. Configured(d, a) \in Device
  <2> DEFINE d1 == [d EXCEPT !.configuration = a]
             d2 == [d1 EXCEPT !.out = "valid"]
             d3 == [d2 EXCEPT !.in = "nak"]
  <2>1. Configured(d, a) = d3
    BY SMT DEF Configured, Device
  <2>2. d1 \in Device
    BY DeviceFieldSet
  <2>3. d2 \in Device
    BY <2>2, DeviceFieldSet DEF Status
  <2> QED
    BY <2>1, <2>3, DeviceFieldSet DEF Status
<1>3. SetInterface(d) \in Device /\ SetStall(d) \in Device /\ ClearStall(d) \in Device
  BY DeviceFieldSet DEF SetInterface, SetStall, ClearStall, Status
<1>4. Forgotten(d) \in Device
  <2> DEFINE d1 == [d EXCEPT !.pending = 0]
             d2 == [d1 EXCEPT !.address = 0]
             d3 == [d2 EXCEPT !.configuration = 0]
             d4 == [d3 EXCEPT !.speedKnown = FALSE]
  <2>1. Forgotten(d) = d4
    BY SMT DEF Forgotten, Device
  <2>2. d1 \in Device
    BY DeviceFieldSet
  <2>3. d2 \in Device
    BY <2>2, DeviceFieldSet
  <2>4. d3 \in Device
    BY <2>3, DeviceFieldSet
  <2> QED
    BY <2>1, <2>4, DeviceFieldSet
<1> QED
  BY <1>1, <1>2, <1>3, <1>4, DeviceFieldSet

\* Whatever a handler may answer is an answer, and a reply is the request's own.
LEMMA AnswersTyped ==
  ASSUME LengthsFit, core.holds \in Holding, NEW r \in Asking, NEW d \in Device,
         NEW a \in Answers(r, d)
  PROVE  /\ a \in Answer
         /\ r.kind \in Reads /\ a.ok => a.len = ReplyLen[r.kind] /\ a.holds.kind = r.kind
<1>1. r.kind \in Kinds /\ r.length \in Nat /\ r.value \in Nat
  BY AskingTyped
<1>2. CASE r.kind = "device"
  <2>1. a = Reply(r, FALSE, [d EXCEPT !.speedKnown = TRUE])
    BY <1>2 DEF Answers, DeviceAnswers, OfDevice
  <2>2. [d EXCEPT !.speedKnown = TRUE] \in Device
    BY DeviceFieldSet
  <2>3. r.kind \in Reads
    BY <1>2 DEF Reads
  <2> QED
    BY <2>1, <2>2, <2>3, ReplyTyped
<1>3. CASE r.kind = "config"
  <2>1. a = Reply(r, FALSE, d) \/ a = Refusal(d)
    BY <1>3 DEF Answers, DeviceAnswers, OfDevice
  <2>2. Refusal(d) \in Answer /\ ~Refusal(d).ok
    BY DoneTyped
  <2>3. r.kind \in Reads
    BY <1>3 DEF Reads
  <2>4. Reply(r, FALSE, d) \in Answer /\ Reply(r, FALSE, d).len = ReplyLen[r.kind]
        /\ Reply(r, FALSE, d).holds.kind = r.kind
    BY <2>3, ReplyTyped
  <2> QED
    BY <2>1, <2>2, <2>4
<1>4. CASE r.kind = "address"
  <2>1. a = Done(0, SetAddress(d, r.value))
    BY <1>4 DEF Answers, DeviceAnswers, OfDevice
  <2>2. SetAddress(d, r.value) \in Device
    BY <1>1, DeviceChanges
  <2>3. a \in Answer
    BY <2>1, <2>2, DoneTyped
  <2> QED
    BY <1>4, <2>3 DEF Reads
<1>5. CASE r.kind = "configuration"
  <2>1. a \in ConfigurationAnswers(d, r.value)
    BY <1>5 DEF Answers, DeviceAnswers, OfDevice
  <2>2. \/ a = Refusal(d)
        \/ \E c \in Nat : a = Done(0, [d EXCEPT !.configuration = c]) \/ a = Done(0, Configured(d, c))
    BY <1>1, <2>1, SMT DEF ConfigurationAnswers
  <2>3. \A c \in Nat : [d EXCEPT !.configuration = c] \in Device /\ Configured(d, c) \in Device
    BY DeviceChanges
  <2>4. \A c \in Nat : /\ Done(0, [d EXCEPT !.configuration = c]) \in Answer
                         /\ Done(0, Configured(d, c)) \in Answer
    BY <2>3, DoneTyped
  <2>5. Refusal(d) \in Answer
    BY DoneTyped
  <2>6. a \in Answer
    BY <2>2, <2>4, <2>5, Zenon
  <2> QED
    BY <1>5, <2>6 DEF Reads
<1>6. CASE r.kind = "interface"
  <2>1. a = Done(0, SetInterface(d)) \/ a = Refusal(d)
    BY <1>6 DEF Answers, OfDevice, InterfaceAnswer
  <2>2. SetInterface(d) \in Device
    BY DeviceChanges
  <2>3. a \in Answer
    BY <2>1, <2>2, DoneTyped
  <2> QED
    BY <1>6, <2>3 DEF Reads
<1>7. CASE r.kind \in {"status", "halt", "resume"}
  <2>1. \/ a = Refusal(d)
        \/ r.kind = "status" /\ a = Reply(r, IsStalled(d.out), d)
        \/ r.kind # "status" /\ (a = Done(0, SetStall(d)) \/ a = Done(0, ClearStall(d)))
    BY <1>7 DEF Answers, OfDevice, EndpointAnswer
  <2>2. IsStalled(d.out) \in BOOLEAN
    BY DEF IsStalled
  <2>3. CASE r.kind = "status" /\ a = Reply(r, IsStalled(d.out), d)
    <3>1. r.kind \in Reads
      BY <2>3 DEF Reads
    <3> QED
      BY <2>2, <2>3, <3>1, ReplyTyped
  <2>4. CASE a = Refusal(d)
    <3>1. a \in Answer /\ ~a.ok
      BY <2>4, DoneTyped
    <3> QED
      BY <3>1
  <2>5. CASE r.kind # "status" /\ (a = Done(0, SetStall(d)) \/ a = Done(0, ClearStall(d)))
    <3>1. SetStall(d) \in Device /\ ClearStall(d) \in Device
      BY DeviceChanges
    <3>2. a \in Answer
      BY <2>5, <3>1, DoneTyped
    <3> QED
      BY <1>7, <2>5, <3>2 DEF Reads
  <2> QED
    BY <2>1, <2>3, <2>4, <2>5
<1>8. CASE r.kind = "vendor"
  <2>1. a = Done(r.length, d)
    BY <1>8 DEF Answers, OfDevice, VendorAnswer
  <2>2. a \in Answer
    BY <1>1, <2>1, DoneTyped
  <2> QED
    BY <1>8, <2>2 DEF Reads
<1>9. CASE r.kind = "unknown"
  <2>1. a = Refusal(d)
    BY <1>9 DEF Answers, OfDevice
  <2>2. a \in Answer
    BY <2>1, DoneTyped
  <2> QED
    BY <1>9, <2>2 DEF Reads
<1> QED
  BY <1>1, <1>2, <1>3, <1>4, <1>5, <1>6, <1>7, <1>8, <1>9 DEF Kinds, Reads

LEMMA HostFields ==
  ASSUME NEW h \in Host
  PROVE  /\ h.stage \in Stages /\ h.req \in Asking /\ h.moved \in Nat /\ h.good \in BOOLEAN
         /\ h.told \in BOOLEAN /\ h.address \in Nat /\ h.abandons \in Nat
  BY DEF Host

LEMMA HostFieldSet ==
  ASSUME NEW h \in Host
  PROVE  /\ \A s \in Stages : [h EXCEPT !.stage = s] \in Host
         /\ \A r \in Asking : [h EXCEPT !.req = r] \in Host
         /\ \A n \in Nat : [h EXCEPT !.moved = n] \in Host
         /\ \A b \in BOOLEAN : [h EXCEPT !.good = b] \in Host
         /\ \A b \in BOOLEAN : [h EXCEPT !.told = b] \in Host
         /\ \A n \in Nat : [h EXCEPT !.address = n] \in Host
         /\ \A n \in Nat : [h EXCEPT !.abandons = n] \in Host
<1>1. ASSUME NEW s \in Stages PROVE [h EXCEPT !.stage = s] \in Host
  BY SMT DEF Host
<1>2. ASSUME NEW r \in Asking PROVE [h EXCEPT !.req = r] \in Host
  BY SMT DEF Host
<1>3. ASSUME NEW n \in Nat PROVE [h EXCEPT !.moved = n] \in Host
  BY SMT DEF Host
<1>4. ASSUME NEW b \in BOOLEAN PROVE [h EXCEPT !.good = b] \in Host
  BY SMT DEF Host
<1>5. ASSUME NEW b \in BOOLEAN PROVE [h EXCEPT !.told = b] \in Host
  BY SMT DEF Host
<1>6. ASSUME NEW n \in Nat PROVE [h EXCEPT !.address = n] \in Host
  BY SMT DEF Host
<1>7. ASSUME NEW n \in Nat PROVE [h EXCEPT !.abandons = n] \in Host
  BY SMT DEF Host
<1> QED
  BY <1>1, <1>2, <1>3, <1>4, <1>5, <1>6, <1>7

LEMMA TransferFields ==
  ASSUME NEW c \in Transfer
  PROVE  /\ c.setup \in Asking /\ c.pos \in Nat /\ c.residue \in 0..(Wrap - 1)
         /\ c.zlp \in BOOLEAN /\ c.holds \in Holding
  BY DEF Transfer

LEMMA TransferFieldSet ==
  ASSUME NEW c \in Transfer
  PROVE  /\ \A r \in Asking : [c EXCEPT !.setup = r] \in Transfer
         /\ \A n \in Nat : [c EXCEPT !.pos = n] \in Transfer
         /\ \A n \in 0..(Wrap - 1) : [c EXCEPT !.residue = n] \in Transfer
         /\ \A b \in BOOLEAN : [c EXCEPT !.zlp = b] \in Transfer
         /\ \A x \in Holding : [c EXCEPT !.holds = x] \in Transfer
<1>1. ASSUME NEW r \in Asking PROVE [c EXCEPT !.setup = r] \in Transfer
  BY SMT DEF Transfer
<1>2. ASSUME NEW n \in Nat PROVE [c EXCEPT !.pos = n] \in Transfer
  BY SMT DEF Transfer
<1>3. ASSUME NEW n \in 0..(Wrap - 1) PROVE [c EXCEPT !.residue = n] \in Transfer
  BY SMT DEF Transfer
<1>4. ASSUME NEW b \in BOOLEAN PROVE [c EXCEPT !.zlp = b] \in Transfer
  BY SMT DEF Transfer
<1>5. ASSUME NEW x \in Holding PROVE [c EXCEPT !.holds = x] \in Transfer
  BY SMT DEF Transfer
<1> QED
  BY <1>1, <1>2, <1>3, <1>4, <1>5

LEMMA HostSetupTypes ==
  ASSUME LengthsFit, TInv, NEW r \in Requests, HostSetup(r)
  PROVE  TInv'
<1> USE DEF TInv, HostSetup, vars, doneVars, epVars
<1>1. r \in Asking
  BY DEF Asking
<1>2. /\ r.length \in Nat /\ host \in Host
  BY <1>1, AskingTyped DEF Types
<1>3. host' \in Host
  <2> DEFINE h1 == [host EXCEPT !.stage = IF r.length > 0 THEN "data" ELSE "status"]
             h2 == [h1 EXCEPT !.req = r]
             h3 == [h2 EXCEPT !.moved = 0]
             h4 == [h3 EXCEPT !.good = TRUE]
             n  == IF Busy THEN host.abandons + 1 ELSE host.abandons
             h5 == [h4 EXCEPT !.abandons = n]
  <2>1. host' = h5
    BY <1>2, SMT DEF Host
  <2>2. h1 \in Host
    BY <1>2, HostFieldSet DEF Stages
  <2>3. h2 \in Host
    BY <1>1, <2>2, HostFieldSet
  <2>4. h3 \in Host
    BY <2>3, HostFieldSet
  <2>5. h4 \in Host
    BY <2>4, HostFieldSet
  <2>6. n \in Nat
    BY <1>2, SMT DEF Host
  <2> HIDE DEF n, h4
  <2>7. h5 \in Host
    BY <2>5, <2>6, HostFieldSet
  <2> HIDE DEF h5
  <2> QED
    BY <2>1, <2>7
<1>4. host'.moved = 0 /\ host'.req = r
  BY <1>2, SMT DEF Host
<1>5. rxPkt' \in Came
  BY <1>1, SizeAssumption, SMT DEF Came
<1>a. handled' \in 0..2
  BY SMT
<1>6. Types'
  BY <1>2, <1>3, <1>4, <1>5, <1>a, Zenon DEF Types, Status
<1>9. Fits'
  BY <1>2, <1>4, SMT DEF Fits
<1>7. InCounted'
  BY SMT DEF InCounted, Counted, Types
<1>8. OutCounted'
  BY SMT DEF OutCounted, Counted, Types
<1> QED
  BY <1>6, <1>7, <1>8, <1>9

LEMMA ReceivedTyped ==
  ASSUME host \in Host, txPkt \in Sent, NEW h, h = Received(txPkt)
  PROVE  /\ h \in Host /\ h.req = host.req /\ h.moved = host.moved + txPkt.n
         /\ h.address = host.address
         /\ h.good <=> /\ host.good /\ txPkt.from = host.moved
                       /\ (host.req.kind \in Reads => txPkt.of.kind = host.req.kind)
         /\ h.stage = IF txPkt.n < Mps \/ h.moved >= host.req.length THEN "status" ELSE "data"
<1> DEFINE moved == host.moved + txPkt.n
           good  == /\ host.good /\ txPkt.from = host.moved
                    /\ (host.req.kind \in Reads => txPkt.of.kind = host.req.kind)
           stage == IF txPkt.n < Mps \/ moved >= host.req.length THEN "status" ELSE "data"
           bit == txPkt.of.bit
           h1 == [host EXCEPT !.moved = moved]
           h2 == [h1 EXCEPT !.told = bit]
           h3 == [h2 EXCEPT !.good = good]
           h4 == [h3 EXCEPT !.stage = stage]
           all == [host EXCEPT !.moved = moved, !.told = bit, !.good = good, !.stage = stage]
<1>0. h = all
  BY Zenon DEF Received
<1>2. /\ moved \in Nat /\ good \in BOOLEAN /\ stage \in Stages
  BY SMT DEF Host, Sent, Stages
<1>3. bit \in BOOLEAN
  BY SMT DEF Sent, Holding
<1>4. h1 \in Host
  BY <1>2, HostFieldSet
<1>5. h2 \in Host
  BY <1>3, <1>4, HostFieldSet
<1> HIDE DEF good, stage, moved, bit
<1>1. all = h4
  BY SMT DEF Host
<1>6. h3 \in Host
  BY <1>2, <1>5, HostFieldSet
<1>7. h4 \in Host
  BY <1>2, <1>6, HostFieldSet
<1>8. h4.req = host.req /\ h4.moved = moved /\ h4.address = host.address /\ h4.stage = stage
  BY <1>2, SMT DEF Host
<1>9. h4.good <=> good
  BY <1>2, SMT DEF Host
<1> HIDE DEF h4, all
<1> QED
  BY <1>0, <1>1, <1>7, <1>8, <1>9, Zenon DEF good, stage, moved

LEMMA AcknowledgedTyped ==
  ASSUME LengthsFit, host \in Host, txPkt \in Sent, NEW h, h = Acknowledged(txPkt)
  PROVE  /\ h \in Host /\ h.req = host.req /\ h.moved = host.moved /\ h.stage = "done"
         /\ h.good <=> host.good /\ txPkt.n = 0
         /\ h.address = IF host.req.kind = "address" THEN host.req.value ELSE host.address
<1> DEFINE good == host.good /\ txPkt.n = 0
           addr == IF host.req.kind = "address" THEN host.req.value ELSE host.address
           h1 == [host EXCEPT !.stage = "done"]
           h2 == [h1 EXCEPT !.good = good]
           h3 == [h2 EXCEPT !.address = addr]
<1>1. h = h3
  BY SMT DEF Acknowledged, Host
<1>2. good \in BOOLEAN
  BY SMT DEF Host
<1>3. addr \in Nat
  BY HostFields, AskingTyped
<1>4. h1 \in Host
  BY HostFieldSet DEF Stages
<1> HIDE DEF good, addr
<1>5. h2 \in Host
  BY <1>2, <1>4, HostFieldSet
<1>6. h3 \in Host
  BY <1>3, <1>5, HostFieldSet
<1>7. h3.req = host.req /\ h3.moved = host.moved /\ h3.address = addr /\ h3.stage = "done"
  BY <1>2, SMT DEF Host
<1>8. h3.good <=> good
  BY <1>2, SMT DEF Host
<1> HIDE DEF h3
<1> QED
  BY <1>1, <1>6, <1>7, <1>8, Zenon DEF good, addr

LEMMA HostInTypes ==
  ASSUME LengthsFit, TInv, HostIn
  PROVE  TInv'
<1>1. Types /\ Fits /\ InCounted /\ OutCounted /\ host \in Host /\ txPkt \in Sent
  BY DEF TInv, Types
<1>2. /\ host' \in Host /\ host'.req = host.req
      /\ host'.stage = "data" => IsRead(host.req)
  <2>1. CASE tx = "valid" /\ host.stage = "data"
    <3>1. host' = Received(txPkt) /\ IsRead(host.req)
      BY <2>1 DEF HostIn
    <3> QED
      BY <1>1, <3>1, ReceivedTyped
  <2>2. CASE tx = "valid" /\ host.stage # "data"
    <3>1. host' = Acknowledged(txPkt)
      BY <2>2 DEF HostIn
    <3> QED
      BY <1>1, <3>1, AcknowledgedTyped
  <2>3. CASE tx # "valid"
    <3>1. host' = [host EXCEPT !.stage = "refused"]
      BY <2>3 DEF HostIn
    <3>2. [host EXCEPT !.stage = "refused"] \in Host
      BY <1>1, HostFieldSet DEF Stages
    <3> QED
      BY <1>1, <3>1, <3>2, SMT DEF Host
  <2> QED
    BY <2>1, <2>2, <2>3
<1>3. Types'
  BY <1>1, <1>2, Zenon DEF HostIn, doneVars, Types, Status
<1>4. Fits'
  BY <1>2, Zenon DEF Fits
<1>5. InCounted'
  BY <1>1, SMT DEF HostIn, InCounted, Counted, Types, doneVars
<1>6. OutCounted'
  BY <1>1, Zenon DEF HostIn, OutCounted, Counted, doneVars
<1> QED
  BY <1>3, <1>4, <1>5, <1>6 DEF TInv

OutBytes == LET left == host.req.length - host.moved
            IN  IF host.stage = "status" THEN 0 ELSE IF left < Mps THEN left ELSE Mps

LEMMA HostOutTyped ==
  ASSUME LengthsFit, host \in Host, Fits, HostOut
  PROVE  /\ OutBytes \in 0..Mps /\ rxPkt' = [req |-> NoRequest, n |-> OutBytes]
         /\ rxPkt' \in Came /\ rxPkt'.n = OutBytes
         /\ host' \in Host /\ host'.req = host.req /\ host'.moved = host.moved + OutBytes
         /\ host'.address = host.address /\ host'.good = host.good
         /\ host'.stage = IF host.stage = "status" THEN "done"
                          ELSE IF host'.moved = host.req.length THEN "status" ELSE "data"
         /\ ~IsRead(host.req) => host'.moved <= host.req.length
<1>1. /\ host.req.length \in Nat /\ host.moved \in Nat /\ host.stage \in Stages
  BY HostFields, AskingTyped
<1>2. ~IsRead(host.req) => host.stage = "data" /\ host.moved <= host.req.length
  BY DEF HostOut, Busy, Fits
<1>3. IsRead(host.req) => host.stage = "status"
  BY DEF HostOut, Busy
<1>4. OutBytes \in 0..Mps
  BY <1>1, <1>2, <1>3, SizeAssumption, SMT DEF OutBytes
<1>5. rxPkt' = [req |-> NoRequest, n |-> OutBytes]
  BY Zenon DEF HostOut, OutBytes
<1>6. rxPkt' \in Came /\ rxPkt'.n = OutBytes
  BY <1>4, <1>5, SMT DEF Came, Asking
<1> DEFINE left  == host.req.length - host.moved
           moved == host.moved + OutBytes
           stage == IF host.stage = "status" THEN "done"
                    ELSE IF OutBytes = left THEN "status" ELSE "data"
           h1 == [host EXCEPT !.moved = moved]
           h2 == [h1 EXCEPT !.stage = stage]
<1>7. host' = [host EXCEPT !.moved = @ + OutBytes,
                   !.stage = IF host.stage = "status" THEN "done"
                             ELSE IF OutBytes = host.req.length - host.moved
                                  THEN "status" ELSE "data"]
  BY Zenon DEF HostOut, OutBytes
<1>8. host' = h2
  BY <1>7, SMT DEF Host
<1>9. moved \in Nat /\ stage \in Stages
  BY <1>1, <1>4, SMT DEF Stages
<1>10. stage = IF host.stage = "status" THEN "done"
               ELSE IF moved = host.req.length THEN "status" ELSE "data"
  BY <1>1, <1>4, SMT
<1>11. ~IsRead(host.req) => moved <= host.req.length
  BY <1>1, <1>2, SizeAssumption, SMT DEF OutBytes
<1> HIDE DEF moved, stage
<1>12. h1 \in Host
  BY <1>9, HostFieldSet
<1>13. h2 \in Host
  BY <1>9, <1>12, HostFieldSet
<1>14. h2.req = host.req /\ h2.moved = moved /\ h2.address = host.address
  BY SMT DEF Host
<1>15. h2.good = host.good
  BY SMT DEF Host
<1>16. h2.stage = stage
  BY <1>9, SMT DEF Host
<1> HIDE DEF h2
<1> QED
  BY <1>4, <1>5, <1>6, <1>8, <1>10, <1>11, <1>13, <1>14, <1>15, <1>16, Zenon DEF moved

LEMMA HostOutTypes ==
  ASSUME LengthsFit, TInv, HostOut
  PROVE  TInv'
<1>1. Types /\ Fits /\ InCounted /\ OutCounted /\ host \in Host
  BY DEF TInv, Types
<1>2. /\ rxPkt' \in Came /\ host' \in Host /\ host'.req = host.req
      /\ ~IsRead(host.req) => host'.moved <= host.req.length
  BY <1>1, HostOutTyped
<1>3. Types'
  BY <1>1, <1>2, Zenon DEF HostOut, doneVars, Types, Status
<1>4. Fits'
  BY <1>2, Zenon DEF Fits
<1>5. InCounted'
  BY <1>1, Zenon DEF HostOut, InCounted, Counted, Types, doneVars
<1>6. OutCounted'
  BY <1>1, SMT DEF HostOut, OutCounted, Counted, doneVars, Types
<1> QED
  BY <1>3, <1>4, <1>5, <1>6 DEF TInv

LEMMA PacketTyped ==
  ASSUME NEW of \in Holding, NEW from \in Nat, NEW n \in Nat, NEW p,
         p = Packet(of, from, Chunk(n))
  PROVE  p \in Sent /\ p.n = Chunk(n) /\ p.of = of /\ p.from = from
<1>1. Chunk(n) \in 0..Mps
  BY ChunkTyped
<1> QED
  BY <1>1, SMT DEF Packet, Sent

InBytes == inDone + count
InLeft == Less(core.residue, InBytes)
InZlp == core.zlp /\ InLeft # 0

LEMMA ServeInTyped ==
  ASSUME LengthsFit, Types, ServeIn
  PROVE  /\ InBytes \in Nat /\ InLeft \in 0..(Wrap - 1)
         /\ core' \in Transfer /\ core'.setup = core.setup /\ core'.pos = core.pos + InBytes
         /\ core'.residue = InLeft /\ (core'.zlp <=> InZlp) /\ core'.holds = core.holds
         /\ dev' \in Device /\ txPkt' \in Sent
<1>1. /\ inDone \in Nat /\ count \in Nat /\ core \in Transfer /\ dev \in Device /\ txPkt \in Sent
  BY SizeAssumption, SMT DEF Types
<1>2. core.pos \in Nat /\ core.residue \in Nat /\ core.holds \in Holding
  BY <1>1, SizeAssumption, SMT DEF Transfer
<1>3. InBytes \in Nat
  BY <1>1, SMT DEF InBytes
<1>4. InLeft \in 0..(Wrap - 1)
  BY <1>2, <1>3, LessTyped DEF InLeft
<1> DEFINE pos == core.pos + InBytes
           all == [core EXCEPT !.pos = pos, !.residue = InLeft, !.zlp = InZlp]
           c1 == [core EXCEPT !.pos = pos]
           c2 == [c1 EXCEPT !.residue = InLeft]
           c3 == [c2 EXCEPT !.zlp = InZlp]
<1>5. core' = all
  BY Zenon DEF ServeIn, InBytes, InLeft, InZlp
<1>6. pos \in Nat /\ InZlp \in BOOLEAN
  BY <1>1, <1>2, <1>3, SMT DEF InZlp, Transfer
<1> HIDE DEF pos
<1>7. all = c3
  BY <1>1, SMT DEF Transfer
<1>8. c1 \in Transfer
  BY <1>1, <1>6, TransferFieldSet
<1>9. c2 \in Transfer
  BY <1>4, <1>8, TransferFieldSet
<1>10. c3 \in Transfer
  BY <1>6, <1>9, TransferFieldSet
<1>11. /\ c3.setup = core.setup /\ c3.pos = pos /\ c3.residue = InLeft /\ c3.holds = core.holds
  BY <1>1, SMT DEF Transfer
<1>12. c3.zlp <=> InZlp
  BY <1>1, <1>6, SMT DEF Transfer
<1>13. dev' \in Device
  <2>1. CASE dev.pending > 0 /\ count = 0
    <3> DEFINE d1 == [dev EXCEPT !.address = dev.pending]
               d2 == [d1 EXCEPT !.pending = 0]
    <3>1. dev' = [dev EXCEPT !.address = dev.pending, !.pending = 0]
      BY <2>1, Zenon DEF ServeIn
    <3>2. dev' = d2
      BY <1>1, <3>1, SMT DEF Device
    <3>3. dev.pending \in Nat
      BY <1>1, DeviceFields
    <3>4. d1 \in Device
      BY <1>1, <3>3, DeviceFieldSet
    <3>5. d2 \in Device
      BY <3>4, DeviceFieldSet
    <3> QED
      BY <3>2, <3>5
  <2>2. CASE ~(dev.pending > 0 /\ count = 0)
    BY <1>1, <2>2 DEF ServeIn
  <2> QED
    BY <2>1, <2>2
<1>14. txPkt' \in Sent
  <2>1. \/ UNCHANGED txPkt
        \/ txPkt' = Packet(core.holds, pos, Chunk(InLeft)) \/ txPkt' = Packet(core.holds, pos, Chunk(0))
    BY Zenon DEF ServeIn, StartWrite, InBytes, InLeft, pos
  <2>2. InLeft \in Nat /\ 0 \in Nat
    BY <1>4, SMT
  <2>3. \A n \in Nat : Packet(core.holds, pos, Chunk(n)) \in Sent
    BY <1>2, <1>6, PacketTyped
  <2> QED
    BY <1>1, <2>1, <2>2, <2>3, Zenon
<1> HIDE DEF c3, all
<1> QED
  BY <1>3, <1>4, <1>5, <1>7, <1>10, <1>11, <1>12, <1>13, <1>14, Zenon DEF pos

LEMMA ServeInTypes ==
  ASSUME LengthsFit, TInv, ServeIn
  PROVE  TInv'
<1>1. Types /\ Fits /\ InCounted /\ OutCounted
  BY DEF TInv
<1>2. /\ InBytes \in Nat /\ core' \in Transfer /\ dev' \in Device /\ txPkt' \in Sent
  BY <1>1, ServeInTyped
<1>3. /\ tx' \in Status /\ rx' \in Status /\ serving' = "none"
      /\ inDone' \in Nat /\ outDone' \in Nat
  BY <1>1, <1>2, SMT DEF ServeIn, StartWrite, StartRead, Types, Status, InBytes
<1>4. Types'
  BY <1>1, <1>2, <1>3, Zenon DEF ServeIn, Types
<1>5. Fits'
  BY <1>1, Zenon DEF Fits, ServeIn
<1>6. InCounted'
  <2>1. CASE inDone' = 0 /\ tx' = "valid"
    BY <1>1, <1>3, <2>1, SizeAssumption, SMT DEF ServeIn, InCounted, Counted
  <2>2. CASE inDone' = inDone + count /\ tx' = tx
    BY <1>1, <1>3, <2>2, SizeAssumption, SMT DEF ServeIn, InCounted, Counted, Types
  <2> QED
    BY <2>1, <2>2, Zenon DEF ServeIn, StartWrite
<1>7. OutCounted'
  <2>1. CASE outDone' = 0 /\ rx' = "valid"
    BY <1>1, <1>3, <2>1, SizeAssumption, SMT DEF ServeIn, OutCounted, Counted
  <2>2. CASE outDone' = outDone /\ rx' = rx
    BY <1>1, <1>3, <2>2, SizeAssumption, SMT DEF ServeIn, OutCounted, Counted, Types
  <2> QED
    BY <2>1, <2>2, Zenon DEF ServeIn, StartRead
<1> QED
  BY <1>4, <1>5, <1>6, <1>7 DEF TInv

LEMMA ServeTypes ==
  ASSUME TInv, Serve
  PROVE  TInv'
<1>1. Types /\ Fits /\ InCounted /\ OutCounted
  BY DEF TInv
<1>2. count' \in 0..Mps
  BY <1>1, SMT DEF Serve, Types, Sent, Came
<1>3. Types'
  BY <1>1, <1>2, Zenon DEF Serve, Types, doneVars
<1>4. Fits'
  BY <1>1, Zenon DEF Fits, Serve
<1>5. InCounted'
  BY <1>1, SMT DEF Serve, InCounted, Counted, Types, doneVars
<1>6. OutCounted'
  BY <1>1, SMT DEF Serve, OutCounted, Counted, Types, doneVars
<1> QED
  BY <1>3, <1>4, <1>5, <1>6 DEF TInv

LEMMA ServeResetTypes ==
  ASSUME TInv, ServeReset
  PROVE  TInv'
<1>1. Types /\ Fits /\ InCounted /\ OutCounted
  BY DEF TInv
<1>2. dev' \in Device
  BY <1>1, DeviceChanges DEF Types, ServeReset
<1>3. inDone' \in Nat /\ outDone' \in Nat
  BY SMT DEF ServeReset
<1>4. Types'
  BY <1>1, <1>2, <1>3, Zenon DEF ServeReset, Types, Status
<1>5. Fits'
  BY <1>1, Zenon DEF Fits, ServeReset
<1>6. InCounted' /\ OutCounted'
  BY <1>1, SizeAssumption, SMT DEF ServeReset, InCounted, OutCounted, Counted
<1> QED
  BY <1>4, <1>5, <1>6 DEF TInv

LEMMA BusResetTyped ==
  ASSUME host \in Host, dev \in Device, BusReset
  PROVE  /\ host' \in Host /\ host'.stage = "idle" /\ host'.address = 0 /\ host'.req = host.req
         /\ host'.moved = host.moved
         /\ dev' \in Device /\ dev'.address = NoAddress /\ dev'.pending = dev.pending
<1> DEFINE h1 == [host EXCEPT !.stage = "idle"]
           h2 == [h1 EXCEPT !.address = 0]
           d1 == [dev EXCEPT !.address = NoAddress]
           d2 == [d1 EXCEPT !.out = "dis"]
           d3 == [d2 EXCEPT !.in = "dis"]
<1>1. host' = h2
  BY SMT DEF BusReset, Host
<1>2. dev' = [dev EXCEPT !.address = NoAddress, !.out = "dis", !.in = "dis"]
  BY Zenon DEF BusReset
<1>3. dev' = d3
  BY <1>2, SMT DEF Device
<1>4. h1 \in Host
  BY HostFieldSet DEF Stages
<1>5. h2 \in Host
  BY <1>4, HostFieldSet
<1>6. d1 \in Device
  BY DeviceFieldSet
<1>7. d2 \in Device
  BY <1>6, DeviceFieldSet DEF Status
<1>8. d3 \in Device
  BY <1>7, DeviceFieldSet DEF Status
<1>9. h2.stage = "idle" /\ h2.address = 0 /\ h2.req = host.req /\ h2.moved = host.moved
  BY SMT DEF Host
<1>10. d3.address = NoAddress /\ d3.pending = dev.pending
  BY SMT DEF Device
<1> HIDE DEF h2, d3
<1> QED
  BY <1>1, <1>3, <1>5, <1>8, <1>9, <1>10, Zenon

LEMMA BusResetTypes ==
  ASSUME TInv, BusReset
  PROVE  TInv'
<1>1. Types /\ Fits /\ InCounted /\ OutCounted /\ host \in Host /\ dev \in Device
  BY DEF TInv, Types
<1>2. host' \in Host /\ host'.stage = "idle" /\ dev' \in Device
  BY <1>1, BusResetTyped
<1>3. Types'
  BY <1>1, <1>2, Zenon DEF BusReset, Types, Status, doneVars
<1>4. Fits'
  BY <1>2, Zenon DEF Fits
<1>5. InCounted' /\ OutCounted'
  BY <1>1, SizeAssumption, SMT DEF BusReset, InCounted, OutCounted, Counted, doneVars
<1> QED
  BY <1>3, <1>4, <1>5 DEF TInv

LEMMA BulkTrafficTypes ==
  ASSUME TInv, BulkTraffic
  PROVE  TInv'
<1>1. Types /\ Fits /\ InCounted /\ OutCounted /\ dev \in Device
  BY DEF TInv, Types
<1>2. dev' \in Device
  BY <1>1, DeviceFieldSet DEF BulkTraffic, Status
<1>3. UNCHANGED <<tx, rx, ctrTx, ctrRx, isSetup, txPkt, rxPkt, inDone, outDone, core, busReset,
                  serving, count, handled, host>>
  BY DEF BulkTraffic, epVars, doneVars
<1>4. Types'
  BY <1>1, <1>2, <1>3, Zenon DEF Types
<1>5. Fits' /\ InCounted' /\ OutCounted'
  BY <1>1, <1>3, Zenon DEF Fits, InCounted, OutCounted, Counted
<1> QED
  BY <1>4, <1>5 DEF TInv

\* The transfer as the SETUP handler begins it.
Fresh == [setup |-> rxPkt.req, pos |-> 0, residue |-> rxPkt.req.length, zlp |-> FALSE,
          holds |-> core.holds]
Starts(c, residue, zlp, holds) ==
  /\ c \in Transfer /\ c.setup = rxPkt.req /\ c.pos = 0 /\ c.residue = residue
  /\ (c.zlp <=> zlp) /\ c.holds = holds

LEMMA FreshTyped ==
  ASSUME LengthsFit, rxPkt.req \in Asking, core.holds \in Holding
  PROVE  /\ Starts(Fresh, rxPkt.req.length, FALSE, core.holds)
         /\ \A n \in 0..(Wrap - 1) :
              /\ Starts([Fresh EXCEPT !.residue = n], n, FALSE, core.holds)
              /\ \A h \in Holding, z \in BOOLEAN :
                   Starts([Fresh EXCEPT !.residue = n, !.holds = h, !.zlp = z], n, z, h)
<1>1. rxPkt.req.length \in 0..(Wrap - 1)
  BY AskingTyped
<1>2. Fresh \in Transfer
  BY <1>1, SMT DEF Fresh, Transfer
<1>3. /\ Fresh.setup = rxPkt.req /\ Fresh.pos = 0 /\ Fresh.residue = rxPkt.req.length
      /\ Fresh.holds = core.holds
  BY SMT DEF Fresh
<1>4. ~Fresh.zlp
  BY SMT DEF Fresh
<1>5. Starts(Fresh, rxPkt.req.length, FALSE, core.holds)
  BY <1>2, <1>3, <1>4, Zenon DEF Starts
<1>6. ASSUME NEW n \in 0..(Wrap - 1)
      PROVE  Starts([Fresh EXCEPT !.residue = n], n, FALSE, core.holds)
  <2> DEFINE c1 == [Fresh EXCEPT !.residue = n]
  <2>1. c1 \in Transfer
    BY <1>2, TransferFieldSet
  <2>2. c1.setup = Fresh.setup /\ c1.pos = Fresh.pos /\ c1.residue = n /\ c1.holds = Fresh.holds
    BY <1>2, SMT DEF Transfer
  <2>3. c1.zlp <=> Fresh.zlp
    BY <1>2, SMT DEF Transfer
  <2> HIDE DEF c1
  <2>4. Starts(c1, n, FALSE, core.holds)
    BY <1>3, <1>4, <2>1, <2>2, <2>3, Zenon DEF Starts
  <2> QED
    BY <2>4 DEF c1
<1>7. ASSUME NEW n \in 0..(Wrap - 1), NEW h \in Holding, NEW z \in BOOLEAN
      PROVE  Starts([Fresh EXCEPT !.residue = n, !.holds = h, !.zlp = z], n, z, h)
  <2> DEFINE c1 == [Fresh EXCEPT !.residue = n]
             c2 == [c1 EXCEPT !.holds = h]
             c3 == [c2 EXCEPT !.zlp = z]
             all == [Fresh EXCEPT !.residue = n, !.holds = h, !.zlp = z]
  <2>1. c1 \in Transfer
    BY <1>2, TransferFieldSet
  <2>2. c2 \in Transfer
    BY <2>1, TransferFieldSet
  <2>3. c3 \in Transfer
    BY <2>2, TransferFieldSet
  <2>4. all = c3
    BY <1>2, SMT DEF Transfer
  <2>5. c3.setup = Fresh.setup /\ c3.pos = Fresh.pos /\ c3.residue = n /\ c3.holds = h
    BY <1>2, SMT DEF Transfer
  <2>6. c3.zlp <=> z
    BY <1>2, SMT DEF Transfer
  <2> HIDE DEF c3
  <2>7. Starts(c3, n, z, h)
    BY <1>3, <2>3, <2>5, <2>6, Zenon DEF Starts
  <2> QED
    BY <2>4, <2>7
<1> QED
  BY <1>5, <1>6, <1>7

\* The outcomes of the SETUP handler: too long a write, a write whose data come
\* first, a request refused, a reply too long for the buffer, a reply.
SetupTooLong ==
  /\ TooLong(rxPkt.req) /\ core' \in Transfer /\ core' = [core EXCEPT !.setup = rxPkt.req]
  /\ Stall /\ UNCHANGED <<rx, outDone, dev, handled>>
SetupReceives ==
  /\ ~TooLong(rxPkt.req) /\ ReceivesFirst(rxPkt.req)
  /\ Starts(core', rxPkt.req.length, FALSE, core.holds)
  /\ StartRead /\ UNCHANGED <<tx, txPkt, inDone, dev, handled>>
SetupAnswered(a) ==
  /\ ~TooLong(rxPkt.req) /\ ~ReceivesFirst(rxPkt.req) /\ Carried(a) /\ UNCHANGED <<rx, outDone>>
SetupRefused(a) ==
  /\ SetupAnswered(a) /\ ~a.ok /\ Stall /\ Starts(core', rxPkt.req.length, FALSE, core.holds)
SetupTooBig(a) ==
  LET n == ToSend(a.len, rxPkt.req.length)
  IN  /\ SetupAnswered(a) /\ a.ok /\ n > BufferLen /\ Stall
      /\ Starts(core', n, FALSE, core.holds)
SetupReplies(a) ==
  LET n == ToSend(a.len, rxPkt.req.length)
  IN  /\ SetupAnswered(a) /\ a.ok /\ n <= BufferLen /\ StartWrite(a.holds, 0, n)
      /\ Starts(core', n, ZlpDue(a.len, rxPkt.req.length), a.holds)

LEMMA ServeSetupTyped ==
  ASSUME LengthsFit, Types, ServeSetup
  PROVE  /\ serving = "setup" /\ serving' = "none"
         /\ UNCHANGED <<ctrTx, ctrRx, isSetup, rxPkt, busReset, count, host>>
         /\ \/ SetupTooLong \/ SetupReceives
            \/ \E a \in Answers(rxPkt.req, dev) : \/ SetupRefused(a) \/ SetupTooBig(a)
                                                  \/ SetupReplies(a)
         /\ core' \in Transfer /\ dev' \in Device /\ txPkt' \in Sent /\ handled' \in 0..2
<1> DEFINE r == rxPkt.req
           Goal == /\ \/ SetupTooLong \/ SetupReceives
                      \/ \E a \in Answers(r, dev) : \/ SetupRefused(a) \/ SetupTooBig(a)
                                                     \/ SetupReplies(a)
                   /\ core' \in Transfer /\ dev' \in Device /\ txPkt' \in Sent
                   /\ handled' \in 0..2
<1>1. /\ rxPkt.req \in Asking /\ core \in Transfer /\ core.holds \in Holding /\ dev \in Device
      /\ txPkt \in Sent /\ handled \in 0..2
  BY SMT DEF Types, Came, Transfer
<1>2. r.length \in 0..(Wrap - 1) /\ r.length \in Nat
  BY <1>1, AskingTyped
<1>3. /\ serving = "setup" /\ serving' = "none"
      /\ UNCHANGED <<ctrTx, ctrRx, isSetup, rxPkt, busReset, count, host>>
  BY Zenon DEF ServeSetup
<1>4. CASE TooLong(r)
  <2>1. [core EXCEPT !.setup = r] \in Transfer
    BY <1>1, TransferFieldSet
  <2>2. SetupTooLong
    BY <1>4, <2>1, Zenon DEF ServeSetup, SetupTooLong
  <2> QED
    BY <1>1, <1>3, <2>2, Zenon DEF SetupTooLong, Stall
<1>5. CASE ~TooLong(r) /\ ReceivesFirst(r)
  <2>1. core' = Fresh
    BY <1>5, Zenon DEF ServeSetup, Fresh
  <2>2. Starts(core', r.length, FALSE, core.holds)
    BY <1>1, <2>1, FreshTyped
  <2>3. SetupReceives
    BY <1>5, <2>2, Zenon DEF ServeSetup, SetupReceives
  <2> QED
    BY <1>1, <1>3, <2>3, Zenon DEF SetupReceives, Starts
<1>6. CASE ~TooLong(r) /\ ~ReceivesFirst(r)
  <2>1. PICK a \in Answers(r, dev) :
          LET n == ToSend(a.len, r.length) IN
          /\ Carried(a)
          /\ \/ ~a.ok /\ core' = Fresh /\ Stall
             \/ a.ok /\ n > BufferLen /\ core' = [Fresh EXCEPT !.residue = n] /\ Stall
             \/ /\ a.ok /\ n <= BufferLen
                /\ core' = [Fresh EXCEPT !.residue = n, !.holds = a.holds,
                                         !.zlp = ZlpDue(a.len, r.length)]
                /\ StartWrite(a.holds, 0, n)
          /\ UNCHANGED <<rx, outDone>>
    BY <1>6, Zenon DEF ServeSetup, Fresh
  <2>2. SetupAnswered(a)
    BY <1>6, <2>1, Zenon DEF SetupAnswered
  <2>3. a.ok \in BOOLEAN /\ a.len \in Nat /\ a.holds \in Holding /\ a.dev \in Device
    <3>1. a \in Answer
      BY <1>1, AnswersTyped
    <3> QED
      BY <3>1 DEF Answer
  <2>4. dev' \in Device /\ handled' \in 0..2
    BY <1>1, <2>1, <2>3, SMT DEF Carried
  <2> DEFINE n == ToSend(a.len, r.length)
             z == ZlpDue(a.len, r.length)
  <2>5. n \in 0..(Wrap - 1) /\ n \in Nat /\ z \in BOOLEAN
    <3>1. n \in 0..r.length /\ z \in BOOLEAN
      BY <1>2, <2>3, ToSendTyped
    <3> QED
      BY <1>2, <3>1, SizeAssumption, SMT
  <2> HIDE DEF n, z
  <2>6. CASE ~a.ok /\ core' = Fresh /\ Stall
    <3>1. SetupRefused(a)
      BY <1>1, <2>2, <2>6, FreshTyped, Zenon DEF SetupRefused
    <3> QED
      BY <1>1, <1>3, <2>4, <2>6, <3>1, Zenon DEF SetupRefused, Starts, Stall
  <2>7. CASE a.ok /\ n > BufferLen /\ core' = [Fresh EXCEPT !.residue = n] /\ Stall
    <3>1. Starts(core', n, FALSE, core.holds)
      BY <1>1, <2>5, <2>7, FreshTyped
    <3>2. SetupTooBig(a)
      BY <2>2, <2>7, <3>1, Zenon DEF SetupTooBig, n
    <3> QED
      BY <1>1, <1>3, <2>4, <2>7, <3>1, <3>2, Zenon DEF Starts, Stall
  <2>8. CASE /\ a.ok /\ n <= BufferLen
             /\ core' = [Fresh EXCEPT !.residue = n, !.holds = a.holds, !.zlp = z]
             /\ StartWrite(a.holds, 0, n)
    <3>1. Starts(core', n, z, a.holds)
      BY <1>1, <2>3, <2>5, <2>8, FreshTyped
    <3>2. SetupReplies(a)
      BY <2>2, <2>8, <3>1, Zenon DEF SetupReplies, n, z
    <3>3. txPkt' \in Sent
      <4>1. 0 \in Nat
        BY SMT
      <4>2. txPkt' = Packet(a.holds, 0, Chunk(n))
        BY <2>8 DEF StartWrite
      <4> QED
        BY <2>3, <2>5, <4>1, <4>2, PacketTyped
    <3> QED
      BY <1>3, <2>4, <3>1, <3>2, <3>3, Zenon DEF Starts
  <2> QED
    BY <2>1, <2>6, <2>7, <2>8, Zenon DEF n, z
<1> QED
  BY <1>3, <1>4, <1>5, <1>6

LEMMA ServeSetupTypes ==
  ASSUME LengthsFit, TInv, ServeSetup
  PROVE  TInv'
<1>1. Types /\ Fits /\ InCounted /\ OutCounted
  BY DEF TInv
<1>2. core' \in Transfer /\ dev' \in Device /\ txPkt' \in Sent /\ handled' \in 0..2
  BY <1>1, ServeSetupTyped
<1>3. /\ \/ tx' = "valid" /\ inDone' = 0
         \/ tx' = "stall" /\ inDone' = inDone
         \/ UNCHANGED <<tx, inDone>>
      /\ \/ UNCHANGED <<rx, outDone>>
         \/ rx' = "valid" /\ outDone' = 0
  BY Zenon DEF ServeSetup, StartRead, StartWrite, Stall
<1>4. /\ tx' \in Status /\ rx' \in Status /\ inDone' \in Nat /\ outDone' \in Nat
  BY <1>1, <1>3, SMT DEF Types, Status
<1>5. /\ serving = "setup" /\ serving' = "none"
      /\ UNCHANGED <<ctrTx, ctrRx, isSetup, rxPkt, busReset, count, host>>
  BY Zenon DEF ServeSetup
<1>6. Types'
  BY <1>1, <1>2, <1>4, <1>5, Zenon DEF Types
<1>7. Fits'
  BY <1>1, <1>5, Zenon DEF Fits
<1>8. InCounted'
  BY <1>1, <1>3, <1>5, SizeAssumption, SMT DEF InCounted, Counted
<1>9. OutCounted'
  BY <1>1, <1>3, <1>5, SizeAssumption, SMT DEF OutCounted, Counted
<1> QED
  BY <1>6, <1>7, <1>8, <1>9 DEF TInv

OutBytesIn == outDone + count
OutLeft == Less(core.residue, OutBytesIn)
\* The outcomes of the OUT handler: more data to come, the last of them, an empty
\* packet.
OutMore ==
  /\ OutBytesIn > 0 /\ OutLeft # 0 /\ StartRead
  /\ core' = [core EXCEPT !.pos = @ + OutBytesIn, !.residue = OutLeft, !.holds = Nothing]
  /\ UNCHANGED <<tx, txPkt, inDone, dev, handled>>
OutLast(a) ==
  /\ OutBytesIn > 0 /\ OutLeft = 0 /\ Carried(a) /\ outDone' = OutBytesIn /\ UNCHANGED rx
  /\ core' = [core EXCEPT !.pos = 0, !.residue = 0, !.holds = Nothing]
  /\ \/ ~a.ok /\ Stall
     \/ a.ok /\ StartWrite(core.holds, 0, 0)
OutEmpty ==
  /\ OutBytesIn = 0 /\ StartRead /\ UNCHANGED <<core, tx, txPkt, inDone, dev, handled>>

LEMMA ServeOutTyped ==
  ASSUME LengthsFit, Types, ServeOut
  PROVE  /\ serving = "out" /\ serving' = "none"
         /\ UNCHANGED <<ctrTx, ctrRx, isSetup, rxPkt, busReset, count, host>>
         /\ OutMore \/ (\E a \in Answers(core.setup, dev) : OutLast(a)) \/ OutEmpty
         /\ core' \in Transfer /\ core'.setup = core.setup /\ core'.zlp = core.zlp
         /\ OutMore => core'.residue = OutLeft
         /\ ~OutMore /\ ~OutEmpty => core'.residue = 0
         /\ dev' \in Device /\ txPkt' \in Sent /\ handled' \in 0..2
<1>1. /\ core \in Transfer /\ core.holds \in Holding /\ dev \in Device /\ core.setup \in Asking
      /\ core.residue \in Nat /\ core.pos \in Nat
      /\ txPkt \in Sent /\ handled \in 0..2 /\ outDone \in Nat /\ count \in Nat
  BY SizeAssumption, SMT DEF Types, Transfer
<1>2. /\ serving = "out" /\ serving' = "none"
      /\ UNCHANGED <<ctrTx, ctrRx, isSetup, rxPkt, busReset, count, host>>
  BY Zenon DEF ServeOut
<1>3. OutBytesIn \in Nat
  BY <1>1, SMT DEF OutBytesIn
<1>4. OutLeft \in 0..(Wrap - 1)
  BY <1>1, <1>3, LessTyped DEF OutLeft
<1>5. OutBytesIn > 0 \/ OutBytesIn = 0
  BY <1>3, SMT
<1>6. OutMore \/ (\E a \in Answers(core.setup, dev) : OutLast(a)) \/ OutEmpty
  BY <1>5, Zenon DEF ServeOut, HasData, OutMore, OutLast, OutEmpty, OutLeft, OutBytesIn
<1>7. Nothing \in Holding
  BY SMT DEF Nothing, Holding
<1>8. ASSUME NEW p \in Nat, NEW left \in 0..(Wrap - 1),
             core' = [core EXCEPT !.pos = p, !.residue = left, !.holds = Nothing]
      PROVE  /\ core' \in Transfer /\ core'.setup = core.setup /\ core'.zlp = core.zlp
             /\ core'.residue = left
  <2> DEFINE c1 == [core EXCEPT !.pos = p]
             c2 == [c1 EXCEPT !.residue = left]
             c3 == [c2 EXCEPT !.holds = Nothing]
  <2>1. core' = c3
    BY <1>1, <1>8, SMT DEF Transfer
  <2>2. c1 \in Transfer
    BY <1>1, TransferFieldSet
  <2>3. c2 \in Transfer
    BY <2>2, TransferFieldSet
  <2>4. c3 \in Transfer
    BY <1>7, <2>3, TransferFieldSet
  <2>5. c3.setup = core.setup /\ c3.residue = left
    BY <1>1, SMT DEF Transfer
  <2>6. c3.zlp = core.zlp
    BY <1>1, SMT DEF Transfer
  <2> HIDE DEF c3
  <2> QED
    BY <2>1, <2>4, <2>5, <2>6, Zenon
<1>9. CASE OutMore
  <2>1. core.pos + OutBytesIn \in Nat
    BY <1>1, <1>3, SMT
  <2>2. core' = [core EXCEPT !.pos = core.pos + OutBytesIn, !.residue = OutLeft, !.holds = Nothing]
    BY <1>9, Zenon DEF OutMore
  <2>3. core' \in Transfer /\ core'.setup = core.setup /\ core'.zlp = core.zlp
        /\ core'.residue = OutLeft
    BY <1>4, <1>8, <2>1, <2>2
  <2> QED
    BY <1>1, <1>2, <1>9, <2>3, Zenon DEF OutMore
<1>10. ASSUME NEW a \in Answers(core.setup, dev), OutLast(a)
       PROVE  /\ core' \in Transfer /\ core'.setup = core.setup /\ core'.zlp = core.zlp
              /\ core'.residue = 0
              /\ dev' \in Device /\ txPkt' \in Sent /\ handled' \in 0..2
  <2>1. 0 \in Nat /\ 0 \in 0..(Wrap - 1)
    BY SizeAssumption, SMT DEF LengthsFit
  <2>2. /\ core' \in Transfer /\ core'.setup = core.setup /\ core'.zlp = core.zlp
        /\ core'.residue = 0
    BY <1>8, <1>10, <2>1 DEF OutLast
  <2>3. a \in Answer
    BY <1>1, AnswersTyped
  <2>4. a.ok \in BOOLEAN /\ a.dev \in Device
    BY <2>3 DEF Answer
  <2>5. dev' \in Device /\ handled' \in 0..2
    BY <1>1, <1>10, <2>4, SMT DEF OutLast, Carried
  <2>6. UNCHANGED txPkt \/ txPkt' = Packet(core.holds, 0, Chunk(0))
    BY <1>10, Zenon DEF OutLast, Stall, StartWrite
  <2>7. txPkt' \in Sent
    <3>1. Packet(core.holds, 0, Chunk(0)) \in Sent
      BY <1>1, <2>1, PacketTyped
    <3> QED
      BY <1>1, <2>6, <3>1
  <2> QED
    BY <2>2, <2>5, <2>7
<1>11. CASE OutEmpty
  BY <1>1, <1>2, <1>11, <1>3, SMT DEF OutEmpty, OutMore
<1> QED
  BY <1>2, <1>6, <1>9, <1>10, <1>11, Zenon

LEMMA ServeOutTypes ==
  ASSUME LengthsFit, TInv, ServeOut
  PROVE  TInv'
<1>1. Types /\ Fits /\ InCounted /\ OutCounted
  BY DEF TInv
<1>2. /\ core' \in Transfer /\ dev' \in Device /\ txPkt' \in Sent /\ handled' \in 0..2
      /\ serving = "out" /\ serving' = "none"
      /\ UNCHANGED <<ctrTx, ctrRx, isSetup, rxPkt, busReset, count, host>>
  BY <1>1, ServeOutTyped
<1>3. /\ \/ tx' = "valid" /\ inDone' = 0
         \/ tx' = "stall" /\ inDone' = inDone
         \/ UNCHANGED <<tx, inDone>>
      /\ \/ UNCHANGED rx /\ outDone' = outDone + count
         \/ rx' = "valid" /\ outDone' = 0
  BY Zenon DEF ServeOut, StartRead, StartWrite, Stall
<1>4. /\ tx' \in Status /\ rx' \in Status /\ inDone' \in Nat /\ outDone' \in Nat
  BY <1>1, <1>3, SizeAssumption, SMT DEF Types, Status
<1>6. Types'
  BY <1>1, <1>2, <1>4, Zenon DEF Types
<1>7. Fits'
  BY <1>1, <1>2, Zenon DEF Fits
<1>8. InCounted'
  BY <1>1, <1>2, <1>3, SizeAssumption, SMT DEF InCounted, Counted
<1>9. OutCounted'
  BY <1>1, <1>2, <1>3, SizeAssumption, SMT DEF OutCounted, Counted, Types
<1> QED
  BY <1>6, <1>7, <1>8, <1>9 DEF TInv

LEMMA TInvInit ==
  ASSUME LengthsFit, Init
  PROVE  TInv
<1>1. NoRequest \in Asking /\ NoRequest.length = 0
  BY SMT DEF Asking, NoRequest
<1>2. Nothing \in Holding
  BY SMT DEF Nothing, Holding
<1>3. txPkt \in Sent /\ rxPkt \in Came
  BY <1>1, <1>2, SizeAssumption, SMT DEF Init, Packet, Sent, Came
<1>4. core \in Transfer
  BY <1>1, <1>2, SizeAssumption, SMT DEF Init, Transfer, LengthsFit
<1>5. dev \in Device
  BY SMT DEF Init, Device, Status
<1>6. host \in Host /\ host.stage = "idle"
  BY <1>1, SMT DEF Init, NoTransfer, Host, Stages
<1>7. inDone \in Nat /\ outDone \in Nat /\ count \in 0..Mps /\ handled \in 0..2
  BY SizeAssumption, SMT DEF Init
<1>8. Types
  BY <1>3, <1>4, <1>5, <1>6, <1>7, Zenon DEF Init, Types, Status
<1>9. InCounted /\ OutCounted
  BY SizeAssumption, SMT DEF Init, InCounted, OutCounted, Counted
<1> QED
  BY <1>6, <1>8, <1>9 DEF TInv, Fits

LEMMA TInvStutters ==
  ASSUME TInv, UNCHANGED vars
  PROVE  TInv'
<1>1. Types'
  BY Zenon DEF TInv, Types, vars
<1>2. Fits' /\ InCounted' /\ OutCounted'
  BY Zenon DEF TInv, Fits, InCounted, OutCounted, Counted, vars
<1> QED
  BY <1>1, <1>2 DEF TInv

LEMMA TInvStep ==
  ASSUME LengthsFit, TInv, [Next]_vars
  PROVE  TInv'
<1>1. CASE \E r \in Requests : HostSetup(r)
  BY <1>1, HostSetupTypes
<1>2. CASE HostIn
  BY <1>2, HostInTypes
<1>3. CASE HostOut
  BY <1>3, HostOutTypes
<1>4. CASE BusReset
  BY <1>4, BusResetTypes
<1>5. CASE BulkTraffic
  BY <1>5, BulkTrafficTypes
<1>6. CASE Serve
  BY <1>6, ServeTypes
<1>7. CASE ServeSetup
  BY <1>7, ServeSetupTypes
<1>8. CASE ServeIn
  BY <1>8, ServeInTypes
<1>9. CASE ServeOut
  BY <1>9, ServeOutTypes
<1>10. CASE ServeReset
  BY <1>10, ServeResetTypes
<1>11. CASE UNCHANGED vars
  BY <1>11, TInvStutters
<1> QED
  BY <1>1, <1>2, <1>3, <1>4, <1>5, <1>6, <1>7, <1>8, <1>9, <1>10, <1>11, Zenon
  DEF Next, Interrupt

LEMMA AlwaysTyped ==
  ASSUME LengthsFit
  PROVE  Spec => []TInv
<1>1. Init => TInv
  BY TInvInit
<1>2. TInv /\ [Next]_vars => TInv'
  BY TInvStep
<1> QED
  BY <1>1, <1>2, PTL DEF Spec

LEMMA TInvTypeOK ==
  ASSUME LengthsFit, TInv
  PROVE  TypeOK
<1>1. Types /\ InCounted /\ OutCounted
  BY DEF TInv
<1>2. /\ txPkt.n \in 0..Mps /\ rxPkt.n \in 0..Mps /\ rxPkt.req \in Requests \cup {NoRequest}
  BY <1>1, Zenon DEF Types, Sent, Came, Asking
<1>3. inDone \in 0..(2 * Mps) /\ outDone \in 0..(2 * Mps)
  BY <1>1, SizeAssumption, SMT DEF Types, InCounted, OutCounted, Counted
<1>4. /\ core.setup \in Requests \cup {NoRequest} /\ core.zlp \in BOOLEAN
      /\ core.residue \in 0..(Wrap - 1) /\ core.pos \in Nat
  BY <1>1, TransferFields DEF Types, Asking
<1>5. /\ dev.pending \in Nat /\ dev.address \in Nat \cup {NoAddress}
      /\ dev.configuration \in Nat /\ dev.speedKnown \in BOOLEAN
      /\ {dev.out, dev.in} \subseteq Status
  BY <1>1, DeviceFields DEF Types
<1>6. host.stage \in Stages
  BY <1>1, HostFields DEF Types
<1>7. /\ {tx, rx} \subseteq Status /\ {ctrTx, ctrRx, isSetup, busReset} \subseteq BOOLEAN
      /\ serving \in {"none", "setup", "out", "in"} /\ count \in 0..Mps /\ handled \in 0..2
  BY <1>1 DEF Types
<1> QED
  BY <1>2, <1>3, <1>4, <1>5, <1>6, <1>7, Zenon DEF TypeOK

\* Every variable keeps its type with any host, one that interrupts a transfer at
\* will too: no residue, position or packet outgrows its bounds, and the byte count
\* of either direction never exceeds two packets (usb_dc_fsdev.c clears it only when
\* it arms the endpoint).
THEOREM TypeCorrect ==
  ASSUME LengthsFit
  PROVE  Spec => []TypeOK
<1>1. TInv => TypeOK
  BY TInvTypeOK
<1> QED
  BY <1>1, AlwaysTyped, PTL
-----------------------------------------------------------------------------
(***************************************************************************)
(* The phases: for each action the phases it can be taken in, and the one  *)
(* it leads to.                                                            *)
(***************************************************************************)
LEMMA HostSetupPhase ==
  ASSUME LengthsFit, Prompt, TInv, NEW r \in Requests, HostSetup(r)
  PROVE  PInv'
<1>1. Served /\ host \in Host
  BY DEF HostSetup, TInv, Types
<1>2. /\ tx' = "nak" /\ rx' = "nak" /\ ctrRx' = TRUE /\ isSetup' = TRUE /\ handled' = 0
      /\ UNCHANGED <<ctrTx, busReset, serving>>
  BY Zenon DEF HostSetup
<1>3. /\ host'.req = r /\ host'.moved = 0
      /\ host'.stage = IF r.length > 0 THEN "data" ELSE "status"
  BY <1>1, SMT DEF HostSetup, Host
<1>4. host'.good
  BY <1>1, SMT DEF HostSetup, Host
<1>5. rxPkt'.req = r
  BY SMT DEF HostSetup
<1>6. Asked'
  BY <1>1, <1>2, <1>3, <1>4, <1>5, Zenon DEF Asked, Served
<1> QED
  BY <1>1, <1>2, <1>6, Zenon DEF PInv, Phase, Served

LEMMA HostInFrom ==
  ASSUME PInv, HostIn
  PROVE  ~busReset /\ (SendingArmed \/ (WriteEnding /\ host.stage = "status") \/ Refusing)
<1>1. ~busReset
  BY SMT DEF HostIn, Busy, PInv
<1>2. ~Rest
  BY Zenon DEF Rest, HostIn
<1>3. ~Asked /\ ~SendingTaken /\ ~ReceivingArmed /\ ~ReceivingTaken
  BY SMT DEF HostIn, Asked, SendingTaken, ReceivingArmed, ReceivingTaken, Receiving
<1>4. ~ReadEnding /\ ~Deaf
  BY SMT DEF HostIn, Busy, ReadEnding, Deaf
<1>5. WriteEnding => host.stage = "status"
  BY SMT DEF HostIn, Busy, WriteEnding
<1> QED
  BY <1>1, <1>2, <1>3, <1>4, <1>5, Zenon DEF PInv, Phase

LEMMA HostInPhase ==
  ASSUME LengthsFit, TInv, PInv, HostIn
  PROVE  PInv'
<1>1. host \in Host /\ txPkt \in Sent
  BY DEF TInv, Types
<1>2. UNCHANGED <<rx, ctrRx, isSetup, txPkt, rxPkt, inDone, outDone, core, busReset, serving, count, handled>>
  BY Zenon DEF HostIn, doneVars
<1>3. CASE SendingArmed
  <2>1. /\ Sending /\ Quiet /\ host.stage = "data" /\ host.moved = core.pos
        /\ tx' = "nak" /\ ctrTx' = TRUE /\ host' = Received(txPkt)
    BY <1>3, SMT DEF SendingArmed, HostIn
  <2>2. /\ host'.req = host.req /\ host'.moved = host.moved + txPkt.n
        /\ host'.good <=> /\ host.good /\ txPkt.from = host.moved
                       /\ (host.req.kind \in Reads => txPkt.of.kind = host.req.kind)
        /\ host'.stage = IF txPkt.n < Mps \/ host'.moved >= host.req.length THEN "status" ELSE "data"
    BY <1>1, <2>1, ReceivedTyped
  <2>3. txPkt.from = core.pos /\ txPkt.of = core.holds
    BY <2>1, SMT DEF Sending, Packet
  <2>4. host'.good
    BY <2>1, <2>2, <2>3, Zenon DEF Sending
  <2>5. Sending'
    BY <1>2, <2>1, <2>2, <2>4, Zenon DEF Sending
  <2>6. InWaits(txPkt.n)'
    BY <1>2, <2>1, Zenon DEF InWaits, Quiet
  <2>7. SendingTaken'
    BY <1>2, <2>1, <2>2, <2>5, <2>6, Zenon DEF SendingTaken
  <2> QED
    BY <1>2, <2>7, HostInFrom, Zenon DEF PInv, Phase
<1>4. CASE WriteEnding /\ host.stage = "status"
  <2>1. /\ ~IsRead(host.req) /\ host.good /\ txPkt.n = 0 /\ Quiet
        /\ tx' = "nak" /\ ctrTx' = TRUE /\ host' = Acknowledged(txPkt)
    BY <1>4, SMT DEF WriteEnding, HostIn
  <2>2. host'.req = host.req /\ host'.stage = "done" /\ host'.good
    BY <1>1, <2>1, AcknowledgedTyped
  <2>3. InWaits(0)'
    BY <1>2, <2>1, Zenon DEF InWaits, Quiet
  <2>4. WriteEnding'
    BY <1>2, <1>4, <2>1, <2>2, <2>3, Zenon DEF WriteEnding
  <2> QED
    BY <1>2, <2>4, HostInFrom, Zenon DEF PInv, Phase
<1>5. CASE Refusing
  <2>1. /\ Quiet
        /\ handled = 0 \/ TooBig(host.req)
        /\ host' = [host EXCEPT !.stage = "refused"] /\ UNCHANGED ctrTx
    BY <1>5, SMT DEF Refusing, HostIn
  <2>2. host'.stage = "refused" /\ host'.req = host.req
    BY <1>1, <2>1, SMT DEF Host
  <2>3. ~(Busy') /\ host'.stage # "done"
    BY <2>2 DEF Busy
  <2>4. Rest'
    BY <1>2, <2>1, <2>2, <2>3, Zenon DEF Rest, Quiet
  <2> QED
    BY <1>2, <2>4, HostInFrom, Zenon DEF PInv, Phase
<1> QED
  BY <1>3, <1>4, <1>5, HostInFrom

LEMMA HostOutFrom ==
  ASSUME PInv, HostOut
  PROVE  ~busReset /\ ((ReadEnding /\ host.stage = "status") \/ ReceivingArmed)
<1>1. ~busReset
  BY SMT DEF HostOut, Busy, PInv
<1>2. ~Rest
  BY Zenon DEF Rest, HostOut
<1>3. ~Asked /\ ~Refusing /\ ~SendingTaken /\ ~SendingArmed /\ ~Deaf /\ ~ReceivingTaken
  BY SMT DEF HostOut, Asked, Refusing, SendingTaken, SendingArmed, Sending, Deaf, ReceivingTaken
<1>4. ~WriteEnding
  BY SMT DEF HostOut, Busy, WriteEnding
<1>5. ReadEnding => host.stage = "status"
  BY SMT DEF HostOut, Busy, ReadEnding
<1> QED
  BY <1>1, <1>2, <1>3, <1>4, <1>5, Zenon DEF PInv, Phase

LEMMA HostOutPhase ==
  ASSUME LengthsFit, TInv, PInv, HostOut
  PROVE  PInv'
<1>1. host \in Host /\ Fits /\ core \in Transfer
  BY DEF TInv, Types
<1>2. /\ UNCHANGED <<tx, ctrTx, txPkt, inDone, outDone, core, busReset, serving, count, handled>>
      /\ rx' = "nak" /\ ctrRx' = TRUE /\ isSetup' = (isSetup /\ ctrRx)
  BY Zenon DEF HostOut, doneVars
<1>3. /\ OutBytes \in 0..Mps /\ rxPkt'.n = OutBytes
      /\ host'.req = host.req /\ host'.moved = host.moved + OutBytes
      /\ host'.good = host.good
      /\ host'.stage = IF host.stage = "status" THEN "done"
                          ELSE IF host'.moved = host.req.length THEN "status" ELSE "data"
      /\ ~IsRead(host.req) => host'.moved <= host.req.length
  BY <1>1, HostOutTyped
<1>4. /\ host.req.length \in Nat /\ host.moved \in Nat
  BY <1>1, HostFields, AskingTyped
<1>5. CASE ReadEnding /\ host.stage = "status"
  <2>1. OutBytes = 0
    BY <1>5, SMT DEF OutBytes
  <2>2. host'.stage = "done" /\ host'.moved = host.moved
    BY <1>3, <1>4, <1>5, <2>1, SMT
  <2>3. Quiet
    BY <1>5, SMT DEF ReadEnding
  <2>4. OutWaits(0)'
    BY <1>2, <2>3, Zenon DEF OutWaits, Quiet
  <2>5. ReadEnding'
    BY <1>2, <1>3, <1>5, <2>1, <2>2, <2>4, Zenon DEF ReadEnding, Whole
  <2> QED
    BY <1>2, <2>5, HostOutFrom, Zenon DEF PInv, Phase
<1>6. CASE ReceivingArmed
  <2>1. /\ Quiet /\ host.stage = "data" /\ core.residue + host.moved = host.req.length
        /\ core.residue > 0 /\ Receiving
    BY <1>6 DEF ReceivingArmed
  <2>2. core.residue \in Nat
    BY <1>1, SizeAssumption, SMT DEF Transfer
  <2>3. OutBytes > 0 /\ core.residue + host'.moved = host.req.length + OutBytes
    BY <1>3, <1>4, <2>1, <2>2, SizeAssumption, SMT DEF OutBytes
  <2>4. OutWaits(rxPkt.n)'
    BY <1>2, <2>1, Zenon DEF OutWaits, Quiet
  <2>5. host'.stage = IF host'.moved = host.req.length THEN "status" ELSE "data"
    BY <1>3, <2>1, SMT
  <2>6. Receiving'
    BY <1>2, <1>3, <2>1, Zenon DEF Receiving
  <2>7. ReceivingTaken'
    BY <1>2, <1>3, <2>3, <2>4, <2>5, <2>6, Zenon DEF ReceivingTaken
  <2> QED
    BY <1>2, <2>7, HostOutFrom, Zenon DEF PInv, Phase
<1> QED
  BY <1>5, <1>6, HostOutFrom

LEMMA BusResetPhase ==
  ASSUME TInv, BusReset
  PROVE  PInv'
<1>1. host'.stage = "idle" /\ busReset'
  BY BusResetTyped DEF TInv, Types, BusReset
<1> QED
  BY <1>1 DEF PInv

\* The phases do not depend on what happens to the bulk endpoints.
LEMMA BulkTrafficPhase ==
  ASSUME PInv, UNCHANGED <<tx, rx, ctrTx, ctrRx, isSetup, txPkt, rxPkt, inDone, outDone, core,
                           busReset, serving, count, handled, host>>
  PROVE  PInv'
<1>1. /\ Rest' = Rest /\ Asked' = Asked /\ Refusing' = Refusing /\ ReadEnding' = ReadEnding
      /\ Deaf' = Deaf /\ WriteEnding' = WriteEnding
  BY Zenon DEF Rest, Asked, Refusing, ReadEnding, Deaf, WriteEnding, Quiet, Busy, Whole, InWaits, OutWaits
<1>2. /\ SendingArmed' = SendingArmed /\ SendingTaken' = SendingTaken
      /\ ReceivingArmed' = ReceivingArmed /\ ReceivingTaken' = ReceivingTaken
  BY Zenon DEF SendingArmed, SendingTaken, ReceivingArmed, ReceivingTaken, Sending, Receiving,
               Quiet, InWaits, OutWaits
<1> QED
  BY <1>1, <1>2, Zenon DEF PInv, Phase

LEMMA ServeResetPhase ==
  ASSUME PInv, ServeReset
  PROVE  PInv'
<1>1. ~busReset' /\ serving' = "none" /\ ~ctrTx' /\ ~ctrRx' /\ host'.stage = "idle"
  BY Zenon DEF ServeReset, PInv
<1>2. Rest'
  BY <1>1, SMT DEF Rest, Quiet, Busy
<1> QED
  BY <1>1, <1>2 DEF PInv, Phase

LEMMA ServePhase ==
  ASSUME TInv, PInv, Serve
  PROVE  PInv'
<1>1. UNCHANGED <<tx, rx, isSetup, txPkt, rxPkt, inDone, outDone, core, busReset, handled, host>>
  BY Zenon DEF Serve, doneVars
<1>2. CASE busReset
  BY <1>1, <1>2, Zenon DEF PInv
<1>3. CASE ~busReset
  <2>1. ~Quiet
    BY Zenon DEF Quiet, Serve
  <2>2. ~Rest /\ ~Refusing /\ ~SendingArmed /\ ~Deaf /\ ~ReceivingArmed
    BY <2>1, Zenon DEF Rest, Refusing, SendingArmed, Deaf, ReceivingArmed
  <2>3. CASE Asked
    <3>1. serving' = "setup" /\ ~ctrRx' /\ ctrTx' = ctrTx
      BY <2>3, SMT DEF Asked, Serve
    <3>2. Asked'
      BY <1>1, <2>3, <3>1, Zenon DEF Asked
    <3> QED
      BY <1>1, <1>3, <3>2, Zenon DEF PInv, Phase
  <2>4. ASSUME NEW n, InWaits(n), n = txPkt.n PROVE InWaits(n)'
    <3>1. serving = "none" /\ ~ctrRx
      BY <2>4, Zenon DEF InWaits, Serve
    <3>2. serving' = "in" /\ ctrTx' = FALSE /\ ctrRx' = ctrRx /\ count' = txPkt.n
      BY <3>1, Zenon DEF Serve
    <3>3. ~ctrTx' /\ ~ctrRx'
      BY <3>1, <3>2
    <3>4. count' = n
      BY <2>4, <3>2, Zenon
    <3> QED
      BY <3>2, <3>3, <3>4, Zenon DEF InWaits
  <2>5. ASSUME NEW n, OutWaits(n), n = rxPkt.n PROVE OutWaits(n)'
    BY <2>5, SMT DEF OutWaits, Serve
  <2>6. CASE SendingTaken
    <3>1. InWaits(txPkt.n)'
      BY <1>1, <2>4, <2>6, Zenon DEF SendingTaken, InWaits
    <3>2. SendingTaken'
      BY <1>1, <2>6, <3>1, Zenon DEF SendingTaken, Sending
    <3> QED
      BY <1>1, <1>3, <3>2, Zenon DEF PInv, Phase
  <2>7. CASE ReadEnding
    <3>1. host.stage = "done" /\ rxPkt.n = 0 /\ OutWaits(0)
      BY <2>1, <2>7, Zenon DEF ReadEnding
    <3>2. OutWaits(0)'
      BY <2>5, <3>1
    <3>3. ReadEnding'
      BY <1>1, <2>7, <3>1, <3>2, Zenon DEF ReadEnding, Whole
    <3> QED
      BY <1>1, <1>3, <3>3, Zenon DEF PInv, Phase
  <2>8. CASE ReceivingTaken
    <3>1. OutWaits(rxPkt.n)'
      BY <1>1, <2>5, <2>8, Zenon DEF ReceivingTaken, OutWaits
    <3>2. ReceivingTaken'
      BY <1>1, <2>8, <3>1, Zenon DEF ReceivingTaken, Receiving
    <3> QED
      BY <1>1, <1>3, <3>2, Zenon DEF PInv, Phase
  <2>9. CASE WriteEnding
    <3>1. host.stage = "done" /\ tx = "nak" /\ InWaits(0) /\ txPkt.n = 0
      BY <2>1, <2>9, Zenon DEF WriteEnding
    <3>2. InWaits(0)'
      BY <2>4, <3>1
    <3>3. WriteEnding'
      BY <1>1, <2>9, <3>1, <3>2, Zenon DEF WriteEnding
    <3> QED
      BY <1>1, <1>3, <3>3, Zenon DEF PInv, Phase
  <2> QED
    BY <1>3, <2>2, <2>3, <2>6, <2>7, <2>8, <2>9, Zenon DEF PInv, Phase
<1> QED
  BY <1>2, <1>3

\* Outside a bus reset the completion being served belongs to the transfer.
LEMMA ServingPhase ==
  ASSUME PInv, ~busReset
  PROVE  /\ serving = "setup" => Asked
         /\ serving = "in" => SendingTaken \/ (WriteEnding /\ host.stage = "done")
         /\ serving = "out" => (ReadEnding /\ host.stage = "done") \/ ReceivingTaken
<1>1. /\ Rest => serving = "none"
      /\ Asked => serving \in {"none", "setup"}
      /\ Refusing => serving = "none"
      /\ SendingArmed => serving = "none"
      /\ SendingTaken => serving \in {"none", "in"}
      /\ ReadEnding => serving = "none" \/ (serving = "out" /\ host.stage = "done")
      /\ Deaf => serving = "none"
      /\ ReceivingArmed => serving = "none"
      /\ ReceivingTaken => serving \in {"none", "out"}
      /\ WriteEnding => serving = "none" \/ (serving = "in" /\ host.stage = "done")
  BY Zenon DEF Rest, Asked, Refusing, SendingArmed, SendingTaken, ReadEnding, Deaf,
       ReceivingArmed, ReceivingTaken, WriteEnding, Quiet, InWaits, OutWaits
<1> QED
  BY <1>1, SMT DEF PInv, Phase

\* The first packet of a reply.
LEMMA MinimumSent ==
  ASSUME NEW len \in Nat, NEW asked \in Nat
  PROVE  /\ ToSend(len, asked) = (IF len < asked THEN len ELSE asked)
         /\ asked = 0 => ToSend(len, asked) = 0 /\ ~ZlpDue(len, asked)
         /\ asked > 0 => LastPacket(0, ToSend(len, asked), ZlpDue(len, asked), asked)
         /\ len > 0 /\ asked > 0 => ToSend(len, asked) > 0
<1>1. CASE len < asked
  BY <1>1, SizeAssumption, SMT DEF ToSend, ZlpDue, LastPacket
<1>2. CASE ~(len < asked)
  BY <1>2, SMT DEF ToSend, ZlpDue, LastPacket
<1> QED
  BY <1>1, <1>2

LEMMA ServeSetupPhase ==
  ASSUME LengthsFit, TInv, PInv, ServeSetup
  PROVE  PInv'
<1> DEFINE r == rxPkt.req
<1>1. /\ host \in Host /\ Types
  BY DEF TInv, Types
<1>2. /\ serving = "setup" /\ serving' = "none"
      /\ UNCHANGED <<ctrTx, ctrRx, isSetup, rxPkt, busReset, count, host>>
      /\ \/ SetupTooLong \/ SetupReceives
         \/ \E a \in Answers(r, dev) : \/ SetupRefused(a) \/ SetupTooBig(a) \/ SetupReplies(a)
  BY <1>1, ServeSetupTyped
<1>3. CASE busReset
  BY <1>2, <1>3, Zenon DEF PInv
<1>4. CASE ~busReset
  <2>1. Asked
    BY <1>2, <1>4, ServingPhase
  <2>2. /\ ~ctrRx /\ ~ctrTx /\ tx = "nak" /\ rx = "nak" /\ r = host.req
        /\ handled = 0 /\ host.moved = 0 /\ host.good
        /\ host.stage = IF r.length > 0 THEN "data" ELSE "status"
    BY <1>2, <2>1, SMT DEF Asked
  <2>3. Quiet' /\ Busy' /\ Busy
    BY <1>2, <2>2, Zenon DEF Quiet, Busy
  <2>4. r.length \in Nat /\ r.dirIn \in BOOLEAN /\ r \in Asking /\ core.holds \in Holding /\ dev \in Device
    <3>1. r \in Asking /\ core.holds \in Holding /\ dev \in Device
      BY <1>1, SMT DEF Types, Came, Transfer
    <3> QED
      BY <3>1, AskingTyped
  <2>5. IsRead(r) => host.stage = "data"
    BY <2>2, Zenon DEF IsRead
  <2>6. ASSUME tx' = "stall", rx' = "nak", handled' = 0 \/ TooBig(r)
        PROVE  PInv'
    <3>1. Refusing'
      BY <1>2, <2>2, <2>3, <2>5, <2>6, Zenon DEF Refusing
    <3> QED
      BY <1>2, <1>4, <3>1, Zenon DEF PInv, Phase
  <2>7. CASE SetupTooLong
    BY <2>2, <2>6, <2>7, Zenon DEF SetupTooLong, Stall
  <2>8. CASE SetupReceives
    <3>1. r.length > 0 /\ ~IsRead(r)
      BY <2>8, Zenon DEF SetupReceives, ReceivesFirst, IsRead
    <3>2. /\ core'.setup = r /\ ~core'.zlp /\ core'.residue = r.length
          /\ rx' = "valid" /\ outDone' = 0 /\ tx' = tx /\ handled' = handled
      BY <2>8, Zenon DEF SetupReceives, Starts, StartRead
    <3>3. host.moved <= r.length /\ r.length + host.moved = r.length
      BY <2>2, <2>4, SMT
    <3>4. Receiving'
      BY <1>2, <2>2, <3>1, <3>2, <3>3, Zenon DEF Receiving
    <3>5. ReceivingArmed'
      BY <1>2, <2>2, <2>3, <3>1, <3>2, <3>3, <3>4, Zenon DEF ReceivingArmed
    <3> QED
      BY <1>2, <1>4, <3>5, Zenon DEF PInv, Phase
  <2>9. ASSUME NEW a \in Answers(r, dev), SetupRefused(a)
        PROVE  PInv'
    BY <2>2, <2>6, <2>9, Zenon DEF SetupRefused, SetupAnswered, Carried, Stall
  <2>10. ASSUME NEW a \in Answers(r, dev)
         PROVE  /\ a.len \in Nat
                /\ r.kind \in Reads /\ a.ok => a.len = ReplyLen[r.kind] /\ a.holds.kind = r.kind
    <3>1. a \in Answer /\ (r.kind \in Reads /\ a.ok => a.len = ReplyLen[r.kind] /\ a.holds.kind = r.kind)
      BY <2>4, AnswersTyped
    <3> QED
      BY <3>1 DEF Answer
  <2>11. ASSUME NEW a \in Answers(r, dev), SetupTooBig(a)
         PROVE  PInv'
    <3> DEFINE n == ToSend(a.len, r.length)
    <3>1. n \in 0..r.length /\ n > BufferLen
      BY <2>4, <2>10, <2>11, ToSendTyped DEF SetupTooBig
    <3>2. r.length > BufferLen /\ r.length > 0
      BY <2>4, <3>1, SizeAssumption, SMT
    <3>3. TooBig(r)
      BY <2>4, <2>11, <3>2, Zenon DEF TooBig, IsRead, SetupTooBig, SetupAnswered, ReceivesFirst
    <3>4. tx' = "stall" /\ rx' = "nak"
      BY <2>2, <2>11, Zenon DEF SetupTooBig, SetupAnswered, Stall
    <3> QED
      BY <2>6, <3>3, <3>4
  <2>12. ASSUME NEW a \in Answers(r, dev), SetupReplies(a)
         PROVE  PInv'
    <3> DEFINE n == ToSend(a.len, r.length)
               z == ZlpDue(a.len, r.length)
    <3>1. n \in Nat /\ z \in BOOLEAN
      <4>1. n \in 0..r.length /\ z \in BOOLEAN
        BY <2>4, <2>10, ToSendTyped
      <4> QED
        BY <2>4, <4>1, SMT
    <3>2. /\ r.length = 0 => n = 0 /\ ~z
          /\ r.length > 0 => LastPacket(0, n, z, r.length)
          /\ a.len > 0 /\ r.length > 0 => n > 0
      BY <2>4, <2>10, MinimumSent
    <3> HIDE DEF n, z
    <3>3. /\ core'.setup = r /\ core'.pos = 0 /\ core'.residue = n /\ (core'.zlp <=> z)
          /\ core'.holds = a.holds
          /\ tx' = "valid" /\ txPkt' = Packet(a.holds, 0, Chunk(n)) /\ inDone' = 0
          /\ rx' = rx /\ a.ok
      BY <2>12, Zenon DEF SetupReplies, SetupAnswered, Starts, StartWrite, n, z
    <3>4. handled' = 1
      BY <2>2, <2>12, <3>3, SMT DEF SetupReplies, SetupAnswered, Carried
    <3>5. CASE IsRead(r)
      <4>1. r.length > 0 /\ host.stage = "data"
        BY <2>5, <3>5 DEF IsRead
      <4>2. LastPacket(core'.pos, core'.residue, core'.zlp, r.length)
        BY <3>2, <3>3, <4>1, Zenon DEF LastPacket
      <4>3. r.kind \in Reads =>
              /\ core'.holds.kind = r.kind /\ core'.pos + core'.residue = Wanted(r)
              /\ core'.residue > 0
        <5>1. HAVE r.kind \in Reads
        <5>2. a.len = ReplyLen[r.kind] /\ a.holds.kind = r.kind
          BY <2>10, <3>3, <5>1
        <5>3. a.len > 0
          BY <5>1, <5>2, SizeAssumption, SMT
        <5>4. n = Wanted(r)
          BY <5>2 DEF n, Wanted
        <5>5. 0 + n = n
          BY <3>1, SMT
        <5> QED
          BY <3>2, <3>3, <4>1, <5>2, <5>3, <5>4, <5>5, Zenon
      <4>4. Sending'
        BY <1>2, <2>2, <3>3, <3>4, <3>5, <4>2, <4>3, Zenon DEF Sending
      <4>5. SendingArmed'
        BY <1>2, <2>2, <2>3, <3>3, <4>1, <4>4, Zenon DEF SendingArmed
      <4> QED
        BY <1>2, <1>4, <4>5, Zenon DEF PInv, Phase
    <3>6. CASE ~IsRead(r)
      <4>1. r.length = 0
        BY <2>4, <2>12, <3>6, SMT DEF SetupReplies, SetupAnswered, ReceivesFirst, IsRead
      <4>2. n = 0 /\ ~z /\ host.stage = "status"
        BY <2>2, <3>2, <4>1, SMT
      <4>3. txPkt'.n = 0
        BY <3>3, <4>2, SizeAssumption, SMT DEF Packet, Chunk
      <4>4. WriteEnding'
        BY <1>2, <2>2, <2>3, <3>3, <3>4, <3>6, <4>2, <4>3, Zenon DEF WriteEnding
      <4> QED
        BY <1>2, <1>4, <4>4, Zenon DEF PInv, Phase
    <3> QED
      BY <3>5, <3>6
  <2> QED
    BY <1>2, <2>7, <2>8, <2>9, <2>11, <2>12
<1> QED
  BY <1>3, <1>4

\* What is left after a packet of a reply, and that the shape of what is left stays.
LEMMA ChunkTaken ==
  ASSUME NEW residue \in Nat, NEW n, n = Chunk(residue)
  PROVE  /\ n \in 0..residue /\ residue - n \in Nat
         /\ residue - n # 0 => n = Mps /\ residue > Mps
         /\ n < Mps => residue = n
         /\ n = 0 => residue = 0
  BY SizeAssumption, SMT DEF Chunk

LEMMA NoMultipleBetween ==
  ASSUME NEW m \in Nat, m > 0, NEW d \in Int, 0 - m < m * d, m * d < m
  PROVE  d = 0
<1>1. ASSUME d >= 1 PROVE FALSE
  <2>1. m * (d - 1) >= 0
    BY <1>1, SMT
  <2> QED
    BY <2>1, <1>1, SMT
<1>2. ASSUME d <= 0 - 1 PROVE FALSE
  <2>1. m * (0 - d - 1) >= 0
    BY <1>2, SMT
  <2> QED
    BY <2>1, <1>2, SMT
<1> QED
  BY <1>1, <1>2

LEMMA MpsPeriod ==
  ASSUME NEW x \in Nat, x >= Mps
  PROVE  (x - Mps) % Mps = x % Mps
<1>0. Mps \in Nat /\ Mps > 0 /\ x - Mps \in Int
  BY SizeAssumption, SMT
<1>1. \A m \in Nat, y \in Int : m > 0 =>
        /\ y = m * (y \div m) + (y % m) /\ y \div m \in Int /\ (y % m) \in 0..(m - 1)
  BY SMT
<1> DEFINE q == x \div Mps
           r == x % Mps
           q1 == (x - Mps) \div Mps
           r1 == (x - Mps) % Mps
<1>2. x = Mps * q + r /\ q \in Int /\ r \in 0..(Mps - 1)
  BY <1>0, <1>1
<1>3. x - Mps = Mps * q1 + r1 /\ q1 \in Int /\ r1 \in 0..(Mps - 1)
  BY <1>0, <1>1
<1> HIDE DEF q, r, q1, r1
<1>4. Mps * (q1 + 1 - q) = r - r1 /\ q1 + 1 - q \in Int
  BY <1>0, <1>2, <1>3, SMT
<1>5. 0 - Mps < r - r1 /\ r - r1 < Mps
  BY <1>0, <1>2, <1>3, SMT
<1>6. q1 + 1 - q = 0
  BY <1>0, <1>4, <1>5, NoMultipleBetween
<1>7. r = r1
  BY <1>0, <1>2, <1>3, <1>4, <1>6, SMT
<1> QED
  BY <1>7 DEF r, r1

LEMMA Multiples ==
  /\ 0 % Mps = 0 /\ Mps % Mps = 0
  /\ \A x \in Nat : x < Mps => x % Mps = x
  BY SizeAssumption, SMT

LEMMA LastPacketStays ==
  ASSUME NEW pos \in Nat, NEW residue \in Nat, NEW zlp \in BOOLEAN, NEW length \in Nat,
         NEW n, n = Chunk(residue), residue - n # 0, LastPacket(pos, residue, zlp, length)
  PROVE  LastPacket(pos + n, residue - n, zlp, length) /\ pos + n < length /\ n = Mps
<1>1. n = Mps /\ residue > Mps /\ n \in Nat
  BY ChunkTaken, SizeAssumption
<1>2. residue - n \in Nat /\ (residue - n) % Mps = residue % Mps
  BY <1>1, MpsPeriod, SizeAssumption, SMT
<1>3. pos + n + (residue - n) = pos + residue /\ pos + n < pos + residue
  BY <1>1, <1>2, SizeAssumption, SMT
<1>4. pos + residue <= length
  BY <1>1, SizeAssumption, SMT DEF LastPacket
<1>5. pos + n < length
  BY <1>1, <1>3, <1>4, SMT
<1>6. LastPacket(pos + n, residue - n, zlp, length)
  <2>1. residue - n > 0 /\ residue # 0
    BY <1>1, <1>2, SizeAssumption, SMT
  <2> QED
    BY <1>2, <1>3, <2>1, Zenon DEF LastPacket
<1> QED
  BY <1>1, <1>5, <1>6

\* The packet that leaves nothing is a full one when an empty one must follow, and
\* the last one the host waits for when none does.
LEMMA LastPacketTaken ==
  ASSUME NEW pos \in Nat, NEW residue \in Nat, NEW zlp \in BOOLEAN, NEW length \in Nat,
         NEW n, n = Chunk(residue), residue - n = 0, LastPacket(pos, residue, zlp, length)
  PROVE  /\ n = residue
         /\ zlp => pos + n < length /\ (residue > 0 => n = Mps)
         /\ ~zlp => n < Mps \/ pos + n >= length
<1>1. n = residue /\ n <= Mps
  BY SizeAssumption, SMT DEF Chunk
<1>2. residue % Mps = 0 /\ residue > 0 => n = Mps
  BY <1>1, Multiples, SizeAssumption, SMT
<1>3. residue % Mps # 0 => n < Mps
  BY <1>1, Multiples, SizeAssumption, SMT
<1>4. residue = 0 => n < Mps
  BY <1>1, SizeAssumption, SMT
<1> QED
  BY <1>1, <1>2, <1>3, <1>4, SMT DEF LastPacket

LEMMA ServeInPhase ==
  ASSUME LengthsFit, TInv, PInv, ServeIn
  PROVE  PInv'
<1>1. /\ Types /\ core \in Transfer /\ host \in Host
  BY DEF TInv, Types
<1>2. /\ InBytes \in Nat /\ InLeft \in 0..(Wrap - 1)
      /\ core'.setup = core.setup /\ core'.pos = core.pos + InBytes
      /\ core'.residue = InLeft /\ (core'.zlp <=> InZlp) /\ core'.holds = core.holds
  BY <1>1, ServeInTyped
<1>3. /\ serving = "in" /\ serving' = "none"
      /\ UNCHANGED <<ctrTx, ctrRx, isSetup, rxPkt, busReset, count, handled, host>>
      /\ \/ InLeft # 0 /\ StartWrite(core.holds, core.pos + InBytes, InLeft)
         \/ InLeft = 0 /\ core.zlp /\ StartWrite(core.holds, core.pos + InBytes, 0)
         \/ InLeft = 0 /\ ~core.zlp /\ inDone' = InBytes /\ UNCHANGED <<tx, txPkt>>
      /\ \/ (~IsRead(core.setup) \/ (InLeft = 0 /\ ~core.zlp)) /\ StartRead
         \/ IsRead(core.setup) /\ (InLeft # 0 \/ core.zlp) /\ UNCHANGED <<rx, outDone>>
  BY Zenon DEF ServeIn, InBytes, InLeft
<1>4. CASE busReset
  BY <1>3, <1>4, Zenon DEF PInv
<1>5. CASE ~busReset /\ SendingTaken
  <2>1. /\ Sending /\ tx = "nak" /\ InWaits(txPkt.n) /\ host.moved = core.pos + txPkt.n
        /\ host.stage = IF txPkt.n < Mps \/ host.moved >= host.req.length THEN "status" ELSE "data"
    BY <1>5 DEF SendingTaken
  <2> DEFINE n == txPkt.n
             pos == core.pos
             residue == core.residue
             length == host.req.length
  <2>2. /\ IsRead(host.req) /\ core.setup = host.req /\ rx = "nak" /\ handled = 1
        /\ inDone = 0 /\ host.good /\ LastPacket(pos, residue, core.zlp, length)
        /\ host.req.kind \in Reads =>
             /\ core.holds.kind = host.req.kind
             /\ pos + residue = Wanted(host.req)
             /\ core.zlp => residue > 0
    BY <2>1, Zenon DEF Sending
  <2>3. n = Chunk(residue)
    BY <2>1, SMT DEF Sending, Packet
  <2>4. ~ctrRx /\ ~ctrTx /\ count = n
    BY <1>3, <2>1, SMT DEF InWaits
  <2>5. pos \in Nat /\ residue \in Nat /\ residue \in 0..(Wrap - 1) /\ core.zlp \in BOOLEAN
        /\ length \in Nat
    <3>1. length \in Nat
      BY <1>1, HostFields, AskingTyped
    <3> QED
      BY <1>1, <3>1, SizeAssumption, SMT DEF Transfer
  <2>6. /\ n \in 0..residue /\ residue - n \in Nat
        /\ residue - n # 0 => n = Mps /\ residue > Mps
    BY <2>3, <2>5, ChunkTaken
  <2>7. InBytes = n
    BY <2>2, <2>4, <2>6, SMT DEF InBytes
  <2>8. InLeft = residue - n
    BY <2>5, <2>6, <2>7, LessExact DEF InLeft
  <2>9. Quiet'
    BY <1>3, <2>4, Zenon DEF Quiet
  <2>10. core'.pos = host.moved /\ core'.setup = host.req
    BY <1>2, <2>1, <2>2, <2>7
  <2>11. CASE InLeft # 0
    <3>1. LastPacket(pos + n, residue - n, core.zlp, length) /\ pos + n < length /\ n = Mps
      BY <2>2, <2>3, <2>5, <2>8, <2>11, LastPacketStays
    <3>2. /\ tx' = "valid" /\ txPkt' = Packet(core'.holds, core'.pos, Chunk(core'.residue))
          /\ inDone' = 0 /\ rx' = "nak"
      BY <1>2, <1>3, <2>2, <2>11, Zenon DEF StartWrite
    <3>3. core'.zlp = core.zlp
      <4>1. core' \in Transfer
        BY <1>1, ServeInTyped
      <4> QED
        BY <1>2, <2>5, <2>11, <4>1, SMT DEF InZlp, Transfer
    <3>4. LastPacket(core'.pos, core'.residue, core'.zlp, length)
      BY <1>2, <2>7, <2>8, <3>1, <3>3
    <3>5. host.stage = "data"
      BY <2>1, <2>5, <2>6, <3>1, SizeAssumption, SMT
    <3>6. host.req.kind \in Reads =>
            /\ core'.holds.kind = host.req.kind
            /\ core'.pos + core'.residue = Wanted(host.req)
            /\ core'.zlp => core'.residue > 0
      <4>1. pos + n + (residue - n) = pos + residue /\ (residue - n # 0 => residue - n > 0)
        BY <2>5, <2>6, SMT
      <4> QED
        BY <1>2, <2>2, <2>7, <2>8, <2>11, <4>1, Zenon
    <3>7. Sending'
      BY <1>3, <2>2, <2>10, <3>2, <3>4, <3>6, Zenon DEF Sending
    <3>8. SendingArmed'
      BY <1>3, <2>9, <2>10, <3>2, <3>5, <3>7, Zenon DEF SendingArmed
    <3> QED
      BY <1>3, <1>5, <3>8, Zenon DEF PInv, Phase
  <2>12. CASE InLeft = 0
    <3>1. /\ n = residue
          /\ core.zlp => pos + n < length /\ (residue > 0 => n = Mps)
          /\ ~core.zlp => n < Mps \/ pos + n >= length
      BY <2>2, <2>3, <2>5, <2>8, <2>12, LastPacketTaken
    <3>2. ~core'.zlp /\ core'.residue = 0
      BY <1>2, <2>12, Zenon DEF InZlp
    <3>3. CASE core.zlp
      <4>1. /\ tx' = "valid" /\ txPkt' = Packet(core'.holds, core'.pos, Chunk(core'.residue))
            /\ inDone' = 0 /\ rx' = "nak"
        BY <1>2, <1>3, <2>2, <2>12, <3>3, <3>2, Zenon DEF StartWrite
      <4>2. CASE residue > 0
        <5>1. host.stage = "data"
          BY <2>1, <2>5, <2>6, <3>1, <3>3, <4>2, SizeAssumption, SMT
        <5>2. LastPacket(core'.pos, core'.residue, core'.zlp, length)
          BY <1>2, <2>7, <3>1, <3>2, <3>3, Zenon DEF LastPacket
        <5>3. host.req.kind \in Reads =>
                /\ core'.holds.kind = host.req.kind
                /\ core'.pos + core'.residue = Wanted(host.req)
                /\ core'.zlp => core'.residue > 0
          <6>1. pos + n + 0 = pos + residue
            BY <2>5, <3>1, SMT
          <6> QED
            BY <1>2, <2>2, <2>7, <3>2, <6>1, Zenon
        <5>4. Sending'
          BY <1>3, <2>2, <2>10, <4>1, <5>2, <5>3, Zenon DEF Sending
        <5>5. SendingArmed'
          BY <1>3, <2>9, <2>10, <4>1, <5>1, <5>4, Zenon DEF SendingArmed
        <5> QED
          BY <1>3, <1>5, <5>5, Zenon DEF PInv, Phase
      <4>3. CASE ~(residue > 0)
        <5>1. host.req.kind \notin Reads
          BY <2>2, <3>3, <4>3
        <5>2. host.stage = "status"
          BY <2>1, <2>5, <3>1, <4>3, SizeAssumption, SMT
        <5>3. Deaf'
          BY <1>3, <2>2, <2>9, <4>1, <5>1, <5>2, Zenon DEF Deaf
        <5> QED
          BY <1>3, <1>5, <5>3, Zenon DEF PInv, Phase
      <4> QED
        BY <4>2, <4>3
    <3>4. CASE ~core.zlp
      <4>1. rx' = "valid" /\ outDone' = 0
        BY <1>3, <2>12, <3>4, Zenon DEF StartRead
      <4>2. host.stage = "status"
        BY <2>1, <3>1, <3>4, Zenon
      <4>3. Whole
        <5>1. SUFFICES ASSUME host.req.kind \in Reads PROVE host.moved = Wanted(host.req)
          BY DEF Whole
        <5> QED
          BY <2>1, <2>2, <3>1, <5>1, Zenon
      <4>4. ReadEnding'
        BY <1>3, <2>2, <2>9, <4>1, <4>2, <4>3, Zenon DEF ReadEnding, Whole
      <4> QED
        BY <1>3, <1>5, <4>4, Zenon DEF PInv, Phase
    <3> QED
      BY <3>3, <3>4
  <2> QED
    BY <2>11, <2>12
<1>6. CASE ~busReset /\ WriteEnding /\ host.stage = "done"
  <2>1. /\ ~IsRead(host.req) /\ core.setup = host.req /\ ~core.zlp /\ core.residue = 0
        /\ handled = 1 /\ inDone = 0 /\ host.good /\ tx = "nak" /\ InWaits(0)
    BY <1>6, SMT DEF WriteEnding
  <2>2. Quiet'
    BY <1>3, <2>1, SMT DEF InWaits, Quiet
  <2>3. Rest'
    BY <1>3, <1>6, <2>1, <2>2, SMT DEF Rest, Busy
  <2> QED
    BY <1>3, <1>6, <2>3, Zenon DEF PInv, Phase
<1> QED
  BY <1>3, <1>4, <1>5, <1>6, ServingPhase

LEMMA ServeOutPhase ==
  ASSUME LengthsFit, TInv, PInv, ServeOut
  PROVE  PInv'
<1>1. /\ Types /\ core \in Transfer /\ host \in Host
  BY DEF TInv, Types
<1>2. /\ serving = "out" /\ serving' = "none"
      /\ UNCHANGED <<ctrTx, ctrRx, isSetup, rxPkt, busReset, count, host>>
      /\ OutMore \/ (\E a \in Answers(core.setup, dev) : OutLast(a)) \/ OutEmpty
      /\ core'.setup = core.setup /\ core'.zlp = core.zlp
      /\ OutMore => core'.residue = OutLeft
      /\ ~OutMore /\ ~OutEmpty => core'.residue = 0
  BY <1>1, ServeOutTyped
<1>3. CASE busReset
  BY <1>2, <1>3, Zenon DEF PInv
<1>4. CASE ~busReset /\ ReadEnding /\ host.stage = "done"
  <2>1. OutWaits(0) /\ outDone = 0 /\ handled = 1 /\ host.good /\ Whole
    BY <1>4, SMT DEF ReadEnding
  <2>2. OutBytesIn = 0 /\ ~ctrTx /\ ~ctrRx
    BY <1>2, <2>1, SMT DEF OutWaits, OutBytesIn
  <2>3. handled' = handled
    BY <1>2, <2>2, SMT DEF OutMore, OutLast, OutEmpty
  <2>4. Quiet'
    BY <1>2, <2>2, Zenon DEF Quiet
  <2>5. ~Busy' /\ host.stage # "refused"
    BY <1>2, <1>4, SMT DEF Busy
  <2>6. Rest'
    BY <1>2, <2>1, <2>3, <2>4, <2>5, Zenon DEF Rest, Whole
  <2> QED
    BY <1>2, <1>4, <2>6, Zenon DEF PInv, Phase
<1>5. CASE ~busReset /\ ReceivingTaken
  <2> DEFINE n == rxPkt.n
             length == host.req.length
  <2>1. /\ ~IsRead(host.req) /\ core.setup = host.req /\ ~core.zlp /\ tx = "nak"
        /\ handled = 0 /\ outDone = 0 /\ host.good /\ host.moved <= length
        /\ rx = "nak" /\ OutWaits(n) /\ n > 0
        /\ core.residue + host.moved = length + n
        /\ host.stage = IF host.moved = length THEN "status" ELSE "data"
    BY <1>5, Zenon DEF ReceivingTaken, Receiving
  <2>2. /\ n \in Nat /\ core.residue \in 0..(Wrap - 1) /\ host.moved \in Nat /\ length \in Nat
    <3>1. n \in Nat /\ core.residue \in 0..(Wrap - 1) /\ host.moved \in Nat
      BY <1>1, SizeAssumption, SMT DEF Types, Came, Transfer, Host
    <3>2. length \in Nat
      BY <1>1, HostFields, AskingTyped
    <3> QED
      BY <3>1, <3>2
  <2>3. ~ctrTx /\ ~ctrRx /\ OutBytesIn = n
    BY <1>2, <2>1, <2>2, SMT DEF OutWaits, OutBytesIn
  <2>4. n \in 0..core.residue /\ core.residue - n = length - host.moved
    BY <2>1, <2>2, SMT
  <2>5. OutLeft = length - host.moved
    BY <2>2, <2>3, <2>4, LessExact DEF OutLeft
  <2>6. Quiet'
    BY <1>2, <2>3, Zenon DEF Quiet
  <2>9. ~OutEmpty
    BY <2>1, <2>2, <2>3, SMT DEF OutEmpty
  <2>7. CASE OutMore
    <3>1. /\ rx' = "valid" /\ outDone' = 0 /\ tx' = tx /\ handled' = handled
          /\ OutLeft # 0 /\ core'.residue = OutLeft
      BY <1>2, <2>7, Zenon DEF OutMore, StartRead
    <3>2. core'.residue + host.moved = length /\ core'.residue > 0 /\ host.moved # length
      BY <2>1, <2>2, <2>5, <3>1, SMT
    <3>3. Receiving'
      BY <1>2, <2>1, <3>1, Zenon DEF Receiving
    <3>4. ReceivingArmed'
      BY <1>2, <2>1, <2>6, <3>1, <3>2, <3>3, Zenon DEF ReceivingArmed
    <3> QED
      BY <1>2, <1>5, <3>4, Zenon DEF PInv, Phase
  <2>8. ASSUME NEW a \in Answers(core.setup, dev), OutLast(a)
        PROVE  PInv'
    <3>1. OutLeft = 0 /\ rx' = "nak" /\ Carried(a)
      BY <2>1, <2>8, Zenon DEF OutLast
    <3>2. host.stage = "status"
      BY <2>1, <2>2, <2>5, <3>1, SMT
    <3>3. CASE ~a.ok
      <4>1. tx' = "stall" /\ handled' = 0
        BY <2>1, <2>8, <3>1, <3>3, SMT DEF OutLast, Stall, Carried
      <4>2. Refusing'
        BY <1>2, <2>1, <2>6, <3>1, <3>2, <4>1, SMT DEF Refusing, Busy
      <4> QED
        BY <1>2, <1>5, <4>2, Zenon DEF PInv, Phase
    <3>4. CASE a.ok
      <4>1. /\ tx' = "valid" /\ txPkt' = Packet(core.holds, 0, Chunk(0)) /\ inDone' = 0
        BY <2>8, <3>4, Zenon DEF OutLast, StartWrite
      <4>2. handled' = 1
        BY <2>1, <3>1, <3>4, SMT DEF Carried
      <4>3. txPkt'.n = 0
        BY <4>1, SizeAssumption, SMT DEF Packet, Chunk
      <4>4. core'.residue = 0
        BY <1>2, <2>9, <3>1, Zenon DEF OutMore
      <4>5. WriteEnding'
        BY <1>2, <2>1, <2>6, <3>2, <4>1, <4>2, <4>3, <4>4, Zenon DEF WriteEnding
      <4> QED
        BY <1>2, <1>5, <4>5, Zenon DEF PInv, Phase
    <3> QED
      BY <3>3, <3>4
  <2> QED
    BY <1>2, <2>7, <2>8, <2>9
<1> QED
  BY <1>2, <1>3, <1>4, <1>5, ServingPhase

LEMMA PInvStep ==
  ASSUME LengthsFit, Prompt, TInv, PInv, [Next]_vars
  PROVE  PInv'
<1>1. CASE \E r \in Requests : HostSetup(r)
  BY <1>1, HostSetupPhase
<1>2. CASE HostIn
  BY <1>2, HostInPhase
<1>3. CASE HostOut
  BY <1>3, HostOutPhase
<1>4. CASE BusReset
  BY <1>4, BusResetPhase
<1>5. CASE BulkTraffic
  BY <1>5, BulkTrafficPhase DEF BulkTraffic, epVars, doneVars
<1>6. CASE Serve
  BY <1>6, ServePhase
<1>7. CASE ServeSetup
  BY <1>7, ServeSetupPhase
<1>8. CASE ServeIn
  BY <1>8, ServeInPhase
<1>9. CASE ServeOut
  BY <1>9, ServeOutPhase
<1>10. CASE ServeReset
  BY <1>10, ServeResetPhase
<1>11. CASE UNCHANGED vars
  BY <1>11, BulkTrafficPhase DEF vars
<1> QED
  BY <1>1, <1>2, <1>3, <1>4, <1>5, <1>6, <1>7, <1>8, <1>9, <1>10, <1>11, Zenon
  DEF Next, Interrupt

LEMMA AlwaysPhased ==
  ASSUME LengthsFit, Prompt
  PROVE  Spec => [](TInv /\ PInv)
<1>1. Init => PInv
  BY SMT DEF Init, NoTransfer, PInv
<1>2. TInv /\ PInv /\ [Next]_vars => PInv'
  BY PInvStep
<1> QED
  BY <1>1, <1>2, AlwaysTyped, PTL DEF Spec

\* A read past its data stage brought all of its reply that was asked for.
LEMMA WholeWhenOver ==
  ASSUME LengthsFit, TInv, PInv, host.stage \in {"status", "done"}, host.req.kind \in Reads,
         IsRead(host.req)
  PROVE  Whole
<1>1. /\ host \in Host /\ core \in Transfer /\ txPkt \in Sent
  BY DEF TInv, Types
<1>2. ~busReset
  BY SMT DEF PInv
<1>3. CASE Rest
  BY <1>3, SMT DEF Rest, Busy
<1>4. ~Asked /\ ~Refusing /\ ~SendingArmed
  BY SMT DEF Asked, IsRead, Refusing, SendingArmed
<1>5. ~Deaf /\ ~ReceivingArmed /\ ~ReceivingTaken /\ ~WriteEnding
  BY Zenon DEF Deaf, ReceivingArmed, ReceivingTaken, Receiving, WriteEnding
<1>6. CASE ReadEnding
  BY <1>6 DEF ReadEnding
<1>7. CASE SendingTaken
  <2> DEFINE n == txPkt.n
             pos == core.pos
             residue == core.residue
             length == host.req.length
  <2>1. /\ host.moved = pos + n /\ pos + residue = Wanted(host.req)
        /\ n < Mps \/ host.moved >= length
    BY <1>7, SMT DEF SendingTaken, Sending
  <2>2. n = Chunk(residue)
    BY <1>7, SMT DEF SendingTaken, Sending, Packet
  <2>3. pos \in Nat /\ residue \in Nat /\ length \in Nat
    <3>1. length \in Nat
      BY <1>1, HostFields, AskingTyped
    <3> QED
      BY <1>1, <3>1, SizeAssumption, SMT DEF Transfer
  <2>4. n \in 0..residue /\ (n < Mps => residue = n)
    BY <2>2, <2>3, ChunkTaken
  <2>5. Wanted(host.req) <= length
    <3>1. ReplyLen[host.req.kind] \in Nat
      BY SizeAssumption
    <3> QED
      BY <2>3, <3>1, SMT DEF Wanted, ToSend
  <2>6. residue = n
    BY <2>1, <2>3, <2>4, <2>5, SMT
  <2> QED
    BY <2>1, <2>6 DEF Whole
<1> QED
  BY <1>2, <1>3, <1>4, <1>5, <1>6, <1>7, Zenon DEF PInv, Phase

\* What a control read brings: with a host that lets a completion be served before
\* its next SETUP, one it saw to the end brought this request's reply, each byte once
\* and in order, and as much as was asked for, however long requests, replies and
\* packets are, with bus resets and abandoned transfers at any moment.
THEOREM ReadsAreAsAsked ==
  ASSUME LengthsFit, Prompt
  PROVE  Spec => []ReadAsAsked
<1>1. ASSUME TInv, PInv PROVE ReadAsAsked
  <2>1. ASSUME Busy \/ host.stage = "done" PROVE host.good
    <3>1. ~busReset
      BY <1>1, <2>1, SMT DEF PInv, Busy
    <3>2. Rest => host.good
      BY <2>1, Zenon DEF Rest
    <3>3. (\/ Asked \/ Refusing \/ SendingArmed \/ SendingTaken \/ ReadEnding \/ Deaf
           \/ ReceivingArmed \/ ReceivingTaken \/ WriteEnding) => host.good
      BY Zenon DEF Asked, Refusing, SendingArmed, SendingTaken, Sending, ReadEnding, Deaf,
           ReceivingArmed, ReceivingTaken, Receiving, WriteEnding
    <3> QED
      BY <1>1, <3>1, <3>2, <3>3, Zenon DEF PInv, Phase
  <2>2. ASSUME host.stage \in {"status", "done"}, host.req.kind \in Reads, IsRead(host.req)
        PROVE  LET reply == ReplyLen[host.req.kind]
               IN  /\ host.moved <= reply /\ host.moved <= host.req.length
                   /\ host.moved \in {reply, host.req.length}
    <3>1. host.moved = ToSend(ReplyLen[host.req.kind], host.req.length)
      BY <1>1, <2>2, WholeWhenOver DEF Whole, Wanted
    <3>2. ReplyLen[host.req.kind] \in Nat /\ host.req.length \in Nat
      <4>1. host.req \in Asking
        BY <1>1, HostFields DEF TInv, Types
      <4> QED
        BY <2>2, <4>1, AskingTyped, SizeAssumption
    <3> QED
      BY <3>1, <3>2, SMT DEF ToSend
  <2> QED
    BY <2>1, <2>2, Zenon DEF ReadAsAsked
<1>2. TInv /\ PInv => ReadAsAsked
  BY <1>1
<1> QED
  BY <1>2, AlwaysPhased, PTL

\* With such a host a transfer it saw succeed was carried out exactly once, and one it
\* saw refused not at all (but for a reply too long for the buffer): no handler runs
\* before the data are in, twice, or for a transfer of before a bus reset.
THEOREM RequestsCarriedOutOnce ==
  ASSUME LengthsFit, Prompt
  PROVE  Spec => []CarriedOutOnce
<1>1. ASSUME PInv PROVE CarriedOutOnce
  <2>1. ASSUME host.stage \in {"done", "refused"} PROVE ~busReset /\ ~Busy
    BY <1>1, <2>1, SMT DEF PInv, Busy
  <2>2. ASSUME host.stage \in {"done", "refused"} PROVE ~Asked /\ ~Refusing /\ ~SendingArmed /\ ~SendingTaken /\ ~Deaf
                      /\ ~ReceivingArmed /\ ~ReceivingTaken
    BY <2>2, SMT DEF Asked, Refusing, Busy, SendingArmed, SendingTaken, Deaf, ReceivingArmed,
         ReceivingTaken
  <2>3. ReadEnding /\ host.stage \in {"done", "refused"} => host.stage = "done" /\ ~Quiet
    BY SMT DEF ReadEnding, OutWaits, Quiet
  <2>4. WriteEnding /\ host.stage \in {"done", "refused"} => host.stage = "done" /\ ~Quiet
    BY SMT DEF WriteEnding, InWaits, Quiet
  <2>5. ASSUME host.stage = "done", Served PROVE handled = 1
    <3>1. Quiet
      BY <2>5 DEF Served, Quiet
    <3>2. Rest
      BY <1>1, <2>1, <2>2, <2>3, <2>4, <2>5, <3>1, Zenon DEF PInv, Phase
    <3> QED
      BY <2>5, <3>2 DEF Rest
  <2>6. ASSUME host.stage = "refused", ~(IsRead(host.req) /\ host.req.length > BufferLen)
        PROVE  handled = 0
    <3>1. Rest
      BY <1>1, <2>1, <2>2, <2>3, <2>4, <2>6, SMT DEF PInv, Phase
    <3> QED
      BY <2>6, <3>1 DEF Rest, TooBig
  <2> QED
    BY <2>5, <2>6, Zenon DEF CarriedOutOnce
<1>2. TInv /\ PInv => CarriedOutOnce
  BY <1>1
<1> QED
  BY <1>2, AlwaysPhased, PTL
-----------------------------------------------------------------------------
(***************************************************************************)
(* The address.                                                            *)
(***************************************************************************)
\* What an answer does to the device: the address, the speed, the endpoints.
LEMMA AnswersChange ==
  ASSUME LengthsFit, core.holds \in Holding, NEW r \in Asking, NEW d \in Device,
         NEW a \in Answers(r, d)
  PROVE  /\ r.kind # "address" => a.dev.pending = d.pending /\ a.dev.address = d.address
         /\ r.kind = "address" => a.ok /\ a.len = 0 /\ a.dev = SetAddress(d, r.value)
         /\ d.speedKnown => a.dev.speedKnown
         /\ Opened(d) /\ r.kind # "interface" /\ (r.kind = "configuration" => d.speedKnown)
              => Opened(a.dev)
<1> DEFINE Same(e) == /\ e.pending = d.pending /\ e.address = d.address
                      /\ d.speedKnown => e.speedKnown
<1>1. r.kind \in Kinds /\ r.length \in Nat /\ r.value \in Nat
  BY AskingTyped
<1>2. \A len \in Nat, e \in Device : Done(len, e).dev = e /\ Done(len, e).ok /\ Done(len, e).len = len
  BY DoneTyped
<1>3. Refusal(d).dev = d
  BY DoneTyped
<1>4. \A bit \in BOOLEAN, e \in Device : r.kind \in Reads => Reply(r, bit, e).dev = e
  BY ReplyTyped
<1>5. Same(d)
  OBVIOUS
<1>6. CASE r.kind = "device"
  <2> DEFINE e == [d EXCEPT !.speedKnown = TRUE]
  <2>1. a = Reply(r, FALSE, e)
    BY <1>6 DEF Answers, DeviceAnswers, OfDevice
  <2>2. e \in Device
    BY DeviceFieldSet
  <2>3. Same(e) /\ (Opened(d) => Opened(e))
    BY SMT DEF Device, Opened
  <2> HIDE DEF e
  <2>4. a.dev = e
    BY <1>4, <1>6, <2>1, <2>2 DEF Reads
  <2> QED
    BY <1>6, <2>3, <2>4
<1>7. CASE r.kind = "config"
  <2>1. a = Reply(r, FALSE, d) \/ a = Refusal(d)
    BY <1>7 DEF Answers, DeviceAnswers, OfDevice
  <2>2. a.dev = d
    BY <1>3, <1>4, <1>7, <2>1 DEF Reads
  <2> QED
    BY <1>5, <1>7, <2>2
<1>8. CASE r.kind = "address"
  <2> DEFINE e == SetAddress(d, r.value)
  <2>1. a = Done(0, e)
    BY <1>8 DEF Answers, DeviceAnswers, OfDevice
  <2>2. e \in Device
    BY <1>1, DeviceChanges
  <2>3. a.dev = e /\ a.ok /\ a.len = 0
    BY <1>2, <2>1, <2>2
  <2>4. (d.speedKnown => e.speedKnown) /\ (Opened(d) => Opened(e))
    BY SMT DEF Device, SetAddress, Opened
  <2> QED
    BY <1>8, <2>3, <2>4
<1>9. CASE r.kind = "configuration"
  <2>1. a \in ConfigurationAnswers(d, r.value)
    BY <1>9 DEF Answers, DeviceAnswers, OfDevice
  <2>2. \/ a = Refusal(d)
        \/ d.speedKnown /\ a = Done(0, Configured(d, 1))
        \/ a = Done(0, [d EXCEPT !.configuration = 0])
        \/ ~d.speedKnown /\ a = Done(0, [d EXCEPT !.configuration = r.value])
    BY <1>1, <2>1, SMT DEF ConfigurationAnswers
  <2>3. \A c \in Nat : [d EXCEPT !.configuration = c] \in Device /\ Configured(d, c) \in Device
    BY DeviceChanges
  <2>4. ASSUME NEW c \in Nat PROVE Same([d EXCEPT !.configuration = c]) /\ Same(Configured(d, c))
    BY SMT DEF Device, Configured
  <2>5. Opened(Configured(d, 1)) /\ Opened([d EXCEPT !.configuration = 0])
    BY SMT DEF Device, Configured, Opened
  <2>6. CASE a = Refusal(d)
    BY <1>3, <1>5, <1>9, <2>6
  <2>7. CASE d.speedKnown /\ a = Done(0, Configured(d, 1))
    <3>0. Configured(d, 1) \in Device
      BY DeviceChanges
    <3>1. a.dev = Configured(d, 1)
      BY <1>2, <2>7, <3>0
    <3> QED
      BY <1>9, <2>4, <2>5, <3>1
  <2>8. CASE a = Done(0, [d EXCEPT !.configuration = 0])
    <3>1. a.dev = [d EXCEPT !.configuration = 0]
      BY <1>2, <2>3, <2>8
    <3> QED
      BY <1>9, <2>4, <2>5, <3>1
  <2>9. CASE ~d.speedKnown /\ a = Done(0, [d EXCEPT !.configuration = r.value])
    <3>1. a.dev = [d EXCEPT !.configuration = r.value]
      BY <1>1, <1>2, <2>3, <2>9
    <3> QED
      BY <1>1, <1>9, <2>4, <2>9, <3>1
  <2> QED
    BY <2>2, <2>6, <2>7, <2>8, <2>9
<1>10. CASE r.kind = "interface"
  <2>1. a = Done(0, SetInterface(d)) \/ a = Refusal(d)
    BY <1>10 DEF Answers, OfDevice, InterfaceAnswer
  <2>2. SetInterface(d) \in Device
    BY DeviceChanges
  <2>3. Same(SetInterface(d))
    BY SMT DEF Device, SetInterface
  <2>4. a.dev = SetInterface(d) \/ a.dev = d
    BY <1>2, <1>3, <2>1, <2>2
  <2> QED
    BY <1>5, <1>10, <2>3, <2>4
<1>11. CASE r.kind \in {"status", "halt", "resume"}
  <2>1. \/ a = Refusal(d)
        \/ r.kind = "status" /\ a = Reply(r, IsStalled(d.out), d)
        \/ a = Done(0, SetStall(d))
        \/ a = Done(0, ClearStall(d))
    BY <1>11 DEF Answers, OfDevice, EndpointAnswer
  <2>2. IsStalled(d.out) \in BOOLEAN
    BY DEF IsStalled
  <2>3. SetStall(d) \in Device /\ ClearStall(d) \in Device
    BY DeviceChanges
  <2>4. /\ Same(SetStall(d)) /\ Same(ClearStall(d))
        /\ Opened(SetStall(d)) /\ Opened(ClearStall(d))
    BY SMT DEF Device, SetStall, ClearStall, Opened
  <2>5. a.dev = d \/ a.dev = SetStall(d) \/ a.dev = ClearStall(d)
    BY <1>2, <1>3, <1>4, <2>1, <2>2, <2>3 DEF Reads
  <2> QED
    BY <1>5, <1>11, <2>4, <2>5
<1>12. CASE r.kind = "vendor"
  <2>1. a = Done(r.length, d)
    BY <1>12 DEF Answers, OfDevice, VendorAnswer
  <2>2. a.dev = d
    BY <1>1, <1>2, <2>1
  <2> QED
    BY <1>5, <1>12, <2>2
<1>13. CASE r.kind = "unknown"
  <2>1. a = Refusal(d)
    BY <1>13 DEF Answers, OfDevice
  <2> QED
    BY <1>3, <1>5, <1>13, <2>1
<1> QED
  BY <1>1, <1>6, <1>7, <1>8, <1>9, <1>10, <1>11, <1>12, <1>13 DEF Kinds, Reads

\* SET_ADDRESS has no data to read and an address other than 0 (which the code puts in
\* force at once), and the host does not abandon it.
AddressesFit ==
  /\ "address" \notin Abandonable
  /\ \A r \in Requests : r.kind = "address" => ~IsRead(r) /\ r.value > 0

\* In the phases where the interrupt or the host is about to act, Ending is known.
LEMMA EndingPhases ==
  ASSUME PInv, ~busReset
  PROVE  /\ SendingArmed \/ SendingTaken \/ ReadEnding \/ Deaf \/ Refusing \/ Asked
              \/ ReceivingArmed \/ ReceivingTaken => ~Ending
         /\ WriteEnding => Ending
<1>1. (SendingArmed \/ SendingTaken \/ ReadEnding \/ Deaf) => ~Ending
  BY Zenon DEF SendingArmed, SendingTaken, Sending, ReadEnding, Deaf, Ending
<1>2. (Asked \/ ReceivingArmed \/ ReceivingTaken) => ~Ending
  BY SMT DEF Asked, ReceivingArmed, ReceivingTaken, Receiving, Ending
<1>3. Refusing => ~Ending
  BY SMT DEF Refusing, Ending, TooBig
<1>4. WriteEnding => Ending
  BY SMT DEF WriteEnding, Ending, InWaits, Quiet
<1> QED
  BY <1>1, <1>2, <1>3, <1>4

\* A step outside SET_ADDRESS that touches no address.
LEMMA AddressKept ==
  ASSUME AInv, ~busReset, ~busReset', ~(Ending /\ host.req.kind = "address"),
         ~(Ending' /\ host'.req.kind = "address"),
         dev'.pending = dev.pending, dev'.address = dev.address, host'.address = host.address
  PROVE  AInv'
  BY Zenon DEF AInv, Hears

LEMMA HostSetupAddress ==
  ASSUME LengthsFit, Prompt, AddressesFit, TInv, PInv, AInv, NEW r \in Requests, HostSetup(r)
  PROVE  AInv'
<1>1. /\ Served /\ host \in Host /\ ~busReset /\ ~busReset'
      /\ dev' = dev /\ handled' = 0
  BY Zenon DEF HostSetup, TInv, Types, Served
<1>2. host'.address = host.address
  BY <1>1, SMT DEF HostSetup, Host
<1>3. ~(Ending /\ host.req.kind = "address")
  BY <1>1, SMT DEF HostSetup, Ending, Served, Quiet, Busy, GivesUp, AddressesFit
<1>4. ~Ending'
  BY <1>1, SMT DEF Ending
<1> QED
  BY <1>1, <1>2, <1>3, <1>4, AddressKept, Zenon

LEMMA HostInAddress ==
  ASSUME LengthsFit, TInv, PInv, AInv, HostIn
  PROVE  AInv'
<1>1. /\ host \in Host /\ txPkt \in Sent /\ dev' = dev /\ handled' = handled
      /\ UNCHANGED <<busReset, serving, ctrRx>>
  BY Zenon DEF HostIn, TInv, Types
<1>2. ~busReset
  BY HostInFrom
<1>3. CASE SendingArmed
  <2>1. host' = Received(txPkt) /\ IsRead(host.req)
    BY <1>3, SMT DEF SendingArmed, Sending, HostIn
  <2>2. host'.req = host.req /\ host'.address = host.address
    BY <1>1, <2>1, ReceivedTyped
  <2>3. ~Ending /\ ~Ending'
    BY <2>1, <2>2, Zenon DEF Ending
  <2> QED
    BY <1>1, <1>2, <2>2, <2>3, AddressKept, Zenon
<1>4. CASE WriteEnding /\ host.stage = "status"
  <2>1. /\ host' = Acknowledged(txPkt) /\ ctrTx' = TRUE /\ Ending
    BY <1>2, <1>4, EndingPhases, SMT DEF WriteEnding, HostIn
  <2>2. /\ host'.req = host.req /\ host'.stage = "done"
        /\ host'.address = IF host.req.kind = "address" THEN host.req.value ELSE host.address
    BY <1>1, <2>1, AcknowledgedTyped
  <2>3. ~Quiet'
    BY <2>1, SMT DEF Quiet
  <2>4. Ending' /\ host'.stage # "status"
    BY <1>1, <2>1, <2>2, <2>3, SMT DEF Ending
  <2>5. CASE host.req.kind = "address"
    <3>1. dev.pending = host.req.value
      BY <1>2, <2>1, <2>5, Zenon DEF AInv
    <3> QED
      BY <1>1, <1>2, <2>2, <2>4, <2>5, <3>1, Zenon DEF AInv
  <2>6. CASE host.req.kind # "address"
    BY <1>1, <1>2, <2>2, <2>6, AddressKept, Zenon
  <2> QED
    BY <2>5, <2>6
<1>5. CASE Refusing
  <2>1. host' = [host EXCEPT !.stage = "refused"] /\ ~Ending
    BY <1>2, <1>5, EndingPhases, SMT DEF Refusing, HostIn
  <2>2. host'.stage = "refused" /\ host'.address = host.address
    BY <1>1, <2>1, SMT DEF Host
  <2>3. ~Ending'
    BY <2>2, SMT DEF Ending
  <2> QED
    BY <1>1, <1>2, <2>1, <2>2, <2>3, AddressKept, Zenon
<1> QED
  BY <1>3, <1>4, <1>5, HostInFrom

LEMMA HostOutAddress ==
  ASSUME LengthsFit, TInv, PInv, AInv, HostOut
  PROVE  AInv'
<1>1. /\ host \in Host /\ Fits /\ dev' = dev /\ handled' = handled /\ busReset' = busReset
  BY Zenon DEF HostOut, TInv, Types
<1>2. host'.req = host.req /\ host'.address = host.address
  BY <1>1, HostOutTyped
<1>3. ~busReset /\ (ReadEnding \/ ReceivingArmed)
  BY HostOutFrom
<1>4. ~Ending /\ (IsRead(host.req) \/ handled = 0)
  BY <1>3, EndingPhases DEF ReadEnding, ReceivingArmed, Receiving
<1>5. ~Ending'
  BY <1>1, <1>2, <1>4, SMT DEF Ending
<1> QED
  BY <1>1, <1>2, <1>3, <1>4, <1>5, AddressKept, Zenon

LEMMA SilentAddress ==
  ASSUME AInv, PInv,
         \/ Serve
         \/ UNCHANGED vars
         \/ BulkTraffic /\ dev \in Device
  PROVE  AInv'
<1>1. /\ dev'.pending = dev.pending /\ dev'.address = dev.address
      /\ UNCHANGED <<busReset, handled, host>>
  <2>1. CASE Serve \/ UNCHANGED vars
    BY <2>1, Zenon DEF Serve, vars
  <2>2. CASE BulkTraffic /\ dev \in Device
    BY <2>2, SMT DEF BulkTraffic, Device
  <2> QED
    BY <2>1, <2>2
<1>2. Quiet' <=> Quiet
  <2>1. CASE Serve
    <3>1. ~Quiet /\ ~Quiet'
      BY <2>1, SMT DEF Serve, Quiet
    <3> QED
      BY <3>1
  <2>2. CASE UNCHANGED vars \/ BulkTraffic
    <3>1. UNCHANGED <<serving, ctrTx, ctrRx>>
      BY <2>2 DEF vars, BulkTraffic, epVars
    <3> QED
      BY <3>1 DEF Quiet
  <2> QED
    BY <2>1, <2>2
<1>3. Ending' <=> Ending
  BY <1>1, <1>2, Zenon DEF Ending
<1> QED
  BY <1>1, <1>3, Zenon DEF AInv, Hears

LEMMA ServeSetupAddress ==
  ASSUME LengthsFit, AddressesFit, TInv, PInv, AInv, ServeSetup
  PROVE  AInv'
<1> DEFINE r == rxPkt.req
<1>1. /\ serving = "setup" /\ UNCHANGED <<ctrTx, ctrRx, busReset, host>> /\ serving' = "none"
      /\ \/ SetupTooLong \/ SetupReceives
         \/ \E a \in Answers(r, dev) : \/ SetupRefused(a) \/ SetupTooBig(a) \/ SetupReplies(a)
  BY ServeSetupTyped DEF TInv
<1>2. CASE busReset
  BY <1>1, <1>2, Zenon DEF AInv
<1>3. CASE ~busReset
  <2>1. Asked /\ ~Ending
    BY <1>1, <1>3, ServingPhase, EndingPhases
  <2>2. /\ r = host.req /\ handled = 0 /\ host.stage = IF r.length > 0 THEN "data" ELSE "status"
        /\ dev.pending = 0 /\ Hears
    BY <1>3, <2>1, Zenon DEF Asked, AInv
  <2>3. r \in Asking /\ dev \in Device /\ core.holds \in Holding /\ r.length \in Nat
    <3>1. r \in Asking /\ dev \in Device /\ core.holds \in Holding
      BY SMT DEF TInv, Types, Came, Transfer
    <3> QED
      BY <3>1, AskingTyped
  <2>4. CASE SetupTooLong \/ SetupReceives
    <3>1. dev' = dev /\ handled' = handled
      BY <2>4, Zenon DEF SetupTooLong, SetupReceives
    <3>2. ~Ending'
      BY <2>2, <3>1, SMT DEF Ending
    <3> QED
      BY <1>1, <1>3, <2>1, <3>1, <3>2, AddressKept, Zenon
  <2>5. ASSUME NEW a \in Answers(r, dev), SetupAnswered(a),
               SetupRefused(a) \/ SetupTooBig(a) \/ SetupReplies(a)
        PROVE  AInv'
    <3>1. /\ r.kind # "address" => a.dev.pending = dev.pending /\ a.dev.address = dev.address
          /\ r.kind = "address" => a.ok /\ a.len = 0 /\ a.dev = SetAddress(dev, r.value)
      BY <2>3, AnswersChange
    <3>2. dev' = a.dev /\ (a.ok => handled' = 1) /\ ~ReceivesFirst(r)
      BY <2>2, <2>5, SMT DEF SetupAnswered, Carried
    <3>3. CASE r.kind # "address"
      BY <1>1, <1>3, <2>1, <2>2, <3>1, <3>2, <3>3, AddressKept, Zenon
    <3>4. CASE r.kind = "address"
      <4>1. r # NoRequest
        BY <3>4, SMT DEF NoRequest
      <4>2. ~IsRead(r) /\ r.value > 0
        BY <2>3, <3>4, <4>1, Zenon DEF AddressesFit, Asking
      <4>3. r.length = 0
        BY <2>3, <3>2, <4>2, SMT DEF IsRead, ReceivesFirst
      <4>4. handled' = 1 /\ host.stage = "status"
        BY <2>2, <3>1, <3>2, <3>4, <4>3, SMT
      <4>5. Ending'
        BY <1>1, <2>2, <4>2, <4>4, SMT DEF Ending
      <4>6. dev'.pending = r.value /\ dev'.address = dev.address
        <5>1. dev' = SetAddress(dev, r.value)
          BY <3>1, <3>2, <3>4
        <5> QED
          BY <2>3, <4>2, <5>1, SMT DEF SetAddress, Device
      <4> QED
        BY <1>1, <1>3, <2>2, <3>4, <4>4, <4>5, <4>6, SMT DEF AInv, Hears
    <3> QED
      BY <3>3, <3>4
  <2>6. \A a : SetupRefused(a) \/ SetupTooBig(a) \/ SetupReplies(a) => SetupAnswered(a)
    BY Zenon DEF SetupRefused, SetupTooBig, SetupReplies
  <2> QED
    BY <1>1, <2>4, <2>5, <2>6
<1> QED
  BY <1>2, <1>3

LEMMA ServeInAddress ==
  ASSUME LengthsFit, AddressesFit, TInv, PInv, AInv, ServeIn
  PROVE  AInv'
<1>1. /\ serving = "in" /\ serving' = "none" /\ UNCHANGED <<ctrTx, ctrRx, busReset, handled, host>>
      /\ dev' = IF dev.pending > 0 /\ count = 0
                THEN [dev EXCEPT !.address = dev.pending, !.pending = 0] ELSE dev
  BY Zenon DEF ServeIn
<1>2. dev \in Device /\ host \in Host /\ host.req \in Asking
  BY HostFields DEF TInv, Types
<1>3. CASE busReset
  BY <1>1, <1>3, Zenon DEF AInv
<1>4. CASE ~busReset /\ SendingTaken
  <2>1. ~Ending /\ IsRead(host.req)
    BY <1>4, EndingPhases DEF SendingTaken, Sending
  <2>2. dev.pending = 0
    BY <1>4, <2>1, Zenon DEF AInv
  <2>3. dev' = dev
    BY <1>1, <2>2, SMT
  <2>4. ~Ending'
    BY <1>1, <2>1, Zenon DEF Ending
  <2> QED
    BY <1>1, <1>4, <2>1, <2>3, <2>4, AddressKept, Zenon
<1>5. CASE ~busReset /\ WriteEnding /\ host.stage = "done"
  <2>1. Ending /\ InWaits(0)
    BY <1>5, EndingPhases, SMT DEF WriteEnding
  <2>2. ~ctrTx /\ ~ctrRx /\ count = 0
    BY <1>1, <2>1, SMT DEF InWaits
  <2>3. Quiet'
    BY <1>1, <2>2, Zenon DEF Quiet
  <2>4. ~Ending'
    BY <1>1, <1>5, <2>3, SMT DEF Ending
  <2>5. CASE host.req.kind = "address"
    <3>1. dev.pending = host.req.value /\ host.address = host.req.value
      BY <1>5, <2>1, <2>5, Zenon DEF AInv
    <3>2. host.req.value > 0
      <4>1. host.req # NoRequest
        BY <2>5, SMT DEF NoRequest
      <4> QED
        BY <1>2, <2>5, <4>1, Zenon DEF AddressesFit, Asking
    <3>3. dev' = [dev EXCEPT !.address = dev.pending, !.pending = 0]
      BY <1>1, <2>2, <3>1, <3>2, Zenon
    <3>4. dev'.pending = 0 /\ dev'.address = dev.pending
      BY <1>2, <3>3, SMT DEF Device
    <3>5. dev'.pending = 0 /\ Hears'
      BY <1>1, <3>1, <3>4, Zenon DEF Hears
    <3> QED
      BY <1>1, <1>5, <2>4, <3>5, Zenon DEF AInv
  <2>6. CASE host.req.kind # "address"
    <3>1. dev.pending = 0
      BY <1>5, <2>6, Zenon DEF AInv
    <3>2. dev' = dev
      BY <1>1, <3>1, SMT
    <3> QED
      BY <1>1, <1>5, <2>6, <3>2, AddressKept, Zenon
  <2> QED
    BY <2>5, <2>6
<1> QED
  BY <1>1, <1>3, <1>4, <1>5, ServingPhase

LEMMA ServeOutAddress ==
  ASSUME LengthsFit, AddressesFit, TInv, PInv, AInv, ServeOut
  PROVE  AInv'
<1>1. /\ Types /\ core \in Transfer /\ host \in Host /\ dev \in Device
      /\ host.req \in Asking /\ core.holds \in Holding
  BY HostFields, TransferFields DEF TInv, Types
<1>2. /\ serving = "out" /\ serving' = "none"
      /\ UNCHANGED <<ctrTx, ctrRx, busReset, count, host>>
      /\ OutMore \/ (\E a \in Answers(core.setup, dev) : OutLast(a)) \/ OutEmpty
  BY <1>1, ServeOutTyped
<1>3. CASE busReset
  BY <1>2, <1>3, Zenon DEF AInv
<1>4. CASE ~busReset /\ ReadEnding /\ host.stage = "done"
  <2>1. IsRead(host.req) /\ OutWaits(0) /\ outDone = 0
    BY <1>4, SMT DEF ReadEnding
  <2>2. OutBytesIn = 0
    BY <1>2, <2>1, SMT DEF OutWaits, OutBytesIn
  <2>3. dev' = dev
    BY <1>2, <2>2, SMT DEF OutMore, OutLast, OutEmpty
  <2>4. ~Ending /\ ~Ending'
    BY <1>2, <2>1, Zenon DEF Ending
  <2> QED
    BY <1>2, <1>4, <2>3, <2>4, AddressKept, Zenon
<1>5. CASE ~busReset /\ ReceivingTaken
  <2>1. /\ ~IsRead(host.req) /\ core.setup = host.req /\ handled = 0
        /\ outDone = 0 /\ host.moved <= host.req.length
        /\ OutWaits(rxPkt.n) /\ rxPkt.n > 0
        /\ core.residue + host.moved = host.req.length + rxPkt.n
        /\ host.stage = IF host.moved = host.req.length THEN "status" ELSE "data"
    BY <1>5, Zenon DEF ReceivingTaken, Receiving
  <2>2. ~Ending /\ dev.pending = 0 /\ Hears
    BY <1>5, EndingPhases DEF AInv
  <2>3. CASE OutMore \/ OutEmpty
    <3>1. dev' = dev /\ handled' = handled
      BY <2>3, Zenon DEF OutMore, OutEmpty
    <3>2. ~Ending'
      BY <2>1, <3>1, SMT DEF Ending
    <3> QED
      BY <1>2, <1>5, <2>2, <3>1, <3>2, AddressKept, Zenon
  <2>4. ASSUME NEW a \in Answers(core.setup, dev), OutLast(a) PROVE AInv'
    <3>1. /\ host.req.kind # "address" => a.dev.pending = dev.pending /\ a.dev.address = dev.address
          /\ host.req.kind = "address" => a.ok /\ a.dev = SetAddress(dev, host.req.value)
      BY <1>1, <2>1, AnswersChange
    <3>2. dev' = a.dev /\ (a.ok => handled' = 1) /\ OutLeft = 0
      BY <2>1, <2>4, SMT DEF OutLast, Carried
    <3>3. CASE host.req.kind # "address"
      BY <1>2, <1>5, <2>2, <3>1, <3>2, <3>3, AddressKept, Zenon
    <3>4. CASE host.req.kind = "address"
      <4>1. host.req # NoRequest
        BY <3>4, SMT DEF NoRequest
      <4>2. host.req.value > 0 /\ host.req.value \in Nat
        BY <1>1, <3>4, <4>1, AskingTyped DEF AddressesFit, Asking
      <4>3. host.stage = "status"
        <5>1. /\ rxPkt.n \in Nat /\ core.residue \in 0..(Wrap - 1) /\ host.moved \in Nat
          BY <1>1, SizeAssumption, SMT DEF Types, Came, Transfer, Host
        <5>2. host.req.length \in Nat
          BY <1>1, AskingTyped
        <5>3. OutBytesIn = rxPkt.n /\ rxPkt.n \in 0..core.residue
          BY <1>2, <2>1, <5>1, <5>2, SMT DEF OutWaits, OutBytesIn
        <5>4. OutLeft = core.residue - rxPkt.n
          BY <5>1, <5>3, LessExact DEF OutLeft
        <5> QED
          BY <2>1, <3>2, <5>1, <5>2, <5>4, SMT
      <4>4. handled' = 1
        BY <3>1, <3>2, <3>4
      <4>5. Ending'
        BY <1>2, <2>1, <4>3, <4>4, SMT DEF Ending
      <4>6. dev'.pending = host.req.value /\ dev'.address = dev.address
        <5>1. dev' = SetAddress(dev, host.req.value)
          BY <3>1, <3>2, <3>4
        <5> QED
          BY <1>1, <4>2, <5>1, SMT DEF SetAddress, Device
      <4> QED
        BY <1>2, <1>5, <2>2, <3>4, <4>3, <4>5, <4>6, SMT DEF AInv, Hears
    <3> QED
      BY <3>3, <3>4
  <2> QED
    BY <1>2, <2>3, <2>4
<1> QED
  BY <1>2, <1>3, <1>4, <1>5, ServingPhase

LEMMA AInvStep ==
  ASSUME LengthsFit, Prompt, AddressesFit, TInv, PInv, AInv, [Next]_vars
  PROVE  AInv'
<1>1. CASE \E r \in Requests : HostSetup(r)
  BY <1>1, HostSetupAddress
<1>2. CASE HostIn
  BY <1>2, HostInAddress
<1>3. CASE HostOut
  BY <1>3, HostOutAddress
<1>4. CASE BusReset
  <2>1. host'.address = 0 /\ busReset'
    BY <1>4, BusResetTyped DEF TInv, Types, BusReset
  <2> QED
    BY <2>1 DEF AInv
<1>5. CASE BulkTraffic \/ Serve \/ UNCHANGED vars
  BY <1>5, SilentAddress DEF TInv, Types
<1>7. CASE ServeSetup
  BY <1>7, ServeSetupAddress
<1>8. CASE ServeIn
  BY <1>8, ServeInAddress
<1>9. CASE ServeOut
  BY <1>9, ServeOutAddress
<1>10. CASE ServeReset
  <2>1. /\ busReset /\ ~busReset' /\ host' = host /\ dev' = Forgotten(dev) /\ dev \in Device
    BY <1>10, Zenon DEF ServeReset, TInv, Types
  <2>2. dev'.pending = 0 /\ dev'.address = 0
    BY <2>1, SMT DEF Forgotten, Device
  <2>3. host.address = 0 /\ host.stage = "idle"
    BY <2>1, Zenon DEF AInv, PInv
  <2>4. ~Ending'
    BY <2>1, <2>3, SMT DEF Ending
  <2> QED
    BY <2>1, <2>2, <2>3, <2>4, Zenon DEF AInv, Hears
<1> QED
  BY <1>1, <1>2, <1>3, <1>4, <1>5, <1>7, <1>8, <1>9, <1>10, Zenon DEF Next, Interrupt

\* With a host that lets completions be served and does not abandon SET_ADDRESS, the
\* device answers at the address the host uses whenever it is at rest: the pending
\* address comes into force with the status stage of its own transfer and no other.
THEOREM AddressesAgree ==
  ASSUME LengthsFit, Prompt, AddressesFit
  PROVE  Spec => []AddressAgrees
<1>1. Init => AInv
  BY SMT DEF Init, NoTransfer, AInv
<1>2. TInv /\ PInv /\ AInv /\ [Next]_vars => AInv'
  BY AInvStep
<1>3. AInv => AddressAgrees
  <2>1. SUFFICES ASSUME AInv, Served PROVE Hears
    BY DEF AddressAgrees
  <2>2. ~busReset /\ Quiet
    BY <2>1 DEF Served, Quiet
  <2> QED
    BY <2>1, <2>2, Zenon DEF AInv, Ending
<1> QED
  BY <1>1, <1>2, <1>3, AlwaysPhased, PTL DEF Spec
-----------------------------------------------------------------------------
(***************************************************************************)
(* The endpoints.                                                          *)
(***************************************************************************)
\* The host reads the device descriptor before it configures the device, and makes no
\* SET_INTERFACE.
ConfiguresLast == DescriptorFirst /\ \A r \in Requests : r.kind # "interface"

\* A handler that answers the request the host is waiting with keeps CInv.
LEMMA AnsweredConfiguration ==
  ASSUME LengthsFit, ConfiguresLast, TInv, CInv, ~busReset, Busy,
         NEW r, r = host.req, NEW a \in Answers(r, dev), dev' = a.dev,
         UNCHANGED <<busReset, host>>
  PROVE  CInv'
<1>1. host.req \in Asking /\ dev \in Device /\ core.holds \in Holding
  BY HostFields, TransferFields DEF TInv, Types
<1>2. r.kind # "interface"
  <2>1. CASE r = NoRequest
    BY <2>1, SMT DEF NoRequest
  <2>2. CASE r \in Requests
    BY <2>2 DEF ConfiguresLast
  <2> QED
    BY <1>1, <2>1, <2>2 DEF Asking
<1>3. Opened(dev) /\ (r.kind = "configuration" => dev.speedKnown)
  BY DEF CInv
<1>4. (dev.speedKnown => a.dev.speedKnown) /\ Opened(a.dev)
  BY <1>1, <1>2, <1>3, AnswersChange
<1>5. dev'.speedKnown = a.dev.speedKnown /\ Opened(dev')
  BY <1>4
<1> QED
  BY <1>3, <1>4, <1>5, Zenon DEF CInv, Opened, Busy

LEMMA SilentConfiguration ==
  ASSUME CInv, UNCHANGED <<busReset, host>>,
         dev'.configuration = dev.configuration, dev'.out = dev.out,
         dev'.speedKnown = dev.speedKnown
  PROVE  CInv'
  BY Zenon DEF CInv, Opened, Busy

LEMMA CInvStep ==
  ASSUME LengthsFit, Prompt, ConfiguresLast, TInv, PInv, CInv, [Next]_vars
  PROVE  CInv'
<1>0. host \in Host /\ dev \in Device /\ txPkt \in Sent
  BY DEF TInv, Types
<1>1. CASE \E r \in Requests : HostSetup(r)
  <2>1. PICK r \in Requests : HostSetup(r)
    BY <1>1
  <2>2. dev' = dev /\ busReset' = busReset
    BY <2>1, Zenon DEF HostSetup
  <2>3. host'.req = r
    BY <1>0, <2>1, SMT DEF HostSetup, Host
  <2>4. r.kind = "configuration" => dev.speedKnown
    BY <2>1, Zenon DEF HostSetup, MayRequest, ConfiguresLast
  <2> QED
    BY <2>2, <2>3, <2>4, Zenon DEF CInv, Opened
<1>2. CASE HostIn
  <2>1. Busy /\ dev' = dev /\ busReset' = busReset
    BY <1>2, Zenon DEF HostIn
  <2>2. host'.req = host.req
    <3>1. \/ host' = Received(txPkt) \/ host' = Acknowledged(txPkt)
          \/ host' = [host EXCEPT !.stage = "refused"]
      BY <1>2, Zenon DEF HostIn
    <3>2. [host EXCEPT !.stage = "refused"].req = host.req
      BY <1>0, SMT DEF Host
    <3> QED
      BY <1>0, <3>1, <3>2, ReceivedTyped, AcknowledgedTyped
  <2> QED
    BY <2>1, <2>2, Zenon DEF CInv, Opened
<1>3. CASE HostOut
  <2>1. Busy /\ dev' = dev /\ busReset' = busReset
    BY <1>3, Zenon DEF HostOut
  <2>2. host'.req = host.req
    BY <1>0, <1>3, HostOutTyped DEF TInv
  <2> QED
    BY <2>1, <2>2, Zenon DEF CInv, Opened
<1>4. CASE BusReset
  <2>1. busReset'
    BY <1>4 DEF BusReset
  <2> QED
    BY <2>1 DEF CInv
<1>5. CASE BulkTraffic
  <2>1. UNCHANGED <<busReset, host>>
    BY <1>5 DEF BulkTraffic
  <2>2. dev'.speedKnown = dev.speedKnown /\ dev'.out # "dis"
    BY <1>0, <1>5, SMT DEF BulkTraffic, Device
  <2> QED
    BY <2>1, <2>2, Zenon DEF CInv, Opened, Busy
<1>6. CASE Serve \/ UNCHANGED vars
  <2>1. UNCHANGED <<busReset, host, dev>>
    BY <1>6, Zenon DEF Serve, vars
  <2> QED
    BY <2>1, SilentConfiguration
<1>7. CASE ServeSetup
  <2>1. /\ serving = "setup" /\ UNCHANGED <<busReset, host>>
        /\ \/ SetupTooLong \/ SetupReceives
           \/ \E a \in Answers(rxPkt.req, dev) : \/ SetupRefused(a) \/ SetupTooBig(a)
                                                 \/ SetupReplies(a)
    BY <1>7, ServeSetupTyped DEF TInv
  <2>2. CASE busReset
    BY <2>1, <2>2 DEF CInv
  <2>3. CASE ~busReset
    <3>1. Asked
      BY <2>1, <2>3, ServingPhase
    <3>2. rxPkt.req = host.req /\ Busy
      BY <3>1, Zenon DEF Asked, Busy
    <3>3. CASE SetupTooLong \/ SetupReceives
      <4>1. dev' = dev
        BY <3>3, Zenon DEF SetupTooLong, SetupReceives
      <4> QED
        BY <2>1, <4>1, SilentConfiguration
    <3>4. ASSUME NEW a \in Answers(rxPkt.req, dev), SetupRefused(a) \/ SetupTooBig(a) \/ SetupReplies(a)
          PROVE  CInv'
      <4>1. dev' = a.dev
        BY <3>4, Zenon DEF SetupRefused, SetupTooBig, SetupReplies, SetupAnswered, Carried
      <4> QED
        BY <2>1, <2>3, <3>2, <4>1, AnsweredConfiguration
    <3> QED
      BY <2>1, <3>3, <3>4
  <2> QED
    BY <2>2, <2>3
<1>8. CASE ServeIn
  <2> DEFINE d == [dev EXCEPT !.address = dev.pending, !.pending = 0]
  <2>1. UNCHANGED <<busReset, host>> /\ (dev' = d \/ dev' = dev)
    BY <1>8, Zenon DEF ServeIn
  <2>2. d.configuration = dev.configuration /\ d.out = dev.out
    BY <1>0, SMT DEF Device
  <2>3. d.speedKnown = dev.speedKnown
    BY <1>0, SMT DEF Device
  <2> HIDE DEF d
  <2> QED
    BY <2>1, <2>2, <2>3, SilentConfiguration
<1>9. CASE ServeOut
  <2>1. /\ serving = "out" /\ UNCHANGED <<busReset, host>> /\ UNCHANGED <<ctrTx, ctrRx, count>>
        /\ OutMore \/ (\E a \in Answers(core.setup, dev) : OutLast(a)) \/ OutEmpty
    BY <1>9, ServeOutTyped DEF TInv
  <2>2. CASE busReset
    BY <2>1, <2>2 DEF CInv
  <2>3. CASE OutMore \/ OutEmpty
    <3>1. dev' = dev
      BY <2>3, Zenon DEF OutMore, OutEmpty
    <3> QED
      BY <2>1, <3>1, SilentConfiguration
  <2>4. ASSUME ~busReset, NEW a \in Answers(core.setup, dev), OutLast(a) PROVE CInv'
    <3>1. OutBytesIn > 0 /\ dev' = a.dev
      BY <2>4, Zenon DEF OutLast, Carried
    <3>2. ~(ReadEnding /\ host.stage = "done")
      BY <2>1, <3>1, SMT DEF ReadEnding, OutWaits, OutBytesIn
    <3>3. ReceivingTaken
      BY <2>1, <2>4, <3>2, ServingPhase
    <3>4. core.setup = host.req /\ Busy
      BY <3>3, Zenon DEF ReceivingTaken, Receiving, Busy
    <3> QED
      BY <2>1, <2>4, <3>1, <3>4, AnsweredConfiguration
  <2> QED
    BY <2>1, <2>2, <2>3, <2>4
<1>10. CASE ServeReset
  <2>1. busReset /\ host' = host /\ dev' = Forgotten(dev)
    BY <1>10, Zenon DEF ServeReset
  <2>2. dev'.configuration = 0
    BY <1>0, <2>1, SMT DEF Forgotten, Device
  <2>3. ~Busy'
    BY <2>1, SMT DEF PInv, Busy
  <2> QED
    BY <2>2, <2>3, Zenon DEF CInv, Opened
<1> QED
  BY <1>1, <1>2, <1>3, <1>4, <1>5, <1>6, <1>7, <1>8, <1>9, <1>10, Zenon DEF Next, Interrupt

\* With such a host a device that says it is configured has its OUT endpoint open
\* whenever it is at rest: no configuration outlives a bus reset, and none is taken
\* without its descriptor.
THEOREM ConfiguredAlwaysHears ==
  ASSUME LengthsFit, Prompt, ConfiguresLast
  PROVE  Spec => []ConfiguredHears
<1>1. Init => CInv
  BY DEF Init, CInv
<1>2. TInv /\ PInv /\ CInv /\ [Next]_vars => CInv'
  BY CInvStep
<1>3. CInv => ConfiguredHears
  BY DEF CInv, ConfiguredHears, Served, Opened
<1> QED
  BY <1>1, <1>2, <1>3, AlwaysPhased, PTL DEF Spec
=============================================================================

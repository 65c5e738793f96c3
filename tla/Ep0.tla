-------------------------------- MODULE Ep0 ---------------------------------
(***************************************************************************)
(* Control transfers on endpoint 0: the host, the endpoint's registers,    *)
(* the interrupt of the fsdev driver (usb_dc_fsdev.c) and the handlers of  *)
(* the device core (usbd_core.c) that it calls.  The bulk endpoints appear *)
(* with the status control transfers give them; their data is the subject  *)
(* of UsbTx and UsbRx.                                                     *)
(*                                                                         *)
(* Serving a completion takes two steps, since the host goes on meanwhile: *)
(* the interrupt first clears the CTR bit and reads the byte count, then   *)
(* runs the handler and arms the endpoint again.                           *)
(***************************************************************************)
EXTENDS Integers

CONSTANTS Requests,    \* the requests the host makes: see Request
          Mps,         \* USB_CTRL_EP_MPS
          BufferLen,   \* CONFIG_USBDEV_REQUEST_BUFFER_LEN
          ReplyLen,    \* length of the reply to each kind of read
          Wrap,        \* 2^32: ep0_data_buf_residue is a uint32_t
          Prompt,      \* the host lets a completion be served before it sends
                       \* the next SETUP; the firmware does not enforce it
          DescriptorFirst, \* after a bus reset the host reads the device
                       \* descriptor before it configures the device
          Abandonable, \* kinds of request the host may give up half way
          MaxAbandons  \* bound: how often it does

\* The kinds of request: reads of the device and configuration descriptor and of
\* an endpoint's status, SET_ADDRESS, SET_CONFIGURATION, SET_INTERFACE, SET_ and
\* CLEAR_FEATURE(ENDPOINT_HALT), vendor requests and ones the core refuses.
Reads == {"device", "config", "status"}
Kinds == Reads \cup {"address", "configuration", "interface", "halt", "resume",
                     "vendor", "unknown"}

\* bmRequestType's direction, wLength, and wValue or wIndex.
Request == [kind : Kinds, dirIn : BOOLEAN, length : Nat, value : Nat]
NoRequest == [kind |-> "unknown", dirIn |-> FALSE, length |-> 0, value |-> 0]

ASSUME SizeAssumption ==
  /\ Mps \in Nat \ {0} /\ BufferLen \in Nat \ {0} /\ Wrap \in Nat
  /\ ReplyLen \in [Reads -> Nat \ {0}]
ASSUME HostAssumption ==
  /\ Requests \subseteq Request /\ {Prompt, DescriptorFirst} \subseteq BOOLEAN
  /\ Abandonable \subseteq Kinds /\ MaxAbandons \in Nat

VARIABLES
  tx, rx,         \* STAT_TX and STAT_RX of endpoint 0
  ctrTx, ctrRx, isSetup,   \* its CTR_TX, CTR_RX and SETUP bits
  txPkt, rxPkt,   \* its packet memory
  inDone, outDone,         \* actual_xfer_len of in_ep[0] and out_ep[0]
  core,           \* the control transfer in g_usbd_core
  dev,            \* address, configuration and bulk endpoints
  busReset,       \* ISTR.RESET
  serving, count, \* the completion the interrupt is serving, and its byte count
  handled,        \* history: requests carried out since the last SETUP
  host            \* the host's side of the transfer

epVars   == <<tx, rx, ctrTx, ctrRx, isSetup, txPkt, rxPkt>>
doneVars == <<inDone, outDone>>
vars == <<tx, rx, ctrTx, ctrRx, isSetup, txPkt, rxPkt, inDone, outDone, core, dev,
          busReset, serving, count, handled, host>>

Status == {"dis", "nak", "valid", "stall"}
NoAddress == -1   \* DADDR.EF is clear: the device answers nobody

\* A packet: bytes [from, from + n) of a reply.
Packet(of, from, n) == [of |-> of, from |-> from, n |-> n]
Nothing == [kind |-> "none", bit |-> FALSE]

\* The host: "data" and "status" are the stages of a transfer, "done" and
\* "refused" its outcomes.
Stages == {"idle", "data", "status", "done", "refused"}
Busy == host.stage \in {"data", "status"}
NoTransfer == [stage |-> "idle", req |-> NoRequest, moved |-> 0, good |-> TRUE,
               told |-> FALSE, address |-> 0, abandons |-> 0]

\* Nothing waits for the device: no completion, no reset, no handler at work.
Served == serving = "none" /\ ~ctrTx /\ ~ctrRx /\ ~busReset

TypeOK ==
  /\ {tx, rx} \subseteq Status /\ {ctrTx, ctrRx, isSetup, busReset} \subseteq BOOLEAN
  /\ txPkt.n \in 0..Mps /\ rxPkt.n \in 0..Mps /\ rxPkt.req \in Requests \cup {NoRequest}
  /\ inDone \in 0..(2 * Mps) /\ outDone \in 0..(2 * Mps)
  /\ core.setup \in Requests \cup {NoRequest} /\ core.zlp \in BOOLEAN
  /\ core.residue \in 0..(Wrap - 1) /\ core.pos \in Nat
  /\ dev.pending \in Nat /\ dev.address \in Nat \cup {NoAddress}
  /\ dev.configuration \in Nat /\ dev.speedKnown \in BOOLEAN
  /\ {dev.out, dev.in} \subseteq Status
  /\ serving \in {"none", "setup", "out", "in"} /\ count \in 0..Mps
  /\ handled \in 0..2 /\ host.stage \in Stages

\* Plugged in and not yet reset; the host begins with a bus reset.
Init ==
  /\ tx = "dis" /\ rx = "dis" /\ ctrTx = FALSE /\ ctrRx = FALSE /\ isSetup = FALSE
  /\ txPkt = Packet(Nothing, 0, 0) /\ rxPkt = [req |-> NoRequest, n |-> 0]
  /\ inDone = 0 /\ outDone = 0
  /\ core = [setup |-> NoRequest, pos |-> 0, residue |-> 0, zlp |-> FALSE, holds |-> Nothing]
  /\ dev = [pending |-> 0, address |-> NoAddress, configuration |-> 0,
            speedKnown |-> FALSE, out |-> "dis", in |-> "dis"]
  /\ busReset = TRUE /\ serving = "none" /\ count = 0 /\ handled = 0
  /\ host = NoTransfer
-----------------------------------------------------------------------------
(***************************************************************************)
(* usbd_setup_request_handler: what it may answer to request r when the    *)
(* device is in state d.  An answer says whether the request is carried    *)
(* out, the length of the reply, what the buffer then holds, and the state *)
(* the device is in then.                                                  *)
(***************************************************************************)
Refusal(d) == [ok |-> FALSE, len |-> 0, holds |-> core.holds, dev |-> d]
Done(len, d) == [ok |-> TRUE, len |-> len, holds |-> core.holds, dev |-> d]
Reply(r, bit, d) == [Done(ReplyLen[r.kind], d) EXCEPT !.holds = [kind |-> r.kind, bit |-> bit]]

\* usbd_ep_is_stalled tests one of the two status bits; STALL is 01, VALID 11.
IsStalled(status) == status \in {"stall", "valid"}

\* usbd_set_address: address 0 takes effect at once, any other at the end of the
\* status stage.
SetAddressAtOnce(d, a) == [d EXCEPT !.address = a]
SetAddress(d, a) == [d EXCEPT !.pending = a, !.address = IF a = 0 THEN 0 ELSE @]

\* usbd_set_configuration, then the CONFIGURED event, which arms the OUT endpoint.
\* There is one configuration, number 1.  While the speed is unknown there is no
\* descriptor to walk: the code reads what is at address 0, may find anything
\* there, and opens no endpoint.
Configured(d, c) == [d EXCEPT !.configuration = c, !.out = "valid", !.in = "nak"]
ConfigurationAnswers(d, c) ==
  CASE c = 0 -> {Done(0, [d EXCEPT !.configuration = 0])}
    [] c = 1 /\ d.speedKnown -> {Done(0, Configured(d, c))}
    [] c > 1 /\ d.speedKnown -> {Refusal(d)}
    [] OTHER -> {Refusal(d), Done(0, [d EXCEPT !.configuration = c])}

\* usbd_std_device_req_handler
OfDevice == {"device", "config", "address", "configuration"}
DeviceAnswers(r, d) ==
  CASE r.kind = "device" -> {Reply(r, FALSE, [d EXCEPT !.speedKnown = TRUE])}
    [] r.kind = "config" -> {IF d.speedKnown THEN Reply(r, FALSE, d) ELSE Refusal(d)}
    [] r.kind = "address" -> {Done(0, SetAddress(d, r.value))}
    [] r.kind = "configuration" -> ConfigurationAnswers(d, r.value)

\* usbd_set_interface closes the first endpoint of alternate setting 0.
SetInterface(d) == [d EXCEPT !.out = "dis"]
SetStall(d) == [d EXCEPT !.out = "stall"]
ClearStall(d) == [d EXCEPT !.out = "valid"]

\* usbd_std_interface_req_handler and usbd_std_endpoint_req_handler: such requests
\* are valid only in a configuration.
InterfaceAnswer(r, d) ==
  IF d.configuration # 0 /\ r.kind = "interface" THEN Done(0, SetInterface(d)) ELSE Refusal(d)
EndpointAnswer(r, d) ==
  CASE d.configuration = 0 -> Refusal(d)
    [] d.configuration # 0 /\ r.kind = "status" -> Reply(r, IsStalled(d.out), d)
    [] d.configuration # 0 /\ r.kind = "halt" -> Done(0, SetStall(d))
    [] d.configuration # 0 /\ r.kind = "resume" -> Done(0, ClearStall(d))

\* ejtag_vendor_request_handler accepts everything and writes nothing.
VendorAnswer(r, d) == Done(r.length, d)

Answers(r, d) ==
  CASE r.kind \in OfDevice -> DeviceAnswers(r, d)
    [] r.kind = "interface" -> {InterfaceAnswer(r, d)}
    [] r.kind \in {"status", "halt", "resume"} -> {EndpointAnswer(r, d)}
    [] r.kind = "vendor" -> {VendorAnswer(r, d)}
    [] r.kind = "unknown" -> {Refusal(d)}
-----------------------------------------------------------------------------
(***************************************************************************)
(* The host, and what the peripheral does by itself in a transaction.      *)
(***************************************************************************)
Hears == dev.address = host.address

\* Control reads end with an OUT status stage, all other transfers with an IN one.
IsRead(r) == r.dirIn /\ r.length > 0
MayRequest(r) == DescriptorFirst /\ r.kind = "configuration" => dev.speedKnown
GivesUp == Busy /\ host.req.kind \in Abandonable /\ host.abandons < MaxAbandons

\* A SETUP is accepted whatever the endpoint's status, unless the last reception
\* has not been served.  It makes the endpoint NAK in both directions.
HostSetup(r) ==
  /\ Hears /\ ~ctrRx /\ (Prompt => Served)
  /\ ~Busy \/ GivesUp
  /\ MayRequest(r)
  /\ tx' = "nak" /\ rx' = "nak" /\ ctrRx' = TRUE /\ isSetup' = TRUE
  /\ rxPkt' = [req |-> r, n |-> 0]
  /\ host' = [host EXCEPT !.stage = IF r.length > 0 THEN "data" ELSE "status",
                          !.req = r, !.moved = 0, !.good = TRUE,
                          !.abandons = IF Busy THEN @ + 1 ELSE @]
  /\ handled' = 0
  /\ UNCHANGED <<ctrTx, txPkt, doneVars, core, dev, busReset, serving, count>>

\* An IN packet of the data stage: a short one, or the last byte asked for, ends it.
Received(p) ==
  LET moved == host.moved + p.n
  IN  [host EXCEPT
        !.moved = moved, !.told = p.of.bit,
        !.good  = @ /\ p.from = host.moved
                     /\ (host.req.kind \in Reads => p.of.kind = host.req.kind),
        !.stage = IF p.n < Mps \/ moved >= host.req.length THEN "status" ELSE "data"]

\* The status stage of every other transfer; after SET_ADDRESS the host uses the
\* new address.
Acknowledged(p) ==
  [host EXCEPT !.stage = "done", !.good = @ /\ p.n = 0,
               !.address = IF host.req.kind = "address" THEN host.req.value ELSE @]

HostIn ==
  /\ Hears /\ Busy /\ (host.stage = "data" <=> IsRead(host.req))
  /\ \/ /\ tx = "valid" /\ tx' = "nak" /\ ctrTx' = TRUE
        /\ host' = IF host.stage = "data" THEN Received(txPkt) ELSE Acknowledged(txPkt)
     \/ /\ tx = "stall" /\ host' = [host EXCEPT !.stage = "refused"]
        /\ UNCHANGED <<tx, ctrTx>>
  /\ UNCHANGED <<rx, ctrRx, isSetup, txPkt, rxPkt, doneVars, core, dev, busReset,
                 serving, count, handled>>

\* An OUT packet of the data stage, or the empty one that ends a read.  The SETUP
\* bit is frozen while a reception waits to be served.
HostOut ==
  /\ Hears /\ Busy /\ (host.stage = "status" <=> IsRead(host.req))
  /\ rx = "valid" /\ rx' = "nak" /\ ctrRx' = TRUE /\ isSetup' = (isSetup /\ ctrRx)
  /\ LET left == host.req.length - host.moved
         n    == IF host.stage = "status" THEN 0 ELSE IF left < Mps THEN left ELSE Mps
     IN  /\ rxPkt' = [req |-> NoRequest, n |-> n]
         /\ host' = [host EXCEPT !.moved = @ + n,
                       !.stage = IF host.stage = "status" THEN "done"
                                 ELSE IF n = left THEN "status" ELSE "data"]
  /\ UNCHANGED <<tx, ctrTx, txPkt, doneVars, core, dev, busReset, serving, count, handled>>

\* The peripheral disables every endpoint and its address, and keeps CTR.
BusReset ==
  /\ ~busReset /\ busReset' = TRUE /\ tx' = "dis" /\ rx' = "dis"
  /\ dev' = [dev EXCEPT !.address = NoAddress, !.out = "dis", !.in = "dis"]
  /\ host' = [host EXCEPT !.stage = "idle", !.address = 0]
  /\ UNCHANGED <<ctrTx, ctrRx, isSetup, txPkt, rxPkt, doneVars, core, serving, count, handled>>

\* Packets on the bulk endpoints hold the OUT endpoint off, the firmware lets it on.
BulkTraffic ==
  /\ dev.configuration # 0 /\ dev.out \in {"nak", "valid"}
  /\ dev' = [dev EXCEPT !.out = IF @ = "nak" THEN "valid" ELSE "nak"]
  /\ UNCHANGED <<epVars, doneVars, core, busReset, serving, count, handled, host>>
-----------------------------------------------------------------------------
(***************************************************************************)
(* USBD_IRQHandler, endpoint 0.                                            *)
(***************************************************************************)
StartRead == rx' = "valid" /\ outDone' = 0
ChunkAll(n) == n
Chunk(n) == IF n < Mps THEN n ELSE Mps
StartWrite(holds, from, n) ==
  tx' = "valid" /\ txPkt' = Packet(holds, from, Chunk(n)) /\ inDone' = 0
Stall == tx' = "stall" /\ UNCHANGED <<txPkt, inDone>>

\* A pending reception goes before a pending transmission (ISTR.DIR).
Serve ==
  /\ serving = "none" /\ (ctrRx \/ ctrTx)
  /\ \/ /\ ctrRx /\ ctrRx' = FALSE /\ UNCHANGED ctrTx
        /\ serving' = IF isSetup THEN "setup" ELSE "out"
        /\ count' = rxPkt.n
     \/ /\ ~ctrRx /\ ctrTx' = FALSE /\ UNCHANGED ctrRx
        /\ serving' = "in" /\ count' = txPkt.n
  /\ UNCHANGED <<tx, rx, isSetup, txPkt, rxPkt, doneVars, core, dev, busReset, handled, host>>

Carried(a) == dev' = a.dev /\ handled' = IF a.ok THEN (IF handled < 2 THEN handled + 1 ELSE 2) ELSE handled

\* What is sent of a reply, and whether an empty packet must end it.
ToSendAll(len, asked) == len
ToSend(len, asked) == IF len < asked THEN len ELSE asked
ZlpOnMultiple(len, asked) == len > 0 /\ len % Mps = 0
ZlpDue(len, asked) == asked > len /\ len % Mps = 0

\* A request with data from the host is handled when the data are there.
ReceivesFirst(r) == r.length > 0 /\ ~r.dirIn
TooLong(r) == r.length > BufferLen /\ ~r.dirIn

\* usbd_event_ep0_setup_complete_handler
ServeSetup ==
  LET r == rxPkt.req
      fresh == [setup |-> r, pos |-> 0, residue |-> r.length, zlp |-> FALSE, holds |-> core.holds]
  IN
  /\ serving = "setup" /\ serving' = "none"
  /\ \/ /\ TooLong(r)
        /\ core' = [core EXCEPT !.setup = r]
        /\ Stall /\ UNCHANGED <<rx, outDone, dev, handled>>
     \/ /\ ~TooLong(r) /\ ReceivesFirst(r)
        /\ core' = fresh
        /\ StartRead /\ UNCHANGED <<tx, txPkt, inDone, dev, handled>>
     \/ /\ ~TooLong(r) /\ ~ReceivesFirst(r)
        /\ \E a \in Answers(r, dev) :
             LET n == ToSend(a.len, r.length) IN
             /\ Carried(a)
             /\ \/ ~a.ok /\ core' = fresh /\ Stall
                \/ a.ok /\ n > BufferLen /\ core' = [fresh EXCEPT !.residue = n] /\ Stall
                \/ /\ a.ok /\ n <= BufferLen
                   /\ core' = [fresh EXCEPT !.residue = n, !.holds = a.holds,
                                            !.zlp = ZlpDue(a.len, r.length)]
                   /\ StartWrite(a.holds, 0, n)
        /\ UNCHANGED <<rx, outDone>>
  /\ UNCHANGED <<ctrTx, ctrRx, isSetup, rxPkt, busReset, count, host>>

Less(residue, n) == (residue - n) % Wrap

\* usbd_event_ep0_in_complete_handler, and the driver's own steps behind it.  The
\* driver's copy of the SETUP packet is the core's, except between a bus reset and
\* the next SETUP, when nothing is transmitted.
ServeIn ==
  LET n    == inDone + count
      left == Less(core.residue, n)
      pos  == core.pos + n
  IN
  /\ serving = "in" /\ serving' = "none"
  /\ core' = [core EXCEPT !.pos = pos, !.residue = left, !.zlp = @ /\ left # 0]
  /\ \/ left # 0 /\ StartWrite(core.holds, pos, left)
     \/ left = 0 /\ core.zlp /\ StartWrite(core.holds, pos, 0)
     \/ left = 0 /\ ~core.zlp /\ inDone' = n /\ UNCHANGED <<tx, txPkt>>
  /\ \/ (~IsRead(core.setup) \/ (left = 0 /\ ~core.zlp)) /\ StartRead
     \/ IsRead(core.setup) /\ (left # 0 \/ core.zlp) /\ UNCHANGED <<rx, outDone>>
  /\ dev' = IF dev.pending > 0 /\ count = 0
            THEN [dev EXCEPT !.address = dev.pending, !.pending = 0] ELSE dev
  /\ UNCHANGED <<ctrTx, ctrRx, isSetup, rxPkt, busReset, count, handled, host>>

\* usbd_event_ep0_out_complete_handler, and the driver's own step behind it.  An
\* empty packet is the status stage of a read.
EvenEmpty(n) == TRUE
HasData(n) == n > 0
ServeOut ==
  LET n    == outDone + count
      left == Less(core.residue, n)
  IN
  /\ serving = "out" /\ serving' = "none"
  /\ \/ /\ HasData(n) /\ left # 0
        /\ core' = [core EXCEPT !.pos = @ + n, !.residue = left, !.holds = Nothing]
        /\ StartRead /\ UNCHANGED <<tx, txPkt, inDone, dev, handled>>
     \/ /\ HasData(n) /\ left = 0
        /\ core' = [core EXCEPT !.pos = 0, !.residue = 0, !.holds = Nothing]
        /\ \E a \in Answers(core.setup, dev) :
             /\ Carried(a)
             /\ \/ ~a.ok /\ Stall
                \/ a.ok /\ StartWrite(core.holds, 0, 0)
        /\ outDone' = n /\ UNCHANGED rx
     \/ /\ ~HasData(n)
        /\ StartRead /\ UNCHANGED <<core, tx, txPkt, inDone, dev, handled>>
  /\ UNCHANGED <<ctrTx, ctrRx, isSetup, rxPkt, busReset, count, host>>

\* The RESET branch, after the completions: driver state zeroed, then
\* usbd_event_reset_handler.
ForgottenButConfigured(d) == [d EXCEPT !.pending = 0, !.address = 0, !.speedKnown = FALSE]
Forgotten(d) == [d EXCEPT !.pending = 0, !.address = 0, !.configuration = 0, !.speedKnown = FALSE]
ServeReset ==
  /\ busReset /\ serving = "none" /\ ~ctrRx /\ ~ctrTx
  /\ busReset' = FALSE /\ dev' = Forgotten(dev)
  /\ tx' = "nak" /\ rx' = "valid" /\ inDone' = 0 /\ outDone' = 0
  /\ UNCHANGED <<ctrTx, ctrRx, isSetup, txPkt, rxPkt, core, serving, count, handled, host>>

Interrupt == Serve \/ ServeSetup \/ ServeIn \/ ServeOut \/ ServeReset

Next ==
  \/ \E r \in Requests : HostSetup(r)
  \/ HostIn \/ HostOut \/ BusReset \/ BulkTraffic
  \/ Interrupt

\* The processor serves its interrupts; a host asks again after a NAK.
Fairness == WF_vars(Interrupt) /\ WF_vars(HostIn) /\ WF_vars(HostOut)

Spec == Init /\ [][Next]_vars
FairSpec == Spec /\ Fairness
-----------------------------------------------------------------------------
\* A control read the host has seen to the end brought the reply to this very
\* request, each byte once and in order, and as much of it as was asked for
\* (data of one transfer never reach another; no packet too few or too many).
ReadAsAsked ==
  /\ Busy \/ host.stage = "done" => host.good
  /\ host.stage \in {"status", "done"} /\ host.req.kind \in Reads /\ IsRead(host.req) =>
       LET reply == ReplyLen[host.req.kind]
       IN  /\ host.moved <= reply /\ host.moved <= host.req.length
           /\ host.moved \in {reply, host.req.length}

\* A transfer the host saw succeed was carried out exactly once, and one it saw
\* refused not at all: data from the host are in before the request is handled,
\* and no completion served late or twice repeats it.  (A reply too long for the
\* buffer is known to be one when the handler has run: such a read is refused
\* after it was carried out.)
CarriedOutOnce ==
  /\ host.stage = "done" /\ Served => handled = 1
  /\ host.stage = "refused" /\ ~(IsRead(host.req) /\ host.req.length > BufferLen) => handled = 0

\* Whenever the device is at rest it answers at the address the host uses: the
\* new address is in force after the status stage of SET_ADDRESS, not before,
\* and after no other transfer.
AddressAgrees == Served => Hears

\* A device that says it is configured hears the host: its OUT endpoint is open.
ConfiguredHears == Served /\ dev.configuration # 0 => dev.out # "dis"

\* GET_STATUS tells the truth about the endpoint (usb_dc.h: ``Check if the
\* selected endpoint is stalled'').
HaltReported ==
  host.stage = "done" /\ host.req.kind = "status" => (host.told <=> dev.out = "stall")

\* ``A configuration index of 0 unconfigures the device'' (usbd_set_configuration).
UnconfiguredIsDeaf == Served /\ dev.configuration = 0 => dev.out = "dis"

\* Every control transfer ends, well or refused, unless the host drops it: both
\* sides agree on the stage the transfer is in.
TransfersEnd == Busy ~> ~Busy
=============================================================================

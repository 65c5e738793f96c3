--------------------------- MODULE ServiceProofs ---------------------------
(***************************************************************************)
(* Lsejtag keeps every frame and implements Service, for commands that are *)
(* never cut where dispatch loses the frame (see lsejtag_lost_frame), and  *)
(* runs everything exactly once.                                           *)
(***************************************************************************)
EXTENDS LsejtagProofs, FiniteSetTheorems

\* Where a command has a configuration section, a payload of more than two bytes
\* follows, and no packet ends one or two bytes behind the section.
WellCut ==
  \A c \in Commands : ConfigSize(c) > 2 =>
    /\ PayloadSize(c) > 2
    /\ ConfigSize(c) + 1 \notin c.cuts /\ ConfigSize(c) + 2 \notin c.cuts

\* Commands are at most m bytes long, and all the host sends can be counted.
Short(m) == MaxCmds * m < WordMod /\ \A c \in Commands : CommandSize(c) <= m

(***************************************************************************)
(* Where the commands lie in the stream, and how much of it has arrived.   *)
(***************************************************************************)
Laid(m) ==
  /\ Len(stream) <= MaxCmds /\ Sent <= Len(stream) * m
  /\ \A k \in 1..Len(stream) : EndOf(k) = EndOf(k - 1) + CommandSize(stream[k].cmd)
  /\ \A j, k \in 0..Len(stream) : j <= k => EndOf(j) <= EndOf(k)

CutAt(l) ==
  /\ l > 0 /\ EndOf(l - 1) <= arrived
  /\ arrived = EndOf(l - 1) \/ arrived - EndOf(l - 1) \in stream[l].cmd.cuts
Cut == arrived = Sent \/ CutAt(Len(stream))

LEMMA OneMore ==
  ASSUME NEW n \in Nat, NEW m \in Nat
  PROVE  (n + 1) * m = n * m + m /\ n * m \in Nat
  OBVIOUS

\* What Send does to the ends of the commands.
LEMMA SendLays ==
  ASSUME Typed, NEW c \in Commands, Send(c), NEW l, l = Len(stream)
  PROVE  /\ l \in Nat /\ Len(stream') = l + 1 /\ Sent \in Nat /\ EndOf(l) = Sent
         /\ \A k \in 0..l : EndOf(k)' = EndOf(k) /\ EndOf(k) \in Nat
         /\ \A k \in 1..l : stream'[k] = stream[k]
         /\ stream'[l + 1].cmd = c
         /\ EndOf(l + 1)' = Sent + CommandSize(c) /\ Sent' = Sent + CommandSize(c)
         /\ CommandSize(c) \in Nat
<1> DEFINE Element == [cmd : Commands, end : Nat, held : 0..ReadWindow]
           new == [cmd |-> c, end |-> Sent + CommandSize(c), held |-> HeldBack + Collects(c)]
<1>1. stream \in Seq(Element) /\ l \in Nat
  BY DEF Typed, TypeOK
<1>2. stream' = Append(stream, new)
  BY DEF Send
<1>3. /\ Len(stream') = l + 1 /\ stream'[l + 1] = new
      /\ \A k \in 1..l : stream'[k] = stream[k]
  <2> HIDE DEF new, Element
  <2> QED
    BY <1>1, <1>2
<1>4. \A k \in 0..l : EndOf(k)' = EndOf(k)
  <2> SUFFICES ASSUME NEW k \in 0..l PROVE EndOf(k)' = EndOf(k)
    OBVIOUS
  <2>1. CASE k = 0
    BY <2>1 DEF EndOf
  <2>2. CASE k # 0
    <3>1. k \in 1..l
      BY <1>1, <2>2
    <3> QED
      BY <1>3, <2>2, <3>1 DEF EndOf
  <2> QED
    BY <2>1, <2>2
<1>5. EndOf(l + 1)' = Sent + CommandSize(c) /\ Sent' = Sent + CommandSize(c)
  <2>1. l + 1 # 0 /\ new.end = Sent + CommandSize(c)
    BY <1>1
  <2> QED
    BY <1>3, <2>1 DEF EndOf, Sent
<1>6. Sent \in Nat /\ \A k \in 0..l : EndOf(k) \in Nat
  BY SentIsNat DEF Typed
<1>7. CommandSize(c) \in Nat
  BY SizesAreNat
<1>8. stream'[l + 1].cmd = c
  BY <1>3
<1> QED
  BY <1>1, <1>3, <1>4, <1>5, <1>6, <1>7, <1>8 DEF Sent

LEMMA LaidKept ==
  ASSUME NEW m \in Nat, Short(m), Typed, Laid(m),
         UNCHANGED stream \/ \E c \in Commands : Send(c)
  PROVE  Laid(m)'
<1>1. CASE UNCHANGED stream
  BY <1>1 DEF Laid, Sent, EndOf
<1>2. ASSUME NEW c \in Commands, Send(c) PROVE Laid(m)'
  <2>0. PICK l : l = Len(stream)
    OBVIOUS
  <2>1. /\ l \in Nat /\ Len(stream') = l + 1 /\ Sent \in Nat /\ EndOf(l) = Sent
        /\ \A k \in 0..l : EndOf(k)' = EndOf(k) /\ EndOf(k) \in Nat
        /\ \A k \in 1..l : stream'[k] = stream[k]
        /\ stream'[l + 1].cmd = c
        /\ EndOf(l + 1)' = Sent + CommandSize(c) /\ Sent' = Sent + CommandSize(c)
        /\ CommandSize(c) \in Nat
    BY <1>2, <2>0, SendLays
  <2>2. (Len(stream) <= MaxCmds)'
    BY <1>2, <2>0, <2>1, SizeAssumption DEF Send
  <2>3. (Sent <= Len(stream) * m)'
    <3>1. (l + 1) * m = l * m + m /\ l * m \in Nat
      BY <2>1, OneMore
    <3>2. CommandSize(c) <= m /\ Sent <= l * m
      BY <2>0 DEF Short, Laid
    <3> QED
      BY <2>1, <3>1, <3>2
  <2>4. ASSUME NEW k \in 1..(l + 1)
        PROVE  EndOf(k)' = EndOf(k - 1)' + CommandSize(stream'[k].cmd)
    <3>1. CASE k = l + 1
      <4>1. k - 1 = l /\ l \in 0..l
        BY <2>1, <3>1
      <4>2. EndOf(l)' = Sent
        BY <2>1, <4>1
      <4> QED
        BY <2>1, <3>1, <4>1, <4>2
    <3>2. CASE k # l + 1
      <4>1. k \in 1..l /\ k \in 0..l /\ k - 1 \in 0..l
        BY <2>1, <3>2
      <4>2. EndOf(k) = EndOf(k - 1) + CommandSize(stream[k].cmd)
        BY <2>0, <4>1 DEF Laid
      <4> QED
        BY <2>1, <4>1, <4>2
    <3> QED
      BY <3>1, <3>2
  <2>5. ASSUME NEW j \in 0..(l + 1), NEW k \in 0..(l + 1), j <= k
        PROVE  EndOf(j)' <= EndOf(k)'
    <3>1. CASE k # l + 1
      <4>1. j \in 0..l /\ k \in 0..l
        BY <2>1, <2>5, <3>1
      <4>2. EndOf(j) <= EndOf(k)
        BY <2>0, <2>5, <4>1 DEF Laid
      <4> QED
        BY <2>1, <4>1, <4>2
    <3>2. CASE k = l + 1 /\ j = l + 1
      BY <2>1, <3>2
    <3>3. CASE k = l + 1 /\ j # l + 1
      <4>1. j \in 0..l /\ l \in 0..l /\ j <= l
        BY <2>1, <3>3
      <4>2. EndOf(j) <= EndOf(l)
        BY <2>0, <4>1 DEF Laid
      <4>3. EndOf(j)' = EndOf(j) /\ EndOf(j) \in Nat
        BY <2>1, <4>1
      <4> QED
        BY <2>1, <3>3, <4>2, <4>3
    <3> QED
      BY <3>1, <3>2, <3>3
  <2> QED
    BY <2>1, <2>2, <2>3, <2>4, <2>5 DEF Laid
<1> QED
  BY <1>1, <1>2

LEMMA CutKept ==
  ASSUME Typed, Cut,
         \/ UNCHANGED hostVars
         \/ \E c \in Commands : Send(c)
         \/ \E e \in 1..Sent : Arrive(e)
  PROVE  Cut'
<1>1. CASE UNCHANGED hostVars
  BY <1>1 DEF Cut, CutAt, Sent, EndOf, hostVars
<1>2. ASSUME NEW c \in Commands, Send(c) PROVE Cut'
  <2>0. PICK l : l = Len(stream)
    OBVIOUS
  <2>1. /\ l \in Nat /\ Len(stream') = l + 1 /\ Sent \in Nat /\ EndOf(l) = Sent
        /\ \A k \in 0..l : EndOf(k)' = EndOf(k) /\ EndOf(k) \in Nat
    BY <1>2, <2>0, SendLays
  <2>2. arrived' = Sent /\ (l + 1) - 1 = l /\ l + 1 > 0 /\ l \in 0..l
    BY <1>2, <2>1 DEF Send
  <2>3. CutAt(l + 1)'
    BY <2>1, <2>2 DEF CutAt
  <2> QED
    BY <2>1, <2>3 DEF Cut
<1>3. ASSUME NEW e \in 1..Sent, Arrive(e) PROVE Cut'
  <2>0. PICK l : l = Len(stream)
    OBVIOUS
  <2>1. /\ arrived' = e /\ stream' = stream /\ l \in Nat /\ Sent \in Nat
        /\ e = EndOf(l) \/ e - EndOf(l - 1) \in stream[l].cmd.cuts
        /\ arrived < e /\ arrived \in Nat
    BY <1>3, <2>0, SentIsNat DEF Arrive, Typed, TypeOK
  <2>2. l > 0
    <3>1. Sent # 0
      BY <1>3, <2>1
    <3> QED
      BY <2>0, <2>1, <3>1 DEF Sent, EndOf
  <2>3. EndOf(l - 1) \in Nat /\ stream[l].cmd.cuts \subseteq Nat
    <3>1. l - 1 \in 0..l /\ l \in 1..l
      BY <2>1, <2>2
    <3>2. stream[l] \in [cmd : Commands, end : Nat, held : 0..ReadWindow]
      BY <2>0, <3>1, StreamElement DEF Typed
    <3>3. stream[l].cmd \in Command
      BY <3>2, CommandsAssumption
    <3>4. EndOf(l - 1) \in Nat
      BY <2>0, <3>1, SentIsNat DEF Typed
    <3> QED
      BY <3>3, <3>4 DEF Command
  <2>4. EndOf(l - 1)' = EndOf(l - 1) /\ Sent' = EndOf(l)
    BY <2>0, <2>1 DEF EndOf, Sent
  <2>5. CASE e = EndOf(l)
    BY <2>1, <2>4, <2>5 DEF Cut
  <2>6. CASE e - EndOf(l - 1) \in stream[l].cmd.cuts
    <3>1. e - EndOf(l - 1) \in Nat /\ e \in Nat
      BY <1>3, <2>1, <2>3, <2>6
    <3>2. EndOf(l - 1) <= e
      BY <2>3, <3>1
    <3>3. CutAt(l)'
      BY <2>1, <2>2, <2>4, <2>6, <3>2 DEF CutAt
    <3> QED
      BY <2>0, <2>1, <3>3 DEF Cut
  <2> QED
    BY <2>1, <2>5, <2>6
<1> QED
  BY <1>1, <1>2, <1>3
-----------------------------------------------------------------------------
(***************************************************************************)
(* Framing: what FramingIntact says and what it takes to keep it.          *)
(***************************************************************************)
\* Where the configuration section of the current command ends.
ConfigEnd == EndOf(done) + ConfigSize(Current)

Framed ==
  /\ FramingIntact
  /\ state = "wait_header" => buffered = 1
  /\ state = "wait_cfg" => ConfigSize(Current) > 2 /\ buffered \in 2..ConfigSize(Current)
  /\ state = "wait_payload" => Current.op \notin FastWrites
  /\ state = "execute" /\ ~continuation /\ Current.op \in FastWrites => rpos = ConfigEnd
  /\ continuation => buffered <= DataSize(Least(perBlk, xfersLeft))
  /\ EndOf(done) <= arrived

LEMMA ConfigSizes ==
  ASSUME NEW c
  PROVE  /\ ConfigSize(c) \in {2, 4, 6, 8, 10}
         /\ ConfigSize(c) > 2 <=> c.op \in {"irdr", "loopback"} \cup FastWrites
  BY DEF ConfigSize, FastWrites

LEMMA FewAreShort ==
  ASSUME NEW n \in Nat, NEW k \in Nat, NEW m \in Nat, n <= k
  PROVE  n * m <= k * m /\ k * m \in Nat
<1>1. PICK d \in Nat : k = n + d
  <2>1. k - n \in Nat
    OBVIOUS
  <2> QED
    BY <2>1
<1>2. (n + d) * m = n * m + d * m /\ n * m \in Nat /\ d * m \in Nat
  OBVIOUS
<1> QED
  BY <1>1, <1>2

\* The command being assembled or executed, and where it lies.
LEMMA CurrentLies ==
  ASSUME NEW m \in Nat, Short(m), Typed, Laid(m), done < Len(stream)
  PROVE  /\ Current \in Commands /\ ConfigSize(Current) \in Nat /\ PayloadSize(Current) \in Nat
         /\ EndOf(done) \in Nat /\ EndOf(Number) \in Nat
         /\ EndOf(Number) = ConfigEnd + PayloadSize(Current)
         /\ Sent < WordMod /\ Sent \in Nat /\ WordMod \in Nat /\ EndOf(Number) <= Sent
<1>1. /\ done \in Nat /\ Len(stream) \in Nat /\ Number = done + 1 /\ Number - 1 = done
      /\ Number \in 1..Len(stream) /\ Len(stream) \in 0..Len(stream)
      /\ done \in 0..Len(stream) /\ Number \in 0..Len(stream)
  BY DEF Typed, TypeOK, Number
<1>2. EndOf(Number) = EndOf(done) + CommandSize(Current)
  BY <1>1 DEF Laid, Current
<1>3. /\ Current \in Commands /\ ConfigSize(Current) \in Nat /\ PayloadSize(Current) \in Nat
  BY CurrentIsCommand, SizesAreNat DEF Typed
<1>4. EndOf(done) \in Nat /\ EndOf(Number) \in Nat /\ Sent \in Nat
  BY <1>1, SentIsNat DEF Typed
<1>5. EndOf(Number) <= Sent
  BY <1>1 DEF Laid, Sent
<1>6. Sent < WordMod
  <2>1. Len(stream) <= MaxCmds /\ Sent <= Len(stream) * m
    BY DEF Laid
  <2>2. Len(stream) * m <= MaxCmds * m /\ MaxCmds * m \in Nat /\ Len(stream) * m \in Nat
    BY <1>1, <2>1, SizeAssumption, FewAreShort, OneMore
  <2> QED
    BY <1>4, <2>1, <2>2, SizeAssumption DEF Short
<1> QED
  BY <1>1, <1>2, <1>3, <1>4, <1>5, <1>6, SizeAssumption DEF CommandSize, ConfigEnd

\* Never do the bytes that have arrived end one or two bytes behind its
\* configuration section.
LEMMA NeverAwry ==
  ASSUME NEW m \in Nat, Short(m), WellCut, Typed, Laid(m), Cut, done < Len(stream),
         ConfigSize(Current) > 2
  PROVE  arrived # ConfigEnd + 1 /\ arrived # ConfigEnd + 2
<1>1. /\ Current \in Commands /\ ConfigSize(Current) \in Nat /\ PayloadSize(Current) \in Nat
      /\ EndOf(done) \in Nat /\ EndOf(Number) \in Nat /\ ConfigEnd \in Nat
      /\ EndOf(Number) = ConfigEnd + PayloadSize(Current)
      /\ Sent \in Nat /\ EndOf(Number) <= Sent
  BY CurrentLies DEF ConfigEnd
<1>2. PayloadSize(Current) > 2
  BY <1>1 DEF WellCut
<1>3. PICK l \in Nat : l = Len(stream)
  BY DEF Typed, TypeOK
<1>4. arrived \in Nat /\ done \in Nat
  BY DEF Typed, TypeOK
<1>5. CASE arrived = Sent
  BY <1>1, <1>2, <1>5
<1>6. CASE CutAt(l) /\ done = l - 1
  <2>1. stream[l].cmd = Current /\ EndOf(l - 1) = EndOf(done)
    BY <1>3, <1>4, <1>6 DEF Current, Number
  <2>2. arrived = EndOf(done) \/ arrived - EndOf(done) \in Current.cuts
    BY <1>6, <2>1 DEF CutAt
  <2>3. CASE arrived = EndOf(done)
    BY <1>1, <2>3 DEF ConfigEnd
  <2>4. CASE arrived - EndOf(done) \in Current.cuts
    <3>1. /\ arrived - EndOf(done) # ConfigSize(Current) + 1
          /\ arrived - EndOf(done) # ConfigSize(Current) + 2
      BY <1>1, <2>4 DEF WellCut
    <3>2. /\ EndOf(done) \in Nat /\ ConfigSize(Current) \in Nat
          /\ ConfigEnd = EndOf(done) + ConfigSize(Current)
      BY <1>1 DEF ConfigEnd
    <3> QED
      BY <1>4, <3>1, <3>2, SMTT(30)
  <2> QED
    BY <2>2, <2>3, <2>4
<1>7. CASE CutAt(l) /\ done # l - 1
  <2>1. Number \in 0..l /\ l - 1 \in 0..l /\ Number <= l - 1
    BY <1>3, <1>4, <1>7 DEF CutAt, Number
  <2>2. EndOf(Number) <= EndOf(l - 1) /\ EndOf(l - 1) \in Nat
    BY <1>3, <2>1, SentIsNat DEF Laid, Typed
  <2>3. EndOf(l - 1) <= arrived
    BY <1>7 DEF CutAt
  <2> QED
    BY <1>1, <1>2, <1>4, <2>2, <2>3
<1> QED
  BY <1>3, <1>5, <1>6, <1>7 DEF Cut

\* The next command, once the current one is finished.
LEMMA FramedNext ==
  ASSUME Typed, stream' = stream, done' = Number, state' = "clean", ~continuation',
         buffered' = 0, rpos' = EndOf(Number), EndOf(Number) <= arrived'
  PROVE  Framed'
<1>1. EndOf(done)' = EndOf(Number)
  BY DEF EndOf
<1> QED
  BY <1>1 DEF Framed, FramingIntact

\* The same command, at any later moment.
LEMMA SameCommand ==
  ASSUME stream' = stream, done' = done
  PROVE  /\ EndOf(done)' = EndOf(done) /\ EndOf(Number)' = EndOf(Number)
         /\ Current' = Current /\ ConfigEnd' = ConfigEnd /\ Sent' = Sent
<1>1. EndOf(done)' = EndOf(done) /\ EndOf(Number)' = EndOf(Number) /\ Current' = Current
  BY DEF EndOf, Number, Current
<1>2. ConfigSize(Current)' = ConfigSize(Current)
  BY <1>1 DEF ConfigSize
<1> QED
  BY <1>1, <1>2 DEF ConfigEnd, Sent, EndOf

\* The exits of dispatch, at which the last byte taken lies at pos.
LEMMA ReadyFramed ==
  ASSUME UNCHANGED <<stream, arrived, continuation>>, ~continuation, EndOf(done) <= arrived,
         NEW pos, NEW got, Ready(pos, got),
         pos = IF Current.op \in FastWrites THEN ConfigEnd ELSE EndOf(Number)
  PROVE  Framed'
<1>1. /\ done' = done /\ state' = "execute" /\ rpos' = pos
      /\ arrived' = arrived /\ ~continuation'
  BY DEF Ready
<1>2. /\ EndOf(done)' = EndOf(done) /\ EndOf(Number)' = EndOf(Number)
      /\ Current' = Current /\ ConfigEnd' = ConfigEnd
  BY <1>1, SameCommand
<1> QED
  BY <1>1, <1>2 DEF Framed, FramingIntact

LEMMA TakeAll ==
  ASSUME NEW pos \in Nat, NEW n \in Nat, arrived \in Nat
  PROVE  /\ pos + n <= arrived => Take(pos, n) = pos + n
         /\ pos + n >= arrived => Take(pos, n) = arrived
  BY DEF Take, Least

LEMMA PayloadFramed ==
  ASSUME UNCHANGED <<stream, arrived, continuation>>, ~continuation, EndOf(done) <= arrived,
         EndOf(done) \in Nat, arrived \in Nat, Current.op \notin FastWrites,
         NEW got \in Nat, NEW w \in Nat, NEW rx \in Nat, NEW pos \in Nat, pos + rx = arrived,
         pos = EndOf(done) + got, pos + w = EndOf(Number), Payload(pos, rx, got, w)
  PROVE  Framed'
<1>1. CASE rx >= w /\ Ready(Take(pos, w), got + w)
  <2>1. Take(pos, w) = EndOf(Number)
    BY <1>1, TakeAll
  <2> QED
    BY <1>1, <2>1, ReadyFramed
<1>2. CASE /\ rx < w
           /\ rpos' = Take(pos, rx) /\ buffered' = got + rx /\ wait' = w - rx
           /\ state' = "wait_payload" /\ UNCHANGED <<todo, done, halted>>
  <2>1. Take(pos, rx) = arrived
    BY TakeAll
  <2>2. EndOf(done)' = EndOf(done) /\ EndOf(Number)' = EndOf(Number) /\ Current' = Current
    BY <1>2, SameCommand
  <2>3. rpos' = EndOf(done) + buffered' /\ rpos' <= EndOf(Number) /\ rpos' + wait' = EndOf(Number)
    BY <1>2, <2>1
  <2> QED
    BY <1>2, <2>2, <2>3 DEF Framed, FramingIntact
<1> QED
  BY <1>1, <1>2 DEF Payload

LEMMA Within ==
  ASSUME NEW x \in Nat, NEW m \in Nat, x < m
  PROVE  x % m = x
  BY SMTT(30)

\* Config, with the lengths of the current command for a word's differences.
ConfigOf(pos, lenAvail, rx, got, size, missing, w) ==
  \/ Current.op \in {"probe_read", "probe_write"} /\ Payload(pos, rx, got, w)
  \/ Current.op \in {"io", "io_tap", "io_none", "date"} /\ Ready(pos, got)
  \/ /\ Current.op = "unknown"
     /\ rpos' = pos /\ buffered' = 0 /\ state' = "clean"
     /\ done' = Number /\ UNCHANGED <<wait, todo, halted>>
  \/ /\ size > 2 /\ lenAvail > size /\ missing <= rx
     /\ \/ Current.op = "irdr" /\ TooLong(Take(pos, missing), size, w)
        \/ Current.op = "irdr" /\ Payload(Take(pos, missing), rx - missing, size, w)
        \/ Current.op = "loopback" /\ Ready(Take(pos, missing), got)
        \/ Current.op \in FastWrites /\ Ready(Take(pos, missing), size)
  \/ /\ size > 2 /\ ~(lenAvail > size)
     /\ rpos' = Take(pos, rx) /\ buffered' = got + rx /\ state' = "wait_cfg"
     /\ UNCHANGED <<wait, todo, done, halted>>

LEMMA ConfigLengths ==
  ASSUME NEW size \in Nat, NEW got \in Nat, NEW missing \in Nat, NEW rx \in Nat, NEW pos \in Nat,
         NEW lenAvail, NEW w, size = ConfigSize(Current), size = got + missing,
         w = PayloadSize(Current),
         size < WordMod, rx < WordMod, WordMod \in Nat,
         lenAvail > size => missing <= rx,
         Config(pos, lenAvail, rx, got)
  PROVE  ConfigOf(pos, lenAvail, rx, got, size, missing, w)
<1>1. (ConfigSize(Current) - got) % WordMod = missing
  <2>1. ConfigSize(Current) - got = missing /\ missing < WordMod
    OBVIOUS
  <2> QED
    BY <2>1, Within
<1>2. (got + missing) % WordMod = size
  BY Within
<1>3. missing <= rx => (rx - missing) % WordMod = rx - missing
  <2>1. SUFFICES ASSUME missing <= rx PROVE (rx - missing) % WordMod = rx - missing
    OBVIOUS
  <2>2. rx - missing \in Nat /\ rx - missing < WordMod
    BY <2>1
  <2> QED
    BY <2>2, Within
<1> QED
  BY <1>1, <1>2, <1>3 DEF Config, ConfigOf

LEMMA Sums ==
  ASSUME NEW x \in Nat, NEW y \in Nat, NEW z \in Nat
  PROVE  x + (y + z) = (x + y) + z
  OBVIOUS

LEMMA Ahead ==
  ASSUME NEW from \in Nat, NEW b \in Nat, NEW size \in Nat, NEW w \in Nat, b <= size
  PROVE  from + b <= from + size + w
  OBVIOUS

\* From label wait_cfg on.
LEMMA ConfigFramed ==
  ASSUME NEW m \in Nat, Short(m), WellCut, Typed, Laid(m), Cut, done < Len(stream),
         UNCHANGED <<stream, arrived, continuation>>, ~continuation, EndOf(done) <= arrived,
         NEW pos \in Nat, NEW lenAvail \in Nat, NEW rx \in Nat, NEW got \in Nat,
         pos + rx = arrived, pos = EndOf(done) + got,
         got = 2 \/ (ConfigSize(Current) > 2 /\ got \in 2..ConfigSize(Current)),
         lenAvail = got + rx \/ (got = 2 /\ lenAvail \in {rx, rx + 1}),
         Config(pos, lenAvail, rx, got)
  PROVE  Framed'
<1>1. PICK size \in Nat : size = ConfigSize(Current)
  BY ConfigSizes
<1>2. PICK w \in Nat : w = PayloadSize(Current)
  BY CurrentLies
<1>3. PICK from \in Nat : from = EndOf(done)
  BY CurrentLies
<1>4. /\ EndOf(Number) = from + size + w /\ ConfigEnd = from + size
      /\ Sent < WordMod /\ Sent \in Nat /\ WordMod \in Nat /\ EndOf(Number) <= Sent
  BY <1>1, <1>2, <1>3, CurrentLies DEF ConfigEnd
<1>5. arrived \in Nat /\ arrived <= Sent
  BY DEF Typed, TypeOK, Behind
<1>6. size \in {2, 4, 6, 8, 10} /\ got >= 2 /\ got <= size
  BY <1>1, ConfigSizes
<1>7. PICK missing \in Nat : size = got + missing
  <2>1. size - got \in Nat /\ size = got + (size - got)
    BY <1>6
  <2> QED
    BY <2>1
<1>8. /\ size < WordMod /\ rx < WordMod
      /\ lenAvail > size => missing <= rx
      /\ pos + missing = ConfigEnd
  <2>1. size < WordMod
    <3>1. size <= EndOf(Number) /\ EndOf(Number) \in Nat
      BY <1>4
    <3> QED
      BY <1>4, <3>1
  <2>2. rx < WordMod
    BY <1>4, <1>5
  <2>3. lenAvail > size => missing <= rx
    BY <1>7
  <2>4. pos + missing = ConfigEnd
    BY <1>3, <1>4, <1>7
  <2> QED
    BY <2>1, <2>2, <2>3, <2>4
<1>9. ConfigOf(pos, lenAvail, rx, got, size, missing, w)
  <2>1. size < WordMod /\ rx < WordMod /\ WordMod \in Nat /\ (lenAvail > size => missing <= rx)
    BY <1>4, <1>8
  <2> QED
    BY <1>1, <1>2, <1>7, <2>1, ConfigLengths, ZenonT(30)
<1>10. CASE Current.op \in {"probe_read", "probe_write"} /\ Payload(pos, rx, got, w)
  <2>1. size = 2 /\ Current.op \notin FastWrites
    BY <1>1, <1>10 DEF FastWrites, ConfigSize
  <2>2. pos + w = EndOf(Number)
    BY <1>3, <1>4, <1>6, <2>1
  <2> QED
    BY <1>3, <1>5, <1>10, <2>1, <2>2, PayloadFramed
<1>11. CASE Current.op \in {"io", "io_tap", "io_none", "date"} /\ Ready(pos, got)
  <2>1. size = 2 /\ w = 0 /\ Current.op \notin FastWrites
    BY <1>1, <1>2, <1>11 DEF FastWrites, ConfigSize, PayloadSize
  <2>2. pos = EndOf(Number)
    BY <1>3, <1>4, <1>6, <2>1
  <2> QED
    BY <1>11, <2>1, <2>2, ReadyFramed
<1>12. CASE /\ Current.op = "unknown"
            /\ rpos' = pos /\ buffered' = 0 /\ state' = "clean"
            /\ done' = Number /\ UNCHANGED <<wait, todo, halted>>
  <2>1. size = 2 /\ w = 0
    BY <1>1, <1>2, <1>12 DEF FastWrites, ConfigSize, PayloadSize
  <2>2. pos = EndOf(Number) /\ EndOf(Number) <= arrived'
    BY <1>3, <1>4, <1>6, <2>1
  <2> QED
    BY <1>12, <2>2, FramedNext
<1>13. ASSUME missing <= rx
       PROVE  Take(pos, missing) = ConfigEnd
  <2>1. pos + missing <= arrived
    BY <1>5, <1>13
  <2> QED
    BY <1>5, <1>8, <2>1, TakeAll
<1>14. CASE missing <= rx /\ Current.op = "irdr" /\ TooLong(Take(pos, missing), size, w)
  <2>1. /\ rpos' = ConfigEnd /\ buffered' = size /\ wait' = w
        /\ state' = "wait_payload" /\ done' = done
    BY <1>13, <1>14 DEF TooLong
  <2>2. EndOf(done)' = EndOf(done) /\ EndOf(Number)' = EndOf(Number) /\ Current' = Current
    BY <2>1, SameCommand
  <2>3. rpos' = EndOf(done) + buffered' /\ rpos' <= EndOf(Number) /\ rpos' + wait' = EndOf(Number)
    BY <1>3, <1>4, <2>1
  <2>4. Current'.op \notin FastWrites /\ EndOf(done)' <= arrived' /\ ~continuation'
    BY <1>14, <2>2 DEF FastWrites
  <2> QED
    BY <2>1, <2>2, <2>3, <2>4 DEF Framed, FramingIntact
<1>15. CASE /\ missing <= rx /\ Current.op = "irdr"
            /\ Payload(Take(pos, missing), rx - missing, size, w)
  <2>1. PICK r \in Nat : r = rx - missing /\ rx = missing + r
    <3>1. rx - missing \in Nat /\ rx = missing + (rx - missing)
      BY <1>15
    <3> QED
      BY <3>1
  <2>2. Payload(ConfigEnd, r, size, w)
    BY <1>13, <1>15, <2>1
  <2>3. ConfigEnd + r = arrived /\ ConfigEnd \in Nat /\ ConfigEnd = EndOf(done) + size
    <3>1. ConfigEnd = EndOf(done) + size /\ ConfigEnd \in Nat
      <4>1. ConfigEnd = from + size
        BY <1>4
      <4>2. from + size \in Nat
        OBVIOUS
      <4> QED
        BY <1>3, <4>1, <4>2
    <3>3. pos + missing + r = arrived
      BY <2>1, Sums
    <3>4. ConfigEnd + r = arrived
      BY <1>8, <3>3
    <3> QED
      BY <3>1, <3>4
  <2>4. ConfigEnd + w = EndOf(Number) /\ Current.op \notin FastWrites
    BY <1>4, <1>15 DEF FastWrites
  <2> QED
    BY <1>3, <1>5, <2>2, <2>3, <2>4, PayloadFramed
<1>16. CASE size > 2 /\ Current.op = "loopback" /\ Ready(Take(pos, missing), got)
  <2>1. PayloadSize(Current) = 0 /\ Current \in Commands /\ ConfigSize(Current) > 2
    BY <1>1, <1>16, CurrentLies DEF PayloadSize, FastWrites
  <2> QED
    BY <2>1 DEF WellCut
<1>17. CASE missing <= rx /\ Current.op \in FastWrites /\ Ready(Take(pos, missing), size)
  BY <1>13, <1>17, ReadyFramed
<1>18. CASE /\ size > 2 /\ ~(lenAvail > size)
            /\ rpos' = Take(pos, rx) /\ buffered' = got + rx /\ state' = "wait_cfg"
            /\ UNCHANGED <<wait, todo, done, halted>>
  <2>1. Take(pos, rx) = arrived
    BY <1>5, TakeAll
  <2>2. arrived # from + size + 1 /\ arrived # from + size + 2
    BY <1>1, <1>4, <1>18, NeverAwry
  <2>3. lenAvail <= size /\ arrived = from + got + rx
    BY <1>3, <1>18
  <2>4. got + rx \in 2..size
    BY <1>5, <1>6, <2>2, <2>3
  <2>5. /\ EndOf(done)' = from /\ EndOf(Number)' = EndOf(Number)
        /\ ConfigSize(Current)' = size /\ ConfigSize(Current') = size
    BY <1>1, <1>3, <1>18, SameCommand DEF ConfigSize
  <2>6. rpos' = from + buffered' /\ rpos' <= EndOf(Number)
    <3>1. rpos' = from + buffered'
      BY <1>18, <2>1, <2>3
    <3>2. PICK b \in Nat : b = buffered' /\ b <= size
      BY <1>18, <2>4
    <3>3. from + b <= EndOf(Number)
      <4>1. EndOf(Number) = from + size + w
        BY <1>4
      <4>2. from + b <= from + size + w
        BY <3>2, Ahead
      <4> QED
        BY <4>1, <4>2
    <3> QED
      BY <3>1, <3>2, <3>3
  <2>7. buffered' \in 2..size /\ state' = "wait_cfg" /\ from <= arrived' /\ ~continuation'
    BY <1>3, <1>18, <2>4
  <2> QED
    BY <1>18, <2>5, <2>6, <2>7 DEF Framed, FramingIntact
<1> QED
  BY <1>9, <1>10, <1>11, <1>12, <1>14, <1>15, <1>16, <1>17, <1>18 DEF ConfigOf

LEMMA FetchFramed ==
  ASSUME NEW m \in Nat, Short(m), WellCut, Typed, Orderly, Laid(m), Cut, Framed, Fetch
  PROVE  Framed'
<1>1. PICK rx \in Nat : rx = arrived - rpos
  BY DEF Typed, TypeOK
<1>2. /\ arrived = rpos + rx /\ arrived \in Nat /\ rpos \in Nat /\ buffered \in Nat
      /\ wait \in Nat /\ done \in Nat
  BY <1>1 DEF Typed, TypeOK
<1>3. /\ UNCHANGED <<stream, arrived, continuation, xfersLeft, perBlk>>
      /\ EndOf(done) <= arrived
  BY DEF Fetch, hostVars, contVars, Framed
<1>4. state # "execute" => ~continuation
  BY DEF Orderly
<1>5. rx > 0 \/ state # "clean" => done < Len(stream)
  <2>1. state # "clean" => done < Len(stream)
    BY DEF Typed, Behind
  <2>2. SUFFICES ASSUME rx > 0, state = "clean" PROVE done # Len(stream)
    BY <2>1 DEF Typed, Behind, TypeOK
  <2>3. rpos = EndOf(done) /\ arrived <= EndOf(Len(stream))
    BY <2>2 DEF Fetch, InFrame, Typed, Behind, Sent
  <2> QED
    BY <1>2, <2>2, <2>3, SentIsNat DEF Typed, Sent
<1>6. CASE /\ state = "clean" /\ rx = 1
           /\ rpos' = rpos + 1 /\ buffered' = 1 /\ state' = "wait_header"
           /\ UNCHANGED <<wait, todo, done, halted>>
  <2>1. /\ done < Len(stream) /\ ~continuation'
        /\ EndOf(done)' = EndOf(done) /\ EndOf(Number)' = EndOf(Number)
    BY <1>3, <1>4, <1>5, <1>6, SameCommand
  <2>2. EndOf(done) + 2 <= EndOf(Number) /\ EndOf(done) \in Nat
    <3>1. PICK size \in Nat : size = ConfigSize(Current) /\ size >= 2
      BY ConfigSizes
    <3>2. PICK w \in Nat : w = PayloadSize(Current)
      BY <2>1, CurrentLies
    <3> QED
      BY <2>1, <3>1, <3>2, CurrentLies DEF ConfigEnd
  <2>3. rpos' = EndOf(done) + 1 /\ rpos' <= EndOf(Number)
    BY <1>6, <2>1, <2>2, CurrentLies DEF Framed, FramingIntact
  <2> QED
    BY <1>3, <1>6, <2>1, <2>3 DEF Framed, FramingIntact
<1>7. CASE state = "clean" /\ rx > 1 /\ Config(rpos + 2, rx + buffered - 2, rx - 2, 2)
  <2>1. buffered = 0 /\ rpos = EndOf(done) /\ done < Len(stream) /\ ~continuation
    BY <1>4, <1>5, <1>7 DEF Framed, FramingIntact
  <2>2. PICK r \in Nat : rx = r + 2
    <3>1. rx - 2 \in Nat /\ rx = (rx - 2) + 2
      BY <1>7
    <3> QED
      BY <3>1
  <2>3. rx + buffered - 2 = r /\ rx - 2 = r
    BY <2>1, <2>2
  <2>4. Config(rpos + 2, r, r, 2)
    BY <1>7, <2>3
  <2>5. PICK pos \in Nat : pos = rpos + 2
    BY <1>2
  <2>6. pos + r = arrived /\ pos = EndOf(done) + 2
    BY <1>2, <2>1, <2>2, <2>5
  <2> QED
    BY <1>3, <2>1, <2>4, <2>5, <2>6, ConfigFramed
<1>8. CASE state = "wait_header" /\ rx > 0 /\ Config(rpos + 1, rx + buffered - 1, rx - 1, 2)
  <2>1. buffered = 1 /\ rpos = EndOf(done) + buffered /\ done < Len(stream) /\ ~continuation
    BY <1>4, <1>5, <1>8 DEF Framed, FramingIntact
  <2>2. PICK r \in Nat : rx = r + 1
    <3>1. rx - 1 \in Nat /\ rx = (rx - 1) + 1
      BY <1>8
    <3> QED
      BY <3>1
  <2>3. rx + buffered - 1 = r + 1 /\ rx - 1 = r
    BY <2>1, <2>2
  <2>4. Config(rpos + 1, r + 1, r, 2)
    BY <1>8, <2>3
  <2>5. PICK pos \in Nat : pos = rpos + 1
    BY <1>2
  <2>6. pos + r = arrived /\ pos = EndOf(done) + 2
    <3>1. EndOf(done) \in Nat
      BY <2>1, CurrentLies
    <3>2. rpos = EndOf(done) + 1 /\ rpos + (r + 1) = arrived
      BY <1>2, <2>1, <2>2
    <3> QED
      BY <1>2, <2>5, <3>1, <3>2, SMTT(30)
  <2> QED
    BY <1>3, <2>1, <2>4, <2>5, <2>6, ConfigFramed
<1>9. CASE state = "wait_cfg" /\ Config(rpos, rx + buffered, rx, buffered)
  <2>1. /\ rpos = EndOf(done) + buffered /\ done < Len(stream) /\ ~continuation
        /\ ConfigSize(Current) > 2 /\ buffered \in 2..ConfigSize(Current)
    BY <1>4, <1>5, <1>9 DEF Framed, FramingIntact
  <2>2. Config(rpos, buffered + rx, rx, buffered)
    <3>1. rx + buffered = buffered + rx
      BY <1>2
    <3> QED
      BY <1>9, <3>1
  <2>3. rpos + rx = arrived /\ buffered + rx \in Nat
    BY <1>2
  <2> QED
    BY <1>2, <1>3, <2>1, <2>2, <2>3, ConfigFramed
<1>10. CASE state = "wait_payload" /\ Payload(rpos, rx, buffered, wait)
  <2>1. /\ rpos = EndOf(done) + buffered /\ done < Len(stream) /\ ~continuation
        /\ rpos + wait = EndOf(Number) /\ Current.op \notin FastWrites
    BY <1>4, <1>5, <1>10 DEF Framed, FramingIntact
  <2>2. EndOf(done) \in Nat /\ rpos + rx = arrived
    BY <1>2, <2>1, CurrentLies
  <2> QED
    BY <1>2, <1>3, <1>10, <2>1, <2>2, PayloadFramed
<1>11. CASE /\ state = "execute" /\ todo' = "execute"
            /\ UNCHANGED <<rpos, buffered, wait, state, done, halted>>
  <2>1. /\ EndOf(done)' = EndOf(done) /\ EndOf(Number)' = EndOf(Number)
        /\ Current' = Current /\ ConfigEnd' = ConfigEnd
    BY <1>3, <1>11, SameCommand
  <2> QED
    BY <1>3, <1>11, <2>1 DEF Framed, FramingIntact, DataSize
<1> QED
  BY <1>1, <1>6, <1>7, <1>8, <1>9, <1>10, <1>11 DEF Fetch

\* Steps that leave the command being assembled or executed as it is.
LEMMA StillFramed ==
  ASSUME Typed, Orderly, Framed, arrived' \in Nat, arrived <= arrived',
         UNCHANGED stream \/ \E c \in Commands : Send(c),
         UNCHANGED <<rpos, state, buffered, wait, done, continuation, xfersLeft, perBlk>>
  PROVE  Framed'
<1>1. arrived \in Nat /\ done \in Nat /\ done <= Len(stream) /\ Len(stream) \in Nat
  BY DEF Typed, TypeOK, Behind
<1>2. EndOf(done)' = EndOf(done)
  <2>1. CASE UNCHANGED stream
    BY <2>1 DEF EndOf
  <2>2. ASSUME NEW c \in Commands, Send(c) PROVE EndOf(done)' = EndOf(done)
    <3>1. done \in 0..Len(stream)
      BY <1>1
    <3>2. \A k \in 0..Len(stream) : EndOf(k)' = EndOf(k)
      BY <2>2, SendLays
    <3>3. EndOf(done)' = IF done' = 0 THEN 0 ELSE stream'[done'].end
      BY DEF EndOf
    <3> QED
      BY <3>1, <3>2, <3>3 DEF EndOf
  <2> QED
    BY <2>1, <2>2
<1>3. EndOf(done) <= arrived'
  <2>1. EndOf(done) \in Nat
    BY <1>1, SentIsNat DEF Typed
  <2> QED
    BY <1>1, <2>1 DEF Framed
<1>4. CASE state = "clean"
  <2>1. ~continuation
    BY <1>4 DEF Orderly
  <2> QED
    BY <1>2, <1>3, <1>4, <2>1 DEF Framed, FramingIntact
<1>5. CASE state # "clean"
  <2>1. done < Len(stream)
    BY <1>5 DEF Typed, Behind
  <2>2. Current' = Current
    BY <2>1, CurrentKept
  <2>3. EndOf(Number)' = EndOf(Number)
    <3>1. CASE UNCHANGED stream
      BY <3>1 DEF EndOf, Number
    <3>2. ASSUME NEW c \in Commands, Send(c) PROVE EndOf(Number)' = EndOf(Number)
      <4>1. Number \in 0..Len(stream) /\ Number' = Number
        BY <1>1, <2>1 DEF Number
      <4>2. \A k \in 0..Len(stream) : EndOf(k)' = EndOf(k)
        BY <3>2, SendLays
      <4> QED
        BY <4>1, <4>2 DEF EndOf
    <3> QED
      BY <3>1, <3>2
  <2>4. ConfigSize(Current)' = ConfigSize(Current) /\ ConfigEnd' = ConfigEnd
    BY <1>2, <2>2 DEF ConfigSize, ConfigEnd
  <2> QED
    BY <1>2, <1>3, <1>5, <2>2, <2>3, <2>4 DEF Framed, FramingIntact, DataSize
<1> QED
  BY <1>4, <1>5

LEMMA ReplyFramed ==
  ASSUME Typed, Orderly, Framed,
         DirectReply \/ Settle \/ TapReset \/ NothingDone \/ IrDrWrite
  PROVE  Framed'
<1>1. /\ UNCHANGED <<hostVars, rpos, contVars>> /\ state = "execute" /\ ~continuation
      /\ Current.op \notin FastWrites
      /\ CommandDone \/ UNCHANGED cmdVars
  BY DEF DirectReply, Settle, TapReset, NothingDone, IrDrWrite, Executing, FastWrites
<1>2. arrived \in Nat /\ rpos <= arrived
  BY DEF Typed, TypeOK
<1>3. CASE UNCHANGED cmdVars
  BY <1>1, <1>2, <1>3, StillFramed DEF hostVars, contVars, cmdVars
<1>4. CASE CommandDone
  <2>1. rpos = EndOf(Number)
    BY <1>1 DEF Framed, FramingIntact
  <2> QED
    BY <1>1, <1>2, <1>4, <2>1, FramedNext DEF hostVars, contVars, CommandDone
<1> QED
  BY <1>1, <1>3, <1>4

LEMMA FastWriteFramed ==
  ASSUME NEW m \in Nat, Short(m), Typed, Orderly, Laid(m), Framed, FastWrite
  PROVE  Framed'
<1>1. /\ UNCHANGED <<hostVars, rpos, state, wait, done>> /\ state = "execute" /\ ~continuation
      /\ Current.op \in FastWrites /\ perBlk' = PerBlock(Current)
      /\ \/ buffered' = 0 /\ xfersLeft' = Current.n /\ continuation' = TRUE
         \/ UNCHANGED <<buffered, xfersLeft, continuation>>
  BY DEF FastWrite, Executing
<1>2. done < Len(stream) /\ UNCHANGED <<stream, arrived, done>>
  BY <1>1 DEF Typed, Behind, hostVars
<1>3. /\ EndOf(done)' = EndOf(done) /\ EndOf(Number)' = EndOf(Number)
      /\ Current' = Current /\ ConfigEnd' = ConfigEnd
  BY <1>2, SameCommand
<1>4. rpos = ConfigEnd
  BY <1>1 DEF Framed
<1>5. CASE UNCHANGED <<buffered, xfersLeft, continuation>>
  BY <1>1, <1>2, <1>3, <1>4, <1>5 DEF Framed, FramingIntact
<1>6. CASE buffered' = 0 /\ xfersLeft' = Current.n /\ continuation' = TRUE
  <2>1. Current \in Commands /\ Current \in Command
    BY <1>2, CurrentLies, CommandsAssumption
  <2>2. Current.w \in Nat /\ Current.n \in Nat
    BY <2>1 DEF Command
  <2>3. PICK w \in Nat : w = 4 * Current.w * Current.n
    <3>1. 4 * Current.w \in Nat
      BY <2>2
    <3> QED
      BY <2>2, <3>1, ProductIsNat
  <2>4. PayloadSize(Current) = w
    BY <1>1, <2>3 DEF PayloadSize, FastWrites
  <2>5. EndOf(Number) = rpos + w /\ rpos \in Nat
    <3>1. EndOf(Number) = ConfigEnd + PayloadSize(Current)
      BY <1>2, CurrentLies
    <3> QED
      BY <1>4, <2>4, <3>1 DEF Typed, TypeOK
  <2>6. rpos' = EndOf(Number)' - 4 * Current'.w * xfersLeft' + buffered'
    <3>1. 4 * Current'.w * xfersLeft' = w
      BY <1>3, <1>6, <2>3
    <3>2. rpos = EndOf(Number) - w + 0
      BY <2>3, <2>5
    <3> QED
      BY <1>1, <1>3, <1>6, <3>1, <3>2
  <2>7. (buffered <= DataSize(Least(perBlk, xfersLeft)))'
    <3>1. PICK p \in Nat : p = Least(perBlk, xfersLeft)'
      <4>1. perBlk' \in Nat /\ xfersLeft' \in Nat
        BY FastWriteKeepsTypes DEF Typed, TypeOK
      <4> QED
        BY <4>1, LeastIsOne DEF Least
    <3>2. DataSize(p) \in Nat
      BY <2>1, <3>1, DataSizeIsNat
    <3>3. DataSize(p)' = DataSize(p)
      BY <1>3 DEF DataSize
    <3>4. DataSize(Least(perBlk, xfersLeft))' = DataSize(p)
      BY <1>3, <3>1 DEF DataSize
    <3> QED
      BY <1>6, <3>2, <3>4
  <2>8. EndOf(done)' <= arrived'
    BY <1>2, <1>3 DEF Framed
  <2> QED
    BY <1>1, <1>6, <2>6, <2>7, <2>8 DEF Framed, FramingIntact
<1> QED
  BY <1>1, <1>5, <1>6

LEMMA Transfers ==
  ASSUME NEW w \in Nat, NEW x \in Nat, NEW p \in Nat, p <= x
  PROVE  /\ 4 * w * (x - p) = 4 * w * x - p * 4 * w
         /\ 4 * w * x \in Nat /\ p * 4 * w \in Nat
<1>1. PICK d \in Nat : x = d + p
  <2>1. x - p \in Nat /\ x = (x - p) + p
    OBVIOUS
  <2> QED
    BY <2>1
<1>2. 4 * w \in Nat /\ p * 4 * w = (4 * w) * p
  OBVIOUS
<1>3. PICK v \in Nat : v = 4 * w
  BY <1>2
<1>4. v * (d + p) = v * d + v * p /\ v * d \in Nat /\ v * p \in Nat
  OBVIOUS
<1>5. x - p = d
  BY <1>1
<1> QED
  BY <1>1, <1>2, <1>3, <1>4, <1>5

\* A fast write in the middle of a run of transfers.
LEMMA GatheringFramed ==
  ASSUME UNCHANGED <<stream, done>>, state' = "execute", continuation',
         EndOf(done) <= arrived',
         rpos' = EndOf(Number) - 4 * Current.w * xfersLeft' + buffered',
         buffered' <= DataSize(Least(perBlk', xfersLeft'))
  PROVE  Framed'
<1>1. EndOf(done)' = EndOf(done) /\ EndOf(Number)' = EndOf(Number) /\ Current' = Current
  BY SameCommand
<1>2. DataSize(Least(perBlk, xfersLeft))' = DataSize(Least(perBlk', xfersLeft'))
  BY <1>1 DEF DataSize, Least
<1> QED
  BY <1>1, <1>2 DEF Framed, FramingIntact

LEMMA ContinueFramed ==
  ASSUME NEW m \in Nat, Short(m), Typed, Orderly, Laid(m), Framed, ContinueFastWrite
  PROVE  Framed'
<1>1. /\ done < Len(stream) /\ UNCHANGED <<stream, arrived>>
      /\ state = "execute" /\ continuation /\ EndOf(done) <= arrived
  BY DEF ContinueFastWrite, hostVars, Typed, Behind, Framed
<1>2. PICK w \in Nat : w = Current.w
  <2>1. Current \in Command
    BY <1>1, CurrentLies, CommandsAssumption
  <2> QED
    BY <2>1 DEF Command
<1>3. PICK p \in Nat : p = Least(perBlk, xfersLeft) /\ p <= xfersLeft
  BY LeastIsOne DEF Typed, TypeOK
<1>4. PICK size \in Nat : size = p * 4 * w
  BY <1>3, Transfers
<1>5. PICK stop \in Nat : stop = EndOf(Number)
  BY <1>1, CurrentLies
<1>6. PICK left \in Nat : left = 4 * w * xfersLeft
  BY Transfers DEF Typed, TypeOK
<1>7. /\ rpos = stop - left + buffered /\ buffered <= size
      /\ rpos \in Nat /\ rpos <= arrived /\ arrived \in Nat
      /\ buffered \in Nat /\ xfersLeft \in Nat
  <2>1. rpos = EndOf(Number) - 4 * Current.w * xfersLeft + buffered
    BY <1>1 DEF Framed, FramingIntact
  <2>2. buffered <= DataSize(p)
    BY <1>1, <1>3 DEF Framed
  <2> QED
    BY <1>2, <1>4, <1>5, <1>6, <2>1, <2>2 DEF Typed, TypeOK, DataSize
<1>8. /\ perBlk' = p
      /\ \/ /\ ~(buffered + (arrived - rpos) >= size)
            /\ rpos' = arrived /\ buffered' = buffered + (arrived - rpos)
            /\ UNCHANGED <<state, done, continuation, xfersLeft>>
         \/ /\ buffered + (arrived - rpos) >= size
            /\ rpos' = IF buffered < size THEN rpos + (size - buffered) ELSE rpos
            /\ \/ /\ xfersLeft' = xfersLeft - p
                  /\ WriteContinues(p) \/ WriteEnds(p)
               \/ /\ buffered' = IF buffered < size THEN size ELSE buffered
                  /\ UNCHANGED <<state, done, continuation, xfersLeft>>
  BY <1>2, <1>3, <1>4 DEF ContinueFastWrite, Gathered, DataSize
<1>9. CASE /\ ~(buffered + (arrived - rpos) >= size)
           /\ rpos' = arrived /\ buffered' = buffered + (arrived - rpos)
           /\ UNCHANGED <<state, done, continuation, xfersLeft>>
  <2>1. rpos' = stop - left + buffered' /\ buffered' <= size
    BY <1>7, <1>9
  <2>2. 4 * Current.w * xfersLeft' = left /\ Least(perBlk', xfersLeft') = p
    BY <1>2, <1>3, <1>6, <1>8, <1>9 DEF Least
  <2>3. DataSize(p) = size
    BY <1>2, <1>4 DEF DataSize
  <2> QED
    BY <1>1, <1>5, <1>9, <2>1, <2>2, <2>3, GatheringFramed
<1>10. CASE buffered + (arrived - rpos) >= size
  <2> DEFINE R == rpos' = IF buffered < size THEN rpos + (size - buffered) ELSE rpos
  <2>1. CASE /\ R /\ buffered' = IF buffered < size THEN size ELSE buffered
             /\ UNCHANGED <<state, done, continuation, xfersLeft>>
    <3>1. rpos' = stop - left + buffered' /\ buffered' = size
      BY <1>7, <2>1
    <3>2. 4 * Current.w * xfersLeft' = left /\ Least(perBlk', xfersLeft') = p
      BY <1>2, <1>3, <1>6, <1>8, <2>1 DEF Least
    <3>3. DataSize(p) = size
      BY <1>2, <1>4 DEF DataSize
    <3> QED
      BY <1>1, <1>5, <2>1, <3>1, <3>2, <3>3, GatheringFramed
  <2>2. ASSUME R, xfersLeft' = xfersLeft - p
        PROVE  /\ rpos' = stop - 4 * w * xfersLeft'
               /\ xfersLeft' \in Nat
    <3>1. rpos' = stop - left + size
      BY <1>7, <2>2
    <3>2. 4 * w * (xfersLeft - p) = left - size
      BY <1>3, <1>4, <1>6, <1>7, Transfers
    <3>3. stop - left + size = stop - (left - size)
      OBVIOUS
    <3>4. xfersLeft - p \in Nat
      BY <1>3, <1>7
    <3> QED
      BY <2>2, <3>1, <3>2, <3>3, <3>4
  <2>3. CASE R /\ xfersLeft' = xfersLeft - p /\ WriteContinues(p)
    <3>1. buffered' = 0 /\ state' = "execute" /\ continuation' /\ UNCHANGED done
      BY <1>1, <2>3 DEF WriteContinues
    <3>2. PICK q \in Nat : q = Least(perBlk', xfersLeft')
      <4>1. perBlk' \in Nat /\ xfersLeft' \in Nat
        BY <1>3, <1>8, <2>2, <2>3
      <4> QED
        BY <4>1, LeastIsOne
    <3>3. DataSize(q) \in Nat
      BY <1>1, <3>2, CurrentLies, DataSizeIsNat
    <3>4. rpos' = EndOf(Number) - 4 * Current.w * xfersLeft' + buffered'
      <4>1. PICK y \in Nat : y = 4 * w * xfersLeft'
        BY <2>2, <2>3, Transfers
      <4>2. stop - y = stop - y + 0
        OBVIOUS
      <4> QED
        BY <1>2, <1>5, <2>2, <2>3, <3>1, <4>1, <4>2
    <3>5. buffered' <= DataSize(Least(perBlk', xfersLeft'))
      BY <3>1, <3>2, <3>3
    <3> QED
      BY <1>1, <3>1, <3>4, <3>5, GatheringFramed
  <2>4. CASE R /\ xfersLeft' = xfersLeft - p /\ WriteEnds(p)
    <3>1. /\ buffered' = 0 /\ state' = "clean" /\ done' = Number /\ ~continuation'
          /\ xfersLeft' = 0
      BY <1>7, <2>4 DEF WriteEnds, CommandDone
    <3>2. rpos' = stop
      <4>1. 4 * w * 0 = 0 /\ stop - 0 = stop
        OBVIOUS
      <4> QED
        BY <2>2, <2>4, <3>1, <4>1
    <3>3. rpos' <= arrived'
      BY ContinueKeepsTypes DEF Typed, TypeOK
    <3> QED
      BY <1>1, <1>5, <3>1, <3>2, <3>3, FramedNext
  <2> QED
    BY <1>8, <1>10, <2>1, <2>3, <2>4
<1> QED
  BY <1>8, <1>9, <1>10

\* Every step leaves the host's side alone, but for its own.
LEMMA HostSteps ==
  ASSUME [Next]_vars
  PROVE  \/ UNCHANGED hostVars
         \/ \E c \in Commands : Send(c)
         \/ \E e \in 1..Sent : Arrive(e)
<1>1. UNCHANGED vars => UNCHANGED hostVars
  BY DEF vars, hostVars
<1>2. Drain \/ FlushPending \/ FlushDecided \/ RunPrepared \/ Fetch => UNCHANGED hostVars
  BY DEF Drain, FlushPending, FlushDecided, RunPrepared, Fetch
<1>3. Execute => UNCHANGED hostVars
  BY DEF Execute, DirectReply, Settle, TapReset, NothingDone, IrDrWrite, FastWrite, ContinueFastWrite
<1>4. FlushTdo \/ RunJtag => UNCHANGED hostVars
  BY DEF FlushTdo, RunJtag
<1> QED
  BY <1>1, <1>2, <1>3, <1>4 DEF Next, Main

Framing(m) == Typed /\ Orderly /\ Laid(m) /\ Cut /\ Framed

LEMMA FramingInitially ==
  ASSUME NEW m \in Nat, Init
  PROVE  Framing(m)
<1>1. Typed /\ Orderly
  BY TypesInitially, OrderlyInitially
<1>2. stream = <<>> /\ arrived = 0 /\ rpos = 0 /\ state = "clean" /\ buffered = 0
      /\ continuation = FALSE /\ done = 0
  BY DEF Init
<1>3. Len(stream) = 0 /\ Sent = 0 /\ EndOf(0) = 0
  BY <1>2 DEF Sent, EndOf
<1>4. Laid(m)
  BY <1>3, SizeAssumption DEF Laid
<1>5. Cut /\ Framed
  BY <1>2, <1>3 DEF Cut, Framed, FramingIntact
<1> QED
  BY <1>1, <1>4, <1>5 DEF Framing

LEMMA FramingKept ==
  ASSUME NEW m \in Nat, Short(m), WellCut, Framing(m), [Next]_vars
  PROVE  Framing(m)'
<1>1. Typed /\ Orderly /\ Laid(m) /\ Cut /\ Framed
  BY DEF Framing
<1>2. Typed' /\ Orderly'
  BY <1>1, TypesKept, OrderlyKept
<1>3. \/ UNCHANGED hostVars
      \/ \E c \in Commands : Send(c)
      \/ \E e \in 1..Sent : Arrive(e)
  BY HostSteps
<1>4. UNCHANGED stream \/ \E c \in Commands : Send(c)
  BY <1>3 DEF hostVars, Arrive
<1>5. Laid(m)' /\ Cut'
  BY <1>1, <1>3, <1>4, LaidKept, CutKept
<1>6. arrived \in Nat /\ arrived' \in Nat
  BY <1>1, <1>2 DEF Typed, TypeOK
<1>7. arrived <= arrived'
  <2>1. arrived' = arrived \/ arrived < arrived'
    BY <1>3 DEF hostVars, Send, Arrive
  <2> QED
    BY <1>6, <2>1
<1>8. CASE UNCHANGED <<rpos, state, buffered, wait, done, continuation, xfersLeft, perBlk>>
  BY <1>1, <1>2, <1>4, <1>5, <1>6, <1>7, <1>8, StillFramed DEF Framing
<1>9. CASE Fetch
  BY <1>1, <1>2, <1>5, <1>9, FetchFramed DEF Framing
<1>10. CASE DirectReply \/ Settle \/ TapReset \/ NothingDone \/ IrDrWrite
  BY <1>1, <1>2, <1>5, <1>10, ReplyFramed DEF Framing
<1>11. CASE FastWrite
  BY <1>1, <1>2, <1>5, <1>11, FastWriteFramed DEF Framing
<1>12. CASE ContinueFastWrite
  BY <1>1, <1>2, <1>5, <1>12, ContinueFramed DEF Framing
<1>13. \/ Fetch \/ FastWrite \/ ContinueFastWrite
       \/ DirectReply \/ Settle \/ TapReset \/ NothingDone \/ IrDrWrite
       \/ UNCHANGED <<rpos, state, buffered, wait, done, continuation, xfersLeft, perBlk>>
  <2>1. (\E c \in Commands : Send(c)) \/ (\E e \in 1..Sent : Arrive(e)) \/ Drain \/ UNCHANGED vars
        => UNCHANGED <<rpos, state, buffered, wait, done, continuation, xfersLeft, perBlk>>
    BY DEF Send, Arrive, Drain, vars, cmdVars, contVars
  <2>2. FlushPending \/ FlushDecided \/ RunPrepared \/ FlushTdo \/ RunJtag
        => UNCHANGED <<rpos, state, buffered, wait, done, continuation, xfersLeft, perBlk>>
    BY DEF FlushPending, FlushDecided, RunPrepared, FlushTdo, RunJtag, cmdVars, contVars
  <2> QED
    BY <2>1, <2>2 DEF Next, Main, Execute
<1> QED
  BY <1>8, <1>9, <1>10, <1>11, <1>12, <1>13

LEMMA AlwaysFraming ==
  ASSUME NEW m \in Nat, Short(m), WellCut
  PROVE  Spec => []Framing(m)
<1>1. Init => Framing(m)
  BY FramingInitially
<1>2. Framing(m) /\ [Next]_vars => Framing(m)'
  BY FramingKept
<1> QED
  BY <1>1, <1>2, PTL DEF Spec

\* The device finds every command where the host put it, however many commands
\* there are and however their bytes are cut (dispatch, lsejtag.c), but for the
\* cuts of WellCut, where it does not.
THEOREM FramesKept ==
  ASSUME NEW m \in Nat, Short(m), WellCut
  PROVE  Spec => []FramingIntact
<1>1. Framing(m) => FramingIntact
  BY DEF Framing, Framed
<1> QED
  BY <1>1, AlwaysFraming, PTL
-----------------------------------------------------------------------------
(***************************************************************************)
(* Service.  What the host sees is data held, commands finished and data   *)
(* sent; and whether something that an access wanted sent is still held.   *)
(***************************************************************************)
HeldIn(t, b) == t \o (IF b.prepared THEN Copies(b.tdo, b.cmd) ELSE <<>>)
Held == HeldIn(tdo, bufs["a"])

\* An access has asked for the data held to be sent: it is yet to be run, or to be
\* noticed by dispatch, or to be carried out.
Asking ==
  \/ bufs["a"].prepared /\ bufs["a"].imm
  \/ immFlush /\ haveNew
  \/ shouldFlush

Settled == \A k \in 1..done : Urgent(stream[k].cmd) => \A i \in DOMAIN Held : Held[i] > k

Settling == Settled \/ Asking

\* An access waits to be run only while nothing is to be flushed.
PreparedAlone == bufs["a"].prepared => ~shouldFlush /\ ~(immFlush /\ haveNew)

\* The three kinds of steps the host can tell apart.
Quiet ==
  /\ UNCHANGED <<done, tx>> /\ Held' = Held
  /\ Asking => Asking'

Finishes ==
  /\ UNCHANGED hostVars /\ ~Asking /\ done < Len(stream)
  /\ done' = Number
  /\ tx' = IF Direct(Current) THEN Append(tx, Number) ELSE tx
  /\ Held' = Held \o Copies(Collects(Current), Number)
  /\ Urgent(Current) => Asking'

Releases ==
  /\ UNCHANGED <<hostVars, done>> /\ shouldFlush
  /\ \E n \in 0..Len(Held) :
       /\ tx' = tx \o SubSeq(Held, 1, n)
       /\ Held' = SubSeq(Held, n + 1, Len(Held))
       /\ n = Len(Held) \/ shouldFlush'

LEMMA CopiesNone ==
  ASSUME NEW k
  PROVE  Copies(0, k) = <<>>
<1>1. Copies(0, k) \in Seq({k})
  <2>1. Copies(0, k) \in [1..0 -> {k}]
    BY DEF Copies
  <2> QED
    BY <2>1, SeqDef
<1>2. Len(Copies(0, k)) = 0
  <2>1. DOMAIN Copies(0, k) = 1..0
    BY DEF Copies
  <2> QED
    BY <1>1, <2>1, LenProperties
<1> QED
  BY <1>1, <1>2, EmptySeq

LEMMA HeldInIs ==
  ASSUME NEW t \in Seq(Nat), NEW b \in Block
  PROVE  /\ HeldIn(t, b) \in Seq(Nat)
         /\ ~b.prepared => HeldIn(t, b) = t
         /\ b.prepared => HeldIn(t, b) = t \o Copies(b.tdo, b.cmd)
<1>1. b.tdo \in Nat /\ b.cmd \in Nat
  BY DEF Block
<1>2. t \o <<>> = t
  BY ConcatEmptySeq
<1>3. t \o Copies(b.tdo, b.cmd) \in Seq(Nat)
  BY <1>1, CopiesType, ConcatProperties
<1> QED
  BY <1>2, <1>3 DEF HeldIn

\* The same in the current state and in the next one.
LEMMA HeldNow ==
  ASSUME Typed
  PROVE  /\ Held \in Seq(Nat)
         /\ ~bufs["a"].prepared => Held = tdo
         /\ bufs["a"].prepared => Held = tdo \o Copies(bufs["a"].tdo, bufs["a"].cmd)
<1>1. tdo \in Seq(Nat) /\ bufs["a"] \in Block
  BY DEF Typed, TypeOK, Buf
<1> QED
  BY <1>1, HeldInIs DEF Held

LEMMA HeldNext ==
  ASSUME Typed'
  PROVE  /\ Held' \in Seq(Nat)
         /\ ~bufs'["a"].prepared => Held' = tdo'
         /\ bufs'["a"].prepared => Held' = tdo' \o Copies(bufs'["a"].tdo, bufs'["a"].cmd)
<1>1. tdo' \in Seq(Nat) /\ bufs'["a"] \in Block
  BY DEF Typed, TypeOK, Buf
<1> QED
  BY <1>1, HeldInIs DEF Held

\* No dword is collected: the data held stay as they are.
LEMMA NoneCollected ==
  ASSUME Typed, Collects(Current) = 0, Held' = Held
  PROVE  Held' = Held \o Copies(Collects(Current), Number)
<1>1. Held \o <<>> = Held
  BY HeldNow, ConcatEmptySeq
<1> QED
  BY <1>1, CopiesNone

LEMMA QuietOutside ==
  ASSUME Typed, PreparedAlone,
         UNCHANGED <<done, tx, tdo, bufs, immFlush>>,
         (UNCHANGED haveNew /\ UNCHANGED shouldFlush) \/ (shouldFlush' /\ ~bufs["a"].prepared)
  PROVE  Quiet /\ PreparedAlone'
<1>1. Held' = Held
  BY DEF Held
<1> QED
  BY <1>1 DEF Quiet, Asking, PreparedAlone

LEMMA QuietBeside ==
  ASSUME Typed, PreparedAlone, UNCHANGED <<done, tx, tdo, bufs, immFlush, haveNew, shouldFlush>>
  PROVE  Quiet /\ PreparedAlone'
<1>1. Held' = Held
  BY DEF Held
<1> QED
  BY <1>1 DEF Quiet, Asking, PreparedAlone

LEMMA FetchSeen ==
  ASSUME Typed, Orderly, PreparedAlone, Fetch
  PROVE  (Quiet \/ Finishes) /\ PreparedAlone'
<1>1. /\ NothingToFlush /\ ~bufs["a"].prepared
      /\ UNCHANGED <<hostVars, tdoVars, bufs, tx>>
      /\ \/ UNCHANGED done
         \/ done' = Number /\ Current.op = "unknown"
  BY FetchTurn DEF Fetch, Prepared, Buf, txVars
<1>2. CASE UNCHANGED done
  BY <1>1, <1>2, QuietOutside DEF tdoVars
<1>3. CASE done' = Number /\ Current.op = "unknown"
  <2>1. Held' = Held
    BY <1>1 DEF Held, tdoVars
  <2>2. Collects(Current) = 0 /\ ~Urgent(Current) /\ ~Direct(Current)
    BY <1>3 DEF Collects, Urgent, Direct
  <2>3. ~Asking
    BY <1>1 DEF Asking, NothingToFlush
  <2>4. done < Len(stream)
    <3>1. Typed'
      BY FetchKeepsTypes
    <3>2. done' <= Len(stream')
      BY <3>1 DEF Typed, Behind
    <3> QED
      BY <1>1, <1>3, <3>2 DEF Number, hostVars, Typed, TypeOK
  <2>5. Finishes
    BY <1>1, <1>3, <2>1, <2>2, <2>3, <2>4, NoneCollected DEF Finishes
  <2>6. PreparedAlone'
    BY <1>1 DEF PreparedAlone
  <2> QED
    BY <2>5, <2>6
<1> QED
  BY <1>1, <1>2, <1>3

\* What holds whenever a command is executed.
LEMMA WhenExecuting ==
  ASSUME Typed, Orderly, todo = "execute", state = "execute"
  PROVE  ~bufs["a"].prepared /\ ~Asking /\ done < Len(stream) /\ Held = tdo
<1>1. Idle /\ done < Len(stream)
  BY DEF Orderly, Typed, Behind
<1> QED
  BY <1>1, HeldNow DEF Idle, Asking

LEMMA RepliesSeen ==
  ASSUME Typed, Orderly, PreparedAlone, DirectReply \/ Settle \/ TapReset \/ NothingDone
  PROVE  (Quiet \/ Finishes) /\ PreparedAlone'
<1>1. /\ ~bufs["a"].prepared /\ ~Asking /\ done < Len(stream)
      /\ UNCHANGED <<hostVars, bufs, tdo, immFlush, shouldFlush>>
  BY WhenExecuting DEF DirectReply, Settle, TapReset, NothingDone, Executing, tdoVars
<1>2. Held' = Held /\ PreparedAlone'
  BY <1>1 DEF Held, PreparedAlone
<1>3. /\ Current.op \in {"date", "probe_read", "probe_write", "io", "io_tap", "io_none", "loopback"}
      /\ \/ UNCHANGED <<done, tx>>
         \/ /\ done' = Number
            /\ tx' = IF Direct(Current) THEN Append(tx, Number) ELSE tx
  BY DEF DirectReply, Settle, TapReset, NothingDone, Executing, cmdVars, txVars, CommandDone, Direct
<1>4. CASE UNCHANGED <<done, tx>>
  BY <1>1, <1>2, <1>4 DEF Quiet
<1>5. CASE done' = Number /\ tx' = IF Direct(Current) THEN Append(tx, Number) ELSE tx
  <2>1. Collects(Current) = 0 /\ ~Urgent(Current)
    BY <1>3 DEF Collects, Urgent
  <2> QED
    BY <1>1, <1>2, <1>5, <2>1, NoneCollected DEF Finishes
<1> QED
  BY <1>2, <1>3, <1>4, <1>5

LEMMA IrDrWriteSeen ==
  ASSUME Typed, Orderly, PreparedAlone, IrDrWrite
  PROVE  (Quiet \/ Finishes) /\ PreparedAlone'
<1>1. /\ ~bufs["a"].prepared /\ ~Asking /\ done < Len(stream) /\ Held = tdo
      /\ UNCHANGED <<hostVars, tdo, immFlush, haveNew, tx>> /\ Current.op = "irdr"
  BY WhenExecuting DEF IrDrWrite, Executing, txVars
<1>2. \A x \in Buf : FreeBlock(x) => x = "a"
  BY <1>1 DEF FreeBlock, Buf
<1>3. CASE PrepareAccess("a", Current) /\ CommandDone /\ UNCHANGED shouldFlush
  <2>1. /\ bufs'["a"].prepared /\ bufs'["a"].imm = Current.imm
        /\ bufs'["a"].tdo = Collects(Current) /\ bufs'["a"].cmd = Number
    <3>1. bufs \in [Buf -> Block]
      BY DEF Typed, TypeOK
    <3> QED
      BY <1>1, <1>3, <3>1 DEF PrepareAccess, Collects, Buf
  <2>2. Held' = Held \o Copies(Collects(Current), Number)
    BY <1>1, <2>1 DEF Held, HeldIn
  <2>3. Urgent(Current) => Asking'
    BY <2>1 DEF Urgent, Asking
  <2>4. tx' = IF Direct(Current) THEN Append(tx, Number) ELSE tx
    BY <1>1 DEF Direct
  <2>5. Finishes
    BY <1>1, <1>3, <2>2, <2>3, <2>4 DEF Finishes, CommandDone
  <2>6. PreparedAlone'
    BY <1>1, <1>3 DEF PreparedAlone, Asking
  <2> QED
    BY <2>5, <2>6
<1>4. CASE UNCHANGED <<bufs, cmdVars>> /\ (shouldFlush' \/ UNCHANGED shouldFlush)
  <2>1. UNCHANGED done
    BY <1>4 DEF cmdVars
  <2> QED
    BY <1>1, <1>4, <2>1, QuietOutside
<1> QED
  BY <1>2, <1>3, <1>4 DEF IrDrWrite

LEMMA ContinueSeen ==
  ASSUME Typed, Orderly, PreparedAlone, ContinueFastWrite
  PROVE  (Quiet \/ Finishes) /\ PreparedAlone'
<1> DEFINE p == Least(perBlk, xfersLeft)
<1>1. /\ UNCHANGED <<hostVars, tdoVars, tx>> /\ todo = "execute" /\ state = "execute"
      /\ done' \in {done, Number}
      /\ bufs' = bufs \/ \E x \in Buf : FreeBlock(x) /\ PrepareWrite(x, p)
      /\ Current.op \in FastWrites
  BY DEF ContinueFastWrite, WriteContinues, WriteEnds, CommandDone, txVars, Orderly
<1> HIDE DEF p
<1>2. ~bufs["a"].prepared /\ ~Asking /\ done < Len(stream) /\ Held = tdo
  BY <1>1, WhenExecuting
<1>3. bufs' = bufs \/ (bufs'["a"].prepared /\ bufs'["a"].tdo = 0)
  <2>1. bufs \in [Buf -> Block]
    BY DEF Typed, TypeOK
  <2>2. \A x \in Buf : FreeBlock(x) => x = "a"
    BY <1>2 DEF FreeBlock, Buf
  <2> QED
    BY <1>1, <2>1, <2>2 DEF PrepareWrite, Buf, Block
<1>4. Held' = Held
  <2>1. CASE bufs' = bufs
    BY <1>1, <2>1 DEF Held, tdoVars
  <2>2. CASE bufs'["a"].prepared /\ bufs'["a"].tdo = 0
    <3>1. Held' = tdo \o Copies(0, bufs'["a"].cmd)
      BY <1>1, <2>2 DEF Held, HeldIn, tdoVars
    <3>2. Held' = tdo \o <<>>
      BY <3>1, CopiesNone
    <3> QED
      BY <1>2, <3>2, ConcatEmptySeq DEF Typed, TypeOK
  <2> QED
    BY <1>3, <2>1, <2>2
<1>5. PreparedAlone'
  BY <1>1, <1>2 DEF PreparedAlone, Asking, tdoVars
<1>6. CASE done' = done
  BY <1>1, <1>2, <1>4, <1>5, <1>6 DEF Quiet
<1>7. CASE done' = Number
  <2>1. Collects(Current) = 0 /\ ~Urgent(Current) /\ ~Direct(Current)
    BY <1>1 DEF Collects, Urgent, Direct, FastWrites
  <2> QED
    BY <1>1, <1>2, <1>4, <1>5, <1>7, <2>1, NoneCollected DEF Finishes
<1> QED
  BY <1>1, <1>6, <1>7

LEMMA FlushSeen ==
  ASSUME Typed, Orderly, PreparedAlone, FlushTdo
  PROVE  Releases /\ PreparedAlone'
<1>1. /\ UNCHANGED <<hostVars, done, bufs, haveNew>> /\ shouldFlush
  BY DEF FlushTdo, cmdVars, Orderly
<1>2. ~bufs["a"].prepared /\ Held = tdo
  BY <1>1, HeldNow DEF PreparedAlone
<1>3. Held' = tdo' /\ PreparedAlone'
  <2>1. Typed'
    BY FlushKeepsTypes
  <2> QED
    BY <1>1, <1>2, <2>1, HeldNext DEF PreparedAlone
<1>4. tdo \in Seq(Nat) /\ Len(tdo) \in Nat /\ txFree \in Nat
  BY SizeAssumption DEF Typed, TypeOK
<1>5. CASE FlushAll
  <2>1. SubSeq(tdo, Len(tdo) + 1, Len(tdo)) = <<>>
    BY <1>4, SubSeqEmpty
  <2>2. tx' = tx \o SubSeq(Held, 1, Len(Held)) /\ Held' = SubSeq(Held, Len(Held) + 1, Len(Held))
    BY <1>2, <1>3, <1>5, <2>1 DEF FlushAll, Flushed
  <2>3. Len(Held) \in 0..Len(Held)
    BY <1>2, <1>4
  <2> QED
    BY <1>1, <1>3, <2>2, <2>3 DEF Releases
<1>6. CASE FlushPart
  <2>1. /\ tx' = tx \o SubSeq(Held, 1, txFree) /\ Held' = SubSeq(Held, txFree + 1, Len(Held))
        /\ shouldFlush' /\ txFree \in 0..Len(Held)
    BY <1>1, <1>2, <1>3, <1>4, <1>6 DEF FlushPart, Flushed
  <2> QED
    BY <1>1, <1>3, <2>1 DEF Releases
<1> QED
  BY <1>5, <1>6 DEF FlushTdo

LEMMA RunSeen ==
  ASSUME Typed, Orderly, PreparedAlone, RunJtag
  PROVE  Quiet /\ PreparedAlone'
<1>1. bufs["a"].prepared /\ ~shouldFlush /\ ~(immFlush /\ haveNew)
  BY DEF RunJtag, Orderly, PreparedAlone
<1>2. /\ bufs' = Released("a") /\ immFlush' = bufs["a"].imm /\ haveNew' = TRUE
      /\ tdo' = tdo \o Copies(bufs["a"].tdo, bufs["a"].cmd)
      /\ UNCHANGED <<done, tx, shouldFlush>>
  BY <1>1 DEF RunJtag, ToRun, Buf, cmdVars, txVars
<1>3. ~bufs'["a"].prepared
  BY <1>2 DEF Released, Buf, Block, Typed, TypeOK
<1>4. Held = tdo \o Copies(bufs["a"].tdo, bufs["a"].cmd) /\ Held' = tdo'
  <2>1. Typed'
    BY RunKeepsTypes
  <2> QED
    BY <1>1, <1>3, <2>1, HeldNow, HeldNext
<1>5. Asking => Asking'
  BY <1>1, <1>2 DEF Asking
<1> QED
  BY <1>1, <1>2, <1>3, <1>4, <1>5 DEF Quiet, PreparedAlone

LEMMA StepsSeen ==
  ASSUME Typed, Orderly, PreparedAlone, [Next]_vars
  PROVE  (Quiet \/ Finishes \/ Releases) /\ PreparedAlone'
<1>1. CASE (\E c \in Commands : Send(c)) \/ (\E e \in 1..Sent : Arrive(e)) \/ Drain \/ UNCHANGED vars
  <2>1. UNCHANGED <<done, tx, tdo, bufs, immFlush, haveNew, shouldFlush>>
    BY <1>1 DEF Send, Arrive, Drain, vars, cmdVars, tdoVars, txVars
  <2> QED
    BY <2>1, QuietBeside
<1>2. CASE FlushPending \/ RunPrepared \/ FastWrite
  <2>1. UNCHANGED <<done, tx, tdo, bufs, immFlush, haveNew, shouldFlush>>
    BY <1>2 DEF FlushPending, RunPrepared, FastWrite, cmdVars, tdoVars, txVars
  <2> QED
    BY <2>1, QuietBeside
<1>3. CASE FlushDecided
  <2>1. UNCHANGED <<done, tx, tdo, bufs, immFlush>> /\ shouldFlush'
    BY <1>3 DEF FlushDecided, cmdVars, txVars
  <2>2. ~bufs["a"].prepared
    BY <1>3 DEF FlushDecided, PreparedAlone
  <2> QED
    BY <2>1, <2>2, QuietOutside
<1>4. CASE Fetch
  BY <1>4, FetchSeen
<1>5. CASE DirectReply \/ Settle \/ TapReset \/ NothingDone
  BY <1>5, RepliesSeen
<1>6. CASE IrDrWrite
  BY <1>6, IrDrWriteSeen
<1>7. CASE ContinueFastWrite
  BY <1>7, ContinueSeen
<1>8. CASE FlushTdo
  BY <1>8, FlushSeen
<1>9. CASE RunJtag
  BY <1>9, RunSeen
<1> QED
  BY <1>1, <1>2, <1>3, <1>4, <1>5, <1>6, <1>7, <1>8, <1>9 DEF Next, Main, Execute

\* Only Send touches the stream, and adds behind what is there.
LEMMA StreamStays ==
  ASSUME Typed, [Next]_vars
  PROVE  \A k \in 1..Len(stream) : stream'[k] = stream[k]
<1>1. CASE \E c \in Commands : Send(c)
  BY <1>1, SendLays
<1>2. CASE UNCHANGED stream
  BY <1>2
<1> QED
  BY <1>1, <1>2, HostSteps DEF hostVars, Arrive

LEMMA SettlingKept ==
  ASSUME Typed, Settling, [Next]_vars, Quiet \/ Finishes \/ Releases
  PROVE  Settling'
<1>1. /\ done \in Nat /\ done <= Len(stream) /\ Len(stream) \in Nat
      /\ Held \in Seq(Nat) /\ Len(Held) \in Nat
  BY HeldNow, LenProperties DEF Typed, TypeOK, Behind
<1>2. CASE Quiet
  <2>1. CASE Asking
    BY <1>2, <2>1 DEF Quiet, Settling
  <2>2. CASE Settled
    <3>1. \A k \in 1..done : stream'[k] = stream[k]
      BY <1>1, StreamStays
    <3>2. Settled'
      BY <1>2, <2>2, <3>1 DEF Settled, Quiet, Urgent
    <3> QED
      BY <3>2 DEF Settling
  <2> QED
    BY <2>1, <2>2 DEF Settling
<1>3. CASE Finishes
  <2>1. Settled /\ UNCHANGED stream
    BY <1>3 DEF Finishes, Settling, hostVars
  <2>2. CASE Urgent(Current)
    BY <1>3, <2>2 DEF Finishes, Settling
  <2>3. CASE ~Urgent(Current)
    <3>1. Copies(Collects(Current), Number) \in Seq(Nat)
      <4>1. Current \in Commands
        BY <1>3, CurrentIsCommand DEF Finishes, Typed
      <4>2. Collects(Current) \in Nat /\ Number \in Nat
        BY <1>1, <4>1, SizesAreNat DEF Number
      <4> QED
        BY <4>2, CopiesType
    <3>2. PICK new \in Seq(Nat) : new = Copies(Collects(Current), Number)
      BY <3>1
    <3>3. \A i \in 1..Len(new) : new[i] = Number
      BY <3>2, LenProperties DEF Copies
    <3>4. Held' = Held \o new
      BY <1>3, <3>2 DEF Finishes
    <3>5. /\ Held' \in Seq(Nat) /\ Len(Held') = Len(Held) + Len(new) /\ Len(new) \in Nat
          /\ \A i \in 1..Len(Held') : Held'[i] = IF i <= Len(Held) THEN Held[i] ELSE new[i - Len(Held)]
      BY <1>1, <3>4, ConcatProperties, LenProperties
    <3>6. ASSUME NEW k \in 1..done', Urgent(stream[k].cmd), NEW i \in DOMAIN Held'
          PROVE  Held'[i] > k
      <4>1. i \in 1..Len(Held')
        BY <3>5, <3>6, LenProperties
      <4>2. k \in 1..done
        <5>1. k # Number
          BY <2>3, <3>6 DEF Current
        <5> QED
          BY <1>1, <1>3, <5>1 DEF Finishes, Number
      <4>3. CASE i <= Len(Held)
        <5>1. i \in DOMAIN Held
          BY <1>1, <4>1, <4>3, LenProperties
        <5> QED
          BY <2>1, <3>5, <3>6, <4>1, <4>2, <4>3, <5>1 DEF Settled
      <4>4. CASE ~(i <= Len(Held))
        <5>1. i - Len(Held) \in 1..Len(new)
          BY <1>1, <3>5, <4>1, <4>4
        <5>2. Held'[i] = Number
          BY <3>3, <3>5, <4>1, <4>4, <5>1
        <5> QED
          BY <1>1, <4>2, <5>2 DEF Number
      <4> QED
        BY <4>3, <4>4
    <3>7. Settled'
      BY <2>1, <3>6 DEF Settled, Urgent
    <3> QED
      BY <3>7 DEF Settling
  <2> QED
    BY <2>2, <2>3
<1>4. CASE Releases
  <2>1. PICK n \in 0..Len(Held) :
          /\ Held' = SubSeq(Held, n + 1, Len(Held))
          /\ n = Len(Held) \/ shouldFlush'
    BY <1>4 DEF Releases
  <2>2. CASE shouldFlush'
    BY <2>2 DEF Settling, Asking
  <2>3. CASE n = Len(Held)
    <3>1. Held' = <<>>
      BY <1>1, <2>1, <2>3, SubSeqEmpty
    <3>2. DOMAIN Held' = {}
      BY <3>1
    <3> QED
      BY <3>2 DEF Settling, Settled
  <2> QED
    BY <2>1, <2>2, <2>3
<1> QED
  BY <1>2, <1>3, <1>4

(***************************************************************************)
(* The refinement.                                                         *)
(***************************************************************************)
Asked == [k \in 1..Arrived |-> stream[k].cmd]

LEMMA ArrivedCounts ==
  ASSUME Typed
  PROVE  /\ Arrived \in 0..Len(stream)
         /\ \A k \in 0..Len(stream) : EndOf(k) <= arrived => k <= Arrived
<1>1. /\ Len(stream) \in Nat /\ arrived \in Nat /\ Sent \in Nat /\ arrived <= Sent
  BY SentIsNat DEF Typed, TypeOK, Behind
<1>2. Len(stream) = 0 => arrived = Sent
  BY <1>1 DEF Sent, EndOf
<1>3. Arrived \in 0..Len(stream)
  BY <1>1, <1>2 DEF Arrived
<1>4. ASSUME NEW k \in 0..Len(stream), EndOf(k) <= arrived PROVE k <= Arrived
  <2>1. CASE k = Len(stream)
    <3>1. arrived = Sent
      BY <1>1, <1>4, <2>1 DEF Sent
    <3> QED
      BY <2>1, <3>1, <1>1 DEF Arrived
  <2>2. CASE k # Len(stream)
    BY <1>1, <2>2 DEF Arrived
  <2> QED
    BY <2>1, <2>2
<1> QED
  BY <1>3, <1>4

LEMMA Prefix ==
  ASSUME NEW S, NEW n \in Nat, NEW s \in [1..n -> S]
  PROVE  s \in Seq(S) /\ Len(s) = n
<1>1. s \in Seq(S)
  BY SMT
<1> QED
  BY <1>1, LenProperties, SMT

LEMMA AskedIs ==
  ASSUME Typed
  PROVE  /\ Arrived \in Nat
         /\ Asked \in Seq(Commands) /\ Len(Asked) = Arrived
         /\ \A k \in 1..Arrived : Asked[k] = stream[k].cmd
<1>1. Arrived \in 0..Len(stream) /\ Len(stream) \in Nat
  BY ArrivedCounts DEF Typed, TypeOK
<1>2. \A k \in 1..Arrived : stream[k].cmd \in Commands
  <2> TAKE k \in 1..Arrived
  <2>1. k \in 1..Len(stream)
    BY <1>1
  <2>2. stream[k] \in [cmd : Commands, end : Nat, held : 0..ReadWindow]
    BY <2>1, StreamElement DEF Typed
  <2> QED
    BY <2>2
<1>3. PICK n \in Nat : n = Arrived
  BY <1>1
<1>4. Asked \in [1..n -> Commands]
  BY <1>2, <1>3 DEF Asked
<1>5. Asked \in Seq(Commands) /\ Len(Asked) = n
  BY <1>4, Prefix
<1>6. \A k \in 1..Arrived : Asked[k] = stream[k].cmd
  BY DEF Asked
<1> QED
  BY <1>3, <1>5, <1>6

\* The host has asked for one more command once its last byte has arrived.
LEMMA AskedGrows ==
  ASSUME Typed, Typed', NEW m \in Nat, Laid(m), Laid(m)',
         \/ UNCHANGED hostVars
         \/ \E c \in Commands : Send(c)
         \/ \E e \in 1..Sent : Arrive(e)
  PROVE  \/ Asked' = Asked
         \/ Len(Asked') = Len(Asked) + 1 /\ Asked = SubSeq(Asked', 1, Len(Asked))
<1>0. /\ Arrived \in 0..Len(stream) /\ Len(stream) \in Nat /\ arrived \in Nat
      /\ Sent \in Nat /\ arrived <= Sent
  <2>1. Arrived \in 0..Len(stream)
    BY ArrivedCounts
  <2>2. Len(stream) \in Nat /\ arrived \in Nat /\ arrived <= Sent
    BY DEF Typed, TypeOK, Behind
  <2>3. Sent \in Nat
    BY SentIsNat DEF Typed
  <2> QED
    BY <2>1, <2>2, <2>3
<1>1. CASE UNCHANGED hostVars
  BY <1>1 DEF Asked, Arrived, Sent, EndOf, hostVars
<1>2. ASSUME NEW c \in Commands, Send(c) PROVE Asked' = Asked
  <2>1. /\ Len(stream') = Len(stream) + 1 /\ Sent' = Sent + CommandSize(c)
        /\ \A k \in 1..Len(stream) : stream'[k] = stream[k]
        /\ arrived' = Sent /\ arrived = Sent
    BY <1>2, SendLays DEF Send
  <2>2. Sent' # Sent
    <3>1. ConfigSize(c) > 0 /\ ConfigSize(c) \in Nat /\ PayloadSize(c) \in Nat
      BY ConfigSizes, SizesAreNat
    <3> QED
      BY <1>0, <2>1, <3>1 DEF CommandSize
  <2>3. Arrived' = Len(stream) /\ Arrived = Len(stream)
    BY <1>0, <2>1, <2>2 DEF Arrived
  <2> QED
    BY <2>1, <2>3 DEF Asked
<1>3. ASSUME NEW e \in 1..Sent, Arrive(e)
      PROVE  \/ Asked' = Asked
             \/ Len(Asked') = Len(Asked) + 1 /\ Asked = SubSeq(Asked', 1, Len(Asked))
  <2>1. arrived < e /\ arrived' = e /\ stream' = stream /\ Sent' = Sent /\ e <= Sent
    BY <1>3 DEF Arrive, Sent, EndOf
  <2>2. arrived # Sent
    BY <1>0, <2>1
  <2>3. Arrived = Len(stream) - 1
    BY <2>2 DEF Arrived
  <2>4. CASE e # Sent
    BY <2>1, <2>2, <2>4 DEF Asked, Arrived
  <2>5. CASE e = Sent
    <3>1. PICK n \in Nat : n = Arrived
      BY <1>0
    <3>2. Arrived' = n + 1
      BY <1>0, <2>1, <2>3, <2>5, <3>1 DEF Arrived
    <3>3. /\ Asked \in Seq(Commands) /\ Len(Asked) = n
          /\ \A k \in 1..n : Asked[k] = stream[k].cmd
      BY <3>1, AskedIs
    <3>4. Asked' = [k \in 1..(n + 1) |-> stream[k].cmd]
      BY <2>1, <3>2 DEF Asked
    <3>5. Asked' \in Seq(Commands) /\ Len(Asked') = n + 1
      <4>1. \A k \in 1..(n + 1) : stream[k].cmd \in Commands
        <5> TAKE k \in 1..(n + 1)
        <5>1. k \in 1..Len(stream)
          BY <1>0, <2>3, <3>1
        <5>2. stream[k] \in [cmd : Commands, end : Nat, held : 0..ReadWindow]
          BY <5>1, StreamElement DEF Typed
        <5> QED
          BY <5>2
      <4>2. Asked' \in [1..(n + 1) -> Commands]
        BY <3>4, <4>1
      <4> QED
        BY <4>2, Prefix
    <3>6. \A k \in 1..n : Asked'[k] = Asked[k]
      BY <3>3, <3>4
    <3>7. SubSeq(Asked', 1, n) = Asked
      <4>1. \A k \in 1..n : Asked'[k] \in Commands
        BY <3>3, <3>6, ElementOfSeq
      <4>2. /\ SubSeq(Asked', 1, n) \in Seq(Commands) /\ Len(SubSeq(Asked', 1, n)) = n
            /\ \A k \in 1..n : SubSeq(Asked', 1, n)[k] = Asked'[k]
        BY <4>1, SubSeqProperties
      <4> QED
        BY <3>3, <3>6, <4>2, SeqEqual
    <3> QED
      BY <3>3, <3>5, <3>7
  <2> QED
    BY <2>4, <2>5
<1> QED
  BY <1>1, <1>2, <1>3

LEMMA HostInit ==
  ASSUME Init
  PROVE  Host!Init
<1>1. Arrived = 0 /\ done = 0 /\ tx = <<>> /\ tdo = <<>> /\ ~bufs["a"].prepared
  BY DEF Init, Arrived, Sent, EndOf, Buf, NoBlock
<1>2. tdo \o <<>> = <<>>
  BY <1>1, EmptySeq, ConcatEmptySeq
<1>3. [k \in 1..Arrived |-> stream[k].cmd] = <<>>
  BY <1>1
<1> QED
  BY <1>1, <1>2, <1>3 DEF Host!Init

\* The host's view in terms of Asked and Held.
LEMMA HostStutters ==
  ASSUME UNCHANGED <<done, tx>>, Asked' = Asked, Held' = Held
  PROVE  UNCHANGED Host!vars
  BY DEF Host!vars, Asked, Held, HeldIn

LEMMA HostAsks ==
  ASSUME UNCHANGED <<done, tx>>, Held' = Held,
         Len(Asked') = Len(Asked) + 1, Asked = SubSeq(Asked', 1, Len(Asked))
  PROVE  Host!Ask
  BY DEF Host!Ask, Asked, Held, HeldIn

LEMMA HostSettled ==
  ASSUME Typed, Settled, done <= Arrived
  PROVE  Host!Settled
<1>1. \A k \in 1..done : Asked[k] = stream[k].cmd
  <2> TAKE k \in 1..done
  <2>1. k \in 1..Arrived
    <3>1. done \in Nat /\ Arrived \in Nat
      BY AskedIs DEF Typed, TypeOK
    <3> QED
      BY <3>1
  <2> QED
    BY <2>1, AskedIs
<1>2. \A k \in 1..done : Urgent(Asked[k]) => \A i \in DOMAIN Held : Held[i] > k
  BY <1>1 DEF Settled
<1> QED
  BY <1>2 DEF Host!Settled, Asked, Held, HeldIn

LEMMA HostFinishes ==
  ASSUME Typed, Settled, Finishes, Number <= Arrived
  PROVE  Host!Finish
<1>1. Number = done + 1 /\ done \in Nat /\ Arrived \in Nat
  BY AskedIs DEF Typed, TypeOK, Number
<1>2. Host!Settled
  BY <1>1, HostSettled
<1>3. done < Len(Asked) /\ Asked[done + 1] = Current
  BY <1>1, AskedIs DEF Current
<1>4. Asked' = Asked
  BY DEF Finishes, hostVars, Asked, Arrived, Sent, EndOf
<1>5. /\ done' = done + 1
      /\ tx' = IF Direct(Asked[done + 1]) THEN Append(tx, done + 1) ELSE tx
      /\ Held' = Held \o [i \in 1..Collects(Asked[done + 1]) |-> done + 1]
  BY <1>1, <1>3 DEF Finishes, Copies
<1> QED
  BY <1>2, <1>3, <1>4, <1>5 DEF Host!Finish, Asked, Held, HeldIn

LEMMA HostReleases ==
  ASSUME Typed, Releases
  PROVE  [Host!Next]_(Host!vars)
<1>1. Asked' = Asked /\ done' = done
  BY DEF Releases, hostVars, Asked, Arrived, Sent, EndOf
<1>2. PICK n \in 0..Len(Held) :
        /\ tx' = tx \o SubSeq(Held, 1, n)
        /\ Held' = SubSeq(Held, n + 1, Len(Held))
  BY DEF Releases
<1>3. Held \in Seq(Nat) /\ Len(Held) \in Nat /\ tx \in Seq(Nat)
  BY HeldNow, LenProperties DEF Typed, TypeOK
<1>4. CASE n = 0
  <2>1. SubSeq(Held, 1, 0) = <<>> /\ SubSeq(Held, 1, Len(Held)) = Held
    BY <1>3, SubSeqEmpty, SubSeqFull
  <2>2. tx' = tx /\ Held' = Held
    BY <1>2, <1>3, <1>4, <2>1, ConcatEmptySeq
  <2> QED
    BY <1>1, <2>2, HostStutters
<1>5. CASE n # 0
  <2>1. n \in 1..Len(Held)
    BY <1>3, <1>5
  <2>2. Host!Release
    BY <1>1, <1>2, <2>1 DEF Host!Release, Asked, Held, HeldIn
  <2> QED
    BY <2>2 DEF Host!Next
<1> QED
  BY <1>4, <1>5

Serving(m) == Framing(m) /\ PreparedAlone /\ Settling

LEMMA ServingInitially ==
  ASSUME NEW m \in Nat, Init
  PROVE  Serving(m)
<1>1. ~bufs["a"].prepared /\ done = 0
  BY DEF Init, NoBlock, Buf
<1> QED
  BY <1>1, FramingInitially DEF Serving, PreparedAlone, Settling, Settled

LEMMA ServingKept ==
  ASSUME NEW m \in Nat, Short(m), WellCut, Serving(m), [Next]_vars
  PROVE  Serving(m)' /\ [Host!Next]_(Host!vars)
<1>1. Framing(m) /\ Typed /\ Orderly /\ Laid(m) /\ PreparedAlone /\ Settling
  BY DEF Serving, Framing
<1>2. Framing(m)'
  BY <1>1, FramingKept
<1>3. Typed' /\ Laid(m)' /\ Framed'
  BY <1>2 DEF Framing
<1>4. (Quiet \/ Finishes \/ Releases) /\ PreparedAlone'
  BY <1>1, StepsSeen
<1>5. Settling'
  BY <1>1, <1>4, SettlingKept
<1>6. ASSUME Quiet PROVE [Host!Next]_(Host!vars)
  <2>1. \/ Asked' = Asked
        \/ Len(Asked') = Len(Asked) + 1 /\ Asked = SubSeq(Asked', 1, Len(Asked))
    BY <1>1, <1>3, HostSteps, AskedGrows
  <2> QED
    BY <1>6, <2>1, HostStutters, HostAsks DEF Quiet, Host!Next
<1>7. ASSUME Finishes PROVE [Host!Next]_(Host!vars)
  <2>1. EndOf(Number) <= arrived
    <3>1. EndOf(done)' = EndOf(Number)
      BY <1>7 DEF Finishes, hostVars, EndOf
    <3> QED
      BY <1>3, <1>7, <3>1 DEF Framed, Finishes, hostVars
  <2>2. Number <= Arrived
    <3>1. Number \in 0..Len(stream)
      BY <1>1, <1>7 DEF Finishes, Number, Typed, TypeOK
    <3> QED
      BY <1>1, <2>1, <3>1, ArrivedCounts
  <2>3. Settled
    BY <1>1, <1>7 DEF Finishes, Settling
  <2> QED
    BY <1>1, <1>7, <2>2, <2>3, HostFinishes DEF Host!Next
<1>8. ASSUME Releases PROVE [Host!Next]_(Host!vars)
  BY <1>1, <1>8, HostReleases
<1> QED
  BY <1>2, <1>4, <1>5, <1>6, <1>7, <1>8 DEF Serving

\* Seen from the host, the library carries out commands one by one, in order, and
\* sends what they read in order, without loss or repetition, holding back no
\* longer than immediate_send_back allows (dispatch, execute, flush_tdo and
\* run_jtag): it implements Service, as long as it keeps the frame.
THEOREM ServesHost ==
  ASSUME NEW m \in Nat, Short(m), WellCut
  PROVE  Spec => Serves
<1>1. Init => Serving(m) /\ Host!Init
  BY ServingInitially, HostInit
<1>2. Serving(m) /\ [Next]_vars => Serving(m)' /\ [Host!Next]_(Host!vars)
  BY ServingKept
<1> QED
  BY <1>1, <1>2, PTL DEF Spec, Serves, Host!Spec
-----------------------------------------------------------------------------
(***************************************************************************)
(* Every access and every transfer is run once: what a command is to run   *)
(* has been run, is prepared, or is left in the continuation context.      *)
(***************************************************************************)
Runs(c) == CASE c.op = "irdr" -> 1
             [] c.op \in FastWrites -> c.n
             [] OTHER -> 0

\* What has been run or prepared for command k.
Expected(k) ==
  IF k <= done THEN Runs(stream[k].cmd)
  ELSE IF k = Number /\ continuation THEN Current.n - xfersLeft ELSE 0

Among(r, k) == {i \in DOMAIN r : r[i] = k}

RunsCounted ==
  /\ continuation => xfersLeft <= Current.n
  /\ \A k \in Nat \ {0} : Times(k) + Waiting(k) = Expected(k)
  /\ \A i \in DOMAIN ran : ran[i] <= Number
  /\ \A i, j \in DOMAIN ran : i < j => ran[i] <= ran[j]
  /\ bufs["a"].prepared =>
       bufs["a"].cmd <= Number /\ \A i \in DOMAIN ran : ran[i] <= bufs["a"].cmd

\* How often k is among r when n copies of c are put behind it.
LEMMA CountCopies ==
  ASSUME NEW r \in Seq(Nat), NEW n \in Nat, NEW c \in Nat, NEW k \in Nat
  PROVE  /\ Cardinality(Among(r, k)) \in Nat
         /\ k = c => Cardinality(Among(r \o Copies(n, c), k)) = Cardinality(Among(r, k)) + n
         /\ k # c => Cardinality(Among(r \o Copies(n, c), k)) = Cardinality(Among(r, k))
<1>1. /\ Len(r) \in Nat /\ DOMAIN r = 1..Len(r)
      /\ Copies(n, c) \in Seq(Nat) /\ Len(Copies(n, c)) = n
      /\ \A i \in 1..n : Copies(n, c)[i] = c
  BY CopiesType, LenProperties DEF Copies
<1>2. PICK s : s = r \o Copies(n, c)
  OBVIOUS
<1>3. PICK l \in Nat : l = Len(r)
  BY <1>1
<1>4. /\ DOMAIN s = 1..(l + n)
      /\ \A i \in 1..(l + n) : s[i] = IF i <= l THEN r[i] ELSE c
  <2>1. /\ s \in Seq(Nat) /\ Len(s) = l + n
        /\ \A i \in 1..(l + n) : s[i] = IF i <= l THEN r[i] ELSE Copies(n, c)[i - l]
    BY <1>1, <1>2, <1>3, ConcatProperties
  <2>2. \A i \in 1..(l + n) : ~(i <= l) => i - l \in 1..n
    BY <1>3
  <2>3. DOMAIN s = 1..(l + n)
    BY <2>1, LenProperties
  <2> QED
    BY <1>1, <2>1, <2>2, <2>3
<1>5. IsFiniteSet(Among(r, k)) /\ Cardinality(Among(r, k)) \in Nat
  <2>1. IsFiniteSet(1..l) /\ Among(r, k) \subseteq 1..l
    BY <1>1, <1>3, FS_Interval DEF Among
  <2>2. IsFiniteSet(Among(r, k))
    BY <2>1, FS_Subset
  <2> QED
    BY <2>2, FS_CardinalityType
<1>6. CASE k # c
  <2>1. Among(s, k) = Among(r, k)
    BY <1>1, <1>3, <1>4, <1>6 DEF Among
  <2> QED
    BY <1>2, <1>5, <1>6, <2>1
<1>7. CASE k = c
  <2>1. Among(s, k) = Among(r, k) \cup ((l + 1)..(l + n))
    BY <1>1, <1>3, <1>4, <1>7 DEF Among
  <2>2. Among(r, k) \cap ((l + 1)..(l + n)) = {}
    BY <1>1, <1>3 DEF Among
  <2>3. IsFiniteSet((l + 1)..(l + n)) /\ Cardinality((l + 1)..(l + n)) = n
    <3>1. /\ l + 1 \in Int /\ l + n \in Int /\ (l + n) - (l + 1) + 1 = n
          /\ l + 1 > l + n => n = 0
      OBVIOUS
    <3> QED
      BY <3>1, FS_Interval
  <2>4. Cardinality(Among(s, k)) = Cardinality(Among(r, k)) + n - Cardinality({})
    BY <1>5, <2>1, <2>2, <2>3, FS_Union
  <2> QED
    BY <1>2, <1>5, <1>7, <2>4, FS_EmptySet
<1> QED
  BY <1>6, <1>7

\* The same for the runs on the port.
LEMMA TimesAre ==
  ASSUME Typed, NEW k \in Nat
  PROVE  Times(k) \in Nat
<1>1. ran \in Seq(Nat)
  BY DEF Typed, TypeOK
<1>2. Cardinality(Among(ran, k)) \in Nat
  BY <1>1, CountCopies
<1> QED
  BY <1>2 DEF Times, Among

LEMMA TimesGrow ==
  ASSUME Typed, NEW n \in Nat, NEW c \in Nat, NEW k \in Nat
  PROVE  ran' = ran \o Copies(n, c) =>
           /\ k = c => Times(k)' = Times(k) + n
           /\ k # c => Times(k)' = Times(k)
<1>1. PICK r \in Seq(Nat) : r = ran
  BY DEF Typed, TypeOK
<1>2. k = c => Cardinality(Among(r \o Copies(n, c), k)) = Cardinality(Among(r, k)) + n
  BY CountCopies
<1>3. k # c => Cardinality(Among(r \o Copies(n, c), k)) = Cardinality(Among(r, k))
  BY CountCopies
<1>4. Times(k) = Cardinality(Among(r, k))
  BY <1>1 DEF Times, Among
<1>5. ran' = ran \o Copies(n, c) => Times(k)' = Cardinality(Among(r \o Copies(n, c), k))
  BY <1>1 DEF Times, Among
<1> QED
  BY <1>2, <1>3, <1>4, <1>5, Zenon

\* Copies behind an ordered sequence that never exceeds them leave it ordered.
LEMMA OrderKept ==
  ASSUME NEW r \in Seq(Nat), NEW t \in Seq(Nat), NEW c \in Nat,
         \A i \in DOMAIN r : r[i] <= c, \A i \in DOMAIN t : t[i] = c,
         \A i, j \in DOMAIN r : i < j => r[i] <= r[j],
         NEW s, s = r \o t
  PROVE  /\ \A i \in DOMAIN s : s[i] <= c
         /\ \A i, j \in DOMAIN s : i < j => s[i] <= s[j]
<1>1. PICK l \in Nat, n \in Nat : l = Len(r) /\ n = Len(t)
  BY LenProperties
<1>2. /\ DOMAIN s = 1..(l + n) /\ DOMAIN r = 1..l
      /\ \A i \in 1..(l + n) : s[i] = IF i <= l THEN r[i] ELSE c
  <2>1. /\ s \in Seq(Nat) /\ Len(s) = l + n
        /\ \A i \in 1..(l + n) : s[i] = IF i <= l THEN r[i] ELSE t[i - l]
    BY <1>1, ConcatProperties
  <2>2. \A i \in 1..(l + n) : ~(i <= l) => i - l \in 1..n
    BY <1>1
  <2>3. DOMAIN s = 1..(l + n) /\ DOMAIN r = 1..l /\ DOMAIN t = 1..n
    BY <1>1, <2>1, LenProperties
  <2> QED
    BY <2>1, <2>2, <2>3
<1>3. \A i \in 1..l : r[i] \in Nat
  BY <1>1, ElementOfSeq
<1>4. \A i \in DOMAIN s : s[i] <= c
  BY <1>2, <1>3
<1>5. ASSUME NEW i \in DOMAIN s, NEW j \in DOMAIN s, i < j PROVE s[i] <= s[j]
  <2>1. CASE j <= l
    <3>1. i \in 1..l /\ j \in 1..l
      BY <1>1, <1>2, <1>5, <2>1
    <3> QED
      BY <1>2, <1>5, <2>1, <3>1
  <2>2. CASE ~(j <= l)
    BY <1>2, <1>4, <2>2
  <2> QED
    BY <2>1, <2>2
<1> QED
  BY <1>4, <1>5

LEMMA RunsInitially ==
  ASSUME Init
  PROVE  RunsCounted
<1>1. ran = <<>> /\ done = 0 /\ continuation = FALSE /\ ~bufs["a"].prepared
  BY DEF Init, NoBlock, Buf
<1>2. DOMAIN ran = {}
  BY <1>1
<1>3. ASSUME NEW k \in Nat \ {0} PROVE Times(k) = 0 /\ Waiting(k) = 0 /\ Expected(k) = 0
  <2>1. {i \in DOMAIN ran : ran[i] = k} = {}
    BY <1>2
  <2> QED
    BY <1>1, <2>1, FS_EmptySet DEF Times, Waiting, Expected
<1> QED
  BY <1>1, <1>2, <1>3 DEF RunsCounted

\* Steps that neither run, prepare nor finish anything.
LEMMA RunsStay ==
  ASSUME Typed, Orderly, RunsCounted,
         UNCHANGED <<done, continuation, xfersLeft, ran, bufs>>,
         \A k \in 1..Len(stream) : stream'[k] = stream[k]
  PROVE  RunsCounted'
<1>1. done \in Nat /\ Len(stream) \in Nat /\ done <= Len(stream)
  BY DEF Typed, TypeOK, Behind
<1>2. continuation => Current' = Current
  <2>1. continuation => Number \in 1..Len(stream)
    BY <1>1 DEF Orderly, Typed, Behind, Number
  <2> QED
    BY <2>1 DEF Current, Number
<1>3. ASSUME NEW k \in Nat \ {0} PROVE Expected(k)' = Expected(k)
  <2>1. CASE k <= done
    <3>1. k \in 1..Len(stream)
      BY <1>1, <2>1
    <3> QED
      BY <2>1, <3>1 DEF Expected, Runs
  <2>2. CASE ~(k <= done)
    BY <1>2, <2>2 DEF Expected, Number
  <2> QED
    BY <2>1, <2>2
<1>4. ASSUME NEW k \in Nat \ {0} PROVE Times(k)' = Times(k) /\ Waiting(k)' = Waiting(k)
  BY DEF Times, Waiting
<1>5. (continuation => xfersLeft <= Current.n)'
  BY <1>2 DEF RunsCounted
<1>6. \A k \in Nat \ {0} : Times(k)' + Waiting(k)' = Expected(k)'
  BY <1>3, <1>4 DEF RunsCounted
<1> QED
  BY <1>5, <1>6 DEF RunsCounted, Number

\* What is expected once the current command is finished, or another number of its
\* transfers is left.
LEMMA ExpectedNext ==
  ASSUME Typed, done < Len(stream), UNCHANGED stream, NEW k \in Nat \ {0}
  PROVE  /\ done' = Number /\ ~continuation' =>
              Expected(k)' = IF k = Number THEN Runs(Current)
                             ELSE IF k <= done THEN Expected(k) ELSE 0
         /\ done' = done =>
              Expected(k)' = IF k = Number /\ continuation' THEN Current.n - xfersLeft'
                             ELSE IF k <= done THEN Expected(k) ELSE 0
<1>1. done \in Nat /\ Number = done + 1
  BY DEF Typed, TypeOK, Number
<1>2. \A j : Runs(stream[j].cmd)' = Runs(stream[j].cmd)
  BY DEF Runs
<1>3. ASSUME done' = Number, ~continuation'
      PROVE  Expected(k)' = IF k = Number THEN Runs(Current)
                            ELSE IF k <= done THEN Expected(k) ELSE 0
  <2>1. Expected(k)' = IF k <= Number THEN Runs(stream[k].cmd) ELSE 0
    BY <1>2, <1>3 DEF Expected
  <2> QED
    BY <1>1, <2>1 DEF Expected, Current
<1>4. ASSUME done' = done
      PROVE  Expected(k)' = IF k = Number /\ continuation' THEN Current.n - xfersLeft'
                            ELSE IF k <= done THEN Expected(k) ELSE 0
  <2>1. Current' = Current /\ Number' = Number
    BY <1>4 DEF Current, Number
  <2>2. Expected(k)' = IF k <= done THEN Runs(stream[k].cmd)
                       ELSE IF k = Number /\ continuation' THEN Current.n - xfersLeft' ELSE 0
    BY <1>2, <1>4, <2>1 DEF Expected
  <2> QED
    BY <1>1, <2>2 DEF Expected
<1> QED
  BY <1>3, <1>4

LEMMA Successors ==
  \A d \in Nat : /\ d + 1 \in Nat \ {0} /\ d + 1 <= d + 1
                 /\ d + 1 <= d + 1 + 1 /\ d + 1 + 1 \in Nat
  OBVIOUS

LEMMA NumberNext ==
  ASSUME Typed
  PROVE  done' = done \/ done' = done + 1
           => Number \in Nat \ {0} /\ Number <= Number' /\ Number' \in Nat
<1>1. done \in Nat /\ Number = done + 1 /\ Number' = done' + 1
  BY DEF Typed, TypeOK, Number
<1> QED
  BY <1>1, Successors, Zenon

\* A command that runs nothing is finished.
LEMMA RunsPassed ==
  ASSUME Typed, RunsCounted, done < Len(stream), ~continuation, ~bufs["a"].prepared,
         UNCHANGED <<stream, ran, bufs, continuation>>, done' = Number, Runs(Current) = 0
  PROVE  RunsCounted'
<1>1. done \in Nat /\ Number = done + 1 /\ Number' = Number + 1
  BY DEF Typed, TypeOK, Number
<1>2. ASSUME NEW k \in Nat \ {0} PROVE Times(k)' = Times(k) /\ Waiting(k)' = Waiting(k)
  BY DEF Times, Waiting
<1>3. ASSUME NEW k \in Nat \ {0} PROVE Expected(k)' = Expected(k)
  BY <1>1, ExpectedNext DEF Expected
<1>4. \A k \in Nat \ {0} : Times(k)' + Waiting(k)' = Expected(k)'
  BY <1>2, <1>3 DEF RunsCounted
<1>5. \A i \in DOMAIN ran' : ran'[i] <= Number'
  <2>1. \A i \in DOMAIN ran : ran[i] \in Nat
    BY ElementOfSeq, LenProperties DEF Typed, TypeOK
  <2> QED
    BY <1>1, <2>1 DEF RunsCounted
<1> QED
  BY <1>4, <1>5 DEF RunsCounted

\* x transfers of the current command are prepared for a run.
LEMMA RunsPrepared ==
  ASSUME Typed, Orderly, RunsCounted, done < Len(stream), UNCHANGED <<stream, ran>>,
         ~bufs["a"].prepared, bufs'["a"].prepared, bufs'["a"].cmd = Number,
         NEW x \in Nat, bufs'["a"].xfers = x, done' \in {done, Number},
         continuation' => done' = done /\ xfersLeft' <= Current.n,
         \A k \in Nat \ {0} : Expected(k)' = IF k = Number THEN Expected(k) + x ELSE Expected(k)
  PROVE  RunsCounted'
<1>1. Number \in Nat \ {0} /\ Number <= Number' /\ Number' \in Nat
  <2>1. done' = done \/ done' = done + 1
    BY DEF Number
  <2> QED
    BY <2>1, NumberNext
<1>2. ASSUME NEW k \in Nat \ {0} PROVE Times(k)' + Waiting(k)' = Expected(k)'
  <2>1. Times(k)' = Times(k) /\ Times(k) \in Nat
    BY TimesAre DEF Times
  <2>2. Waiting(k) = 0 /\ Waiting(k)' = IF k = Number THEN x ELSE 0
    BY DEF Waiting
  <2>3. Times(k) + 0 = Expected(k)
    BY <2>2 DEF RunsCounted
  <2>4. Times(k) = Expected(k)
    BY <2>1, <2>3
  <2> QED
    BY <2>1, <2>2, <2>4
<1>3. \A i \in DOMAIN ran' : ran'[i] <= Number' /\ ran'[i] <= Number
  <2>1. \A i \in DOMAIN ran : ran[i] \in Nat
    BY ElementOfSeq, LenProperties DEF Typed, TypeOK
  <2> QED
    BY <1>1, <2>1 DEF RunsCounted, Number
<1>4. (continuation => xfersLeft <= Current.n)'
  BY DEF Current, Number
<1>5. \A i, j \in DOMAIN ran' : i < j => ran'[i] <= ran'[j]
  BY DEF RunsCounted
<1>6. bufs'["a"].cmd <= Number' /\ \A i \in DOMAIN ran' : ran'[i] <= bufs'["a"].cmd
  BY <1>1, <1>3
<1> QED
  BY <1>2, <1>3, <1>4, <1>5, <1>6 DEF RunsCounted

LEMMA RunsBeside ==
  ASSUME Typed, Orderly, RunsCounted, [Next]_vars,
         UNCHANGED <<done, continuation, xfersLeft, ran, bufs>>
  PROVE  RunsCounted'
  BY StreamStays, RunsStay

LEMMA RunsFetch ==
  ASSUME Typed, Orderly, RunsCounted, Fetch
  PROVE  RunsCounted'
<1>1. /\ ~bufs["a"].prepared /\ UNCHANGED <<stream, ran, bufs, continuation, xfersLeft>>
      /\ state = "execute" => UNCHANGED done
      /\ UNCHANGED done \/ (done' = Number /\ Current.op = "unknown" /\ state' = "clean")
  BY FetchTurn DEF Prepared, Buf, Fetch, contVars, hostVars
<1>2. CASE UNCHANGED done
  BY <1>1, <1>2, RunsStay
<1>3. CASE done' = Number /\ Current.op = "unknown" /\ ~UNCHANGED done
  <2>1. done < Len(stream)
    <3>1. done + 1 <= Len(stream')
      BY <1>3, FetchKeepsTypes DEF Typed, Behind, Number
    <3> QED
      BY <1>1, <3>1 DEF Typed, TypeOK
  <2>2. ~continuation
    BY <1>1, <1>3 DEF Orderly
  <2>3. Runs(Current) = 0
    BY <1>3 DEF Runs, FastWrites
  <2> QED
    BY <1>1, <1>3, <2>1, <2>2, <2>3, RunsPassed
<1> QED
  BY <1>1, <1>2, <1>3

LEMMA RunsReplies ==
  ASSUME Typed, Orderly, RunsCounted, DirectReply \/ Settle \/ TapReset \/ NothingDone
  PROVE  RunsCounted'
<1>1. /\ UNCHANGED <<stream, ran, bufs, continuation, xfersLeft>>
      /\ todo = "execute" /\ state = "execute" /\ ~continuation
      /\ Current.op \notin FastWrites /\ Current.op # "irdr"
      /\ UNCHANGED done \/ done' = Number
  BY DEF DirectReply, Settle, TapReset, NothingDone, Executing, CommandDone, hostVars, cmdVars,
         contVars, FastWrites
<1>2. ~bufs["a"].prepared /\ done < Len(stream)
  BY <1>1 DEF Orderly, Idle, Typed, Behind
<1>3. Runs(Current) = 0
  BY <1>1 DEF Runs
<1> QED
  BY <1>1, <1>2, <1>3, RunsStay, RunsPassed

LEMMA RunsFastWrite ==
  ASSUME Typed, Orderly, RunsCounted, FastWrite
  PROVE  RunsCounted'
<1>1. /\ UNCHANGED <<stream, ran, bufs, done>> /\ state = "execute" /\ ~continuation
      /\ \/ xfersLeft' = Current.n /\ continuation' = TRUE
         \/ UNCHANGED <<continuation, xfersLeft>>
  BY DEF FastWrite, Executing, hostVars
<1>2. CASE UNCHANGED <<continuation, xfersLeft>>
  BY <1>1, <1>2, RunsStay
<1>3. CASE xfersLeft' = Current.n /\ continuation' = TRUE
  <2>1. done < Len(stream) /\ Current' = Current /\ Number' = Number
    BY <1>1 DEF Typed, Behind, Current, Number
  <2>2. Current.n \in Nat
    <3>1. Current \in Command
      BY <2>1, CurrentIsCommand, CommandsAssumption DEF Typed
    <3> QED
      BY <3>1 DEF Command
  <2>3. ASSUME NEW k \in Nat \ {0}
        PROVE  Times(k)' + Waiting(k)' = Expected(k)'
    <3>1. Expected(k)' = IF k = Number THEN Current.n - xfersLeft'
                         ELSE IF k <= done THEN Expected(k) ELSE 0
      BY <1>1, <1>3, <2>1, ExpectedNext
    <3>2. Expected(k) = IF k <= done THEN Expected(k) ELSE 0
      BY <1>1 DEF Expected
    <3>3. Current.n - xfersLeft' = 0
      BY <1>3, <2>2
    <3>4. ~(Number <= done)
      BY DEF Number, Typed, TypeOK
    <3>5. Expected(k)' = Expected(k)
      BY <3>1, <3>2, <3>3, <3>4
    <3>6. Times(k)' = Times(k) /\ Waiting(k)' = Waiting(k)
      BY <1>1 DEF Times, Waiting
    <3> QED
      BY <3>5, <3>6 DEF RunsCounted
  <2>4. xfersLeft' <= Current'.n
    BY <1>3, <2>1, <2>2
  <2> QED
    BY <1>1, <2>1, <2>3, <2>4 DEF RunsCounted
<1> QED
  BY <1>1, <1>2, <1>3

LEMMA RunsIrDrWrite ==
  ASSUME Typed, Orderly, RunsCounted, [Next]_vars, IrDrWrite
  PROVE  RunsCounted'
<1>1. /\ UNCHANGED <<stream, continuation, xfersLeft, ran>> /\ ~continuation
      /\ todo = "execute" /\ state = "execute" /\ Current.op = "irdr"
  BY DEF IrDrWrite, Executing, hostVars, contVars
<1>2. ~bufs["a"].prepared /\ done < Len(stream) /\ bufs \in [Buf -> Block]
  BY <1>1 DEF Orderly, Idle, Typed, TypeOK, Behind
<1>3. \/ UNCHANGED <<bufs, done>>
      \/ PrepareAccess("a", Current) /\ done' = Number
  <2>1. \A x \in Buf : FreeBlock(x) => x = "a"
    BY <1>2 DEF FreeBlock, Buf
  <2> QED
    BY <2>1 DEF IrDrWrite, CommandDone, cmdVars
<1>4. CASE PrepareAccess("a", Current) /\ done' = Number
  <2>1. bufs'["a"].prepared /\ bufs'["a"].cmd = Number /\ bufs'["a"].xfers = 1
    BY <1>2, <1>4 DEF PrepareAccess, Buf
  <2>2. ASSUME NEW k \in Nat \ {0}
        PROVE  Expected(k)' = IF k = Number THEN Expected(k) + 1 ELSE Expected(k)
    <3>1. Expected(k)' = IF k = Number THEN Runs(Current)
                         ELSE IF k <= done THEN Expected(k) ELSE 0
      BY <1>1, <1>2, <1>4, ExpectedNext
    <3>2. Runs(Current) = 1
      BY <1>1 DEF Runs, FastWrites
    <3>3. Expected(k) = IF k <= done THEN Expected(k) ELSE 0
      BY <1>1 DEF Expected
    <3>4. ~(Number <= done)
      BY DEF Number, Typed, TypeOK
    <3> QED
      BY <3>1, <3>2, <3>3, <3>4
  <2>3. ~continuation'
    BY <1>1
  <2> HIDE DEF PrepareAccess
  <2> QED
    BY <1>1, <1>2, <1>4, <2>1, <2>2, <2>3, RunsPrepared
<1> QED
  BY <1>1, <1>3, <1>4, RunsStay

LEMMA TakeAway ==
  \A n, l, p \in Nat : p <= l /\ l <= n =>
     /\ n - (l - p) = (n - l) + p
     /\ l - p <= n
  OBVIOUS

LEMMA RunsContinue ==
  ASSUME Typed, Orderly, RunsCounted, ContinueFastWrite
  PROVE  RunsCounted'
<1>1. /\ UNCHANGED <<stream, ran>> /\ continuation
      /\ todo = "execute" /\ state = "execute" /\ Current.op \in FastWrites
  BY DEF ContinueFastWrite, hostVars, Orderly
<1>2. ~bufs["a"].prepared /\ done < Len(stream) /\ bufs \in [Buf -> Block]
  BY <1>1 DEF Orderly, Idle, Typed, TypeOK, Behind
<1>3. PICK p : /\ p = Least(perBlk, xfersLeft)
               /\ \/ UNCHANGED <<bufs, done, continuation, xfersLeft>>
                  \/ /\ PrepareWrite("a", p) /\ xfersLeft' = xfersLeft - p
                     /\ \/ xfersLeft > p /\ UNCHANGED <<done, continuation>>
                        \/ xfersLeft = p /\ done' = Number /\ continuation' = FALSE
  <2>1. \A x \in Buf : FreeBlock(x) => x = "a"
    BY <1>2 DEF FreeBlock, Buf
  <2> QED
    BY <2>1 DEF ContinueFastWrite, CommandDone, WriteContinues, WriteEnds
<1>4. p \in Nat /\ p <= xfersLeft /\ xfersLeft \in Nat /\ xfersLeft <= Current.n /\ Current.n \in Nat
  <2>1. Current \in Command
    BY <1>2, CurrentIsCommand, CommandsAssumption DEF Typed
  <2>2. Current.n \in Nat /\ perBlk \in Nat /\ xfersLeft \in Nat
    BY <2>1 DEF Command, Typed, TypeOK
  <2> QED
    BY <1>1, <1>3, <2>2, LeastIsOne DEF RunsCounted
<1>5. CASE PrepareWrite("a", p)
  <2>1. bufs'["a"].prepared /\ bufs'["a"].cmd = Number /\ bufs'["a"].xfers = p
    BY <1>2, <1>5 DEF PrepareWrite, Buf, Block
  <2> HIDE DEF PrepareWrite
  <2>2. ~(Number <= done) /\ done \in Nat
    BY DEF Number, Typed, TypeOK
  <2>3. ASSUME NEW k \in Nat \ {0}
        PROVE  Expected(k) = IF k <= done THEN Expected(k)
                             ELSE IF k = Number THEN Current.n - xfersLeft ELSE 0
    BY <1>1 DEF Expected
  <2>4. CASE xfersLeft' = xfersLeft - p /\ UNCHANGED <<done, continuation>>
    <3>1. Current.n - xfersLeft' = (Current.n - xfersLeft) + p /\ xfersLeft' <= Current.n
      BY <1>4, <2>4, TakeAway, Zenon
    <3>2. ASSUME NEW k \in Nat \ {0}
          PROVE  Expected(k)' = IF k = Number THEN Expected(k) + p ELSE Expected(k)
      <4>1. Expected(k)' = IF k = Number THEN Current.n - xfersLeft'
                           ELSE IF k <= done THEN Expected(k) ELSE 0
        BY <1>1, <1>2, <2>4, ExpectedNext, Zenon
      <4> QED
        BY <2>2, <2>3, <3>1, <4>1, Zenon
    <3>3. done' = done
      BY <2>4
    <3> QED
      BY <1>1, <1>2, <1>4, <2>1, <3>1, <3>2, <3>3, RunsPrepared
  <2>5. CASE xfersLeft = p /\ done' = Number /\ continuation' = FALSE
    <3>1. Runs(Current) = Current.n
      BY <1>1 DEF Runs, FastWrites
    <3>2. Current.n = (Current.n - xfersLeft) + p
      BY <1>4, <2>5
    <3>3. ASSUME NEW k \in Nat \ {0}
          PROVE  Expected(k)' = IF k = Number THEN Expected(k) + p ELSE Expected(k)
      <4>1. Expected(k)' = IF k = Number THEN Runs(Current)
                           ELSE IF k <= done THEN Expected(k) ELSE 0
        BY <1>1, <1>2, <2>5, ExpectedNext, Zenon
      <4> QED
        BY <2>2, <2>3, <3>1, <3>2, <4>1, Zenon
    <3> QED
      BY <1>1, <1>2, <1>4, <2>1, <2>5, <3>3, RunsPrepared
  <2>6. UNCHANGED bufs => FALSE
    BY <1>2, <2>1
  <2> QED
    BY <1>3, <2>4, <2>5, <2>6
<1> QED
  BY <1>1, <1>3, <1>5, RunsStay

LEMMA RunsRun ==
  ASSUME Typed, Orderly, RunsCounted, RunJtag
  PROVE  RunsCounted'
<1>1. /\ UNCHANGED <<stream, done, continuation, xfersLeft>>
      /\ bufs["a"].prepared /\ ~bufs["b"].prepared /\ bufs \in [Buf -> Block]
  BY DEF RunJtag, hostVars, cmdVars, contVars, Orderly, Typed, TypeOK
<1>2. /\ bufs' = Released("a")
      /\ ran' = ran \o Copies(bufs["a"].xfers, bufs["a"].cmd)
  BY <1>1 DEF RunJtag, ToRun, Buf
<1>3. PICK n \in Nat, c \in Nat : n = bufs["a"].xfers /\ c = bufs["a"].cmd
  BY <1>1 DEF Block, Buf
<1>4. ran' = ran \o Copies(n, c)
  BY <1>2, <1>3
<1>5. ~bufs'["a"].prepared
  BY <1>1, <1>2 DEF Released, Buf, Block
<1>6. ASSUME NEW k \in Nat \ {0} PROVE Times(k)' + Waiting(k)' = Expected(k)'
  <2>1. /\ k = c => Times(k)' = Times(k) + n
        /\ k # c => Times(k)' = Times(k)
    BY <1>4, TimesGrow
  <2>2. Times(k) \in Nat
    BY TimesAre
  <2>3. Waiting(k) = (IF k = c THEN n ELSE 0) /\ Waiting(k)' = 0
    BY <1>1, <1>3, <1>5 DEF Waiting
  <2>4. Times(k)' + Waiting(k)' = Times(k) + Waiting(k)
    BY <2>1, <2>2, <2>3
  <2>5. Expected(k)' = Expected(k)
    BY <1>1 DEF Expected, Runs, Number, Current
  <2> QED
    BY <2>4, <2>5 DEF RunsCounted
<1>7. /\ \A i \in DOMAIN ran' : ran'[i] <= c
      /\ \A i, j \in DOMAIN ran' : i < j => ran'[i] <= ran'[j]
  <2>1. PICK r \in Seq(Nat) : r = ran
    BY DEF Typed, TypeOK
  <2>2. /\ \A i \in DOMAIN r : r[i] <= c
        /\ \A i, j \in DOMAIN r : i < j => r[i] <= r[j]
    BY <1>1, <1>3, <2>1 DEF RunsCounted
  <2>3. PICK t \in Seq(Nat) : t = Copies(n, c)
    BY CopiesType
  <2>4. \A i \in DOMAIN t : t[i] = c
    BY <2>3 DEF Copies
  <2>5. PICK s : s = r \o t
    OBVIOUS
  <2>6. /\ \A i \in DOMAIN s : s[i] <= c
        /\ \A i, j \in DOMAIN s : i < j => s[i] <= s[j]
    BY <2>2, <2>4, <2>5, OrderKept
  <2> QED
    BY <1>4, <2>1, <2>3, <2>5, <2>6
<1>8. \A i \in DOMAIN ran' : ran'[i] <= Number'
  <2>1. c <= Number /\ Number' = Number /\ Number \in Nat
    BY <1>1, <1>3 DEF RunsCounted, Number, Typed, TypeOK
  <2>2. ran' \in Seq(Nat)
    BY RunKeepsTypes DEF Typed, TypeOK
  <2>3. \A i \in DOMAIN ran' : ran'[i] \in Nat
    BY <2>2, ElementOfSeq, LenProperties
  <2> QED
    BY <1>7, <2>1, <2>3
<1>9. (continuation => xfersLeft <= Current.n)'
  BY <1>1 DEF RunsCounted, Current, Number
<1> QED
  BY <1>5, <1>6, <1>7, <1>8, <1>9 DEF RunsCounted

LEMMA RunsKept == Typed /\ Orderly /\ RunsCounted /\ [Next]_vars => RunsCounted'
<1> SUFFICES ASSUME Typed, Orderly, RunsCounted, [Next]_vars PROVE RunsCounted'
  OBVIOUS
<1>1. CASE \/ \E c \in Commands : Send(c)
           \/ \E e \in 1..Sent : Arrive(e)
           \/ Drain \/ UNCHANGED vars \/ FlushPending \/ FlushDecided \/ RunPrepared \/ FlushTdo
  <2>1. UNCHANGED <<done, continuation, xfersLeft, ran, bufs>>
    BY <1>1 DEF Send, Arrive, Drain, vars, FlushPending, FlushDecided, RunPrepared, FlushTdo,
                cmdVars, contVars
  <2> QED
    BY <2>1, RunsBeside
<1>2. CASE Fetch
  BY <1>2, RunsFetch
<1>3. CASE DirectReply \/ Settle \/ TapReset \/ NothingDone
  BY <1>3, RunsReplies
<1>4. CASE IrDrWrite
  BY <1>4, RunsIrDrWrite
<1>5. CASE FastWrite
  BY <1>5, RunsFastWrite
<1>6. CASE ContinueFastWrite
  BY <1>6, RunsContinue
<1>7. CASE RunJtag
  BY <1>7, RunsRun
<1> QED
  BY <1>1, <1>2, <1>3, <1>4, <1>5, <1>6, <1>7 DEF Next, Main, Execute

\* Every access and every transfer of a finished command is run on the port once,
\* none of them twice or not at all, and in the order of the commands, also while
\* the transfers of a fast write are spread over several runs.
THEOREM AllRunOnce == Spec => []RunExactlyOnce
<1>1. Typed /\ Orderly /\ RunsCounted => RunExactlyOnce
  <2> SUFFICES ASSUME Typed, RunsCounted PROVE RunExactlyOnce
    OBVIOUS
  <2>1. ASSUME NEW k \in 1..done PROVE Times(k) + Waiting(k) = Runs(stream[k].cmd)
    <3>1. k \in Nat \ {0} /\ k <= done
      BY DEF Typed, TypeOK
    <3> QED
      BY <3>1 DEF RunsCounted, Expected
  <2> QED
    BY <2>1 DEF RunExactlyOnce, RunsCounted, Runs
<1>2. Init => Typed /\ Orderly /\ RunsCounted
  BY TypesInitially, OrderlyInitially, RunsInitially
<1>3. (Typed /\ Orderly /\ RunsCounted) /\ [Next]_vars => (Typed /\ Orderly /\ RunsCounted)'
  BY TypesKept, OrderlyKept, RunsKept
<1> QED
  BY <1>1, <1>2, <1>3, PTL DEF Spec
=============================================================================

--------------------------- MODULE LsejtagProofs ---------------------------
(***************************************************************************)
(* Proofs about Lsejtag, for all values of its constants, and for every    *)
(* way the host's bytes may be split.                                      *)
(***************************************************************************)
EXTENDS Lsejtag, SequenceTheorems, TLAPS

(***************************************************************************)
(* The operators.                                                          *)
(***************************************************************************)
LEMMA ProductIsNat == \A a, b \in Nat : a * b \in Nat
  BY SMT

LEMMA LeastIsOne ==
  ASSUME NEW a \in Nat, NEW b \in Nat
  PROVE  Least(a, b) \in Nat /\ Least(a, b) <= a /\ Least(a, b) <= b
  BY DEF Least

\* The sizes of a command are numbers.
LEMMA SizesAreNat ==
  ASSUME NEW c \in Commands
  PROVE  /\ ConfigSize(c) \in Nat
         /\ PayloadSize(c) \in Nat
         /\ CommandSize(c) \in Nat
         /\ Collects(c) \in Nat
<1>1. c \in Command BY CommandsAssumption
<1>2. c.n \in Nat /\ c.w \in Nat BY <1>1 DEF Command
<1>3. 4 * c.w \in Nat /\ 4 * c.n \in Nat BY <1>2
<1>4. 4 * c.w * c.n \in Nat BY <1>2, <1>3, ProductIsNat
<1>5. ConfigSize(c) \in Nat BY DEF ConfigSize
<1>6. PayloadSize(c) \in Nat BY <1>3, <1>4 DEF PayloadSize
<1> QED BY <1>2, <1>5, <1>6 DEF CommandSize, Collects

LEMMA TakeInRange ==
  ASSUME arrived \in Nat, NEW pos \in 0..arrived, NEW n \in Nat
  PROVE  Take(pos, n) \in 0..arrived
  BY DEF Take, Least

\* The bytes a run of fast-write transfers needs.
LEMMA DataSizeIsNat ==
  ASSUME NEW p \in Nat, Current \in Commands
  PROVE  DataSize(p) \in Nat
<1>1. Current \in Command BY CommandsAssumption
<1>2. Current.w \in Nat BY <1>1 DEF Command
<1>3. p * 4 \in Nat OBVIOUS
<1> QED BY <1>2, <1>3, ProductIsNat DEF DataSize

(***************************************************************************)
(* Types.  They rest on the device never being ahead of the host: there is *)
(* a command in the stream behind whatever it is assembling or executing.  *)
(***************************************************************************)
Behind ==
  /\ arrived <= Sent
  /\ done <= Len(stream)
  /\ state # "clean" => done < Len(stream)

Typed == TypeOK /\ Behind

\* The part of the state that dispatch assigns while it fetches a command.
FetchTypes ==
  /\ rpos \in 0..arrived /\ buffered \in Nat /\ wait \in Nat
  /\ state \in State /\ todo \in {"dispatch", "execute", "flush", "run"}
  /\ halted \in BOOLEAN
  /\ done \in Nat /\ done <= Len(stream)
  /\ state # "clean" => done < Len(stream)

LEMMA StreamElement ==
  ASSUME TypeOK, NEW k \in 1..Len(stream)
  PROVE  stream[k] \in [cmd : Commands, end : Nat, held : 0..ReadWindow]
  BY ElementOfSeq DEF TypeOK

LEMMA CurrentIsCommand ==
  ASSUME TypeOK, done < Len(stream)
  PROVE  Current \in Commands
<1>1. done + 1 \in 1..Len(stream)
  BY DEF TypeOK
<1>2. stream[done + 1] \in [cmd : Commands, end : Nat, held : 0..ReadWindow]
  BY <1>1, StreamElement
<1> QED
  BY <1>2 DEF Current, Number

LEMMA SentIsNat ==
  ASSUME TypeOK
  PROVE  Sent \in Nat /\ \A k \in 0..Len(stream) : EndOf(k) \in Nat
<1>1. Len(stream) \in Nat
  BY DEF TypeOK
<1>2. ASSUME NEW k \in 0..Len(stream) PROVE EndOf(k) \in Nat
  <2>1. CASE k = 0
    BY <2>1 DEF EndOf
  <2>2. CASE k # 0
    <3>1. stream[k] \in [cmd : Commands, end : Nat, held : 0..ReadWindow]
      <4>1. k \in 1..Len(stream)
        BY <1>1, <2>2
      <4> QED
        BY <4>1, StreamElement
    <3> QED
      BY <2>2, <3>1 DEF EndOf
  <2> QED
    BY <2>1, <2>2
<1> QED
  BY <1>1, <1>2 DEF Sent

\* Fetching: the assignments of each exit of dispatch.
LEMMA ReadyTypes ==
  ASSUME NEW pos, NEW got \in Nat, TypeOK, done < Len(stream),
         arrived' = arrived, stream' = stream, pos \in 0..arrived, Ready(pos, got)
  PROVE  FetchTypes'
  BY DEF Ready, FetchTypes, TypeOK, State

LEMMA PayloadTypes ==
  ASSUME NEW pos, NEW rx \in Nat, NEW got \in Nat, NEW w \in Nat, TypeOK, 
         done < Len(stream), arrived' = arrived, stream' = stream,
         pos \in 0..arrived, Payload(pos, rx, got, w)
  PROVE  FetchTypes'
<1>0. arrived \in Nat
  BY DEF TypeOK
<1>1. Take(pos, w) \in 0..arrived /\ Take(pos, rx) \in 0..arrived
  BY <1>0, TakeInRange
<1>2. CASE rx >= w /\ Ready(Take(pos, w), got + w)
  BY <1>1, <1>2, ReadyTypes
<1>3. CASE /\ rx < w
           /\ rpos' = Take(pos, rx) /\ buffered' = got + rx /\ wait' = w - rx
           /\ state' = "wait_payload" /\ UNCHANGED <<todo, done, halted>>
  BY <1>1, <1>3 DEF FetchTypes, TypeOK, State
<1> QED
  BY <1>2, <1>3 DEF Payload

LEMMA ConfigTypes ==
  ASSUME NEW pos, NEW lenAvail, NEW rx \in Nat, NEW got \in Nat, TypeOK,
         done < Len(stream), arrived' = arrived, stream' = stream,
         pos \in 0..arrived, Config(pos, lenAvail, rx, got)
  PROVE  FetchTypes'
<1> DEFINE c == Current
           missing == (ConfigSize(c) - got) % WordMod
           pos2 == Take(pos, missing)
           got2 == (got + missing) % WordMod
<1>1. WordMod \in Nat /\ WordMod > 0 /\ arrived \in Nat
  BY SizeAssumption DEF TypeOK
<1>2. c \in Commands
  BY CurrentIsCommand
<1>3. ConfigSize(c) \in Nat /\ PayloadSize(c) \in Nat
  BY <1>2, SizesAreNat
<1> HIDE DEF c
<1>4. missing \in Nat
  BY <1>1, <1>3
<1> HIDE DEF missing
<1>5. got2 \in Nat /\ (rx - missing) % WordMod \in Nat
  BY <1>1, <1>4
<1>6. pos2 \in 0..arrived /\ Take(pos, rx) \in 0..arrived
  BY <1>1, <1>4, TakeInRange
<1> HIDE DEF pos2, got2
<1>7. CASE Payload(pos, rx, got, PayloadSize(c))
  BY <1>3, <1>7, PayloadTypes
<1>8. CASE Ready(pos, got) \/ Ready(pos2, got) \/ Ready(pos2, got2)
  BY <1>5, <1>6, <1>8, ReadyTypes
<1>9. CASE /\ rpos' = pos /\ buffered' = 0 /\ state' = "clean"
           /\ done' = Number /\ UNCHANGED <<wait, todo, halted>>
  BY <1>9 DEF FetchTypes, TypeOK, State, Number
<1>10. CASE TooLong(pos2, got2, PayloadSize(c))
  BY <1>3, <1>5, <1>6, <1>10 DEF TooLong, FetchTypes, TypeOK, State
<1>11. CASE Payload(pos2, (rx - missing) % WordMod, got2, PayloadSize(c))
  BY <1>3, <1>5, <1>6, <1>11, PayloadTypes
<1>12. CASE /\ rpos' = Take(pos, rx) /\ buffered' = got + rx /\ state' = "wait_cfg"
            /\ UNCHANGED <<wait, todo, done, halted>>
  BY <1>6, <1>12 DEF FetchTypes, TypeOK, State
<1> QED
  BY <1>7, <1>8, <1>9, <1>10, <1>11, <1>12 DEF Config, c, missing, pos2, got2

LEMMA FetchKeepsTypes ==
  ASSUME Typed, Fetch
  PROVE  Typed'
<1> DEFINE rx == arrived - rpos
<1>1. /\ arrived' = arrived /\ stream' = stream /\ rpos \in 0..arrived /\ arrived \in Nat
      /\ rx \in Nat /\ buffered \in Nat /\ wait \in Nat
  BY DEF Typed, TypeOK, Fetch, hostVars
<1>2. rx > 0 /\ state = "clean" => done < Len(stream)
  <2>1. SUFFICES ASSUME rx > 0, state = "clean" PROVE done # Len(stream)
    BY DEF Typed, Behind, TypeOK
  <2>2. rpos = EndOf(done) /\ arrived <= EndOf(Len(stream))
    BY <2>1 DEF Fetch, InFrame, Typed, Behind, Sent
  <2> QED
    BY <1>1, <2>1, <2>2, SentIsNat DEF Typed, Sent
<1>3. FetchTypes'
  <2>1. CASE /\ state = "clean" /\ rx = 1
             /\ rpos' = rpos + 1 /\ buffered' = 1 /\ state' = "wait_header"
             /\ UNCHANGED <<wait, todo, done, halted>>
    BY <1>1, <1>2, <2>1 DEF FetchTypes, Typed, TypeOK, State
  <2>2. CASE state = "clean" /\ rx > 1 /\ Config(rpos + 2, rx + buffered - 2, rx - 2, 2)
    <3>1. done < Len(stream) /\ rpos + 2 \in 0..arrived /\ rx - 2 \in Nat
      BY <1>1, <1>2, <2>2
    <3> QED
      BY <1>1, <2>2, <3>1, ConfigTypes DEF Typed
  <2>3. CASE state = "wait_header" /\ rx > 0 /\ Config(rpos + 1, rx + buffered - 1, rx - 1, 2)
    <3>1. done < Len(stream) /\ rpos + 1 \in 0..arrived /\ rx - 1 \in Nat
      BY <1>1, <2>3 DEF Typed, Behind
    <3> QED
      BY <1>1, <2>3, <3>1, ConfigTypes DEF Typed
  <2>4. CASE state = "wait_cfg" /\ Config(rpos, rx + buffered, rx, buffered)
    <3>1. done < Len(stream)
      BY <2>4 DEF Typed, Behind
    <3> QED
      BY <1>1, <2>4, <3>1, ConfigTypes DEF Typed
  <2>5. CASE state = "wait_payload" /\ Payload(rpos, rx, buffered, wait)
    <3>1. done < Len(stream)
      BY <2>5 DEF Typed, Behind
    <3> QED
      BY <1>1, <2>5, <3>1, PayloadTypes DEF Typed
  <2>6. CASE /\ state = "execute" /\ todo' = "execute"
             /\ UNCHANGED <<rpos, buffered, wait, state, done, halted>>
    BY <1>1, <2>6 DEF FetchTypes, Typed, Behind, TypeOK
  <2> QED
    BY <2>1, <2>2, <2>3, <2>4, <2>5, <2>6 DEF Fetch
<1>4. UNCHANGED <<hostVars, contVars, bufs, tdoVars, txVars, ran>>
  BY DEF Fetch
<1> QED
  BY <1>3, <1>4 DEF Typed, TypeOK, Behind, FetchTypes, hostVars, contVars, tdoVars, txVars, Sent, EndOf

\* The host's and the USB link's steps.
LEMMA SendKeepsTypes ==
  ASSUME Typed, NEW c \in Commands, Send(c)
  PROVE  Typed'
<1> DEFINE new == [cmd |-> c, end |-> Sent + CommandSize(c), held |-> HeldBack + Collects(c)]
           Element == [cmd : Commands, end : Nat, held : 0..ReadWindow]
<1>1. Sent \in Nat /\ CommandSize(c) \in Nat /\ Collects(c) \in Nat
  BY SizesAreNat, SentIsNat DEF Typed
<1>2. HeldBack \in Nat
  <2>1. CASE stream = <<>>
    BY <2>1 DEF HeldBack
  <2>2. CASE stream # <<>>
    <3>1. Len(stream) \in 1..Len(stream)
      BY <2>2, EmptySeq DEF Typed, TypeOK
    <3>2. stream[Len(stream)] \in Element
      BY <3>1, StreamElement DEF Typed
    <3> QED
      BY <2>2, <3>2, SizeAssumption DEF HeldBack
  <2> QED
    BY <2>1, <2>2
<1>3. new \in Element
  <2>1. HeldBack + Collects(c) \in 0..ReadWindow /\ Sent + CommandSize(c) \in Nat
    BY <1>1, <1>2, SizeAssumption DEF Send
  <2> QED
    BY <2>1
<1> HIDE DEF new, Element
<1>4. /\ stream' = Append(stream, new) /\ arrived = Sent
      /\ stream \in Seq(Element)
  BY DEF Send, new, Element, Typed, TypeOK
<1>5. /\ stream' \in Seq(Element) /\ Len(stream') = Len(stream) + 1
      /\ stream'[Len(stream) + 1] = new
  BY <1>3, <1>4, AppendProperties
<1>6. arrived' <= Sent'
  <2>1. Sent' = new.end /\ arrived' = Sent
    <3>1. Len(stream') # 0 /\ stream'[Len(stream')] = new
      BY <1>4, <1>5
    <3> QED
      BY <1>4, <3>1 DEF Sent, EndOf, Send
  <2>2. new.end = Sent + CommandSize(c)
    BY DEF new
  <2> QED
    BY <1>1, <2>1, <2>2
<1>7. done' <= Len(stream') /\ (state' # "clean" => done' < Len(stream'))
  BY <1>4, <1>5 DEF Send, cmdVars, Typed, TypeOK, Behind
<1>8. TypeOK'
  BY <1>4, <1>5 DEF Send, cmdVars, contVars, tdoVars, txVars, Typed, TypeOK, Element
<1> QED
  BY <1>6, <1>7, <1>8 DEF Typed, Behind

LEMMA EnvironmentKeepsTypes ==
  ASSUME Typed, (\E e \in 1..Sent : Arrive(e)) \/ Drain
  PROVE  Typed'
<1>1. ASSUME NEW e \in 1..Sent, Arrive(e) PROVE Typed'
  <2>1. /\ stream' = stream /\ arrived' = e /\ arrived < e /\ e <= Sent /\ Sent \in Nat
    BY <1>1, SentIsNat DEF Arrive, Typed
  <2>2. TypeOK'
    BY <1>1, <2>1 DEF Arrive, cmdVars, contVars, tdoVars, txVars, Typed, TypeOK
  <2> QED
    BY <1>1, <2>1, <2>2 DEF Arrive, cmdVars, Typed, Behind, Sent, EndOf
<1>2. CASE Drain
  BY <1>2, SizeAssumption DEF Drain, hostVars, cmdVars, contVars, tdoVars, Typed, TypeOK, Behind, Sent, EndOf
<1> QED
  BY <1>1, <1>2

\* What every step of the main loop but Send and Arrive leaves alone.
LEMMA BehindKept ==
  ASSUME Typed, UNCHANGED hostVars,
         \/ UNCHANGED <<done, state>>
         \/ state # "clean" /\ done' = Number /\ state' = "clean"
  PROVE  Behind'
<1>1. /\ stream' = stream /\ arrived' = arrived /\ arrived <= Sent /\ Sent' = Sent
      /\ done \in Nat /\ Len(stream) \in Nat
  BY DEF Typed, Behind, TypeOK, hostVars, Sent, EndOf
<1>2. CASE UNCHANGED <<done, state>>
  BY <1>1, <1>2 DEF Typed, Behind
<1>3. CASE state # "clean" /\ done' = Number /\ state' = "clean"
  BY <1>1, <1>3 DEF Typed, Behind, Number
<1> QED
  BY <1>2, <1>3

LEMMA DispatchKeepsTypes ==
  ASSUME Typed, FlushPending \/ FlushDecided \/ RunPrepared
  PROVE  Typed'
<1>1. UNCHANGED <<hostVars, rpos, cmdVars, contVars, bufs, tdo, flushed, immFlush, txVars, halted, ran>>
  BY DEF FlushPending, FlushDecided, RunPrepared, tdoVars
<1>2. haveNew' \in BOOLEAN /\ shouldFlush' \in BOOLEAN /\ todo' \in {"flush", "run"}
  BY DEF FlushPending, FlushDecided, RunPrepared, tdoVars, Typed, TypeOK
<1>3. TypeOK'
  BY <1>1, <1>2 DEF hostVars, cmdVars, contVars, txVars, Typed, TypeOK
<1> QED
  BY <1>1, <1>3, BehindKept DEF Typed, cmdVars

LEMMA CopiesType ==
  ASSUME NEW n \in Nat, NEW k \in Nat
  PROVE  Copies(n, k) \in Seq(Nat) /\ Len(Copies(n, k)) = n
<1>1. Copies(n, k) \in [1..n -> Nat]
  BY DEF Copies
<1>2. Copies(n, k) \in Seq(Nat)
  BY <1>1, SMT
<1> QED
  BY <1>1, <1>2, LenProperties, SMT

LEMMA FlushKeepsTypes ==
  ASSUME Typed, FlushTdo
  PROVE  Typed' /\ flushed' + Len(tdo') \in Nat
<1>1. /\ tdo \in Seq(Nat) /\ tx \in Seq(Nat) /\ txFree \in 0..TxSize /\ TxSize \in Nat
      /\ flushed \in Nat /\ Len(tdo) \in Nat
  BY SizeAssumption DEF Typed, TypeOK
<1>2. CASE FlushAll
  <2>1. SubSeq(tdo, 1, Len(tdo)) \in Seq(Nat)
    BY <1>1
  <2>2. tx' \in Seq(Nat) /\ txFree' \in 0..TxSize
    BY <1>1, <1>2, <2>1, ConcatProperties DEF FlushAll, Flushed
  <2>3. tdo' \in Seq(Nat) /\ flushed' \in Nat
    BY <1>2, EmptySeq DEF FlushAll
  <2>4. TypeOK'
    BY <1>2, <2>2, <2>3 DEF FlushAll, FlushTdo, hostVars, cmdVars, contVars, Typed, TypeOK
  <2> QED
    BY <2>3, <2>4, LenProperties, BehindKept DEF FlushTdo, Typed, cmdVars
<1>3. CASE FlushPart
  <2>1. /\ SubSeq(tdo, 1, txFree) \in Seq(Nat)
        /\ SubSeq(tdo, txFree + 1, Len(tdo)) \in Seq(Nat)
    BY <1>1, <1>3, SubSeqProperties DEF FlushPart
  <2>2. tx' \in Seq(Nat) /\ txFree' \in 0..TxSize
    BY <1>1, <1>3, <2>1, ConcatProperties DEF FlushPart, Flushed
  <2>3. tdo' \in Seq(Nat) /\ flushed' \in Nat
    BY <1>1, <1>3, <2>1 DEF FlushPart
  <2>4. TypeOK'
    BY <1>3, <2>2, <2>3 DEF FlushPart, FlushTdo, hostVars, cmdVars, contVars, Typed, TypeOK
  <2> QED
    BY <2>3, <2>4, LenProperties, BehindKept DEF FlushTdo, Typed, cmdVars
<1> QED
  BY <1>2, <1>3 DEF FlushTdo

LEMMA RunKeepsTypes ==
  ASSUME Typed, RunJtag
  PROVE  Typed'
<1>1. PICK x \in Buf :
        /\ bufs' = Released(x) /\ immFlush' = bufs[x].imm /\ haveNew' = TRUE
        /\ tdo' = tdo \o Copies(bufs[x].tdo, bufs[x].cmd)
        /\ ran' = ran \o Copies(bufs[x].xfers, bufs[x].cmd)
  BY DEF RunJtag
<1>2. bufs[x] \in Block
  BY DEF Typed, TypeOK
<1>3. /\ bufs[x].imm \in BOOLEAN /\ bufs[x].tdo \in Nat /\ bufs[x].cmd \in Nat
      /\ bufs[x].xfers \in Nat
  BY <1>2 DEF Block
<1>4. tdo' \in Seq(Nat) /\ ran' \in Seq(Nat)
  BY <1>1, <1>3, CopiesType, ConcatProperties DEF Typed, TypeOK
<1>5. bufs' \in [Buf -> Block]
  BY <1>1, <1>2 DEF Released, Block, Typed, TypeOK
<1>6. TypeOK'
  BY <1>1, <1>3, <1>4, <1>5 DEF RunJtag, hostVars, cmdVars, contVars, txVars, Typed, TypeOK
<1> QED
  BY <1>6, BehindKept DEF RunJtag, Typed, cmdVars

\* The operations on commands.
LEMMA BlockTypes ==
  ASSUME Typed, NEW x \in Buf, done < Len(stream)
  PROVE  /\ PrepareAccess(x, Current) => bufs' \in [Buf -> Block]
         /\ \A p \in Nat : PrepareWrite(x, p) => bufs' \in [Buf -> Block]
<1>1. Current \in Command /\ Number \in Nat
  BY CurrentIsCommand, CommandsAssumption DEF Typed, TypeOK, Number
<1>2. Current.n \in Nat /\ Current.imm \in BOOLEAN
  BY <1>1 DEF Command
<1>3. bufs \in [Buf -> Block] /\ bufs[x] \in Block
  BY DEF Typed, TypeOK
<1>4. ASSUME PrepareAccess(x, Current) PROVE bufs' \in [Buf -> Block]
  <2>1. [prepared |-> TRUE, imm |-> Current.imm,
         tdo |-> IF Current.read THEN Current.n ELSE 0, cmd |-> Number, xfers |-> 1] \in Block
    BY <1>1, <1>2 DEF Block
  <2> QED
    BY <1>3, <1>4, <2>1 DEF PrepareAccess
<1>5. ASSUME NEW p \in Nat, PrepareWrite(x, p) PROVE bufs' \in [Buf -> Block]
  BY <1>1, <1>3, <1>5 DEF PrepareWrite, Block
<1> QED
  BY <1>4, <1>5

LEMMA RepliesKeepTypes ==
  ASSUME Typed, DirectReply \/ Settle \/ TapReset \/ NothingDone
  PROVE  Typed'
<1>1. /\ UNCHANGED <<hostVars, rpos, contVars, bufs, tdo, flushed, immFlush, shouldFlush, halted, ran>>
      /\ todo' = "dispatch" /\ state = "execute"
      /\ CommandDone \/ UNCHANGED cmdVars
  BY DEF DirectReply, Settle, TapReset, NothingDone, Executing, tdoVars
<1>2. tx' \in Seq(Nat) /\ txFree' \in 0..TxSize
  <2>0. tx \in Seq(Nat) /\ txFree \in 0..TxSize /\ TxSize \in Nat /\ Number \in Nat
    BY SizeAssumption DEF Typed, TypeOK, Number
  <2>1. CASE DirectReply
    <3>1. Append(tx, Number) \in Seq(Nat)
      BY <2>0, AppendProperties
    <3>2. \/ tx' = Append(tx, Number) /\ txFree >= 1 /\ txFree' = txFree - 1
          \/ tx' = tx /\ txFree' = txFree
      BY <2>1 DEF DirectReply, txVars
    <3> QED
      BY <2>0, <3>1, <3>2, SMTT(30)
  <2>2. CASE Settle \/ TapReset \/ NothingDone
    BY <2>2 DEF Settle, TapReset, NothingDone, txVars, Typed, TypeOK
  <2> QED
    BY <2>1, <2>2
<1>3. haveNew' \in BOOLEAN
  BY DEF DirectReply, Settle, TapReset, NothingDone, tdoVars, Typed, TypeOK
<1>4. buffered' \in Nat /\ wait' \in Nat /\ state' \in State /\ done' \in Nat
  BY <1>1 DEF CommandDone, cmdVars, Typed, TypeOK, State, Number
<1>5. TypeOK'
  BY <1>1, <1>2, <1>3, <1>4 DEF hostVars, contVars, Typed, TypeOK
<1> QED
  BY <1>1, <1>5, BehindKept DEF CommandDone, cmdVars, Typed

LEMMA IrDrWriteKeepsTypes ==
  ASSUME Typed, IrDrWrite
  PROVE  Typed'
<1>1. /\ UNCHANGED <<hostVars, rpos, contVars, tdo, flushed, immFlush, haveNew, txVars, halted, ran>>
      /\ todo' = "dispatch" /\ state = "execute"
      /\ CommandDone \/ UNCHANGED cmdVars
      /\ shouldFlush' \in BOOLEAN
  BY DEF IrDrWrite, Executing, Typed, TypeOK
<1>2. bufs' \in [Buf -> Block]
  <2>1. done < Len(stream)
    BY <1>1 DEF Typed, Behind
  <2> QED
    BY <2>1, BlockTypes DEF IrDrWrite, Typed, TypeOK
<1>3. buffered' \in Nat /\ wait' \in Nat /\ state' \in State /\ done' \in Nat
  BY <1>1 DEF CommandDone, cmdVars, Typed, TypeOK, State, Number
<1>4. TypeOK'
  BY <1>1, <1>2, <1>3 DEF hostVars, contVars, txVars, Typed, TypeOK
<1> QED
  BY <1>1, <1>4, BehindKept DEF CommandDone, cmdVars, Typed

LEMMA FastWriteKeepsTypes ==
  ASSUME Typed, FastWrite
  PROVE  Typed'
<1>1. /\ UNCHANGED <<hostVars, rpos, state, wait, done, bufs, tdoVars, txVars, ran>>
      /\ todo' = "dispatch" /\ state = "execute" /\ ~continuation
  BY DEF FastWrite, Executing
<1>2. done < Len(stream)
  BY <1>1 DEF Typed, Behind
<1>3. Current \in Command
  BY <1>2, CurrentIsCommand, CommandsAssumption DEF Typed
<1>4. Current.n \in Nat /\ Current.w \in Nat /\ Current.w > 0
  BY <1>1, <1>2, <1>3, CurrentIsCommand, CommandsAssumption DEF Command, Executing, FastWrite, Typed
<1>5. perBlk' \in Nat
  <2>1. BufSize \div (4 * Current.w) \in Nat
    BY <1>4, SizeAssumption
  <2> QED
    BY <1>4, <2>1, LeastIsOne, SizeAssumption DEF FastWrite, PerBlock
<1>6. /\ buffered' \in Nat /\ xfersLeft' \in Nat /\ continuation' \in BOOLEAN
      /\ halted' \in BOOLEAN
  <2>1. /\ buffered \in Nat /\ xfersLeft \in Nat /\ halted \in BOOLEAN
        /\ continuation \in BOOLEAN
    BY DEF Typed, TypeOK
  <2>2. \/ buffered' = 0 /\ xfersLeft' = Current.n /\ continuation' = TRUE /\ halted' = halted
        \/ /\ buffered' = buffered /\ xfersLeft' = xfersLeft /\ continuation' = continuation
           /\ halted' = TRUE
    BY DEF FastWrite
  <2>3. buffered' \in Nat /\ xfersLeft' \in Nat
    BY <1>4, <2>1, <2>2
  <2>4. continuation' \in BOOLEAN
    BY <2>1, <2>2, Zenon
  <2>5. halted' \in BOOLEAN
    BY <2>1, <2>2, Zenon
  <2> QED
    BY <2>3, <2>4, <2>5
<1>7. TypeOK'
  BY <1>1, <1>5, <1>6 DEF hostVars, tdoVars, txVars, Typed, TypeOK
<1> QED
  BY <1>1, <1>7, BehindKept DEF Typed

LEMMA ContinueKeepsTypes ==
  ASSUME Typed, ContinueFastWrite
  PROVE  Typed'
<1> DEFINE p == Least(perBlk, xfersLeft)
           size == DataSize(p)
<1>1. /\ UNCHANGED <<hostVars, tdoVars, txVars, halted, ran>>
      /\ todo' = "dispatch" /\ state = "execute" /\ perBlk' = p
  BY DEF ContinueFastWrite
<1>2. done < Len(stream)
  BY <1>1 DEF Typed, Behind
<1>3. p \in Nat /\ p <= xfersLeft /\ xfersLeft - p \in Nat
  <2>1. perBlk \in Nat /\ xfersLeft \in Nat
    BY DEF Typed, TypeOK
  <2>2. p \in Nat /\ p <= xfersLeft
    BY <2>1, LeastIsOne
  <2> QED
    BY <2>1, <2>2
<1> HIDE DEF p
<1>4. size \in Nat
  BY <1>2, <1>3, CurrentIsCommand, DataSizeIsNat DEF Typed
<1> HIDE DEF size
<1>5. rpos \in 0..arrived /\ arrived \in Nat /\ buffered \in Nat /\ xfersLeft \in Nat
  BY DEF Typed, TypeOK
<1>6. CASE /\ ~Gathered(p)
           /\ rpos' = arrived /\ buffered' = buffered + (arrived - rpos)
           /\ UNCHANGED <<state, wait, done, continuation, xfersLeft, bufs>>
  <2>1. rpos' \in 0..arrived /\ buffered' \in Nat
    BY <1>5, <1>6
  <2>2. TypeOK'
    BY <1>1, <1>3, <1>6, <2>1 DEF hostVars, tdoVars, txVars, Typed, TypeOK
  <2> QED
    BY <1>1, <1>6, <2>2, BehindKept DEF Typed
<1>7. CASE /\ Gathered(p)
           /\ rpos' = IF buffered < size THEN rpos + (size - buffered) ELSE rpos
           /\ \/ /\ \E x \in Buf : FreeBlock(x) /\ PrepareWrite(x, p)
                 /\ xfersLeft' = xfersLeft - p
                 /\ WriteContinues(p) \/ WriteEnds(p)
              \/ /\ ~(\E x \in Buf : FreeBlock(x))
                 /\ buffered' = IF buffered < size THEN size ELSE buffered
                 /\ UNCHANGED <<state, wait, done, continuation, xfersLeft, bufs>>
  <2>1. rpos' \in 0..arrived
    <3>1. buffered + (arrived - rpos) >= size
      BY <1>7 DEF Gathered, size
    <3> QED
      BY <1>4, <1>5, <1>7, <3>1
  <2>2. bufs' \in [Buf -> Block]
    BY <1>2, <1>3, <1>7, BlockTypes DEF Typed, TypeOK
  <2>3. xfersLeft' \in Nat /\ buffered' \in Nat
    BY <1>3, <1>4, <1>5, <1>7 DEF WriteContinues, WriteEnds, CommandDone
  <2>4. \/ UNCHANGED <<state, done, wait>>
        \/ state' = "clean" /\ done' = Number /\ wait' = 0
    BY <1>7 DEF WriteContinues, WriteEnds, CommandDone
  <2>5. state' \in State /\ wait' \in Nat /\ done' \in Nat
    BY <2>4 DEF Typed, TypeOK, State, Number
  <2>6. continuation' \in BOOLEAN
    BY <1>7 DEF WriteContinues, WriteEnds, Typed, TypeOK
  <2>7. TypeOK'
    BY <1>1, <1>3, <2>1, <2>2, <2>3, <2>5, <2>6 DEF hostVars, tdoVars, txVars, Typed, TypeOK
  <2> QED
    BY <1>1, <2>4, <2>7, BehindKept DEF Typed
<1> QED
  BY <1>6, <1>7 DEF ContinueFastWrite, p, size

(***************************************************************************)
(* Type correctness.                                                       *)
(***************************************************************************)
LEMMA TypesInitially == Init => Typed
<1> SUFFICES ASSUME Init PROVE Typed
  OBVIOUS
<1>1. NoBlock \in Block
  BY DEF NoBlock, Block
<1>2. <<>> \in Seq(Nat) /\ <<>> \in Seq([cmd : Commands, end : Nat, held : 0..ReadWindow])
      /\ Len(<<>>) = 0
  BY EmptySeq
<1>3. bufs \in [Buf -> Block]
  BY <1>1 DEF Init
<1>4. rpos \in 0..arrived /\ txFree \in 0..TxSize
  BY SizeAssumption DEF Init
<1>5. state \in State
  BY DEF Init, State
<1>6. TypeOK
  BY <1>2, <1>3, <1>4, <1>5 DEF Init, TypeOK
<1>7. Behind
  BY <1>2 DEF Init, Behind, Sent, EndOf
<1> QED
  BY <1>6, <1>7 DEF Typed

LEMMA TypesKept == Typed /\ [Next]_vars => Typed'
<1> SUFFICES ASSUME Typed, [Next]_vars PROVE Typed'
  OBVIOUS
<1>1. ASSUME NEW c \in Commands, Send(c) PROVE Typed'
  BY <1>1, SendKeepsTypes
<1>2. CASE (\E e \in 1..Sent : Arrive(e)) \/ Drain
  BY <1>2, EnvironmentKeepsTypes
<1>3. CASE FlushPending \/ FlushDecided \/ RunPrepared
  BY <1>3, DispatchKeepsTypes
<1>4. CASE Fetch
  BY <1>4, FetchKeepsTypes
<1>5. CASE DirectReply \/ Settle \/ TapReset \/ NothingDone
  BY <1>5, RepliesKeepTypes
<1>6. CASE IrDrWrite
  BY <1>6, IrDrWriteKeepsTypes
<1>7. CASE FastWrite
  BY <1>7, FastWriteKeepsTypes
<1>8. CASE ContinueFastWrite
  BY <1>8, ContinueKeepsTypes
<1>9. CASE FlushTdo
  BY <1>9, FlushKeepsTypes
<1>10. CASE RunJtag
  BY <1>10, RunKeepsTypes
<1>11. CASE UNCHANGED vars
  BY <1>11 DEF vars, Typed, TypeOK, Behind, Sent, EndOf
<1> QED
  BY <1>1, <1>2, <1>3, <1>4, <1>5, <1>6, <1>7, <1>8, <1>9, <1>10, <1>11 DEF Next, Main, Execute

\* Every variable keeps its type, and the device never executes a command the
\* host has not sent.
THEOREM TypeCorrect == Spec => []TypeOK
<1>1. Typed => TypeOK
  BY DEF Typed
<1> QED
  BY <1>1, TypesInitially, TypesKept, PTL DEF Spec

(***************************************************************************)
(* The turns of the main loop.  NeverSpins and DataReachable hold because  *)
(* dispatch lets a command through only when nothing is left to flush or   *)
(* to run; neither is inductive without what dispatch promises the other   *)
(* two branches of the loop.                                               *)
(***************************************************************************)
Idle == ~bufs["a"].prepared /\ ~shouldFlush /\ ~(immFlush /\ haveNew)

Orderly ==
  /\ ~bufs["b"].prepared
  /\ todo = "execute" => Idle
  /\ todo = "run" => bufs["a"].prepared /\ ~shouldFlush
  /\ todo = "flush" => shouldFlush
  /\ Len(tdo) > 0 => haveNew \/ shouldFlush
  /\ continuation => state = "execute" /\ Current.op \in FastWrites

(***************************************************************************)
(* The accounting of collected data: a bound by what the host has asked to *)
(* collect since it last asked for everything to be sent back.             *)
(***************************************************************************)
HeldAt(k) == IF k = 0 THEN 0 ELSE stream[k].held
UrgentAt(k) == k # 0 /\ Urgent(stream[k].cmd)
LeftAt(k) == IF UrgentAt(k) THEN 0 ELSE HeldAt(k)

StreamSound ==
  \A k \in 1..Len(stream) : stream[k].held = LeftAt(k - 1) + Collects(stream[k].cmd)

Pending == IF bufs["a"].prepared THEN bufs["a"].tdo ELSE 0

Accounted ==
  /\ flushed + Len(tdo) + Pending <= HeldAt(done)
  /\ ~shouldFlush => flushed = 0
  /\ UrgentAt(done) =>
       \/ ~bufs["a"].prepared /\ (tdo = <<>> \/ shouldFlush \/ (immFlush /\ haveNew))
       \/ bufs["a"].prepared /\ (bufs["a"].imm \/ (tdo = <<>> /\ bufs["a"].tdo = 0))
LEMMA OrderlyInitially == Init => Orderly
<1> SUFFICES ASSUME Init PROVE Orderly
  OBVIOUS
<1>1. ~bufs["a"].prepared /\ ~bufs["b"].prepared
  BY DEF Init, NoBlock, Buf
<1> QED
  BY <1>1 DEF Init, Orderly

\* The current command stays current while the host sends more.
LEMMA CurrentKept ==
  ASSUME Typed, done < Len(stream), UNCHANGED done,
         \/ UNCHANGED stream
         \/ \E c \in Commands : Send(c)
  PROVE  Current' = Current
<1>1. done + 1 \in 1..Len(stream) /\ done' = done
  BY DEF Typed, TypeOK
<1>2. CASE UNCHANGED stream
  BY <1>1, <1>2 DEF Current, Number
<1>3. CASE \E c \in Commands : Send(c)
  <2>1. PICK c \in Commands : Send(c)
    BY <1>3
  <2>2. PICK e \in [cmd : Commands, end : Nat, held : 0..ReadWindow] : stream' = Append(stream, e)
    <3>1. stream' \in Seq([cmd : Commands, end : Nat, held : 0..ReadWindow])
      BY <2>1, SendKeepsTypes DEF Typed, TypeOK
    <3>2. stream' = Append(stream, [cmd |-> c, end |-> Sent + CommandSize(c), held |-> HeldBack + Collects(c)])
      BY <2>1 DEF Send
    <3>3. Len(stream) + 1 \in 1..Len(stream')
      BY <3>2 DEF Typed, TypeOK
    <3>4. stream'[Len(stream) + 1] \in [cmd : Commands, end : Nat, held : 0..ReadWindow]
      BY <3>1, <3>3, ElementOfSeq
    <3>5. stream'[Len(stream) + 1] = [cmd |-> c, end |-> Sent + CommandSize(c), held |-> HeldBack + Collects(c)]
      BY <3>2 DEF Typed, TypeOK
    <3> QED
      BY <3>2, <3>4, <3>5
  <2>3. stream'[done + 1] = stream[done + 1]
    BY <1>1, <2>2, AppendProperties DEF Typed, TypeOK
  <2> QED
    BY <1>1, <2>3 DEF Current, Number
<1> QED
  BY <1>2, <1>3

\* Steps of the host and the link, and steps that leave the loop's turn alone.
LEMMA OrderlyOutside ==
  ASSUME Typed, Orderly, (\E c \in Commands : Send(c)) \/ UNCHANGED stream,
         UNCHANGED <<state, done, todo, continuation, bufs, tdo, immFlush, haveNew, shouldFlush>>
  PROVE  Orderly'
<1>1. continuation' => state' = "execute" /\ Current'.op \in FastWrites
  <2>1. SUFFICES ASSUME continuation PROVE state = "execute" /\ Current'.op \in FastWrites
    OBVIOUS
  <2>2. state = "execute" /\ Current.op \in FastWrites
    BY <2>1 DEF Orderly
  <2>3. Current' = Current
    BY <2>2, CurrentKept DEF Typed, Behind
  <2> QED
    BY <2>2, <2>3
<1> QED
  BY <1>1 DEF Orderly, Idle

\* dispatch.
LEMMA OrderlyDispatch ==
  ASSUME Typed, Orderly, FlushPending \/ FlushDecided \/ RunPrepared
  PROVE  Orderly'
<1>1. UNCHANGED <<stream, state, done, continuation, bufs, tdo, immFlush>>
  BY DEF FlushPending, FlushDecided, RunPrepared, hostVars, cmdVars, contVars, tdoVars
<1>2. Current' = Current
  BY <1>1 DEF Current, Number
<1>3. CASE FlushPending
  BY <1>1, <1>2, <1>3 DEF FlushPending, Dispatching, tdoVars, Orderly
<1>4. CASE FlushDecided
  BY <1>1, <1>2, <1>4 DEF FlushDecided, Orderly
<1>5. CASE RunPrepared
  <2>1. bufs["a"].prepared
    BY <1>5 DEF RunPrepared, Prepared, Buf, Orderly
  <2> QED
    BY <1>1, <1>2, <1>5, <2>1 DEF RunPrepared, NothingToFlush, tdoVars, Orderly
<1> QED
  BY <1>3, <1>4, <1>5

\* Fetching only hands over a command when nothing is left to flush or to run,
\* and leaves a fast write that is going on alone.
LEMMA FetchTurn ==
  ASSUME Fetch
  PROVE  /\ NothingToFlush /\ ~Prepared
         /\ todo' \in {todo, "execute"}
         /\ UNCHANGED <<stream, continuation, bufs, tdoVars>>
         /\ state = "execute" => UNCHANGED <<state, done>>
         /\ \/ UNCHANGED done
            \/ done' = Number /\ Current.op = "unknown" /\ state' = "clean"
<1>1. /\ NothingToFlush /\ ~Prepared /\ UNCHANGED <<stream, continuation, bufs, tdoVars>>
  BY DEF Fetch, hostVars, contVars
<1>2. ASSUME NEW pos, NEW got, NEW rx, NEW w, Payload(pos, rx, got, w)
      PROVE  todo' \in {todo, "execute"} /\ UNCHANGED done
  BY <1>2 DEF Payload, Ready
<1>3. ASSUME NEW pos, NEW got, NEW rx, NEW len, Config(pos, len, rx, got)
      PROVE  /\ todo' \in {todo, "execute"}
             /\ \/ UNCHANGED done
                \/ done' = Number /\ Current.op = "unknown" /\ state' = "clean"
  BY <1>2, <1>3 DEF Config, Ready, TooLong
<1>4. state = "execute" => UNCHANGED <<state, done>> /\ todo' \in {todo, "execute"}
  BY DEF Fetch
<1>5. /\ todo' \in {todo, "execute"}
      /\ \/ UNCHANGED done
         \/ done' = Number /\ Current.op = "unknown" /\ state' = "clean"
  BY <1>2, <1>3 DEF Fetch
<1> QED
  BY <1>1, <1>4, <1>5

LEMMA OrderlyFetch ==
  ASSUME Typed, Orderly, Fetch
  PROVE  Orderly'
<1>1. /\ ~bufs["a"].prepared /\ UNCHANGED <<bufs, tdoVars>> /\ NothingToFlush
      /\ todo' \in {"dispatch", "execute"}
  BY FetchTurn DEF Prepared, Buf, NothingToFlush, Dispatching
<1>2. continuation' => state' = "execute" /\ Current'.op \in FastWrites
  BY FetchTurn DEF Orderly, Current, Number
<1> QED
  BY <1>1, <1>2 DEF NothingToFlush, tdoVars, Orderly, Idle

\* The operations on commands: they start idle, and end with the turn at dispatch.
LEMMA OrderlyReplies ==
  ASSUME Typed, Orderly, DirectReply \/ Settle \/ TapReset \/ NothingDone
  PROVE  Orderly'
<1>1. /\ UNCHANGED <<bufs, continuation, tdo, shouldFlush>> /\ ~continuation
      /\ todo' = "dispatch"
      /\ haveNew' = haveNew \/ haveNew' = TRUE
  BY DEF DirectReply, Settle, TapReset, NothingDone, Executing, contVars, tdoVars
<1> QED
  BY <1>1 DEF Orderly

LEMMA OrderlyIrDrWrite ==
  ASSUME Typed, Orderly, IrDrWrite
  PROVE  Orderly'
<1>1. /\ UNCHANGED <<continuation, tdo, haveNew>> /\ ~continuation /\ todo' = "dispatch"
      /\ shouldFlush' = shouldFlush \/ shouldFlush' = TRUE
      /\ todo = "execute"
  BY DEF IrDrWrite, Executing, contVars
<1>2. ~bufs'["b"].prepared
  <2>1. ~bufs["a"].prepared /\ ~bufs["b"].prepared /\ bufs \in [Buf -> Block]
    BY <1>1 DEF Orderly, Idle, Typed, TypeOK
  <2>2. \A x \in Buf : FreeBlock(x) => x = "a"
    BY <2>1 DEF FreeBlock, Buf
  <2> QED
    BY <2>1, <2>2 DEF IrDrWrite, PrepareAccess, Buf
<1> QED
  BY <1>1, <1>2 DEF Orderly

LEMMA OrderlyFastWrite ==
  ASSUME Typed, Orderly, FastWrite
  PROVE  Orderly'
<1>1. /\ UNCHANGED <<stream, state, done, bufs, tdoVars>> /\ todo' = "dispatch"
      /\ state = "execute" /\ Current.op \in FastWrites
  BY DEF FastWrite, Executing, hostVars
<1> QED
  BY <1>1 DEF Orderly, tdoVars, Current, Number

LEMMA OrderlyContinue ==
  ASSUME Typed, Orderly, ContinueFastWrite
  PROVE  Orderly'
<1> DEFINE p == Least(perBlk, xfersLeft)
<1>1. /\ UNCHANGED <<stream, tdoVars>> /\ todo' = "dispatch" /\ todo = "execute"
      /\ continuation /\ state = "execute"
      /\ UNCHANGED <<state, done, continuation>> \/ continuation' = FALSE
      /\ bufs' = bufs \/ \E x \in Buf : FreeBlock(x) /\ PrepareWrite(x, p)
  BY DEF ContinueFastWrite, hostVars, WriteContinues, WriteEnds
<1> HIDE DEF p
<1>2. ~bufs'["b"].prepared
  <2>1. ~bufs["a"].prepared /\ ~bufs["b"].prepared /\ bufs \in [Buf -> Block]
    BY <1>1 DEF Orderly, Idle, Typed, TypeOK
  <2>2. \A x \in Buf : FreeBlock(x) => x = "a"
    BY <2>1 DEF FreeBlock, Buf
  <2> QED
    BY <1>1, <2>1, <2>2 DEF PrepareWrite, Buf
<1>3. continuation' => state' = "execute" /\ Current'.op \in FastWrites
  BY <1>1 DEF Orderly, Current, Number
<1> QED
  BY <1>1, <1>2, <1>3 DEF Orderly, tdoVars

\* The other branches of the loop.
LEMMA OrderlyFlush ==
  ASSUME Typed, Orderly, FlushTdo
  PROVE  Orderly'
<1>1. /\ UNCHANGED <<stream, state, done, continuation, bufs, haveNew>>
      /\ todo' = "dispatch" /\ shouldFlush
  BY DEF FlushTdo, hostVars, cmdVars, contVars, Orderly
<1>2. Len(tdo') > 0 => haveNew' \/ shouldFlush'
  <2>1. CASE FlushAll
    BY <2>1, EmptySeq DEF FlushAll
  <2>2. CASE FlushPart
    BY <1>1, <2>2 DEF FlushPart
  <2> QED
    BY <2>1, <2>2 DEF FlushTdo
<1>3. Current' = Current
  BY <1>1 DEF Current, Number
<1> QED
  BY <1>1, <1>2, <1>3 DEF Orderly

LEMMA OrderlyRun ==
  ASSUME Typed, Orderly, RunJtag
  PROVE  Orderly'
<1>1. /\ UNCHANGED <<stream, state, done, continuation, shouldFlush>>
      /\ todo' = "dispatch" /\ haveNew' = TRUE
  BY DEF RunJtag, hostVars, cmdVars, contVars
<1>2. ~bufs'["b"].prepared
  BY DEF RunJtag, Released, Orderly, Buf, Typed, TypeOK
<1> QED
  BY <1>1, <1>2 DEF Orderly, Current, Number

LEMMA OrderlyKept == Typed /\ Orderly /\ [Next]_vars => Orderly'
<1> SUFFICES ASSUME Typed, Orderly, [Next]_vars PROVE Orderly'
  OBVIOUS
<1>1. CASE (\E c \in Commands : Send(c)) \/ (\E e \in 1..Sent : Arrive(e)) \/ Drain \/ UNCHANGED vars
  <2>1. UNCHANGED <<state, done, todo, continuation, bufs, tdo, immFlush, haveNew, shouldFlush>>
    BY <1>1 DEF Send, Arrive, Drain, vars, cmdVars, contVars, tdoVars
  <2>2. (\E c \in Commands : Send(c)) \/ UNCHANGED stream
    BY <1>1 DEF Arrive, Drain, hostVars, vars
  <2> QED
    BY <2>1, <2>2, OrderlyOutside
<1>2. CASE FlushPending \/ FlushDecided \/ RunPrepared
  BY <1>2, OrderlyDispatch
<1>3. CASE Fetch
  BY <1>3, OrderlyFetch
<1>4. CASE DirectReply \/ Settle \/ TapReset \/ NothingDone
  BY <1>4, OrderlyReplies
<1>5. CASE IrDrWrite
  BY <1>5, OrderlyIrDrWrite
<1>6. CASE FastWrite
  BY <1>6, OrderlyFastWrite
<1>7. CASE ContinueFastWrite
  BY <1>7, OrderlyContinue
<1>8. CASE FlushTdo
  BY <1>8, OrderlyFlush
<1>9. CASE RunJtag
  BY <1>9, OrderlyRun
<1> QED
  BY <1>1, <1>2, <1>3, <1>4, <1>5, <1>6, <1>7, <1>8, <1>9 DEF Next, Main, Execute

LEMMA AlwaysOrderly == Spec => [](Typed /\ Orderly)
<1>1. Init => Typed /\ Orderly
  BY TypesInitially, OrderlyInitially
<1>2. (Typed /\ Orderly) /\ [Next]_vars => (Typed /\ Orderly)'
  BY TypesKept, OrderlyKept
<1> QED
  BY <1>1, <1>2, PTL DEF Spec

\* wait_until_jtag_periph_free never spins, and the second JTAG buffer is never
\* needed: no command is executed while a buffer waits to be run.
THEOREM PortAlwaysFree == Spec => []NeverSpins
<1>1. Typed /\ Orderly => NeverSpins
  BY DEF Orderly, Idle, NeverSpins, Buf
<1> QED
  BY <1>1, AlwaysOrderly, PTL

\* Data in tdo_in_data never become unreachable: either tdo_have_new_data is
\* still set, so that the next immediate_send_back flushes them, or the flush has
\* been decided and is not given up before they are gone.
THEOREM DataStayReachable == Spec => []DataReachable
<1>1. Typed /\ Orderly => DataReachable
  BY DEF Orderly, DataReachable
<1> QED
  BY <1>1, AlwaysOrderly, PTL
(***************************************************************************)
(* The accounting is kept.                                                 *)
(***************************************************************************)
Counted == StreamSound /\ Accounted

LEMMA CountedInitially == Init => Counted
<1> SUFFICES ASSUME Init PROVE Counted
  OBVIOUS
<1>1. stream = <<>> /\ tdo = <<>> /\ flushed = 0 /\ done = 0 /\ Len(<<>>) = 0
  BY EmptySeq DEF Init
<1>2. Pending = 0
  BY DEF Init, Pending, NoBlock, Buf
<1>3. StreamSound
  BY <1>1 DEF StreamSound
<1>4. Accounted
  BY <1>1, <1>2 DEF Accounted, HeldAt, UrgentAt
<1> QED
  BY <1>3, <1>4 DEF Counted

\* What sending leaves alone of the commands sent before.
LEMMA SendAppends ==
  ASSUME Typed, NEW c \in Commands, Send(c)
  PROVE  /\ Len(stream') = Len(stream) + 1
         /\ \A k \in 1..Len(stream) : stream'[k] = stream[k]
         /\ stream'[Len(stream) + 1].cmd = c
         /\ stream'[Len(stream) + 1].held = HeldBack + Collects(c)
<1> DEFINE new == [cmd |-> c, end |-> Sent + CommandSize(c), held |-> HeldBack + Collects(c)]
<1>1. /\ stream' = Append(stream, new) /\ new.cmd = c
      /\ new.held = HeldBack + Collects(c) /\ Len(stream) \in Nat
  BY DEF Send, Typed, TypeOK
<1> HIDE DEF new
<1> QED
  BY <1>1 DEF Typed, TypeOK

LEMMA HeldBackIsLeft ==
  ASSUME Typed
  PROVE  HeldBack = LeftAt(Len(stream))
<1>1. stream = <<>> <=> Len(stream) = 0
  BY EmptySeq DEF Typed, TypeOK
<1> QED
  BY <1>1 DEF HeldBack, LeftAt, UrgentAt, HeldAt

LEMMA LeftKept ==
  ASSUME Typed, UNCHANGED stream \/ \E c \in Commands : Send(c), NEW k \in 0..Len(stream)
  PROVE  HeldAt(k)' = HeldAt(k) /\ (UrgentAt(k)' <=> UrgentAt(k)) /\ LeftAt(k)' = LeftAt(k)
<1>1. k # 0 => stream'[k] = stream[k]
  <2>1. ASSUME NEW c \in Commands, Send(c), k # 0 PROVE stream'[k] = stream[k]
    <3>1. k \in 1..Len(stream)
      BY <2>1 DEF Typed, TypeOK
    <3> QED
      BY <2>1, <3>1, SendAppends
  <2> QED
    BY <2>1
<1>2. HeldAt(k)' = HeldAt(k) /\ (UrgentAt(k)' <=> UrgentAt(k))
  BY <1>1 DEF HeldAt, UrgentAt
<1> QED
  BY <1>2 DEF LeftAt

\* No step changes what the commands in the stream collect.
LEMMA StreamSoundKept ==
  ASSUME Typed, StreamSound, UNCHANGED stream \/ \E c \in Commands : Send(c)
  PROVE  StreamSound'
<1>1. CASE UNCHANGED stream
  BY <1>1 DEF StreamSound, LeftAt, UrgentAt, HeldAt
<1>2. ASSUME NEW c \in Commands, Send(c) PROVE StreamSound'
  <2>1. Len(stream) \in Nat
    BY DEF Typed, TypeOK
  <2>2. SUFFICES ASSUME NEW k \in 1..(Len(stream) + 1)
                 PROVE  stream'[k].held = LeftAt(k - 1)' + Collects(stream'[k].cmd)
    BY <1>2, SendAppends DEF StreamSound
  <2>3. k - 1 \in 0..Len(stream) /\ LeftAt(k - 1)' = LeftAt(k - 1)
    BY <1>2, <2>1, LeftKept
  <2>4. CASE k = Len(stream) + 1
    BY <1>2, <2>1, <2>3, <2>4, SendAppends, HeldBackIsLeft
  <2>5. CASE k # Len(stream) + 1
    <3>1. k \in 1..Len(stream)
      BY <2>1, <2>5
    <3> QED
      BY <1>2, <2>3, <3>1, SendAppends DEF StreamSound
  <2> QED
    BY <2>4, <2>5
<1> QED
  BY <1>1, <1>2

\* Between commands, with nothing to flush or to run, the TDO buffer holds no
\* more than what the host has left in the device.
LEMMA IdleRoom ==
  ASSUME Typed, Accounted, Idle
  PROVE  /\ flushed = 0 /\ Len(tdo) <= LeftAt(done) /\ LeftAt(done) \in Nat
         /\ LeftAt(done) <= HeldAt(done) /\ HeldAt(done) \in Nat
         /\ UrgentAt(done) => tdo = <<>>
<1>1. flushed = 0 /\ Pending = 0 /\ Len(tdo) \in Nat
  BY DEF Accounted, Idle, Pending, Typed, TypeOK
<1>2. HeldAt(done) \in Nat
  <2>1. CASE done = 0
    BY <2>1 DEF HeldAt
  <2>2. CASE done # 0
    <3>1. done \in 1..Len(stream)
      BY <2>2 DEF Typed, TypeOK, Behind
    <3>2. stream[done] \in [cmd : Commands, end : Nat, held : 0..ReadWindow]
      BY <3>1, StreamElement DEF Typed
    <3> QED
      BY <2>2, <3>2, SizeAssumption DEF HeldAt
  <2> QED
    BY <2>1, <2>2
<1>3. Len(tdo) <= HeldAt(done)
  BY <1>1, <1>2 DEF Accounted
<1>4. UrgentAt(done) => tdo = <<>> /\ Len(tdo) = 0
  BY EmptySeq DEF Accounted, Idle
<1> QED
  BY <1>1, <1>2, <1>3, <1>4 DEF LeftAt

\* What the command about to finish may add to it.
LEMMA NextHeld ==
  ASSUME Typed, StreamSound, done < Len(stream)
  PROVE  /\ HeldAt(Number) = LeftAt(done) + Collects(Current)
         /\ UrgentAt(Number) <=> Urgent(Current)
         /\ Collects(Current) \in Nat
<1>1. done + 1 \in 1..Len(stream) /\ done + 1 # 0 /\ (done + 1) - 1 = done
  BY DEF Typed, TypeOK
<1>2. stream[done + 1].held = LeftAt(done) + Collects(stream[done + 1].cmd)
  BY <1>1 DEF StreamSound
<1>3. Collects(Current) \in Nat
  BY CurrentIsCommand, SizesAreNat DEF Typed
<1>4. /\ HeldAt(done + 1) = stream[done + 1].held
      /\ UrgentAt(done + 1) <=> Urgent(stream[done + 1].cmd)
  BY <1>1 DEF HeldAt, UrgentAt
<1> QED
  BY <1>2, <1>3, <1>4 DEF Current, Number
\* A command other than an access finishes, or a fast write prepares a run.
LEMMA CountedFinish ==
  ASSUME Typed, Counted, Idle, done < Len(stream), Current.op # "irdr",
         UNCHANGED <<stream, tdo, flushed, shouldFlush>>,
         done' \in {done, Number},
         UNCHANGED bufs \/ bufs'["a"].tdo = 0
  PROVE  Counted'
<1>1. HeldAt(Number) = LeftAt(done) /\ ~UrgentAt(Number)
  <2>1. Collects(Current) = 0 /\ ~Urgent(Current)
    BY DEF Collects, Urgent
  <2>2. HeldAt(Number) = LeftAt(done) + 0 /\ ~UrgentAt(Number)
    BY <2>1, NextHeld DEF Counted
  <2> QED
    BY <2>2, IdleRoom DEF Counted
<1>2. flushed = 0 /\ Len(tdo) <= LeftAt(done) /\ LeftAt(done) \in Nat /\ Len(tdo) \in Nat
  BY IdleRoom DEF Counted, Typed, TypeOK
<1>3. Pending' = 0
  BY DEF Pending, Idle
<1>4. StreamSound'
  BY StreamSoundKept DEF Counted
<1>5. CASE done' = Number
  <2>1. HeldAt(done)' = HeldAt(Number) /\ (UrgentAt(done)' <=> UrgentAt(Number))
    BY <1>5 DEF HeldAt, UrgentAt
  <2>2. Accounted'
    BY <1>1, <1>2, <1>3, <2>1 DEF Accounted
  <2> QED
    BY <1>4, <2>2 DEF Counted
<1>6. CASE done' = done
  <2>1. HeldAt(done)' = HeldAt(done) /\ (UrgentAt(done)' <=> UrgentAt(done))
    BY <1>6 DEF HeldAt, UrgentAt
  <2>2. LeftAt(done) <= HeldAt(done) /\ HeldAt(done) \in Nat /\ (UrgentAt(done) => tdo = <<>>)
    BY IdleRoom DEF Counted
  <2>3. (flushed + Len(tdo) + Pending <= HeldAt(done))'
    BY <1>2, <1>3, <2>1, <2>2
  <2>4. Accounted'
    BY <1>2, <1>3, <2>1, <2>2, <2>3 DEF Accounted, Idle
  <2> QED
    BY <1>4, <2>4 DEF Counted
<1> QED
  BY <1>5, <1>6
\* Steps that touch neither the buffers nor the flags but to decide a flush.
LEMMA CountedOutside ==
  ASSUME Typed, Counted, UNCHANGED stream \/ \E c \in Commands : Send(c),
         UNCHANGED <<done, bufs, tdo, flushed>>,
         \/ UNCHANGED <<immFlush, haveNew, shouldFlush>>
         \/ shouldFlush' = TRUE
  PROVE  Counted'
<1>1. done \in 0..Len(stream)
  BY DEF Typed, TypeOK, Behind
<1>2. HeldAt(done)' = HeldAt(done) /\ (UrgentAt(done)' <=> UrgentAt(done))
  BY <1>1, LeftKept DEF HeldAt, UrgentAt
<1>3. Pending' = Pending
  BY DEF Pending
<1>4. Accounted'
  BY <1>2, <1>3 DEF Accounted, Counted
<1> QED
  BY <1>4, StreamSoundKept DEF Counted

LEMMA CountedFetch ==
  ASSUME Typed, Orderly, Counted, Fetch
  PROVE  Counted'
<1>1. /\ Idle /\ UNCHANGED <<stream, bufs, tdoVars>>
      /\ \/ UNCHANGED done
         \/ done' = Number /\ Current.op = "unknown" /\ state' = "clean"
  BY FetchTurn DEF NothingToFlush, Prepared, Idle, Buf
<1>2. CASE UNCHANGED done
  BY <1>1, <1>2, CountedOutside DEF tdoVars
<1>3. CASE done' = Number /\ Current.op = "unknown"
  <2>1. done < Len(stream)
    <3>1. done + 1 <= Len(stream')
      BY <1>3, FetchKeepsTypes DEF Typed, Behind, Number
    <3> QED
      BY <1>1, <3>1 DEF Typed, TypeOK
  <2> QED
    BY <1>1, <1>3, <2>1, CountedFinish DEF tdoVars
<1> QED
  BY <1>1, <1>2, <1>3

LEMMA CountedReplies ==
  ASSUME Typed, Orderly, Counted, DirectReply \/ Settle \/ TapReset \/ NothingDone
  PROVE  Counted'
<1>1. /\ UNCHANGED <<stream, bufs, tdo, flushed, shouldFlush>>
      /\ todo = "execute" /\ state = "execute" /\ Current.op # "irdr"
      /\ done' \in {done, Number}
  BY DEF DirectReply, Settle, TapReset, NothingDone, Executing, CommandDone, hostVars, cmdVars, tdoVars
<1>2. Idle /\ done < Len(stream)
  BY <1>1 DEF Orderly, Typed, Behind
<1> QED
  BY <1>1, <1>2, CountedFinish

LEMMA CountedContinue ==
  ASSUME Typed, Orderly, Counted, ContinueFastWrite
  PROVE  Counted'
<1> DEFINE p == Least(perBlk, xfersLeft)
<1>1. /\ UNCHANGED <<stream, tdoVars>> /\ todo = "execute"
      /\ continuation /\ state = "execute"
      /\ done' \in {done, Number}
      /\ bufs' = bufs \/ \E x \in Buf : FreeBlock(x) /\ PrepareWrite(x, p)
  BY DEF ContinueFastWrite, hostVars, WriteContinues, WriteEnds, CommandDone
<1> HIDE DEF p
<1>2. Idle /\ done < Len(stream) /\ Current.op # "irdr"
  BY <1>1 DEF Orderly, Typed, Behind, FastWrites
<1>3. UNCHANGED bufs \/ bufs'["a"].tdo = 0
  <2>1. ~bufs["a"].prepared /\ bufs \in [Buf -> Block]
    BY <1>2 DEF Idle, Typed, TypeOK
  <2>2. \A x \in Buf : FreeBlock(x) => x = "a"
    BY <2>1 DEF FreeBlock, Buf
  <2> QED
    BY <1>1, <2>1, <2>2 DEF PrepareWrite, Buf, Block
<1> QED
  BY <1>1, <1>2, <1>3, CountedFinish DEF tdoVars

LEMMA CountedIrDrWrite ==
  ASSUME Typed, Orderly, Counted, IrDrWrite
  PROVE  Counted'
<1>1. /\ UNCHANGED <<stream, tdo, flushed, immFlush, haveNew>>
      /\ todo = "execute" /\ state = "execute" /\ Current.op = "irdr"
  BY DEF IrDrWrite, Executing, hostVars
<1>2. Idle /\ done < Len(stream) /\ bufs \in [Buf -> Block]
  BY <1>1 DEF Orderly, Typed, TypeOK, Behind
<1>3. CASE PrepareAccess("a", Current) /\ CommandDone /\ UNCHANGED shouldFlush
  <2>1. /\ bufs'["a"].prepared /\ bufs'["a"].imm = Current.imm
        /\ bufs'["a"].tdo = Collects(Current)
    BY <1>1, <1>2, <1>3 DEF PrepareAccess, Collects, Buf
  <2>2. /\ HeldAt(Number) = LeftAt(done) + Collects(Current)
        /\ UrgentAt(Number) <=> Current.imm
        /\ Collects(Current) \in Nat
    BY <1>1, <1>2, NextHeld DEF Counted, Urgent
  <2>3. flushed = 0 /\ Len(tdo) <= LeftAt(done) /\ LeftAt(done) \in Nat /\ Len(tdo) \in Nat
    BY <1>2, IdleRoom DEF Counted, Typed, TypeOK
  <2>4. HeldAt(done)' = HeldAt(Number) /\ (UrgentAt(done)' <=> UrgentAt(Number))
    BY <1>1, <1>3 DEF HeldAt, UrgentAt, CommandDone
  <2>5. Pending' = Collects(Current)
    BY <2>1 DEF Pending
  <2>6. (flushed + Len(tdo) + Pending <= HeldAt(done))'
    BY <1>1, <2>2, <2>3, <2>4, <2>5
  <2>7. Accounted'
    BY <1>1, <2>1, <2>2, <2>3, <2>4, <2>6 DEF Accounted
  <2> QED
    BY <1>1, <2>7, StreamSoundKept DEF Counted
<1>4. CASE UNCHANGED <<bufs, cmdVars>> /\ (shouldFlush' = TRUE \/ UNCHANGED shouldFlush)
  BY <1>1, <1>4, CountedOutside DEF cmdVars
<1> QED
  <2>1. \A x \in Buf : FreeBlock(x) => x = "a"
    BY <1>2 DEF Idle, FreeBlock, Buf
  <2> QED
    BY <1>3, <1>4, <2>1 DEF IrDrWrite

LEMMA CountedFlush ==
  ASSUME Typed, Orderly, Counted, FlushTdo
  PROVE  Counted'
<1>1. /\ UNCHANGED <<stream, done, bufs, haveNew>> /\ shouldFlush
  BY DEF FlushTdo, hostVars, cmdVars, Orderly
<1>2. HeldAt(done)' = HeldAt(done) /\ (UrgentAt(done)' <=> UrgentAt(done)) /\ Pending' = Pending
  BY <1>1 DEF HeldAt, UrgentAt, Pending
<1>3. /\ tdo \in Seq(Nat) /\ Len(tdo) \in Nat /\ flushed \in Nat /\ txFree \in Nat
      /\ Pending \in Nat
  BY SizeAssumption DEF Typed, TypeOK, Pending, Block, Buf
<1>4. HeldAt(done) \in Nat
  <2>1. CASE done = 0
    BY <2>1 DEF HeldAt
  <2>2. CASE done # 0
    <3>1. done \in 1..Len(stream)
      BY <2>2 DEF Typed, TypeOK, Behind
    <3>2. stream[done] \in [cmd : Commands, end : Nat, held : 0..ReadWindow]
      BY <3>1, StreamElement DEF Typed
    <3> QED
      BY <2>2, <3>2, SizeAssumption DEF HeldAt
  <2> QED
    BY <2>1, <2>2
<1>5. CASE FlushAll
  <2>1. tdo' = <<>> /\ Len(tdo') = 0 /\ flushed' = 0
    BY <1>5, EmptySeq DEF FlushAll
  <2>2. (flushed + Len(tdo) + Pending <= HeldAt(done))'
    BY <1>2, <1>3, <1>4, <2>1 DEF Counted, Accounted
  <2>3. Accounted'
    BY <1>1, <1>2, <2>1, <2>2 DEF Counted, Accounted
  <2> QED
    BY <1>1, <2>3, StreamSoundKept DEF Counted
<1>6. CASE FlushPart
  <2>1. /\ flushed' = flushed + txFree /\ shouldFlush' = shouldFlush /\ tdo # <<>>
        /\ Len(tdo') = Len(tdo) - txFree
    BY <1>3, <1>6, EmptySeq, SubSeqProperties DEF FlushPart
  <2>2. (flushed + Len(tdo) + Pending <= HeldAt(done))'
    BY <1>2, <1>3, <1>4, <2>1 DEF Counted, Accounted
  <2>3. Accounted'
    BY <1>1, <1>2, <2>1, <2>2 DEF Counted, Accounted
  <2> QED
    BY <1>1, <2>3, StreamSoundKept DEF Counted
<1> QED
  BY <1>5, <1>6 DEF FlushTdo

LEMMA CountedRun ==
  ASSUME Typed, Orderly, Counted, RunJtag
  PROVE  Counted'
<1>1. /\ UNCHANGED <<stream, done, flushed, shouldFlush>>
      /\ bufs["a"].prepared /\ ~bufs["b"].prepared /\ bufs \in [Buf -> Block]
  BY DEF RunJtag, hostVars, cmdVars, Orderly, Typed, TypeOK
<1>2. /\ bufs' = Released("a") /\ immFlush' = bufs["a"].imm /\ haveNew' = TRUE
      /\ tdo' = tdo \o Copies(bufs["a"].tdo, bufs["a"].cmd)
  BY <1>1 DEF RunJtag, ToRun, Buf
<1>3. /\ bufs["a"].tdo \in Nat /\ bufs["a"].cmd \in Nat /\ Len(tdo) \in Nat /\ tdo \in Seq(Nat)
      /\ flushed \in Nat
  BY <1>1 DEF Block, Buf, Typed, TypeOK
<1>4. Len(tdo') = Len(tdo) + bufs["a"].tdo
  <2>1. /\ Copies(bufs["a"].tdo, bufs["a"].cmd) \in Seq(Nat)
        /\ Len(Copies(bufs["a"].tdo, bufs["a"].cmd)) = bufs["a"].tdo
    BY <1>3, CopiesType
  <2> QED
    BY <1>2, <1>3, <2>1, ConcatProperties
<1>5. ~bufs'["a"].prepared
  BY <1>1, <1>2 DEF Released, Buf, Block
<1>6. Pending = bufs["a"].tdo /\ Pending' = 0
  BY <1>1, <1>5 DEF Pending
<1>7. HeldAt(done)' = HeldAt(done) /\ (UrgentAt(done)' <=> UrgentAt(done))
  BY <1>1 DEF HeldAt, UrgentAt
<1>8. (flushed + Len(tdo) + Pending <= HeldAt(done))'
  BY <1>1, <1>3, <1>4, <1>6, <1>7 DEF Counted, Accounted
<1>9. UrgentAt(done) => tdo' = <<>> \/ immFlush'
  <2>1. SUFFICES ASSUME UrgentAt(done), ~bufs["a"].imm PROVE tdo' = <<>>
    BY <1>2
  <2>2. tdo = <<>> /\ bufs["a"].tdo = 0
    BY <1>1, <2>1 DEF Counted, Accounted
  <2>3. Len(tdo') = 0 /\ tdo' \in Seq(Nat)
    BY <1>4, <2>2, EmptySeq, RunKeepsTypes DEF Typed, TypeOK
  <2> QED
    BY <2>3, EmptySeq
<1>10. Accounted'
  BY <1>1, <1>2, <1>5, <1>7, <1>8, <1>9 DEF Counted, Accounted
<1> QED
  BY <1>1, <1>10, StreamSoundKept DEF Counted

LEMMA CountedKept == Typed /\ Orderly /\ Counted /\ [Next]_vars => Counted'
<1> SUFFICES ASSUME Typed, Orderly, Counted, [Next]_vars PROVE Counted'
  OBVIOUS
<1>1. CASE \/ \E c \in Commands : Send(c)
           \/ \E e \in 1..Sent : Arrive(e)
           \/ Drain \/ UNCHANGED vars \/ FlushPending \/ RunPrepared \/ FastWrite
  <2>1. UNCHANGED <<done, bufs, tdo, flushed, immFlush, haveNew, shouldFlush>>
    BY <1>1 DEF Send, Arrive, Drain, vars, FlushPending, RunPrepared, FastWrite, cmdVars, tdoVars
  <2>2. UNCHANGED stream \/ \E c \in Commands : Send(c)
    BY <1>1 DEF Arrive, Drain, vars, FlushPending, RunPrepared, FastWrite, hostVars
  <2> QED
    BY <2>1, <2>2, CountedOutside
<1>2. CASE FlushDecided
  BY <1>2, CountedOutside DEF FlushDecided, hostVars, cmdVars
<1>3. CASE Fetch
  BY <1>3, CountedFetch
<1>4. CASE DirectReply \/ Settle \/ TapReset \/ NothingDone
  BY <1>4, CountedReplies
<1>5. CASE IrDrWrite
  BY <1>5, CountedIrDrWrite
<1>6. CASE ContinueFastWrite
  BY <1>6, CountedContinue
<1>7. CASE FlushTdo
  BY <1>7, CountedFlush
<1>8. CASE RunJtag
  BY <1>8, CountedRun
<1> QED
  BY <1>1, <1>2, <1>3, <1>4, <1>5, <1>6, <1>7, <1>8 DEF Next, Main, Execute

LEMMA CountedFits ==
  ASSUME Typed, Orderly, Accounted, ReadWindow <= TdoSize
  PROVE  TdoFits
<1>1. HeldAt(done) \in 0..ReadWindow
  <2>1. CASE done = 0
    BY <2>1, SizeAssumption DEF HeldAt
  <2>2. CASE done # 0
    <3>1. done \in 1..Len(stream)
      BY <2>2 DEF Typed, TypeOK, Behind
    <3> QED
      BY <2>2, <3>1, StreamElement DEF HeldAt, Typed
  <2> QED
    BY <2>1, <2>2
<1>2. Pending \in Nat /\ Len(tdo) \in Nat /\ flushed \in Nat
  BY DEF Typed, TypeOK, Pending, Block, Buf
<1>3. flushed + Len(tdo) + Pending <= TdoSize /\ ~bufs["b"].prepared
  <2>1. flushed + Len(tdo) + Pending <= HeldAt(done) /\ ~bufs["b"].prepared
    BY DEF Accounted, Orderly
  <2>2. HeldAt(done) <= TdoSize /\ HeldAt(done) \in Nat /\ TdoSize \in Nat
    BY <1>1, SizeAssumption
  <2> QED
    BY <1>2, <2>1, <2>2
<1> QED
  BY <1>2, <1>3, SizeAssumption DEF TdoFits, Pending, Buf

\* tdo_in_data is never overrun, although cmdimpl_irdr_write checks the space of
\* the accesses that need none and not of those that do: what protects it is the
\* host, as long as it lets no more collect than fits before it asks for the data.
THEOREM TdoNeverOverrun ==
  ASSUME ReadWindow <= TdoSize
  PROVE  Spec => []TdoFits
<1> DEFINE Sound == Typed /\ Orderly /\ Counted
<1>1. Init => Sound
  BY TypesInitially, OrderlyInitially, CountedInitially
<1>2. Sound /\ [Next]_vars => Sound'
  BY TypesKept, OrderlyKept, CountedKept
<1>3. Sound => TdoFits
  BY CountedFits DEF Counted
<1> QED
  BY <1>1, <1>2, <1>3, PTL DEF Spec
=============================================================================

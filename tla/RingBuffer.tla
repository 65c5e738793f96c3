----------------------------- MODULE RingBuffer -----------------------------
(***************************************************************************)
(* The index arithmetic of chry_ringbuffer.c.  A ring is a pair of         *)
(* free-running counters, `in' (units ever written) and `out' (units ever  *)
(* read), kept in unsigned words of CounterMod values, and a pool of Size  *)
(* slots; a counter c addresses slot c & mask.                             *)
(***************************************************************************)
EXTENDS Integers, Sequences

CONSTANTS Size,        \* mask + 1, a power of two in the code
          CounterMod   \* number of values of a counter: 2^32 in the code

ASSUME SizeAssumption == Size \in Nat /\ Size > 0

\* A power-of-two Size divides 2^32, so a wrapping counter stays in step with
\* its slot; a full ring (Used = Size) is distinguishable from an empty one.
ASSUME CounterModAssumption ==
  CounterMod \in Nat /\ CounterMod > Size /\ CounterMod % Size = 0

Counter == 0..(CounterMod - 1)
Slot == 0..(Size - 1)

Least(a, b) == IF a < b THEN a ELSE b

\* chry_ringbuffer_get_used, chry_ringbuffer_get_free: unsigned differences.
Used(in, out) == (in - out) % CounterMod
FreeOneTooMany(in, out) == (Size + 1 - Used(in, out)) % CounterMod
Free(in, out) == (Size - Used(in, out)) % CounterMod

\* chry_ringbuffer_check_empty
IsEmpty(in, out) == in = out

SlotUnmasked(c) == c
SlotOf(c) == c % Size

\* A counter moved on by n units, as `rb->in += size' does.
Advance(c, n) == (c + n) % CounterMod

\* chry_ringbuffer_linear_write_setup / linear_read_setup: how many units can
\* be moved without wrapping, starting at the slot of the respective counter.
LinearWrite(in, out) == Least(Size - SlotOf(in), Free(in, out))
LinearRead(in, out)  == Least(Size - SlotOf(out), Used(in, out))

\* chry_ringbuffer_linear_write_done: the new `in'.
WriteDone(in, out, n) == Advance(in, Least(n, Free(in, out)))

\* chry_ringbuffer_linear_read_done (a drop) and the index half of
\* chry_ringbuffer_read: the new `out'.
ReadDone(in, out, n) == Advance(out, Least(n, Used(in, out)))

\* The pool after the units of sequence s are copied in from slot `at' on,
\* wrapping once: the two memcpy calls of chry_ringbuffer_write.
CopyInNoWrap(pool, at, s) ==
  [k \in Slot |-> IF k >= at /\ k - at < Len(s) THEN s[k - at + 1] ELSE pool[k]]
CopyIn(pool, at, s) ==
  [k \in Slot |->
     LET j == (k - at) % Size
     IN  IF j < Len(s) THEN s[j + 1] ELSE pool[k]]

\* n units taken from slot `at' on, wrapping: the two memcpy calls of
\* chry_ringbuffer_peek.
CopyOut(pool, at, n) == [i \in 1..n |-> pool[(at + i - 1) % Size]]
=============================================================================

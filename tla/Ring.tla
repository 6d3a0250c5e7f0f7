---------------------------------- MODULE Ring ----------------------------------
(***************************************************************************)
(* hyperdrive/src/queues/ring.rs: the ring buffer.  All methods that change   *)
(* it take &mut self, so each is one step.                                   *)
(***************************************************************************)
EXTENDS Integers, Sequences

CONSTANTS Value,        \* values pushed
          Uninit,       \* contents of a slot that was never written
          RingSize          \* SIZE

ASSUME RingAssumption == RingSize \in Nat \ {0} /\ Uninit \notin Value

VARIABLES buffer, ring_read, ring_write,
          content               \* history: the values in the buffer, oldest first

ringVars == <<buffer, ring_read, ring_write, content>>

RingInit ==
    /\ buffer = [i \in 0..RingSize-1 |-> Uninit]
    /\ ring_read = 0 /\ ring_write = 0
    /\ content = <<>>

next_index(i) == (i + 1) % RingSize

len == IF ring_write >= ring_read THEN ring_write - ring_read
                                    ELSE RingSize - ring_read + ring_write
is_empty == ring_read = ring_write

\* Mutant: one slot is not kept free, so a full buffer looks empty.
is_full_late == len = RingSize

is_full == next_index(ring_write) = ring_read

\* push() and try_push() in a buffer that is not full; in a full one push() panics
\* and try_push() gives the value back.
RingPush(v) ==
    /\ ~is_full
    /\ buffer' = [buffer EXCEPT ![ring_write] = v]
    /\ ring_write' = next_index(ring_write)
    /\ content' = Append(content, v)
    /\ UNCHANGED ring_read

\* pop(): a bitwise read, the slot keeps its bytes.
RingPop ==
    /\ ~is_empty
    /\ ring_read' = next_index(ring_read)
    /\ content' = Tail(content)
    /\ UNCHANGED <<buffer, ring_write>>

RingNext == RingPop \/ \E v \in Value : RingPush(v)

RingSpec == RingInit /\ [][RingNext]_ringVars

--------------------------------------------------------------------------------
RingTypeOK ==
    /\ buffer \in [0..RingSize-1 -> Value \cup {Uninit}]
    /\ ring_read \in 0..RingSize-1 /\ ring_write \in 0..RingSize-1
    /\ content \in Seq(Value)

\* "Every element between `read_index` and `write_index` (possibly wrapping around)
\* is initialized" (ring.rs:218): the slots from read_index on hold exactly the
\* values pushed and not yet popped, in order, so pop() is first in, first out and
\* never reads an uninitialized slot; and len(), is_empty() and is_full() tell the
\* truth wherever the indices have wrapped to.
HoldsContent ==
    /\ \A i \in 1..Len(content) : buffer[(ring_read + i - 1) % RingSize] = content[i]
    /\ ring_write = (ring_read + Len(content)) % RingSize
    /\ len = Len(content)
    /\ is_empty <=> content = <<>>
    /\ is_full <=> Len(content) = RingSize - 1
================================================================================

------------------------------- MODULE MpmcQueue -------------------------------
(***************************************************************************)
(* hyperdrive/src/queues/mpmc.rs: a bounded queue in which every slot has a   *)
(* sequence number that tells whose turn it is.  A pushed value is identified  *)
(* by the position its push claimed.  Every step is one access to a shared    *)
(* atomic, or the plain access to the slot's value.                          *)
(***************************************************************************)
EXTENDS Contexts, Integers

CONSTANTS MpmcSize,     \* SIZE
          MaxPos        \* bound: no push starts that could claim a later position

\* new() asserts SIZE > 0.
ASSUME SizeAssumption == MpmcSize \in Nat \ {0} /\ MaxPos \in Nat

NoValue == -1

VARIABLES sequence, value,              \* the slots
          read_index, write_index,
          mpmc_pc,
          pos,                          \* the local `pos`
          popped                        \* the local `value` of pop()

slots == <<sequence, value>>
indices == <<read_index, write_index>>
mpmcVars == <<slots, indices, mpmc_pc, pos, popped>>

\* new(): slot i starts with sequence number i.
MpmcInit ==
    /\ sequence = [s \in 0..MpmcSize-1 |-> s]
    /\ value = [s \in 0..MpmcSize-1 |-> NoValue]
    /\ read_index = 0 /\ write_index = 0
    /\ mpmc_pc = [c \in Ctx |-> "out"]
    /\ pos = [c \in Ctx |-> 0]
    /\ popped = [c \in Ctx |-> NoValue]

Slot(c) == pos[c] % MpmcSize
MpmcGoTo(c, place) == mpmc_pc' = [mpmc_pc EXCEPT ![c] = place]
LoadPos(c, index) == pos' = [pos EXCEPT ![c] = index]
MpmcReturn(c) == MpmcGoTo(c, "out") /\ LoadPos(c, 0) /\ popped' = [popped EXCEPT ![c] = NoValue]

--------------------------------------------------------------------------------
(* try_push() *)

Unclaimed == {c \in Ctx : mpmc_pc[c] \in {"push_load", "push_seq", "push_cas"}}

PushCall(c) ==
    /\ mpmc_pc[c] = "out"
    /\ write_index + Cardinality(Unclaimed) < MaxPos
    /\ MpmcGoTo(c, "push_load")
    /\ UNCHANGED <<slots, indices, pos, popped>>

PushLoad(c) ==
    /\ mpmc_pc[c] = "push_load"
    /\ LoadPos(c, write_index)
    /\ MpmcGoTo(c, "push_seq")
    /\ UNCHANGED <<slots, indices, popped>>

\* slot.sequence is compared with pos; Less means MpmcQueueFullError.
PushSeq(c) ==
    /\ mpmc_pc[c] = "push_seq"
    /\ LET seq == sequence[Slot(c)] IN
         \/ seq = pos[c] /\ MpmcGoTo(c, "push_cas") /\ UNCHANGED <<pos, popped>>
         \/ seq < pos[c] /\ MpmcReturn(c)
         \/ seq > pos[c] /\ MpmcGoTo(c, "push_load") /\ UNCHANGED <<pos, popped>>
    /\ UNCHANGED <<slots, indices>>

\* Mutant: the index is stored without a compare_exchange.
PushStore(c) ==
    /\ mpmc_pc[c] = "push_cas"
    /\ write_index' = pos[c] + 1
    /\ MpmcGoTo(c, "push_write")
    /\ UNCHANGED <<slots, read_index, pos, popped>>

\* write_index.compare_exchange(pos, pos + 1).
PushCas(c) ==
    /\ mpmc_pc[c] = "push_cas"
    /\ IF write_index = pos[c]
         THEN write_index' = pos[c] + 1 /\ MpmcGoTo(c, "push_write") /\ UNCHANGED pos
         ELSE LoadPos(c, write_index) /\ MpmcGoTo(c, "push_seq") /\ UNCHANGED write_index
    /\ UNCHANGED <<slots, read_index, popped>>

\* Slot::write(): the value, then the sequence number.
PushWrite(c) ==
    /\ mpmc_pc[c] = "push_write"
    /\ value' = [value EXCEPT ![Slot(c)] = pos[c]]
    /\ MpmcGoTo(c, "push_publish")
    /\ UNCHANGED <<sequence, indices, pos, popped>>

PushPublish(c) ==
    /\ mpmc_pc[c] = "push_publish"
    /\ sequence' = [sequence EXCEPT ![Slot(c)] = pos[c] + 1]
    /\ MpmcReturn(c)
    /\ UNCHANGED <<value, indices>>

--------------------------------------------------------------------------------
(* pop() *)

PopCall(c) ==
    /\ mpmc_pc[c] = "out"
    /\ MpmcGoTo(c, "pop_load")
    /\ UNCHANGED <<slots, indices, pos, popped>>

PopLoad(c) ==
    /\ mpmc_pc[c] = "pop_load"
    /\ LoadPos(c, read_index)
    /\ MpmcGoTo(c, "pop_seq")
    /\ UNCHANGED <<slots, indices, popped>>

\* Mutant: pop() does not wait for its slot to be published.
PopSeqEarly(c) ==
    /\ mpmc_pc[c] = "pop_seq"
    /\ LET seq == sequence[Slot(c)] IN
         \/ seq \in {pos[c], pos[c] + 1} /\ MpmcGoTo(c, "pop_cas") /\ UNCHANGED <<pos, popped>>
         \/ seq < pos[c] /\ MpmcReturn(c)
         \/ seq > pos[c] + 1 /\ MpmcGoTo(c, "pop_load") /\ UNCHANGED <<pos, popped>>
    /\ UNCHANGED <<slots, indices>>

\* slot.sequence is compared with pos + 1; Less means None.
PopSeq(c) ==
    /\ mpmc_pc[c] = "pop_seq"
    /\ LET seq == sequence[Slot(c)] IN
         \/ seq = pos[c] + 1 /\ MpmcGoTo(c, "pop_cas") /\ UNCHANGED <<pos, popped>>
         \/ seq < pos[c] + 1 /\ MpmcReturn(c)
         \/ seq > pos[c] + 1 /\ MpmcGoTo(c, "pop_load") /\ UNCHANGED <<pos, popped>>
    /\ UNCHANGED <<slots, indices>>

PopCas(c) ==
    /\ mpmc_pc[c] = "pop_cas"
    /\ IF read_index = pos[c]
         THEN read_index' = pos[c] + 1 /\ MpmcGoTo(c, "pop_read") /\ UNCHANGED pos
         ELSE LoadPos(c, read_index) /\ MpmcGoTo(c, "pop_seq") /\ UNCHANGED read_index
    /\ UNCHANGED <<slots, write_index, popped>>

\* Slot::read(): the value, then the sequence number of the slot's next round.
PopRead(c) ==
    /\ mpmc_pc[c] = "pop_read"
    /\ popped' = [popped EXCEPT ![c] = value[Slot(c)]]
    /\ MpmcGoTo(c, "pop_publish")
    /\ UNCHANGED <<slots, indices, pos>>

PopPublish(c) ==
    /\ mpmc_pc[c] = "pop_publish"
    /\ sequence' = [sequence EXCEPT ![Slot(c)] = pos[c] + MpmcSize]
    /\ MpmcReturn(c)
    /\ UNCHANGED <<value, indices>>

TryPush(c) == PushLoad(c) \/ PushSeq(c) \/ PushCas(c) \/ PushWrite(c) \/ PushPublish(c)
Pop(c) == PopLoad(c) \/ PopSeq(c) \/ PopCas(c) \/ PopRead(c) \/ PopPublish(c)

MpmcNext == \E c \in Ctx : PushCall(c) \/ PopCall(c) \/ TryPush(c) \/ Pop(c)

MpmcSpec == MpmcInit /\ [][MpmcNext]_mpmcVars

\* A context that has called try_push() or pop() keeps running.
FairMpmcSpec == MpmcSpec /\ \A c \in Ctx : WF_mpmcVars(TryPush(c)) /\ WF_mpmcVars(Pop(c))

--------------------------------------------------------------------------------
Pushing == {"push_seq", "push_load", "push_cas", "push_write", "push_publish"}
Popping == {"pop_seq", "pop_load", "pop_cas", "pop_read", "pop_publish"}
Accessing == {"push_write", "push_publish", "pop_read", "pop_publish"}

MpmcTypeOK ==
    /\ sequence \in [0..MpmcSize-1 -> 0 .. MaxPos + MpmcSize]
    /\ value \in [0..MpmcSize-1 -> {NoValue} \cup 0..MaxPos]
    /\ read_index \in 0..write_index /\ write_index \in 0..MaxPos
    /\ mpmc_pc \in [Ctx -> {"out"} \cup Pushing \cup Popping]
    /\ pos \in [Ctx -> 0..MaxPos]
    /\ popped \in [Ctx -> {NoValue} \cup 0..MaxPos]

\* "We are the only thread writing to this slot" (mpmc.rs:162) and "accessing this
\* slot" (mpmc.rs:201): the unsynchronised accesses to a slot's value never overlap.
SlotIsExclusive ==
    \A c, d \in Ctx : mpmc_pc[c] \in Accessing /\ mpmc_pc[d] \in Accessing /\ Slot(c) = Slot(d)
                        => c = d

\* First in, first out: the pop that claims position p returns the value of the
\* push that claimed p, completely written.
PopReturnsPush == \A c \in Ctx : mpmc_pc[c] = "pop_publish" => popped[c] = pos[c]

\* Both, so that the queue hands every element on to one receiver: nobody else is at the
\* slot while try_push or pop accesses it, and what comes out of a position went in there.
MpmcHandsOver == SlotIsExclusive /\ PopReturnsPush

================================================================================

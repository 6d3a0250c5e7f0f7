-------------------------------- MODULE McsLock --------------------------------
(***************************************************************************)
(* hyperdrive/src/locks/mcs.rs: the Mellor-Crummey and Scott queue lock.    *)
(*                                                                         *)
(* A context is one use of the lock: with_locked puts its McsNode on the    *)
(* caller's stack, so a thread and an interrupt handler that preempted it   *)
(* are two contexts.  The node of context c is named by c itself.  Every    *)
(* step is one access to shared memory.                                     *)
(***************************************************************************)
EXTENDS Contexts

VARIABLES tail,         \* McsLock.tail
          locked,       \* McsNode.locked of each node
          next,         \* McsNode.next of each node
          prev,         \* the local `prev` of lock()
          pc,           \* where each context is
          queue         \* history: the nodes in the order of their swap

mcsVars == <<tail, locked, next, prev, pc, queue>>

(***************************************************************************)
(* Places in the code.  "out": no node in use.  "held": a guard is alive.   *)
(***************************************************************************)
Waiting == {"link", "spin"}
Dropping == {"drop_cas", "drop_spin", "hand_off"}
Owning == {"held"} \cup Dropping
Place == {"out", "swap", "try_cas"} \cup Waiting \cup Owning

McsInit ==
    /\ tail = Null
    /\ locked = [c \in Ctx |-> FALSE]
    /\ next = [c \in Ctx |-> Null]
    /\ prev = [c \in Ctx |-> Null]
    /\ pc = [c \in Ctx |-> "out"]
    /\ queue = <<>>

GoTo(c, place) == pc' = [pc EXCEPT ![c] = place]

\* lock(): the node is made ready; it is not reachable from the lock yet.
LockEnter(c) ==
    /\ pc[c] = "out"
    /\ locked' = [locked EXCEPT ![c] = TRUE]
    /\ next' = [next EXCEPT ![c] = Null]
    /\ GoTo(c, "swap")
    /\ UNCHANGED <<tail, prev, queue>>

\* Mutant: the node links itself instead of its predecessor.
LinkSelf(c) ==
    /\ pc[c] = "link"
    /\ next' = [next EXCEPT ![c] = c]
    /\ GoTo(c, "spin")
    /\ UNCHANGED <<tail, locked, prev, queue>>

\* lock(): self.tail.swap(node); a null predecessor means the lock was free.
LockSwap(c) ==
    /\ pc[c] = "swap"
    /\ prev' = [prev EXCEPT ![c] = tail]
    /\ tail' = c
    /\ queue' = Append(queue, c)
    /\ GoTo(c, IF tail = Null THEN "held" ELSE "link")
    /\ UNCHANGED <<locked, next>>

\* lock(): prev.set_next(node), a write to another context's stack.
LockLink(c) ==
    /\ pc[c] = "link"
    /\ next' = [next EXCEPT ![prev[c]] = c]
    /\ GoTo(c, "spin")
    /\ UNCHANGED <<tail, locked, prev, queue>>

\* Mutant: lock() returns without waiting for its turn.
NoSpin(c) ==
    /\ pc[c] = "spin"
    /\ GoTo(c, "held")
    /\ UNCHANGED <<tail, locked, next, prev, queue>>

\* lock(): the spin loop ends when node.is_locked() reads false.
LockSpin(c) ==
    /\ pc[c] = "spin"
    /\ ~locked[c]
    /\ GoTo(c, "held")
    /\ UNCHANGED <<tail, locked, next, prev, queue>>

\* try_lock(): only `next` is made ready, `locked` keeps what it had.
TryEnter(c) ==
    /\ pc[c] = "out"
    /\ next' = [next EXCEPT ![c] = Null]
    /\ GoTo(c, "try_cas")
    /\ UNCHANGED <<tail, locked, prev, queue>>

\* try_lock(): compare_exchange(null, node) takes a free lock or gives up.
TryCas(c) ==
    /\ pc[c] = "try_cas"
    /\ IF tail = Null
         THEN tail' = c /\ queue' = Append(queue, c) /\ GoTo(c, "held")
         ELSE GoTo(c, "out") /\ UNCHANGED <<tail, queue>>
    /\ UNCHANGED <<locked, next, prev>>

\* drop(): the first read of node.next.
DropRead(c) ==
    /\ pc[c] = "held"
    /\ GoTo(c, IF next[c] = Null THEN "drop_cas" ELSE "hand_off")
    /\ UNCHANGED <<tail, locked, next, prev, queue>>

\* Mutant: drop() returns although a node is being added behind it.
DropCasGivesUp(c) ==
    /\ pc[c] = "drop_cas"
    /\ tail' = IF tail = c THEN Null ELSE tail
    /\ queue' = Tail(queue)
    /\ GoTo(c, "out")
    /\ UNCHANGED <<locked, next, prev>>

\* drop(): compare_exchange(node, null); a failure means a node is being added.
DropCas(c) ==
    /\ pc[c] = "drop_cas"
    /\ IF tail = c
         THEN tail' = Null /\ queue' = Tail(queue) /\ GoTo(c, "out")
         ELSE GoTo(c, "drop_spin") /\ UNCHANGED <<tail, queue>>
    /\ UNCHANGED <<locked, next, prev>>

\* drop(): wait until the node being added has linked itself.
DropSpin(c) ==
    /\ pc[c] = "drop_spin"
    /\ next[c] # Null
    /\ GoTo(c, "hand_off")
    /\ UNCHANGED <<tail, locked, next, prev, queue>>

\* drop(): next.locked.store(false), again a write to another context's stack.
HandOff(c) ==
    /\ pc[c] = "hand_off"
    /\ locked' = [locked EXCEPT ![next[c]] = FALSE]
    /\ queue' = Tail(queue)
    /\ GoTo(c, "out")
    /\ UNCHANGED <<tail, next, prev>>

Lock(c) == LockSwap(c) \/ LockLink(c) \/ LockSpin(c)
DropGuard(c) == DropRead(c) \/ DropCas(c) \/ DropSpin(c) \/ HandOff(c)

McsNext == \E c \in Ctx : LockEnter(c) \/ TryEnter(c) \/ TryCas(c)
                          \/ Lock(c) \/ DropGuard(c)

McsSpec == McsInit /\ [][McsNext]_mcsVars

(***************************************************************************)
(* A context that started lock() or drop() runs on (it spins, it does not   *)
(* give up), and the closure passed to with_locked returns.                 *)
(***************************************************************************)
FairMcsSpec == McsSpec /\ \A c \in Ctx : WF_mcsVars(Lock(c)) /\ WF_mcsVars(DropGuard(c))

--------------------------------------------------------------------------------
McsTypeOK ==
    /\ tail \in Ctx \cup {Null}
    /\ locked \in [Ctx -> BOOLEAN]
    /\ next \in [Ctx -> Ctx \cup {Null}]
    /\ prev \in [Ctx -> Ctx \cup {Null}]
    /\ pc \in [Ctx -> Place]
    /\ queue \in Seq(Ctx)
    /\ \A c \in Ctx : next[c] # c

\* At most one guard exists (mcs.rs:296, deref_mut hands out &mut T): no two
\* contexts are between the end of lock() and the end of drop().
MutualExclusion == \A c, d \in Ctx : pc[c] \in Owning /\ pc[d] \in Owning => c = d

\* The two stores into a foreign node (mcs.rs:193 and mcs.rs:350) only hit a node
\* whose owner cannot have returned, that is whose stack frame is still alive.
ForeignNodeAlive ==
    \A c \in Ctx :
        /\ pc[c] = "link" => /\ prev[c] \in Ctx
                             /\ pc[prev[c]] \in Waiting \cup Owning
        /\ pc[c] = "hand_off" => next[c] \in Ctx /\ pc[next[c]] = "spin"

NewNodeIsReady ==
    \A c \in Ctx : /\ pc[c] \in {"swap", "try_cas"} => next[c] = Null
                   /\ pc[c] = "swap" => locked[c]

TailIsLast == tail = IF queue = <<>> THEN Null ELSE queue[Len(queue)]

QueuedAreInside == \A c \in Ctx : pc[c] \in Waiting \cup Owning
                                    <=> \E i \in 1..Len(queue) : queue[i] = c

QueuedOnce == \A i, j \in 1..Len(queue) : queue[i] = queue[j] => i = j

WaitersAreLinked ==
    \A i \in 2..Len(queue) :
        /\ pc[queue[i]] \in Waiting
        /\ locked[queue[i]]
        /\ prev[queue[i]] = queue[i-1]
        /\ next[queue[i-1]] = IF pc[queue[i]] = "link" THEN Null ELSE queue[i]

HeadMayEnter ==
    queue # <<>> =>
        /\ next[queue[Len(queue)]] = Null
        /\ \/ pc[queue[1]] \in Owning
           \/ pc[queue[1]] = "spin" /\ ~locked[queue[1]]
        /\ pc[queue[1]] = "drop_spin" => Len(queue) > 1
        /\ pc[queue[1]] = "hand_off" => Len(queue) > 1 /\ pc[queue[2]] = "spin"

\* The lock's reachable state is a queue: tail is the last node, the first one
\* owns the lock or has been unlocked by its predecessor, and each other one
\* waits locked behind the node it swapped out, which points at it once linked.
QueueShape == /\ NewNodeIsReady /\ TailIsLast /\ QueuedAreInside /\ QueuedOnce
              /\ WaitersAreLinked /\ HeadMayEnter

\* First come, first served, in the order of the swap on tail (mcs.rs:190).
Fifo == INSTANCE FifoLock WITH granted <- \E c \in Ctx : pc[c] \in Owning
ImplementsFifoLock == Fifo!FifoSpec

\* Whoever calls lock() gets its guard, however many try_lock callers compete.
LockReturns == \A c \in Ctx : pc[c] = "swap" ~> pc[c] = "held"

\* drop() returns: the wait for the successor's link (mcs.rs:344) is finite.
DropReturns == \A c \in Ctx : pc[c] \in Dropping ~> pc[c] = "out"
================================================================================

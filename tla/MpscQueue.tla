------------------------------- MODULE MpscQueue -------------------------------
(***************************************************************************)
(* hyperdrive/src/queues/mpsc.rs: the intrusive queue behind the scheduler's  *)
(* ready queues.  Elements are linked through a field of their own, `head` is *)
(* where producers swap themselves in, `tail` is where the one consumer that  *)
(* holds being_dequeued takes out.  Every step is one access to shared memory *)
(* (`tail` is private to that consumer).                                     *)
(***************************************************************************)
EXTENDS Contexts

CONSTANTS Elem,         \* elements
          Stub          \* the stub node

Node == Elem \cup {Stub}

ASSUME NodeAssumption == Stub \notin Elem /\ Null \notin Node

VARIABLES head, mpsc_tail, being_dequeued,      \* MpscQueue
          link,                                 \* Link.next of every node
          mpsc_pc,
          node,         \* the local `ptr`, or `tail_node`
          pred,         \* the local `prev` of enqueue_ptr()
          owned,        \* elements that belong to the queue
          order,        \* history: nodes in swap order
          stub_twice    \* history: the stub was enqueued while in the queue

shared == <<head, mpsc_tail, being_dequeued, link>>
history == <<owned, order, stub_twice>>
mpscVars == <<shared, mpsc_pc, node, pred, history>>

MpscInit ==
    /\ head = Stub /\ mpsc_tail = Stub /\ being_dequeued = FALSE
    /\ link = [n \in Node |-> Null]
    /\ mpsc_pc = [c \in Ctx |-> "out"]
    /\ node = [c \in Ctx |-> Null]
    /\ pred = [c \in Ctx |-> Null]
    /\ owned = {} /\ order = <<Stub>> /\ stub_twice = FALSE

MpscGoTo(c, place) == mpsc_pc' = [mpsc_pc EXCEPT ![c] = place]

\* The locals die with the call.
MpscReturn(c) == /\ MpscGoTo(c, "out")
                 /\ node' = [node EXCEPT ![c] = Null]
                 /\ pred' = [pred EXCEPT ![c] = Null]

--------------------------------------------------------------------------------
(* enqueue() *)

\* T::release, and the first store of enqueue_ptr().
Enqueue(c, e) ==
    /\ mpsc_pc[c] = "out" /\ e \notin owned
    /\ link' = [link EXCEPT ![e] = Null]
    /\ node' = [node EXCEPT ![c] = e]
    /\ owned' = owned \cup {e}
    /\ MpscGoTo(c, "swap")
    /\ UNCHANGED <<head, mpsc_tail, being_dequeued, pred, order, stub_twice>>

\* enqueue_ptr(): head.swap(ptr).  dequeue_impl() does the same with the stub.
Swap(c) ==
    /\ mpsc_pc[c] \in {"swap", "stub_swap"}
    /\ LET n == IF mpsc_pc[c] = "swap" THEN node[c] ELSE Stub IN
         /\ head' = n
         /\ order' = Append(order, n)
    /\ pred' = [pred EXCEPT ![c] = head]
    /\ MpscGoTo(c, IF mpsc_pc[c] = "swap" THEN "link" ELSE "stub_link")
    /\ UNCHANGED <<mpsc_tail, being_dequeued, link, node, owned, stub_twice>>

\* Mutant: the new node is made to point at its predecessor.
LinkBackwards(c) ==
    /\ mpsc_pc[c] \in {"link", "stub_link"}
    /\ link' = [link EXCEPT ![IF mpsc_pc[c] = "link" THEN node[c] ELSE Stub] = pred[c]]
    /\ IF mpsc_pc[c] = "link" THEN MpscReturn(c) ELSE MpscGoTo(c, "deq_spin") /\ UNCHANGED <<node, pred>>
    /\ UNCHANGED <<head, mpsc_tail, being_dequeued, history>>

\* enqueue_ptr(): prev.next.store(ptr).
Link(c) ==
    /\ mpsc_pc[c] \in {"link", "stub_link"}
    /\ link' = [link EXCEPT ![pred[c]] = IF mpsc_pc[c] = "link" THEN node[c] ELSE Stub]
    /\ IF mpsc_pc[c] = "link" THEN MpscReturn(c) ELSE MpscGoTo(c, "deq_spin") /\ UNCHANGED <<node, pred>>
    /\ UNCHANGED <<head, mpsc_tail, being_dequeued, history>>

--------------------------------------------------------------------------------
(* try_dequeue(), and dequeue(), which calls it until it is not InUse *)

Dequeue(c) ==
    /\ mpsc_pc[c] = "out"
    /\ ~being_dequeued
    /\ being_dequeued' = TRUE
    /\ MpscGoTo(c, "deq_tail")
    /\ UNCHANGED <<head, mpsc_tail, link, node, pred, history>>

\* tail moves on to n and the node it was at leaves the queue.
Advance(n) == mpsc_tail' = n /\ order' = IF order = <<>> THEN <<>> ELSE Tail(order)

\* T::capture(n): the element goes to the caller, who may enqueue it again.
Capture(c, n) == /\ node' = [node EXCEPT ![c] = n]
                 /\ owned' = owned \ {n}
                 /\ MpscGoTo(c, "release")

\* dequeue_impl(): tail is loaded, then its `next`.
DeqTail(c) ==
    /\ mpsc_pc[c] = "deq_tail"
    /\ LET n == link[mpsc_tail] IN
         \/ /\ mpsc_tail = Stub /\ n = Null                  \* Empty
            /\ node' = [node EXCEPT ![c] = Null]
            /\ MpscGoTo(c, "release")
            /\ UNCHANGED <<mpsc_tail, owned, order>>
         \/ /\ mpsc_tail = Stub /\ n # Null                  \* step over the stub
            /\ Advance(n)
            /\ node' = [node EXCEPT ![c] = n]
            /\ MpscGoTo(c, "deq_next")
            /\ UNCHANGED owned
         \/ /\ mpsc_tail # Stub /\ n # Null                  \* cycle the queue
            /\ Advance(n)
            /\ Capture(c, mpsc_tail)
         \/ /\ mpsc_tail # Stub /\ n = Null
            /\ node' = [node EXCEPT ![c] = mpsc_tail]
            /\ MpscGoTo(c, "stub_store")
            /\ UNCHANGED <<mpsc_tail, owned, order>>
    /\ UNCHANGED <<head, being_dequeued, link, pred, stub_twice>>

\* dequeue_impl(): `next` is loaded again, of the node after the stub.
DeqNext(c) ==
    /\ mpsc_pc[c] = "deq_next"
    /\ LET n == link[node[c]] IN
         IF n # Null
           THEN Advance(n) /\ Capture(c, node[c])
           ELSE MpscGoTo(c, "stub_store") /\ UNCHANGED <<mpsc_tail, node, owned, order>>
    /\ UNCHANGED <<head, being_dequeued, link, pred, stub_twice>>

\* dequeue_impl(): enqueue_ptr(stub), without a look whether it is in the queue.
StubStore(c) ==
    /\ mpsc_pc[c] = "stub_store"
    /\ link' = [link EXCEPT ![Stub] = Null]
    /\ stub_twice' = (stub_twice \/ \E i \in 1..Len(order) : order[i] = Stub)
    /\ MpscGoTo(c, "stub_swap")
    /\ UNCHANGED <<head, mpsc_tail, being_dequeued, node, pred, owned, order>>

\* Mutant: the node is taken although its successor has not linked itself yet.
DeqNoSpin(c) ==
    /\ mpsc_pc[c] = "deq_spin"
    /\ Advance(head)
    /\ Capture(c, node[c])
    /\ UNCHANGED <<head, being_dequeued, link, pred, stub_twice>>

\* dequeue_impl(): wait until some enqueuer has linked itself behind the node.
DeqSpin(c) ==
    /\ mpsc_pc[c] = "deq_spin"
    /\ link[node[c]] # Null
    /\ Advance(link[node[c]])
    /\ Capture(c, node[c])
    /\ UNCHANGED <<head, being_dequeued, link, pred, stub_twice>>

Release(c) ==
    /\ mpsc_pc[c] = "release"
    /\ being_dequeued' = FALSE
    /\ MpscReturn(c)
    /\ UNCHANGED <<head, mpsc_tail, link, history>>

Produce(c) == Swap(c) \/ Link(c)
Consume(c) == DeqTail(c) \/ DeqNext(c) \/ StubStore(c) \/ DeqSpin(c) \/ Release(c)

MpscNext == \E c \in Ctx : \/ \E e \in Elem : Enqueue(c, e)
                           \/ Produce(c) \/ Dequeue(c) \/ Consume(c)

MpscSpec == MpscInit /\ [][MpscNext]_mpscVars

\* Started calls run on, and consumers come back for more (the scheduler's do).
FairMpscSpec ==
    MpscSpec /\ \A c \in Ctx : /\ WF_mpscVars(Produce(c)) /\ WF_mpscVars(Consume(c))
                               /\ SF_mpscVars(Dequeue(c))

--------------------------------------------------------------------------------
MpscPlaces == {"out", "swap", "link", "deq_tail", "deq_next", "stub_store", "stub_swap",
               "stub_link", "deq_spin", "release"}
Dequeuing == {"deq_tail", "deq_next", "stub_store", "stub_swap", "stub_link",
              "deq_spin", "release"}

MpscTypeOK ==
    /\ head \in Node /\ mpsc_tail \in Node /\ being_dequeued \in BOOLEAN
    /\ link \in [Node -> Node \cup {Null}]
    /\ mpsc_pc \in [Ctx -> MpscPlaces]
    /\ node \in [Ctx -> Node \cup {Null}] /\ pred \in [Ctx -> Node \cup {Null}]
    /\ owned \subseteq Elem /\ order \in Seq(Node) /\ stub_twice \in BOOLEAN
    /\ \A c, d \in Ctx : mpsc_pc[c] \in Dequeuing /\ mpsc_pc[d] \in Dequeuing => c = d

\* A node whose enqueuer is between its swap and its link.
PendingAt(i) ==
    \E c \in Ctx : \/ mpsc_pc[c] = "link" /\ node[c] = order[i+1] /\ pred[c] = order[i]
                   \/ mpsc_pc[c] = "stub_link" /\ order[i+1] = Stub /\ pred[c] = order[i]

\* As long as the stub has not been enqueued twice, the queue is a list from tail
\* to head in swap order, with a gap exactly where an enqueuer has swapped but
\* not yet linked, and the node a dequeue has settled on is the oldest.  So elements
\* come out first in, first out, none is lost or doubled, and no enqueuer writes to
\* a node that was captured already.
ListShape ==
    ~stub_twice =>
        /\ order # <<>> /\ mpsc_tail = order[1] /\ head = order[Len(order)]
        /\ \A i, j \in 1..Len(order) : order[i] = order[j] => i = j
        /\ link[head] = Null
        /\ \A i \in 1..Len(order)-1 :
             \/ link[order[i]] = order[i+1]
             \/ link[order[i]] = Null /\ PendingAt(i)
        /\ \A e \in Elem : e \in owned <=> \/ \E i \in 1..Len(order) : order[i] = e
                                           \/ \E c \in Ctx : mpsc_pc[c] = "swap" /\ node[c] = e
        /\ \A c \in Ctx : mpsc_pc[c] \in Dequeuing \ {"deq_tail", "release"}
                              => node[c] = order[1]

\* dequeue() answers Empty only if no element is in the queue, or if the producer
\* of the oldest one has swapped it in and not linked it yet: that one store is
\* all that can hide elements whose enqueue() has returned.
EmptyMeansUnlinked ==
    [][\A c \in Ctx :
         ~stub_twice /\ mpsc_pc[c] = "deq_tail" /\ mpsc_pc'[c] = "release" /\ node'[c] = Null
           => Len(order) = 1 \/ \E d \in Ctx : mpsc_pc[d] = "link" /\ node[d] = order[2]]_mpscVars

\* Every enqueued element is dequeued.
ElementsComeOut == \A e \in Elem : e \in owned ~> e \notin owned

--------------------------------------------------------------------------------
(* A statement of the source that the code does not keep *)

\* "Dequeueing was successful and returned an element" (mpsc.rs:185): what comes
\* out is something that was put in, never the queue's own stub.
ReturnsAnElement == \A c \in Ctx : mpsc_pc[c] = "release" => node[c] # Stub

================================================================================

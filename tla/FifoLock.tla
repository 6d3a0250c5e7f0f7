------------------------------- MODULE FifoLock -------------------------------
(***************************************************************************)
(* What a fair mutual exclusion lock promises: contexts queue up, the one   *)
(* at the head may be granted the lock, and only the granted head leaves.   *)
(* hyperdrive's McsLock and TicketLock are both shown to implement it.      *)
(***************************************************************************)
EXTENDS Sequences, Naturals

CONSTANT Ctx            \* execution contexts: a thread, or a handler on a core

VARIABLES queue,        \* contexts that hold or wait for the lock, in order
          granted       \* the head of the queue has been given the lock

fifoVars == <<queue, granted>>

Queued == {queue[i] : i \in 1..Len(queue)}

FifoInit == queue = <<>> /\ granted = FALSE

Request(c) ==
    /\ c \notin Queued
    /\ queue' = Append(queue, c)
    /\ granted' = granted

\* A free lock may be granted to the context that asks for it in the same step.
TakeFree(c) ==
    /\ queue = <<>>
    /\ queue' = Append(queue, c)
    /\ granted' = TRUE

Grant ==
    /\ queue # <<>> /\ ~granted
    /\ granted' = TRUE
    /\ UNCHANGED queue

\* The holder leaves and the next context, if any, becomes the head.
Leave ==
    /\ queue # <<>> /\ granted
    /\ queue' = Tail(queue)
    /\ granted' = FALSE

FifoNext == (\E c \in Ctx : Request(c) \/ TakeFree(c)) \/ Grant \/ Leave

FifoSpec == FifoInit /\ [][FifoNext]_fifoVars
===============================================================================

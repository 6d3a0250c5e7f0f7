------------------------------ MODULE TicketLock ------------------------------
(***************************************************************************)
(* hyperdrive/src/locks/ticket.rs: a lock that hands out numbered tickets.  *)
(* The two counters are u32 and wrap; the model keeps the width W general.  *)
(***************************************************************************)
EXTENDS Contexts

CONSTANT W              \* number of ticket values, 2^32 in the code

\* There are fewer contexts than tickets, so no two live tickets collide.
ASSUME TicketAssumption == /\ W \in Nat \ {0}
                           /\ Cardinality(Ctx) <= W

VARIABLES next_ticket, now_serving,     \* TicketLock's counters
          ticket,                       \* the local `ticket` of lock()
          ticket_pc,
          ticket_queue                  \* history: contexts in ticket order

ticketVars == <<next_ticket, now_serving, ticket, ticket_pc, ticket_queue>>

TicketInit ==
    /\ next_ticket = 0 /\ now_serving = 0
    /\ ticket = [c \in Ctx |-> 0]
    /\ ticket_pc = [c \in Ctx |-> "out"]
    /\ ticket_queue = <<>>

\* Mutant: the counter saturates.
SaturatingInc(t) == IF t = W - 1 THEN t ELSE t + 1

\* AtomicU32::fetch_add(1) wraps around.
WrappingInc(t) == IF t = W - 1 THEN 0 ELSE t + 1

\* lock(): next_ticket.fetch_add(1).
TakeTicket(c) ==
    /\ ticket_pc[c] = "out"
    /\ ticket' = [ticket EXCEPT ![c] = next_ticket]
    /\ next_ticket' = WrappingInc(next_ticket)
    /\ ticket_pc' = [ticket_pc EXCEPT ![c] = "spin"]
    /\ ticket_queue' = Append(ticket_queue, c)
    /\ UNCHANGED now_serving

\* lock(): the spin loop ends when now_serving is the ticket.
TicketSpin(c) ==
    /\ ticket_pc[c] = "spin"
    /\ now_serving = ticket[c]
    /\ ticket_pc' = [ticket_pc EXCEPT ![c] = "held"]
    /\ UNCHANGED <<next_ticket, now_serving, ticket, ticket_queue>>

\* drop(): now_serving.fetch_add(1).
TicketDrop(c) ==
    /\ ticket_pc[c] = "held"
    /\ now_serving' = WrappingInc(now_serving)
    /\ ticket_pc' = [ticket_pc EXCEPT ![c] = "out"]
    /\ ticket_queue' = Tail(ticket_queue)
    /\ UNCHANGED <<next_ticket, ticket>>

TicketNext == \E c \in Ctx : TakeTicket(c) \/ TicketSpin(c) \/ TicketDrop(c)

TicketSpec == TicketInit /\ [][TicketNext]_ticketVars

\* A context inside lock() keeps running, and a guard is eventually dropped.
FairTicketSpec ==
    TicketSpec /\ \A c \in Ctx : WF_ticketVars(TicketSpin(c)) /\ WF_ticketVars(TicketDrop(c))

--------------------------------------------------------------------------------
TicketTypeOK ==
    /\ next_ticket \in 0..W-1 /\ now_serving \in 0..W-1
    /\ ticket \in [Ctx -> 0..W-1]
    /\ ticket_pc \in [Ctx -> {"out", "spin", "held"}]
    /\ ticket_queue \in Seq(Ctx)

\* The ticket i places behind the one being served, with wrap-around.
TicketAt(i) == IF now_serving + i < W THEN now_serving + i ELSE now_serving + i - W

\* Live tickets are consecutive from now_serving on, however often the counters
\* have wrapped; the queue lists their owners, and only the first may hold a guard.
LiveTickets ==
    /\ Len(ticket_queue) <= W
    /\ next_ticket = IF Len(ticket_queue) = W THEN now_serving ELSE TicketAt(Len(ticket_queue))
    /\ \A i \in 1..Len(ticket_queue) : ticket[ticket_queue[i]] = TicketAt(i - 1)
TicketOnce == \A i, j \in 1..Len(ticket_queue) : ticket_queue[i] = ticket_queue[j] => i = j
TicketOwners ==
    \A c \in Ctx : ticket_pc[c] # "out" <=> \E i \in 1..Len(ticket_queue) : ticket_queue[i] = c
OthersSpin == \A i \in 2..Len(ticket_queue) : ticket_pc[ticket_queue[i]] = "spin"
TicketsAreConsecutive == LiveTickets /\ TicketOnce /\ TicketOwners /\ OthersSpin

\* At most one TicketGuard is alive, also when the u32 counters wrap.
TicketExclusion == \A c, d \in Ctx : ticket_pc[c] = "held" /\ ticket_pc[d] = "held" => c = d

\* "guarantees fairness and avoids starvation" (ticket.rs:32): the lock is granted
\* in the order of the fetch_add on next_ticket.
TicketFifo == INSTANCE FifoLock WITH queue <- ticket_queue,
                                    granted <- \E c \in Ctx : ticket_pc[c] = "held"
TicketImplementsFifoLock == TicketFifo!FifoSpec

\* Whoever takes a ticket is served.
TicketLockReturns == \A c \in Ctx : ticket_pc[c] = "spin" ~> ticket_pc[c] = "held"
===============================================================================

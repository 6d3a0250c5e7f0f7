------------------------------ MODULE MCHyperdrive ------------------------------
(***************************************************************************)
(* All of hyperdrive's primitives, checked together.  The primitives share no *)
(* state, so a behaviour is about one of them, its subject, and the others    *)
(* stay as they were created: the state spaces add up instead of multiplying. *)
(*                                                                         *)
(* Three contexts: for the MCS lock a holder, a context between its swap and  *)
(* its link, and one that queues behind it or tries; for the barrier a full   *)
(* round and one context too many; for the queues two on one side.           *)
(***************************************************************************)
EXTENDS MUMcsLock, TicketLock, RwLock, Once, Barrier, MpscQueue, MpmcQueue, Ring, TLC

CONSTANT Subjects

VARIABLE subject

Symmetric == Permutations(Ctx)

vars == <<subject, allVars, ticketVars, rwVars, onceVars, barrierVars, mpscVars,
          mpmcVars, ringVars>>

Init ==
    /\ subject \in Subjects
    /\ MUInit /\ TicketInit /\ RwInit /\ OnceInit /\ WaitInit /\ MpscInit /\ MpmcInit /\ RingInit
    /\ subject = "once" \/ unwinds
    /\ subject = "barrier" \/ reusable

\* A step of the subject s.
Only(s) ==
    /\ subject = s /\ UNCHANGED subject
    /\ IF s \in {"mcs", "mumcs"} THEN TRUE ELSE UNCHANGED mcsVars
    /\ IF s = "mumcs" THEN TRUE ELSE UNCHANGED muVars
    /\ IF s = "ticket" THEN TRUE ELSE UNCHANGED ticketVars
    /\ IF s = "rw" THEN TRUE ELSE UNCHANGED rwVars
    /\ IF s = "once" THEN TRUE ELSE UNCHANGED onceVars
    /\ IF s = "barrier" THEN TRUE ELSE UNCHANGED barrierVars
    /\ IF s = "mpsc" THEN TRUE ELSE UNCHANGED mpscVars
    /\ IF s = "mpmc" THEN TRUE ELSE UNCHANGED mpmcVars
    /\ IF s = "ring" THEN TRUE ELSE UNCHANGED ringVars

Next ==
    \/ Only("mcs") /\ McsNext
    \/ Only("mumcs") /\ MUNext
    \/ Only("ticket") /\ TicketNext
    \/ Only("rw") /\ RwNext
    \/ Only("once") /\ OnceNext
    \/ Only("barrier") /\ WaitNext
    \/ Only("mpsc") /\ MpscNext
    \/ Only("mpmc") /\ MpmcNext
    \/ Only("ring") /\ RingNext

Spec == Init /\ [][Next]_vars

\* Calls that have begun run on, and guards are dropped.  Only two kinds of calls
\* must also begin again: all contexts come to every round of the barrier, and the
\* consumers of the MPSC queue come back for more, as the scheduler does.
FairSpec ==
    /\ Spec
    /\ \A c \in Ctx :
         /\ WF_mcsVars(Lock(c) \/ DropGuard(c))
         /\ WF_ticketVars(TicketSpin(c) \/ TicketDrop(c))
         /\ WF_rwVars(Reader(c) \/ Writer(c))
         /\ WF_onceVars(OnceCall(c) \/ OnceGet(c))
         /\ WF_barrierVars(subject = "barrier" /\ (BarrierCall(c) \/ Wait(c)))
         /\ WF_mpscVars(Produce(c) \/ Consume(c))
         /\ SF_mpscVars(subject = "mpsc" /\ Dequeue(c))

\* Every primitive's state has its type.
HyperdriveTypeOK ==
    /\ McsTypeOK /\ MUTypeOK /\ TicketTypeOK /\ RwTypeOK /\ OnceTypeOK /\ BarrierTypeOK
    /\ MpscTypeOK /\ MpmcTypeOK /\ RingTypeOK

\* Whoever calls lock() on an MCS or ticket lock gets it, and unlocking an MCS lock,
\* which may have to wait for its successor to link itself, ends.
LocksAreGranted == LockReturns /\ DropReturns /\ TicketLockReturns

\* What follows after the stub was enqueued twice is not explored: the properties
\* say nothing about it.
UntilStubTwice == ~stub_twice
=================================================================================

-------------------------------- MODULE Barrier --------------------------------
(***************************************************************************)
(* hyperdrive/src/sync/barrier.rs: the one-shot Barrier and ReusableBarrier.  *)
(* Every step is one access to an atomic counter.                            *)
(***************************************************************************)
EXTENDS Contexts

CONSTANT Count          \* contexts a round waits for

\* new() asserts count > 0.
ASSUME BarrierAssumption == Count \in Nat \ {0}

VARIABLES reusable,             \* ReusableBarrier or Barrier
          rank, current, out,   \* the counters (Barrier has only `current`)
          barrier_pc,
          arrived, left         \* history: this round's arrivals and departures

barrierVars == <<reusable, rank, current, out, barrier_pc, arrived, left>>

WaitInit ==
    /\ reusable \in BOOLEAN
    /\ rank = 0 /\ current = 0 /\ out = 0
    /\ barrier_pc = [c \in Ctx |-> "idle"]
    /\ arrived = {} /\ left = {}

BarrierStep(c, from, to) ==
    /\ barrier_pc[c] = from
    /\ barrier_pc' = [barrier_pc EXCEPT ![c] = to]
    /\ UNCHANGED reusable

BarrierCall(c) ==
    /\ BarrierStep(c, "idle", IF reusable THEN "rank" ELSE "current")
    /\ UNCHANGED <<rank, current, out, arrived, left>>

\* ReusableBarrier::wait(): rank.fetch_add(1); `full` means this round has all
\* its members.
Rank(c) ==
    /\ BarrierStep(c, "rank", IF rank >= Count THEN "full" ELSE "current")
    /\ rank' = rank + 1
    /\ UNCHANGED <<current, out, arrived, left>>

\* ReusableBarrier::wait(): wait for the reset instead of adding again.
RankSpin(c) ==
    /\ rank < Count
    /\ BarrierStep(c, "full", "rank")
    /\ UNCHANGED <<rank, current, out, arrived, left>>

\* wait(): current.fetch_add(1).  Barrier panics for a context too many.
Current(c) ==
    /\ BarrierStep(c, "current", IF reusable \/ current < Count THEN "wait" ELSE "panicked")
    /\ current' = current + 1
    /\ arrived' = IF reusable \/ current < Count THEN arrived \cup {c} ELSE arrived
    /\ UNCHANGED <<rank, out, left>>

\* wait(): the waiting loop ends.
WaitSpin(c) ==
    /\ current >= Count
    /\ BarrierStep(c, "wait", IF reusable THEN "out" ELSE "idle")
    /\ left' = left \cup {c}
    /\ UNCHANGED <<rank, current, out, arrived>>

\* Mutant: the first context to leave resets the barrier.
OutFirst(c) ==
    /\ BarrierStep(c, "out", IF out = 0 THEN "reset_current" ELSE "idle")
    /\ out' = out + 1
    /\ UNCHANGED <<rank, current, arrived, left>>

\* ReusableBarrier::wait(): out.fetch_add(1); the last one out resets.
Out(c) ==
    /\ BarrierStep(c, "out", IF out = Count - 1 THEN "reset_current" ELSE "idle")
    /\ out' = out + 1
    /\ UNCHANGED <<rank, current, arrived, left>>

ResetCurrent(c) ==
    /\ BarrierStep(c, "reset_current", "reset_out")
    /\ current' = 0
    /\ UNCHANGED <<rank, out, arrived, left>>

ResetOut(c) ==
    /\ BarrierStep(c, "reset_out", "reset_rank")
    /\ out' = 0
    /\ UNCHANGED <<rank, current, arrived, left>>

\* Mutant: `rank` is not reset.
ResetNoRank(c) ==
    /\ BarrierStep(c, "reset_rank", "idle")
    /\ arrived' = {} /\ left' = {}
    /\ UNCHANGED <<rank, current, out>>

\* The store to `rank` opens the next round.
ResetRank(c) ==
    /\ BarrierStep(c, "reset_rank", "idle")
    /\ rank' = 0
    /\ arrived' = {} /\ left' = {}
    /\ UNCHANGED <<current, out>>

Reset(c) == ResetCurrent(c) \/ ResetOut(c) \/ ResetRank(c)
Wait(c) == Rank(c) \/ RankSpin(c) \/ Current(c) \/ WaitSpin(c) \/ Out(c) \/ Reset(c)

WaitNext == \E c \in Ctx : BarrierCall(c) \/ Wait(c)

WaitSpec == WaitInit /\ [][WaitNext]_barrierVars

\* Contexts that have called wait() keep running.
FairWaitSpec == WaitSpec /\ \A c \in Ctx : WF_barrierVars(Wait(c))

\* Contexts that come back for every round, for ever.
ReturningSpec == FairWaitSpec /\ \A c \in Ctx : WF_barrierVars(BarrierCall(c))

--------------------------------------------------------------------------------
BarrierPlaces == {"idle", "rank", "full", "current", "wait", "out", "reset_current",
                  "reset_out", "reset_rank", "panicked"}

\* In particular `rank` never grows past one count per context, the overflow that
\* barrier.rs:161 calls catastrophic.
BarrierTypeOK ==
    /\ reusable \in BOOLEAN
    /\ rank \in 0 .. Count + Cardinality(Ctx)
    /\ current \in 0 .. Count + Cardinality(Ctx)
    /\ out \in 0..Count
    /\ barrier_pc \in [Ctx -> BarrierPlaces]
    /\ arrived \subseteq Ctx /\ left \subseteq arrived

\* "This will block the current thread until all threads have reached the
\* barrier" (barrier.rs:96): in every round exactly Count contexts arrive before
\* the first one leaves, also when the fast ones are already waiting again.
Abstract == INSTANCE BarrierSpec
ImplementsRounds == Abstract!Rounds

\* Every round completes: contexts that keep using the barrier all keep leaving.
WaitReturns ==
    \A c \in Ctx : reusable /\ barrier_pc[c] # "idle" ~> barrier_pc[c] = "idle"
===============================================================================

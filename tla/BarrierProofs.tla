----------------------------- MODULE BarrierProofs -----------------------------
(***************************************************************************)
(* Both barriers run in rounds, for every count and every finite set of      *)
(* contexts.                                                                *)
(***************************************************************************)
EXTENDS Barrier, FiniteSetTheorems, TLAPS

\* How many contexts are at a place of wait().
Num(p) == Cardinality({c \in Ctx : barrier_pc[c] = p})

Resetting(c) == barrier_pc[c] \in {"reset_current", "reset_out", "reset_rank"}

BarrierTypes ==
    /\ reusable \in BOOLEAN /\ rank \in Nat /\ current \in Nat /\ out \in Nat
    /\ barrier_pc \in [Ctx -> BarrierPlaces]
    /\ arrived \subseteq Ctx /\ left \subseteq arrived

\* The waiting contexts are those that have arrived and not left, and nobody leaves a
\* round that is not complete.
WaitersArrived ==
    /\ \A c \in Ctx : barrier_pc[c] = "wait" <=> c \in arrived \ left
    /\ left # {} => Cardinality(arrived) = Count

\* Barrier: `current` counts the arrivals, and those that panicked.
OneShotInv ==
    /\ Cardinality(arrived) = IF current < Count THEN current ELSE Count
    /\ \A c \in Ctx : barrier_pc[c] \in {"idle", "current", "wait", "panicked"}

\* ReusableBarrier: `rank` admits Count contexts to a round; until the last one out
\* resets them, `current` counts the arrivals and `out` the departures.
ReusableInv ==
    /\ Cardinality(arrived) + Num("current") = IF rank < Count THEN rank ELSE Count
    /\ (\A c \in Ctx : ~Resetting(c)) =>
          /\ current = Cardinality(arrived)
          /\ out + Num("out") = Cardinality(left)
          /\ out < Count
    /\ \A c \in Ctx : Resetting(c) =>
          /\ \A d \in Ctx : Resetting(d) => d = c
          /\ left = arrived /\ Cardinality(arrived) = Count /\ Num("out") = 0
          /\ barrier_pc[c] # "reset_current" => current = 0
          /\ barrier_pc[c] = "reset_rank" => out = 0

\* The inductive invariant of both barriers.
BarrierInv ==
    /\ BarrierTypes /\ WaitersArrived
    /\ reusable => ReusableInv
    /\ ~reusable => OneShotInv

LEMMA BarrierFinite ==
  ASSUME BarrierTypes
  PROVE  /\ IsFiniteSet(arrived) /\ Cardinality(arrived) \in Nat
         /\ IsFiniteSet(left) /\ Cardinality(left) \in Nat
         /\ Cardinality(left) <= Cardinality(arrived)
         /\ Cardinality(left) = Cardinality(arrived) => left = arrived
         /\ Cardinality({}) = 0
         /\ Cardinality(arrived) = 0 <=> arrived = {}
  <1>1. IsFiniteSet(arrived) BY CtxFinite, FS_Subset DEF BarrierTypes
  <1>2. IsFiniteSet(left) BY <1>1, FS_Subset DEF BarrierTypes
  <1> QED BY <1>1, <1>2, FS_Subset, FS_CardinalityType, FS_EmptySet DEF BarrierTypes

LEMMA NumFacts ==
  ASSUME NEW p
  PROVE  /\ Num(p) \in Nat
         /\ Num(p) = 0 <=> \A c \in Ctx : barrier_pc[c] # p
  <1> DEFINE S == {c \in Ctx : barrier_pc[c] = p}
  <1>1. IsFiniteSet(S) BY CtxFinite, FS_Subset
  <1>2. Cardinality(S) \in Nat /\ (Cardinality(S) = 0 <=> S = {})
    BY <1>1, FS_CardinalityType, FS_EmptySet
  <1> QED BY <1>2 DEF Num

LEMMA BarrierInitInv == WaitInit => BarrierInv
  <1> SUFFICES ASSUME WaitInit PROVE BarrierInv
    OBVIOUS
  <1>1. BarrierTypes /\ WaitersArrived
    BY DEF WaitInit, BarrierTypes, WaitersArrived, BarrierPlaces
  <1>2. Num("current") = 0 /\ Num("out") = 0 BY NumFacts DEF WaitInit
  <1>3. Cardinality(arrived) = 0 /\ Cardinality(left) = 0 BY FS_EmptySet DEF WaitInit
  <1>4. ReusableInv
    BY <1>2, <1>3, BarrierAssumption DEF WaitInit, ReusableInv, Resetting
  <1>5. OneShotInv BY <1>3, BarrierAssumption DEF WaitInit, OneShotInv
  <1> QED BY <1>1, <1>4, <1>5 DEF BarrierInv

\* A context that was admitted to a round has not arrived in it, and the round is not
\* complete.
LEMMA AdmittedOnce ==
  ASSUME BarrierInv, NEW c \in Ctx, barrier_pc[c] = "current", reusable \/ current < Count
  PROVE  Cardinality(arrived) < Count /\ left = {} /\ c \notin arrived
  <1>1. BarrierTypes /\ WaitersArrived /\ current \in Nat BY DEF BarrierInv, BarrierTypes
  <1>2. Cardinality(arrived) \in Nat BY <1>1, BarrierFinite
  <1>3. Cardinality(arrived) < Count
    <2>1. CASE reusable
      <3>1. Num("current") \in Nat /\ Num("current") # 0 BY NumFacts
      <3>2. Cardinality(arrived) + Num("current") = IF rank < Count THEN rank ELSE Count
        BY <2>1 DEF BarrierInv, ReusableInv
      <3>3. rank \in Nat BY <1>1 DEF BarrierTypes
      <3> QED BY <1>2, <3>1, <3>2, <3>3, BarrierAssumption
    <2>2. CASE ~reusable
      <3>1. Cardinality(arrived) = current BY <2>2 DEF BarrierInv, OneShotInv
      <3> QED BY <2>2, <3>1
    <2> QED BY <2>1, <2>2 
  <1>4. left = {} BY <1>1, <1>2, <1>3, BarrierAssumption DEF WaitersArrived
  <1>5. c \notin arrived BY <1>1, <1>4 DEF WaitersArrived
  <1> QED BY <1>3, <1>4, <1>5

\* A context that stops waiting finds the round complete, and nobody resetting.
LEMMA LeavesComplete ==
  ASSUME BarrierInv, NEW c \in Ctx, barrier_pc[c] = "wait", current >= Count
  PROVE  /\ Cardinality(arrived) = Count /\ c \in arrived \ left
         /\ reusable => \A d \in Ctx : ~Resetting(d)
  <1>1. BarrierTypes /\ WaitersArrived /\ current \in Nat /\ rank \in Nat BY DEF BarrierInv, BarrierTypes
  <1>2. c \in arrived \ left BY <1>1 DEF WaitersArrived
  <1>3. CASE reusable
    <2>1. ReusableInv BY <1>3 DEF BarrierInv
    <2>2. \A d \in Ctx : ~Resetting(d) BY <1>2, <2>1 DEF ReusableInv
    <2>3. current = Cardinality(arrived) BY <2>1, <2>2 DEF ReusableInv
    <2>4. Num("current") \in Nat BY NumFacts
    <2>5. Cardinality(arrived) + Num("current") = IF rank < Count THEN rank ELSE Count
      BY <2>1 DEF ReusableInv
    <2>6. Cardinality(arrived) = Count BY <1>1, <2>3, <2>4, <2>5, BarrierAssumption
    <2> QED BY <1>2, <2>2, <2>6
  <1>4. CASE ~reusable
    <2>1. Cardinality(arrived) = Count BY <1>1, <1>4, BarrierAssumption DEF BarrierInv, OneShotInv
    <2> QED BY <1>2, <1>4, <2>1
  <1> QED BY <1>3, <1>4

\* What every step does to the places.
LEMMA StepPlaces ==
  ASSUME BarrierInv, NEW c \in Ctx, NEW from \in BarrierPlaces, NEW to \in BarrierPlaces,
         from # to, BarrierStep(c, from, to)
  PROVE  /\ reusable' = reusable /\ reusable \in BOOLEAN
         /\ barrier_pc' \in [Ctx -> BarrierPlaces]
         /\ barrier_pc[c] = from /\ barrier_pc'[c] = to
         /\ \A d \in Ctx : d # c => barrier_pc'[d] = barrier_pc[d]
         /\ \A d \in Ctx : d # c => (Resetting(d)' <=> Resetting(d))
         /\ Num("current")' = Num("current") + (IF to = "current" THEN 1 ELSE 0) - (IF from = "current" THEN 1 ELSE 0)
         /\ Num("out")' = Num("out") + (IF to = "out" THEN 1 ELSE 0) - (IF from = "out" THEN 1 ELSE 0)
         /\ Num("current") \in Nat /\ Num("out") \in Nat
  <1>1. BarrierTypes BY DEF BarrierInv
  <1>2. /\ reusable' = reusable /\ reusable \in BOOLEAN
        /\ barrier_pc' = [barrier_pc EXCEPT ![c] = to] /\ barrier_pc[c] = from
        /\ barrier_pc \in [Ctx -> BarrierPlaces]
    BY <1>1 DEF BarrierStep, BarrierTypes
  <1>3. /\ barrier_pc' \in [Ctx -> BarrierPlaces] /\ barrier_pc'[c] = to
        /\ \A d \in Ctx : d # c => barrier_pc'[d] = barrier_pc[d]
    BY <1>2
  <1>4. Num("current") \in Nat /\ Num("out") \in Nat BY NumFacts
  <1>5. ASSUME NEW p
        PROVE  Cardinality({d \in Ctx : barrier_pc'[d] = p}) =
                 Cardinality({d \in Ctx : barrier_pc[d] = p})
                   + (IF to = p THEN 1 ELSE 0) - (IF from = p THEN 1 ELSE 0)
    <2> DEFINE S == {d \in Ctx : barrier_pc[d] = p}
               T == {d \in Ctx : barrier_pc'[d] = p}
    <2>1. IsFiniteSet(S) /\ Cardinality(S) \in Nat BY CtxFinite, FS_Subset, FS_CardinalityType
    <2>2. /\ p = from => T = S \ {c} /\ c \in S
          /\ p = to => T = S \cup {c} /\ c \notin S
          /\ p # from /\ p # to => T = S
      BY <1>2
    <2> HIDE DEF S, T
    <2>3. Cardinality(T) = Cardinality(S) + (IF to = p THEN 1 ELSE 0) - (IF from = p THEN 1 ELSE 0)
      BY <2>1, <2>2, FS_AddElement, FS_RemoveElement
    <2> QED BY <2>3 DEF S, T
  <1>6. /\ Num("current")' = Num("current") + (IF to = "current" THEN 1 ELSE 0) - (IF from = "current" THEN 1 ELSE 0)
        /\ Num("out")' = Num("out") + (IF to = "out" THEN 1 ELSE 0) - (IF from = "out" THEN 1 ELSE 0)
    BY <1>5, Zenon DEF Num
  <1> QED BY <1>2, <1>3, <1>4, <1>6 DEF Resetting

\* wait() is called, and `rank` decides who belongs to the round.
LEMMA EnterInv ==
  ASSUME BarrierInv, NEW c \in Ctx, BarrierCall(c) \/ Rank(c) \/ RankSpin(c)
  PROVE  BarrierInv' /\ UNCHANGED <<arrived, left>>
  <1>1. BarrierTypes /\ WaitersArrived /\ rank \in Nat /\ barrier_pc \in [Ctx -> BarrierPlaces]
    BY DEF BarrierInv, BarrierTypes
  <1>2. UNCHANGED <<current, out, arrived, left>> BY DEF BarrierCall, Rank, RankSpin
  <1>3. PICK f \in BarrierPlaces, t \in BarrierPlaces :
           /\ f \in {"idle", "rank", "full"} /\ t \in {"rank", "full", "current"} /\ f # t
           /\ BarrierStep(c, f, t)
           /\ reusable => /\ t = "current" => rank < Count /\ rank' = rank + 1
                          /\ t # "current" => rank' = rank \/ (rank >= Count /\ rank' = rank + 1)
           /\ ~reusable => (f = "idle" => t = "current")
           /\ rank' \in Nat
    <2> USE <1>1 DEF BarrierPlaces
    <2>1. CASE BarrierCall(c) /\ reusable BY <2>1 DEF BarrierCall
    <2>2. CASE BarrierCall(c) /\ ~reusable BY <2>2 DEF BarrierCall
    <2>3. CASE Rank(c) /\ rank >= Count BY <2>3 DEF Rank
    <2>4. CASE Rank(c) /\ ~(rank >= Count) BY <2>4, BarrierAssumption DEF Rank
    <2>5. CASE RankSpin(c) BY <2>5 DEF RankSpin
    <2> QED BY <2>1, <2>2, <2>3, <2>4, <2>5
  <1>4. /\ reusable' = reusable /\ reusable \in BOOLEAN
        /\ barrier_pc' \in [Ctx -> BarrierPlaces]
        /\ barrier_pc[c] = f /\ barrier_pc'[c] = t
        /\ \A d \in Ctx : d # c => barrier_pc'[d] = barrier_pc[d]
        /\ \A d \in Ctx : d # c => (Resetting(d)' <=> Resetting(d))
        /\ Num("current")' = Num("current") + (IF t = "current" THEN 1 ELSE 0)
        /\ Num("out")' = Num("out") /\ Num("current") \in Nat
    <2>1. f # "current" /\ f # "out" /\ t # "out" BY <1>3
    <2> QED BY <1>3, <2>1, StepPlaces
  <1>5. BarrierTypes' BY <1>1, <1>2, <1>3, <1>4 DEF BarrierTypes
  <1>6. WaitersArrived' BY <1>1, <1>2, <1>3, <1>4 DEF WaitersArrived
  <1>7. ASSUME reusable PROVE ReusableInv'
    <2>1. \A d \in Ctx : Resetting(d)' <=> Resetting(d) BY <1>3, <1>4 DEF Resetting
    <2>2. ReusableInv BY <1>7 DEF BarrierInv
    <2>3. (Cardinality(arrived) + Num("current") = IF rank < Count THEN rank ELSE Count)'
      <3>1. Cardinality(arrived) + Num("current") = IF rank < Count THEN rank ELSE Count
        BY <2>2 DEF ReusableInv
      <3>2. Cardinality(arrived) \in Nat BY <1>1, BarrierFinite
      <3> QED BY <1>1, <1>2, <1>3, <1>4, <1>7, <3>1, <3>2, BarrierAssumption
    <2>4. \A d \in Ctx : Resetting(d)' => barrier_pc'[d] = barrier_pc[d]
      BY <1>3, <1>4 DEF Resetting
    <2> QED BY <1>2, <1>4, <2>1, <2>2, <2>3, <2>4 DEF ReusableInv
  <1>8. ASSUME ~reusable PROVE OneShotInv'
    <2>1. OneShotInv BY <1>8 DEF BarrierInv
    <2>2. f = "idle" BY <1>3, <1>4, <2>1 DEF OneShotInv
    <2> QED BY <1>2, <1>3, <1>4, <1>8, <2>1, <2>2 DEF OneShotInv
  <1> QED BY <1>2, <1>4, <1>5, <1>6, <1>7, <1>8 DEF BarrierInv

\* The specification counts with the same operator.
LEMMA AbstractCount == ASSUME NEW S PROVE Abstract!Cardinality(S) = Cardinality(S)
  BY DEF Abstract!Cardinality, Cardinality

\* current.fetch_add(1): an arrival, or the panic of a context too many.
LEMMA CurrentInv ==
  ASSUME BarrierInv, NEW c \in Ctx, Current(c)
  PROVE  BarrierInv' /\ (Abstract!Arrive(c) \/ UNCHANGED <<arrived, left>>)
  <1>1. /\ BarrierTypes /\ WaitersArrived /\ current \in Nat /\ rank \in Nat
        /\ Cardinality(arrived) \in Nat /\ IsFiniteSet(arrived) /\ arrived \subseteq Ctx
    BY BarrierFinite DEF BarrierInv, BarrierTypes
  <1>2. current' = current + 1 /\ UNCHANGED <<rank, out, left>> BY DEF Current
  <1>3. CASE reusable \/ current < Count
    <2>1. BarrierStep(c, "current", "wait") /\ arrived' = arrived \cup {c} BY <1>3 DEF Current
    <2>2. /\ reusable' = reusable /\ reusable \in BOOLEAN
          /\ barrier_pc' \in [Ctx -> BarrierPlaces]
          /\ barrier_pc[c] = "current" /\ barrier_pc'[c] = "wait"
          /\ \A d \in Ctx : d # c => barrier_pc'[d] = barrier_pc[d]
          /\ \A d \in Ctx : d # c => (Resetting(d)' <=> Resetting(d))
          /\ Num("current")' = Num("current") - 1
          /\ Num("out")' = Num("out") /\ Num("current") \in Nat /\ Num("out") \in Nat
      BY <2>1, StepPlaces DEF BarrierPlaces
    <2>3. Cardinality(arrived) < Count /\ left = {} /\ c \notin arrived BY <1>3, <2>2, AdmittedOnce
    <2>4. Cardinality(arrived') = Cardinality(arrived) + 1 BY <1>1, <2>1, <2>3, FS_AddElement
    <2>5. Abstract!Arrive(c) BY <1>2, <2>1, <2>3, AbstractCount DEF Abstract!Arrive
    <2>6. BarrierTypes' BY <1>1, <1>2, <2>1, <2>2 DEF BarrierTypes
    <2>7. WaitersArrived' BY <1>1, <1>2, <2>1, <2>2, <2>3 DEF WaitersArrived
    <2>8. ASSUME reusable PROVE ReusableInv'
      <3>1. ReusableInv BY <2>8 DEF BarrierInv
      <3>2. \A d \in Ctx : ~Resetting(d) BY <1>1, <2>3, <3>1, BarrierAssumption DEF ReusableInv
      <3>3. \A d \in Ctx : ~Resetting(d)' BY <2>2, <3>2 DEF Resetting
      <3>4. (Cardinality(arrived) + Num("current") = IF rank < Count THEN rank ELSE Count)'
        <4>1. Cardinality(arrived) + Num("current") = IF rank < Count THEN rank ELSE Count
          BY <3>1 DEF ReusableInv
        <4> QED BY <1>1, <1>2, <2>2, <2>4, <4>1
      <3>5. /\ current = Cardinality(arrived) /\ out + Num("out") = Cardinality(left)
            /\ out < Count
        BY <3>1, <3>2 DEF ReusableInv
      <3>6. /\ current' = Cardinality(arrived') /\ out' + Num("out")' = Cardinality(left')
            /\ out' < Count
        BY <1>2, <2>2, <2>4, <3>5
      <3> QED BY <3>3, <3>4, <3>6 DEF ReusableInv
    <2>9. ASSUME ~reusable PROVE OneShotInv'
      <3>1. OneShotInv /\ current < Count BY <1>3, <2>9 DEF BarrierInv
      <3>2. Cardinality(arrived') = current + 1 BY <2>4, <3>1 DEF OneShotInv
      <3>3. (Cardinality(arrived) = IF current < Count THEN current ELSE Count)'
        BY <1>1, <1>2, <3>1, <3>2, BarrierAssumption
      <3> QED BY <2>2, <3>1, <3>3 DEF OneShotInv
    <2> QED BY <2>2, <2>5, <2>6, <2>7, <2>8, <2>9 DEF BarrierInv
  <1>4. CASE ~reusable /\ ~(current < Count)
    <2>1. BarrierStep(c, "current", "panicked") /\ arrived' = arrived BY <1>4 DEF Current
    <2>2. /\ reusable' = reusable /\ barrier_pc' \in [Ctx -> BarrierPlaces]
          /\ barrier_pc[c] = "current" /\ barrier_pc'[c] = "panicked"
          /\ \A d \in Ctx : d # c => barrier_pc'[d] = barrier_pc[d]
      BY <2>1, StepPlaces DEF BarrierPlaces
    <2>3. BarrierTypes' BY <1>1, <1>2, <2>1, <2>2 DEF BarrierTypes
    <2>4. WaitersArrived' BY <1>1, <1>2, <2>1, <2>2 DEF WaitersArrived
    <2>5. OneShotInv'
      <3>1. OneShotInv BY <1>4 DEF BarrierInv
      <3> QED BY <1>1, <1>2, <1>4, <2>1, <2>2, <3>1, BarrierAssumption DEF OneShotInv
    <2> QED BY <1>2, <1>4, <2>1, <2>2, <2>3, <2>4, <2>5 DEF BarrierInv
  <1> QED BY <1>3, <1>4

\* The waiting loop ends: a departure.
LEMMA WaitSpinInv ==
  ASSUME BarrierInv, NEW c \in Ctx, WaitSpin(c)
  PROVE  BarrierInv' /\ Abstract!Leave(c)
  <1>1. /\ BarrierTypes /\ WaitersArrived /\ IsFiniteSet(left) /\ Cardinality(left) \in Nat
        /\ left \subseteq arrived /\ reusable \in BOOLEAN
    BY BarrierFinite DEF BarrierInv, BarrierTypes
  <1>2. /\ UNCHANGED <<rank, current, out, arrived>> /\ left' = left \cup {c} /\ current >= Count
        /\ barrier_pc[c] = "wait"
    BY DEF WaitSpin, BarrierStep
  <1>3. /\ Cardinality(arrived) = Count /\ c \in arrived \ left
        /\ reusable => \A d \in Ctx : ~Resetting(d)
    BY <1>2, LeavesComplete
  <1>4. Abstract!Leave(c) BY <1>2, <1>3, AbstractCount DEF Abstract!Leave
  <1>5. CASE reusable
    <2>1. /\ reusable' = reusable /\ barrier_pc' \in [Ctx -> BarrierPlaces]
          /\ barrier_pc'[c] = "out"
          /\ \A d \in Ctx : d # c => barrier_pc'[d] = barrier_pc[d]
          /\ \A d \in Ctx : d # c => (Resetting(d)' <=> Resetting(d))
          /\ Num("current")' = Num("current")
          /\ Num("out")' = Num("out") + 1 /\ Num("out") \in Nat
      <3>1. BarrierStep(c, "wait", "out") BY <1>5 DEF WaitSpin
      <3> QED BY <3>1, StepPlaces DEF BarrierPlaces
    <2>2. BarrierTypes' BY <1>1, <1>2, <1>3, <2>1 DEF BarrierTypes
    <2>3. WaitersArrived' BY <1>1, <1>2, <1>3, <2>1 DEF WaitersArrived
    <2>4. ReusableInv'
      <3>1. ReusableInv BY <1>5 DEF BarrierInv
      <3>2. \A d \in Ctx : ~Resetting(d)' BY <1>3, <1>5, <2>1 DEF Resetting
      <3>3. out + Num("out") = Cardinality(left) /\ out \in Nat
        BY <1>1, <1>3, <1>5, <3>1 DEF ReusableInv, BarrierTypes
      <3>4. Cardinality(left') = Cardinality(left) + 1 BY <1>1, <1>2, <1>3, FS_AddElement, Zenon
      <3>5. out' + Num("out")' = Cardinality(left') BY <1>1, <1>2, <2>1, <3>3, <3>4
      <3> QED BY <1>2, <1>3, <1>5, <2>1, <3>1, <3>2, <3>5 DEF ReusableInv
    <2> QED BY <1>4, <1>5, <2>1, <2>2, <2>3, <2>4 DEF BarrierInv
  <1>6. CASE ~reusable
    <2>1. /\ reusable' = reusable /\ barrier_pc' \in [Ctx -> BarrierPlaces]
          /\ barrier_pc'[c] = "idle"
          /\ \A d \in Ctx : d # c => barrier_pc'[d] = barrier_pc[d]
      <3>1. BarrierStep(c, "wait", "idle") BY <1>6 DEF WaitSpin
      <3> QED BY <3>1, StepPlaces DEF BarrierPlaces
    <2>2. BarrierTypes' BY <1>1, <1>2, <1>3, <2>1 DEF BarrierTypes
    <2>3. WaitersArrived' BY <1>1, <1>2, <1>3, <2>1 DEF WaitersArrived
    <2>4. OneShotInv' BY <1>2, <1>6, <2>1 DEF BarrierInv, OneShotInv
    <2> QED BY <1>4, <1>6, <2>1, <2>2, <2>3, <2>4 DEF BarrierInv
  <1> QED BY <1>1, <1>5, <1>6

\* Only a ReusableBarrier has contexts behind the waiting loop.
LEMMA BehindLoop ==
  ASSUME BarrierInv, NEW c \in Ctx, barrier_pc[c] = "out" \/ Resetting(c)
  PROVE  /\ reusable /\ ReusableInv /\ BarrierTypes /\ WaitersArrived
         /\ rank \in Nat /\ current \in Nat /\ out \in Nat
  BY DEF BarrierInv, BarrierTypes, OneShotInv, Resetting

\* out.fetch_add(1): who finds Count - 1 is the last one out.
LEMMA OutInv ==
  ASSUME BarrierInv, NEW c \in Ctx, Out(c)
  PROVE  BarrierInv' /\ UNCHANGED <<arrived, left>>
  <1>1. out' = out + 1 /\ UNCHANGED <<rank, current, arrived, left>> /\ barrier_pc[c] = "out"
    BY DEF Out, BarrierStep
  <1>2. reusable /\ ReusableInv /\ BarrierTypes /\ WaitersArrived /\ out \in Nat
    BY <1>1, BehindLoop
  <1>3. Num("out") # 0 /\ Num("out") \in Nat BY <1>1, NumFacts
  <1>4. \A d \in Ctx : ~Resetting(d) BY <1>2, <1>3 DEF ReusableInv
  <1>5. /\ current = Cardinality(arrived) /\ out + Num("out") = Cardinality(left)
        /\ out < Count
    BY <1>2, <1>4 DEF ReusableInv
  <1>6. PICK t \in {"idle", "reset_current"} :
           BarrierStep(c, "out", t) /\ (t = "reset_current" <=> out = Count - 1)
    BY DEF Out
  <1>7. /\ reusable' = reusable /\ barrier_pc' \in [Ctx -> BarrierPlaces]
        /\ barrier_pc'[c] = t
        /\ \A d \in Ctx : d # c => barrier_pc'[d] = barrier_pc[d]
        /\ \A d \in Ctx : d # c => (Resetting(d)' <=> Resetting(d))
        /\ Num("current")' = Num("current") /\ Num("out")' = Num("out") - 1
    <2>1. t \in BarrierPlaces /\ t # "current" /\ t # "out" BY <1>6 DEF BarrierPlaces
    <2>2. "out" \in BarrierPlaces BY DEF BarrierPlaces
    <2>3. Num("current") \in Nat BY NumFacts
    <2> QED BY <1>3, <1>6, <2>1, <2>2, <2>3, StepPlaces
  <1>8. BarrierTypes' BY <1>1, <1>2, <1>7 DEF BarrierTypes
  <1>9. WaitersArrived' BY <1>1, <1>2, <1>6, <1>7 DEF WaitersArrived
  <1>10. CASE t = "idle"
    <2>1. \A d \in Ctx : ~Resetting(d)' BY <1>4, <1>7, <1>10 DEF Resetting
    <2>2. out # Count - 1 BY <1>6, <1>10
    <2>3. out' + Num("out")' = Cardinality(left') /\ out' < Count
      BY <1>1, <1>2, <1>3, <1>5, <1>7, <2>2, BarrierAssumption
    <2>4. ReusableInv' BY <1>1, <1>2, <1>5, <1>7, <2>1, <2>3 DEF ReusableInv
    <2> QED BY <1>1, <1>2, <1>7, <1>8, <1>9, <2>4 DEF BarrierInv
  <1>11. CASE t = "reset_current"
    <2>1. \A d \in Ctx : Resetting(d)' => d = c BY <1>4, <1>7
    <2>2. Cardinality(left) \in Nat /\ Cardinality(left) # 0
      BY <1>2, <1>3, <1>5, BarrierFinite
    <2>3. Cardinality(arrived) = Count
      BY <1>2, <2>2, FS_EmptySet DEF WaitersArrived
    <2>4. Cardinality(left) <= Cardinality(arrived) BY <1>2, BarrierFinite
    <2>5. Num("out") = 1 /\ Cardinality(left) = Count
      BY <1>2, <1>3, <1>5, <1>6, <1>11, <2>2, <2>3, <2>4, BarrierAssumption
    <2>6. left = arrived BY <1>2, <2>3, <2>5, BarrierFinite
    <2>7. Num("out")' = 0 BY <1>7, <2>5
    <2>8. Resetting(c)' BY <1>7, <1>11 DEF Resetting
    <2>9. ReusableInv' BY <1>1, <1>2, <1>7, <1>11, <2>1, <2>3, <2>6, <2>7, <2>8 DEF ReusableInv
    <2> QED BY <1>1, <1>2, <1>7, <1>8, <1>9, <2>9 DEF BarrierInv
  <1> QED BY <1>6, <1>10, <1>11

\* The stores to `current` and `out`.
LEMMA ResetCountersInv ==
  ASSUME BarrierInv, NEW c \in Ctx, ResetCurrent(c) \/ ResetOut(c)
  PROVE  BarrierInv' /\ UNCHANGED <<arrived, left>>
  <1>1. UNCHANGED <<rank, arrived, left>> BY DEF ResetCurrent, ResetOut
  <1>2. PICK f \in BarrierPlaces, t \in BarrierPlaces :
           /\ f \in {"reset_current", "reset_out"} /\ t \in {"reset_out", "reset_rank"} /\ f # t
           /\ BarrierStep(c, f, t)
           /\ f = "reset_current" => t = "reset_out" /\ current' = 0 /\ out' = out
           /\ f = "reset_out" => t = "reset_rank" /\ out' = 0 /\ current' = current
    BY DEF ResetCurrent, ResetOut, BarrierPlaces
  <1>3. Resetting(c) /\ barrier_pc[c] = f BY <1>2 DEF Resetting, BarrierStep
  <1>4. /\ reusable /\ ReusableInv /\ BarrierTypes /\ WaitersArrived
        /\ rank \in Nat /\ current \in Nat /\ out \in Nat
    BY <1>3, BehindLoop
  <1>5. /\ reusable' = reusable /\ barrier_pc' \in [Ctx -> BarrierPlaces]
        /\ barrier_pc'[c] = t
        /\ \A d \in Ctx : d # c => barrier_pc'[d] = barrier_pc[d]
        /\ \A d \in Ctx : d # c => (Resetting(d)' <=> Resetting(d))
        /\ Num("current")' = Num("current") /\ Num("out")' = Num("out")
    <2>1. f \notin {"current", "out"} /\ t \notin {"current", "out"} BY <1>2
    <2>2. Num("current") \in Nat /\ Num("out") \in Nat BY NumFacts
    <2> QED BY <1>2, <2>1, <2>2, StepPlaces
  <1>6. BarrierTypes' BY <1>1, <1>2, <1>4, <1>5 DEF BarrierTypes
  <1>7. WaitersArrived' BY <1>1, <1>2, <1>3, <1>4, <1>5 DEF WaitersArrived
  <1>8. Resetting(c)' /\ \A d \in Ctx : Resetting(d)' => d = c
    BY <1>2, <1>3, <1>4, <1>5 DEF ReusableInv, Resetting
  <1>9. left = arrived /\ Cardinality(arrived) = Count /\ Num("out") = 0 BY <1>3, <1>4 DEF ReusableInv
  <1>10. barrier_pc'[c] # "reset_current" /\ current' = 0 BY <1>2, <1>3, <1>4, <1>5 DEF ReusableInv
  <1>11. barrier_pc'[c] = "reset_rank" => out' = 0 BY <1>2, <1>5
  <1>12. ReusableInv'
    BY <1>1, <1>4, <1>5, <1>8, <1>9, <1>10, <1>11 DEF ReusableInv
  <1> QED BY <1>1, <1>4, <1>5, <1>6, <1>7, <1>12 DEF BarrierInv

\* The store to `rank` finds everybody gone and opens the next round.
LEMMA ResetRankInv ==
  ASSUME BarrierInv, NEW c \in Ctx, ResetRank(c)
  PROVE  BarrierInv' /\ Abstract!NewRound
  <1>1. /\ BarrierStep(c, "reset_rank", "idle") /\ rank' = 0 /\ arrived' = {} /\ left' = {}
        /\ UNCHANGED <<current, out>>
    BY DEF ResetRank
  <1>2. Resetting(c) /\ barrier_pc[c] = "reset_rank" BY <1>1 DEF Resetting, BarrierStep
  <1>3. /\ reusable /\ ReusableInv /\ BarrierTypes /\ WaitersArrived
        /\ rank \in Nat /\ current \in Nat /\ out \in Nat
    BY <1>2, BehindLoop
  <1>4. /\ left = arrived /\ Cardinality(arrived) = Count /\ Num("out") = 0
        /\ current = 0 /\ out = 0 /\ \A d \in Ctx : Resetting(d) => d = c
    BY <1>2, <1>3 DEF ReusableInv
  <1>5. Abstract!NewRound
    <2>1. arrived # {} BY <1>4, FS_EmptySet, BarrierAssumption
    <2> QED BY <1>1, <1>4, <2>1 DEF Abstract!NewRound
  <1>6. Num("current") = 0
    <2>1. Num("current") \in Nat BY NumFacts
    <2>2. Cardinality(arrived) + Num("current") = IF rank < Count THEN rank ELSE Count
      BY <1>3 DEF ReusableInv
    <2> QED BY <1>3, <1>4, <2>1, <2>2, BarrierAssumption
  <1>7. /\ reusable' = reusable /\ barrier_pc' \in [Ctx -> BarrierPlaces]
        /\ barrier_pc'[c] = "idle"
        /\ \A d \in Ctx : d # c => barrier_pc'[d] = barrier_pc[d]
        /\ \A d \in Ctx : d # c => (Resetting(d)' <=> Resetting(d))
        /\ Num("current")' = 0 /\ Num("out")' = 0
    BY <1>1, <1>4, <1>6, StepPlaces DEF BarrierPlaces
  <1>8. BarrierTypes' BY <1>1, <1>3, <1>7 DEF BarrierTypes
  <1>9. WaitersArrived' BY <1>1, <1>3, <1>4, <1>7 DEF WaitersArrived
  <1>10. \A d \in Ctx : ~Resetting(d)' BY <1>4, <1>7 DEF Resetting
  <1>11. Cardinality(arrived') = 0 /\ Cardinality(left') = 0 BY <1>1, FS_EmptySet
  <1>12. ReusableInv' BY <1>1, <1>4, <1>7, <1>10, <1>11, BarrierAssumption DEF ReusableInv
  <1> QED BY <1>3, <1>5, <1>7, <1>8, <1>9, <1>12 DEF BarrierInv

\* Every step keeps the invariant and is a step of the specification, or none.
LEMMA BarrierStepInv ==
  ASSUME BarrierInv, [WaitNext]_barrierVars
  PROVE  BarrierInv' /\ [Abstract!BarrierNext]_(Abstract!bVars)
  <1>1. CASE UNCHANGED barrierVars
    <2>1. BarrierInv'
      BY <1>1 DEF barrierVars, BarrierInv, BarrierTypes, WaitersArrived, ReusableInv, OneShotInv,
                  Resetting, Num
    <2> QED BY <1>1, <2>1 DEF barrierVars, Abstract!bVars
  <1>2. ASSUME NEW c \in Ctx, BarrierCall(c) \/ Wait(c)
        PROVE  BarrierInv' /\ (Abstract!BarrierNext \/ UNCHANGED <<arrived, left>>)
    <2>1. CASE BarrierCall(c) \/ Rank(c) \/ RankSpin(c) BY <2>1, EnterInv
    <2>2. CASE Current(c) BY <2>2, CurrentInv DEF Abstract!BarrierNext
    <2>3. CASE WaitSpin(c) BY <2>3, WaitSpinInv DEF Abstract!BarrierNext
    <2>4. CASE Out(c) BY <2>4, OutInv
    <2>5. CASE ResetCurrent(c) \/ ResetOut(c) BY <2>5, ResetCountersInv
    <2>6. CASE ResetRank(c) BY <2>6, ResetRankInv DEF Abstract!BarrierNext
    <2> QED BY <1>2, <2>1, <2>2, <2>3, <2>4, <2>5, <2>6 DEF Wait, Reset
  <1> QED BY <1>1, <1>2 DEF WaitNext, Abstract!bVars

\* In every state of either barrier of barrier.rs the counters agree with who has arrived
\* and left, and only the last one out resets them.
THEOREM BarrierInvariant == WaitSpec => []BarrierInv
  <1>1. BarrierInv /\ [WaitNext]_barrierVars => BarrierInv' BY BarrierStepInv
  <1> QED BY <1>1, BarrierInitInv, PTL DEF WaitSpec

\* "This will block the current thread until all threads have reached the barrier"
\* (barrier.rs:96), for every count and every finite set of contexts, whoever comes back
\* early: exactly Count contexts arrive in a round before the first of them leaves it, and
\* the next round starts when all of them have.
THEOREM BarrierImplementsRounds == WaitSpec => ImplementsRounds
  <1>1. WaitInit => Abstract!BarrierInit BY DEF WaitInit, Abstract!BarrierInit
  <1>2. BarrierInv /\ [WaitNext]_barrierVars => [Abstract!BarrierNext]_(Abstract!bVars)
    BY BarrierStepInv
  <1> QED BY <1>1, <1>2, BarrierInvariant, PTL DEF WaitSpec, ImplementsRounds, Abstract!Rounds
================================================================================

----------------------------- MODULE BarrierSpec ------------------------------
(***************************************************************************)
(* What a barrier promises: nobody leaves a round before Count contexts have *)
(* arrived in it, and a new round starts when everyone has left the last.    *)
(***************************************************************************)
EXTENDS Naturals, FiniteSets

CONSTANTS Ctx, Count

VARIABLES arrived,      \* the contexts that have arrived in this round
          left          \* those of them that have left

bVars == <<arrived, left>>

BarrierInit == arrived = {} /\ left = {}

Arrive(c) ==
    /\ c \notin arrived /\ Cardinality(arrived) < Count
    /\ arrived' = arrived \cup {c}
    /\ UNCHANGED left

Leave(c) ==
    /\ Cardinality(arrived) = Count
    /\ c \in arrived \ left
    /\ left' = left \cup {c}
    /\ UNCHANGED arrived

NewRound == left = arrived /\ arrived # {} /\ arrived' = {} /\ left' = {}

BarrierNext == NewRound \/ \E c \in Ctx : Arrive(c) \/ Leave(c)

Rounds == BarrierInit /\ [][BarrierNext]_bVars
===============================================================================

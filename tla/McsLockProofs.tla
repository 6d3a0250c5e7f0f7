---------------------------- MODULE McsLockProofs ----------------------------
(***************************************************************************)
(* Mutual exclusion, node lifetime and first-come-first-served order of    *)
(* the MCS lock, for every set of contexts.                                 *)
(***************************************************************************)
EXTENDS McsLock, TLAPS

McsInv == McsTypeOK /\ QueueShape

USE NullAssumption

LEMMA InitInv == McsInit => McsInv
  BY DEF McsInit, McsInv, McsTypeOK, QueueShape, NewNodeIsReady, TailIsLast, QueuedAreInside, QueuedOnce, WaitersAreLinked, HeadMayEnter, Place, Waiting, Owning, Dropping

LEMMA StepInv == McsInv /\ [McsNext]_mcsVars => McsInv'
  <1> SUFFICES ASSUME McsInv, [McsNext]_mcsVars PROVE McsInv'
    OBVIOUS
  <1> USE DEF McsInv, McsTypeOK, QueueShape, GoTo, Place, Waiting, Owning, Dropping
  <1>1. ASSUME NEW c \in Ctx, LockEnter(c) PROVE McsInv'
    <2> USE <1>1 DEF LockEnter
    <2>1. McsTypeOK' BY DEF NewNodeIsReady, TailIsLast, QueuedAreInside, QueuedOnce, WaitersAreLinked, HeadMayEnter
    <2>2. NewNodeIsReady' BY DEF NewNodeIsReady
    <2>3. TailIsLast' BY DEF TailIsLast
    <2>4. QueuedAreInside' BY DEF QueuedAreInside
    <2>5. QueuedOnce' BY DEF QueuedOnce
    <2>6. WaitersAreLinked' BY DEF WaitersAreLinked, HeadMayEnter
    <2>7. HeadMayEnter' BY DEF HeadMayEnter
    <2> QED BY <2>1, <2>2, <2>3, <2>4, <2>5, <2>6, <2>7
  <1>2. ASSUME NEW c \in Ctx, TryEnter(c) PROVE McsInv'
    <2> USE <1>2 DEF TryEnter
    <2>1. McsTypeOK' OBVIOUS
    <2>2. NewNodeIsReady' BY DEF NewNodeIsReady
    <2>3. TailIsLast' BY DEF TailIsLast
    <2>4. QueuedAreInside' BY DEF QueuedAreInside
    <2>5. QueuedOnce' BY DEF QueuedOnce
    <2>6. WaitersAreLinked' BY DEF WaitersAreLinked, HeadMayEnter
    <2>7. HeadMayEnter' BY DEF HeadMayEnter
    <2> QED BY <2>1, <2>2, <2>3, <2>4, <2>5, <2>6, <2>7
  <1>3. ASSUME NEW c \in Ctx, TryCas(c) PROVE McsInv'
    <2> USE <1>3 DEF TryCas
    <2>1. McsTypeOK' BY DEF TailIsLast
    <2>2. NewNodeIsReady' BY DEF NewNodeIsReady
    <2>3. TailIsLast' BY DEF TailIsLast
    <2>4. QueuedAreInside' BY DEF TailIsLast, QueuedAreInside
    <2>5. QueuedOnce' BY DEF TailIsLast, QueuedOnce
    <2>6. WaitersAreLinked' BY DEF TailIsLast, WaitersAreLinked
    <2>7. HeadMayEnter' BY DEF NewNodeIsReady, TailIsLast, HeadMayEnter
    <2> QED BY <2>1, <2>2, <2>3, <2>4, <2>5, <2>6, <2>7
  <1>4. ASSUME NEW c \in Ctx, LockSwap(c) PROVE McsInv'
    <2> USE <1>4 DEF LockSwap
    <2>1. McsTypeOK' OBVIOUS
    <2>2. NewNodeIsReady' BY DEF NewNodeIsReady
    <2>3. TailIsLast' BY DEF TailIsLast
    <2>4. QueuedAreInside' BY DEF QueuedAreInside
    <2>5. QueuedOnce' BY DEF QueuedOnce, WaitersAreLinked, HeadMayEnter
    <2>6. WaitersAreLinked' BY DEF NewNodeIsReady, TailIsLast, WaitersAreLinked, HeadMayEnter
    <2>7. HeadMayEnter' BY DEF NewNodeIsReady, TailIsLast, HeadMayEnter
    <2> QED BY <2>1, <2>2, <2>3, <2>4, <2>5, <2>6, <2>7
  <1>5. ASSUME NEW c \in Ctx, LockLink(c) PROVE McsInv'
    <2> USE <1>5 DEF LockLink
    <2>a. PICK k \in 1..Len(queue) : queue[k] = c BY DEF QueuedAreInside
    <2>b. k # 1 BY <2>a DEF HeadMayEnter
    <2>c. k \in 2..Len(queue) /\ k - 1 \in 1..Len(queue) BY <2>a, <2>b
    <2>d. prev[c] = queue[k-1] /\ prev[c] \in Ctx /\ locked[c] BY <2>a, <2>c DEF WaitersAreLinked
    <2>e. prev[c] # c
      <3>1. k # k - 1 BY <2>c
      <3> QED BY <2>a, <2>c, <2>d, <3>1 DEF QueuedOnce
    <2>1. McsTypeOK' BY <2>d, <2>e
    <2>2. NewNodeIsReady'
      <3>1. pc[prev[c]] \in Waiting \cup Owning BY <2>c, <2>d DEF QueuedAreInside
      <3>2. \A d \in Ctx : pc'[d] \in {"swap", "try_cas"} => d # prev[c] /\ pc'[d] = pc[d] BY <3>1
      <3> QED BY <3>2 DEF NewNodeIsReady
    <2>3. TailIsLast' BY DEF TailIsLast
    <2>4. QueuedAreInside' BY DEF QueuedAreInside
    <2>5. QueuedOnce' BY DEF QueuedOnce
    <2>6. WaitersAreLinked'
      <3>1. SUFFICES ASSUME NEW i \in 2..Len(queue)
                     PROVE  /\ pc'[queue[i]] \in Waiting /\ locked[queue[i]]
                            /\ prev[queue[i]] = queue[i-1]
                            /\ next'[queue[i-1]] = IF pc'[queue[i]] = "link" THEN Null ELSE queue[i]
        BY DEF WaitersAreLinked
      <3>2. queue[i] \in Ctx /\ queue[i-1] \in Ctx /\ i \in 1..Len(queue) /\ i - 1 \in 1..Len(queue)
        OBVIOUS
      <3>3. /\ pc[queue[i]] \in Waiting /\ locked[queue[i]] /\ prev[queue[i]] = queue[i-1]
            /\ next[queue[i-1]] = IF pc[queue[i]] = "link" THEN Null ELSE queue[i]
        BY DEF WaitersAreLinked
      <3>4. CASE i = k
        BY <2>a, <2>d, <3>2, <3>3, <3>4
      <3>5. CASE i # k
        <4>1. queue[i] # c BY <2>a, <3>2, <3>5 DEF QueuedOnce
        <4>2. i - 1 # k - 1 BY <3>5
        <4>3. queue[i-1] # prev[c] BY <2>c, <2>d, <3>2, <4>2 DEF QueuedOnce
        <4>4. pc'[queue[i]] = pc[queue[i]] BY <3>2, <4>1
        <4>5. next'[queue[i-1]] = next[queue[i-1]] BY <3>2, <4>3
        <4> QED BY <3>3, <4>4, <4>5
      <3> QED BY <3>4, <3>5
    <2>7. HeadMayEnter' BY DEF QueuedAreInside, QueuedOnce, WaitersAreLinked, HeadMayEnter
    <2> QED BY <2>1, <2>2, <2>3, <2>4, <2>5, <2>6, <2>7
  <1>6. ASSUME NEW c \in Ctx, LockSpin(c) PROVE McsInv'
    <2> USE <1>6 DEF LockSpin
    <2>1. McsTypeOK' OBVIOUS
    <2>2. NewNodeIsReady' BY DEF NewNodeIsReady
    <2>3. TailIsLast' BY DEF TailIsLast
    <2>4. QueuedAreInside' BY DEF QueuedAreInside
    <2>5. QueuedOnce' BY DEF QueuedOnce
    <2>6. WaitersAreLinked' BY DEF WaitersAreLinked
    <2>7. HeadMayEnter' BY DEF WaitersAreLinked, HeadMayEnter
    <2> QED BY <2>1, <2>2, <2>3, <2>4, <2>5, <2>6, <2>7
  <1>7. ASSUME NEW c \in Ctx, DropRead(c) PROVE McsInv'
    <2> USE <1>7 DEF DropRead
    <2>1. McsTypeOK' OBVIOUS
    <2>2. NewNodeIsReady' BY DEF NewNodeIsReady
    <2>3. TailIsLast' BY DEF TailIsLast
    <2>4. QueuedAreInside' BY DEF QueuedAreInside
    <2>5. QueuedOnce' BY DEF QueuedOnce
    <2>6. WaitersAreLinked' BY DEF WaitersAreLinked
    <2>7. HeadMayEnter' BY DEF WaitersAreLinked, HeadMayEnter
    <2> QED BY <2>1, <2>2, <2>3, <2>4, <2>5, <2>6, <2>7
  <1>8. ASSUME NEW c \in Ctx, DropCas(c) PROVE McsInv'
    <2> USE <1>8 DEF DropCas
    <2>1. McsTypeOK' BY DEF TailIsLast, WaitersAreLinked
    <2>2. NewNodeIsReady' BY DEF NewNodeIsReady
    <2>3. TailIsLast' BY DEF TailIsLast, WaitersAreLinked
    <2>4. QueuedAreInside' BY DEF TailIsLast, QueuedAreInside, QueuedOnce, WaitersAreLinked
    <2>5. QueuedOnce' BY DEF TailIsLast, QueuedOnce, WaitersAreLinked
    <2>6. WaitersAreLinked' BY DEF NewNodeIsReady, TailIsLast, WaitersAreLinked
    <2>7. HeadMayEnter' BY DEF TailIsLast, WaitersAreLinked, HeadMayEnter
    <2> QED BY <2>1, <2>2, <2>3, <2>4, <2>5, <2>6, <2>7
  <1>9. ASSUME NEW c \in Ctx, DropSpin(c) PROVE McsInv'
    <2> USE <1>9 DEF DropSpin
    <2>1. McsTypeOK' OBVIOUS
    <2>2. NewNodeIsReady' BY DEF NewNodeIsReady
    <2>3. TailIsLast' BY DEF TailIsLast
    <2>4. QueuedAreInside' BY DEF QueuedAreInside
    <2>5. QueuedOnce' BY DEF QueuedOnce
    <2>6. WaitersAreLinked' BY DEF WaitersAreLinked
    <2>7. HeadMayEnter' BY DEF WaitersAreLinked, HeadMayEnter
    <2> QED BY <2>1, <2>2, <2>3, <2>4, <2>5, <2>6, <2>7
  <1>10. ASSUME NEW c \in Ctx, HandOff(c) PROVE McsInv'
    <2> USE <1>10 DEF HandOff
    <2>a. PICK i \in 1..Len(queue) : queue[i] = c
      BY DEF QueuedAreInside
    <2>b. i = 1
      <3>1. CASE i # 1
        <4>1. i \in 2..Len(queue) BY <3>1
        <4>2. pc[queue[i]] \in Waiting BY <4>1 DEF WaitersAreLinked
        <4> QED BY <2>a, <4>2
      <3> QED BY <3>1
    <2>c. Len(queue) > 1 /\ pc[queue[2]] = "spin" /\ queue[2] # c /\ queue[1] = c /\ next[c] = queue[2]
      <3>1. Len(queue) > 1 /\ pc[queue[2]] = "spin" /\ queue[1] = c
        BY <2>a, <2>b DEF HeadMayEnter
      <3>2. next[c] = queue[2]
        BY <3>1 DEF WaitersAreLinked
      <3> QED
        BY <3>1, <3>2
    <2>d. /\ queue' \in Seq(Ctx) /\ Len(queue') = Len(queue) - 1 /\ queue' # <<>>
          /\ \A j \in 1..Len(queue') : queue'[j] = queue[j+1]
      <3>1. queue' = Tail(queue) /\ queue \in Seq(Ctx) /\ queue # <<>> BY <2>c
      <3>2. queue' \in Seq(Ctx) /\ Len(queue') = Len(queue) - 1 BY <3>1
      <3>3. \A j \in 1..Len(queue') : queue'[j] = queue[j+1] BY <3>1, <3>2
      <3> HIDE <1>10
      <3>4. queue' # <<>> BY <2>c, <3>2
      <3> QED BY <3>2, <3>3, <3>4
    <2> HIDE <1>10
    <2>1. McsTypeOK' BY <1>10, <2>d DEF HandOff
    <2>2. NewNodeIsReady' BY <1>10, <2>c DEF HandOff, NewNodeIsReady
    <2>3. TailIsLast'
      <3>1. tail' = queue[Len(queue)] BY <1>10, <2>c DEF HandOff, TailIsLast
      <3>2. queue'[Len(queue')] = queue[Len(queue)] BY <2>c, <2>d
      <3> QED BY <2>d, <3>1, <3>2 DEF TailIsLast
    <2>4. QueuedAreInside'
      <3> SUFFICES ASSUME NEW d \in Ctx
                   PROVE  pc'[d] \in Waiting \cup Owning
                            <=> \E j \in 1..Len(queue') : queue'[j] = d
        BY DEF QueuedAreInside
      <3>1. CASE d = c
        <4>1. \A j \in 1..Len(queue') : queue'[j] # c
          BY <2>c, <2>d DEF QueuedOnce
        <4> QED BY <3>1, <4>1, <1>10 DEF HandOff
      <3>2. CASE d # c
        <4>1. pc'[d] = pc[d] BY <3>2, <1>10 DEF HandOff
        <4>2. ASSUME NEW j \in 1..Len(queue), queue[j] = d
              PROVE  \E k \in 1..Len(queue') : queue'[k] = d
          <5>1. j - 1 \in 1..Len(queue') /\ queue'[j-1] = d BY <4>2, <2>c, <2>d, <3>2
          <5> QED BY <5>1
        <4>3. ASSUME NEW k \in 1..Len(queue'), queue'[k] = d
              PROVE  \E j \in 1..Len(queue) : queue[j] = d
          BY <4>3, <2>c, <2>d
        <4> QED BY <4>1, <4>2, <4>3 DEF QueuedAreInside
      <3> QED BY <3>1, <3>2
    <2>5. QueuedOnce'
      <3> SUFFICES ASSUME NEW j \in 1..Len(queue'), NEW k \in 1..Len(queue'), queue'[j] = queue'[k]
                   PROVE  j = k
        BY DEF QueuedOnce
      <3>1. queue[j+1] = queue[k+1] /\ j+1 \in 1..Len(queue) /\ k+1 \in 1..Len(queue)
        BY <2>c, <2>d
      <3> QED BY <3>1 DEF QueuedOnce
    <2>6. WaitersAreLinked' BY <1>10, <2>c, <2>d DEF HandOff, WaitersAreLinked, QueuedOnce
    <2>7. HeadMayEnter' BY <1>10, <2>c, <2>d DEF HandOff, HeadMayEnter, WaitersAreLinked, QueuedOnce
    <2> QED BY <2>1, <2>2, <2>3, <2>4, <2>5, <2>6, <2>7
  <1>11. CASE UNCHANGED mcsVars
    BY <1>11 DEF mcsVars, NewNodeIsReady, TailIsLast, QueuedAreInside, QueuedOnce, WaitersAreLinked, HeadMayEnter
  <1> QED
    BY <1>1, <1>2, <1>3, <1>4, <1>5, <1>6, <1>7, <1>8, <1>9, <1>10, <1>11 DEF McsNext, Lock, DropGuard

\* For every set of contexts, the reachable lock state is the queue of McsInv.
THEOREM McsInvariant == McsSpec => []McsInv
  BY InitInv, StepInv, PTL DEF McsSpec

LEMMA OwnerIsHead == ASSUME McsInv, NEW c \in Ctx, pc[c] \in Owning
                     PROVE  queue # <<>> /\ c = queue[1]
  BY DEF McsInv, McsTypeOK, QueueShape, QueuedAreInside, WaitersAreLinked, Waiting, Owning, Dropping

\* No two guards of one McsLock are ever alive at the same time.
THEOREM McsMutualExclusion == McsSpec => []MutualExclusion
  <1>1. McsInv => MutualExclusion
    BY OwnerIsHead DEF MutualExclusion
  <1> QED
    BY <1>1, McsInvariant, PTL

\* lock() and drop() write only to nodes whose stack frame still exists.
THEOREM McsForeignNodeAlive == McsSpec => []ForeignNodeAlive
  <1>1. McsInv => ForeignNodeAlive
    <2> SUFFICES ASSUME McsInv, NEW c \in Ctx, pc[c] \in {"link", "hand_off"}
                 PROVE  /\ pc[c] = "link" => /\ prev[c] \in Ctx
                                             /\ pc[prev[c]] \in Waiting \cup Owning
                        /\ pc[c] = "hand_off" => next[c] \in Ctx /\ pc[next[c]] = "spin"
      BY DEF ForeignNodeAlive
    <2> USE DEF McsInv, McsTypeOK, QueueShape
    <2>1. PICK i \in 1..Len(queue) : queue[i] = c
      BY DEF QueuedAreInside, Waiting, Owning, Dropping
    <2>2. CASE pc[c] = "link"
      <3>1. i \in 2..Len(queue) BY <2>1, <2>2 DEF HeadMayEnter, Owning, Dropping
      <3>2. prev[c] = queue[i-1] /\ i-1 \in 1..Len(queue) BY <2>1, <3>1 DEF WaitersAreLinked
      <3> QED BY <2>2, <3>2 DEF QueuedAreInside
    <2>3. CASE pc[c] = "hand_off"
      <3>1. i = 1 BY <2>1, <2>3 DEF WaitersAreLinked, Waiting
      <3>2. Len(queue) > 1 /\ pc[queue[2]] = "spin" BY <2>1, <2>3, <3>1 DEF HeadMayEnter
      <3>3. next[c] = queue[2] BY <2>1, <3>1, <3>2 DEF WaitersAreLinked
      <3> QED BY <2>3, <3>2, <3>3
    <2> QED BY <2>2, <2>3
  <1> QED
    BY <1>1, McsInvariant, PTL

LEMMA FreeIsEmpty == McsInv /\ tail = Null => queue = <<>>
  BY DEF McsInv, McsTypeOK, QueueShape, TailIsLast

LEMMA FifoStep == McsInv /\ McsInv' /\ [McsNext]_mcsVars => [Fifo!FifoNext]_Fifo!fifoVars
  <1> SUFFICES ASSUME McsInv, McsInv', [McsNext]_mcsVars
               PROVE  [Fifo!FifoNext]_Fifo!fifoVars
    OBVIOUS
  <1> DEFINE granted == \E c \in Ctx : pc[c] \in Owning
  <1> USE DEF McsInv, McsTypeOK, QueueShape, GoTo, Waiting, Owning, Dropping
  <1>1. ASSUME NEW c \in Ctx, LockEnter(c) \/ TryEnter(c) \/ LockLink(c) \/ DropRead(c) \/ DropSpin(c)
        PROVE  UNCHANGED <<queue, granted>>
    BY <1>1 DEF LockEnter, TryEnter, LockLink, DropRead, DropSpin
  <1>2. ASSUME NEW c \in Ctx, LockSwap(c), tail = Null PROVE Fifo!TakeFree(c)
    <2>1. queue = <<>> BY <1>2, FreeIsEmpty
    <2>2. granted' BY <1>2 DEF LockSwap
    <2> QED BY <1>2, <2>1, <2>2 DEF LockSwap, Fifo!TakeFree
  <1>3. ASSUME NEW c \in Ctx, LockSwap(c), tail # Null PROVE Fifo!Request(c)
    <2>1. c \notin Fifo!Queued
      <3>1. ~\E i \in 1..Len(queue) : queue[i] = c
        BY <1>3 DEF LockSwap, QueuedAreInside
      <3> QED BY <3>1 DEF Fifo!Queued
    <2>2. granted' <=> granted
      BY <1>3 DEF LockSwap
    <2> QED BY <1>3, <2>1, <2>2 DEF LockSwap, Fifo!Request
  <1>4. ASSUME NEW c \in Ctx, LockSpin(c) PROVE Fifo!Grant
    <2>1. queue # <<>> /\ c = queue[1] /\ granted'
      BY <1>4 DEF LockSpin, QueuedAreInside, WaitersAreLinked
    <2>2. ~granted
      BY <2>1, <1>4, OwnerIsHead DEF LockSpin
    <2> QED BY <1>4, <2>1, <2>2 DEF LockSpin, Fifo!Grant
  <1>5. ASSUME NEW c \in Ctx, TryCas(c), tail = Null PROVE Fifo!TakeFree(c)
    <2>1. queue = <<>> BY <1>5, FreeIsEmpty
    <2>2. granted' BY <1>5 DEF TryCas
    <2> QED BY <1>5, <2>1, <2>2 DEF TryCas, Fifo!TakeFree
  <1>6. ASSUME NEW c \in Ctx, TryCas(c), tail # Null PROVE UNCHANGED <<queue, granted>>
    BY <1>6 DEF TryCas
  <1>7. ASSUME NEW c \in Ctx, HandOff(c) \/ (DropCas(c) /\ tail = c) PROVE Fifo!Leave
    <2>1. queue # <<>> /\ c = queue[1] /\ granted /\ queue' = Tail(queue)
      BY <1>7, OwnerIsHead DEF HandOff, DropCas
    <2>2. \A d \in Ctx : pc[d] \in Owning => d = c
      BY <2>1, OwnerIsHead
    <2>3. ~granted'
      BY <1>7, <2>2 DEF HandOff, DropCas
    <2> QED BY <2>1, <2>3 DEF Fifo!Leave
  <1>8. ASSUME NEW c \in Ctx, DropCas(c), tail # c PROVE UNCHANGED <<queue, granted>>
    BY <1>8 DEF DropCas
  <1>9. CASE UNCHANGED mcsVars
    BY <1>9 DEF mcsVars, Fifo!fifoVars
  <1>10. UNCHANGED <<queue, granted>> => UNCHANGED Fifo!fifoVars
    BY DEF Fifo!fifoVars
  <1> HIDE DEF granted, McsInv, McsTypeOK, QueueShape, GoTo, Waiting, Owning, Dropping
  <1>11. ASSUME NEW c \in Ctx, LockEnter(c) \/ TryEnter(c) \/ TryCas(c) \/ Lock(c) \/ DropGuard(c)
         PROVE  Fifo!Request(c) \/ Fifo!TakeFree(c) \/ Fifo!Grant \/ Fifo!Leave \/ UNCHANGED <<queue, granted>>
    <2>1. CASE LockSwap(c) BY <2>1, <1>2, <1>3
    <2>2. CASE LockSpin(c) BY <2>2, <1>4
    <2>3. CASE TryCas(c) BY <2>3, <1>5, <1>6
    <2>4. CASE DropCas(c) BY <2>4, <1>7, <1>8
    <2>5. CASE HandOff(c) BY <2>5, <1>7
    <2> QED BY <1>1, <1>11, <2>1, <2>2, <2>3, <2>4, <2>5 DEF Lock, DropGuard
  <1> QED
    BY <1>9, <1>10, <1>11, Zenon DEF McsNext, Fifo!FifoNext

\* The MCS lock is a first-come-first-served lock, for every set of contexts.
THEOREM McsImplementsFifoLock == McsSpec => ImplementsFifoLock
  <1>1. McsInit => Fifo!FifoInit
    BY DEF McsInit, Fifo!FifoInit, Owning, Dropping
  <1> QED
    BY <1>1, FifoStep, McsInvariant, PTL DEF McsSpec, ImplementsFifoLock, Fifo!FifoSpec
==============================================================================

---------------------------- MODULE SpinLockProofs ----------------------------
(***************************************************************************)
(* The ticket lock's order, the reader-writer lock's exclusion and the       *)
(* finality of a Once, for every finite set of contexts and every width of   *)
(* the ticket counters.                                                     *)
(***************************************************************************)
EXTENDS TicketLock, RwLock, Once, FiniteSetTheorems, FunctionTheorems,
        SequenceTheorems, TLAPS

--------------------------------------------------------------------------------
(* RwLock *)

RwInv == RwTypeOK /\ ReadersAreCounted /\ OneWriter /\ Exclusion

LEMMA CountedFinite == IsFiniteSet(CountedSet)
  BY CtxFinite, FS_Subset DEF CountedSet

LEMMA RwInitInv == RwInit => RwInv
  <1> SUFFICES ASSUME RwInit PROVE RwInv
    OBVIOUS
  <1>1. CountedSet = {} BY DEF RwInit, CountedSet, Counted
  <1>2. ReadersAreCounted BY <1>1, FS_EmptySet DEF RwInit, ReadersAreCounted
  <1> QED BY <1>2, Zenon DEF RwInit, RwInv, RwTypeOK, OneWriter, Exclusion, Counted, Claiming

\* A step that moves a context into or out of Counted moves `readers` with it.
LEMMA CountEnters ==
  ASSUME RwInv, NEW c \in Ctx, rw_pc[c] \notin Counted, readers' = readers + 1,
         CountedSet' = CountedSet \cup {c}
  PROVE  readers' \in Nat /\ ReadersAreCounted'
  <1>1. IsFiniteSet(CountedSet) /\ c \notin CountedSet
    BY CountedFinite DEF CountedSet
  <1>2. Cardinality(CountedSet \cup {c}) = Cardinality(CountedSet) + 1
    BY <1>1, FS_AddElement
  <1> QED BY <1>2 DEF RwInv, RwTypeOK, ReadersAreCounted

LEMMA CountLeaves ==
  ASSUME RwInv, NEW c \in Ctx, rw_pc[c] \in Counted, readers' = readers - 1,
         CountedSet' = CountedSet \ {c}
  PROVE  readers' \in Nat /\ ReadersAreCounted'
  <1>1. IsFiniteSet(CountedSet) /\ c \in CountedSet
    BY CountedFinite DEF CountedSet
  <1>2. Cardinality(CountedSet) # 0 /\ Cardinality(CountedSet) \in Nat
    BY <1>1, FS_EmptySet, FS_CardinalityType
  <1>3. Cardinality(CountedSet \ {c}) = Cardinality(CountedSet) - 1
    BY <1>1, FS_RemoveElement
  <1> QED BY <1>2, <1>3 DEF RwInv, ReadersAreCounted

LEMMA CountStays ==
  ASSUME RwInv, readers' = readers, CountedSet' = CountedSet
  PROVE  readers' \in Nat /\ ReadersAreCounted'
  BY DEF RwInv, RwTypeOK, ReadersAreCounted

LEMMA RwStepInv == RwInv /\ [RwNext]_rwVars => RwInv'
  <1> SUFFICES ASSUME RwInv, [RwNext]_rwVars PROVE RwInv'
    OBVIOUS
  <1> USE DEF RwInv, RwTypeOK, OneWriter, Exclusion, RwStep, Counted, Claiming
  <1>1. ASSUME NEW c \in Ctx, ReadCall(c) PROVE RwInv'
    <2>1. CountedSet' = CountedSet BY <1>1 DEF ReadCall, CountedSet
    <2> QED BY <1>1, <2>1, CountStays DEF ReadCall
  <1>2. ASSUME NEW c \in Ctx, WriteCall(c) PROVE RwInv'
    <2>1. CountedSet' = CountedSet BY <1>2 DEF WriteCall, CountedSet
    <2> QED BY <1>2, <2>1, CountStays DEF WriteCall
  <1>3. ASSUME NEW c \in Ctx, ReadWait(c) PROVE RwInv'
    <2>1. CountedSet' = CountedSet BY <1>3 DEF ReadWait, CountedSet
    <2> QED BY <1>3, <2>1, CountStays DEF ReadWait
  <1>4. ASSUME NEW c \in Ctx, ReadAdd(c) PROVE RwInv'
    <2>1. CountedSet' = CountedSet \cup {c} BY <1>4 DEF ReadAdd, CountedSet
    <2> QED BY <1>4, <2>1, CountEnters DEF ReadAdd
  <1>5. ASSUME NEW c \in Ctx, ReadCheck(c) PROVE RwInv'
    <2>1. CountedSet' = CountedSet BY <1>5 DEF ReadCheck, CountedSet
    <2> QED BY <1>5, <2>1, CountStays DEF ReadCheck
  <1>6. ASSUME NEW c \in Ctx, ReadBack(c) PROVE RwInv'
    <2>1. CountedSet' = CountedSet \ {c} BY <1>6 DEF ReadBack, CountedSet
    <2> QED BY <1>6, <2>1, CountLeaves DEF ReadBack
  <1>7. ASSUME NEW c \in Ctx, ReadUnlock(c) PROVE RwInv'
    <2>1. CountedSet' = CountedSet \ {c} BY <1>7 DEF ReadUnlock, CountedSet
    <2> QED BY <1>7, <2>1, CountLeaves DEF ReadUnlock
  <1>8. ASSUME NEW c \in Ctx, WriteCas(c) PROVE RwInv'
    <2>1. CountedSet' = CountedSet BY <1>8 DEF WriteCas, CountedSet
    <2> QED BY <1>8, <2>1, CountStays DEF WriteCas
  <1>9. ASSUME NEW c \in Ctx, WriteWait(c) PROVE RwInv'
    <2>1. CountedSet' = CountedSet BY <1>9 DEF WriteWait, CountedSet
    <2>2. CountedSet = {}
      BY <1>9, CountedFinite, FS_EmptySet, Zenon DEF WriteWait, ReadersAreCounted
    <2> QED BY <1>9, <2>1, <2>2, CountStays DEF WriteWait, CountedSet
  <1>10. ASSUME NEW c \in Ctx, WriteUnlock(c) PROVE RwInv'
    <2>1. CountedSet' = CountedSet BY <1>10 DEF WriteUnlock, CountedSet
    <2>2. RwTypeOK' /\ ReadersAreCounted' BY <1>10, <2>1, CountStays DEF WriteUnlock
    <2>3. \A d \in Ctx : rw_pc'[d] = (IF d = c THEN "out" ELSE rw_pc[d]) BY <1>10 DEF WriteUnlock
    <2>4. \A d \in Ctx : rw_pc'[d] \notin Claiming BY <1>10, <2>3 DEF WriteUnlock
    <2>5. OneWriter' BY <1>10, <2>4 DEF WriteUnlock
    <2>6. Exclusion' BY <2>4
    <2> QED BY <2>2, <2>5, <2>6
  <1>11. ASSUME UNCHANGED rwVars PROVE RwInv'
    BY <1>11 DEF rwVars, ReadersAreCounted, CountedSet
  <1> HIDE DEF RwInv
  <1> QED
    BY <1>1, <1>2, <1>3, <1>4, <1>5, <1>6, <1>7, <1>8, <1>9, <1>10, <1>11
       DEF RwNext, Reader, Writer

\* The reader-writer lock keeps its types, counts its readers, has at most one
\* writer past the compare_exchange, and a WriteGuard excludes all other guards.
THEOREM RwInvariant == RwSpec => []RwInv
  BY RwInitInv, RwStepInv, PTL DEF RwSpec

\* A WriteGuard excludes every other guard, for any number of contexts.
THEOREM RwExclusion == RwSpec => []Exclusion
  <1>1. RwInv => Exclusion BY DEF RwInv
  <1> QED BY <1>1, RwInvariant, PTL

--------------------------------------------------------------------------------
(* TicketLock *)

TicketInv == TicketTypeOK /\ TicketsAreConsecutive

LEMMA TicketInitInv == TicketInit => TicketInv
  BY TicketAssumption
     DEF TicketInit, TicketInv, TicketTypeOK, TicketsAreConsecutive, LiveTickets,
         TicketOnce, TicketOwners, OthersSpin, TicketAt

\* A context that takes a ticket finds fewer than W live tickets.
LEMMA TicketLeft ==
  ASSUME TicketInv, NEW c \in Ctx, ticket_pc[c] = "out"
  PROVE  Len(ticket_queue) < W
  <1> DEFINE n == Len(ticket_queue)
  <1>1. n \in Nat /\ ticket_queue \in [1..n -> Ctx]
    BY LenProperties DEF TicketInv, TicketTypeOK
  <1>2. \A i \in 1..n : ticket_queue[i] # c
    BY DEF TicketInv, TicketsAreConsecutive, TicketOwners
  <1>3. ticket_queue \in [1..n -> Ctx \ {c}]
    <2> HIDE DEF n
    <2> QED BY <1>1, <1>2
  <1>4. \A a, b \in 1..n : ticket_queue[a] = ticket_queue[b] => a = b
    BY DEF TicketInv, TicketsAreConsecutive, TicketOnce
  <1>5. ticket_queue \in Injection(1..n, Ctx \ {c})
    BY <1>3, <1>4, Fun_IsInj
  <1>6. /\ IsFiniteSet(Ctx \ {c})
        /\ Cardinality(Ctx \ {c}) = Cardinality(Ctx) - 1
        /\ Cardinality(Ctx) \in Nat
    BY CtxFinite, FS_RemoveElement, FS_CardinalityType
  <1>7. Cardinality(1..n) <= Cardinality(Ctx \ {c})
    BY <1>5, <1>6, FS_Injection
  <1>8. Cardinality(1..n) = n
    <2>1. n \in Int /\ 1 \in Int BY <1>1
    <2> HIDE DEF n
    <2>2. Cardinality(1..n) = IF 1 > n THEN 0 ELSE n - 1 + 1 BY <2>1, FS_Interval, Zenon
    <2> QED BY <1>1, <2>2
  <1> QED BY <1>1, <1>6, <1>7, <1>8, TicketAssumption

\* The holder is the first in the queue.
LEMMA HolderIsFirst ==
  ASSUME TicketInv, NEW c \in Ctx, ticket_pc[c] = "held"
  PROVE  ticket_queue # <<>> /\ ticket_queue[1] = c
  BY DEF TicketInv, TicketTypeOK, TicketsAreConsecutive, TicketOwners, OthersSpin

LEMMA TakeTicketInv ==
  ASSUME TicketInv, NEW c \in Ctx, TakeTicket(c) PROVE TicketInv'
  <1> DEFINE n == Len(ticket_queue)
  <1>1. n \in Nat /\ n < W
    BY TicketLeft, LenProperties DEF TakeTicket, TicketInv, TicketTypeOK
  <1>2. /\ ticket_queue' \in Seq(Ctx) /\ Len(ticket_queue') = n + 1
        /\ \A i \in 1..n : ticket_queue'[i] = ticket_queue[i] /\ ticket_queue[i] \in Ctx
        /\ ticket_queue'[n + 1] = c
    BY AppendProperties, LenProperties DEF TakeTicket, TicketInv, TicketTypeOK
  <1>3. \A i \in 1..n : ticket_queue[i] # c
    BY DEF TakeTicket, TicketInv, TicketsAreConsecutive, TicketOwners
  <1>4. TicketTypeOK'
    BY <1>2, TicketAssumption DEF TakeTicket, TicketInv, TicketTypeOK, WrappingInc
  <1>5. TicketOnce'
    BY <1>1, <1>2, <1>3 DEF TicketInv, TicketsAreConsecutive, TicketOnce
  <1>6. TicketOwners'
    <2>1. \A d \in Ctx : ticket_pc'[d] # "out" <=> ticket_pc[d] # "out" \/ d = c
      BY DEF TakeTicket, TicketInv, TicketTypeOK
    <2> QED BY <1>1, <1>2, <1>3, <2>1 DEF TicketInv, TicketsAreConsecutive, TicketOwners
  <1>7. OthersSpin'
    BY <1>1, <1>2, <1>3 DEF TakeTicket, TicketInv, TicketTypeOK, TicketsAreConsecutive, OthersSpin
  <1>8. LiveTickets'
    <2>1. ticket'[c] = TicketAt(n) /\ \A i \in 1..n : ticket'[ticket_queue[i]] = TicketAt(i - 1)
      BY <1>1, <1>2, <1>3 DEF TakeTicket, TicketInv, TicketTypeOK, TicketsAreConsecutive, LiveTickets
    <2>2. \A i \in 1..n+1 : ticket'[ticket_queue'[i]] = TicketAt(i - 1)
      BY <1>1, <1>2, <2>1
    <2>3. next_ticket' = IF n + 1 = W THEN now_serving ELSE TicketAt(n + 1)
      <3>1. next_ticket = TicketAt(n) /\ next_ticket' = WrappingInc(next_ticket)
        BY <1>1 DEF TakeTicket, TicketInv, TicketsAreConsecutive, LiveTickets
      <3>2. now_serving \in 0..W-1 /\ W \in Nat \ {0}
        BY TicketAssumption DEF TicketInv, TicketTypeOK
      <3> HIDE DEF n
      <3> QED BY <1>1, <3>1, <3>2 DEF TicketAt, WrappingInc
    <2> QED BY <1>1, <1>2, <2>2, <2>3, TicketAssumption DEF TakeTicket, LiveTickets, TicketAt
  <1> QED BY <1>4, <1>5, <1>6, <1>7, <1>8 DEF TicketInv, TicketsAreConsecutive

\* Only the first in the queue has the ticket that is served.
LEMMA ServedIsFirst ==
  ASSUME TicketInv, NEW c \in Ctx, TicketSpin(c)
  PROVE  ticket_queue # <<>> /\ ticket_queue[1] = c
  <1>1. PICK i \in 1..Len(ticket_queue) : ticket_queue[i] = c
    BY DEF TicketSpin, TicketInv, TicketsAreConsecutive, TicketOwners
  <1>2. TicketAt(i - 1) = now_serving /\ Len(ticket_queue) <= W
    BY <1>1 DEF TicketSpin, TicketInv, TicketsAreConsecutive, LiveTickets
  <1>3. i = 1
    BY <1>1, <1>2, LenProperties, TicketAssumption DEF TicketAt, TicketInv, TicketTypeOK
  <1> QED BY <1>1, <1>3

LEMMA TicketSpinInv ==
  ASSUME TicketInv, NEW c \in Ctx, TicketSpin(c) PROVE TicketInv'
  <1>1. ticket_queue # <<>> /\ ticket_queue[1] = c /\ Len(ticket_queue) \in Nat
    BY ServedIsFirst, LenProperties DEF TicketInv, TicketTypeOK
  <1>2. \A i \in 2..Len(ticket_queue) : ticket_queue[i] # c
    <2>1. \A i \in 2..Len(ticket_queue) : i \in 1..Len(ticket_queue) /\ 1 \in 1..Len(ticket_queue) /\ i # 1
      BY <1>1
    <2> QED BY <1>1, <2>1 DEF TicketInv, TicketsAreConsecutive, TicketOnce
  <1>3. TicketTypeOK' /\ LiveTickets' /\ TicketOnce'
    BY DEF TicketSpin, TicketInv, TicketTypeOK, TicketsAreConsecutive, LiveTickets, TicketOnce,
           TicketAt
  <1>4. TicketOwners'
    BY DEF TicketSpin, TicketInv, TicketTypeOK, TicketsAreConsecutive, TicketOwners
  <1>5. OthersSpin'
    BY <1>2, LenProperties DEF TicketSpin, TicketInv, TicketTypeOK, TicketsAreConsecutive, OthersSpin
  <1> QED BY <1>3, <1>4, <1>5 DEF TicketInv, TicketsAreConsecutive

LEMMA TicketDropInv ==
  ASSUME TicketInv, NEW c \in Ctx, TicketDrop(c) PROVE TicketInv'
  <1> DEFINE n == Len(ticket_queue)
  <1>1. ticket_queue # <<>> /\ ticket_queue[1] = c
    BY HolderIsFirst DEF TicketDrop
  <1>2. n \in Nat \ {0} /\ \A i \in 1..n : ticket_queue[i] \in Ctx
    BY <1>1, LenProperties DEF TicketInv, TicketTypeOK
  <1>3. /\ ticket_queue' \in Seq(Ctx) /\ Len(ticket_queue') = n - 1
        /\ \A i \in 1..n-1 : ticket_queue'[i] = ticket_queue[i + 1]
    BY <1>1, HeadTailProperties DEF TicketDrop, TicketInv, TicketTypeOK
  <1>4. \A i \in 2..n : ticket_queue[i] # c
    BY <1>1, <1>2 DEF TicketInv, TicketsAreConsecutive, TicketOnce
  <1>5. TicketTypeOK'
    BY <1>3, TicketAssumption DEF TicketDrop, TicketInv, TicketTypeOK, WrappingInc
  <1>6. TicketOnce'
    <2>1. SUFFICES ASSUME NEW i \in 1..n-1, NEW j \in 1..n-1, ticket_queue'[i] = ticket_queue'[j]
                   PROVE  i = j
      BY <1>3 DEF TicketOnce
    <2>2. i + 1 \in 1..n /\ j + 1 \in 1..n /\ ticket_queue[i + 1] = ticket_queue[j + 1]
      BY <1>2, <1>3, <2>1
    <2>3. i + 1 = j + 1
      BY <2>2 DEF TicketInv, TicketsAreConsecutive, TicketOnce
    <2> QED BY <1>2, <2>3
  <1>7. TicketOwners'
    <2>1. \A d \in Ctx : ticket_pc'[d] # "out" <=> ticket_pc[d] # "out" /\ d # c
      BY DEF TicketDrop, TicketInv, TicketTypeOK
    <2>2. ASSUME NEW d \in Ctx
          PROVE  (\E i \in 1..n-1 : ticket_queue'[i] = d) <=> (\E i \in 1..n : ticket_queue[i] = d) /\ d # c
      <3>1. ASSUME NEW i \in 1..n-1, ticket_queue'[i] = d
            PROVE  i + 1 \in 2..n /\ ticket_queue[i + 1] = d
        BY <1>2, <1>3, <3>1
      <3>2. ASSUME NEW i \in 1..n, ticket_queue[i] = d, d # c
            PROVE  i - 1 \in 1..n-1 /\ ticket_queue'[i - 1] = d
        <4>1. i # 1 BY <1>1, <3>2
        <4>2. i - 1 \in 1..n-1 /\ (i - 1) + 1 = i BY <4>1, <1>2
        <4> QED BY <4>2, <1>3, <3>2
      <3>3. \A i \in 2..n : i \in 1..n BY <1>2
      <3> QED BY <3>1, <3>2, <3>3, <1>4
    <2>3. \A d \in Ctx : ticket_pc[d] # "out" <=> \E i \in 1..n : ticket_queue[i] = d
      BY DEF TicketInv, TicketsAreConsecutive, TicketOwners
    <2> HIDE DEF n
    <2> QED BY <1>3, <2>1, <2>2, <2>3 DEF TicketOwners
  <1>8. OthersSpin'
    <2>1. ASSUME NEW i \in 2..n-1 PROVE ticket_pc'[ticket_queue'[i]] = "spin"
      <3>1. i + 1 \in 2..n /\ i \in 1..n-1 /\ i + 1 \in 1..n BY <1>2
      <3>2. ticket_queue'[i] = ticket_queue[i + 1] BY <1>3, <3>1
      <3>3. ticket_pc[ticket_queue[i + 1]] = "spin"
        BY <3>1 DEF TicketInv, TicketsAreConsecutive, OthersSpin
      <3>4. ticket_queue[i + 1] \in Ctx \ {c} BY <1>2, <1>4, <3>1
      <3> QED BY <3>2, <3>3, <3>4 DEF TicketDrop, TicketInv, TicketTypeOK
    <2> QED BY <1>3, <2>1 DEF OthersSpin
  <1>9. LiveTickets'
    <2>1. /\ now_serving \in 0..W-1 /\ now_serving' = WrappingInc(now_serving)
          /\ ticket' = ticket /\ next_ticket' = next_ticket
          /\ n <= W
      BY DEF TicketDrop, TicketInv, TicketTypeOK, TicketsAreConsecutive, LiveTickets
    <2>2. ASSUME NEW i \in 1..n-1 PROVE TicketAt(i - 1)' = TicketAt(i)
      BY <1>2, <2>1, TicketAssumption DEF TicketAt, WrappingInc
    <2>3. ASSUME NEW i \in 1..n-1 PROVE ticket'[ticket_queue'[i]] = TicketAt(i - 1)'
      <3>1. i + 1 \in 1..n /\ (i + 1) - 1 = i BY <1>2
      <3>2. ticket[ticket_queue[i + 1]] = TicketAt((i + 1) - 1)
        BY <3>1 DEF TicketInv, TicketsAreConsecutive, LiveTickets
      <3> QED BY <3>1, <3>2, <2>1, <2>2, <1>3
    <2>4. next_ticket = IF n = W THEN now_serving ELSE TicketAt(n)
      BY DEF TicketInv, TicketsAreConsecutive, LiveTickets
    <2>5. ASSUME NEW k \in Nat, k = n - 1 PROVE k < W /\ next_ticket' = TicketAt(k)'
      <3> HIDE DEF n
      <3> QED BY <1>2, <2>1, <2>4, <2>5, TicketAssumption DEF TicketAt, WrappingInc
    <2>6. PICK k \in Nat : k = n - 1 /\ k = Len(ticket_queue')
      BY <1>2, <1>3
    <2>7. k < W /\ next_ticket' = TicketAt(k)'
      BY <2>5, <2>6
    <2>8. TicketAt(k)' = TicketAt(Len(ticket_queue))'
      BY <2>6 DEF TicketAt
    <2>9. k # W /\ k <= W
      BY <2>7, TicketAssumption
    <2>10. \A i \in 1..Len(ticket_queue') : ticket'[ticket_queue'[i]] = TicketAt(i - 1)'
      BY <1>3, <2>3
    <2> QED BY <2>6, <2>7, <2>8, <2>9, <2>10 DEF LiveTickets
  <1> QED BY <1>5, <1>6, <1>7, <1>8, <1>9 DEF TicketInv, TicketsAreConsecutive

LEMMA TicketStepInv == TicketInv /\ [TicketNext]_ticketVars => TicketInv'
  <1> SUFFICES ASSUME TicketInv, [TicketNext]_ticketVars PROVE TicketInv'
    OBVIOUS
  <1>1. ASSUME UNCHANGED ticketVars PROVE TicketInv'
    BY <1>1 DEF ticketVars, TicketInv, TicketTypeOK, TicketsAreConsecutive, LiveTickets,
                TicketOnce, TicketOwners, OthersSpin, TicketAt
  <1> QED BY <1>1, TakeTicketInv, TicketSpinInv, TicketDropInv DEF TicketNext

\* The ticket lock keeps its types, and live tickets stay consecutive across the
\* wrap of the counters.
THEOREM TicketInvariant == TicketSpec => []TicketInv
  BY TicketInitInv, TicketStepInv, PTL DEF TicketSpec

\* At most one TicketGuard is alive.
THEOREM TicketMutualExclusion == TicketSpec => []TicketExclusion
  <1>1. TicketInv => TicketExclusion BY HolderIsFirst DEF TicketExclusion
  <1> QED BY <1>1, TicketInvariant, PTL

LEMMA TicketFifoStep ==
  TicketInv /\ [TicketNext]_ticketVars => [TicketFifo!FifoNext]_TicketFifo!fifoVars
  <1> SUFFICES ASSUME TicketInv, [TicketNext]_ticketVars
               PROVE  [TicketFifo!FifoNext]_TicketFifo!fifoVars
    OBVIOUS
  <1> DEFINE granted == \E c \in Ctx : ticket_pc[c] = "held"
  <1>1. ASSUME NEW c \in Ctx, TakeTicket(c) PROVE TicketFifo!Request(c)
    <2>1. c \notin TicketFifo!Queued
      BY <1>1 DEF TakeTicket, TicketInv, TicketsAreConsecutive, TicketOwners, TicketFifo!Queued
    <2>2. granted' <=> granted
      BY <1>1 DEF TakeTicket, TicketInv, TicketTypeOK
    <2> QED BY <1>1, <2>1, <2>2 DEF TakeTicket, TicketFifo!Request
  <1>2. ASSUME NEW c \in Ctx, TicketSpin(c) PROVE TicketFifo!Grant
    <2>1. ticket_queue # <<>> /\ ticket_queue[1] = c
      BY <1>2, ServedIsFirst
    <2>2. ~granted
      BY <1>2, <2>1, HolderIsFirst DEF TicketSpin
    <2>3. granted'
      BY <1>2 DEF TicketSpin, TicketInv, TicketTypeOK
    <2> QED BY <1>2, <2>1, <2>2, <2>3 DEF TicketSpin, TicketFifo!Grant
  <1>3. ASSUME NEW c \in Ctx, TicketDrop(c) PROVE TicketFifo!Leave
    <2>1. ticket_queue # <<>> /\ \A d \in Ctx : ticket_pc[d] = "held" => d = c
      BY <1>3, HolderIsFirst DEF TicketDrop
    <2>2. granted /\ ~granted'
      BY <1>3, <2>1 DEF TicketDrop, TicketInv, TicketTypeOK
    <2> QED BY <1>3, <2>1, <2>2 DEF TicketDrop, TicketFifo!Leave
  <1>4. CASE UNCHANGED ticketVars
    BY <1>4 DEF ticketVars, TicketFifo!fifoVars
  <1> HIDE DEF granted
  <1> QED
    BY <1>1, <1>2, <1>3, <1>4, Zenon DEF TicketNext, TicketFifo!FifoNext

\* The ticket lock is a first-come-first-served lock, for every width of its
\* counters that is not smaller than the number of contexts.
THEOREM TicketIsFifoLock == TicketSpec => TicketImplementsFifoLock
  <1>1. TicketInit => TicketFifo!FifoInit
    BY DEF TicketInit, TicketFifo!FifoInit
  <1> QED
    BY <1>1, TicketFifoStep, TicketInvariant, PTL
       DEF TicketSpec, TicketImplementsFifoLock, TicketFifo!FifoSpec

--------------------------------------------------------------------------------
(* Once *)

\* There is one initialiser at most, it runs while the state is Initializing, and
\* Initialized is stored after the value is written.
OnceInv ==
    /\ OnceTypeOK
    /\ \A c, d \in Ctx : once_pc[c] \in Initializer /\ once_pc[d] \in Initializer => c = d
    /\ \A c \in Ctx : /\ once_pc[c] \in Initializer => state = "Initializing"
                      /\ once_pc[c] = "store" => written
                      /\ once_pc[c] = "some" => state = "Initialized"
    /\ state = "Initialized" => written

LEMMA OnceInitInv == OnceInit => OnceInv
  BY Zenon DEF OnceInit, OnceInv, OnceTypeOK, Initializer

LEMMA OnceStepInv == OnceInv /\ [OnceNext]_onceVars => OnceInv'
  <1> SUFFICES ASSUME OnceInv, [OnceNext]_onceVars PROVE OnceInv'
    OBVIOUS
  <1> USE DEF OnceInv, OnceTypeOK, OnceStep, Initializer
  <1>1. ASSUME NEW c \in Ctx, CallOnce(c) PROVE OnceInv'
    BY <1>1 DEF CallOnce
  <1>2. ASSUME NEW c \in Ctx, InitSuccess(c) PROVE OnceInv'
    BY <1>2 DEF InitSuccess
  <1>3. ASSUME NEW c \in Ctx, InitPanic(c) PROVE OnceInv'
    BY <1>3 DEF InitPanic
  <1>4. ASSUME NEW c \in Ctx, WriteValue(c) PROVE OnceInv'
    BY <1>4 DEF WriteValue
  <1>5. ASSUME NEW c \in Ctx, StoreState(c) PROVE OnceInv'
    BY <1>5 DEF StoreState
  <1>6. ASSUME NEW c \in Ctx, GetLoad(c) PROVE OnceInv'
    BY <1>6 DEF GetLoad
  <1>7. ASSUME NEW c \in Ctx, GetSpin(c) \/ GetReload(c) PROVE OnceInv'
    BY <1>7 DEF GetSpin, GetReload
  <1>8. ASSUME NEW c \in Ctx, GetDone(c) PROVE OnceInv'
    BY <1>8 DEF GetDone
  <1>9. ASSUME UNCHANGED onceVars PROVE OnceInv'
    BY <1>9 DEF onceVars
  <1> HIDE DEF OnceInv
  <1> QED
    BY <1>1, <1>2, <1>3, <1>4, <1>5, <1>6, <1>7, <1>8, <1>9 DEF OnceNext, OnceCall, OnceGet

\* One initialiser runs at most, and Initialized means written.
THEOREM OnceInvariant == OnceSpec => []OnceInv
  BY OnceInitInv, OnceStepInv, PTL DEF OnceSpec

\* get() never returns a reference to memory that has not been written, and a value
\* that can be borrowed is never written again.
THEOREM OnceValueIsFinal == OnceSpec => ValueIsFinal
  <1> DEFINE Final ==
        /\ \A c \in Ctx : once_pc[c] = "some" => written /\ state = "Initialized"
        /\ state \in {"Initialized", "Poisoned"} => state' = state /\ written' = written
  <1>1. OnceInv /\ [OnceNext]_onceVars => [Final]_onceVars
    <2> SUFFICES ASSUME OnceInv, OnceNext PROVE Final
      BY DEF onceVars
    <2>1. \A c \in Ctx : once_pc[c] = "some" => written /\ state = "Initialized"
      BY DEF OnceInv
    <2>2. ASSUME state \in {"Initialized", "Poisoned"} PROVE state' = state /\ written' = written
      BY <2>2 DEF OnceInv, Initializer, OnceNext, OnceCall, OnceGet, OnceStep, CallOnce, InitSuccess,
                  InitPanic, WriteValue, StoreState, GetLoad, GetSpin, GetReload, GetDone
    <2> QED BY <2>1, <2>2
  <1> QED BY <1>1, OnceInvariant, PTL DEF OnceSpec, ValueIsFinal

===============================================================================

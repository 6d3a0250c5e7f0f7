------------------------------ MODULE QueueProofs ------------------------------
(***************************************************************************)
(* The ring buffer holds what was pushed and not yet popped, and the MPMC    *)
(* queue hands every element to one receiver, for every size, every set of   *)
(* values and every set of contexts.                                        *)
(***************************************************************************)
EXTENDS Ring, MpmcQueue, SequenceTheorems, TLAPS

--------------------------------------------------------------------------------
(* Remainders.  The provers have no facts about `%` by a constant that is not a   *)
(* number, so the few that are needed come from uniqueness of the remainder.     *)

\* Division with remainder, for a divisor that is not a fixed number.
LEMMA DivMod ==
  ASSUME NEW n \in Nat \ {0}, NEW p \in Nat
  PROVE  p \div n \in Nat /\ p % n \in 0..n-1 /\ p = n * (p \div n) + (p % n)
  OBVIOUS

LEMMA Mult ==
  ASSUME NEW n \in Nat \ {0}, NEW a \in Int, NEW b \in Int, a < b
  PROVE  n * a + n <= n * b
  OBVIOUS

\* The remainder is determined by the equation.
LEMMA ModUnique ==
  ASSUME NEW n \in Nat \ {0}, NEW p \in Nat, NEW q \in Nat, NEW r \in 0..n-1, p = n * q + r
  PROVE  p % n = r
  <1> DEFINE k == p \div n
  <1>1. k \in Nat /\ p % n \in 0..n-1 /\ p = n * k + (p % n) BY DivMod, Zenon
  <1> HIDE DEF k
  <1>2. ~(k < q)
    <2>1. ASSUME k < q PROVE n * k + n <= n * q BY <1>1, <2>1, Mult
    <2>2. n * k \in Int /\ n * q \in Int BY <1>1
    <2> QED BY <1>1, <2>1, <2>2
  <1>3. ~(q < k)
    <2>1. ASSUME q < k PROVE n * q + n <= n * k BY <1>1, <2>1, Mult
    <2>2. n * k \in Int /\ n * q \in Int BY <1>1
    <2> QED BY <1>1, <2>1, <2>2
  <1>4. k = q BY <1>1, <1>2, <1>3
  <1>5. n * k = n * q /\ n * q \in Int BY <1>4
  <1> QED BY <1>1, <1>5

LEMMA ModSmall ==
  ASSUME NEW n \in Nat \ {0}, NEW p \in 0..n-1
  PROVE  p % n = p
  OBVIOUS

\* One round more or less is the same slot.
LEMMA ModRound ==
  ASSUME NEW n \in Nat \ {0}, NEW p \in Nat
  PROVE  (p + n) % n = p % n
  <1> DEFINE q == (p \div n) + 1
             r == p % n
             s == p + n
  <1>1. p \div n \in Nat /\ p % n \in 0..n-1 /\ p = n * (p \div n) + (p % n) BY DivMod, Zenon
  <1>2. q \in Nat /\ r \in 0..n-1 /\ s \in Nat /\ s = n * q + r BY <1>1
  <1> HIDE DEF q, r, s
  <1>3. s % n = r BY <1>2, ModUnique, Zenon
  <1> QED BY <1>3 DEF r, s

\* What adding one does to a remainder.
LEMMA ModNext ==
  ASSUME NEW n \in Nat \ {0}, NEW p \in Nat
  PROVE  (p + 1) % n = IF p % n = n - 1 THEN 0 ELSE (p % n) + 1
  <1> DEFINE q == IF p % n = n - 1 THEN (p \div n) + 1 ELSE p \div n
             r == IF p % n = n - 1 THEN 0 ELSE (p % n) + 1
             s == p + 1
  <1>1. p \div n \in Nat /\ p % n \in 0..n-1 /\ p = n * (p \div n) + (p % n) BY DivMod, Zenon
  <1>2. q \in Nat /\ r \in 0..n-1 /\ s \in Nat /\ s = n * q + r
    <2>1. CASE p % n = n - 1 BY <1>1, <2>1
    <2>2. CASE p % n # n - 1 BY <1>1, <2>2
    <2> QED BY <2>1, <2>2
  <1> HIDE DEF q, r, s
  <1>3. s % n = r BY <1>2, ModUnique, Zenon
  <1> QED BY <1>3 DEF r, s

\* Neighbouring positions share a slot only when there is one slot.
LEMMA ModStep ==
  ASSUME NEW n \in Nat \ {0, 1}, NEW p \in Nat
  PROVE  (p + 1) % n # (p % n)
  <1> DEFINE r == p % n
             s == (p + 1) % n
  <1>1. r \in 0..n-1 BY DivMod
  <1>2. s = IF r = n - 1 THEN 0 ELSE r + 1 BY ModNext, Zenon
  <1> HIDE DEF r, s
  <1>3. s # r BY <1>1, <1>2
  <1> QED BY <1>3 DEF r, s

--------------------------------------------------------------------------------
(* The ring buffer *)

\* The index k places behind i in the ring.
Behind(i, k) == IF i + k < RingSize THEN i + k ELSE i + k - RingSize

\* The remainders of ring.rs are a conditional subtraction.
LEMMA BehindWraps ==
  /\ \A i, k \in 0..RingSize-1 : (i + k) % RingSize = Behind(i, k)
  /\ \A i \in 0..RingSize-1 : next_index(i) = (IF i = RingSize - 1 THEN 0 ELSE i + 1)
  <1>1. \A p \in 0..RingSize-1 : p % RingSize = p BY RingAssumption, ModSmall
  <1>2. ASSUME NEW p \in RingSize..2*RingSize-1 PROVE p % RingSize = p - RingSize
    <2> DEFINE r == p - RingSize
    <2>1. r \in Nat /\ r \in 0..RingSize-1 /\ p = r + RingSize BY RingAssumption
    <2> HIDE DEF r
    <2>2. (r + RingSize) % RingSize = r % RingSize BY <2>1, RingAssumption, ModRound, Zenon
    <2>3. p % RingSize = r BY <1>1, <2>1, <2>2
    <2> QED BY <2>3 DEF r
  <1>3. ASSUME NEW i \in 0..RingSize-1, NEW k \in 0..RingSize PROVE
           (i + k) % RingSize = Behind(i, k)
    <2> DEFINE p == i + k
    <2>1. p \in Int /\ p >= 0 /\ p < 2 * RingSize BY RingAssumption
    <2>2. CASE p < RingSize
      <3>1. p \in 0..RingSize-1 BY <2>1, <2>2, RingAssumption
      <3>2. Behind(i, k) = p BY <2>2 DEF Behind
      <3> HIDE DEF p
      <3>3. p % RingSize = p BY <1>1, <3>1
      <3>4. p % RingSize = Behind(i, k) BY <3>2, <3>3
      <3> QED BY <3>4 DEF p
    <2>3. CASE ~(p < RingSize)
      <3>1. p \in RingSize..2*RingSize-1 BY <2>1, <2>3, RingAssumption
      <3>2. Behind(i, k) = p - RingSize BY <2>1, <2>3, RingAssumption DEF Behind
      <3> HIDE DEF p
      <3>3. p % RingSize = p - RingSize BY <1>2, <3>1
      <3>4. p % RingSize = Behind(i, k) BY <3>2, <3>3
      <3> QED BY <3>4 DEF p
    <2> QED BY <2>2, <2>3
  <1>4. \A i \in 0..RingSize-1 : next_index(i) = (IF i = RingSize - 1 THEN 0 ELSE i + 1)
    <2> SUFFICES ASSUME NEW i \in 0..RingSize-1
                 PROVE  next_index(i) = (IF i = RingSize - 1 THEN 0 ELSE i + 1)
      OBVIOUS
    <2>1. 1 \in 0..RingSize BY RingAssumption
    <2>2. (i + 1) % RingSize = Behind(i, 1) BY <1>3, <2>1
    <2>3. Behind(i, 1) = (IF i = RingSize - 1 THEN 0 ELSE i + 1) BY RingAssumption DEF Behind
    <2> QED BY <2>2, <2>3 DEF next_index
  <1> QED BY <1>3, <1>4, RingAssumption

\* The inductive invariant: the write index is as far behind the read index as
\* there are elements, one slot stays free, and the elements are in between.
RingInv ==
    /\ RingTypeOK
    /\ Len(content) < RingSize
    /\ ring_write = Behind(ring_read, Len(content))
    /\ \A i \in 1..Len(content) : buffer[Behind(ring_read, i - 1)] = content[i]

\* is_empty(), is_full() and len() under the invariant.
LEMMA RingFullEmpty ==
  ASSUME RingInv
  PROVE  /\ is_empty <=> Len(content) = 0
         /\ is_full <=> Len(content) = RingSize - 1
         /\ len = Len(content)
  <1>1. /\ ring_read \in 0..RingSize-1 /\ ring_write \in 0..RingSize-1 /\ Len(content) \in Nat
        /\ Len(content) < RingSize /\ RingSize \in Nat \ {0}
    BY LenProperties, RingAssumption DEF RingInv, RingTypeOK
  <1>2. ring_write = Behind(ring_read, Len(content)) BY DEF RingInv
  <1>3. next_index(ring_write) = (IF ring_write = RingSize - 1 THEN 0 ELSE ring_write + 1) BY <1>1, BehindWraps
  <1>4. is_empty <=> Len(content) = 0 BY <1>1, <1>2 DEF Behind, is_empty
  <1>5. is_full <=> Len(content) = RingSize - 1 BY <1>1, <1>2, <1>3 DEF Behind, is_full
  <1>6. len = Len(content) BY <1>1, <1>2 DEF Behind, len
  <1> QED BY <1>4, <1>5, <1>6

LEMMA RingInitInv == RingInit => RingInv
  BY RingAssumption, EmptySeq DEF RingInit, RingInv, RingTypeOK, Behind

LEMMA RingPushInv ==
  ASSUME RingInv, NEW v \in Value, RingPush(v)
  PROVE  RingInv'
  <1> DEFINE n == Len(content)
  <1>1. /\ ring_read \in 0..RingSize-1 /\ ring_write \in 0..RingSize-1 /\ n \in Nat
        /\ RingSize \in Nat \ {0} /\ buffer \in [0..RingSize-1 -> Value \cup {Uninit}] /\ content \in Seq(Value)
    BY LenProperties, RingAssumption DEF RingInv, RingTypeOK
  <1>2. n < RingSize - 1
    <2>1. n < RingSize /\ n # RingSize - 1 BY RingFullEmpty DEF RingPush, RingInv
    <2> QED BY <1>1, <2>1
  <1>3. ring_read' = ring_read /\ buffer' = [buffer EXCEPT ![ring_write] = v]
        /\ ring_write' = (IF ring_write = RingSize - 1 THEN 0 ELSE ring_write + 1)
    BY <1>1, BehindWraps DEF RingPush
  <1>4. /\ content' \in Seq(Value) /\ Len(content') = n + 1 /\ content'[n + 1] = v
        /\ \A i \in 1..n : content'[i] = content[i]
    BY <1>1, AppendProperties DEF RingPush
  <1>5. ring_write = Behind(ring_read, n) BY DEF RingInv
  <1> HIDE DEF n
  <1>6. RingTypeOK' BY <1>1, <1>3, <1>4 DEF RingTypeOK
  <1>7. ring_write' = Behind(ring_read', n + 1) BY <1>1, <1>2, <1>3, <1>5 DEF Behind
  <1>8. ASSUME NEW i \in 1..n+1 PROVE buffer'[Behind(ring_read', i - 1)] = content'[i]
    <2>1. CASE i = n + 1
      <3>1. Behind(ring_read', i - 1) = ring_write BY <1>1, <1>3, <1>5, <2>1 DEF Behind
      <3> QED BY <1>1, <1>3, <1>4, <2>1, <3>1
    <2>2. CASE i # n + 1
      <3>1. i \in 1..n BY <1>1, <2>2
      <3>2. Behind(ring_read, i - 1) # ring_write /\ Behind(ring_read, i - 1) \in 0..RingSize-1
        BY <1>1, <1>2, <1>5, <3>1 DEF Behind
      <3>3. buffer[Behind(ring_read, i - 1)] = content[i] BY <3>1 DEF RingInv, n
      <3>4. Behind(ring_read', i - 1) = Behind(ring_read, i - 1) BY <1>3
      <3> QED BY <1>1, <1>3, <1>4, <3>1, <3>2, <3>3, <3>4
    <2> QED BY <2>1, <2>2
  <1>9. Len(content') < RingSize BY <1>1, <1>2, <1>4
  <1> QED BY <1>4, <1>6, <1>7, <1>8, <1>9 DEF RingInv, Behind

LEMMA RingPopInv ==
  ASSUME RingInv, RingPop
  PROVE  RingInv'
  <1> DEFINE n == Len(content)
  <1>1. /\ ring_read \in 0..RingSize-1 /\ ring_write \in 0..RingSize-1 /\ n \in Nat
        /\ RingSize \in Nat \ {0} /\ buffer \in [0..RingSize-1 -> Value \cup {Uninit}] /\ content \in Seq(Value)
    BY LenProperties, RingAssumption DEF RingInv, RingTypeOK
  <1>2. n # 0 /\ n < RingSize BY RingFullEmpty DEF RingPop, RingInv
  <1>3. /\ ring_write' = ring_write /\ buffer' = buffer
        /\ ring_read' = (IF ring_read = RingSize - 1 THEN 0 ELSE ring_read + 1)
    BY <1>1, BehindWraps DEF RingPop
  <1>4. content # <<>> BY <1>1, <1>2, EmptySeq
  <1>5. /\ content' \in Seq(Value) /\ Len(content') = n - 1
        /\ \A i \in 1..n-1 : content'[i] = content[i + 1]
    BY <1>1, <1>4, HeadTailProperties DEF RingPop
  <1>6. ring_write = Behind(ring_read, n) BY DEF RingInv
  <1> HIDE DEF n
  <1>7. RingTypeOK'
    <2>1. ring_read' \in 0..RingSize-1 BY <1>1, <1>3
    <2> QED BY <1>1, <1>3, <1>5, <2>1 DEF RingTypeOK
  <1>8. ring_write' = Behind(ring_read', n - 1) BY <1>1, <1>2, <1>3, <1>6 DEF Behind
  <1>9. ASSUME NEW i \in 1..n-1 PROVE buffer'[Behind(ring_read', i - 1)] = content'[i]
    <2>1. i + 1 \in 1..n BY <1>1
    <2>2. Behind(ring_read', i - 1) = Behind(ring_read, (i + 1) - 1) BY <1>1, <1>2, <1>3 DEF Behind
    <2>3. buffer[Behind(ring_read, (i + 1) - 1)] = content[i + 1] BY <2>1 DEF RingInv, n
    <2> QED BY <1>3, <1>5, <2>2, <2>3
  <1>10. Len(content') < RingSize BY <1>1, <1>2, <1>5
  <1> QED BY <1>5, <1>7, <1>8, <1>9, <1>10 DEF RingInv, Behind

\* In every state of the ring buffer of ring.rs, whatever its SIZE, the elements lie
\* from the read index up to the write index and one slot stays free.
THEOREM RingInvariant == RingSpec => []RingInv
  <1>1. RingInv /\ [RingNext]_ringVars => RingInv'
    <2> SUFFICES ASSUME RingInv, [RingNext]_ringVars PROVE RingInv'
      OBVIOUS
    <2>1. CASE UNCHANGED ringVars BY <2>1 DEF ringVars, RingInv, RingTypeOK, Behind
    <2> QED BY <2>1, RingPushInv, RingPopInv DEF RingNext
  <1> QED BY <1>1, RingInitInv, PTL DEF RingSpec

\* "Every element between `read_index` and `write_index` (possibly wrapping around) is
\* initialized" (ring.rs:218), for every SIZE and every set of values: push and pop are
\* first in, first out, and len(), is_empty() and is_full() tell the truth.
THEOREM RingHoldsContent == RingSpec => []HoldsContent
  <1>1. RingInv => HoldsContent
    <2> SUFFICES ASSUME RingInv PROVE HoldsContent
      OBVIOUS
    <2>1. /\ ring_read \in 0..RingSize-1 /\ Len(content) \in Nat /\ Len(content) < RingSize
          /\ RingSize \in Nat \ {0} /\ content \in Seq(Value)
      BY LenProperties, RingAssumption DEF RingInv, RingTypeOK
    <2>2. ring_write = (ring_read + Len(content)) % RingSize
      BY <2>1, BehindWraps DEF RingInv
    <2>3. ASSUME NEW i \in 1..Len(content)
          PROVE  buffer[(ring_read + i - 1) % RingSize] = content[i]
      <3> DEFINE k == i - 1
      <3>1. k \in 0..RingSize-1 /\ ring_read + i - 1 = ring_read + k BY <2>1
      <3>2. buffer[Behind(ring_read, k)] = content[i] BY DEF RingInv
      <3> HIDE DEF k
      <3>3. (ring_read + k) % RingSize = Behind(ring_read, k) BY <2>1, <3>1, BehindWraps, Zenon
      <3> QED BY <3>1, <3>2, <3>3
    <2>4. is_empty <=> content = <<>> BY <2>1, RingFullEmpty, EmptySeq
    <2> QED BY <2>2, <2>3, <2>4, RingFullEmpty DEF HoldsContent
  <1> QED BY <1>1, RingInvariant, PTL

--------------------------------------------------------------------------------
(* The MPMC queue *)

\* The slot of a position, `pos % SIZE` of mpmc.rs.
PosSlot(p) == p % MpmcSize

\* Between the compare_exchange that claims a position and the store that releases
\* its slot.
Writing(c) == mpmc_pc[c] \in {"push_write", "push_publish"}

\* The same for a position claimed by a pop().
Reading(c) == mpmc_pc[c] \in {"pop_read", "pop_publish"}

Places == {"out"} \cup Pushing \cup Popping

QueueTypes ==
    /\ sequence \in [0..MpmcSize-1 -> Nat] /\ value \in [0..MpmcSize-1 -> Int]
    /\ read_index \in Nat /\ write_index \in Nat
    /\ mpmc_pc \in [Ctx -> {"out"} \cup Pushing \cup Popping]
    /\ pos \in [Ctx -> Nat] /\ popped \in [Ctx -> Int]

\* A claimed slot keeps the sequence number its claimant saw, and a position is
\* claimed at most once by a push and at most once by a pop.
ClaimsAreHeld ==
    /\ \A c \in Ctx : Writing(c) => sequence[PosSlot(pos[c])] = pos[c] /\ pos[c] < write_index
    /\ \A c \in Ctx : Reading(c) => sequence[PosSlot(pos[c])] = pos[c] + 1 /\ pos[c] < read_index
    /\ \A c, d \in Ctx : Writing(c) /\ Writing(d) /\ pos[c] = pos[d] => c = d
    /\ \A c, d \in Ctx : Reading(c) /\ Reading(d) /\ pos[c] = pos[d] => c = d

\* A compare_exchange that is going to succeed finds the slot as the check of its
\* sequence number found it.
ChecksAreFresh ==
    /\ \A c \in Ctx : mpmc_pc[c] \in {"push_seq", "push_cas"} => pos[c] <= write_index
    /\ \A c \in Ctx : mpmc_pc[c] \in {"pop_seq", "pop_cas"} => pos[c] <= read_index
    /\ \A c \in Ctx : mpmc_pc[c] = "push_cas" /\ write_index = pos[c] => sequence[PosSlot(pos[c])] = pos[c]
    /\ \A c \in Ctx : mpmc_pc[c] = "pop_cas" /\ read_index = pos[c] => sequence[PosSlot(pos[c])] = pos[c] + 1

\* A slot whose sequence number is not one of its own positions has been published
\* and holds the value of the push it was published by.
ValuesAreInPlace ==
    /\ \A s \in 0..MpmcSize-1 : PosSlot(sequence[s]) = s \/ value[s] + 1 = sequence[s]
    /\ \A c \in Ctx : mpmc_pc[c] = "push_publish" => value[PosSlot(pos[c])] = pos[c]
    /\ \A c \in Ctx : mpmc_pc[c] = "pop_publish" => popped[c] = pos[c]

\* The inductive invariant of the queue.
MpmcInv == QueueTypes /\ ClaimsAreHeld /\ ChecksAreFresh /\ ValuesAreInPlace

\* What the queue needs to know of `%`.
LEMMA SlotFacts ==
  ASSUME MpmcSize > 1
  PROVE  /\ \A p \in Nat : PosSlot(p) \in 0..MpmcSize-1
         /\ \A p \in Nat : PosSlot(p + 1) # PosSlot(p)
         /\ \A p \in Nat : PosSlot(p + MpmcSize) = PosSlot(p)
  <1>1. MpmcSize \in Nat \ {0, 1} BY SizeAssumption
  <1>2. \A p \in Nat : PosSlot(p) \in 0..MpmcSize-1 BY <1>1, DivMod DEF PosSlot
  <1>3. \A p \in Nat : PosSlot(p + 1) # PosSlot(p) BY <1>1, ModStep, Zenon DEF PosSlot
  <1>4. \A p \in Nat : PosSlot(p + MpmcSize) = PosSlot(p) BY <1>1, ModRound, Zenon DEF PosSlot
  <1> QED BY <1>2, <1>3, <1>4

\* Nothing changes for the other contexts.
Others(c) == \A d \in Ctx \ {c} : /\ mpmc_pc'[d] = mpmc_pc[d] /\ pos'[d] = pos[d]
                                  /\ popped'[d] = popped[d]

\* A place the context may move to without claiming a position.
Unclaiming(c) ==
    \/ mpmc_pc'[c] \in {"out", "push_load", "pop_load"}
    \/ mpmc_pc'[c] = "push_seq" /\ pos'[c] <= write_index
    \/ mpmc_pc'[c] = "pop_seq" /\ pos'[c] <= read_index
    \/ mpmc_pc'[c] = "push_cas" /\ pos'[c] <= write_index /\ sequence[PosSlot(pos'[c])] = pos'[c]
    \/ mpmc_pc'[c] = "pop_cas" /\ pos'[c] <= read_index /\ sequence[PosSlot(pos'[c])] = pos'[c] + 1

\* A step that touches no slot and no index.
LEMMA QuietStep ==
  ASSUME MpmcInv, NEW c \in Ctx, QueueTypes', UNCHANGED <<slots, indices>>, Others(c), Unclaiming(c)
  PROVE  MpmcInv'
  <1>1. /\ sequence' = sequence /\ value' = value /\ read_index' = read_index /\ write_index' = write_index
        /\ \A d \in Ctx : d # c => mpmc_pc'[d] = mpmc_pc[d] /\ pos'[d] = pos[d] /\ popped'[d] = popped[d]
    BY DEF slots, indices, Others
  <1>2. ~Writing(c)' /\ ~Reading(c)' BY DEF Unclaiming, Writing, Reading
  <1>3. \A d \in Ctx : (Writing(d)' => Writing(d) /\ d # c) /\ (Reading(d)' => Reading(d) /\ d # c)
    BY <1>1, <1>2 DEF Writing, Reading
  <1>4. ClaimsAreHeld' BY <1>1, <1>3 DEF MpmcInv, ClaimsAreHeld
  <1>5. ChecksAreFresh'
    <2>1. ASSUME NEW d \in Ctx, d # c
          PROVE  /\ mpmc_pc'[d] \in {"push_seq", "push_cas"} => pos'[d] <= write_index'
                 /\ mpmc_pc'[d] \in {"pop_seq", "pop_cas"} => pos'[d] <= read_index'
                 /\ mpmc_pc'[d] = "push_cas" /\ write_index' = pos'[d] => sequence'[PosSlot(pos'[d])] = pos'[d]
                 /\ mpmc_pc'[d] = "pop_cas" /\ read_index' = pos'[d] => sequence'[PosSlot(pos'[d])] = pos'[d] + 1
      BY <1>1, <2>1 DEF MpmcInv, ChecksAreFresh
    <2>2. /\ mpmc_pc'[c] \in {"push_seq", "push_cas"} => pos'[c] <= write_index'
          /\ mpmc_pc'[c] \in {"pop_seq", "pop_cas"} => pos'[c] <= read_index'
          /\ mpmc_pc'[c] = "push_cas" /\ write_index' = pos'[c] => sequence'[PosSlot(pos'[c])] = pos'[c]
          /\ mpmc_pc'[c] = "pop_cas" /\ read_index' = pos'[c] => sequence'[PosSlot(pos'[c])] = pos'[c] + 1
      BY <1>1 DEF Unclaiming
    <2> QED BY <2>1, <2>2 DEF ChecksAreFresh
  <1>6. ValuesAreInPlace'
    <2>1. mpmc_pc'[c] \notin {"push_publish", "pop_publish"} BY DEF Unclaiming
    <2> QED BY <1>1, <2>1 DEF MpmcInv, ValuesAreInPlace
  <1> QED BY <1>4, <1>5, <1>6 DEF MpmcInv

\* Calls of try_push() and pop(), and the loads of the index.
LEMMA CallAndLoad ==
  ASSUME MpmcInv, NEW c \in Ctx, PushCall(c) \/ PopCall(c) \/ PushLoad(c) \/ PopLoad(c)
  PROVE  MpmcInv'
  <1>0. QueueTypes BY DEF MpmcInv
  <1> USE DEF Pushing, Popping, MpmcGoTo, LoadPos
  <1>1. CASE PushCall(c)
    <2>1. QueueTypes' BY <1>0, <1>1 DEF QueueTypes, PushCall, slots, indices
    <2>2. Others(c) /\ Unclaiming(c) BY <1>0, <1>1 DEF QueueTypes, PushCall, Others, Unclaiming
    <2>3. UNCHANGED <<slots, indices>> BY <1>1 DEF PushCall
    <2> QED BY <2>1, <2>2, <2>3, QuietStep
  <1>2. CASE PopCall(c)
    <2>1. QueueTypes' BY <1>0, <1>2 DEF QueueTypes, PopCall, slots, indices
    <2>2. Others(c) /\ Unclaiming(c) BY <1>0, <1>2 DEF QueueTypes, PopCall, Others, Unclaiming
    <2>3. UNCHANGED <<slots, indices>> BY <1>2 DEF PopCall
    <2> QED BY <2>1, <2>2, <2>3, QuietStep
  <1>3. CASE PushLoad(c)
    <2>1. QueueTypes' BY <1>0, <1>3 DEF QueueTypes, PushLoad, slots, indices
    <2>2. Others(c) /\ Unclaiming(c) BY <1>0, <1>3 DEF QueueTypes, PushLoad, Others, Unclaiming
    <2>3. UNCHANGED <<slots, indices>> BY <1>3 DEF PushLoad
    <2> QED BY <2>1, <2>2, <2>3, QuietStep
  <1>4. CASE PopLoad(c)
    <2>1. QueueTypes' BY <1>0, <1>4 DEF QueueTypes, PopLoad, slots, indices
    <2>2. Others(c) /\ Unclaiming(c) BY <1>0, <1>4 DEF QueueTypes, PopLoad, Others, Unclaiming
    <2>3. UNCHANGED <<slots, indices>> BY <1>4 DEF PopLoad
    <2> QED BY <2>1, <2>2, <2>3, QuietStep
  <1> QED BY <1>1, <1>2, <1>3, <1>4

\* The check of the sequence number.
LEMMA SeqStep ==
  ASSUME MpmcInv, NEW c \in Ctx, PushSeq(c) \/ PopSeq(c)
  PROVE  MpmcInv'
  <1> USE DEF Pushing, Popping, MpmcGoTo, LoadPos, MpmcReturn, NoValue
  <1>0. UNCHANGED <<slots, indices>> BY DEF PushSeq, PopSeq
  <1>1. pos[c] \in Nat /\ popped[c] \in Int /\ QueueTypes BY DEF MpmcInv, QueueTypes
  <1>2. CASE mpmc_pc' = [mpmc_pc EXCEPT ![c] = "out"] /\ pos' = [pos EXCEPT ![c] = 0]
             /\ popped' = [popped EXCEPT ![c] = -1]
    <2>1. QueueTypes' BY <1>0, <1>1, <1>2 DEF QueueTypes, slots, indices
    <2>2. Others(c) /\ Unclaiming(c) BY <1>1, <1>2 DEF QueueTypes, Others, Unclaiming
    <2> QED BY <1>0, <2>1, <2>2, QuietStep
  <1>3. CASE mpmc_pc' = [mpmc_pc EXCEPT ![c] = "push_load"] /\ UNCHANGED <<pos, popped>>
    <2>1. QueueTypes' BY <1>0, <1>1, <1>3 DEF QueueTypes, slots, indices
    <2>2. Others(c) /\ Unclaiming(c) BY <1>1, <1>3 DEF QueueTypes, Others, Unclaiming
    <2> QED BY <1>0, <2>1, <2>2, QuietStep
  <1>4. CASE mpmc_pc' = [mpmc_pc EXCEPT ![c] = "pop_load"] /\ UNCHANGED <<pos, popped>>
    <2>1. QueueTypes' BY <1>0, <1>1, <1>4 DEF QueueTypes, slots, indices
    <2>2. Others(c) /\ Unclaiming(c) BY <1>1, <1>4 DEF QueueTypes, Others, Unclaiming
    <2> QED BY <1>0, <2>1, <2>2, QuietStep
  <1>5. CASE /\ mpmc_pc[c] = "push_seq" /\ sequence[PosSlot(pos[c])] = pos[c]
             /\ mpmc_pc' = [mpmc_pc EXCEPT ![c] = "push_cas"] /\ UNCHANGED <<pos, popped>>
    <2>1. QueueTypes' BY <1>0, <1>1, <1>5 DEF QueueTypes, slots, indices
    <2>2. pos[c] <= write_index BY <1>5 DEF MpmcInv, ChecksAreFresh
    <2>3. Others(c) /\ Unclaiming(c) BY <1>1, <1>5, <2>2 DEF QueueTypes, Others, Unclaiming
    <2> QED BY <1>0, <2>1, <2>3, QuietStep
  <1>6. CASE /\ mpmc_pc[c] = "pop_seq" /\ sequence[PosSlot(pos[c])] = pos[c] + 1
             /\ mpmc_pc' = [mpmc_pc EXCEPT ![c] = "pop_cas"] /\ UNCHANGED <<pos, popped>>
    <2>1. QueueTypes' BY <1>0, <1>1, <1>6 DEF QueueTypes, slots, indices
    <2>2. pos[c] <= read_index BY <1>6 DEF MpmcInv, ChecksAreFresh
    <2>3. Others(c) /\ Unclaiming(c) BY <1>1, <1>6, <2>2 DEF QueueTypes, Others, Unclaiming
    <2> QED BY <1>0, <2>1, <2>3, QuietStep
  <1>7. CASE PushSeq(c) BY <1>2, <1>3, <1>5, <1>7 DEF PushSeq, Slot, PosSlot
  <1>8. CASE PopSeq(c) BY <1>2, <1>4, <1>6, <1>8 DEF PopSeq, Slot, PosSlot
  <1> QED BY <1>7, <1>8

\* A compare_exchange that fails reloads the index.
LEMMA FailedCas ==
  ASSUME MpmcInv, NEW c \in Ctx,
         \/ PushCas(c) /\ write_index # pos[c]
         \/ PopCas(c) /\ read_index # pos[c]
  PROVE  MpmcInv'
  <1> USE DEF Pushing, Popping, MpmcGoTo, LoadPos
  <1>1. QueueTypes BY DEF MpmcInv
  <1>2. QueueTypes' BY <1>1, Zenon DEF PushCas, PopCas, QueueTypes, slots
  <1>3. Others(c) /\ Unclaiming(c) BY <1>1 DEF PushCas, PopCas, QueueTypes, Others, Unclaiming
  <1>4. UNCHANGED <<slots, indices>> BY DEF PushCas, PopCas, indices
  <1> QED BY <1>2, <1>3, <1>4, QuietStep

\* The successful compare_exchange of try_push() claims a position nobody has.
LEMMA PushClaims ==
  ASSUME MpmcInv, NEW c \in Ctx, PushCas(c), write_index = pos[c]
  PROVE  MpmcInv'
  <1>0. /\ sequence' = sequence /\ value' = value /\ read_index' = read_index /\ pos' = pos /\ popped' = popped
        /\ write_index' = pos[c] + 1 /\ mpmc_pc[c] = "push_cas"
        /\ mpmc_pc' = [mpmc_pc EXCEPT ![c] = "push_write"]
    BY DEF PushCas, MpmcGoTo, slots
  <1>1. QueueTypes /\ pos \in [Ctx -> Nat] /\ write_index \in Nat /\ mpmc_pc \in [Ctx -> Places]
    BY DEF MpmcInv, QueueTypes, Places
  <1>2. QueueTypes' BY <1>0, <1>1 DEF QueueTypes, Pushing, Popping
  <1>3. /\ mpmc_pc'[c] = "push_write"
        /\ \A d \in Ctx : d # c => mpmc_pc'[d] = mpmc_pc[d]
    BY <1>0, <1>1
  <1>4. sequence[PosSlot(pos[c])] = pos[c] BY <1>0 DEF MpmcInv, ChecksAreFresh
  <1>5. /\ \A d \in Ctx : d # c => (Writing(d)' <=> Writing(d))
        /\ \A d \in Ctx : Reading(d)' => Reading(d)
    BY <1>3 DEF Writing, Reading
  <1>6. \A d \in Ctx : Writing(d) => pos[d] < write_index BY DEF MpmcInv, ClaimsAreHeld
  <1>7. ClaimsAreHeld'
    BY <1>0, <1>1, <1>4, <1>5, <1>6 DEF MpmcInv, ClaimsAreHeld
  <1>8. ChecksAreFresh'
    BY <1>0, <1>1, <1>3 DEF MpmcInv, ChecksAreFresh
  <1>9. ValuesAreInPlace' BY <1>0, <1>3 DEF MpmcInv, ValuesAreInPlace
  <1> QED BY <1>2, <1>7, <1>8, <1>9 DEF MpmcInv

\* The successful compare_exchange of pop() claims a position nobody has.
LEMMA PopClaims ==
  ASSUME MpmcInv, NEW c \in Ctx, PopCas(c), read_index = pos[c]
  PROVE  MpmcInv'
  <1>0. /\ sequence' = sequence /\ value' = value /\ write_index' = write_index /\ pos' = pos /\ popped' = popped
        /\ read_index' = pos[c] + 1 /\ mpmc_pc[c] = "pop_cas"
        /\ mpmc_pc' = [mpmc_pc EXCEPT ![c] = "pop_read"]
    BY DEF PopCas, MpmcGoTo, slots
  <1>1. QueueTypes /\ pos \in [Ctx -> Nat] /\ read_index \in Nat /\ mpmc_pc \in [Ctx -> Places]
    BY DEF MpmcInv, QueueTypes, Places
  <1>2. QueueTypes' BY <1>0, <1>1 DEF QueueTypes, Pushing, Popping
  <1>3. /\ mpmc_pc'[c] = "pop_read"
        /\ \A d \in Ctx : d # c => mpmc_pc'[d] = mpmc_pc[d]
    BY <1>0, <1>1
  <1>4. sequence[PosSlot(pos[c])] = pos[c] + 1 BY <1>0 DEF MpmcInv, ChecksAreFresh
  <1>5. /\ \A d \in Ctx : d # c => (Reading(d)' <=> Reading(d))
        /\ \A d \in Ctx : Writing(d)' => Writing(d)
    BY <1>3 DEF Writing, Reading
  <1>6. \A d \in Ctx : Reading(d) => pos[d] < read_index BY DEF MpmcInv, ClaimsAreHeld
  <1>7. ClaimsAreHeld'
    BY <1>0, <1>1, <1>4, <1>5, <1>6 DEF MpmcInv, ClaimsAreHeld
  <1>8. ChecksAreFresh'
    BY <1>0, <1>1, <1>3 DEF MpmcInv, ChecksAreFresh
  <1>9. ValuesAreInPlace' BY <1>0, <1>3 DEF MpmcInv, ValuesAreInPlace
  <1> QED BY <1>2, <1>7, <1>8, <1>9 DEF MpmcInv

\* Who has claimed a slot is alone there.
LEMMA SlotOwned ==
  ASSUME MpmcInv, MpmcSize > 1, NEW c \in Ctx, NEW d \in Ctx, PosSlot(pos[c]) = PosSlot(pos[d]),
         Writing(c) \/ Reading(c), Writing(d) \/ Reading(d)
  PROVE  c = d
  <1>1. pos[c] \in Nat /\ pos[d] \in Nat BY DEF MpmcInv, QueueTypes
  <1>2. pos[c] # pos[d] + 1 /\ pos[d] # pos[c] + 1 BY <1>1, SlotFacts
  <1>3. CASE Writing(c) /\ Writing(d) BY <1>1, <1>3 DEF MpmcInv, ClaimsAreHeld
  <1>4. CASE Reading(c) /\ Reading(d) BY <1>1, <1>4 DEF MpmcInv, ClaimsAreHeld
  <1>5. ~(Writing(c) /\ Reading(d)) BY <1>1, <1>2 DEF MpmcInv, ClaimsAreHeld
  <1>6. ~(Reading(c) /\ Writing(d)) BY <1>1, <1>2 DEF MpmcInv, ClaimsAreHeld
  <1> QED BY <1>3, <1>4, <1>5, <1>6

\* Who is about to claim a position, having found its slot ready, finds nobody there.
LEMMA SlotReady ==
  ASSUME MpmcInv, MpmcSize > 1, NEW c \in Ctx, NEW d \in Ctx, Writing(c) \/ Reading(c),
         \/ mpmc_pc[d] = "push_cas" /\ write_index = pos[d]
         \/ mpmc_pc[d] = "pop_cas" /\ read_index = pos[d]
  PROVE  PosSlot(pos[c]) # PosSlot(pos[d])
  <1> SUFFICES ASSUME PosSlot(pos[c]) = PosSlot(pos[d]) PROVE FALSE
    OBVIOUS
  <1>1. pos[c] \in Nat /\ pos[d] \in Nat BY DEF MpmcInv, QueueTypes
  <1>2. pos[c] # pos[d] + 1 /\ pos[d] # pos[c] + 1 BY <1>1, SlotFacts
  <1>3. \/ Writing(c) /\ sequence[PosSlot(pos[c])] = pos[c] /\ pos[c] < write_index
        \/ Reading(c) /\ sequence[PosSlot(pos[c])] = pos[c] + 1 /\ pos[c] < read_index
    BY DEF MpmcInv, ClaimsAreHeld
  <1>4. \/ write_index = pos[d] /\ sequence[PosSlot(pos[d])] = pos[d]
        \/ read_index = pos[d] /\ sequence[PosSlot(pos[d])] = pos[d] + 1
    BY DEF MpmcInv, ChecksAreFresh
  <1> QED BY <1>1, <1>2, <1>3, <1>4

\* Slot::write() stores the value in a slot that is not published.
LEMMA PushWrites ==
  ASSUME MpmcInv, MpmcSize > 1, NEW c \in Ctx, PushWrite(c)
  PROVE  MpmcInv'
  <1> DEFINE s == PosSlot(pos[c])
  <1>0. /\ sequence' = sequence /\ read_index' = read_index /\ write_index' = write_index /\ pos' = pos
        /\ popped' = popped /\ mpmc_pc[c] = "push_write" /\ value' = [value EXCEPT ![s] = pos[c]]
        /\ mpmc_pc' = [mpmc_pc EXCEPT ![c] = "push_publish"]
    BY DEF PushWrite, MpmcGoTo, indices, Slot, PosSlot
  <1>1. /\ QueueTypes /\ pos \in [Ctx -> Nat] /\ mpmc_pc \in [Ctx -> Places] /\ s \in 0..MpmcSize-1
        /\ value \in [0..MpmcSize-1 -> Int]
    BY SlotFacts, Zenon DEF MpmcInv, QueueTypes, Places
  <1>2. QueueTypes' BY <1>0, <1>1 DEF QueueTypes, Pushing, Popping
  <1>3. /\ mpmc_pc'[c] = "push_publish"
        /\ \A d \in Ctx : d # c => mpmc_pc'[d] = mpmc_pc[d]
    BY <1>0, <1>1
  <1>4. \A d \in Ctx : (Writing(d)' <=> Writing(d)) /\ (Reading(d)' <=> Reading(d))
    BY <1>0, <1>3 DEF Writing, Reading
  <1>5. ClaimsAreHeld' BY <1>0, <1>4 DEF MpmcInv, ClaimsAreHeld
  <1>6. ChecksAreFresh' BY <1>0, <1>3 DEF MpmcInv, ChecksAreFresh
  <1>7. ValuesAreInPlace'
    <2>1. PosSlot(sequence[s]) = s BY <1>0 DEF MpmcInv, ClaimsAreHeld, Writing
    <2>2. \A r \in 0..MpmcSize-1 : PosSlot(sequence'[r]) = r \/ value'[r] + 1 = sequence'[r]
      BY <1>0, <1>1, <2>1 DEF MpmcInv, ValuesAreInPlace
    <2>3. ASSUME NEW d \in Ctx, mpmc_pc'[d] = "push_publish" PROVE value'[PosSlot(pos'[d])] = pos'[d]
      <3>1. CASE d = c BY <1>0, <1>1, <3>1
      <3>2. CASE d # c
        <4>1. mpmc_pc[d] = "push_publish" BY <1>3, <2>3, <3>2
        <4>2. PosSlot(pos[d]) # s BY <1>0, <3>2, <4>1, SlotOwned DEF Writing
        <4>3. value[PosSlot(pos[d])] = pos[d] BY <4>1 DEF MpmcInv, ValuesAreInPlace
        <4>4. PosSlot(pos[d]) \in 0..MpmcSize-1 BY <1>1, SlotFacts
        <4> HIDE DEF s
        <4> QED BY <1>0, <1>1, <4>2, <4>3, <4>4
      <3> QED BY <3>1, <3>2
    <2>4. \A d \in Ctx : mpmc_pc'[d] = "pop_publish" => popped'[d] = pos'[d]
      BY <1>0, <1>3 DEF MpmcInv, ValuesAreInPlace
    <2> QED BY <2>2, <2>3, <2>4 DEF ValuesAreInPlace
  <1> QED BY <1>2, <1>5, <1>6, <1>7 DEF MpmcInv

\* Slot::read() finds the value of its own position.
LEMMA PopReads ==
  ASSUME MpmcInv, MpmcSize > 1, NEW c \in Ctx, PopRead(c)
  PROVE  MpmcInv'
  <1> DEFINE s == PosSlot(pos[c])
  <1>0. /\ sequence' = sequence /\ value' = value /\ read_index' = read_index /\ write_index' = write_index
        /\ pos' = pos /\ popped' = [popped EXCEPT ![c] = value[s]] /\ mpmc_pc[c] = "pop_read"
        /\ mpmc_pc' = [mpmc_pc EXCEPT ![c] = "pop_publish"]
    BY DEF PopRead, MpmcGoTo, slots, indices, Slot, PosSlot
  <1>1. /\ QueueTypes /\ pos \in [Ctx -> Nat] /\ mpmc_pc \in [Ctx -> Places] /\ s \in 0..MpmcSize-1
        /\ value \in [0..MpmcSize-1 -> Int] /\ popped \in [Ctx -> Int]
    BY SlotFacts, Zenon DEF MpmcInv, QueueTypes, Places
  <1>2. QueueTypes' BY <1>0, <1>1 DEF QueueTypes, Pushing, Popping
  <1>3. /\ mpmc_pc'[c] = "pop_publish" /\ popped'[c] = value[s]
        /\ \A d \in Ctx : d # c => mpmc_pc'[d] = mpmc_pc[d] /\ popped'[d] = popped[d]
    BY <1>0, <1>1
  <1>4. \A d \in Ctx : (Writing(d)' <=> Writing(d)) /\ (Reading(d)' <=> Reading(d))
    BY <1>0, <1>3 DEF Writing, Reading
  <1>5. ClaimsAreHeld' BY <1>0, <1>4 DEF MpmcInv, ClaimsAreHeld
  <1>6. ChecksAreFresh' BY <1>0, <1>3 DEF MpmcInv, ChecksAreFresh
  <1>7. value[s] = pos[c]
    <2>1. sequence[s] = pos[c] + 1 BY <1>0 DEF MpmcInv, ClaimsAreHeld, Reading
    <2>2. PosSlot(sequence[s]) # s BY <1>1, <2>1, SlotFacts
    <2>3. value[s] + 1 = sequence[s] BY <1>1, <2>2 DEF MpmcInv, ValuesAreInPlace
    <2>4. value[s] \in Int /\ pos[c] \in Nat BY <1>1
    <2> QED BY <2>1, <2>3, <2>4
  <1>8. ValuesAreInPlace' BY <1>0, <1>3, <1>7 DEF MpmcInv, ValuesAreInPlace
  <1> QED BY <1>2, <1>5, <1>6, <1>8 DEF MpmcInv

\* A slot is released with the sequence number of its next use.
LEMMA Publishes ==
  ASSUME MpmcInv, MpmcSize > 1, NEW c \in Ctx, PushPublish(c) \/ PopPublish(c)
  PROVE  MpmcInv'
  <1> DEFINE s == PosSlot(pos[c])
             q == IF mpmc_pc[c] = "push_publish" THEN pos[c] + 1 ELSE pos[c] + MpmcSize
  <1>0. /\ value' = value /\ read_index' = read_index /\ write_index' = write_index
        /\ mpmc_pc[c] \in {"push_publish", "pop_publish"} /\ sequence' = [sequence EXCEPT ![s] = q]
        /\ mpmc_pc' = [mpmc_pc EXCEPT ![c] = "out"] /\ pos' = [pos EXCEPT ![c] = 0]
        /\ popped' = [popped EXCEPT ![c] = -1]
    BY DEF PushPublish, PopPublish, MpmcReturn, MpmcGoTo, LoadPos, indices, Slot, PosSlot, NoValue
  <1>1. /\ QueueTypes /\ pos \in [Ctx -> Nat] /\ mpmc_pc \in [Ctx -> Places] /\ s \in 0..MpmcSize-1
        /\ sequence \in [0..MpmcSize-1 -> Nat] /\ popped \in [Ctx -> Int] /\ q \in Nat
    <2>1. /\ QueueTypes /\ pos \in [Ctx -> Nat] /\ mpmc_pc \in [Ctx -> Places]
          /\ sequence \in [0..MpmcSize-1 -> Nat] /\ popped \in [Ctx -> Int]
      BY DEF MpmcInv, QueueTypes, Places
    <2>2. pos[c] \in Nat BY <2>1
    <2>3. s \in 0..MpmcSize-1 BY <2>2, SlotFacts
    <2>4. q \in Nat BY <2>2, SizeAssumption
    <2> QED BY <2>1, <2>3, <2>4
  <1>2. QueueTypes'
    <2> HIDE DEF s, q
    <2> QED BY <1>0, <1>1 DEF QueueTypes, Pushing, Popping
  <1>3. /\ mpmc_pc'[c] = "out"
        /\ \A d \in Ctx : d # c => mpmc_pc'[d] = mpmc_pc[d] /\ pos'[d] = pos[d] /\ popped'[d] = popped[d]
    BY <1>0, <1>1
  <1>4. \A d \in Ctx : (Writing(d)' => d # c /\ Writing(d)) /\ (Reading(d)' => d # c /\ Reading(d))
    BY <1>3 DEF Writing, Reading
  <1>5. Writing(c) \/ Reading(c) BY <1>0 DEF Writing, Reading
  <1>6. \A d \in Ctx : PosSlot(pos[d]) # s => sequence'[PosSlot(pos[d])] = sequence[PosSlot(pos[d])]
    <2>1. \A d \in Ctx : PosSlot(pos[d]) \in 0..MpmcSize-1 BY <1>1, SlotFacts
    <2> HIDE DEF s, q
    <2> QED BY <1>0, <1>1, <2>1
  <1>7. \A d \in Ctx : d # c /\ (Writing(d) \/ Reading(d)) => PosSlot(pos[d]) # s
    BY <1>5, SlotOwned
  <1>8. \A d \in Ctx : \/ mpmc_pc[d] = "push_cas" /\ write_index = pos[d]
                       \/ mpmc_pc[d] = "pop_cas" /\ read_index = pos[d]
                       => PosSlot(pos[d]) # s
    BY <1>5, SlotReady
  <1> HIDE DEF s, q
  <1>9. ClaimsAreHeld' BY <1>0, <1>3, <1>4, <1>6, <1>7 DEF MpmcInv, ClaimsAreHeld
  <1>10. ChecksAreFresh'
    <2>1. \A d \in Ctx : mpmc_pc'[d] # "out" => d # c BY <1>3
    <2> QED BY <1>0, <1>3, <1>6, <1>8, <2>1 DEF MpmcInv, ChecksAreFresh
  <1>11. ValuesAreInPlace'
    <2>1. PosSlot(q) = s \/ value[s] + 1 = q
      <3>1. CASE mpmc_pc[c] = "push_publish" BY <3>1 DEF MpmcInv, ValuesAreInPlace, s, q
      <3>2. CASE mpmc_pc[c] = "pop_publish" BY <1>1, <3>2, SlotFacts DEF s, q
      <3> QED BY <1>0, <3>1, <3>2
    <2>2. \A r \in 0..MpmcSize-1 : PosSlot(sequence'[r]) = r \/ value'[r] + 1 = sequence'[r]
      BY <1>0, <1>1, <2>1 DEF MpmcInv, ValuesAreInPlace
    <2>3. \A d \in Ctx : mpmc_pc'[d] # "out" => d # c BY <1>3
    <2> QED BY <1>0, <1>3, <2>2, <2>3 DEF MpmcInv, ValuesAreInPlace
  <1> QED BY <1>2, <1>9, <1>10, <1>11 DEF MpmcInv

LEMMA MpmcInitInv == MpmcInit /\ MpmcSize > 1 => MpmcInv
  <1> SUFFICES ASSUME MpmcInit, MpmcSize > 1 PROVE MpmcInv
    OBVIOUS
  <1>1. QueueTypes BY SizeAssumption DEF MpmcInit, QueueTypes, NoValue
  <1>2. \A s \in 0..MpmcSize-1 : PosSlot(s) = s BY SizeAssumption, ModSmall DEF PosSlot
  <1>3. ValuesAreInPlace BY <1>2 DEF MpmcInit, ValuesAreInPlace
  <1>4. ClaimsAreHeld /\ ChecksAreFresh BY DEF MpmcInit, ClaimsAreHeld, ChecksAreFresh, Writing, Reading
  <1> QED BY <1>1, <1>3, <1>4 DEF MpmcInv

LEMMA MpmcStepInv == MpmcInv /\ MpmcSize > 1 /\ [MpmcNext]_mpmcVars => MpmcInv'
  <1> SUFFICES ASSUME MpmcInv, MpmcSize > 1, [MpmcNext]_mpmcVars PROVE MpmcInv'
    OBVIOUS
  <1>1. ASSUME NEW c \in Ctx, PushCas(c) PROVE MpmcInv' BY <1>1, PushClaims, FailedCas
  <1>2. ASSUME NEW c \in Ctx, PopCas(c) PROVE MpmcInv' BY <1>2, PopClaims, FailedCas
  <1>3. CASE UNCHANGED mpmcVars
    BY <1>3 DEF mpmcVars, slots, indices, MpmcInv, QueueTypes, ClaimsAreHeld, ChecksAreFresh, ValuesAreInPlace,
                Writing, Reading
  <1> QED
    BY <1>1, <1>2, <1>3, CallAndLoad, SeqStep, PushWrites, PopReads, Publishes DEF MpmcNext, TryPush, Pop

\* In every state of the queue of mpmc.rs with more than one slot, a claimed slot stays
\* with its claimant, a check that leads to a claim is fresh, and published values are in
\* place.
THEOREM MpmcInvariant == MpmcSize > 1 => (MpmcSpec => []MpmcInv)
  <1> SUFFICES ASSUME MpmcSize > 1 PROVE MpmcSpec => []MpmcInv
    OBVIOUS
  <1>1. MpmcInit => MpmcInv BY MpmcInitInv
  <1>2. MpmcInv /\ [MpmcNext]_mpmcVars => MpmcInv' BY MpmcStepInv
  <1> QED BY <1>1, <1>2, PTL DEF MpmcSpec

\* For every SIZE above one and every set of contexts, "We are the only thread writing to
\* this slot" (mpmc.rs:162), the same for reading (mpmc.rs:201), and pop() returns exactly
\* what the push of its position wrote.  With one slot the published sequence number of a
\* push is also the free one of the next, which MpmcSize > 1 excludes.
THEOREM MpmcQueueHandsOver == MpmcSize > 1 => (MpmcSpec => []MpmcHandsOver)
  <1> SUFFICES ASSUME MpmcSize > 1 PROVE MpmcSpec => []MpmcHandsOver
    OBVIOUS
  <1>1. MpmcInv => MpmcHandsOver
    <2> SUFFICES ASSUME MpmcInv PROVE MpmcHandsOver
      OBVIOUS
    <2>1. SlotIsExclusive
      <3>1. \A c \in Ctx : mpmc_pc[c] \in Accessing => Writing(c) \/ Reading(c)
        BY DEF Accessing, Writing, Reading
      <3>2. \A c \in Ctx : Slot(c) = PosSlot(pos[c]) BY DEF Slot, PosSlot
      <3> QED BY <3>1, <3>2, SlotOwned DEF SlotIsExclusive
    <2>2. PopReturnsPush BY DEF MpmcInv, ValuesAreInPlace, PopReturnsPush
    <2> QED BY <2>1, <2>2 DEF MpmcHandsOver
  <1>2. MpmcSpec => []MpmcInv BY MpmcInvariant
  <1> QED BY <1>1, <1>2, PTL
================================================================================

-------------------------------- MODULE RwLock --------------------------------
(***************************************************************************)
(* hyperdrive/src/locks/rw.rs: the reader-writer spin lock.  Every step is   *)
(* one access to `readers` or `writer`.  The accesses interleave one by one: *)
(* on x86_64 the read-modify-writes that precede the two crucial loads are   *)
(* locked instructions, and those are full fences.                          *)
(***************************************************************************)
EXTENDS Contexts

VARIABLES readers, writer,      \* AtomicState
          rw_pc

rwVars == <<readers, writer, rw_pc>>

RwInit == readers = 0 /\ writer = FALSE /\ rw_pc = [c \in Ctx |-> "out"]

RwStep(c, from, to) == rw_pc[c] = from /\ rw_pc' = [rw_pc EXCEPT ![c] = to]

\* read() and write() are called.
ReadCall(c) == RwStep(c, "out", "r_wait") /\ UNCHANGED <<readers, writer>>
WriteCall(c) == RwStep(c, "out", "w_cas") /\ UNCHANGED <<readers, writer>>

\* read_lock(): no writer was seen.
ReadWait(c) == ~writer /\ RwStep(c, "r_wait", "r_add") /\ UNCHANGED <<readers, writer>>

\* read_lock(): readers.fetch_add(1), before it is known that no writer came in.
ReadAdd(c) == RwStep(c, "r_add", "r_check") /\ readers' = readers + 1 /\ UNCHANGED writer

\* Mutant: read_lock() does not look at `writer` a second time.
ReadNoCheck(c) == RwStep(c, "r_check", "reading") /\ UNCHANGED <<readers, writer>>

\* read_lock(): the second look at `writer`, which has priority.
ReadCheck(c) ==
    /\ RwStep(c, "r_check", IF writer THEN "r_back" ELSE "reading")
    /\ UNCHANGED <<readers, writer>>

\* Mutant: a reader that gives way forgets to take its count back.
ReadBackKeeps(c) == RwStep(c, "r_back", "r_wait") /\ UNCHANGED <<readers, writer>>

\* read_lock(): readers.fetch_sub(1), and round the loop again.
ReadBack(c) == RwStep(c, "r_back", "r_wait") /\ readers' = readers - 1 /\ UNCHANGED writer

ReadUnlock(c) == RwStep(c, "reading", "out") /\ readers' = readers - 1 /\ UNCHANGED writer

\* write_lock(): compare_exchange(false, true).
WriteCas(c) == ~writer /\ RwStep(c, "w_cas", "w_wait") /\ writer' = TRUE /\ UNCHANGED readers

\* write_lock(): wait until the readers have gone.
WriteWait(c) == readers = 0 /\ RwStep(c, "w_wait", "writing") /\ UNCHANGED <<readers, writer>>

WriteUnlock(c) == RwStep(c, "writing", "out") /\ writer' = FALSE /\ UNCHANGED readers

Reader(c) == ReadWait(c) \/ ReadAdd(c) \/ ReadCheck(c) \/ ReadBack(c) \/ ReadUnlock(c)
Writer(c) == WriteCas(c) \/ WriteWait(c) \/ WriteUnlock(c)

RwNext == \E c \in Ctx : ReadCall(c) \/ WriteCall(c) \/ Reader(c) \/ Writer(c)

RwSpec == RwInit /\ [][RwNext]_rwVars

\* Spinning contexts keep running and guards are eventually dropped.
FairRwSpec == RwSpec /\ \A c \in Ctx : WF_rwVars(Reader(c)) /\ WF_rwVars(Writer(c))

--------------------------------------------------------------------------------
Counted == {"r_check", "r_back", "reading"}
Claiming == {"w_wait", "writing"}

RwTypeOK ==
    /\ readers \in Nat
    /\ writer \in BOOLEAN
    /\ rw_pc \in [Ctx -> {"out", "r_wait", "r_add", "w_cas"} \cup Counted \cup Claiming]

CountedSet == {c \in Ctx : rw_pc[c] \in Counted}

\* `readers` is exactly the number of contexts that hold a ReadGuard or are
\* still undecided in read_lock(), so the fetch_sub never wraps below zero.
ReadersAreCounted == readers = Cardinality(CountedSet)

\* `writer` is set exactly while one context is past its compare_exchange.
OneWriter ==
    /\ writer <=> \E c \in Ctx : rw_pc[c] \in Claiming
    /\ \A c, d \in Ctx : rw_pc[c] \in Claiming /\ rw_pc[d] \in Claiming => c = d

\* A WriteGuard excludes every other guard, read or write.
Exclusion ==
    \A c, d \in Ctx : rw_pc[c] = "writing" /\ rw_pc[d] \in {"reading", "writing"} => c = d

\* "prioritizes writers to prevent writer starvation" (rw.rs:11): once a writer has
\* the flag, readers that keep coming cannot keep it waiting.
WriterProceeds == \A c \in Ctx : rw_pc[c] = "w_wait" ~> rw_pc[c] = "writing"

===============================================================================

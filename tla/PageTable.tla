------------------------------- MODULE PageTable -------------------------------
(***************************************************************************)
(* The four-level page table of beskar-hal: map, unmap, update_flags and      *)
(* translate for 4 KiB, 2 MiB and 1 GiB pages, through the recursive mapping  *)
(* (PageTable) or the physical memory offset (OffsetPageTable, 4 KiB only).   *)
(*                                                                         *)
(* A table is a frame holding entries [addr, flags].  A page is the sequence  *)
(* of its indices, p4 first: four for 4 KiB, three for 2 MiB, two for 1 GiB.   *)
(***************************************************************************)
EXTENDS Integers, Sequences, FiniteSets, SequencesExt

CONSTANTS TableFrames,  \* the frames the allocator may still give to tables
          DataFrames,   \* the frames that are mapped
          PtIndex,      \* the indices within a table (0..511)
          PtPages       \* the pages mapped and unmapped

VARIABLES pt_mem,    \* frame -> table contents
          pt_free,   \* frames the allocator has
          pt_kind,   \* "recursive" or "offset"
          pt_map     \* ghost: page -> what was mapped there: [frame, user], or Unmapped

ptVars == <<pt_mem, pt_free, pt_kind, pt_map>>

RootFrame == 0
NoFrame == 0
Unmapped == [frame |-> NoFrame, user |-> FALSE]
EmptyEntry == [addr |-> 0, flags |-> {}]

IsNull(e) == e = EmptyEntry
IsPresent(e) == "PRESENT" \in e.flags
IsLarge(e) == "HUGE_PAGE" \in e.flags

\* next and next_mut: the table below an entry, or the error.  next_table tells no
\* large page from a missing one.
NextError(e) ==
    CASE IsPresent(e) /\ ~IsLarge(e) -> "Ok"
      [] IsPresent(e) /\ IsLarge(e) /\ pt_kind = "recursive" -> "UnexpectedLargePage"
      [] OTHER -> "NotMapped"

\* A walk: the table it is in, or why it stopped, the tables and the free frames.
Walk(mem, free) == [table |-> RootFrame, result |-> "Ok", mem |-> mem, free |-> free]

\* One level down, without creating: unmap, update_flags and translate.
NextTable(w, i) ==
    LET e == w.mem[w.table][i]
    IN  IF w.result # "Ok" THEN w
        ELSE [w EXCEPT !.result = NextError(e), !.table = IF NextError(e) = "Ok" THEN e.addr ELSE @]

AddFlags(e, flags) == [e EXCEPT !.flags = @ \union flags]

\* One level down, creating the table: the flags are added to an entry that exists
\* before it turns out to be a large page; a new table is cleared.
NextOrCreate(w, i, flags) ==
    LET e == w.mem[w.table][i]
        widened == AddFlags(e, flags)
        new == CHOOSE f \in w.free : \A g \in w.free : f <= g
    IN  CASE w.result # "Ok" -> w
          [] w.result = "Ok" /\ IsPresent(e) ->
               [w EXCEPT !.mem[w.table][i] = widened, !.result = NextError(widened),
                         !.table = IF NextError(widened) = "Ok" THEN e.addr ELSE @]
          [] w.result = "Ok" /\ ~IsPresent(e) /\ w.free = {} ->
               [w EXCEPT !.result = "FrameAllocationFailed"]
          [] OTHER ->
               [w EXCEPT !.mem[w.table][i] = [addr |-> new, flags |-> flags \union {"PRESENT"}],
                         !.mem[new] = [j \in PtIndex |-> EmptyEntry],
                         !.free = @ \ {new}, !.table = new]

LastIndex(page) == page[Len(page)]

\* The walk to the table that holds the page's own entry.
WalkTo(page) == FoldLeft(NextTable, Walk(pt_mem, pt_free), SubSeq(page, 1, Len(page) - 1))

WalkCreating(page, flags) ==
    FoldLeft(LAMBDA w, i : NextOrCreate(w, i, flags), Walk(pt_mem, pt_free),
             SubSeq(page, 1, Len(page) - 1))

EntryOf(w, page) == w.mem[w.table][LastIndex(page)]

LeafFlags(page, flags) ==
    IF Len(page) = 4 THEN (flags \union {"PRESENT"}) \ {"HUGE_PAGE"}
                     ELSE flags \union {"PRESENT", "HUGE_PAGE"}

\* Mutant: USER_ACCESSIBLE is not passed to the tables above.
ParentFlagsKernel(flags) == {"PRESENT", "WRITABLE"}

ParentFlags(flags) ==
    {"PRESENT", "WRITABLE"} \union (flags \intersect {"USER_ACCESSIBLE"})

\* map, AlreadyMapped if the entry is in use: what the walk created or widened stays when the last step fails.
Map(page, frame, flags) ==
    LET w == WalkCreating(page, ParentFlags(flags))
        e == EntryOf(w, page)
        ok == w.result = "Ok" /\ IsNull(e)
    IN  /\ pt_mem' = IF ok
                     THEN [w.mem EXCEPT ![w.table][LastIndex(page)] =
                             [addr |-> frame, flags |-> LeafFlags(page, flags)]]
                     ELSE w.mem
        /\ pt_free' = w.free
        /\ pt_map' = IF ok THEN [pt_map EXCEPT ![page] =
                                  [frame |-> frame, user |-> "USER_ACCESSIBLE" \in flags]]
                           ELSE pt_map

\* The error unmap and update_flags return for the entry itself.
LeafError(w, page) ==
    LET e == EntryOf(w, page)
    IN  CASE w.result # "Ok" -> w.result
          [] w.result = "Ok" /\ ~IsPresent(e) -> "NotMapped"
          [] w.result = "Ok" /\ IsPresent(e) /\ Len(page) < 4 /\ ~IsLarge(e) -> "UnexpectedNotLargePage"
          [] OTHER -> "Ok"

\* unmap: only the page's entry is cleared, the tables above it stay.
Unmap(page) ==
    LET w == WalkTo(page)
        ok == LeafError(w, page) = "Ok"
    IN  /\ pt_mem' = IF ok THEN [pt_mem EXCEPT ![w.table][LastIndex(page)] = EmptyEntry] ELSE pt_mem
        /\ pt_map' = IF ok THEN [pt_map EXCEPT ![page] = Unmapped] ELSE pt_map
        /\ UNCHANGED pt_free

\* update_flags replaces the flags, also HUGE_PAGE: callers pass it for large pages.
UpdateFlags(page, flags) ==
    LET w == WalkTo(page)
        ok == LeafError(w, page) = "Ok"
    IN  /\ pt_mem' = IF ok THEN [pt_mem EXCEPT ![w.table][LastIndex(page)].flags = flags] ELSE pt_mem
        /\ UNCHANGED <<pt_free, pt_map>>

\* translate: large pages are not told from tables by the entry itself.
Translate(page) ==
    LET w == WalkTo(page)
        e == EntryOf(w, page)
    IN  IF w.result = "Ok" /\ IsPresent(e) THEN e.addr ELSE NoFrame

\* translate_addr: the first large page on the way, or the 4 KiB page.
TranslateAddr(addr) ==
    LET large == {n \in 2..3 :
                    LET w == WalkTo(SubSeq(addr, 1, n))
                        e == EntryOf(w, SubSeq(addr, 1, n))
                    IN  w.result = "Ok" /\ IsPresent(e) /\ IsLarge(e)}
    IN  IF large # {} THEN Translate(SubSeq(addr, 1, CHOOSE n \in large : \A m \in large : n <= m))
        ELSE Translate(addr)

PtFlags == {{"PRESENT", "WRITABLE"}, {"PRESENT", "USER_ACCESSIBLE"}}

\* The three Mapper implementations of PageTable, and the one of OffsetPageTable.
Mapper(page) ==
    \/ \E frame \in DataFrames, flags \in PtFlags : Map(page, frame, flags)
    \/ Unmap(page)
    \/ \E flags \in PtFlags : UpdateFlags(page, flags \union (IF Len(page) < 4 THEN {"HUGE_PAGE"} ELSE {}))

Mapper4KiB == pt_kind = "recursive" /\ \E page \in PtPages : Len(page) = 4 /\ Mapper(page)
Mapper2MiB == pt_kind = "recursive" /\ \E page \in PtPages : Len(page) = 3 /\ Mapper(page)
Mapper1GiB == pt_kind = "recursive" /\ \E page \in PtPages : Len(page) = 2 /\ Mapper(page)
OffsetMapper == pt_kind = "offset" /\ \E page \in PtPages : Len(page) = 4 /\ Mapper(page)

\* Frames start with whatever was last in them.
PtInit ==
    /\ pt_kind \in {"recursive", "offset"}
    /\ pt_mem = [f \in TableFrames \union {RootFrame} |-> [i \in PtIndex |->
         IF f = RootFrame THEN EmptyEntry ELSE [addr |-> RootFrame, flags |-> {"PRESENT"}]]]
    /\ pt_free = TableFrames
    /\ pt_map = [page \in PtPages |-> Unmapped]

PtNext == UNCHANGED pt_kind /\ (Mapper4KiB \/ Mapper2MiB \/ Mapper1GiB \/ OffsetMapper)

---------------------------------------------------------------------------
PtAddrs == {page \in PtPages : Len(page) = 4}

\* The page that covers an address according to the calls that returned Ok.
Covering(addr) == {page \in PtPages : IsPrefix(page, addr) /\ pt_map[page] # Unmapped}

\* The tables are what the successful calls made of them: an address is translated
\* to the frame of the one page mapped over it, and to nothing when there is none.
TranslatesAsMapped ==
    \A addr \in PtAddrs :
      /\ Cardinality(Covering(addr)) <= 1
      /\ TranslateAddr(addr) =
           IF Covering(addr) = {} THEN NoFrame ELSE pt_map[CHOOSE p \in Covering(addr) : TRUE].frame

\* The warning on Flags::PARENT: a user accessible page that map made has only user
\* accessible entries above it, whoever created them.
ParentsPermit ==
    \A page \in PtPages :
      pt_map[page] # Unmapped =>
        \A n \in 1..Len(page) - 1 :
          LET e == EntryOf(WalkTo(SubSeq(page, 1, n)), SubSeq(page, 1, n))
          IN  /\ {"PRESENT", "WRITABLE"} \subseteq e.flags
              /\ pt_map[page].user => "USER_ACCESSIBLE" \in e.flags

\* No frame is two tables, and none that is still free is one.
TablesAreATree ==
    LET uses == {<<f, i>> \in (TableFrames \union {RootFrame}) \X PtIndex :
                   f \notin pt_free /\ pt_mem[f][i].addr \in TableFrames}
    IN  /\ \A u, v \in uses : pt_mem[u[1]][u[2]].addr = pt_mem[v[1]][v[2]].addr => u = v
        /\ \A u \in uses : pt_mem[u[1]][u[2]].addr \notin pt_free

PageTableIsSound == TranslatesAsMapped /\ ParentsPermit /\ TablesAreATree
================================================================================

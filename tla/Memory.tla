--------------------------------- MODULE Memory ---------------------------------
(***************************************************************************)
(* The kernel's memory: the frame allocator, an address space's page         *)
(* allocator and page table, and the operations that use them, on several     *)
(* CPUs: alloc_map and unmap_free, guarded stacks, PhysicalMapping and the     *)
(* creation of an address space.  Each with_pgalloc, and each                 *)
(* with_frame_allocator with the page table inside, is one step: other CPUs    *)
(* come in between.  The table itself is PageTable's; here a map may need a    *)
(* frame for a new table.  An unwrap that fails stops the kernel: no step.     *)
(***************************************************************************)
EXTENDS MemoryRanges

CONSTANTS Cpus,
          PAGE, BIG,          \* M4KiB::SIZE and M2MiB::SIZE
          RamFirst, RamLast,  \* physical memory given to the frame allocator
          DeviceBase,         \* a device's registers, above RAM
          VirtFirst, VirtLast,
          MaxRanges,          \* N of the MemoryRanges
          MaxRegions          \* bound: regions in use

VARIABLES mm_frames,   \* the frame allocator's free ranges
          mm_pages,    \* the page allocator's free ranges
          mm_pte,      \* page address -> mapped frame address, or NoAddr
          mm_tables,   \* frames that are page tables
          mm_lost,     \* frames nobody will free: those of a failed alloc_map
          mm_regions,  \* what the callers hold: [start, count, size, kind, guard]
          mm_op        \* per CPU: the operation between two of its locks

memoryVars == <<mm_frames, mm_pages, mm_pte, mm_tables, mm_lost, mm_regions, mm_op>>

PageAddrs == {a \in VirtFirst..VirtLast : a % PAGE = 0}

Idle == [op |-> "idle", region |-> <<>>]
Busy(op, region) == [op |-> op, region |-> <<region>>]

PagesOf(r) == {r.start + i * PAGE : i \in 0..(r.count * r.size) \div PAGE - 1}

\* The pages map and unmap work on, one S at a time.
Steps(r) == [i \in 1..r.count |-> r.start + (i - 1) * r.size]

\* init: all of RAM, less the frame reserved for the AP trampoline.
MemoryInit ==
    LET ram == Insert(<<>>, NewRange(RamFirst, RamLast), MaxRanges)
        tramp == AllocateReq(ram, PAGE, PAGE, <<NewRange(RamFirst, RamFirst + PAGE)>>, MaxRanges)
    IN  /\ mm_frames = tramp.rs
        /\ mm_tables = {tramp.addr}
        /\ mm_pages = Insert(<<>>, NewRange(VirtFirst, VirtLast), MaxRanges)
        /\ mm_pte = [a \in PageAddrs |-> NoAddr]
        /\ mm_lost = {} /\ mm_regions = {}
        /\ mm_op = [c \in Cpus |-> Idle]

AllocFrame(rs, size) == Allocate(rs, size, size, MaxRanges)

FreeFrame(rs, addr, size) == Insert(rs, NewRange(addr, addr + size - 1), MaxRanges)

\* allocate_pages and allocate_guarded: the latter takes a page before and one after.
TakePages(c, op, count, size, guard) ==
    LET pad == IF guard THEN 2 ELSE 0
        a == Allocate(mm_pages, size * (count + pad), size, MaxRanges)
    IN  /\ mm_op[c] = Idle
        /\ Cardinality(mm_regions) + Cardinality({d \in Cpus : mm_op[d] # Idle}) < MaxRegions
        /\ a.addr # NoAddr
        /\ mm_pages' = a.rs
        /\ mm_op' = [mm_op EXCEPT ![c] = Busy(op,
             [start |-> IF guard THEN a.addr + PAGE ELSE a.addr, count |-> count,
              size |-> size, kind |-> op, guard |-> guard])]
        /\ UNCHANGED <<mm_frames, mm_pte, mm_tables, mm_lost, mm_regions>>

\* The loop over the pages: a frame for each, and perhaps one for a table (the
\* first map decides).  m.failed: no frame, for the page or for its table.
MapLoop(r, table) ==
    LET step(m, page) ==
          LET f == AllocFrame(m.frames, r.size)
              t == IF table /\ page = r.start THEN AllocFrame(f.rs, PAGE)
                   ELSE [addr |-> NoAddr, rs |-> f.rs]
              noTable == table /\ page = r.start /\ t.addr = NoAddr
          IN  CASE m.failed -> m
                [] ~m.failed /\ f.addr = NoAddr -> [m EXCEPT !.failed = TRUE]
                [] ~m.failed /\ f.addr # NoAddr /\ noTable ->
                     [m EXCEPT !.failed = TRUE, !.frames = f.rs, !.lost = @ \union {<<f.addr, r.size>>}]
                [] OTHER ->
                     [m EXCEPT !.frames = t.rs,
                               !.tables = IF t.addr = NoAddr THEN @ ELSE @ \union {t.addr},
                               !.pte = [a \in PageAddrs |-> IF a \in page..page + r.size - 1
                                                            THEN f.addr + (a - page) ELSE @[a]]]
    IN  FoldLeft(step, [frames |-> mm_frames, tables |-> mm_tables, pte |-> mm_pte,
                        lost |-> {}, failed |-> FALSE], Steps(r))

\* alloc_map and guarded stacks: the second half, under the frame allocator's and
\* the page table's locks.  alloc_map returns None when it fails, and what it took
\* and mapped so far stays; the stacks unwrap.
MapFrames(c) ==
    /\ mm_op[c].op \in {"alloc_map", "stack"}
    /\ LET r == mm_op[c].region[1]
       IN  \E table \in BOOLEAN :
             LET m == MapLoop(r, table)
             IN  /\ m.failed => r.kind = "alloc_map"
                 /\ mm_frames' = m.frames /\ mm_pte' = m.pte /\ mm_tables' = m.tables
                 /\ mm_lost' = mm_lost \union m.lost \union
                      (IF m.failed THEN {<<m.pte[a], PAGE>> : a \in {b \in PagesOf(r) : m.pte[b] # NoAddr}}
                                   ELSE {})
                 /\ mm_regions' = IF m.failed THEN mm_regions ELSE mm_regions \union {r}
    /\ mm_op' = [mm_op EXCEPT ![c] = Idle]
    /\ UNCHANGED mm_pages

\* unmap_free: unmaps and frees the frames, then gives the pages back.
UnmapFree(c) ==
    /\ mm_op[c] = Idle
    /\ \E r \in mm_regions :
         /\ r.kind = "alloc_map"
         /\ mm_frames' = FoldLeft(LAMBDA fs, page : FreeFrame(fs, mm_pte[page], r.size), mm_frames, Steps(r))
         /\ mm_pte' = [a \in PageAddrs |-> IF a \in PagesOf(r) THEN NoAddr ELSE mm_pte[a]]
         /\ mm_regions' = mm_regions \ {r}
         /\ mm_op' = [mm_op EXCEPT ![c] = Busy("free_pages", r)]
    /\ UNCHANGED <<mm_pages, mm_tables, mm_lost>>

\* Mutant: the end of the range is taken for exclusive.
FreePagesLong(c) ==
    /\ mm_op[c].op = "free_pages"
    /\ LET r == mm_op[c].region[1]
       IN  mm_pages' = Insert(mm_pages, NewRange(r.start, r.start + r.count * r.size), MaxRanges)
    /\ mm_op' = [mm_op EXCEPT ![c] = Idle]
    /\ UNCHANGED <<mm_frames, mm_pte, mm_tables, mm_lost, mm_regions>>

FreePages(c) ==
    /\ mm_op[c].op = "free_pages"
    /\ LET r == mm_op[c].region[1]
       IN  mm_pages' = Insert(mm_pages, NewRange(r.start, r.start + r.count * r.size - 1), MaxRanges)
    /\ mm_op' = [mm_op EXCEPT ![c] = Idle]
    /\ UNCHANGED <<mm_frames, mm_pte, mm_tables, mm_lost, mm_regions>>

AllocMap(c) == \E n \in 1..2, s \in {PAGE, BIG} : n * s <= BIG /\ TakePages(c, "alloc_map", n, s, FALSE)

AllocateStack(c) == TakePages(c, "stack", 1, PAGE, TRUE)

\* PhysicalMapping: the frames are the device's; the frame after the last byte is
\* mapped too when the length ends on its border.
PhysNew(c) ==
    \E len \in {1, PAGE} :
      LET last == ((DeviceBase + len) \div PAGE) * PAGE
      IN  TakePages(c, "phys", (last - DeviceBase) \div PAGE + 1, PAGE, FALSE)

PhysMap(c) ==
    /\ mm_op[c].op = "phys"
    /\ LET r == mm_op[c].region[1]
       IN  /\ mm_pte' = [a \in PageAddrs |-> IF a \in PagesOf(r) THEN DeviceBase + (a - r.start) ELSE mm_pte[a]]
           /\ mm_regions' = mm_regions \union {r}
    /\ mm_op' = [mm_op EXCEPT ![c] = Idle]
    /\ UNCHANGED <<mm_frames, mm_pages, mm_tables, mm_lost>>

\* drop: unmaps, keeps the frames, then gives the pages back.
PhysDrop(c) ==
    /\ mm_op[c] = Idle
    /\ \E r \in mm_regions :
         /\ r.kind = "phys"
         /\ mm_pte' = [a \in PageAddrs |-> IF a \in PagesOf(r) THEN NoAddr ELSE mm_pte[a]]
         /\ mm_regions' = mm_regions \ {r}
         /\ mm_op' = [mm_op EXCEPT ![c] = Busy("free_pages", r)]
    /\ UNCHANGED <<mm_frames, mm_pages, mm_tables, mm_lost>>

\* AddressSpace::new: a page to write the new level 4 table through, its frame
\* mapped there, filled, unmapped, and the page given back; the frame stays.
NewSpace(c) == TakePages(c, "pml4", 1, PAGE, FALSE)

NewSpaceMap(c) ==
    /\ mm_op[c].op = "pml4"
    /\ LET r == mm_op[c].region[1]
           f == AllocFrame(mm_frames, PAGE)
       IN  /\ f.addr # NoAddr
           /\ mm_frames' = f.rs /\ mm_tables' = mm_tables \union {f.addr}
           /\ mm_pte' = [mm_pte EXCEPT ![r.start] = f.addr]
           /\ mm_op' = [mm_op EXCEPT ![c] = Busy("pml4_fill", r)]
    /\ UNCHANGED <<mm_pages, mm_lost, mm_regions>>

NewSpaceUnmap(c) ==
    /\ mm_op[c].op = "pml4_fill"
    /\ mm_pte' = [mm_pte EXCEPT ![mm_op[c].region[1].start] = NoAddr]
    /\ mm_op' = [mm_op EXCEPT ![c].op = "free_pages"]
    /\ UNCHANGED <<mm_frames, mm_pages, mm_tables, mm_lost, mm_regions>>

MemoryNext ==
    \E c \in Cpus :
      \/ AllocMap(c) \/ AllocateStack(c) \/ MapFrames(c) \/ UnmapFree(c) \/ FreePages(c)
      \/ PhysNew(c) \/ PhysMap(c) \/ PhysDrop(c)
      \/ NewSpace(c) \/ NewSpaceMap(c) \/ NewSpaceUnmap(c)

---------------------------------------------------------------------------
\* Pages some operation or caller holds.
HeldPages ==
    UNION ({PagesOf(r) : r \in mm_regions} \union
           {PagesOf(mm_op[c].region[1]) : c \in {d \in Cpus : mm_op[d] # Idle}})

Mapped == {a \in PageAddrs : mm_pte[a] # NoAddr}

\* A page the page allocator may hand out is mapped nowhere and held by nobody, at
\* any point between the locks of the operations; the guard pages of a stack are
\* never mapped and never handed out.
FreePagesAreUnmapped ==
    /\ Addrs(mm_pages) \intersect (Mapped \union HeldPages) = {}
    /\ \A r \in mm_regions : r.guard =>
         \A g \in {r.start - PAGE, r.start + PAGE * r.count} :
           g \notin Mapped /\ g \notin Addrs(mm_pages) /\ g \notin HeldPages

\* A frame is free, a table, or behind one page: the frame allocator never hands out
\* a frame that is in use, and none of RAM is missing but those of failed alloc_maps.
FramesInOnePlace ==
    LET behind == {mm_pte[a] : a \in Mapped} \intersect (RamFirst..RamLast)
        lost == UNION {l[1]..l[1] + l[2] - 1 : l \in mm_lost}
        whole(fs) == UNION {f..f + PAGE - 1 : f \in fs}
    IN  /\ Addrs(mm_frames) \intersect whole(behind \union mm_tables) = {}
        /\ \A a, b \in Mapped : a # b => mm_pte[a] # mm_pte[b] \/ mm_pte[a] >= DeviceBase
        /\ Addrs(mm_frames) \union whole(behind \union mm_tables) \union lost = RamFirst..RamLast

\* The free ranges stay merged: no two overlap or touch, however they were freed.
RangesAreCanonical == Canonical(mm_frames) /\ Canonical(mm_pages)

MemoryIsSound == FreePagesAreUnmapped /\ FramesInOnePlace /\ RangesAreCanonical
=================================================================================

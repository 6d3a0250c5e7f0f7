-------------------------------- MODULE BootMemory --------------------------------
(***************************************************************************)
(* The bootloader's memory: frames taken from the firmware's memory map, the    *)
(* kernel image mapped from where the firmware loaded it, relocated and         *)
(* protected, the other mappings of the kernel, and the memory map handed to    *)
(* it.  Memory is counted in words, PAGE_UNITS of them to a frame; a word of    *)
(* the image is known by its offset.  Every failure is a panic.                 *)
(***************************************************************************)
EXTENDS Integers, Sequences, FiniteSets, FiniteSetsExt, SequencesExt

CONSTANTS PAGE_UNITS,
          Kernels,          \* [segs, relas]: program headers and relocations
          MemoryMaps,       \* sequences of [first, count, type], in frames
          LowestFrame,      \* the first MiB is left alone
          ImageFrame,       \* where the image was loaded
          KernelPage,       \* KERNEL_IMAGE_BASE
          StackPage, StackPages, RamdiskPage, RamdiskFrame, RamdiskWords

VARIABLES bm_kernel, bm_map, bm_stage, bm_pc,
          bm,               \* page table, memory, allocator: [pt, mem, entry, next, got, given, ok]
          bm_regions        \* the memory map for the kernel
bmVars == <<bm_kernel, bm_map, bm_stage, bm_pc, bm, bm_regions>>

ImageWord(o) == [is |-> "image", at |-> o]
Zeroed == [is |-> "zero", at |-> 0]
Relocation(a) == [is |-> "pointer", at |-> a]

FrameWords(m, f) == IF f \in DOMAIN m.mem THEN m.mem[f]
                    ELSE [k \in 0..PAGE_UNITS - 1 |-> ImageWord((f - ImageFrame) * PAGE_UNITS + k)]

Fails(m) == [m EXCEPT !.ok = FALSE]

---------------------------------------------------------------------------
\* EarlyFrameAllocator: linear, through the conventional entries from the current one on.
LastFrame(d) == d.first + d.count - 1
MaxOf(a, b) == IF a > b THEN a ELSE b

Serving(m) ==
    {i \in m.entry..Len(bm_map) : bm_map[i].type = "conventional" /\ m.next <= LastFrame(bm_map[i])}

\* Mutant: the next frame is the one that was just given.
TakeFromAgain(m, i) ==
    LET f == MaxOf(m.next, bm_map[i].first)
    IN  [m EXCEPT !.entry = i, !.next = f, !.got = f, !.given = @ \union {f}]

TakeFrom(m, i) ==
    LET f == MaxOf(m.next, bm_map[i].first)
    IN  [m EXCEPT !.entry = i, !.next = f + 1, !.got = f, !.given = @ \union {f}]

TakeFrame(m) == IF Serving(m) = {} THEN Fails(m) ELSE TakeFrom(m, Min(Serving(m)))

\* Entering a page in the kernel's table; the first one also takes a frame for the table.
Enter(m, page, frame, flags) ==
    IF page \in DOMAIN m.pt THEN Fails(m)
    ELSE [m EXCEPT !.pt = [p \in DOMAIN @ \union {page} |-> IF p = page THEN [frame |-> frame, flags |-> flags] ELSE @[p]]]

MapPage(m, page, frame, flags) ==
    IF ~m.ok THEN m
    ELSE IF DOMAIN m.pt = {} THEN Enter(TakeFrame(m), page, frame, flags)
    ELSE Enter(m, page, frame, flags)

MapRun(m, page, frame, n, flags) ==
    FoldLeft(LAMBDA s, k : MapPage(s, page + k, frame + k, flags), m, [k \in 1..n |-> k - 1])

\* Mapping fresh frames.
MapFresh(m, pages, flags, words) ==
    FoldLeft(LAMBDA s, p : LET t == TakeFrame(s) IN
                             IF ~s.ok \/ ~t.ok THEN Fails(s)
                             ELSE MapPage([t EXCEPT !.mem = [f \in DOMAIN @ \union {t.got} |->
                                                               IF f = t.got THEN words ELSE @[f]]],
                                          p, t.got, flags),
             m, SetToSortSeq(pages, <))

---------------------------------------------------------------------------
\* The image is linked at its lowest LOAD address.
LoadSegs == {i \in DOMAIN bm_kernel.segs : bm_kernel.segs[i].type = "Load"}
Vao == KernelPage * PAGE_UNITS - Min({bm_kernel.segs[i].vaddr : i \in LoadSegs})
Addr(v) == Vao + v
PageAt(a) == a \div PAGE_UNITS
PagesIn(a, n) == PageAt(a)..PageAt(a + n - 1)

KernelFlags(s) == {"g"} \union (IF s.write THEN {"w"} ELSE {}) \union (IF s.exec THEN {"x"} ELSE {})

\* A page of the image is copied before it is written, and marked with bit 9.
OwnPage(m, page) ==
    LET t == TakeFrame(m) IN
    IF page \notin DOMAIN m.pt THEN Fails(m)
    ELSE IF "bit9" \in m.pt[page].flags THEN m
    ELSE IF ~t.ok THEN t
    ELSE [t EXCEPT !.mem = [f \in DOMAIN @ \union {t.got} |->
                               IF f = t.got THEN FrameWords(m, m.pt[page].frame) ELSE @[f]],
                   !.pt[page] = [frame |-> t.got, flags |-> m.pt[page].flags \union {"bit9"}]]

Overwrite(m, page, words) ==
    IF ~m.ok THEN m
    ELSE [m EXCEPT !.mem[m.pt[page].frame] = [k \in DOMAIN @ |-> IF k \in DOMAIN words THEN words[k] ELSE @[k]]]

\* zero_bss: the rest of the last page with data, then whole pages.
ZeroTail(m, start) ==
    IF ~m.ok \/ start % PAGE_UNITS = 0 THEN m
    ELSE Overwrite(OwnPage(m, PageAt(start)), PageAt(start), [k \in start % PAGE_UNITS..PAGE_UNITS - 1 |-> Zeroed])

ZeroBss(m, s) ==
    MapFresh(ZeroTail(m, Addr(s.vaddr) + s.file),
             PageAt(Addr(s.vaddr) + s.file + PAGE_UNITS - 1)..PageAt(Addr(s.vaddr) + s.mem - 1),
             KernelFlags(s), [k \in 0..PAGE_UNITS - 1 |-> Zeroed])

HandleSegmentLoad(m, s) ==
    LET frames == PageAt(s.off + s.file - 1) - PageAt(s.off) + 1
        mapped == MapRun(m, PageAt(Addr(s.vaddr)), ImageFrame + PageAt(s.off), frames, KernelFlags(s))
    IN  IF s.mem > s.file THEN ZeroBss(mapped, s) ELSE mapped

\* copy_to_krnlspc of a relocated word, whose address some LOAD segment must hold.
Relocate(m, r) ==
    LET page == PageAt(Addr(r.offset))
        held == \E i \in LoadSegs : r.offset \in bm_kernel.segs[i].vaddr..bm_kernel.segs[i].vaddr + bm_kernel.segs[i].mem - 1
    IN  IF ~m.ok \/ ~r.relative \/ ~held THEN Fails(m)
        ELSE Overwrite(OwnPage(m, page), page, [k \in {Addr(r.offset) % PAGE_UNITS} |-> Relocation(Addr(r.addend))])

\* update_flags of the pages in the domain of `flags`.
Reflagged(m, flags) ==
    [m EXCEPT !.pt = [p \in DOMAIN @ |-> IF p \in DOMAIN flags THEN [@[p] EXCEPT !.flags = flags[p]] ELSE @[p]]]

HandleGnuRelro(m, s) ==
    LET pages == PagesIn(Addr(s.vaddr), s.mem)
    IN  IF pages \subseteq DOMAIN m.pt THEN Reflagged(m, [p \in pages |-> m.pt[p].flags \ {"w"}]) ELSE Fails(m)

\* Bit 9 is looked up in the last page of the segment, and every page given that page's flags.
DropBit9(m, s) ==
    LET last == PageAt(Addr(s.vaddr) + s.mem - 1)
        pages == PagesIn(Addr(s.vaddr), s.mem)
    IN  IF last \notin DOMAIN m.pt THEN Fails(m)
        ELSE IF "bit9" \notin m.pt[last].flags THEN m
        ELSE IF pages \subseteq DOMAIN m.pt THEN Reflagged(m, [p \in pages |-> m.pt[last].flags \ {"bit9"}])
        ELSE Fails(m)

---------------------------------------------------------------------------
NoMapping == 0 - 1

BmInit ==
    /\ bm_kernel \in Kernels /\ bm_map \in MemoryMaps
    /\ bm_stage = "load" /\ bm_pc = 1 /\ bm_regions = <<>>
    /\ bm = [pt |-> <<>>, mem |-> <<>>, entry |-> 1, next |-> LowestFrame, got |-> NoMapping, given |-> {}, ok |-> TRUE]

\* A pass over the program headers; the next stage after the last.
Pass(stage, after, Step(_, _)) ==
    /\ bm_stage = stage
    /\ IF bm_pc > Len(bm_kernel.segs)
         THEN bm' = bm /\ bm_pc' = 1 /\ bm_stage' = after
         ELSE /\ bm' = Step(bm, bm_kernel.segs[bm_pc])
              /\ bm_pc' = bm_pc + 1
              /\ bm_stage' = IF bm'.ok THEN stage ELSE "panic"
    /\ UNCHANGED <<bm_kernel, bm_map, bm_regions>>

LoadStep(m, s) ==
    CASE s.type = "Load" -> HandleSegmentLoad(m, s) [] s.type = "Interp" -> Fails(m) [] OTHER -> m

DynamicStep(m, s) == IF s.type = "Dynamic" THEN FoldLeft(Relocate, m, bm_kernel.relas) ELSE m
RelroStep(m, s) == IF s.type = "GnuRelro" THEN HandleGnuRelro(m, s) ELSE m
Bit9Step(m, s) == IF s.type = "Load" THEN DropBit9(m, s) ELSE m

BmLoad == Pass("load", "dynamic", LoadStep)
BmDynamic == Pass("dynamic", "relro", DynamicStep)
BmRelro == Pass("relro", "bit9", RelroStep)
BmBit9 == Pass("bit9", "mappings", Bit9Step)

\* The rest of make_mappings: the ramdisk, one frame past its end included, then a stack
\* above a guard page.
RestOfMappings(m) ==
    MapFresh(MapRun(m, RamdiskPage, RamdiskFrame, RamdiskWords \div PAGE_UNITS + 1, {"g"}),
             StackPage + 1..StackPage + StackPages, {"w"}, [k \in 0..PAGE_UNITS - 1 |-> Zeroed])

BmMappings ==
    /\ bm_stage = "mappings"
    /\ bm' = RestOfMappings(bm)
    /\ bm_stage' = IF bm'.ok THEN "hand_over" ELSE "panic"
    /\ UNCHANGED <<bm_kernel, bm_map, bm_pc, bm_regions>>

---------------------------------------------------------------------------
UsableAfterExit == {"conventional", "loader_code", "boot_services"}

\* split_region: what lies before and after the frames taken, both ends inclusive.
Extent(first, last) == [first |-> first, last |-> last]

SplitRegion(r, low, high) ==
    LET from == MaxOf(r.first, low)
        to == IF r.last < high THEN r.last ELSE high
    IN  IF from < to
        THEN SelectSeq(<<Extent(r.first, from - 1), Extent(to + 1, r.last)>>,
                       LAMBDA p : IF p.first = r.first THEN r.first < from - 1 ELSE to + 1 < r.last)
        ELSE <<r>>

RegionOf(d) == Extent(d.first * PAGE_UNITS, (d.first + d.count) * PAGE_UNITS - 1)

HandedOver ==
    FoldLeft(LAMBDA rs, d : IF d.type \in UsableAfterExit
                            THEN rs \o SplitRegion(RegionOf(d), LowestFrame * PAGE_UNITS, bm.next * PAGE_UNITS)
                            ELSE rs,
             <<>>, bm_map)

\* construct_memory_map: the array has room for two regions more than the firmware's map.
BmHandOver ==
    /\ bm_stage = "hand_over"
    /\ bm_regions' = SelectSeq(HandedOver, LAMBDA r : r.first # r.last)
    /\ bm_stage' = IF Len(bm_regions') <= Len(bm_map) + 2 THEN "done" ELSE "panic"
    /\ UNCHANGED <<bm_kernel, bm_map, bm_pc, bm>>

BmNext == BmLoad \/ BmDynamic \/ BmRelro \/ BmBit9 \/ BmMappings \/ BmHandOver

---------------------------------------------------------------------------
TranslateVirt(a) == FrameWords(bm, bm.pt[PageAt(a)].frame)[a % PAGE_UNITS]

Intended(v, s) ==
    LET hits == {k \in DOMAIN bm_kernel.relas : bm_kernel.relas[k].offset = v}
        dynamic == \E i \in DOMAIN bm_kernel.segs : bm_kernel.segs[i].type = "Dynamic"
    IN  IF dynamic /\ hits # {} THEN Relocation(Addr(bm_kernel.relas[Max(hits)].addend))
        ELSE IF v < s.vaddr + s.file THEN ImageWord(s.off + (v - s.vaddr)) ELSE Zeroed

Overlaps(r, f) == r.first <= (f + 1) * PAGE_UNITS - 1 /\ f * PAGE_UNITS <= r.last

\* A frame is given only if it is conventional memory above the first MiB.  The kernel starts
\* with its image as linked, zeroed and relocated, no page of it more open than its segment,
\* nothing mapped under its stack, and a memory map that holds no frame already given and
\* stays inside the usable entries.
BootMemoryIsSound ==
    /\ \A f \in bm.given : f >= LowestFrame /\ \E i \in DOMAIN bm_map :
          bm_map[i].type = "conventional" /\ f \in bm_map[i].first..LastFrame(bm_map[i])
    /\ bm_stage \in {"mappings", "hand_over", "done"} =>
         \A i \in LoadSegs : LET s == bm_kernel.segs[i] IN
           /\ \A v \in s.vaddr..s.vaddr + s.mem - 1 : TranslateVirt(Addr(v)) = Intended(v, s)
           /\ \A p \in PagesIn(Addr(s.vaddr), s.mem) : bm.pt[p].flags \ {"bit9"} \subseteq KernelFlags(s)
    /\ bm_stage = "done" =>
         /\ StackPage \notin DOMAIN bm.pt
         /\ \A k \in DOMAIN bm_regions :
              /\ \A f \in bm.given : ~Overlaps(bm_regions[k], f)
              /\ \E i \in DOMAIN bm_map : LET u == RegionOf(bm_map[i]) IN
                   bm_map[i].type \in UsableAfterExit /\ u.first <= bm_regions[k].first /\ bm_regions[k].last <= u.last

\* What is read-only after relocation is read-only when the kernel starts.
RelroStaysReadOnly ==
    bm_stage = "done" =>
      \A i \in DOMAIN bm_kernel.segs : bm_kernel.segs[i].type = "GnuRelro" =>
        \A p \in PagesIn(Addr(bm_kernel.segs[i].vaddr), bm_kernel.segs[i].mem) : "w" \notin bm.pt[p].flags
====================================================================================

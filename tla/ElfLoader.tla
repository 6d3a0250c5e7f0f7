--------------------------------- MODULE ElfLoader ---------------------------------
(***************************************************************************)
(* Loading a user program: ElfLoader::load over the kernel's memory mapper.     *)
(* The unit of memory is a machine word, PAGE_WORDS of them to a page; a word   *)
(* of the file is known by its offset.  The kernel runs with write protection   *)
(* on, so a store to a page that is not writable, or not mapped, faults.        *)
(***************************************************************************)
EXTENDS Integers, Sequences, FiniteSets, FiniteSetsExt, SequencesExt

CONSTANTS PAGE_WORDS, MAX_LOAD_SEGMENTS,
          Binaries,       \* [valid, entry, size, segs, dyn]
          RegionPage,     \* first page the page allocator gives
          FrameBudgets    \* free frames before the load

VARIABLES elf_bin, elf_stage, elf_pc,
          elf_pages,      \* flags of the mapped pages
          elf_mem,        \* contents of the mapped words
          elf_frames,     \* free, in page tables, lost, and free at the start
          elf_taken,      \* pages taken from the page allocator
          elf_tls
elfVars == <<elf_bin, elf_stage, elf_pc, elf_pages, elf_mem, elf_frames, elf_taken, elf_tls>>

FileWord(o) == [is |-> "file", at |-> o]
ZeroWord == [is |-> "zero", at |-> 0]
Pointer(a) == [is |-> "pointer", at |-> a]
StaleWord == [is |-> "stale", at |-> 0]

NoTls == [start |-> 0, file |-> 0, mem |-> 0, some |-> FALSE]

PageOf(a) == a \div PAGE_WORDS
SegmentPages(a, n) == IF n = 0 THEN {} ELSE PageOf(a)..PageOf(a + n - 1)

Segs(types) == {i \in DOMAIN elf_bin.segs : elf_bin.segs[i].type \in types}

\* calculate_address_range: LOAD and TLS segments, widened to whole pages.
RangeFirst == Min({PageOf(elf_bin.segs[i].vaddr) : i \in Segs({"Load", "Tls"})})
RangeLast ==
    Max({PageOf(elf_bin.segs[i].vaddr + elf_bin.segs[i].mem + PAGE_WORDS - 1) - 1 : i \in Segs({"Load", "Tls"})})
MinVaddr == RangeFirst * PAGE_WORDS
RegionAddr == RegionPage * PAGE_WORDS
Dest(vaddr) == RegionAddr + (vaddr - MinVaddr)

---------------------------------------------------------------------------
Writable(words) == \A a \in words : PageOf(a) \in DOMAIN elf_pages /\ "w" \in elf_pages[PageOf(a)]

Keep == UNCHANGED <<elf_bin, elf_frames, elf_taken>>

\* Every page of the region is unmapped, its frame and its address given back.
ReleaseRegion ==
    /\ elf_pages' = <<>> /\ elf_mem' = <<>> /\ elf_taken' = {}
    /\ elf_frames' = [elf_frames EXCEPT !.free = @ + Cardinality(DOMAIN elf_pages)]

\* An error of load_segments: unmap_region, which leaves nothing for rollback to do.
Abandon ==
    /\ elf_stage' = "failed"
    /\ ReleaseRegion
    /\ UNCHANGED <<elf_bin, elf_pc, elf_tls>>

Fault ==
    /\ elf_stage' = "fault"
    /\ Keep /\ UNCHANGED <<elf_pc, elf_pages, elf_mem, elf_tls>>

NextSegment(pages, mem, tls) ==
    /\ elf_pages' = pages /\ elf_mem' = mem /\ elf_tls' = tls
    /\ elf_pc' = elf_pc + 1
    /\ elf_stage' = elf_stage
    /\ Keep

\* Mutant: what the file does not cover is not zeroed.
StoredNoZero(s) ==
    [a \in DOMAIN elf_mem |->
        IF a \in Dest(s.vaddr)..Dest(s.vaddr) + s.file - 1 THEN FileWord(s.off + (a - Dest(s.vaddr)))
        ELSE elf_mem[a]]

\* copy_data and zero_region of a segment.
Stored(s) ==
    [a \in DOMAIN elf_mem |->
        CASE a \in Dest(s.vaddr)..Dest(s.vaddr) + s.file - 1 -> FileWord(s.off + (a - Dest(s.vaddr)))
          [] a \in Dest(s.vaddr) + s.file..Dest(s.vaddr) + s.mem - 1 -> ZeroWord
          [] OTHER -> elf_mem[a]]

\* update_flags of a region: an unmapped page is an error.
Reflag(pages, flags) == [p \in DOMAIN elf_pages |-> IF p \in pages THEN flags ELSE elf_pages[p]]

SegmentFlags(s) == (IF s.write THEN {"w"} ELSE {}) \union (IF s.exec THEN {"x"} ELSE {})

FileHolds(s) == s.file = 0 \/ s.off + s.file <= elf_bin.size

LoadSegment(s) ==
    IF s.mem < s.file \/ ~FileHolds(s) THEN Abandon
    ELSE IF ~Writable(Dest(s.vaddr)..Dest(s.vaddr) + s.mem - 1) THEN Fault
    ELSE NextSegment(Reflag(SegmentPages(Dest(s.vaddr), s.mem), SegmentFlags(s)), Stored(s), elf_tls)

TemplateOf(s) == [start |-> Dest(s.vaddr), file |-> s.file, mem |-> s.mem, some |-> TRUE]

\* A template without initialised data is left as it is.
LoadTlsSegment(s) ==
    IF s.file = 0 THEN NextSegment(elf_pages, elf_mem, TemplateOf(s))
    ELSE IF s.mem < s.file \/ ~FileHolds(s) THEN Abandon
    ELSE IF ~Writable(Dest(s.vaddr)..Dest(s.vaddr) + s.mem - 1) THEN Fault
    ELSE NextSegment(elf_pages, Stored(s), TemplateOf(s))

---------------------------------------------------------------------------
\* vaddr_to_file_offset: the first LOAD segment whose file part holds the address.
HoldsVaddr(v) ==
    {i \in Segs({"Load"}) : v \in elf_bin.segs[i].vaddr..elf_bin.segs[i].vaddr + elf_bin.segs[i].file - 1}

FileOffset(v) == LET s == elf_bin.segs[Min(HoldsVaddr(v))] IN s.off + (v - s.vaddr)

InLoad(v) ==
    \E i \in Segs({"Load"}) : v \in elf_bin.segs[i].vaddr..elf_bin.segs[i].vaddr + elf_bin.segs[i].mem - 1

\* The dynamic section: no RELA table, or one whose size and entry size must be given.
TableIsValid(d) ==
    /\ d.sized /\ d.entsize_ok
    /\ HoldsVaddr(d.rela) # {}
    /\ FileOffset(d.rela) + d.relasz <= elf_bin.size
    /\ Cardinality(Segs({"Load"})) <= MAX_LOAD_SEGMENTS

Relocations(d) == SelectSeq(d.relas, LAMBDA r : r.relative)

\* Entries are applied in order up to the first whose target is in no LOAD segment.
Relocated(mem, relas) ==
    FoldLeft(LAMBDA m, r : [m EXCEPT ![Dest(r.offset)] = Pointer(RegionAddr + r.addend)], mem, relas)

ProcessRelocations(d) ==
    LET relas == Relocations(d)
        bad == {k \in DOMAIN relas : ~InLoad(relas[k].offset)}
        done == IF bad = {} THEN relas ELSE SubSeq(relas, 1, Min(bad) - 1)
    IN  IF ~d.has_rela THEN NextSegment(elf_pages, elf_mem, elf_tls)
        ELSE IF ~TableIsValid(d) THEN Abandon
        ELSE IF ~Writable({Dest(done[k].offset) : k \in DOMAIN done}) THEN Fault
        ELSE IF bad # {} THEN Abandon
        ELSE NextSegment(elf_pages, Relocated(elf_mem, relas), elf_tls)

ProcessGnuRelro(s) ==
    IF s.vaddr < MinVaddr THEN Fault
    ELSE IF SegmentPages(Dest(s.vaddr), s.mem) \subseteq DOMAIN elf_pages
    THEN NextSegment(Reflag(SegmentPages(Dest(s.vaddr), s.mem), {}), elf_mem, elf_tls)
    ELSE Abandon

---------------------------------------------------------------------------
ElfInit ==
    /\ elf_bin \in Binaries /\ elf_stage = "new" /\ elf_pc = 1
    /\ elf_pages = <<>> /\ elf_mem = <<>> /\ elf_taken = {} /\ elf_tls = NoTls
    /\ \E n \in FrameBudgets : elf_frames = [free |-> n, tables |-> 0, lost |-> 0, start |-> n]

\* sanity_check and calculate_address_range.
ElfCheck ==
    /\ elf_stage = "new"
    /\ elf_stage' = IF elf_bin.valid /\ Segs({"Load", "Tls"}) # {} THEN "checked" ELSE "failed"
    /\ Keep /\ UNCHANGED <<elf_pc, elf_pages, elf_mem, elf_tls>>

\* map_region: pages from the allocator, then a frame for each; the first mapping also takes
\* a frame for a page table.  What was mapped before frames ran out is released, but the
\* frame whose mapping failed is not.
ElfMap ==
    LET n == RangeLast - RangeFirst + 1
        pages == RegionPage..RegionPage + n - 1
        short == elf_frames.free < n + 1
    IN
    /\ elf_stage = "checked"
    /\ \/ /\ elf_stage' = "failed"
          /\ UNCHANGED <<elf_bin, elf_pages, elf_mem, elf_frames, elf_taken>>
       \/ /\ short
          /\ elf_stage' = "failed"
          /\ elf_frames' = IF elf_frames.free = 0 THEN elf_frames
                           ELSE IF elf_frames.free = 1 THEN [elf_frames EXCEPT !.free = 0, !.lost = 1]
                           ELSE [elf_frames EXCEPT !.free = @ - 1, !.tables = 1]
          /\ UNCHANGED <<elf_bin, elf_pages, elf_mem, elf_taken>>
       \/ /\ ~short
          /\ elf_stage' = "mapped"
          /\ elf_pages' = [p \in pages |-> {"w"}]
          /\ elf_mem' = [a \in RegionAddr..RegionAddr + n * PAGE_WORDS - 1 |-> StaleWord]
          /\ elf_frames' = [elf_frames EXCEPT !.free = @ - (n + 1), !.tables = 1]
          /\ elf_taken' = pages
          /\ UNCHANGED elf_bin
    /\ UNCHANGED <<elf_pc, elf_tls>>

\* load_segments: one program header.
ElfSegment ==
    /\ elf_stage = "mapped" /\ elf_pc <= Len(elf_bin.segs)
    /\ LET s == elf_bin.segs[elf_pc] IN
       CASE s.type = "Load" -> LoadSegment(s)
         [] s.type = "Tls" -> LoadTlsSegment(s)
         [] s.type = "Dynamic" -> ProcessRelocations(elf_bin.dyn)
         [] s.type = "GnuRelro" -> ProcessGnuRelro(s)
         [] s.type = "Interp" -> Abandon
         [] OTHER -> NextSegment(elf_pages, elf_mem, elf_tls)

ElfFinish ==
    /\ elf_stage = "mapped" /\ elf_pc > Len(elf_bin.segs)
    /\ elf_stage' = "loaded"
    /\ Keep /\ UNCHANGED <<elf_pc, elf_pages, elf_mem, elf_tls>>

ElfNext == ElfCheck \/ ElfMap \/ ElfSegment \/ ElfFinish

---------------------------------------------------------------------------
SegPages(i) == SegmentPages(elf_bin.segs[i].vaddr, elf_bin.segs[i].mem)

\* What linkers produce: no two LOAD segments share a page.
Separate == \A i, j \in Segs({"Load"}) : i # j => SegPages(i) \intersect SegPages(j) = {}

Relas == IF elf_bin.dyn.has_rela /\ Segs({"Dynamic"}) # {} THEN Relocations(elf_bin.dyn) ELSE <<>>

\* The word a linked address must hold once the program is loaded.
Promised(v, s) ==
    LET hits == {k \in DOMAIN Relas : Relas[k].offset = v}
    IN  IF hits # {} THEN Pointer(RegionAddr + Relas[Max(hits)].addend)
        ELSE IF v < s.vaddr + s.file THEN FileWord(s.off + (v - s.vaddr)) ELSE ZeroWord

\* A load that fails gives back every page and every frame but those of page tables and the
\* one whose mapping failed; a program whose segments share no page is loaded whole: every
\* word of it from the file, zero or relocated, read-only what GNU_RELRO asks, no page
\* more open than its segment.
ElfLoadIsSound ==
    /\ elf_stage = "failed" =>
         /\ elf_taken = {} /\ DOMAIN elf_pages = {}
         /\ elf_frames.free + elf_frames.tables + elf_frames.lost = elf_frames.start
    /\ elf_stage = "loaded" /\ Separate =>
         /\ \A i \in Segs({"Load"}) : LET s == elf_bin.segs[i] IN
              /\ \A v \in s.vaddr..s.vaddr + s.mem - 1 : elf_mem[Dest(v)] = Promised(v, s)
              /\ \A p \in SegmentPages(Dest(s.vaddr), s.mem) : elf_pages[p] \subseteq SegmentFlags(s)
         /\ \A i \in Segs({"GnuRelro"}) : \A p \in SegmentPages(Dest(elf_bin.segs[i].vaddr), elf_bin.segs[i].mem) :
              "w" \notin elf_pages[p]
         /\ Segs({"Tls"}) # {} => elf_tls.some
====================================================================================

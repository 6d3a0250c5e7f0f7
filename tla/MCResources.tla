----------------------------- MODULE MCResources -----------------------------
(***************************************************************************)
(* What the kernel and its loader hand out and take back: the heap, page       *)
(* tables, frames and pages, clusters and directory entries, file handles, and *)
(* the memory of loaded images.  The components share no state, so a behaviour *)
(* is about one of them, its subject; the variables of the others are parked.  *)
(***************************************************************************)
EXTENDS Heap, PageTable, Memory, FatDir, FatDirent, FatBoot, Vfs, ElfLoader, BootMemory, TLC

CONSTANTS Subjects, t1, t2, t3, p1, p2

VARIABLE subject

resourceVars == <<subject, heapVars, ptVars, memoryVars, fatDirVars, direntVars, bootVars, vfsVars,
                  elfVars, bmVars>>

Park1(a) == a = 0
Park2(a, b) == a = 0 /\ b = 0
Park4(a, b, c, d) == Park2(a, b) /\ Park2(c, d)

ResourcesInit ==
    /\ subject \in Subjects
    /\ IF subject = "heap" THEN HeapInit
       ELSE Park4(slabs, buddy_start, buddy_size, max_order) /\ Park2(free_lists, live)
    /\ IF subject = "paging" THEN PtInit ELSE Park4(pt_mem, pt_free, pt_kind, pt_map)
    /\ IF subject = "memory" THEN MemoryInit
       ELSE /\ Park4(mm_frames, mm_pages, mm_pte, mm_tables)
            /\ Park2(mm_lost, mm_regions) /\ Park1(mm_op)
    /\ CASE subject = "fat" -> FatInit /\ Park2(dir, slots) /\ Park1(changes)
         [] subject = "directory" -> FatDirInit /\ fat_type = 12
         [] OTHER -> /\ Park4(fat_type, fat, file, disk) /\ Park4(contents, dir, slots, changes)
    /\ IF subject = "dirent" THEN DirentInit ELSE Park2(dirent, asked)
    /\ IF subject = "format" THEN BootInit ELSE Park2(boot, builder_calls) /\ Park1(configured)
    /\ IF subject = "vfs" THEN VfsInit
       ELSE /\ Park4(mounts, ram, open_handles, handle_counter)
            /\ Park4(call, dev_opens, held, dead) /\ Park1(vfs_panicked)
    /\ IF subject = "elf" THEN ElfInit
       ELSE Park4(elf_bin, elf_stage, elf_pc, elf_pages) /\ Park4(elf_mem, elf_frames, elf_taken, elf_tls)
    /\ IF subject = "kernel" THEN BmInit
       ELSE Park4(bm_kernel, bm_map, bm_stage, bm_pc) /\ Park2(bm, bm_regions)

\* A step of the subject s.
Alone(s) ==
    /\ subject = s /\ UNCHANGED subject
    /\ IF s = "heap" THEN TRUE ELSE UNCHANGED heapVars
    /\ IF s = "paging" THEN TRUE ELSE UNCHANGED ptVars
    /\ IF s = "memory" THEN TRUE ELSE UNCHANGED memoryVars
    /\ IF s \in {"fat", "directory"} THEN TRUE ELSE UNCHANGED fatVars
    /\ IF s = "directory" THEN TRUE ELSE UNCHANGED dirVars
    /\ IF s = "dirent" THEN TRUE ELSE UNCHANGED direntVars
    /\ IF s = "format" THEN TRUE ELSE UNCHANGED bootVars
    /\ IF s = "vfs" THEN TRUE ELSE UNCHANGED vfsVars
    /\ IF s = "elf" THEN TRUE ELSE UNCHANGED elfVars
    /\ IF s = "kernel" THEN TRUE ELSE UNCHANGED bmVars

ResourcesNext ==
    \/ Alone("heap") /\ HeapNext
    \/ Alone("paging") /\ PtNext
    \/ Alone("memory") /\ MemoryNext
    \/ Alone("fat") /\ FatNext
    \/ Alone("directory") /\ FatDirNext
    \/ Alone("dirent") /\ DirentNext
    \/ Alone("format") /\ BootNext
    \/ Alone("vfs") /\ VfsNext
    \/ Alone("elf") /\ ElfNext
    \/ Alone("kernel") /\ BmNext

ResourcesSpec == ResourcesInit /\ [][ResourcesNext]_resourceVars

EitherCpu == Permutations(Cpus)

-----------------------------------------------------------------------------
\* The kernel heap hands out disjoint, aligned blocks, and its free lists and slabs
\* account for the rest of it exactly (heaperion's buddy, slab and hybrid allocators).
HeapOwnsEachByteOnce == subject = "heap" => HeapIsSound

\* What was mapped and not unmapped is what the four-level walk finds, and nothing else
\* (map, unmap, update_flags and translate of the two kinds of page table).
WalkFindsWhatWasMapped == subject = "paging" => PageTableIsSound

\* Frames and pages are in use by one owner or free, also while two CPUs interleave
\* inside alloc_map, PhysicalMapping and their undoing.
FramesHaveOneOwner == subject = "memory" => MemoryIsSound

\* A FAT volume stays consistent: chains and the file's position agree with what was
\* written (FatIsSound), directory entries can be found where they were put
\* (DirectoryIsSound), the fields of an entry decode to what was set
\* (DirentKeepsWhatWasSet), and a boot sector that validates describes a volume that
\* fits its own tables (ConfiguredVolumeIsSound).
FatVolumeIsSound ==
    /\ subject = "fat" => FatIsSound
    /\ subject = "directory" => DirectoryIsSound
    /\ subject = "dirent" => DirentKeepsWhatWasSet
    /\ subject = "format" => ConfiguredVolumeIsSound

\* Open handles name files of mounted file systems and belong to a live process, and
\* every device file is held by as many handles as it was opened for.
HandlesAreAccounted == subject = "vfs" => VfsIsSound

\* A loaded program (ElfLoadIsSound) and the kernel image, stack and memory map the boot
\* loader hands over (BootMemoryIsSound) hold what the file says, in frames nobody else
\* was given.
ImagesAreLoaded ==
    /\ subject = "elf" => ElfLoadIsSound
    /\ subject = "kernel" => BootMemoryIsSound

\* "Closes all files opened by the given process ID." (vfs.rs:216): once the drop of a
\* process has called close_all_from_process, no handle of it is in the table.
ExitClosesFiles == subject = "vfs" => DropClosesAll

-----------------------------------------------------------------------------
\* The instance.  Heap: a layout per path (slab, buddy, split, over-aligned, empty).
SmallLayouts ==
    {[size |-> 1, align |-> 1], [size |-> 2, align |-> 2], [size |-> 1, align |-> 4],
     [size |-> 5, align |-> 4], [size |-> 0, align |-> 1]}
TwoSlabs == <<1, 2>>

\* Page tables: a huge, a large and three small pages that share tables with them.
SharedPages == {<<0, 0>>, <<0, 0, 0>>, <<0, 0, 0, 0>>, <<0, 0, 1, 0>>, <<0, 0, 1, 1>>}

\* Directories: empty, one entry, a hole, two clusters full, long names with and without
\* the entry that ends them.
Directories ==
    {<<>>, <<ShortEntry(1)>>, <<ShortEntry(1), DeletedEntry, ShortEntry(2)>>,
     <<ShortEntry(1), ShortEntry(2), ShortEntry(3), ShortEntry(4)>>,
     <<DeletedEntry, LongEntry(1, TRUE), ShortEntry(3)>>, <<LongEntry(1, FALSE), ShortEntry(3)>>}
EdgeDates == {[year |-> 1980, month |-> 1, day |-> 1], [year |-> 2107, month |-> 12, day |-> 31]}
EdgeTimes == {[hour |-> 0, min |-> 0, sec |-> 0, ms |-> 0], [hour |-> 23, min |-> 59, sec |-> 59, ms |-> 999]}

\* Volumes around the borders between FAT12, FAT16 and FAT32 and of 16-bit counts.
EdgeVolumes == {356, 357, 4084, 4085, 8189, 8190, 16449, 16450, 32680, 65525, 65535, 65536, 131072,
                532480, 16777216, 67108864}

\* Two threads of one process and one of another, a device and a path that only starts
\* like a mount point.
DevPath == <<"/", "dev">>
RamPath == <<"/", "ram">>
SomePaths == {<<"/", "dev", "/", "kb">>, <<"/", "dev", "ice">>, <<"/", "ram", "/", "f">>}
KeyboardPath == {<<"/", "kb">>}
Owners == [t \in {t1, t2, t3} |-> IF t = t3 THEN p2 ELSE p1]
Header(n, s) == [name |-> n, size |-> s]
SomeImages == {<<Header(<<"/", "f">>, 1), Header(<<>>, 0), Header(<<>>, 0)>>, <<Header(<<"/", "f">>, 3), Header(<<>>, 0)>>}

\* Programs: complete ones, ones that fail in each stage of the load, and an invalid one.
Seg(t, v, o, f, m, fl) ==
    [type |-> t, vaddr |-> v, off |-> o, file |-> f, mem |-> m, write |-> "w" \in fl, exec |-> "x" \in fl]
Rela(o, a, r) == [offset |-> o, addend |-> a, relative |-> r]
NoRelas == [has_rela |-> FALSE, sized |-> FALSE, entsize_ok |-> FALSE, rela |-> 0, relasz |-> 0, relas |-> <<>>]
RelaTable(v, z, rs) == [has_rela |-> TRUE, sized |-> TRUE, entsize_ok |-> TRUE, rela |-> v, relasz |-> z, relas |-> rs]
Program(segs, dyn) == [valid |-> TRUE, entry |-> 3, size |-> 8, segs |-> segs, dyn |-> dyn]
Text == Seg("Load", 0, 0, 2, 2, {"x"})
Data == Seg("Load", 2, 2, 3, 6, {"w"})
Dynamic == Seg("Dynamic", 4, 4, 1, 1, {})
Programs ==
    {Program(<<Seg("Phdr", 0, 0, 1, 1, {}), Text, Data, Seg("Tls", 3, 3, 1, 2, {"w"}), Dynamic,
               Seg("GnuRelro", 2, 2, 1, 1, {})>>,
             RelaTable(1, 2, <<Rela(4, 1, TRUE), Rela(9, 9, FALSE), Rela(7, 3, TRUE)>>)),
     Program(<<Text, Seg("Dynamic", 0, 0, 1, 1, {}), Seg("Load", 2, 2, 2, 2, {"w"}),
               Seg("GnuRelro", 2, 2, 2, 2, {})>>, NoRelas),
     Program(<<Seg("Load", 6, 0, 2, 3, {}), Seg("Load", 10, 2, 0, 2, {"w"}), Seg("Tls", 10, 2, 0, 1, {})>>,
             NoRelas),
     Program(<<Text, Seg("Interp", 0, 0, 1, 1, {})>>, NoRelas),
     Program(<<Text, Seg("Load", 2, 2, 3, 2, {"w"})>>, NoRelas),
     Program(<<Text, Seg("Load", 2, 6, 3, 3, {"w"})>>, NoRelas),
     Program(<<Text, Seg("Tls", 2, 6, 3, 3, {"w"})>>, NoRelas),
     Program(<<Text, Seg("Tls", 0, 1, 1, 1, {"w"})>>, NoRelas),
     Program(<<Text, Seg("Load", 1, 1, 2, 2, {"w"})>>, NoRelas),
     Program(<<Text, Data, Dynamic>>, RelaTable(1, 2, <<Rela(3, 1, TRUE), Rela(9, 1, TRUE)>>)),
     Program(<<Text, Data, Dynamic>>, RelaTable(1, 2, <<Rela(1, 1, TRUE)>>)),
     Program(<<Text, Data, Dynamic>>, RelaTable(6, 2, <<>>)),
     Program(<<Text, Seg("GnuRelro", 9, 0, 1, 1, {})>>, NoRelas),
     Program(<<Seg("Load", 6, 0, 2, 3, {}), Seg("GnuRelro", 0, 0, 1, 1, {})>>, NoRelas),
     Program(<<Seg("Phdr", 0, 0, 1, 1, {})>>, NoRelas),
     [Program(<<Text>>, NoRelas) EXCEPT !.valid = FALSE]}

KernelDynamic == Seg("Dynamic", 2, 2, 1, 1, {})
KernelImages ==
    {[segs |-> <<Text, Seg("Load", 2, 2, 3, 4, {"w"}), KernelDynamic, Seg("GnuRelro", 2, 2, 2, 2, {})>>,
      relas |-> <<Rela(2, 1, TRUE), Rela(4, 3, TRUE)>>],
     [segs |-> <<Text, Seg("Load", 2, 2, 3, 7, {"w"}), KernelDynamic, Seg("GnuRelro", 2, 2, 1, 1, {})>>,
      relas |-> <<Rela(3, 1, TRUE), Rela(7, 3, TRUE)>>],
     [segs |-> <<Seg("Load", 5, 1, 2, 3, {"x"}), Seg("Tls", 2, 2, 2, 4, {})>>, relas |-> <<>>],
     [segs |-> <<Text, Seg("Interp", 0, 0, 1, 1, {})>>, relas |-> <<>>],
     [segs |-> <<Text, Seg("Load", 1, 2, 1, 1, {"w"})>>, relas |-> <<>>],
     [segs |-> <<Text, KernelDynamic>>, relas |-> <<Rela(9, 1, TRUE)>>],
     [segs |-> <<Text, KernelDynamic>>, relas |-> <<Rela(1, 1, FALSE)>>],
     [segs |-> <<Text, Seg("GnuRelro", 8, 2, 1, 1, {})>>, relas |-> <<>>]}

\* Memory maps: fragmented, out of order, too small, and one large descriptor.
Descriptor(f, c, t) == [first |-> f, count |-> c, type |-> t]
UefiMaps ==
    {<<Descriptor(0, 3, "conventional"), Descriptor(3, 2, "loader_data"), Descriptor(5, 2, "loader_code"),
       Descriptor(7, 8, "conventional"), Descriptor(15, 2, "boot_services")>>,
     <<Descriptor(7, 3, "conventional"), Descriptor(1, 4, "conventional"), Descriptor(10, 5, "conventional"),
       Descriptor(15, 1, "reserved")>>,
     <<Descriptor(7, 4, "conventional"), Descriptor(1, 4, "boot_services")>>,
     <<Descriptor(2, 30, "conventional")>>}
=============================================================================

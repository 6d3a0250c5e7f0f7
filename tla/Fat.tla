----------------------------------- MODULE Fat -----------------------------------
(***************************************************************************)
(* The FAT of the storage crate: the table (FAT12, FAT16 or FAT32, in its      *)
(* bytes), the chains of clusters in it, and an open file on a chain.          *)
(***************************************************************************)
EXTENDS Integers, Sequences, FiniteSets, SequencesExt

CONSTANTS FatTypes,          \* those examined, of 12, 16 and 32
          LastCluster,       \* the table has entries 0..LastCluster
          BytesPerCluster,
          FileValues,        \* bytes written
          MaxFileSize        \* bound on the position of a write

VARIABLES fat_type,
          fat,        \* FatTable: [data, free_count]
          file,       \* FatFile: [first, position, size, current, offset]
          disk,       \* cluster -> its bytes
          contents    \* ghost: the bytes the writes and truncates should have left

fatVars == <<fat_type, fat, file, disk, contents>>

Free == [kind |-> "Free", next |-> 0]
EndOfChain == [kind |-> "EndOfChain", next |-> 0]
Bad == [kind |-> "Bad", next |-> 0]
Reserved == [kind |-> "Reserved", next |-> 0]
NextCluster(c) == [kind |-> "Next", next |-> c]

\* 2^12, 2^16, 2^28: entries from Top - 16 on have a meaning of their own.
Top(t) == CASE t = 12 -> 4096 [] t = 16 -> 65536 [] t = 32 -> 268435456

IsValidCluster(c) == c >= 2 /\ c <= Top(fat_type) - 10

\* Three bytes hold two FAT12 entries.
EntryOffset(c) == CASE fat_type = 12 -> c + c \div 2 [] fat_type = 16 -> c * 2 [] fat_type = 32 -> c * 4

EntryBytes == IF fat_type = 32 THEN 4 ELSE 2

InTable(F, c) == EntryOffset(c) + EntryBytes - 1 \in DOMAIN F.data

FatWord(F, o, n) ==
    F.data[o] + 256 * F.data[o + 1]
      + (IF n = 4 THEN 65536 * F.data[o + 2] + 16777216 * (F.data[o + 3] % 16) ELSE 0)

\* FAT12: an odd cluster is in the high 12 bits of its two bytes.
RawEntry(c, w) ==
    CASE fat_type = 12 /\ c % 2 = 1 -> w \div 16
      [] fat_type = 12 /\ c % 2 = 0 -> w % 4096
      [] fat_type # 12 -> w

FatEntry(v, top) ==
    CASE v = 0 -> Free
      [] v = top - 9 -> Bad
      [] v \in top - 16..top - 10 -> Reserved
      [] v \in top - 8..top - 1 -> EndOfChain
      [] OTHER -> NextCluster(v)

ReadFatEntry(F, c) == FatEntry(RawEntry(c, FatWord(F, EntryOffset(c), EntryBytes)), Top(fat_type))

RawValue(e) ==
    CASE e.kind = "Free" -> 0
      [] e.kind = "Next" -> e.next % Top(fat_type)
      [] e.kind = "EndOfChain" -> Top(fat_type) - 1
      [] e.kind = "Bad" -> Top(fat_type) - 9
      [] e.kind = "Reserved" -> Top(fat_type) - 10

\* Mutant: an odd FAT12 entry overwrites four bits of the even one before it.
NewWordWide(c, w, v) ==
    CASE fat_type = 12 /\ c % 2 = 1 -> 16 * v
      [] fat_type = 12 /\ c % 2 = 0 -> (w \div 4096) * 4096 + v
      [] fat_type # 12 -> v

\* The other entry's four bits, and the high four bits of a FAT32 entry, are kept.
NewWord(c, w, v) ==
    CASE fat_type = 12 /\ c % 2 = 1 -> (w % 16) + 16 * v
      [] fat_type = 12 /\ c % 2 = 0 -> (w \div 4096) * 4096 + v
      [] fat_type # 12 -> v

PutWord(data, o, new) ==
    [i \in DOMAIN data |->
       CASE i = o -> new % 256
         [] i = o + 1 -> (new \div 256) % 256
         [] i = o + 2 /\ fat_type = 32 -> (new \div 65536) % 256
         [] i = o + 3 /\ fat_type = 32 -> (data[i] \div 16) * 16 + new \div 16777216
         [] OTHER -> data[i]]

WriteFatEntry(F, c, e) ==
    PutWord(F.data, EntryOffset(c), NewWord(c, FatWord(F, EntryOffset(c), 2), RawValue(e)))

---------------------------------------------------------------------------
\* FatTable.  Results are [ok, ...]; an operation that fails keeps what it changed.

Get(F, c) ==
    IF IsValidCluster(c) /\ InTable(F, c) THEN ReadFatEntry(F, c)
    ELSE [kind |-> "Error", next |-> 0]

CountAfter(free_count, old, e) ==
    CASE old = Free /\ e # Free -> IF free_count = 0 THEN 0 ELSE free_count - 1
      [] old # Free /\ e = Free -> free_count + 1
      [] OTHER -> free_count

SetFrom(F, c, e, old) ==
    IF old.kind = "Error" THEN F
    ELSE [data |-> WriteFatEntry(F, c, e), free_count |-> CountAfter(F.free_count, old, e)]

Set(F, c, e) == SetFrom(F, c, e, Get(F, c))

Clusters == 2..LastCluster

FreeClusters(F) == {c \in Clusters : Get(F, c) = Free}

CountFree(F) == Cardinality(FreeClusters(F))

\* The first free cluster, marked as the end of a chain.
Taken(F, c) == [ok |-> TRUE, fat |-> Set(F, c, EndOfChain), cluster |-> c]

TakeFirst(F, free) ==
    IF F.free_count = 0 \/ free = {} THEN [ok |-> FALSE, fat |-> F, cluster |-> 0]
    ELSE Taken(F, CHOOSE x \in free : \A y \in free : x <= y)

AllocCluster(F) == TakeFirst(F, FreeClusters(F))

Count(n) == [i \in 1..n |-> i]

Link(s, a) ==
    IF ~s.ok \/ ~a.ok THEN [s EXCEPT !.ok = FALSE]
    ELSE [s EXCEPT !.fat = Set(a.fat, s.cluster, NextCluster(a.cluster)), !.cluster = a.cluster]

AllocClusterChain(F, count, first) ==
    IF count = 0 \/ F.free_count < count \/ ~first.ok THEN [ok |-> FALSE, fat |-> F, cluster |-> 0]
    ELSE FoldLeft(LAMBDA s, i : Link(s, AllocCluster(s.fat)), first, Count(count - 1))

\* Frees cluster by cluster; a chain that runs into something else stays half freed.
FreeStep(s, e) ==
    CASE s.status # "run" -> s
      [] s.status = "run" /\ s.current = 0 -> [s EXCEPT !.status = "ok"]
      [] s.status = "run" /\ s.current # 0 /\ e.kind = "Next" ->
           [s EXCEPT !.fat = Set(@, s.current, Free), !.current = e.next]
      [] s.status = "run" /\ s.current # 0 /\ e.kind = "EndOfChain" ->
           [s EXCEPT !.fat = Set(@, s.current, Free), !.status = "ok"]
      [] OTHER -> [s EXCEPT !.status = "InvalidCluster"]

FreeClusterChain(F, start) ==
    FoldLeft(LAMBDA s, i : FreeStep(s, Get(s.fat, s.current)),
             [fat |-> F, current |-> start,
              status |-> IF IsValidCluster(start) THEN "run" ELSE "InvalidCluster"],
             Count(LastCluster + 1))

\* chain_iter: stops at whatever is not a next cluster.
ChainStep(s, e) == IF e.kind # "Next" \/ Len(s) > LastCluster THEN s ELSE Append(s, e.next)

ChainIter(F, start) ==
    IF start = 0 THEN <<>>
    ELSE FoldLeft(LAMBDA s, i : ChainStep(s, Get(F, Last(s))), <<start>>, Count(LastCluster + 1))

---------------------------------------------------------------------------
\* FatFile.

\* seek: from the start when it goes back; whole clusters, then a part of one.
SeekStep(s, e, goal, left) ==
    CASE s.status # "run" -> s
      [] s.status = "run" /\ s.f.position >= goal -> [s EXCEPT !.status = "ok"]
      [] s.status = "run" /\ s.f.position < goal /\ s.f.position + left > goal ->
           [s EXCEPT !.f.offset = @ + (goal - s.f.position), !.f.position = goal, !.status = "ok"]
      [] s.status = "run" /\ s.f.position < goal /\ s.f.position + left <= goal /\ e.kind = "Next" ->
           [s EXCEPT !.f.current = e.next, !.f.offset = 0, !.f.position = @ + left]
      [] s.status = "run" /\ s.f.position < goal /\ s.f.position + left <= goal /\ e.kind = "EndOfChain" ->
           [s EXCEPT !.f.offset = s.f.size % BytesPerCluster, !.f.position = s.f.size, !.status = "ok"]
      [] OTHER -> [s EXCEPT !.status = "InvalidCluster"]

Rewound(f) == [f EXCEPT !.current = f.first, !.offset = 0, !.position = 0]

SeekFrom(f, F, goal) ==
    FoldLeft(LAMBDA s, i : SeekStep(s, Get(F, s.f.current), goal, BytesPerCluster - s.f.offset),
             [f |-> IF goal < f.position THEN Rewound(f) ELSE f, status |-> "run"],
             Count(LastCluster + 2))

Min2(a, b) == IF a < b THEN a ELSE b

SeekTo(f, F, target) == SeekFrom(f, F, Min2(target, f.size))

FatSeek(target) ==
    /\ file' = SeekTo(file, fat, target).f
    /\ UNCHANGED <<fat, disk, contents>>

\* read: chunk by chunk, moving on only when more is wanted.
Moved(f, chunk) == [f EXCEPT !.position = @ + chunk, !.offset = @ + chunk]

ReadStep(s, e, want, chunk) ==
    CASE s.status # "run" -> s
      [] s.status = "run" /\ s.done >= want -> [s EXCEPT !.status = "ok"]
      [] s.status = "run" /\ s.done < want /\ (s.f.offset + chunk < BytesPerCluster \/ s.done + chunk >= want) ->
           [s EXCEPT !.f = Moved(@, chunk), !.done = @ + chunk]
      [] s.status = "run" /\ s.f.offset + chunk >= BytesPerCluster /\ s.done + chunk < want /\ e.kind = "Next" ->
           [s EXCEPT !.f = [Moved(@, chunk) EXCEPT !.current = e.next, !.offset = 0], !.done = @ + chunk]
      [] OTHER -> [s EXCEPT !.f = Moved(@, chunk), !.done = @ + chunk,
                            !.status = IF e.kind = "EndOfChain" THEN "ok" ELSE "InvalidCluster"]

ReadFrom(f, F, want) ==
    FoldLeft(LAMBDA s, i : ReadStep(s, Get(F, s.f.current), want, Min2(want - s.done, BytesPerCluster - s.f.offset)),
             [f |-> f, done |-> 0, status |-> "run"], Count(LastCluster + 2))

FatRead(len) ==
    /\ file.position < file.size
    /\ file' = ReadFrom(file, fat, Min2(len, file.size - file.position)).f
    /\ UNCHANGED <<fat, disk, contents>>

\* write: the first cluster when there is none, another at the end of the chain; the
\* size follows the position.
Put(s, chunk, value) ==
    [s EXCEPT !.disk[s.f.current] = [o \in DOMAIN @ |->
                 IF o - 1 \in s.f.offset..s.f.offset + chunk - 1 THEN value ELSE @[o]],
              !.done = @ + chunk,
              !.f = [Moved(@, chunk) EXCEPT !.size = IF s.f.position + chunk > @ THEN s.f.position + chunk ELSE @]]

Onto(s, c) == [s EXCEPT !.f.current = c, !.f.offset = 0]

\* t: the state with the chunk written; e: the entry of its cluster; a: another one.
NextChunk(t, len, e, a) ==
    CASE t.f.offset < BytesPerCluster \/ t.done >= len -> t
      [] t.f.offset >= BytesPerCluster /\ t.done < len /\ e.kind = "Next" -> Onto(t, e.next)
      [] t.f.offset >= BytesPerCluster /\ t.done < len /\ e.kind = "EndOfChain" /\ a.ok ->
           Onto([t EXCEPT !.fat = Set(a.fat, t.f.current, NextCluster(a.cluster))], a.cluster)
      [] OTHER -> [t EXCEPT !.status = "OutOfBounds"]

Written(t, len) == NextChunk(t, len, Get(t.fat, t.f.current), AllocCluster(t.fat))

WriteStep(s, len, value) ==
    CASE s.status # "run" -> s
      [] s.status = "run" /\ s.done >= len -> [s EXCEPT !.status = "ok"]
      [] s.status = "run" /\ s.done < len ->
           Written(Put(s, Min2(len - s.done, BytesPerCluster - s.f.offset), value), len)

WriteFrom(f, start, d, len, value) ==
    IF ~start.ok THEN [f |-> f, fat |-> start.fat, disk |-> d, done |-> 0, status |-> "OutOfBounds"]
    ELSE FoldLeft(LAMBDA s, i : WriteStep(s, len, value),
                  [f |-> IF f.first = 0 THEN [f EXCEPT !.first = start.cluster, !.current = start.cluster] ELSE f,
                   fat |-> start.fat, disk |-> d, done |-> 0, status |-> "run"],
                  Count(LastCluster + 2))

WriteAt(f, F, d, len, value) ==
    WriteFrom(f, IF f.first = 0 THEN AllocCluster(F) ELSE [ok |-> TRUE, fat |-> F, cluster |-> f.first],
              d, len, value)

Overwritten(old, p, n, value) ==
    [i \in 1..(IF p + n > Len(old) THEN p + n ELSE Len(old)) |->
       IF i - 1 \in p..p + n - 1 THEN value ELSE old[i]]

WriteDone(w, value) ==
    /\ file' = w.f /\ fat' = w.fat /\ disk' = w.disk
    /\ contents' = Overwritten(contents, file.position, w.done, value)

FatWrite(len, value) ==
    /\ file.position + len <= MaxFileSize
    /\ WriteDone(WriteAt(file, fat, disk, len, value), value)

\* truncate: the cluster the new end is in becomes the last one.
CutAll(f, F, freed) ==
    IF f.first # 0 /\ freed.status # "ok" THEN [f |-> f, fat |-> freed.fat]
    ELSE [fat |-> IF f.first = 0 THEN F ELSE freed.fat,
          f |-> [f EXCEPT !.first = 0, !.current = 0, !.size = 0, !.position = 0,
                          !.offset = IF f.first = 0 THEN @ ELSE 0]]

CutHere(s, F, size, e) ==
    IF s.status # "ok" \/ e.kind = "Error" THEN [f |-> s.f, fat |-> F]
    ELSE [fat |-> IF e.kind = "Next"
                  THEN FreeClusterChain(Set(F, s.f.current, EndOfChain), e.next).fat ELSE F,
          f |-> [s.f EXCEPT !.size = size, !.position = Min2(@, size)]]

CutAt(s, F, size) == CutHere(s, F, size, Get(F, s.f.current))

TruncateTo(f, F, size) ==
    IF size = 0 THEN CutAll(f, F, FreeClusterChain(F, f.first)) ELSE CutAt(SeekTo(f, F, size), F, size)

TruncateDone(t, size) ==
    /\ file' = t.f /\ fat' = t.fat
    /\ contents' = SubSeq(contents, 1, size)
    /\ UNCHANGED disk

FatTruncate(size) ==
    /\ size < file.size
    /\ TruncateDone(TruncateTo(file, fat, size), size)

\* A chain allocated ahead for an empty file, and the file opened on it.
PreallocDone(a, first) ==
    /\ fat' = a.fat
    /\ file' = IF a.ok THEN [file EXCEPT !.first = first, !.current = first] ELSE file
    /\ UNCHANGED <<disk, contents>>

Preallocate(count) ==
    /\ file.first = 0
    /\ PreallocDone(AllocClusterChain(fat, count, AllocCluster(fat)), AllocCluster(fat).cluster)

\* FatFile::new on the file's directory entry, as when it is opened again.
Reopen ==
    /\ file' = [file EXCEPT !.position = 0, !.current = file.first, !.offset = 0]
    /\ UNCHANGED <<fat, disk, contents>>

EmptyTable ==
    [i \in 0..(CASE fat_type = 12 -> LastCluster + LastCluster \div 2 + 1
                 [] fat_type = 16 -> 2 * LastCluster + 1
                 [] fat_type = 32 -> 4 * LastCluster + 3) |->
       IF fat_type = 32 /\ i % 4 = 3 THEN 160 ELSE 0]

\* FatTable::new
Counted(F) == [F EXCEPT !.free_count = CountFree(F)]

\* A volume whose last cluster is bad, with bits set that belong to nobody.
NewVolume ==
    Counted([data |-> WriteFatEntry([data |-> EmptyTable, free_count |-> 0], LastCluster, Bad), free_count |-> 0])

FileClosed ==
    /\ fat_type \in FatTypes
    /\ file = [first |-> 0, position |-> 0, size |-> 0, current |-> 0, offset |-> 0]
    /\ disk = [c \in Clusters |-> [o \in 1..BytesPerCluster |-> 0]]
    /\ contents = <<>>

FatInit == FileClosed /\ fat = NewVolume

FatNext ==
    /\ UNCHANGED fat_type
    /\ \/ \E target \in 0..MaxFileSize : FatSeek(target) \/ FatTruncate(target)
       \/ \E len \in 1..BytesPerCluster + 1 : FatRead(len) \/ \E v \in FileValues : FatWrite(len, v)
       \/ \E count \in 1..LastCluster - 1 : Preallocate(count)
       \/ Reopen

---------------------------------------------------------------------------
\* The table and the file agree after every operation, failed ones included: the
\* file's chain has no loop and ends properly, and the file stands in it; every other
\* cluster is free (or bad), so none leaks; the cached count of free clusters is
\* right; and the bits of the table that belong to nobody are as they were.
ChainIsSound(chain, used) ==
    /\ Cardinality(used) = Len(chain)
    /\ chain # <<>> => Get(fat, Last(chain)) = EndOfChain
    /\ \A c \in Clusters : (Get(fat, c) = Free) <=> c \notin used \union {LastCluster}
    /\ Get(fat, LastCluster) = Bad
    /\ fat.free_count = CountFree(fat)
    /\ file.current \in used \union {0}
    /\ fat_type = 32 => \A c \in Clusters : fat.data[4 * c + 3] \div 16 = 10

FatIsSound ==
    ChainIsSound(ChainIter(fat, file.first), {c \in Clusters : Contains(ChainIter(fat, file.first), c)})

\* What the chain holds; 0 past its end.
OnDisk ==
    LET chain == ChainIter(fat, file.first)
        at(i) == 1 + ((i - 1) \div BytesPerCluster)
    IN  [i \in 1..Len(contents) |->
          IF at(i) > Len(chain) THEN 0 ELSE disk[chain[at(i)]][1 + ((i - 1) % BytesPerCluster)]]

\* seek's "We've reached the end of the chain, so seek to the end of the file": a write
\* after any seek goes to the position the file reports, so the file holds what was
\* written where it was written.
WritesLandAtPosition == OnDisk = contents
==================================================================================

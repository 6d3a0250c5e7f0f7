---------------------------------- MODULE FatDir ----------------------------------
(***************************************************************************)
(* A directory of a FAT volume: a chain of clusters of 32-byte entries, read   *)
(* and written one after the other, and the fields of an entry.                *)
(*                                                                         *)
(* An entry is what its reader tells apart: the end marker (a first byte of    *)
(* 0), a deleted one, a short one (its name a number), or part seq of a long   *)
(* name.  Clusters lie one after the other on the device, so an offset past    *)
(* the end of a cluster is an entry of the next one.                           *)
(***************************************************************************)
EXTENDS Fat

CONSTANTS EntriesPerCluster,
          DirContents,       \* what the directory may hold when it is opened
          MaxDirPosition,    \* bound on the index sought
          MaxChanges         \* bound on the seeks and writes

VARIABLES dir,        \* Directory: [first, position, current, offset], offset in entries
          slots,      \* the entries on the device, by index
          changes     \* ghost: how many times it was written or sought

dirVars == <<dir, slots, changes>>

NoEntry == [kind |-> "end", name |-> 0, last |-> FALSE]
DeletedEntry == [kind |-> "deleted", name |-> 0, last |-> FALSE]
ShortEntry(n) == [kind |-> "short", name |-> n, last |-> FALSE]
LongEntry(seq, last) == [kind |-> "long", name |-> seq, last |-> last]

SlotOf(c, offset) == (c - 2) * EntriesPerCluster + offset

\* Mutant: the next cluster is entered where the last one was left.
AdvanceMidway(d, e) ==
    CASE d.offset + 1 < EntriesPerCluster -> [d EXCEPT !.offset = @ + 1]
      [] d.offset + 1 >= EntriesPerCluster /\ e.kind = "Next" -> [d EXCEPT !.current = e.next]
      [] OTHER -> [d EXCEPT !.offset = @ + 1]

\* read_entry_data: reads an entry and moves on; at the end of the chain it stays past
\* the last entry.
Advance(d, e) ==
    CASE d.offset + 1 < EntriesPerCluster -> [d EXCEPT !.offset = @ + 1]
      [] d.offset + 1 >= EntriesPerCluster /\ e.kind = "Next" -> [d EXCEPT !.current = e.next, !.offset = 0]
      [] OTHER -> [d EXCEPT !.offset = @ + 1]

ReadEntryData(d) ==
    IF SlotOf(d.current, d.offset) \notin DOMAIN slots THEN [ok |-> FALSE, entry |-> NoEntry, dir |-> d]
    ELSE [ok |-> TRUE, entry |-> slots[SlotOf(d.current, d.offset)],
          dir |-> Advance(d, Get(fat, d.current))]

\* read_entry: past deleted entries to one that is there.  The loop over a long name
\* looks at the entry it started from each time: from the last part (which is written
\* first) it reads to the end of the device, from another part it fails at once.
ReadStep2(s, r) ==
    CASE s.status # "run" -> s
      [] s.status = "run" /\ ~r.ok -> [s EXCEPT !.status = "Io"]
      [] s.status = "run" /\ r.ok /\ r.entry.kind = "deleted" ->
           [s EXCEPT !.dir = [r.dir EXCEPT !.position = @ + 1]]
      [] s.status = "run" /\ r.ok /\ r.entry.kind = "end" -> [s EXCEPT !.dir = r.dir, !.status = "None"]
      [] s.status = "run" /\ r.ok /\ r.entry.kind = "short" ->
           [s EXCEPT !.dir = [r.dir EXCEPT !.position = @ + 1], !.entry = r.entry, !.status = "Some"]
      [] s.status = "run" /\ r.ok /\ r.entry.kind = "long" /\ ~r.entry.last ->
           [s EXCEPT !.dir = r.dir, !.status = "InvalidDirEntry"]
      [] s.status = "run" /\ r.ok /\ r.entry.kind = "long" /\ r.entry.last ->
           [s EXCEPT !.dir = [r.dir EXCEPT !.current = LastCluster, !.offset = EntriesPerCluster],
                     !.status = "Io"]

ReadEntry(d) ==
    FoldLeft(LAMBDA s, i : ReadStep2(s, ReadEntryData(s.dir)),
             [dir |-> d, entry |-> NoEntry, status |-> "run"], Count(Cardinality(DOMAIN slots) + 1))

DirRead ==
    /\ dir' = ReadEntry(dir).dir
    /\ UNCHANGED <<fat, slots, changes>>

\* seek: stays at the end of a cluster when it gets there.
DirSeekStep(s, e, here) ==
    CASE s.left = 0 -> s
      [] s.left > 0 /\ s.left <= here ->
           [left |-> 0, dir |-> [s.dir EXCEPT !.offset = @ + s.left, !.position = @ + s.left]]
      [] s.left > here /\ e.kind = "Next" ->
           [left |-> s.left - here,
            dir |-> [s.dir EXCEPT !.current = e.next, !.offset = 0, !.position = @ + here]]
      [] OTHER -> [left |-> 0, dir |-> [s.dir EXCEPT !.position = @ + here]]

DirRewound(d) == [d EXCEPT !.current = d.first, !.offset = 0, !.position = 0]

DirSeekFrom(d, target) ==
    FoldLeft(LAMBDA s, i : DirSeekStep(s, Get(fat, s.dir.current), EntriesPerCluster - s.dir.offset),
             [dir |-> d, left |-> target - d.position], Count(LastCluster + 1)).dir

DirSeek(target) ==
    /\ dir.offset <= EntriesPerCluster /\ changes < MaxChanges
    /\ dir' = DirSeekFrom(IF target < dir.position THEN DirRewound(dir) ELSE dir, target)
    /\ changes' = changes + 1
    /\ UNCHANGED <<fat, slots>>

Rewind ==
    /\ dir' = DirRewound(dir)
    /\ UNCHANGED <<fat, slots, changes>>

\* write_entry: the parts of the long name, with another cluster when the chain ends,
\* then the short entry, without.
LongStep(s, e, a) ==
    CASE s.dir.offset < EntriesPerCluster -> s
      [] s.dir.offset >= EntriesPerCluster /\ e.kind = "Next" ->
           [s EXCEPT !.dir = [@ EXCEPT !.current = e.next, !.offset = 0]]
      [] s.dir.offset >= EntriesPerCluster /\ e.kind = "EndOfChain" /\ a.ok ->
           [s EXCEPT !.fat = Set(a.fat, s.dir.current, NextCluster(a.cluster)),
                     !.dir = [@ EXCEPT !.current = a.cluster, !.offset = 0]]
      [] OTHER -> [s EXCEPT !.ok = FALSE]

PutEntry(s, entry) ==
    IF SlotOf(s.dir.current, s.dir.offset) \notin DOMAIN s.slots THEN [s EXCEPT !.ok = FALSE]
    ELSE [s EXCEPT !.slots[SlotOf(s.dir.current, s.dir.offset)] = entry, !.dir.offset = @ + 1]

LongPut(t) == IF t.ok THEN LongStep(t, Get(t.fat, t.dir.current), AllocCluster(t.fat)) ELSE t

LongPart(s, seq, last) == IF s.ok THEN LongPut(PutEntry(s, LongEntry(seq, last))) ELSE s

ShortStep(s, e) ==
    IF s.ok /\ s.dir.offset >= EntriesPerCluster /\ e.kind = "Next"
    THEN [s EXCEPT !.dir = [@ EXCEPT !.current = e.next, !.offset = 0]] ELSE s

ShortPut(t) == ShortStep(t, Get(t.fat, t.dir.current))

WriteEntry(parts, short) ==
    ShortPut(LET s == FoldLeft(LAMBDA t, i : LongPart(t, parts + 1 - i, i = 1),
                               [dir |-> dir, slots |-> slots, fat |-> fat, ok |-> TRUE], Count(parts))
             IN  IF s.ok THEN PutEntry(s, short) ELSE s)

WriteEntryDone(w) ==
    /\ changes < MaxChanges
    /\ dir' = w.dir /\ slots' = w.slots /\ fat' = w.fat
    /\ changes' = changes + 1

\* DirectoryEntry::new leaves the short name zero: it has a long name and a short entry
\* that reads as the end marker.
WriteNewEntry(parts) == WriteEntryDone(WriteEntry(parts, NoEntry))

\* An entry read before, written back: it has no long name.
WriteShortEntry(n) == WriteEntryDone(WriteEntry(0, ShortEntry(n)))

\* A directory of two clusters, 4 and then 2, so that the chain jumps.
OpenedOn(content) ==
    [i \in 0..(LastCluster - 1) * EntriesPerCluster - 1 |->
       LET n == CASE i \in SlotOf(4, 0)..SlotOf(5, 0) - 1 -> i - SlotOf(4, 0) + 1
                  [] i \in SlotOf(2, 0)..SlotOf(3, 0) - 1 -> i + EntriesPerCluster + 1
                  [] OTHER -> 0
       IN  IF n \in DOMAIN content THEN content[n] ELSE NoEntry]

FatDirInit ==
    /\ FileClosed
    /\ fat = Set(Set(NewVolume, 4, NextCluster(2)), 2, EndOfChain)
    /\ dir = [first |-> 4, position |-> 0, current |-> 4, offset |-> 0]
    /\ \E content \in DirContents : slots = OpenedOn(content)
    /\ changes = 0

FatDirNext ==
    /\ UNCHANGED <<fat_type, file, disk, contents>>
    /\ \/ DirRead \/ Rewind
       \/ \E target \in 0..MaxDirPosition : DirSeek(target)
       \/ \E parts \in 1..2 : WriteNewEntry(parts)
       \/ WriteShortEntry(7)

fatDirVars == <<fatVars, dirVars>>

---------------------------------------------------------------------------
\* entries(): read_entry from the start until it returns nothing.
IterStep(s, r) ==
    IF s.status # "run" THEN s
    ELSE IF r.status = "Some" THEN [s EXCEPT !.out = Append(@, r.entry), !.dir = r.dir]
    ELSE [s EXCEPT !.status = r.status]

Entries(d) ==
    FoldLeft(LAMBDA s, i : IterStep(s, ReadEntry(s.dir)),
             [dir |-> d, out |-> <<>>, status |-> "run"], Count(Cardinality(DOMAIN slots) + 1))

\* The directory's entries in the order of its chain, up to the end marker.
InChainOrder ==
    LET chain == ChainIter(fat, dir.first)
    IN  [i \in 1..Len(chain) * EntriesPerCluster |->
           slots[SlotOf(chain[1 + ((i - 1) \div EntriesPerCluster)], (i - 1) % EntriesPerCluster)]]

Listed(all, first_end) == SelectSeq(SubSeq(all, 1, first_end - 1), LAMBDA e : e.kind = "short")

ReadsAll(all, ends) ==
    \/ ends = {}
    \/ \E i \in DOMAIN all : all[i].kind = "long"
    \/ Entries(DirRewound(dir)).out = Listed(all, CHOOSE i \in ends : \A j \in ends : i <= j)

DirChainIsSound(chain) ==
    /\ Cardinality({chain[i] : i \in DOMAIN chain}) = Len(chain)
    /\ Get(fat, Last(chain)) = EndOfChain
    /\ \A c \in Clusters : (Get(fat, c) = Free) <=> ~Contains(chain, c) /\ c # LastCluster
    /\ fat.free_count = CountFree(fat)

\* Whatever is written to a directory, its chain stays one without a loop, no cluster is
\* lost or taken twice and the count of free ones is right; and reading a directory of
\* short names from its start gives each of its entries once, in the order of the
\* chain and across its clusters, up to the end marker and without the deleted ones.
DirectoryIsSound ==
    /\ DirChainIsSound(ChainIter(fat, dir.first))
    /\ changes = 0 => ReadsAll(InChainOrder, {i \in DOMAIN InChainOrder : InChainOrder[i].kind = "end"})
===================================================================================

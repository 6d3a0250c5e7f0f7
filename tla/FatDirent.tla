--------------------------------- MODULE FatDirent ---------------------------------
(***************************************************************************)
(* The fields of a FAT directory entry in their on-disk encoding: DOS dates    *)
(* and times, the first cluster in two halves, the attribute bits, the first   *)
(* byte of the name, and the characters of a long-name entry in three pieces.  *)
(***************************************************************************)
EXTENDS Integers, Sequences

CONSTANTS Dates,          \* [year, month, day]
          Times,          \* [hour, min, sec, ms]
          FirstClusters,
          AttributeSets,  \* bytes
          NameBytes       \* first bytes of a name

VARIABLES dirent,   \* the raw fields of a DirEntry and of a LongNameEntry
          asked     \* ghost: what each setter was last given

direntVars == <<dirent, asked>>

\* Mutant: the month overlaps the day.
EncodeDateNarrow(d) == (d.year - 1980) * 512 + d.month * 16 + d.day

\* Date::encode and decode
EncodeDate(d) == (d.year - 1980) * 512 + d.month * 32 + d.day

DecodeDate(v) == [year |-> v \div 512 + 1980, month |-> (v \div 32) % 16, day |-> v % 32]

\* Time::encode and decode: two-second steps, and a byte of hundredths for the rest.
EncodeTime(t) ==
    [time |-> t.hour * 2048 + t.min * 32 + t.sec \div 2, hi_res |-> t.ms \div 10 + (t.sec % 2) * 100]

DecodeTime(v) ==
    [hour |-> v.time \div 2048, min |-> (v.time \div 32) % 64,
     sec |-> (v.time % 32) * 2 + v.hi_res \div 100, ms |-> (v.hi_res % 100) * 10]

\* DateTime and DosDateTime
EncodeDateTime(dt) == [date |-> EncodeDate(dt.date), time |-> EncodeTime(dt.time)]

DecodeDateTime(v) == [date |-> DecodeDate(v.date), time |-> DecodeTime(v.time)]

\* Attributes
AttrBit(attr, mask) == (attr \div mask) % 2 = 1
READ_ONLY == 1
HIDDEN == 2
SYSTEM == 4
VOLUME_ID == 8
DIRECTORY == 16
ARCHIVE == 32
LONG_NAME == READ_ONLY + HIDDEN + SYSTEM + VOLUME_ID
IsLongName(attr) == attr % 64 = LONG_NAME

\* DirEntry
IsFreeEntry(e) == e.name0 = 0
IsDeletedEntry(e) == e.name0 = 229
IsValidEntry(e) == ~IsFreeEntry(e) /\ ~IsDeletedEntry(e)
IsFile(e) == IsValidEntry(e) /\ ~AttrBit(e.attr, DIRECTORY) /\ ~AttrBit(e.attr, VOLUME_ID)

FirstCluster(e, type) == e.cluster_low + (IF type = 32 THEN e.cluster_high * 65536 ELSE 0)

NewDirEntry ==
    [name0 |-> 0, attr |-> 0, creation |-> [date |-> 33, time |-> [time |-> 0, hi_res |-> 0]], access |-> 33,
     write_date |-> 33, write_time |-> 0, cluster_high |-> 0, cluster_low |-> 0, size |-> 0,
     seq |-> 0, name1 |-> [i \in 0..4 |-> 0], name2 |-> [i \in 0..5 |-> 0], name3 |-> [i \in 0..1 |-> 0]]

CreationDateTime(e) == DecodeDateTime(e.creation)
LastAccessDate(e) == DecodeDate(e.access)
LastWriteDateTime(e) ==
    DecodeDateTime([date |-> e.write_date, time |-> [time |-> e.write_time, hi_res |-> 0]])

\* LongNameEntry: thirteen characters in three pieces of the entry.
SetName(e, i, ch) ==
    CASE i < 5 -> [e EXCEPT !.name1[i] = ch]
      [] i >= 5 /\ i < 11 -> [e EXCEPT !.name2[i - 5] = ch]
      [] i >= 11 -> [e EXCEPT !.name3[i - 11] = ch]

GetName(e, i) ==
    CASE i < 5 -> e.name1[i]
      [] i >= 5 /\ i < 11 -> e.name2[i - 5]
      [] i >= 11 -> e.name3[i - 11]

SeqNum(raw) == (raw % 64) + (raw \div 128) * 128
IsLast(raw) == AttrBit(raw, 64)
LongSeq(seq, last) == IF last /\ ~AttrBit(seq, 64) THEN seq + 64 ELSE seq

---------------------------------------------------------------------------
DirentInit ==
    /\ dirent = NewDirEntry
    /\ asked = [creation |-> DecodeDateTime(NewDirEntry.creation), access |-> DecodeDate(33),
                write |-> DecodeDateTime(NewDirEntry.creation), cluster |-> 0, type |-> 12, attr |-> 0,
                name0 |-> 0, chars |-> [i \in 0..12 |-> 0], seq |-> 0, last |-> FALSE]

SetCreation(dt) ==
    /\ dirent' = [dirent EXCEPT !.creation = EncodeDateTime(dt)]
    /\ asked' = [asked EXCEPT !.creation = dt]

SetAccess(d) ==
    /\ dirent' = [dirent EXCEPT !.access = EncodeDate(d)]
    /\ asked' = [asked EXCEPT !.access = d]

\* The write time has no hundredths.
SetWrite(dt) ==
    /\ dirent' = [dirent EXCEPT !.write_date = EncodeDate(dt.date), !.write_time = EncodeTime(dt.time).time]
    /\ asked' = [asked EXCEPT !.write = dt]

\* The high half is written for FAT32 only.
SetFirstCluster(c, type) ==
    /\ dirent' = [dirent EXCEPT !.cluster_low = c % 65536,
                                !.cluster_high = IF type = 32 THEN c \div 65536 ELSE @]
    /\ asked' = [asked EXCEPT !.cluster = c, !.type = type]

SetAttributes(a, b) ==
    /\ dirent' = [dirent EXCEPT !.attr = a, !.name0 = b]
    /\ asked' = [asked EXCEPT !.attr = a, !.name0 = b]

NewLongName(seq, last) ==
    /\ dirent = NewDirEntry
    /\ dirent' = [dirent EXCEPT !.attr = LONG_NAME, !.seq = LongSeq(seq, last)]
    /\ asked' = [asked EXCEPT !.attr = LONG_NAME, !.seq = seq, !.last = last]

\* As write_entry fills them: one after the other.
SetLongChar(i, ch) ==
    /\ i > 0 => asked.chars[i - 1] # 0
    /\ dirent' = SetName(dirent, i, ch)
    /\ asked' = [asked EXCEPT !.chars[i] = ch]

DirentNext ==
    \/ /\ dirent.seq = 0
       /\ \/ \E d \in Dates, t \in Times :
               \/ SetAccess(d)
               \/ SetCreation([date |-> d, time |-> t])
               \/ SetWrite([date |-> d, time |-> t])
          \/ \E c \in FirstClusters, type \in {12, 32} : (type = 32 \/ c < 65536) /\ SetFirstCluster(c, type)
          \/ \E a \in AttributeSets, b \in NameBytes : SetAttributes(a, b)
          \/ \E seq \in {1, 20}, last \in BOOLEAN : NewLongName(seq, last)
    \/ dirent.seq # 0 /\ \E i \in 0..12 : SetLongChar(i, 65 + i)

---------------------------------------------------------------------------
\* What an entry stores it gives back, at the resolution of its field: the creation time
\* to the hundredth, the write time to two seconds, the cluster in both halves for
\* FAT32, a long name's characters in order; and setting one field disturbs no other.
DirentKeepsWhatWasSet ==
    /\ CreationDateTime(dirent) = [asked.creation EXCEPT !.time.ms = (@ \div 10) * 10]
    /\ LastAccessDate(dirent) = asked.access
    /\ LastWriteDateTime(dirent) =
         [asked.write EXCEPT !.time.ms = 0, !.time.sec = (@ \div 2) * 2]
    /\ FirstCluster(dirent, asked.type) = asked.cluster
    /\ IsFile(dirent) <=> /\ asked.name0 \notin {0, 229}
                          /\ ~AttrBit(asked.attr, DIRECTORY) /\ ~AttrBit(asked.attr, VOLUME_ID)
    /\ IsLongName(asked.attr) => AttrBit(dirent.attr, READ_ONLY) /\ AttrBit(dirent.attr, HIDDEN)
    /\ \A i \in 0..12 : GetName(dirent, i) = asked.chars[i]
    /\ SeqNum(dirent.seq) = asked.seq /\ IsLast(dirent.seq) = asked.last
=====================================================================================

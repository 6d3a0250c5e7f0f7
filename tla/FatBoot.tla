---------------------------------- MODULE FatBoot ----------------------------------
(***************************************************************************)
(* The boot sectors of the storage crate: the parameter block of FAT12/16      *)
(* (kind 16) and of FAT32 (kind 32), its builders, the layout chosen for a     *)
(* volume's size, and validate.  The fields no check looks at (labels, ids,    *)
(* geometry, boot code) are one field.                                         *)
(***************************************************************************)
EXTENDS Integers

CONSTANTS SectorSizes,    \* with_bytes_per_sector
          ClusterSizes,   \* with_sectors_per_cluster
          ReservedCounts, \* with_reserved_sectors
          VolumeSectors,  \* sizes configured for, in sectors
          MaxBuilderCalls

VARIABLES boot,         \* the parameter block, with the boot signature
          builder_calls,
          configured    \* ghost: the sectors configured for, 0 if anything was set since

bootVars == <<boot, builder_calls, configured>>

IsPowerOfTwo(n) == n \in {2^i : i \in 0..16}
DivCeil(a, b) == (a + b - 1) \div b

\* BootParamBlockStart::new
NewBpb ==
    [kind |-> 16, signature |-> TRUE, bytes_per_sector |-> 512, sectors_per_cluster |-> 1,
     reserved_sectors |-> 1, fat_count |-> 2, root_entries |-> 512, total_sectors |-> 0,
     total_sectors_large |-> 0, sectors_per_fat |-> 0, root_cluster |-> 0, fs_info_sector |-> 0,
     backup_boot_sector |-> 0, fs_type |-> 0, others |-> 0]

NewBootSector(fs_type) == [NewBpb EXCEPT !.fs_type = fs_type]

\* ExtendedBootParamBlock::new: here sectors_per_fat is sectors_per_fat_large.
NewExtendedBpb ==
    [NewBpb EXCEPT !.kind = 32, !.reserved_sectors = 32, !.root_entries = 0, !.root_cluster = 2,
                   !.fs_info_sector = 1, !.backup_boot_sector = 6, !.fs_type = 32]

TotalSectors(b) == IF b.total_sectors # 0 THEN b.total_sectors ELSE b.total_sectors_large

BytesPerClusterOf(b) == b.bytes_per_sector * b.sectors_per_cluster

RootSectors(b) == (b.root_entries * 32) \div b.bytes_per_sector

\* calculate_sectors_per_fat_*: the FATs themselves count as data.
DataClusters(b) == (TotalSectors(b) - b.reserved_sectors - RootSectors(b)) \div b.sectors_per_cluster

\* Mutant: a byte for each entry.
SectorsPerFat12Short(b) == DivCeil(DataClusters(b), b.bytes_per_sector)

SectorsPerFat12(b) == DivCeil(DivCeil(DataClusters(b) * 3, 2), b.bytes_per_sector)

SectorsPerFat16(b) == DivCeil((DataClusters(b) + 2) * 2, b.bytes_per_sector)

WithMargin(sectors) == sectors + sectors \div 20

SectorsPerFat32(b) ==
    WithMargin(DivCeil(((TotalSectors(b) - b.reserved_sectors) \div b.sectors_per_cluster + 100) * 4,
                       b.bytes_per_sector))

\* configure_for_volume_size, FAT12 and FAT16
ClusterSectors16(n) ==
    CASE n < 4085 -> 1 [] n \in 4085..8189 -> 2 [] n \in 8190..16449 -> 1 [] n \in 16450..32679 -> 2
      [] n \in 32680..65524 -> 4 [] n \in 65525..131071 -> 8 [] OTHER -> 16

Sized16(b, n) ==
    [b EXCEPT !.total_sectors = IF n <= 65535 THEN n ELSE 0,
              !.total_sectors_large = IF n <= 65535 THEN 0 ELSE n,
              !.sectors_per_cluster = ClusterSectors16(n),
              !.root_entries = IF n < 16450 THEN 224 ELSE 512,
              !.fs_type = IF n < 4085 THEN 12 ELSE 16]

WithFatFor(b) ==
    [b EXCEPT !.sectors_per_fat = IF b.fs_type = 12 THEN SectorsPerFat12(b) ELSE SectorsPerFat16(b)]

\* configure_for_volume_size, FAT32
ClusterSectors32(n) ==
    CASE n < 532480 -> 1 [] n \in 532480..16777215 -> 8 [] n \in 16777216..33554431 -> 16
      [] n \in 33554432..67108863 -> 32 [] OTHER -> 64

Sized32(b, n) ==
    [b EXCEPT !.total_sectors = 0, !.total_sectors_large = n, !.sectors_per_cluster = ClusterSectors32(n)]

WithFat32For(b) == [b EXCEPT !.sectors_per_fat = SectorsPerFat32(b)]

ConfigureForVolumeSize(b, n) ==
    IF b.kind = 32 THEN WithFat32For(Sized32(b, n)) ELSE WithFatFor(Sized16(b, n))

\* validate
ValidCommon(b) ==
    /\ IsPowerOfTwo(b.bytes_per_sector) /\ b.bytes_per_sector \in 512..4096
    /\ IsPowerOfTwo(b.sectors_per_cluster) /\ BytesPerClusterOf(b) <= 32768
    /\ b.reserved_sectors # 0
    /\ b.fat_count \in 1..2
    /\ (b.root_entries * 32) % b.bytes_per_sector = 0
    /\ b.sectors_per_fat # 0

Valid16(b) == ValidCommon(b) /\ ((b.total_sectors = 0) # (b.total_sectors_large = 0))

Valid32(b) ==
    /\ ValidCommon(b)
    /\ b.backup_boot_sector < b.reserved_sectors /\ b.fs_info_sector < b.reserved_sectors
    /\ b.root_entries = 0
    /\ b.total_sectors = 0 /\ b.total_sectors_large # 0

Validate(b) == b.signature /\ IF b.kind = 32 THEN Valid32(b) ELSE Valid16(b)

---------------------------------------------------------------------------
\* The builders: each returns the block with a field changed; asserts guard them.

With(new) == boot' = new /\ configured' = 0

WithBytesPerSector(v) == IsPowerOfTwo(v) /\ v \in 512..4096 /\ With([boot EXCEPT !.bytes_per_sector = v])

WithSectorsPerCluster(v) == IsPowerOfTwo(v) /\ With([boot EXCEPT !.sectors_per_cluster = v])

WithReservedSectors(v) == v > 0 /\ With([boot EXCEPT !.reserved_sectors = v])

WithFatCount(v) == v > 0 /\ With([boot EXCEPT !.fat_count = v])

WithRootEntries(v) == boot.kind = 16 /\ With([boot EXCEPT !.root_entries = v])

\* For FAT12/16 the small count, or the large one when it does not fit; FAT32 always
\* has the large one.
WithTotalSectors(v) ==
    With(CASE boot.kind = 32 -> [boot EXCEPT !.total_sectors = 0, !.total_sectors_large = v]
           [] boot.kind = 16 /\ v <= 65535 ->
                [boot EXCEPT !.total_sectors = v, !.total_sectors_large = IF v # 0 THEN 0 ELSE @]
           [] boot.kind = 16 /\ v > 65535 -> [boot EXCEPT !.total_sectors_large = v, !.total_sectors = 0])

WithSectorsPerFat(v) == With([boot EXCEPT !.sectors_per_fat = v])

WithSystemSectors(info, backup) ==
    boot.kind = 32 /\ With([boot EXCEPT !.fs_info_sector = info, !.backup_boot_sector = backup])

WithOther(v) == boot' = [boot EXCEPT !.others = v] /\ UNCHANGED configured

\* Not for a volume too small for its own layout, which is an underflow in the code.
Configure(n) ==
    /\ n >= boot.reserved_sectors + (IF boot.kind = 32 THEN 0 ELSE RootSectors(Sized16(boot, n)))
    /\ boot' = ConfigureForVolumeSize(boot, n)
    /\ configured' = n

BootInit ==
    /\ boot \in {NewBootSector(12), NewBootSector(16), NewExtendedBpb}
    /\ builder_calls = 0 /\ configured = 0

\* The builders of the parameter blocks, and those of the boot sectors, which hand every
\* call on to their block.
BlockBuilders ==
    \/ \E v \in SectorSizes : WithBytesPerSector(v)
    \/ \E v \in ClusterSizes : WithSectorsPerCluster(v)
    \/ \E v \in ReservedCounts : WithReservedSectors(v)
    \/ \E v \in 1..3 : WithFatCount(v) \/ WithOther(v)
    \/ \E v \in {0, 65535, 65536} : WithTotalSectors(v)
    \/ \E v \in {0, 9} : WithSectorsPerFat(v)

SectorBuilders == boot.kind = 16 /\ (BlockBuilders \/ \E v \in {0, 224} : WithRootEntries(v))

ExtendedSectorBuilders == boot.kind = 32 /\ (BlockBuilders \/ WithSystemSectors(2, 7))

BootNext ==
    /\ builder_calls < MaxBuilderCalls
    /\ builder_calls' = builder_calls + 1
    /\ SectorBuilders \/ ExtendedSectorBuilders \/ \E n \in VolumeSectors : Configure(n)

---------------------------------------------------------------------------
FatEntriesIn(b) ==
    CASE b.fs_type = 12 -> (b.sectors_per_fat * b.bytes_per_sector * 2) \div 3
      [] b.fs_type = 16 -> (b.sectors_per_fat * b.bytes_per_sector) \div 2
      [] b.fs_type = 32 -> (b.sectors_per_fat * b.bytes_per_sector) \div 4

\* The clusters there are once the FATs have taken their sectors.
ClustersOf(b) ==
    (TotalSectors(b) - b.reserved_sectors - RootSectors(b) - b.fat_count * b.sectors_per_fat)
      \div b.sectors_per_cluster

\* A block configured for a volume, after any builder calls, describes that volume: with
\* two FATs each has an entry for every cluster, the total is the volume's, and validate
\* accepts it when the sector divides the root directory and holds a legal cluster.
ConfiguredVolumeIsSound ==
    configured # 0 =>
      /\ TotalSectors(boot) = configured
      /\ boot.fat_count = 2 => FatEntriesIn(boot) >= ClustersOf(boot) + 2
      /\ /\ boot.fat_count \in 1..2
         /\ (boot.root_entries * 32) % boot.bytes_per_sector = 0
         /\ BytesPerClusterOf(boot) <= 32768
         /\ boot.kind = 32 => boot.reserved_sectors > 7
         => Validate(boot)
====================================================================================

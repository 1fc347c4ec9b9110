---------------------------- MODULE ExfatGeometry ----------------------------
(***************************************************************************)
(* ExfatBuilder._geometry: where the FAT and the cluster heap of an image  *)
(* lie, with the constants of consts.py.  The length of the FAT depends on *)
(* the number of clusters, which depends on where the heap starts, which   *)
(* depends on the length of the FAT; the code iterates at most eight       *)
(* times.  Quantities are in sectors, counted from the start of the image  *)
(* (PARTITION_START_LBA is 0).                                             *)
(***************************************************************************)
EXTENDS Integers

CONSTANT Images  \* sizes of an image, in sectors

SECTOR_SIZE                    == 512
SECTORS_PER_CLUSTER            == 256
CLUSTER_HEAP_ALIGNMENT_SECTORS == 2048
BOOT_REGION_TOTAL_SECTORS      == 24
FAT_OFFSET                     == 2048
FatEntriesPerSector            == SECTOR_SIZE \div 4
MAX_ROUNDS                     == 8
SectorsPerGiB                  == 2097152
IMAGE_SIZE_GIB_MAX             == 2047

\* What the configuration and ExfatBuilder.__init__ accept.
ASSUME ImagesAssumption ==
    \A sectors \in Images :
        /\ sectors \in Nat
        /\ sectors > BOOT_REGION_TOTAL_SECTORS
        /\ sectors \div SectorsPerGiB <= IMAGE_SIZE_GIB_MAX

VARIABLES
    total_sectors,
    fat_length,
    cluster_heap_offset,
    cluster_count,
    round,     \* iterations done
    returned   \* the three quantities are final

vars == <<total_sectors, fat_length, cluster_heap_offset, cluster_count, round, returned>>

\* Python's // on integers is floor division, and so is \div.
RoundUp(n, unit) == ((n + unit - 1) \div unit) * unit

AtLeast(low, n) == IF n < low THEN low ELSE n

\* The heap starts at the first aligned sector after a FAT of this length.
HeapAfter(length) == RoundUp(FAT_OFFSET + length, CLUSTER_HEAP_ALIGNMENT_SECTORS)

ClustersFrom(heap) == (total_sectors - heap) \div SECTORS_PER_CLUSTER

\* Mutants: a two-byte FAT, and no minimum of one sector.
FatFor_TwoBytes(count) ==
    RoundUp(AtLeast(1, (count * 2 + SECTOR_SIZE - 1) \div SECTOR_SIZE), SECTORS_PER_CLUSTER)

FatFor_NoMinimum(count) ==
    RoundUp((count * 4 + SECTOR_SIZE - 1) \div SECTOR_SIZE, SECTORS_PER_CLUSTER)

\* Whole clusters of sectors, four bytes for each cluster.
FatFor(count) ==
    RoundUp(AtLeast(1, (count * 4 + SECTOR_SIZE - 1) \div SECTOR_SIZE), SECTORS_PER_CLUSTER)

TypeOK ==
    /\ total_sectors \in Images
    /\ fat_length \in Nat \ {0}
    /\ cluster_heap_offset \in Nat
    /\ cluster_count \in Int
    /\ round \in 0 .. MAX_ROUNDS
    /\ returned \in BOOLEAN

Init ==
    /\ total_sectors \in Images
    /\ fat_length = SECTORS_PER_CLUSTER
    /\ cluster_heap_offset = FAT_OFFSET + SECTORS_PER_CLUSTER
    /\ cluster_count = 0
    /\ round = 0
    /\ returned = FALSE

\* Mutant: seven iterations.
MoreRounds_Seven == round < MAX_ROUNDS - 1

MoreRounds == round < MAX_ROUNDS

\* One iteration; a fixed point ends the loop.
Iterate ==
    /\ ~returned
    /\ MoreRounds
    /\ cluster_heap_offset' = HeapAfter(fat_length)
    /\ cluster_count' = ClustersFrom(cluster_heap_offset')
    /\ fat_length' = FatFor(cluster_count')
    /\ returned' = (fat_length' = fat_length)
    /\ round' = round + 1
    /\ UNCHANGED total_sectors

\* The loop ends without a fixed point and the last values are returned.
GiveUp ==
    /\ ~returned
    /\ ~MoreRounds
    /\ returned' = TRUE
    /\ UNCHANGED <<total_sectors, fat_length, cluster_heap_offset, cluster_count, round>>

Next == Iterate \/ GiveUp

Spec == Init /\ [][Next]_vars

-----------------------------------------------------------------------------

\* The FAT ends before the first cluster, although for some sizes the eight
\* iterations of _geometry alternate between two lengths, never reach a fixed
\* point, and return a heap computed from the other length.
FatBeforeHeap == returned => FAT_OFFSET + fat_length <= cluster_heap_offset

\* The FAT has an entry for every cluster number, 2 .. cluster_count + 1.
FatComplete == fat_length * FatEntriesPerSector >= cluster_count + 2

\* _geometry sizes the FAT without its two reserved entries.  For an image of
\* a whole number of GiB (image_size_gib) the rounding always makes up for it.
WholeGiBFatComplete ==
    returned /\ total_sectors % SectorsPerGiB = 0 => FatComplete

=============================================================================

------------------------------ MODULE HotRanges ------------------------------
(***************************************************************************)
(* SectorMapper.get_hot_ranges: the byte ranges <<start, length>> that the *)
(* preloader reads to warm the cache of the export, merged and then cut    *)
(* into requests of at most MAX_METADATA_PREFETCH_BYTES.                   *)
(***************************************************************************)
EXTENDS VolumeProperties

CONSTANT MAX_METADATA_PREFETCH_BYTES

ASSUME PrefetchAssumption == MAX_METADATA_PREFETCH_BYTES \in Nat \ {0}

VARIABLES
    loop,       \* "none", "merge", "split" or "ready"
    policy,     \* [directories, fat : BOOLEAN], what the worker asked for
    pending,    \* ranges the first loop has still to see
    merged,     \* what it has made of the others, and the second has still to see
    bounded     \* the pieces it has cut them into

hotVars == <<loop, policy, pending, merged, bounded>>
allVars == <<vars, hotVars>>

InBytes(start, count) == <<start * SECTOR_SIZE, count * SECTOR_SIZE>>

\* ExfatBuilder._ranges: the maximal runs of stored sectors.
hot_ranges ==
    LET stored == DOMAIN metadata
        firsts == {s \in stored : s - 1 \notin stored}
        lasts  == {s \in stored : s + 1 \notin stored}
        runs   == {r \in firsts \X lasts : r[1] <= r[2] /\ r[1] .. r[2] \subseteq stored}
    IN  {InBytes(r[1], r[2] - r[1] + 1) : r \in runs}

\* The FAT sectors with the entries of a run of clusters.
FatRange(first, count) ==
    LET sector == (first * 4) \div SECTOR_SIZE
    IN  InBytes(fat_offset + sector, CeilDiv((first + count) * 4, SECTOR_SIZE) - sector)

\* The ranges that the policy selects; of the root one cluster counts.
DirectoryRanges ==
    hot_ranges
    \cup {FatRange(first_cluster[Root], 1)}
    \cup {FatRange(first_cluster[n], clusters[n]) : n \in {d \in Dirs \ {Root} : clusters[d] > 0}}
    \cup {InBytes(BitmapStart, CeilDiv(bitmap_length, SECTOR_SIZE))}

Selected(p) ==
    (IF p.directories THEN DirectoryRanges ELSE {})
    \cup (IF p.fat THEN {InBytes(fat_offset, fat_length)} ELSE {})

Before(r, q) == r[1] < q[1] \/ (r[1] = q[1] /\ r[2] < q[2])

HotInit ==
    /\ Init
    /\ loop = "none"
    /\ policy = [directories |-> FALSE, fat |-> FALSE]
    /\ pending = {} /\ merged = <<>> /\ bounded = <<>>

Collect(directories, fat) ==
    /\ Built /\ loop = "none"
    /\ policy' = [directories |-> directories, fat |-> fat]
    /\ pending' = {r \in Selected(policy') : r[2] > 0}
    /\ loop' = "merge"
    /\ UNCHANGED <<vars, merged, bounded>>

End(range) == range[1] + range[2]

\* Mutant: a range inside the last one cuts it short.
Merged_Shrinks(done, range) ==
    LET prev == done[Len(done)]
    IN  IF done # <<>> /\ range[1] <= End(prev)
        THEN [done EXCEPT ![Len(done)] = <<prev[1], End(range) - prev[1]>>]
        ELSE Append(done, range)

\* A range that starts inside or at the end of the last one extends it.
Merged(done, range) ==
    LET prev == done[Len(done)]
    IN  IF done # <<>> /\ range[1] <= End(prev)
        THEN [done EXCEPT ![Len(done)] = <<prev[1], AtLeast(End(prev), End(range)) - prev[1]>>]
        ELSE Append(done, range)

\* The ranges are seen in the order of sorted.
MergeNext ==
    /\ loop = "merge"
    /\ \E range \in pending :
          /\ \A other \in pending : other = range \/ Before(range, other)
          /\ merged' = Merged(merged, range)
          /\ pending' = pending \ {range}
    /\ UNCHANGED <<vars, loop, policy, bounded>>

BeginSplit ==
    /\ loop = "merge" /\ pending = {}
    /\ loop' = "split"
    /\ UNCHANGED <<vars, policy, pending, merged, bounded>>

\* Mutant: the rest starts where the piece did.
SplitPiece_Stays ==
    /\ loop = "split" /\ merged # <<>>
    /\ LET r == Head(merged)
           m == MAX_METADATA_PREFETCH_BYTES
       IN  \/ /\ r[2] > m
              /\ bounded' = Append(bounded, <<r[1], m>>)
              /\ merged' = <<<<r[1], r[2] - m>>>> \o Tail(merged)
           \/ /\ r[2] <= m
              /\ bounded' = Append(bounded, r)
              /\ merged' = Tail(merged)
    /\ UNCHANGED <<vars, loop, policy, pending>>

\* The first range is cut, or what is left of it is kept.
SplitPiece ==
    /\ loop = "split" /\ merged # <<>>
    /\ LET r == Head(merged)
           m == MAX_METADATA_PREFETCH_BYTES
       IN  \/ /\ r[2] > m
              /\ bounded' = Append(bounded, <<r[1], m>>)
              /\ merged' = [merged EXCEPT ![1] = <<r[1] + m, r[2] - m>>]
           \/ /\ r[2] <= m
              /\ bounded' = IF r[2] > 0 THEN Append(bounded, r) ELSE bounded
              /\ merged' = Tail(merged)
    /\ UNCHANGED <<vars, loop, policy, pending>>

EndSplit ==
    /\ loop = "split" /\ merged = <<>>
    /\ loop' = "ready"
    /\ UNCHANGED <<vars, policy, pending, merged, bounded>>

HotNext ==
    \/ Build /\ UNCHANGED hotVars
    \/ \E directories, fat \in BOOLEAN : Collect(directories, fat)
    \/ MergeNext \/ BeginSplit \/ SplitPiece \/ EndSplit

HotSpec == HotInit /\ [][HotNext]_allVars

-----------------------------------------------------------------------------

\* No request of the preloader is larger than the limit, and none reads a byte
\* that an earlier one has read: the ranges are ascending and disjoint.
HotBounded ==
    loop = "ready" =>
        /\ \A i \in 1 .. Len(bounded) : bounded[i][2] \in 1 .. MAX_METADATA_PREFETCH_BYTES
        /\ \A i, j \in 1 .. Len(bounded) : i < j => End(bounded[i]) <= bounded[j][1]

\* The clusters whose FAT entries the code takes for those of the directories:
\* of the root, which is not among the entries of the layout, only the first,
\* although tests/test_virtual_fs.py:265 speaks of the directories' chains.
DirectoryClusters == {first_cluster[Root]} \cup UNION {Run(n) : n \in Dirs \ {Root}}

\* What the policies say to the code: directories of every depth.  (Not what
\* specs/04-caching-layer.md:259 and :305-306 say: "Only top-level directory
\* clusters are preloaded. Nested directories (game subfolders) are warmed
\* lazily"; get_hot_ranges and ExfatBuilder.build make no such difference.)
Wanted ==
    (IF policy.directories
     THEN DOMAIN metadata
          \cup {s \in BitmapStart .. BitmapStart + cluster_count : InBitmap(s)}
          \cup {fat_offset + c \div EntriesPerSector : c \in DirectoryClusters}
     ELSE {})
    \cup (IF policy.fat THEN {s \in fat_offset .. fat_offset + fat_length : InFat(s)} ELSE {})

Covered ==
    UNION {(bounded[i][1] \div SECTOR_SIZE) .. ((End(bounded[i]) - 1) \div SECTOR_SIZE)
            : i \in 1 .. Len(bounded)}

\* After merging and splitting, get_hot_ranges covers exactly the sectors its
\* policy stands for: none is lost and none added, and no sector of a file, which
\* would make the preloader wait for the network share.  Only the entry that a
\* short FAT lacks is looked for in a sector that is not metadata.
HotExact ==
    loop = "ready" =>
        /\ Covered = Wanted
        /\ \A s \in Covered : IsMetadata(s) \/ (FatShort /\ s = fat_offset + fat_length)

=============================================================================

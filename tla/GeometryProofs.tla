--------------------------- MODULE GeometryProofs ---------------------------
(***************************************************************************)
(* The FAT never overlaps the heap, for every image size.                  *)
(*                                                                         *)
(* A longer FAT pushes the heap back, a later heap holds fewer clusters,   *)
(* and fewer clusters need a shorter FAT: an iteration is an antitone      *)
(* function of the length.  Starting from the shortest possible FAT, the   *)
(* lengths therefore alternate around the fixed point, and the FAT is      *)
(* never longer than the one the heap was computed from after an even      *)
(* number of iterations.  MAX_ROUNDS is even.                              *)
(***************************************************************************)
EXTENDS ExfatGeometry, TLAPS

\* The length belongs to the heap.  It fits before the heap after an even
\* number of iterations, and after an odd number the next heap is not before
\* this one.
Alternating ==
    /\ fat_length >= SECTORS_PER_CLUSTER
    /\ round = 0 => fat_length = SECTORS_PER_CLUSTER /\ ~returned
    /\ round > 0 => /\ cluster_count = ClustersFrom(cluster_heap_offset)
                   /\ fat_length = FatFor(cluster_count)
                   /\ RoundUp(cluster_heap_offset, CLUSTER_HEAP_ALIGNMENT_SECTORS)
                         = cluster_heap_offset
    /\ ~returned /\ round % 2 = 0 => FAT_OFFSET + fat_length <= cluster_heap_offset
    /\ round % 2 = 1 => cluster_heap_offset <= HeapAfter(fat_length)

\* No FAT is longer than the one of the largest image, 64 MiB.
MaxFat == 131072
HeapBounded == fat_length <= MaxFat /\ cluster_heap_offset <= HeapAfter(MaxFat)

IInv == TypeOK /\ Alternating /\ FatBeforeHeap /\ HeapBounded

\* Rounding up to the alignment is monotone, extensive and idempotent, so the
\* heap is the first aligned sector after the FAT.
LEMMA HeapFacts ==
    /\ \A a, b \in Nat : a <= b => HeapAfter(a) <= HeapAfter(b)
    /\ \A a \in Nat :
          /\ HeapAfter(a) \in Nat
          /\ FAT_OFFSET + a <= HeapAfter(a)
          /\ RoundUp(HeapAfter(a), CLUSTER_HEAP_ALIGNMENT_SECTORS) = HeapAfter(a)
    /\ \A a, h \in Nat :
          /\ RoundUp(h, CLUSTER_HEAP_ALIGNMENT_SECTORS) = h
          /\ FAT_OFFSET + a <= h
          => HeapAfter(a) <= h
BY DEF HeapAfter, RoundUp, FAT_OFFSET, CLUSTER_HEAP_ALIGNMENT_SECTORS

\* The length of the FAT is monotone in the number of clusters and never less
\* than one cluster's worth of sectors.
LEMMA FatFacts ==
    /\ \A c \in Int : FatFor(c) \in Nat /\ FatFor(c) >= SECTORS_PER_CLUSTER
    /\ \A c, d \in Int : c <= d => FatFor(c) <= FatFor(d)
BY DEF FatFor, RoundUp, AtLeast, SECTOR_SIZE, SECTORS_PER_CLUSTER

\* A later heap holds no more clusters.
LEMMA ClusterFacts ==
    ASSUME total_sectors \in Nat
    PROVE  /\ \A h \in Nat : ClustersFrom(h) \in Int
           /\ \A g, h \in Nat : g <= h => ClustersFrom(h) <= ClustersFrom(g)
BY DEF ClustersFrom, SECTORS_PER_CLUSTER

\* No image has more clusters than a FAT of MaxFat sectors describes.
LEMMA SizeFacts ==
    ASSUME total_sectors \in Images
    PROVE  /\ total_sectors \in Nat
           /\ \A h \in Nat : FatFor(ClustersFrom(h)) <= MaxFat
BY ImagesAssumption
   DEF ClustersFrom, FatFor, RoundUp, AtLeast, SECTOR_SIZE, SECTORS_PER_CLUSTER, MaxFat,
       SectorsPerGiB, IMAGE_SIZE_GIB_MAX

\* The loop starts inside the invariant.
LEMMA InitIInv == Init => IInv
<1> SUFFICES ASSUME Init PROVE IInv
    OBVIOUS
<1> USE DEF Init, FAT_OFFSET, SECTORS_PER_CLUSTER
<1>1. TypeOK
    <2>1. returned \in BOOLEAN /\ total_sectors \in Images
        BY Zenon
    <2>2. /\ fat_length \in Nat \ {0} /\ cluster_heap_offset \in Nat
          /\ cluster_count \in Int /\ round \in 0 .. MAX_ROUNDS
        BY DEF MAX_ROUNDS
    <2>. QED BY <2>1, <2>2 DEF TypeOK
<1>2. Alternating
    BY DEF Alternating
<1>3. FatBeforeHeap /\ HeapBounded
    BY DEF FatBeforeHeap, HeapBounded, MaxFat, HeapAfter, RoundUp, CLUSTER_HEAP_ALIGNMENT_SECTORS
<1>. QED BY <1>1, <1>2, <1>3 DEF IInv

\* An iteration keeps it: the new length is at most the old one after an odd
\* number of iterations and at least the old one after an even number.
LEMMA IterateIInv == IInv /\ Iterate => IInv'
<1> SUFFICES ASSUME IInv, Iterate PROVE IInv'
    OBVIOUS
<1> DEFINE h == cluster_heap_offset'
           c == ClustersFrom(h)
<1> USE DEF IInv, TypeOK
<1>1. /\ h = HeapAfter(fat_length) /\ h \in Nat
      /\ cluster_count' = c /\ c \in Int
      /\ fat_length' = FatFor(c)
      /\ total_sectors \in Nat /\ total_sectors' = total_sectors
      /\ round' = round + 1 /\ round < MAX_ROUNDS /\ ~returned
      /\ returned' = (fat_length' = fat_length)
    BY HeapFacts, ClusterFacts, SizeFacts DEF Iterate, MoreRounds, ClustersFrom
<1>2. /\ fat_length' \in Nat /\ fat_length' >= SECTORS_PER_CLUSTER
      /\ FAT_OFFSET + fat_length <= h
      /\ RoundUp(h, CLUSTER_HEAP_ALIGNMENT_SECTORS) = h
    BY <1>1, HeapFacts, FatFacts
<1>3. TypeOK'
    BY <1>1, <1>2 DEF SECTORS_PER_CLUSTER, MAX_ROUNDS
<1>4. HeapBounded'
    <2>1. FatFor(c) <= MaxFat
        BY <1>1, SizeFacts
    <2>2. HeapAfter(fat_length) <= HeapAfter(MaxFat)
        BY HeapFacts DEF HeapBounded, MaxFat
    <2>. QED BY <1>1, <2>1, <2>2 DEF HeapBounded
<1>5. CASE round % 2 = 1
    <2>1. cluster_heap_offset <= h /\ fat_length = FatFor(ClustersFrom(cluster_heap_offset))
        BY <1>1, <1>5 DEF Alternating, MAX_ROUNDS
    <2>2. c <= ClustersFrom(cluster_heap_offset) /\ ClustersFrom(cluster_heap_offset) \in Int
        BY <1>1, <2>1, ClusterFacts
    <2>3. fat_length' <= fat_length
        BY <1>1, <2>1, <2>2, FatFacts
    <2>4. FAT_OFFSET + fat_length' <= h
        BY <1>2, <2>3, <1>1 DEF FAT_OFFSET
    <2>5. round' % 2 = 0
        BY <1>1, <1>5 DEF MAX_ROUNDS
    <2>. QED BY <1>1, <1>2, <1>3, <1>4, <2>4, <2>5 DEF Alternating, FatBeforeHeap, ClustersFrom, MAX_ROUNDS
<1>6. CASE round % 2 = 0
    <2>1. fat_length <= fat_length'
        <3>1. CASE round = 0
            BY <1>2, <3>1 DEF Alternating
        <3>2. CASE round > 0
            <4>1. /\ fat_length = FatFor(ClustersFrom(cluster_heap_offset))
                  /\ h <= cluster_heap_offset
                BY <1>1, <1>6, <3>2, HeapFacts DEF Alternating
            <4>2. ClustersFrom(cluster_heap_offset) <= c /\ ClustersFrom(cluster_heap_offset) \in Int
                BY <1>1, <4>1, ClusterFacts
            <4>. QED BY <1>1, <4>1, <4>2, FatFacts
        <3>. QED BY <3>1, <3>2
    <2>2. h <= HeapAfter(fat_length')
        BY <1>1, <1>2, <2>1, HeapFacts
    <2>3. round' % 2 = 1
        BY <1>1, <1>6 DEF MAX_ROUNDS
    <2>4. returned' => FAT_OFFSET + fat_length' <= h
        BY <1>1, <1>2
    <2>. QED BY <1>1, <1>2, <1>3, <1>4, <2>2, <2>3, <2>4 DEF Alternating, FatBeforeHeap, ClustersFrom, MAX_ROUNDS
<1>. QED BY <1>5, <1>6 DEF MAX_ROUNDS

\* Giving up after the eighth iteration is safe because eight is even.
LEMMA GiveUpIInv == IInv /\ GiveUp => IInv'
BY DEF IInv, GiveUp, MoreRounds, TypeOK, Alternating, FatBeforeHeap, HeapBounded, ClustersFrom, MAX_ROUNDS

\* The quantities of _geometry stay within the invariant.
THEOREM Invariance == Spec => []IInv
<1>1. IInv /\ UNCHANGED vars => IInv'
    BY DEF IInv, vars, TypeOK, Alternating, FatBeforeHeap, HeapBounded, ClustersFrom
<1>2. IInv /\ [Next]_vars => IInv'
    BY <1>1, IterateIInv, GiveUpIInv DEF Next
<1>. QED BY InitIInv, <1>2, PTL DEF Spec

\* Every quantity _geometry computes is well typed: the heap has an offset, the
\* FAT at least one sector, and the loop ends within its rounds.
THEOREM TypeCorrect == Spec => []TypeOK
BY Invariance, PTL DEF IInv

\* For every accepted image size the FAT that _geometry returns ends before
\* the heap it returns, even when its iterations find no fixed point.
THEOREM FatNeverOverlapsHeap == Spec => []FatBeforeHeap
BY Invariance, PTL DEF IInv

\* What ExfatBuilder is given, its GeometryAssumption.
HandedOver ==
    /\ 24 <= FAT_OFFSET
    /\ fat_length \in Nat /\ cluster_heap_offset \in Nat
    /\ FAT_OFFSET + fat_length <= cluster_heap_offset
    /\ cluster_count <= fat_length * (SECTOR_SIZE \div 4)

\* For every accepted image size, image_size_bytes included, what _geometry
\* returns is what the module of the builder assumes of it: the FAT ends before
\* the heap and has as many entries as there are clusters, the two reserved
\* ones included or not.
THEOREM BuilderIsGiven == Spec => [](returned => HandedOver)
<1>1. \A c \in Int : c <= FatFor(c) * 128
    BY DEF FatFor, RoundUp, AtLeast, SECTOR_SIZE, SECTORS_PER_CLUSTER
<1>2. IInv => (returned => HandedOver)
    <2>. SUFFICES ASSUME IInv, returned PROVE HandedOver
        OBVIOUS
    <2>1. round > 0 /\ cluster_count \in Int /\ fat_length = FatFor(cluster_count)
        BY DEF IInv, TypeOK, Alternating
    <2>2. SECTOR_SIZE \div 4 = 128 /\ 24 <= FAT_OFFSET
        BY DEF SECTOR_SIZE, FAT_OFFSET
    <2>. QED BY <1>1, <2>1, <2>2 DEF IInv, TypeOK, FatBeforeHeap, HandedOver
<1>. QED BY <1>2, Invariance, PTL

\* For every image of a whole number of GiB the FAT that _geometry returns has
\* an entry for every cluster, although it is sized without the two reserved
\* entries: the number of clusters is never within two of a full FAT.
THEOREM WholeGiBComplete == Spec => []WholeGiBFatComplete
<1>1. IInv => WholeGiBFatComplete
    <2> SUFFICES ASSUME IInv, returned, total_sectors % SectorsPerGiB = 0
                 PROVE  FatComplete
        BY DEF WholeGiBFatComplete
    <2> DEFINE g == total_sectors \div SectorsPerGiB
               k == cluster_heap_offset \div CLUSTER_HEAP_ALIGNMENT_SECTORS
    <2>1. /\ g \in 0 .. IMAGE_SIZE_GIB_MAX /\ total_sectors = g * SectorsPerGiB
        BY ImagesAssumption DEF IInv, TypeOK, SectorsPerGiB, IMAGE_SIZE_GIB_MAX
    <2>2. /\ round > 0
          /\ cluster_count = ClustersFrom(cluster_heap_offset)
          /\ fat_length = FatFor(cluster_count)
        BY DEF IInv, TypeOK, Alternating, MAX_ROUNDS
    <2>3. k \in 1 .. 65 /\ cluster_heap_offset = k * CLUSTER_HEAP_ALIGNMENT_SECTORS
        BY <2>2 DEF IInv, TypeOK, Alternating, FatBeforeHeap, HeapBounded, HeapAfter, RoundUp, MaxFat,
           FAT_OFFSET, CLUSTER_HEAP_ALIGNMENT_SECTORS, SECTORS_PER_CLUSTER
    <2>4. cluster_count = 8192 * g - 8 * k
        BY <2>1, <2>2, <2>3 DEF ClustersFrom, SECTORS_PER_CLUSTER, SectorsPerGiB,
           CLUSTER_HEAP_ALIGNMENT_SECTORS
    <2>. HIDE DEF g, k
    <2>. DEFINE m == 1024 * g - k
                q == AtLeast(1, (cluster_count * 4 + SECTOR_SIZE - 1) \div SECTOR_SIZE)
                n == (q + SECTORS_PER_CLUSTER - 1) \div SECTORS_PER_CLUSTER
    <2>5. m \in Int /\ cluster_count = 8 * m
        BY <2>1, <2>3, <2>4 DEF IMAGE_SIZE_GIB_MAX
    <2>6. \A j \in Int : 4096 * j # m
      <3>1. SUFFICES ASSUME NEW j \in Int, 4096 * j = 1024 * g - k PROVE FALSE
        OBVIOUS
      <3>2. g - 4 * j \in Int /\ k = 1024 * (g - 4 * j) /\ k \in 1 .. 65
        BY <2>1, <2>3, <3>1 DEF IMAGE_SIZE_GIB_MAX
      <3>3. g - 4 * j <= 0 \/ g - 4 * j >= 1
        BY <3>2
      <3>4. QED
        BY <3>2, <3>3
    <2>. HIDE DEF m
    <2>7. q \in Nat /\ 16 * q >= m
        BY <2>5 DEF AtLeast, SECTOR_SIZE
    <2>8. fat_length = n * SECTORS_PER_CLUSTER
        BY <2>2 DEF FatFor, RoundUp
    <2>. HIDE DEF q
    <2>9. n \in Nat /\ 256 * n >= q
        BY <2>7 DEF SECTORS_PER_CLUSTER
    <2>. HIDE DEF n
    <2>10. 4096 * n >= m /\ 4096 * n # m
        BY <2>5, <2>6, <2>7, <2>9
    <2>. QED BY <2>5, <2>8, <2>9, <2>10 DEF FatComplete, SECTOR_SIZE, SECTORS_PER_CLUSTER, FatEntriesPerSector
<1>. QED BY Invariance, <1>1, PTL

=============================================================================

----------------------------- MODULE VolumeProofs -----------------------------
(***************************************************************************)
(* What the export serves is what the tree says, for every tree, every     *)
(* size of sectors, clusters and files, and every request.                 *)
(*                                                                         *)
(* Everything rests on the invariant of the layout (BuildInv of module     *)
(* BuilderProofs).  Part one derives from it what a driver finds in the    *)
(* FAT and in the bitmap.  Part two is about the loops of read and         *)
(* extents, part three about those of get_hot_ranges.                      *)
(***************************************************************************)
EXTENDS HotRanges, BuilderProofs

-----------------------------------------------------------------------------
\* Everything the export and the preloader do leaves the layout alone.
LEMMA ExportBuildInv == Spec => []BuildInv
<1>1. Init => BuildInv
    BY InitBuildInv DEF Init
<1>2. BuildInv /\ [Next]_vars => BuildInv'
    BY StepBuildInv DEF Next, vars, Build, Resize, BeginRead, BeginExtents, ReadPiece, ReadFails, EndRead,
       OpenRun, GrowRun, CloseRun, EndExtents, ExtentsFail, Answered
<1>. QED BY <1>1, <1>2, PTL DEF Spec

LEMMA PreloadBuildInv == HotSpec => []BuildInv
<1>1. HotInit => BuildInv
    BY InitBuildInv DEF HotInit, Init
<1>2. BuildInv /\ [HotNext]_allVars => BuildInv'
    BY StepBuildInv DEF HotNext, allVars, vars, Build, Collect, MergeNext, BeginSplit, SplitPiece, EndSplit
<1>. QED BY <1>1, <1>2, PTL DEF HotSpec

-----------------------------------------------------------------------------
(* Part one: the FAT and the bitmap on the device                          *)

\* Entries and bits have sizes.
LEMMA EntrySizes ==
    /\ EntriesPerSector \in Nat \ {0} /\ EntriesPerSector = SECTOR_SIZE \div 4
    /\ SECTOR_SIZE = EntriesPerSector * 4
    /\ SECTOR_SIZE * 8 \in Nat \ {0}
<1>1. SECTOR_SIZE \in Nat \ {0} /\ SECTOR_SIZE % 32 = 0
    BY SizesAssumption DEF ENTRY_BYTES
<1>. QED BY <1>1 DEF EntriesPerSector

\* The regions of the image do not overlap; nothing is stored in the FAT, nor
\* in the bitmap.
LEMMA GeneratedSectors ==
    ASSUME BuildInv, NEW s \in Int
    PROVE  /\ InFat(s) => s \notin DOMAIN metadata /\ ~InBitmap(s)
           /\ InBitmap(s) => s \notin DOMAIN metadata /\ s < HeapSector(upcase_cluster)
           /\ InFat(s) \/ InBitmap(s) => s \in Nat
<1>1. /\ fat_offset \in Nat /\ 24 <= fat_offset /\ fat_length \in Nat
      /\ cluster_heap_offset \in Nat /\ fat_offset + fat_length <= cluster_heap_offset
    BY GeometryAssumption DEF BOOT_REGION_SECTORS
<1>2. BitmapStart = cluster_heap_offset
    BY Sizes DEF BitmapStart, HeapSector, bitmap_cluster
<1>3. CeilDiv(bitmap_length, SECTOR_SIZE) \in Nat
      /\ BitmapStart + CeilDiv(bitmap_length, SECTOR_SIZE) <= HeapSector(upcase_cluster)
      /\ HeapSector(upcase_cluster) \in Nat
    <2>. DEFINE r == CeilDiv(bitmap_length, SECTOR_SIZE)
                q == AtLeast(1, r)
                area == bitmap_clusters * SECTORS_PER_CLUSTER
    <2>1. r \in Nat /\ q \in Nat /\ r <= q /\ q <= area
        BY FixedClusters, SectorsFit DEF bitmap_clusters
    <2>2. HeapSector(upcase_cluster) = BitmapStart + area
        BY FixedClusters, HeapSectors DEF BitmapStart
    <2>3. area \in Nat
        BY FixedClusters, Sizes
    <2>. HIDE DEF area, q, r
    <2>. QED BY <1>1, <1>2, <2>1, <2>2, <2>3 DEF r
<1>4. s \in DOMAIN metadata => s < 24 \/ HeapSector(upcase_cluster) <= s
    BY DEF BuildInv, StoredInv, SectorsInv, BootSectors, BOOT_REGION_SECTORS
<1>5. cluster_heap_offset <= HeapSector(upcase_cluster)
    BY <1>1, <1>2, <1>3
<1>. HIDE DEF BitmapStart
<1>6. InFat(s) => fat_offset <= s /\ s < fat_offset + fat_length
    BY DEF InFat
<1>7. InBitmap(s) => BitmapStart <= s /\ s < BitmapStart + CeilDiv(bitmap_length, SECTOR_SIZE)
    BY DEF InBitmap
<1>. QED BY <1>1, <1>2, <1>3, <1>4, <1>5, <1>6, <1>7

\* The FAT has the entries it has.
LEMMA FatHolds ==
    ASSUME NEW c \in Nat, HasEntry(c)
    PROVE  InFat(fat_offset + c \div EntriesPerSector) /\ fat_offset + c \div EntriesPerSector \in Nat
<1>. DEFINE q == c \div EntriesPerSector
<1>1. q \in Nat /\ q * EntriesPerSector <= c
    BY EntrySizes, DivMod
<1>2. /\ fat_offset \in Nat /\ fat_length \in Nat
      /\ c < fat_length * EntriesPerSector
    BY GeometryAssumption DEF HasEntry
<1>. HIDE DEF q
<1>3. q < fat_length
    <2>1. fat_length <= q => fat_length * EntriesPerSector <= q * EntriesPerSector
        BY <1>1, <1>2, EntrySizes, Times
    <2>. QED BY <1>1, <1>2, <2>1, EntrySizes
<1>4. InFat(fat_offset + q) /\ fat_offset + q \in Nat
    BY <1>1, <1>2, <1>3 DEF InFat
<1>. QED BY <1>4 DEF q

\* Which are those of all clusters but the last two, at least.
LEMMA FatLacks ==
    ASSUME NEW c \in Nat, c <= cluster_count + 1, ~HasEntry(c)
    PROVE  FatShort /\ c >= cluster_count /\ c \div EntriesPerSector = fat_length
<1>. DEFINE entries == fat_length * EntriesPerSector
<1>1. /\ fat_length \in Nat /\ cluster_count \in Nat /\ entries \in Nat
      /\ cluster_count <= entries /\ entries <= c
    <2>1. fat_length \in Nat /\ cluster_count \in Nat /\ cluster_count <= entries
        BY GeometryAssumption DEF EntriesPerSector
    <2>2. entries \in Nat
        BY <2>1, EntrySizes
    <2>. QED BY <2>1, <2>2 DEF HasEntry
<1>2. FatShort /\ c >= cluster_count
    <2>. HIDE DEF entries
    <2>1. entries < cluster_count + 2 /\ c >= cluster_count
        BY <1>1
    <2>. QED BY <2>1 DEF FatShort, entries
<1>3. EntriesPerSector \in Nat /\ EntriesPerSector >= 2
    BY SizesAssumption DEF ENTRY_BYTES, EntriesPerSector
<1>4. c < entries + EntriesPerSector
    <2>. HIDE DEF entries
    <2>. QED BY <1>1, <1>3
<1>5. c \div EntriesPerSector = fat_length
    <2>1. EntriesPerSector \in Nat \ {0}
        BY <1>3
    <2>. QED BY <1>1, <1>4, <2>1, DivBetween
<1>. QED BY <1>2, <1>5

\* It is served as generated.
LEMMA FatServed ==
    ASSUME BuildInv, NEW c \in Nat, HasEntry(c)
    PROVE  FatOnDevice(c) = FatEntry(c)
<1>. DEFINE q == c \div EntriesPerSector  s == fat_offset + q
<1>1. /\ q \in Nat /\ q * EntriesPerSector <= c
      /\ c < q * EntriesPerSector + EntriesPerSector
      /\ c % EntriesPerSector = c - q * EntriesPerSector
    BY EntrySizes, DivMod
<1>2. InFat(s) /\ s \in Int /\ fat_offset \in Nat
    BY FatHolds, GeometryAssumption
<1>. HIDE DEF q
<1>3. Map(s) = <<"fat", 0, q>>
    BY <1>1, <1>2, GeneratedSectors DEF Map, IsMetadata, MetadataSector
<1>4. fat_sector(q)[c % EntriesPerSector] = FatEntry(c)
    <2>. DEFINE i == c - q * EntriesPerSector
    <2>1. i \in 0 .. EntriesPerSector - 1 /\ q * EntriesPerSector + i = c
        BY <1>1, EntrySizes
    <2>2. c % EntriesPerSector = i
        BY <1>1
    <2>. HIDE DEF i
    <2>. QED BY <2>1, <2>2 DEF fat_sector
<1>. QED BY <1>3, <1>4 DEF FatOnDevice, q

\* The bitmap is served as generated, for every cluster of the image.
LEMMA BitmapServed ==
    ASSUME BuildInv, NEW c \in 2 .. cluster_count + 1
    PROVE  InUseOnDevice(c) <=> \E r \in allocated_ranges : Holds(r, c)
<1>. DEFINE bit == c - 2  d == SECTOR_SIZE * 8  q == bit \div d  s == BitmapStart + q
            r == CeilDiv(bitmap_length, SECTOR_SIZE)
<1>0. cluster_count \in Nat /\ bit \in Nat /\ bit < cluster_count /\ d \in Nat \ {0}
    BY GeometryAssumption, EntrySizes
<1>1. /\ q \in Nat /\ q * d <= bit /\ bit < q * d + d
      /\ bit % d = bit - q * d
    <2>. HIDE DEF bit, d
    <2>. QED BY <1>0, DivMod
<1>2. /\ bitmap_length \in Nat /\ cluster_count <= bitmap_length * 8
      /\ r \in Nat /\ bitmap_length <= r * SECTOR_SIZE
    <2>1. bitmap_length \in Nat /\ cluster_count <= bitmap_length * 8
        <3>1. 8 \in Nat \ {0}
            OBVIOUS
        <3>. QED BY <1>0, <3>1, CeilFacts DEF bitmap_length
    <2>. QED BY <2>1, CeilFacts, Sizes
<1>3. BitmapStart \in Nat
    BY HeapSectorType DEF BitmapStart, bitmap_cluster
<1>. HIDE DEF q, r, bit
<1>4. q < r
    <2>1. cluster_count <= r * d
        <3>1. r * SECTOR_SIZE \in Nat /\ r * d = (r * SECTOR_SIZE) * 8
            BY <1>2, Sizes
        <3>. QED BY <1>0, <1>2, <3>1
    <2>2. r <= q => r * d <= q * d
        BY <1>0, <1>1, <1>2, Times
    <2>3. r * d \in Nat /\ q * d \in Nat
        BY <1>0, <1>1, <1>2
    <2>. HIDE DEF d
    <2>. QED BY <1>0, <1>1, <1>2, <2>1, <2>2, <2>3
<1>5. InBitmap(s) /\ s \in Int
    BY <1>1, <1>2, <1>3, <1>4 DEF InBitmap, r
<1>6. Map(s) = <<"bitmap", 0, q>>
    BY <1>1, <1>3, <1>5, GeneratedSectors DEF Map, IsMetadata, MetadataSector
<1>7. bitmap_sector(q)[bit % d] <=> \E h \in allocated_ranges : Holds(h, c)
    <2>. DEFINE i == bit - q * d
    <2>1. i \in 0 .. d - 1 /\ 2 + q * d + i = c
        <3>. HIDE DEF d
        <3>. QED BY <1>0, <1>1 DEF bit
    <2>2. bit % d = i
        BY <1>1
    <2>3. q * SECTOR_SIZE * 8 = q * d
        BY <1>1, Sizes
    <2>. HIDE DEF i
    <2>4. bitmap_sector(q)[i] <=> \E h \in allocated_ranges : Holds(h, 2 + q * SECTOR_SIZE * 8 + i)
        BY <2>1 DEF bitmap_sector
    <2>. QED BY <2>1, <2>2, <2>3, <2>4
<1>. QED BY <1>6, <1>7 DEF InUseOnDevice, q, bit

\* The run that holds a cluster of a node is that of the node.
LEMMA OneHolder ==
    ASSUME BuildInv, Allocated, NEW n \in Existing, NEW c \in Run(n), NEW r \in allocated_ranges
    PROVE  Holds(r, c) <=> r = <<first_cluster[n], clusters[n]>>
<1>1. \A m \in Existing :
        /\ first_cluster[m] \in Nat /\ clusters[m] \in Nat \ {0}
        /\ FirstFree <= first_cluster[m]
    BY PlacedNode
<1>2. c \in Nat /\ first_cluster[n] <= c /\ c < first_cluster[n] + clusters[n] /\ FirstFree <= c
    BY <1>1, FirstFreeType DEF Run
<1>3. CASE r = <<bitmap_cluster, bitmap_clusters>> \/ r = <<upcase_cluster, upcase_clusters>>
    <2>1. ~Holds(r, c)
        BY <1>2, <1>3, FixedClusters DEF Holds
    <2>2. first_cluster[n] # bitmap_cluster /\ first_cluster[n] # upcase_cluster
        BY <1>1, FixedClusters
    <2>. QED BY <1>3, <2>1, <2>2
<1>4. ASSUME NEW m \in Existing, r = <<first_cluster[m], clusters[m]>>
      PROVE  Holds(r, c) <=> r = <<first_cluster[n], clusters[n]>>
    <2>1. Holds(r, c) <=> c \in Run(m)
        BY <1>1, <1>2, <1>4 DEF Holds, Run
    <2>2. m # n => Run(m) \cap Run(n) = {}
        BY DEF BuildInv, IInv, RunsDisjoint, Allocated, Placed
    <2>3. first_cluster[m] \in Run(m)
        BY <1>1 DEF Run
    <2>4. m # n => first_cluster[m] # first_cluster[n]
        <3>1. first_cluster[n] \in Run(n)
            BY <1>1 DEF Run
        <3>. QED BY <2>2, <2>3, <3>1
    <2>. QED BY <1>4, <2>1, <2>2, <2>4
<1>. QED BY <1>3, <1>4 DEF allocated_ranges

\* The FAT entry of a cluster of a node.
LEMMA EntryOfNode ==
    ASSUME BuildInv, Allocated, NEW n \in Existing, NEW c \in Run(n)
    PROVE  FatEntry(c) = IF c + 1 \in Run(n) THEN c + 1 ELSE EOC
<1>. DEFINE mine == <<first_cluster[n], clusters[n]>>
            holders == {r \in allocated_ranges : Holds(r, c)}
<1>1. mine \in allocated_ranges
    BY DEF allocated_ranges
<1>2. holders = {mine}
    BY <1>1, OneHolder
<1>3. /\ first_cluster[n] \in Nat /\ clusters[n] \in Nat \ {0}
      /\ FirstFree <= first_cluster[n]
    BY PlacedNode
<1>4. c \in Nat /\ c # 0 /\ c # 1 /\ first_cluster[n] <= c /\ c < first_cluster[n] + clusters[n]
    BY <1>3, FirstFreeType DEF Run
<1>. DEFINE holder == CHOOSE r \in holders : \A q \in holders : r[1] <= q[1]
<1>5. holder = mine
    <2>1. mine[1] <= mine[1]
        BY <1>3
    <2>. QED BY <1>2, <2>1
<1>6. FatEntry(c) = IF c = mine[1] + mine[2] - 1 THEN EOC ELSE c + 1
    BY <1>2, <1>4, <1>5 DEF FatEntry
<1>. QED BY <1>3, <1>4, <1>6 DEF Run

\* An entry is zero for the clusters that nobody has.
LEMMA EntryInUse ==
    \A c \in Nat : c > 1 => (FatEntry(c) # 0 <=> \E r \in allocated_ranges : Holds(r, c))
BY DEF FatEntry, EOC

\* Every cluster of a node is one of the image.
LEMMA InImage ==
    ASSUME BuildInv, Built, NEW n \in Existing, NEW c \in Run(n)
    PROVE  c \in Nat /\ c <= cluster_count + 1
<1>1. Allocated
    BY DEF Built, Allocated
<1>2. c \in Nat /\ c < next_cluster
    BY <1>1, PlacedNode DEF Run, BuildInv, IInv, AllocTypeOK
<1>3. next_cluster - 2 <= cluster_count /\ next_cluster \in Nat
    BY DEF Built, BuildInv, IInv, AllocTypeOK, LoopInv, FitsImage
<1>. QED BY <1>2, <1>3, GeometryAssumption

LEMMA FatFromLayout == BuildInv => ChainsComplete /\ BitmapMatchesFat
<1>. SUFFICES ASSUME BuildInv, Built PROVE ChainsComplete /\ BitmapMatchesFat
    BY DEF ChainsComplete, BitmapMatchesFat
<1>1. Allocated
    BY DEF Built, Allocated
<1>2. ASSUME NEW n \in Existing, NEW c \in Run(n)
      PROVE  IF HasEntry(c) THEN FatOnDevice(c) = IF c + 1 \in Run(n) THEN c + 1 ELSE EOC
                            ELSE FatShort /\ c >= cluster_count
    <2>1. c \in Nat /\ c <= cluster_count + 1
        BY InImage
    <2>2. HasEntry(c) => FatOnDevice(c) = IF c + 1 \in Run(n) THEN c + 1 ELSE EOC
        BY <1>1, <2>1, FatServed, EntryOfNode
    <2>. QED BY <2>1, <2>2, FatLacks
<1>3. ASSUME NEW c \in 2 .. cluster_count + 1
      PROVE  /\ InUseOnDevice(c) <=> \E r \in allocated_ranges : Holds(r, c)
             /\ HasEntry(c) => (InUseOnDevice(c) <=> FatOnDevice(c) # 0)
    <2>1. c \in Nat /\ c > 1 /\ c <= cluster_count + 1
        BY GeometryAssumption
    <2>. QED BY <2>1, FatServed, BitmapServed, EntryInUse
<1>. QED BY <1>2, <1>3 DEF ChainsComplete, BitmapMatchesFat

\* Following the FAT that the export serves from the first cluster of a file
\* or directory visits exactly the clusters that build gave it, and ends, for
\* every accepted size of the image; if the FAT is short, the last two clusters
\* of the image may lack their entries, and no others.
THEOREM FatDescribesTree == HotSpec => []ChainsComplete
BY PreloadBuildInv, FatFromLayout, PTL

\* The bitmap tells what is allocated on every cluster of the image, and
\* _fat_sector agrees with it wherever the FAT has an entry.
THEOREM BitmapAgreesWithFat == HotSpec => []BitmapMatchesFat
BY PreloadBuildInv, FatFromLayout, PTL

-----------------------------------------------------------------------------
(* Part two: read and extents                                              *)

CallTypeOK ==
    /\ source \in [Node -> Nat]
    /\ call \in {"idle", "read", "extents", "read_done", "extents_done", "error"}
    /\ offset \in Nat /\ length \in Nat /\ at \in Nat

\* The steps of the requests in progress.
Reading    == ReadPiece \/ ReadFails \/ EndRead
Describing == OpenRun \/ GrowRun \/ CloseRun \/ EndExtents \/ ExtentsFail

\* A build that has returned takes no further step.
LEMMA BuildEnds == Built => ~BuildNext
BY DEF Built, BuildNext, ScanDirectory, ScanFile, AppendChild, LeaveDirectory, TreeScanned, PlaceDirectory,
       PlaceFile, PassOver, CheckFit, PutBootRegions, PutRootAndUpcase, PutNode

\* A piece of a read is not empty, and stays within its sector and the request.
LEMMA Piece ==
    ASSUME CallTypeOK, at < length
    PROVE  LET within == (offset + at) % SECTOR_SIZE
               count  == PieceLength(within)
           IN  /\ within \in 0 .. SECTOR_SIZE - 1
               /\ count \in Nat \ {0} /\ within + count <= SECTOR_SIZE /\ at + count <= length
<1>. DEFINE within == (offset + at) % SECTOR_SIZE
<1>1. /\ offset \in Nat /\ at \in Nat /\ length \in Nat /\ offset + at \in Nat
      /\ SECTOR_SIZE \in Nat \ {0}
    BY Sizes DEF CallTypeOK
<1>2. within \in 0 .. SECTOR_SIZE - 1
    BY <1>1, DivMod
<1>. HIDE DEF within
<1>3. /\ PieceLength(within) \in Nat \ {0} /\ within + PieceLength(within) <= SECTOR_SIZE
      /\ at + PieceLength(within) <= length
    BY <1>1, <1>2 DEF PieceLength, Smaller
<1>. QED BY <1>2, <1>3 DEF within

LEMMA InitCallType == BuildInit /\ source = size /\ call = "idle" /\ offset = 0 /\ length = 0 /\ at = 0
                        => CallTypeOK
BY DEF CallTypeOK, BuildInit

LEMMA StepCallType ==
    ASSUME BuildInv, BuildInv', CallTypeOK, Next
    PROVE  CallTypeOK'
<1>. USE DEF CallTypeOK
<1>1. CASE Build
    BY <1>1 DEF Build, callVars, BuildInv, IInv, AllocTypeOK
<1>2. ASSUME NEW n \in Node, NEW bytes \in NewSizes, Resize(n, bytes) PROVE CallTypeOK'
    <2>1. bytes \in Nat
        BY RequestsAssumption
    <2>. QED BY <1>2, <2>1 DEF Resize, callVars
<1>3. ASSUME NEW r \in Requests, BeginRead(r[1], r[2]) \/ BeginExtents(r[1], r[2]) PROVE CallTypeOK'
    <2>1. r[1] \in Nat /\ r[2] \in Nat
        BY RequestsAssumption
    <2>2. r[1] - (r[1] % SECTOR_SIZE) \in Nat
        <3>1. r[1] % SECTOR_SIZE = r[1] - (r[1] \div SECTOR_SIZE) * SECTOR_SIZE /\ r[1] \div SECTOR_SIZE \in Nat
            BY <2>1, DivMod, Sizes
        <3>2. (r[1] \div SECTOR_SIZE) * SECTOR_SIZE \in Nat
            BY <3>1, Sizes
        <3>. QED BY <2>1, <3>1, <3>2
    <2>. QED BY <1>3, <2>1, <2>2 DEF BeginRead, BeginExtents
<1>4. CASE ReadPiece
    <2>1. at' = at + PieceLength((offset + at) % SECTOR_SIZE) /\ at < length
        BY <1>4 DEF ReadPiece
    <2>2. at' \in Nat
        BY <2>1, Piece
    <2>. QED BY <1>4, <2>2 DEF ReadPiece
<1>5. CASE OpenRun \/ GrowRun
    <2>1. at + SECTOR_SIZE \in Nat
        BY Sizes
    <2>. QED BY <1>5, <2>1 DEF OpenRun, GrowRun
<1>6. CASE ReadFails \/ EndRead \/ CloseRun \/ EndExtents \/ ExtentsFail \/ Answered
    BY <1>6 DEF ReadFails, EndRead, CloseRun, EndExtents, ExtentsFail, Answered
<1>. QED BY <1>1, <1>2, <1>3, <1>4, <1>5, <1>6 DEF Next

\* The types of the layout follow from what is known of it.
LEMMA LayoutTypes == BuildInv /\ CallTypeOK => TypeOK
BY DEF BuildInv, IInv, AllocTypeOK, ShapeInv, StoredInv, SectorsInv, CallTypeOK, TypeOK, BuildTypeOK

LEMMA ExportCallType == Spec => []CallTypeOK
<1>1. Init => CallTypeOK
    BY InitCallType DEF Init
<1>2. BuildInv /\ BuildInv' /\ CallTypeOK /\ [Next]_vars => CallTypeOK'
    <2>1. CASE UNCHANGED vars
        BY <2>1 DEF vars, callVars, CallTypeOK
    <2>. QED BY <2>1, StepCallType
<1>. QED BY <1>1, <1>2, ExportBuildInv, PTL DEF Spec

\* The types of all variables while requests are served ...
THEOREM ExportTypes == Spec => []TypeOK
BY ExportBuildInv, ExportCallType, LayoutTypes, PTL

\* ... and while the preloader asks for its ranges.
THEOREM PreloadTypes == HotSpec => []TypeOK
<1>1. HotInit => CallTypeOK
    BY InitCallType DEF HotInit, Init
<1>2. BuildInv /\ BuildInv' /\ CallTypeOK /\ [HotNext]_allVars => CallTypeOK'
    <2>1. CASE UNCHANGED vars
        BY <2>1 DEF vars, callVars, CallTypeOK
    <2>2. CASE Build
        BY <2>2, StepCallType DEF Next
    <2>. QED BY <2>1, <2>2 DEF HotNext, allVars, Collect, MergeNext, BeginSplit, SplitPiece, EndSplit
<1>3. HotSpec => []CallTypeOK
    BY <1>1, <1>2, PreloadBuildInv, PTL DEF HotSpec
<1>. QED BY <1>3, PreloadBuildInv, LayoutTypes, PTL

\* The sectors of the clusters of a node.
LEMMA SectorsOfRun ==
    ASSUME BuildInv, Allocated, NEW n \in Existing, NEW s \in Nat
    PROVE  (s - cluster_heap_offset) \div SECTORS_PER_CLUSTER + 2 \in Run(n) <=> s \in Region(n)
<1>. DEFINE k == SECTORS_PER_CLUSTER
            m == s - cluster_heap_offset
            q == m \div k
            a == first_cluster[n] - 2
            b == clusters[n]
<1>1. /\ k \in Nat \ {0} /\ cluster_heap_offset \in Nat /\ m \in Int
    BY Sizes
<1>2. q \in Int /\ q * k <= m /\ m < q * k + k
    <2>. HIDE DEF m, k
    <2>. QED BY <1>1, DivFacts
<1>3. first_cluster[n] \in Nat /\ b \in Nat \ {0} /\ a \in Nat
    BY PlacedNode, FirstFreeType
<1>4. q + 2 \in Run(n) <=> a <= q /\ q < a + b
    <2>. HIDE DEF q
    <2>. QED BY <1>2, <1>3 DEF Run
<1>5. HeapSector(first_cluster[n]) = cluster_heap_offset + a * k
    BY DEF HeapSector
<1>6. HeapSector(first_cluster[n] + clusters[n]) = cluster_heap_offset + (a + b) * k
    <2>1. (first_cluster[n] + clusters[n]) - 2 = a + b
        BY <1>3
    <2>. QED BY <2>1 DEF HeapSector
<1>. HIDE DEF q, a, b, k, m
<1>7. /\ a * k \in Nat /\ (a + b) * k \in Nat /\ q * k \in Int
      /\ a <= q => a * k <= q * k
      /\ q < a => q * k + k <= a * k
      /\ q < a + b => q * k + k <= (a + b) * k
      /\ a + b <= q => (a + b) * k <= q * k
    BY <1>1, <1>2, <1>3, Times, TimesStrict
<1>8. s \in Region(n) <=> a * k <= m /\ m < (a + b) * k
    BY <1>1, <1>5, <1>6, <1>7 DEF Region, m
<1>9. a <= q /\ q < a + b <=> a * k <= m /\ m < (a + b) * k
    <2>1. CASE a <= q /\ q < a + b
        BY <1>1, <1>2, <1>3, <1>7, <2>1
    <2>2. CASE q < a
        BY <1>1, <1>2, <1>3, <1>7, <2>2
    <2>3. CASE a + b <= q
        BY <1>1, <1>2, <1>3, <1>7, <2>3
    <2>. QED BY <1>2, <1>3, <2>1, <2>2, <2>3
<1>. QED BY <1>4, <1>8, <1>9 DEF q, m, k

\* A mapping of a file is the sectors of its clusters.
LEMMA MappingOfFile ==
    ASSUME BuildInv, Allocated, NEW s \in Nat, NEW n \in Existing
    PROVE  n \in FilesAt(s) <=> ~isDirectory[n] /\ s \in Region(n)
<1>1. /\ first_cluster[n] \in Nat /\ clusters[n] \in Nat
    BY PlacedNode
<1>2. /\ HeapSector(first_cluster[n] + clusters[n])
           = HeapSector(first_cluster[n]) + clusters[n] * SECTORS_PER_CLUSTER
      /\ HeapSector(first_cluster[n]) \in Int
    BY <1>1, HeapSectors
<1>3. clusters[n] * SECTORS_PER_CLUSTER \in Nat
    BY <1>1, Sizes
<1>4. s \in Region(n) <=>
         /\ HeapSector(first_cluster[n]) <= s
         /\ s < HeapSector(first_cluster[n]) + clusters[n] * SECTORS_PER_CLUSTER
    BY <1>2, <1>3 DEF Region
<1>. QED BY <1>4 DEF FilesAt, Files

\* The clusters of nodes lie behind everything that is generated.
LEMMA NodesGenerated ==
    ASSUME BuildInv, Allocated, NEW n \in Existing, NEW s \in Region(n)
    PROVE  /\ s \in Nat /\ HeapSector(FirstFree) <= s /\ ~InFat(s) /\ ~InBitmap(s)
           /\ s \notin BootSectors \cup UpcaseSectors
<1>1. /\ first_cluster[n] \in Nat /\ clusters[n] \in Nat
      /\ HeapSector(FirstFree) <= HeapSector(first_cluster[n])
    BY PlacedNode
<1>2. /\ HeapSector(first_cluster[n]) \in Int
      /\ HeapSector(FirstFree) \in Nat /\ HeapSector(upcase_cluster) \in Nat
    BY <1>1, FixedClusters, FirstFreeType, HeapSectorType
<1>3. /\ HeapSector(upcase_cluster) <= HeapSector(FirstFree)
      /\ cluster_heap_offset <= HeapSector(upcase_cluster)
    BY FixedClusters, HeapSectors
<1>4. HeapSector(first_cluster[n] + clusters[n]) \in Int
    BY <1>1, HeapSectorType
<1>5. s \in Nat /\ HeapSector(FirstFree) <= s
    BY <1>1, <1>2, <1>4 DEF Region
<1>6. ~InBitmap(s)
    BY <1>2, <1>3, <1>5, GeneratedSectors
<1>7. ~InFat(s) /\ s \notin BootSectors
    BY <1>2, <1>3, <1>5, GeometryAssumption, Sizes DEF InFat, BootSectors, BOOT_REGION_SECTORS
<1>. QED BY <1>2, <1>5, <1>6, <1>7 DEF UpcaseSectors

\* Every sector of a node is served as the node's, unless a directory
\* overflows into it.
LEMMA ServedFromTree ==
    ASSUME BuildInv, Built, NoOverflow, NEW n \in Existing, NEW s \in Region(n)
    PROVE  Map(s) = LET index == s - HeapSector(first_cluster[n])
                    IN  IF isDirectory[n] THEN <<"directory", n, index>>
                                          ELSE <<"file", n, index * SECTOR_SIZE>>
<1>1. Allocated
    BY DEF Built, Allocated
<1>2. /\ s \in Nat /\ ~InFat(s) /\ ~InBitmap(s) /\ s \notin BootSectors \cup UpcaseSectors
    BY <1>1, NodesGenerated
<1>3. n \in Node
    BY DEF Existing
<1>4. ContentsInv /\ StoredInv
    BY DEF BuildInv
<1>5. CASE isDirectory[n]
    <2>1. Stored(n)
        BY <1>5 DEF Stored, Dirs, Built
    <2>2. s \in DOMAIN metadata
        BY <1>3, <1>4, <2>1 DEF StoredInv
    <2>3. metadata[s] = <<"directory", n, s - HeapSector(first_cluster[n])>>
        BY <1>3, <1>4, <2>1 DEF ContentsInv
    <2>. QED BY <1>5, <2>2, <2>3 DEF Map, IsMetadata, MetadataSector
<1>6. CASE ~isDirectory[n]
    <2>1. s \notin DOMAIN metadata
        <3>. SUFFICES ASSUME s \in DOMAIN metadata PROVE FALSE
            OBVIOUS
        <3>1. PICK m \in Node : Stored(m) /\ s \in Region(m)
            BY <1>2, <1>4 DEF ContentsInv
        <3>2. m \in Existing /\ m # n
            BY <1>6, <3>1 DEF Stored, Dirs
        <3>. QED BY <1>1, <3>1, <3>2, PlacedNode
    <2>2. FilesAt(s) = {n}
        <3>1. n \in FilesAt(s)
            BY <1>1, <1>2, <1>6, MappingOfFile
        <3>2. ASSUME NEW m \in FilesAt(s) PROVE m = n
            <4>1. m \in Existing
                BY DEF FilesAt, Files
            <4>2. s \in Region(m)
                BY <1>1, <1>2, <4>1, MappingOfFile
            <4>. QED BY <1>1, <4>1, <4>2, PlacedNode
        <3>. QED BY <3>1, <3>2
    <2>. DEFINE file == CHOOSE f \in FilesAt(s) : \A m \in FilesAt(s) : f <= m
    <2>3. file = n
        <3>1. n <= n
            BY <1>3 DEF Node
        <3>. QED BY <2>2, <3>1
    <2>. HIDE DEF file
    <2>4. ~IsMetadata(s)
        BY <1>2, <2>1 DEF IsMetadata
    <2>5. Map(s) = <<"file", file, (s - HeapSector(first_cluster[file])) * SECTOR_SIZE>>
        BY <2>2, <2>4 DEF Map, file
    <2>. QED BY <1>6, <2>3, <2>5
<1>. QED BY <1>5, <1>6

\* What a read returns for a byte of the image when the sources have these sizes.
ByteAt(b, sizes) == ByteOf(Map(b \div SECTOR_SIZE), b % SECTOR_SIZE, sizes)

LEMMA BytesFromTree ==
    ASSUME BuildInv, Built, NoOverflow, NEW b \in Nat, NEW sizes, NEW n \in Existing, Cluster(b) \in Run(n)
    PROVE  ByteAt(b, sizes) = Owned(n, b, sizes)
<1>. DEFINE s == b \div SECTOR_SIZE  i == b % SECTOR_SIZE  h == HeapSector(first_cluster[n])
<1>1. s \in Nat /\ i \in Nat /\ b = s * SECTOR_SIZE + i
    <2>1. s \in Nat /\ i = b - s * SECTOR_SIZE /\ i \in 0 .. SECTOR_SIZE - 1
        BY DivMod, Sizes
    <2>2. s * SECTOR_SIZE \in Nat
        BY <2>1, Sizes
    <2>. HIDE DEF s, i
    <2>. QED BY <2>1, <2>2, Sizes
<1>2. Allocated
    BY DEF Built, Allocated
<1>3. s \in Region(n)
    <2>1. Cluster(b) = (s - cluster_heap_offset) \div SECTORS_PER_CLUSTER + 2
        BY DEF Cluster
    <2>. HIDE DEF s
    <2>. QED BY <1>1, <1>2, <2>1, SectorsOfRun
<1>4. h \in Int
    BY <1>2, PlacedNode, HeapSectorType
<1>. HIDE DEF s, i, h
<1>5. (s - h) * SECTOR_SIZE + i = b - h * SECTOR_SIZE
    <2>1. (s - h) * SECTOR_SIZE = s * SECTOR_SIZE - h * SECTOR_SIZE
        BY <1>1, <1>4, Sizes
    <2>2. s * SECTOR_SIZE \in Int /\ h * SECTOR_SIZE \in Int
        BY <1>1, <1>4, Sizes
    <2>. QED BY <1>1, <2>1, <2>2
<1>6. CASE isDirectory[n]
    <2>1. Map(s) = <<"directory", n, s - h>>
        BY <1>3, <1>6, ServedFromTree DEF h
    <2>2. ByteOf(Map(s), i, sizes) = <<"directory", n, (s - h) * SECTOR_SIZE + i>>
        BY <2>1 DEF ByteOf
    <2>. QED BY <1>5, <1>6, <2>2 DEF ByteAt, Owned, s, i, h
<1>7. CASE ~isDirectory[n]
    <2>1. Map(s) = <<"file", n, (s - h) * SECTOR_SIZE>>
        BY <1>3, <1>7, ServedFromTree DEF h
    <2>2. ByteOf(Map(s), i, sizes) = IF (s - h) * SECTOR_SIZE + i < sizes[n]
                                     THEN <<"file", n, (s - h) * SECTOR_SIZE + i>> ELSE Zero
        BY <2>1 DEF ByteOf
    <2>. QED BY <1>5, <1>7, <2>2 DEF ByteAt, Owned, s, i, h
<1>. QED BY <1>6, <1>7

\* A sector reads as a hole exactly where nobody has anything.
LEMMA Holes ==
    ASSUME BuildInv, Built, NEW b \in Nat
    PROVE  IsZero(b) <=> Hole(b)
<1>. DEFINE s == b \div SECTOR_SIZE
<1>1. s \in Nat
    BY DivMod, Sizes
<1>2. Allocated
    BY DEF Built, Allocated
<1>3. \A n \in Existing : Cluster(b) \in Run(n) <=> s \in Region(n)
    <2>1. Cluster(b) = (s - cluster_heap_offset) \div SECTORS_PER_CLUSTER + 2
        BY DEF Cluster
    <2>. HIDE DEF s
    <2>. QED BY <1>1, <1>2, <2>1, SectorsOfRun
<1>4. IsZero(b) <=> Map(s)[1] = "zero"
    BY DEF IsZero
<1>. HIDE DEF s
<1>5. CASE IsMetadata(s)
    <2>1. Map(s) = MetadataSector(s)
        BY <1>5 DEF Map
    <2>2. MetadataSector(s)[1] # "zero"
        <3>1. CASE s \in DOMAIN metadata
            <4>1. metadata[s] \in {"boot", "directory", "upcase"} \X Node \X Nat
                BY <3>1 DEF BuildInv, StoredInv, SectorsInv
            <4>2. metadata[s][1] \in {"boot", "directory", "upcase"}
                BY <4>1
            <4>. QED BY <3>1, <4>2 DEF MetadataSector
        <3>2. CASE s \notin DOMAIN metadata
            BY <3>2 DEF MetadataSector
        <3>. QED BY <3>1, <3>2
    <2>. QED BY <1>4, <1>5, <2>1, <2>2 DEF s, Hole
<1>6. CASE ~IsMetadata(s)
    <2>1. Map(s)[1] = "zero" <=> FilesAt(s) = {}
        BY <1>6 DEF Map, Zero
    <2>2. \A n \in Existing : isDirectory[n] => s \notin Region(n)
        BY <1>6 DEF IsMetadata, BuildInv, StoredInv, Stored, Built, Dirs, Existing
    <2>3. FilesAt(s) \subseteq Existing
        BY DEF FilesAt, Files
    <2>4. FilesAt(s) = {} <=> \A n \in Existing : s \notin Region(n)
        BY <1>1, <1>2, <2>2, <2>3, MappingOfFile
    <2>. QED BY <1>3, <1>4, <1>6, <2>1, <2>4 DEF s, Hole
<1>. QED BY <1>5, <1>6

\* The generated sectors and the holes, byte for byte.
LEMMA GeneratedBytes ==
    ASSUME BuildInv, Built, NEW b \in Nat, NEW sizes
    PROVE  LET sector == b \div SECTOR_SIZE
           IN  /\ InFat(sector) => ByteAt(b, sizes) = <<"fat", 0, b - fat_offset * SECTOR_SIZE>>
               /\ InBitmap(sector) => ByteAt(b, sizes) = <<"bitmap", 0, b - BitmapStart * SECTOR_SIZE>>
               /\ Hole(b) => ByteAt(b, sizes) = Zero
<1>. DEFINE s == b \div SECTOR_SIZE  i == b % SECTOR_SIZE
<1>1. /\ s \in Nat /\ i \in Nat /\ s * SECTOR_SIZE \in Nat /\ b = s * SECTOR_SIZE + i
    <2>1. s \in Nat /\ i = b - s * SECTOR_SIZE /\ i \in 0 .. SECTOR_SIZE - 1
        BY DivMod, Sizes
    <2>2. s * SECTOR_SIZE \in Nat
        BY <2>1, Sizes
    <2>. HIDE DEF s, i
    <2>. QED BY <2>1, <2>2, Sizes
<1>2. ByteAt(b, sizes) = ByteOf(Map(s), i, sizes)
    BY DEF ByteAt
<1>3. ASSUME NEW first \in Int
      PROVE  (s - first) * SECTOR_SIZE + i = b - first * SECTOR_SIZE
    <2>. HIDE DEF s, i
    <2>1. (s - first) * SECTOR_SIZE = s * SECTOR_SIZE - first * SECTOR_SIZE
        BY <1>1, Sizes
    <2>2. first * SECTOR_SIZE \in Int
        BY Sizes
    <2>. QED BY <1>1, <2>1, <2>2
<1>4. fat_offset \in Int /\ BitmapStart \in Int
    BY GeometryAssumption, Sizes DEF BitmapStart, HeapSector, bitmap_cluster
<1>5. Hole(b) => Map(s)[1] = "zero"
    BY Holes DEF IsZero
<1>. HIDE DEF s, i, BitmapStart
<1>6. CASE InFat(s)
    <2>1. Map(s) = <<"fat", 0, s - fat_offset>>
        BY <1>1, <1>6, GeneratedSectors DEF Map, IsMetadata, MetadataSector
    <2>2. ByteOf(Map(s), i, sizes) = <<"fat", 0, (s - fat_offset) * SECTOR_SIZE + i>>
        BY <2>1 DEF ByteOf
    <2>3. ~InBitmap(s) /\ ~Hole(b)
        BY <1>1, <1>6, GeneratedSectors DEF Hole, IsMetadata, s
    <2>. QED BY <1>2, <1>3, <1>4, <2>2, <2>3 DEF s
<1>7. CASE InBitmap(s) /\ ~InFat(s)
    <2>1. Map(s) = <<"bitmap", 0, s - BitmapStart>>
        BY <1>1, <1>7, GeneratedSectors DEF Map, IsMetadata, MetadataSector
    <2>2. ByteOf(Map(s), i, sizes) = <<"bitmap", 0, (s - BitmapStart) * SECTOR_SIZE + i>>
        BY <2>1 DEF ByteOf
    <2>3. ~Hole(b)
        BY <1>7 DEF Hole, IsMetadata, s
    <2>. QED BY <1>2, <1>3, <1>4, <1>7, <2>2, <2>3 DEF s
<1>8. CASE ~InFat(s) /\ ~InBitmap(s)
    BY <1>2, <1>5, <1>8 DEF ByteOf, s
<1>. QED BY <1>6, <1>7, <1>8

\* Nothing that a request does changes what a byte reads as.
LEMMA ServedAlike ==
    ASSUME UNCHANGED buildVars
    PROVE  /\ \A s : Map(s)' = Map(s)
           /\ \A b : IsZero(b)' <=> IsZero(b)
           /\ \A b, sizes : ByteAt(b, sizes)' = ByteAt(b, sizes)
<1>1. UNCHANGED <<metadata, isDirectory, last, first_cluster, clusters>>
    BY DEF buildVars, treeVars, allocVars
<1>2. \A s : FilesAt(s)' = FilesAt(s)
    BY <1>1 DEF FilesAt, Files, Existing
<1>3. \A s : Map(s)' = Map(s)
    <2>. TAKE s
    <2>. DEFINE file == CHOOSE n \in FilesAt(s) : \A m \in FilesAt(s) : n <= m
    <2>1. file' = file
        BY <1>2, Zenon
    <2>2. (IsMetadata(s)' <=> IsMetadata(s)) /\ MetadataSector(s)' = MetadataSector(s)
        BY <1>1 DEF IsMetadata, MetadataSector
    <2>3. Map(s) = IF IsMetadata(s) THEN MetadataSector(s)
                   ELSE IF FilesAt(s) # {}
                        THEN <<"file", file, (s - HeapSector(first_cluster[file])) * SECTOR_SIZE>>
                   ELSE Zero
        BY DEF Map
    <2>4. Map(s)' = IF IsMetadata(s)' THEN MetadataSector(s)'
                    ELSE IF FilesAt(s)' # {}
                         THEN <<"file", file', (s - HeapSector(first_cluster'[file'])) * SECTOR_SIZE>>
                    ELSE Zero
        BY DEF Map
    <2>. HIDE DEF file
    <2>. QED BY <1>1, <1>2, <2>1, <2>2, <2>3, <2>4
<1>. QED BY <1>3 DEF IsZero, ByteAt, ByteOf

\* What has been read is what the sectors hold, with sources of a size they have
\* had since the read began; a request that is in progress is about a layout
\* that has been built, and starts with empty buffers.
Sources == [Node -> Nat]
Bytes   == {ByteAt(b, sizes) : b \in Nat, sizes \in Sources}

\* Byte i of the request, as the code may have found it.
Found(i) == \E sizes \in had : out[i] = ByteAt(offset + i - 1, sizes)

ReadInv ==
    /\ call # "idle" => Built
    /\ call = "idle" => out = <<>> /\ run = <<>> /\ extents = <<>>
    /\ call \in {"read", "read_done"} =>
          /\ out \in Seq(Bytes) /\ Len(out) = at /\ at <= length
          /\ \A i \in 1 .. at : Found(i)
    /\ call = "read" => source \in had
    /\ call = "read_done" => at = length

\* A piece adds the bytes that follow those read so far.
LEMMA PieceReadInv ==
    ASSUME BuildInv, CallTypeOK, ReadInv, ReadPiece
    PROVE  ReadInv'
<1>. DEFINE absolute == offset + at
            within   == absolute % SECTOR_SIZE
            s        == absolute \div SECTOR_SIZE
            count    == PieceLength(within)
            piece    == [i \in 1 .. count |-> ByteOf(Map(s), within + i - 1, source)]
<1>1. /\ call = "read" /\ at < length /\ call' = call
      /\ out' = out \o piece /\ at' = at + count
      /\ UNCHANGED <<buildVars, source, offset, length, run, extents, had>>
    BY DEF ReadPiece
<1>2. /\ offset \in Nat /\ at \in Nat /\ length \in Nat /\ SECTOR_SIZE \in Nat \ {0}
      /\ absolute \in Nat
    BY Sizes DEF CallTypeOK
<1>3. /\ within \in 0 .. SECTOR_SIZE - 1 /\ count \in Nat \ {0}
      /\ within + count <= SECTOR_SIZE /\ at + count <= length
    BY <1>1, Piece
<1>4. s \in Nat /\ within = absolute - s * SECTOR_SIZE
    BY <1>2, DivMod
<1>. HIDE DEF within, s, count
<1>5. \A i \in 1 .. count : ByteOf(Map(s), within + i - 1, source) = ByteAt(offset + at + i - 1, source)
    <2>. TAKE i \in 1 .. count
    <2>. DEFINE b == offset + at + i - 1  j == within + i - 1
    <2>1. j \in 0 .. SECTOR_SIZE - 1 /\ b \in Nat
        BY <1>2, <1>3
    <2>2. b = s * SECTOR_SIZE + j
        <3>1. s * SECTOR_SIZE \in Nat
            BY <1>2, <1>4
        <3>. QED BY <1>2, <1>3, <1>4, <3>1
    <2>. HIDE DEF b, j
    <2>3. b \div SECTOR_SIZE = s
        BY <1>2, <1>4, <2>1, <2>2, DivBetween
    <2>4. b % SECTOR_SIZE = j
        <3>1. b % SECTOR_SIZE = b - (b \div SECTOR_SIZE) * SECTOR_SIZE
            BY <1>2, <2>1, DivMod
        <3>2. s * SECTOR_SIZE \in Nat
            BY <1>2, <1>4
        <3>. QED BY <2>1, <2>2, <2>3, <3>1, <3>2
    <2>. QED BY <2>3, <2>4 DEF ByteAt, b, j
<1>6. \A i \in 1 .. count : piece[i] \in Bytes
    <2>. TAKE i \in 1 .. count
    <2>1. offset + at + i - 1 \in Nat
        BY <1>2, <1>3
    <2>2. source \in Sources
        BY DEF CallTypeOK, Sources
    <2>. QED BY <1>5, <2>1, <2>2 DEF Bytes
<1>7. piece \in Seq(Bytes) /\ Len(piece) = count
    <2>1. piece \in [1 .. count -> Bytes]
        BY <1>6
    <2>2. count \in Nat
        BY <1>3
    <2>. HIDE DEF piece
    <2>. QED BY <2>1, <2>2
<1>8. /\ out \in Seq(Bytes) /\ Len(out) = at /\ source \in had
      /\ \A i \in 1 .. at : Found(i)
    BY <1>1 DEF ReadInv
<1>9. out' \in Seq(Bytes) /\ Len(out') = at'
    BY <1>1, <1>7, <1>8, ConcatProperties
<1>10. \A i \in 1 .. at' : \E sizes \in had : out'[i] = ByteAt(offset + i - 1, sizes)
    <2>. TAKE i \in 1 .. at'
    <2>1. CASE i <= at
        <3>1. out'[i] = out[i]
            BY <1>1, <1>2, <1>3, <1>7, <1>8, <2>1
        <3>2. i \in 1 .. at
            BY <1>1, <1>2, <1>3, <2>1
        <3>. QED BY <1>8, <3>1, <3>2 DEF Found
    <2>2. CASE i > at
        <3>. DEFINE j == i - at
        <3>1. j \in 1 .. count /\ offset + at + j - 1 = offset + i - 1
            BY <1>1, <1>2, <1>3, <2>2
        <3>2. out'[i] = piece[j]
            BY <1>1, <1>2, <1>3, <1>7, <1>8, <2>2
        <3>3. piece[j] = ByteOf(Map(s), within + j - 1, source)
            BY <3>1
        <3>. HIDE DEF j, piece
        <3>. QED BY <1>5, <1>8, <3>1, <3>2, <3>3
    <2>3. i \in Int
        BY <1>1, <1>2, <1>3
    <2>. QED BY <1>2, <2>1, <2>2, <2>3
<1>11. \A b, sizes : ByteAt(b, sizes)' = ByteAt(b, sizes)
    BY <1>1, ServedAlike
<1>12. Bytes' = Bytes
    BY <1>11 DEF Bytes
<1>13. Built'
    BY <1>1 DEF ReadInv, Built, buildVars
<1>14. \A i \in 1 .. at' : Found(i)'
    BY <1>1, <1>10, <1>11 DEF Found
<1>. QED BY <1>1, <1>3, <1>8, <1>9, <1>12, <1>13, <1>14 DEF ReadInv

\* What has been found stays found.
LEMMA FoundKept ==
    ASSUME UNCHANGED <<buildVars, out, offset>>, had \subseteq had'
    PROVE  Bytes' = Bytes /\ \A i : Found(i) => Found(i)'
<1>1. \A b, sizes : ByteAt(b, sizes)' = ByteAt(b, sizes)
    BY ServedAlike
<1>. QED BY <1>1 DEF Bytes, Found

LEMMA StepReadInv ==
    ASSUME BuildInv, CallTypeOK, ReadInv, Next \/ UNCHANGED vars
    PROVE  ReadInv'
<1>1. CASE UNCHANGED vars
    <2>1. UNCHANGED <<buildVars, source, callVars>>
        BY <1>1 DEF vars
    <2>2. Bytes' = Bytes /\ \A i : Found(i) => Found(i)'
        BY <2>1, FoundKept DEF callVars
    <2>. QED BY <2>1, <2>2 DEF ReadInv, callVars, Built, buildVars
<1>2. CASE Build
    <2>1. ~Built
        BY <1>2, BuildEnds DEF Build
    <2>. QED BY <1>2, <2>1 DEF Build, ReadInv, callVars
<1>3. ASSUME NEW n \in Node, NEW bytes \in NewSizes, Resize(n, bytes) PROVE ReadInv'
    <2>1. /\ Built /\ call \in {"idle", "read"}
          /\ had' = IF call = "read" THEN had \cup {source'} ELSE had
          /\ UNCHANGED <<buildVars, call, offset, length, at, out, run, extents>>
        BY <1>3 DEF Resize, Built
    <2>2. Bytes' = Bytes /\ \A i : Found(i) => Found(i)'
        BY <2>1, FoundKept
    <2>3. Built'
        BY <2>1 DEF Built, buildVars
    <2>. QED BY <2>1, <2>2, <2>3 DEF ReadInv
<1>4. ASSUME NEW r \in Requests, BeginRead(r[1], r[2]) PROVE ReadInv'
    <2>1. r[2] \in Nat
        BY RequestsAssumption
    <2>2. /\ call = "idle" /\ Built /\ at' = 0 /\ length' = r[2] /\ call' \in {"error", "read"}
          /\ had' = {source'}
          /\ UNCHANGED <<buildVars, out>>
        BY <1>4 DEF BeginRead, Built
    <2>3. out' = <<>> /\ Built'
        BY <2>2 DEF ReadInv, Built, buildVars
    <2>4. out' \in Seq(Bytes') /\ Len(out') = 0
        BY <2>3, EmptySeq
    <2>. QED BY <2>1, <2>2, <2>3, <2>4 DEF ReadInv
<1>5. ASSUME NEW r \in Requests, BeginExtents(r[1], r[2]) PROVE ReadInv'
    BY <1>5 DEF BeginExtents, ReadInv, Built, buildVars
<1>6. CASE ReadFails \/ Describing
    BY <1>6 DEF Describing, ReadFails, OpenRun, GrowRun, CloseRun, EndExtents, ExtentsFail, ReadInv, Built, buildVars
<1>7. CASE EndRead
    <2>1. /\ call = "read" /\ call' = "read_done" /\ at >= length
          /\ UNCHANGED <<buildVars, source, offset, length, at, out, had>>
        BY <1>7 DEF EndRead
    <2>2. Bytes' = Bytes /\ \A i : Found(i) => Found(i)'
        BY <2>1, FoundKept
    <2>3. at = length
        BY <2>1 DEF ReadInv, CallTypeOK
    <2>4. Built'
        BY <2>1 DEF ReadInv, Built, buildVars
    <2>. QED BY <2>1, <2>2, <2>3, <2>4 DEF ReadInv
<1>8. CASE Answered
    BY <1>8 DEF Answered, ReadInv
<1>. QED BY <1>1, <1>2, <1>3, <1>4, <1>5, <1>6, <1>7, <1>8, PieceReadInv DEF Next, Describing

LEMMA ReadsFromTree == BuildInv /\ CallTypeOK /\ ReadInv => ReadsTree
<1>. SUFFICES ASSUME BuildInv, CallTypeOK, ReadInv, call = "read_done", NoOverflow
              PROVE  ReadsTree
    BY DEF ReadsTree
<1>1. /\ Built /\ Len(out) = length /\ \A i \in 1 .. length : Found(i)
    BY DEF ReadInv
<1>2. ASSUME NEW i \in 1 .. length
      PROVE  LET byte   == offset + i - 1
                 sector == byte \div SECTOR_SIZE
             IN  /\ \A n \in Existing : Cluster(byte) \in Run(n) =>
                       \E sizes \in had : out[i] = Owned(n, byte, sizes)
                 /\ InFat(sector) => out[i] = <<"fat", 0, byte - fat_offset * SECTOR_SIZE>>
                 /\ InBitmap(sector) => out[i] = <<"bitmap", 0, byte - BitmapStart * SECTOR_SIZE>>
                 /\ Hole(byte) => out[i] = Zero
    <2>. DEFINE byte == offset + i - 1
    <2>1. byte \in Nat
        BY DEF CallTypeOK
    <2>2. PICK sizes \in had : out[i] = ByteAt(byte, sizes)
        BY <1>1 DEF Found
    <2>. HIDE DEF byte
    <2>3. \A n \in Existing : Cluster(byte) \in Run(n) => out[i] = Owned(n, byte, sizes)
        BY <1>1, <2>1, <2>2, BytesFromTree
    <2>. QED BY <1>1, <2>1, <2>2, <2>3, GeneratedBytes DEF byte
<1>. QED BY <1>1, <1>2 DEF ReadsTree

LEMMA ExportReadInv == Spec => [](BuildInv /\ CallTypeOK /\ ReadInv)
<1>1. Init => ReadInv
    BY DEF Init, ReadInv
<1>2. BuildInv /\ CallTypeOK /\ ReadInv /\ [Next]_vars => ReadInv'
    BY StepReadInv
<1>. QED BY <1>1, <1>2, ExportBuildInv, ExportCallType, PTL DEF Spec

\* Every read of the export returns, byte for byte, what the tree says, unless
\* a directory overflows into other clusters; a source that has become shorter
\* reads as zeros.
THEOREM ReadsReturnTree == Spec => []ReadsTree
BY ExportReadInv, ReadsFromTree, PTL

\* Every cluster of a file is served from that file, unless a directory
\* overflows: what the comment of FileMapping says fails in no other way.
THEOREM OnlyOverflowHidesFiles == Spec => [](NoOverflow => MappingsBacked)
<1>1. BuildInv => (NoOverflow => MappingsBacked)
    <2>. SUFFICES ASSUME BuildInv, NoOverflow, Built,
                         NEW n \in Files, NEW c \in Run(n), NEW k \in 0 .. SECTORS_PER_CLUSTER - 1
                  PROVE  Map(HeapSector(c) + k)[1] = "file" /\ Map(HeapSector(c) + k)[2] = n
        BY DEF MappingsBacked
    <2>. DEFINE first == first_cluster[n]  behind == first_cluster[n] + clusters[n]  s == HeapSector(c) + k
    <2>1. n \in Existing /\ ~isDirectory[n] /\ Allocated
        BY DEF Files, Built, Allocated
    <2>2. first \in Nat /\ clusters[n] \in Nat \ {0}
        BY <2>1, PlacedNode
    <2>3. c \in Nat /\ behind \in Nat /\ first <= c /\ c < behind
        BY <2>2 DEF Run
    <2>4. /\ HeapSector(first) <= HeapSector(c)
          /\ HeapSector(c) + SECTORS_PER_CLUSTER <= HeapSector(behind)
        <3>. HIDE DEF first, behind
        <3>. QED BY <2>2, <2>3, HeapSectors
    <2>5. HeapSector(first) \in Int /\ HeapSector(c) \in Int /\ HeapSector(behind) \in Int
        BY <2>2, <2>3, HeapSectorType
    <2>6. s \in Region(n)
        <3>. HIDE DEF first, behind
        <3>1. s \in HeapSector(first) .. HeapSector(behind) - 1
            BY <2>4, <2>5, Sizes
        <3>. QED BY <3>1 DEF Region, first, behind
    <2>. HIDE DEF s
    <2>7. Map(s) = <<"file", n, (s - HeapSector(first_cluster[n])) * SECTOR_SIZE>>
        BY <2>1, <2>6, ServedFromTree
    <2>. QED BY <2>7 DEF s
<1>. QED BY <1>1, ExportBuildInv, PTL

-----------------------------------------------------------------------------
(* The loop of extents                                                     *)

Aligned(x) == \E k \in Nat : x = k * SECTOR_SIZE

\* The sectors from one byte to another are all holes, or all data.
Alike(from, to, zero) ==
    \A b \in Nat : Aligned(b) /\ from <= b /\ b < to => (IsZero(b) <=> zero = TRUE)

\* The request that the loop runs for, unless it is empty or beyond the image.
Walking == call \in {"extents", "extents_done"} /\ length > 0 /\ offset < total_bytes

Start == offset - (offset % SECTOR_SIZE)

\* Where the open extent starts, or the next one will.
Frontier == IF run = <<>> THEN at ELSE run[1]

Extent == Nat \X Nat \X BOOLEAN

\* The closed extents lie one after the other, from the first sector to the
\* open one, and each is a maximal one.
ClosedInv ==
    /\ extents \in Seq(Extent)
    /\ \A i \in 1 .. Len(extents) :
          /\ Aligned(extents[i][1])
          /\ Alike(extents[i][1], extents[i][1] + extents[i][2], extents[i][3])
    /\ \A i \in 1 .. Len(extents) - 1 :
          /\ extents[i + 1][1] = extents[i][1] + extents[i][2]
          /\ extents[i + 1][3] # extents[i][3]
    /\ IF extents = <<>> THEN Frontier = Start
       ELSE /\ extents[1][1] = Start
            /\ extents[Len(extents)][1] + extents[Len(extents)][2] = Frontier

OpenInv ==
    /\ run \in {<<>>} \cup (Nat \X BOOLEAN)
    /\ run # <<>> => Aligned(run[1]) /\ run[1] < at /\ Alike(run[1], at, run[2])
    /\ extents # <<>> =>
          IF run # <<>> THEN run[2] # extents[Len(extents)][3]
          ELSE at = ExtentsEnd \/ (IsZero(at) <=> extents[Len(extents)][3] = FALSE)

ExtentsInv ==
    Walking => /\ Aligned(at) /\ at <= ExtentsEnd
               /\ ClosedInv /\ OpenInv
               /\ call = "extents_done" => run = <<>> /\ at = ExtentsEnd

\* Sectors are SECTOR_SIZE bytes apart.
LEMMA AlignedFacts ==
    ASSUME NEW x, Aligned(x)
    PROVE  /\ x \in Nat /\ Aligned(x + SECTOR_SIZE)
           /\ \A y : Aligned(y) /\ x < y => x + SECTOR_SIZE <= y
<1>1. PICK k \in Nat : x = k * SECTOR_SIZE
    BY DEF Aligned
<1>2. x \in Nat /\ x + SECTOR_SIZE = (k + 1) * SECTOR_SIZE
    BY <1>1, Sizes
<1>3. ASSUME NEW y, Aligned(y), x < y PROVE x + SECTOR_SIZE <= y
    <2>1. PICK l \in Nat : y = l * SECTOR_SIZE
        BY <1>3 DEF Aligned
    <2>2. ~ l <= k
        BY <1>1, <1>2, <1>3, <2>1, Sizes, Times
    <2>. QED BY <1>1, <2>1, <2>2, Sizes, TimesStrict
<1>. QED BY <1>2, <1>3 DEF Aligned

\* The loop runs over whole sectors, and over at least one.
LEMMA WalkBounds ==
    ASSUME offset \in Nat, length \in Nat \ {0}, offset < total_bytes
    PROVE  Aligned(Start) /\ Aligned(ExtentsEnd) /\ Start < ExtentsEnd
<1>. DEFINE q == offset \div SECTOR_SIZE
            r == CeilDiv(offset + length, SECTOR_SIZE)
            t == cluster_heap_offset + cluster_count * SECTORS_PER_CLUSTER
<1>1. /\ q \in Nat /\ offset % SECTOR_SIZE = offset - q * SECTOR_SIZE /\ q * SECTOR_SIZE <= offset
      /\ q * SECTOR_SIZE \in Nat
    <2>1. q \in Nat /\ offset % SECTOR_SIZE = offset - q * SECTOR_SIZE /\ q * SECTOR_SIZE <= offset
        BY Sizes, DivMod
    <2>. HIDE DEF q
    <2>. QED BY <2>1, Sizes
<1>2. /\ r \in Nat /\ offset + length <= r * SECTOR_SIZE /\ r * SECTOR_SIZE \in Nat
    <2>1. r \in Nat /\ offset + length <= r * SECTOR_SIZE
        BY Sizes, CeilFacts
    <2>. HIDE DEF r
    <2>. QED BY <2>1, Sizes
<1>3. t \in Nat /\ total_bytes = t * SECTOR_SIZE /\ total_bytes \in Nat
    <2>1. t \in Nat
        BY Sizes, GeometryAssumption
    <2>2. total_bytes = t * SECTOR_SIZE
        BY DEF total_bytes
    <2>. HIDE DEF t
    <2>. QED BY <2>1, <2>2, Sizes
<1>4. ExtentsEnd = Smaller(total_bytes, r * SECTOR_SIZE)
    BY DEF ExtentsEnd
<1>. HIDE DEF q, r, t
<1>5. Start = q * SECTOR_SIZE
    BY <1>1 DEF Start
<1>. QED BY <1>1, <1>2, <1>3, <1>4, <1>5 DEF Aligned, Smaller

\* One more sector of the same kind.
LEMMA AlikeGrows ==
    ASSUME NEW from \in Nat, NEW to, Aligned(to), NEW zero, Alike(from, to, zero), IsZero(to) <=> zero = TRUE
    PROVE  Alike(from, to + SECTOR_SIZE, zero)
<1>. SUFFICES ASSUME NEW b \in Nat, Aligned(b), from <= b, b < to + SECTOR_SIZE
              PROVE  IsZero(b) <=> zero = TRUE
    BY DEF Alike
<1>1. to \in Nat /\ (to < b => to + SECTOR_SIZE <= b)
    BY AlignedFacts
<1>2. b < to \/ b = to
    BY <1>1, Sizes
<1>. QED BY <1>2 DEF Alike

\* The invariant depends on what the loop changes, and on the layout.
LEMMA WalkKept ==
    ASSUME ExtentsInv, Walking' => Walking, UNCHANGED <<buildVars, offset, length, at, run, extents>>,
           call' = "extents_done" => call = "extents_done" \/ (run = <<>> /\ at = ExtentsEnd)
    PROVE  ExtentsInv'
<1>1. \A b : IsZero(b)' <=> IsZero(b)
    BY ServedAlike
<1>2. \A x : Aligned(x)' <=> Aligned(x)
    BY DEF Aligned
<1>3. \A from, to, zero : Alike(from, to, zero)' <=> Alike(from, to, zero)
    BY <1>1, <1>2 DEF Alike
<1>4. ExtentsEnd' = ExtentsEnd /\ Start' = Start /\ Frontier' = Frontier
    BY DEF ExtentsEnd, Start, Frontier
<1>5. ClosedInv => ClosedInv'
    BY <1>2, <1>3, <1>4 DEF ClosedInv
<1>6. OpenInv => OpenInv'
    BY <1>1, <1>2, <1>3, <1>4 DEF OpenInv
<1>. QED BY <1>2, <1>4, <1>5, <1>6 DEF ExtentsInv

\* A loop that has just begun.
LEMMA BeginWalk ==
    ASSUME CallTypeOK', ReadInv, NEW o, NEW l, BeginExtents(o, l)
    PROVE  ExtentsInv'
<1>. SUFFICES ASSUME Walking' PROVE ExtentsInv'
    BY DEF ExtentsInv
<1>1. /\ offset' = o /\ length' = l /\ at' = Start' /\ call = "idle"
      /\ run' = run /\ extents' = extents
      /\ l > 0 => call' = "extents"
    BY DEF BeginExtents, Start, CallTypeOK
<1>2. run' = <<>> /\ extents' = <<>>
    BY <1>1 DEF ReadInv
<1>3. (offset \in Nat)' /\ (length \in Nat \ {0})' /\ (offset < total_bytes)'
    BY DEF CallTypeOK, Walking
<1>4. (Aligned(Start) /\ Aligned(ExtentsEnd) /\ Start < ExtentsEnd)'
    BY <1>3, WalkBounds, PTL
<1>5. (Aligned(at))' /\ (at <= ExtentsEnd)'
    <2>1. Start' \in Nat /\ ExtentsEnd' \in Nat
        BY <1>4, AlignedFacts
    <2>. QED BY <1>1, <1>4, <2>1
<1>6. ClosedInv'
    BY <1>1, <1>2, EmptySeq DEF ClosedInv, Frontier
<1>7. OpenInv'
    BY <1>2 DEF OpenInv
<1>8. call' = "extents"
    BY <1>1, <1>3
<1>. QED BY <1>5, <1>6, <1>7, <1>8 DEF ExtentsInv

\* The loop opens an extent: the sector differs from the last extent.
LEMMA OpenWalk ==
    ASSUME CallTypeOK, ExtentsInv, OpenRun, Walking
    PROVE  ExtentsInv'
<1>1. /\ call = "extents" /\ run = <<>> /\ at < ExtentsEnd
      /\ run' = <<at, IsZero(at)>> /\ at' = at + SECTOR_SIZE
      /\ UNCHANGED <<buildVars, call, offset, length, extents>>
    BY DEF OpenRun
<1>2. /\ Aligned(at) /\ ClosedInv /\ OpenInv
    BY DEF ExtentsInv
<1>3. /\ \A b : IsZero(b)' <=> IsZero(b)
      /\ \A x : Aligned(x)' <=> Aligned(x)
      /\ ExtentsEnd' = ExtentsEnd /\ Start' = Start
    BY <1>1, ServedAlike DEF Aligned, ExtentsEnd, Start
<1>4. \A from, to, zero : Alike(from, to, zero)' <=> Alike(from, to, zero)
    BY <1>3 DEF Alike
<1>5. /\ at \in Nat /\ Aligned(at + SECTOR_SIZE) /\ at + SECTOR_SIZE <= ExtentsEnd
    BY <1>1, <1>2, WalkBounds, AlignedFacts DEF Walking, CallTypeOK
<1>6. run' # <<>> /\ run'[1] = at /\ run' \in Nat \X BOOLEAN /\ (run'[2] = TRUE <=> IsZero(at))
    <2>1. IsZero(at) \in BOOLEAN
        BY DEF IsZero
    <2>2. \E z \in BOOLEAN : run' = <<at, z>> /\ (z = TRUE <=> IsZero(at))
        BY <1>1, <2>1, Zenon
    <2>3. PICK z \in BOOLEAN : run' = <<at, z>> /\ (z = TRUE <=> IsZero(at))
        BY <2>2
    <2>4. run' # <<>> /\ run'[1] = at /\ run'[2] = z /\ run' \in Nat \X BOOLEAN
        BY <1>5, <2>3
    <2>. QED BY <2>3, <2>4
<1>7. ClosedInv'
    <2>1. Frontier' = Frontier
        BY <1>1, <1>6 DEF Frontier
    <2>. QED BY <1>1, <1>2, <1>3, <1>4, <2>1 DEF ClosedInv
<1>8. Alike(at, at + SECTOR_SIZE, run'[2])
    <2>1. Alike(at, at, run'[2])
        BY <1>5 DEF Alike
    <2>. QED BY <1>2, <1>5, <1>6, <2>1, AlikeGrows
<1>9. OpenInv'
    <2>1. run'[1] < at' /\ Aligned(run[1])' /\ Alike(run[1], at, run[2])'
        <3>1. run'[1] < at'
            BY <1>1, <1>5, <1>6, Sizes
        <3>2. Aligned(run'[1])
            BY <1>2, <1>6
        <3>3. Alike(run'[1], at', run'[2])
            BY <1>1, <1>6, <1>8
        <3>. QED BY <1>3, <1>4, <3>1, <3>2, <3>3
    <2>2. extents # <<>> => run'[2] # extents[Len(extents)][3]
        <3>. SUFFICES ASSUME extents # <<>> PROVE run'[2] # extents[Len(extents)][3]
            OBVIOUS
        <3>1. at # ExtentsEnd
            BY <1>1, <1>5, Sizes
        <3>2. IsZero(at) <=> extents[Len(extents)][3] = FALSE
            BY <1>1, <1>2, <3>1 DEF OpenInv
        <3>3. extents[Len(extents)][3] \in BOOLEAN
            <4>1. Len(extents) \in 1 .. Len(extents)
                BY <1>2, EmptySeq DEF ClosedInv
            <4>2. extents[Len(extents)] \in Extent
                BY <1>2, <4>1, ElementOfSeq DEF ClosedInv
            <4>. QED BY <4>2 DEF Extent
        <3>. QED BY <1>6, <3>2, <3>3
    <2>. QED BY <1>1, <1>6, <2>1, <2>2 DEF OpenInv
<1>. QED BY <1>1, <1>3, <1>5, <1>7, <1>9 DEF ExtentsInv

\* The next sector belongs to the open extent.
LEMMA GrowWalk ==
    ASSUME CallTypeOK, ExtentsInv, GrowRun, Walking
    PROVE  ExtentsInv'
<1>1. /\ call = "extents" /\ run # <<>> /\ at < ExtentsEnd /\ IsZero(at) = run[2]
      /\ at' = at + SECTOR_SIZE
      /\ UNCHANGED <<buildVars, call, offset, length, run, extents>>
    BY DEF GrowRun, Continues
<1>2. /\ Aligned(at) /\ ClosedInv /\ OpenInv
    BY DEF ExtentsInv
<1>3. /\ \A b : IsZero(b)' <=> IsZero(b)
      /\ \A x : Aligned(x)' <=> Aligned(x)
      /\ ExtentsEnd' = ExtentsEnd /\ Start' = Start
    BY <1>1, ServedAlike DEF Aligned, ExtentsEnd, Start
<1>4. \A from, to, zero : Alike(from, to, zero)' <=> Alike(from, to, zero)
    BY <1>3 DEF Alike
<1>5. /\ at \in Nat /\ Aligned(at + SECTOR_SIZE) /\ at + SECTOR_SIZE <= ExtentsEnd
    BY <1>1, <1>2, WalkBounds, AlignedFacts DEF Walking, CallTypeOK
<1>6. ClosedInv'
    <2>1. Frontier' = Frontier
        BY <1>1 DEF Frontier
    <2>. QED BY <1>1, <1>2, <1>3, <1>4, <2>1 DEF ClosedInv
<1>7. /\ run \in Nat \X BOOLEAN /\ Aligned(run[1]) /\ run[1] < at /\ Alike(run[1], at, run[2])
    BY <1>1, <1>2 DEF OpenInv
<1>8. Alike(run[1], at + SECTOR_SIZE, run[2])
    <2>1. IsZero(at) <=> run[2] = TRUE
        BY <1>1, <1>7
    <2>2. run[1] \in Nat
        BY <1>7
    <2>. QED BY <1>2, <1>7, <2>1, <2>2, AlikeGrows
<1>9. OpenInv'
    <2>1. run[1] < at'
        BY <1>1, <1>5, <1>7, Sizes
    <2>. QED BY <1>1, <1>2, <1>3, <1>4, <1>7, <1>8, <2>1 DEF OpenInv
<1>. QED BY <1>1, <1>3, <1>5, <1>6, <1>9 DEF ExtentsInv

\* The open extent is closed where the next sector differs, or at the end.
LEMMA CloseWalk ==
    ASSUME CallTypeOK, ExtentsInv, CloseRun, Walking
    PROVE  ExtentsInv'
<1>. DEFINE e == <<run[1], at - run[1], run[2]>>  n == Len(extents)
<1>1. /\ call = "extents" /\ run # <<>> /\ ~Continues
      /\ extents' = Append(extents, e) /\ run' = <<>>
      /\ UNCHANGED <<buildVars, call, offset, length, at>>
    BY DEF CloseRun
<1>2. /\ Aligned(at) /\ at <= ExtentsEnd /\ ClosedInv /\ OpenInv
    BY DEF ExtentsInv
<1>3. /\ \A b : IsZero(b)' <=> IsZero(b)
      /\ \A x : Aligned(x)' <=> Aligned(x)
      /\ ExtentsEnd' = ExtentsEnd /\ Start' = Start
    BY <1>1, ServedAlike DEF Aligned, ExtentsEnd, Start
<1>4. \A from, to, zero : Alike(from, to, zero)' <=> Alike(from, to, zero)
    BY <1>3 DEF Alike
<1>5. /\ run \in Nat \X BOOLEAN /\ Aligned(run[1]) /\ run[1] < at /\ Alike(run[1], at, run[2])
    BY <1>1, <1>2 DEF OpenInv
<1>6. at \in Nat /\ ExtentsEnd \in Nat
    BY <1>2, WalkBounds, AlignedFacts DEF Walking, CallTypeOK
<1>7. e \in Extent /\ e[1] = run[1] /\ e[1] + e[2] = at /\ e[3] = run[2]
    BY <1>5, <1>6 DEF Extent
<1>8. extents \in Seq(Extent) /\ n \in Nat
    BY <1>2 DEF ClosedInv
<1>. HIDE DEF e
<1>9. /\ extents' \in Seq(Extent) /\ Len(extents') = n + 1 /\ extents' # <<>>
      /\ \A i \in 1 .. n : extents'[i] = extents[i]
      /\ extents'[n + 1] = e
    BY <1>1, <1>7, <1>8, AppendProperties
<1>10. extents = <<>> <=> n = 0
    BY <1>8, EmptySeq
<1>11. Frontier = run[1] /\ Frontier' = at
    BY <1>1 DEF Frontier
<1>12. \A i \in 1 .. n + 1 :
          /\ Aligned(extents'[i][1])
          /\ Alike(extents'[i][1], extents'[i][1] + extents'[i][2], extents'[i][3])
    <2>. TAKE i \in 1 .. n + 1
    <2>1. CASE i \in 1 .. n
        BY <1>2, <1>9, <2>1 DEF ClosedInv
    <2>2. CASE i = n + 1
        BY <1>5, <1>7, <1>9, <2>2
    <2>. QED BY <1>8, <2>1, <2>2
<1>13. \A i \in 1 .. n :
          /\ extents'[i + 1][1] = extents'[i][1] + extents'[i][2]
          /\ extents'[i + 1][3] # extents'[i][3]
    <2>. TAKE i \in 1 .. n
    <2>1. CASE i \in 1 .. n - 1
        <3>1. i + 1 \in 1 .. n
            BY <1>8, <2>1
        <3>. QED BY <1>2, <1>9, <2>1, <3>1 DEF ClosedInv
    <2>2. CASE i = n
        <3>1. extents # <<>> /\ n \in 1 .. n
            BY <1>8, <1>10, <2>2
        <3>2. extents[n][1] + extents[n][2] = run[1] /\ run[2] # extents[n][3]
            BY <1>1, <1>2, <1>11, <3>1 DEF ClosedInv, OpenInv
        <3>. QED BY <1>7, <1>9, <2>2, <3>1, <3>2
    <2>. QED BY <1>8, <2>1, <2>2
<1>14. extents'[1][1] = Start
    <2>1. CASE n = 0
        BY <1>2, <1>7, <1>9, <1>10, <1>11, <2>1 DEF ClosedInv
    <2>2. CASE n # 0
        <3>1. 1 \in 1 .. n
            BY <1>8, <2>2
        <3>. QED BY <1>2, <1>9, <1>10, <2>2, <3>1 DEF ClosedInv
    <2>. QED BY <2>1, <2>2
<1>15. ClosedInv'
    <2>1. Len(extents') - 1 = n
        BY <1>8, <1>9
    <2>2. extents'[Len(extents')][1] + extents'[Len(extents')][2] = Frontier'
        BY <1>7, <1>9, <1>11
    <2>. QED BY <1>3, <1>4, <1>9, <1>12, <1>13, <1>14, <2>1, <2>2 DEF ClosedInv
<1>16. OpenInv'
    <2>1. extents'[Len(extents')][3] = run[2]
        BY <1>7, <1>9
    <2>2. at = ExtentsEnd \/ (IsZero(at) <=> run[2] = FALSE)
        <3>1. at < ExtentsEnd => ~(IsZero(at) = run[2])
            BY <1>1 DEF Continues
        <3>2. IsZero(at) \in BOOLEAN
            BY DEF IsZero
        <3>. QED BY <1>2, <1>5, <1>6, <3>1, <3>2
    <2>. QED BY <1>1, <1>3, <2>1, <2>2 DEF OpenInv
<1>. QED BY <1>1, <1>2, <1>3, <1>15, <1>16 DEF ExtentsInv

LEMMA StepExtentsInv ==
    ASSUME BuildInv, CallTypeOK, CallTypeOK', ReadInv, ExtentsInv, Next \/ UNCHANGED vars
    PROVE  ExtentsInv'
<1>1. CASE UNCHANGED vars
    BY <1>1, WalkKept DEF vars, callVars, Walking
<1>2. CASE Build \/ \E n \in Node, bytes \in NewSizes : Resize(n, bytes)
    <2>1. call \in {"idle", "read"} /\ call' = call
        BY <1>2, BuildEnds DEF Build, Resize, callVars, ReadInv
    <2>. QED BY <2>1 DEF ExtentsInv, Walking
<1>3. CASE (\E r \in Requests : BeginRead(r[1], r[2])) \/ Reading \/ ExtentsFail \/ Answered
    <2>1. call' \notin {"extents", "extents_done"}
        BY <1>3 DEF BeginRead, Reading, ReadPiece, ReadFails, EndRead, ExtentsFail, Answered
    <2>. QED BY <2>1 DEF ExtentsInv, Walking
<1>4. ASSUME NEW r \in Requests, BeginExtents(r[1], r[2]) PROVE ExtentsInv'
    BY <1>4, BeginWalk
<1>5. CASE OpenRun \/ GrowRun \/ CloseRun
    <2>1. CASE Walking
        BY <1>5, <2>1, OpenWalk, GrowWalk, CloseWalk
    <2>2. CASE ~Walking
        BY <1>5, <2>2 DEF OpenRun, GrowRun, CloseRun, ExtentsInv, Walking
    <2>. QED BY <2>1, <2>2
<1>6. CASE EndExtents
    <2>1. /\ call = "extents" /\ run = <<>> /\ at >= ExtentsEnd
          /\ UNCHANGED <<buildVars, offset, length, at, run, extents>>
        BY <1>6 DEF EndExtents
    <2>2. Walking' => Walking
        BY <2>1 DEF Walking
    <2>3. Walking => at = ExtentsEnd
        <3>. SUFFICES ASSUME Walking PROVE at = ExtentsEnd
            OBVIOUS
        <3>1. at <= ExtentsEnd /\ at \in Nat
            BY DEF ExtentsInv, CallTypeOK
        <3>2. ExtentsEnd \in Nat
            BY WalkBounds, AlignedFacts DEF Walking, CallTypeOK
        <3>. QED BY <2>1, <3>1, <3>2
    <2>4. CASE Walking
        BY <2>1, <2>2, <2>3, <2>4, WalkKept
    <2>5. CASE ~Walking
        BY <2>2, <2>5 DEF ExtentsInv
    <2>. QED BY <2>4, <2>5
<1>. QED BY <1>1, <1>2, <1>3, <1>4, <1>5, <1>6 DEF Next, Reading

LEMMA ExtentsFromTree == BuildInv /\ CallTypeOK /\ ReadInv /\ ExtentsInv => ExtentsExact
<1>. SUFFICES ASSUME BuildInv, CallTypeOK, ReadInv, ExtentsInv,
                     call = "extents_done", length > 0, offset < total_bytes
              PROVE  ExtentsExact
    BY DEF ExtentsExact
<1>1. Built
    BY DEF ReadInv
<1>2. /\ at = ExtentsEnd /\ run = <<>> /\ ClosedInv
    BY DEF ExtentsInv, Walking
<1>3. Frontier = ExtentsEnd
    BY <1>2 DEF Frontier
<1>4. Start < ExtentsEnd /\ Start \in Nat /\ ExtentsEnd \in Nat
    BY WalkBounds, AlignedFacts DEF CallTypeOK
<1>5. extents # <<>>
    BY <1>2, <1>3, <1>4 DEF ClosedInv
<1>6. ASSUME NEW i \in 1 .. Len(extents), NEW k \in 0 .. extents[i][2] \div SECTOR_SIZE - 1
      PROVE  LET byte == extents[i][1] + k * SECTOR_SIZE
             IN  extents[i][3] <=> Hole(byte)
    <2>. DEFINE e == extents[i]  byte == e[1] + k * SECTOR_SIZE  q == e[2] \div SECTOR_SIZE
    <2>1. /\ e \in Extent /\ Aligned(e[1]) /\ Alike(e[1], e[1] + e[2], e[3])
        BY <1>2, ElementOfSeq DEF ClosedInv
    <2>2. e[1] \in Nat /\ e[2] \in Nat /\ e[3] \in BOOLEAN
        BY <2>1 DEF Extent
    <2>. HIDE DEF e
    <2>3. q \in Nat /\ q * SECTOR_SIZE <= e[2]
        BY <2>2, Sizes, DivMod
    <2>4. k \in Nat /\ k < q
        BY <2>3 DEF e
    <2>. HIDE DEF q
    <2>5. k * SECTOR_SIZE \in Nat /\ k * SECTOR_SIZE + SECTOR_SIZE <= q * SECTOR_SIZE
        BY <2>3, <2>4, Sizes, TimesStrict
    <2>6. byte \in Nat /\ e[1] <= byte /\ byte < e[1] + e[2]
        <3>1. q * SECTOR_SIZE \in Nat
            BY <2>3, Sizes
        <3>. DEFINE x == e[1]  y == e[2]  z == k * SECTOR_SIZE  w == q * SECTOR_SIZE
        <3>2. /\ x \in Nat /\ y \in Nat /\ z \in Nat /\ w \in Nat
              /\ z + SECTOR_SIZE <= w /\ w <= y /\ SECTOR_SIZE \in Nat \ {0}
            BY <2>2, <2>3, <2>5, <3>1, Sizes
        <3>. HIDE DEF x, y, z, w
        <3>3. x + z \in Nat /\ x <= x + z /\ x + z < x + y
            BY <3>2
        <3>. QED BY <3>3 DEF x, y, z
    <2>7. Aligned(byte)
        <3>1. PICK l \in Nat : e[1] = l * SECTOR_SIZE
            BY <2>1 DEF Aligned
        <3>2. byte = (l + k) * SECTOR_SIZE /\ l + k \in Nat
            BY <2>4, <3>1, Sizes
        <3>. QED BY <3>2 DEF Aligned
    <2>. HIDE DEF byte
    <2>8. IsZero(byte) <=> e[3] = TRUE
        BY <2>1, <2>6, <2>7 DEF Alike
    <2>9. e[3] <=> Hole(byte)
        BY <1>1, <2>2, <2>6, <2>8, Holes
    <2>. QED BY <2>9 DEF e, byte
<1>. QED BY <1>2, <1>3, <1>5, <1>6 DEF ExtentsExact, ClosedInv, Start

\* extents describes the image from the sector of the offset to the end of the
\* request, in maximal extents, and calls a hole only what reads as zeros.
THEOREM ExtentsDescribeImage == Spec => []ExtentsExact
<1>1. Init => ExtentsInv
    BY DEF Init, ExtentsInv, Walking
<1>2. BuildInv /\ CallTypeOK /\ CallTypeOK' /\ ReadInv /\ ExtentsInv /\ [Next]_vars => ExtentsInv'
    BY StepExtentsInv
<1>3. Spec => []ExtentsInv
    BY <1>1, <1>2, ExportCallType, ExportReadInv, PTL DEF Spec
<1>. QED BY <1>3, ExportReadInv, ExtentsFromTree, PTL

-----------------------------------------------------------------------------
(* Part three: the loops of get_hot_ranges                                 *)

ByteRange == Nat \X (Nat \ {0})

InRange(range, b) == range[1] <= b /\ b < End(range)

\* The ranges in the hands of the loops cover a byte.
HotByte(b) ==
    \/ \E r \in pending : InRange(r, b)
    \/ \E i \in 1 .. Len(merged) : InRange(merged[i], b)
    \/ \E i \in 1 .. Len(bounded) : InRange(bounded[i], b)

\* What has been merged is separate, ascending, and starts no later than what
\* has not; the pieces are in order, within the limit, and before the rest.
MergeInv ==
    /\ pending \subseteq ByteRange /\ merged \in Seq(ByteRange) /\ bounded \in Seq(ByteRange)
    /\ \A i, j \in 1 .. Len(merged) : i < j => End(merged[i]) < merged[j][1]
    /\ \A r \in pending : merged # <<>> => merged[Len(merged)][1] <= r[1]
    /\ \A i \in 1 .. Len(bounded) :
          /\ bounded[i][2] <= MAX_METADATA_PREFETCH_BYTES
          /\ \A j \in 1 .. Len(merged) : End(bounded[i]) <= merged[j][1]
    /\ \A i, j \in 1 .. Len(bounded) : i < j => End(bounded[i]) <= bounded[j][1]

\* Which of the three lists are empty, and that no byte is lost or added.
HotInv ==
    /\ loop \in {"none", "merge", "split", "ready"}
    /\ loop \in {"none", "split", "ready"} => pending = {}
    /\ loop \in {"none", "ready"} => merged = <<>>
    /\ loop \in {"none", "merge"} => bounded = <<>>
    /\ MergeInv
    /\ loop # "none" => Built /\ \A b \in Nat : HotByte(b) <=> b \div SECTOR_SIZE \in Wanted

\* Ranges have starts, positive lengths and ends.
LEMMA RangeType ==
    ASSUME NEW r \in ByteRange
    PROVE  /\ r[1] \in Nat /\ r[2] \in Nat \ {0} /\ End(r) \in Nat
           /\ End(r) = r[1] + r[2] /\ r[1] < End(r)
BY DEF ByteRange, End

\* The first loop adds a range at or behind the start of the last one.
LEMMA MergeOne ==
    ASSUME NEW done \in Seq(ByteRange), NEW range \in ByteRange,
           \A i, j \in 1 .. Len(done) : i < j => End(done[i]) < done[j][1],
           done # <<>> => done[Len(done)][1] <= range[1],
           NEW more, more = Merged(done, range)
    PROVE  /\ more \in Seq(ByteRange) /\ more # <<>>
           /\ more[Len(more)][1] <= range[1]
           /\ \A i, j \in 1 .. Len(more) : i < j => End(more[i]) < more[j][1]
           /\ \A b \in Nat : (\E i \in 1 .. Len(more) : InRange(more[i], b))
                               <=> (\E i \in 1 .. Len(done) : InRange(done[i], b)) \/ InRange(range, b)
<1>. DEFINE n    == Len(done)
            prev == done[n]
            long == <<prev[1], AtLeast(End(prev), End(range)) - prev[1]>>
<1>1. n \in Nat /\ (done = <<>> <=> n = 0)
    BY EmptySeq
<1>2. \A i \in 1 .. n : done[i] \in ByteRange /\ done[i][1] \in Nat /\ End(done[i]) \in Nat /\ done[i][1] < End(done[i])
    BY ElementOfSeq, RangeType
<1>3. range[1] \in Nat /\ End(range) \in Nat /\ range[1] < End(range)
    BY RangeType
<1>4. CASE done # <<>> /\ range[1] <= End(prev)
    <2>1. n \in 1 .. n
        BY <1>1, <1>4
    <2>2. /\ prev[1] \in Nat /\ End(prev) \in Nat /\ prev[1] < End(prev) /\ prev[1] <= range[1]
        BY <1>2, <1>4, <2>1
    <2>. DEFINE x == AtLeast(End(prev), End(range))
    <2>3. /\ x \in Nat /\ End(prev) <= x /\ End(range) <= x /\ (x = End(prev) \/ x = End(range))
        BY <1>3, <2>2 DEF AtLeast
    <2>4. more = [done EXCEPT ![n] = long]
        BY <1>4 DEF Merged
    <2>5. long \in ByteRange /\ long[1] = prev[1] /\ End(long) = x
        <3>1. x - prev[1] \in Nat \ {0} /\ prev[1] + (x - prev[1]) = x
            BY <2>2, <2>3
        <3>. HIDE DEF x
        <3>2. long = <<prev[1], x - prev[1]>>
            BY DEF x
        <3>. HIDE DEF long
        <3>. QED BY <2>2, <3>1, <3>2 DEF ByteRange, End
    <2>. HIDE DEF long, x
    <2>6. /\ more \in Seq(ByteRange) /\ Len(more) = n
          /\ \A i \in 1 .. n : more[i] = IF i = n THEN long ELSE done[i]
        <3>1. more \in Seq(ByteRange) /\ Len(more) = n
            BY <2>1, <2>4, <2>5, ExceptSeq
        <3>2. \A i \in 1 .. n : more[i] = IF i = n THEN long ELSE done[i]
            BY <2>1, <2>4
        <3>. QED BY <3>1, <3>2
    <2>7. more # <<>> /\ more[Len(more)][1] <= range[1]
        BY <1>1, <2>1, <2>2, <2>5, <2>6, EmptySeq
    <2>8. \A i, j \in 1 .. n : i < j => End(more[i]) < more[j][1]
        <3>. SUFFICES ASSUME NEW i \in 1 .. n, NEW j \in 1 .. n, i < j PROVE End(more[i]) < more[j][1]
            OBVIOUS
        <3>1. i # n /\ more[i] = done[i] /\ more[j][1] = done[j][1]
            BY <1>1, <2>5, <2>6
        <3>. QED BY <3>1
    <2>9. ASSUME NEW b \in Nat
          PROVE  (\E i \in 1 .. n : InRange(more[i], b))
                    <=> (\E i \in 1 .. n : InRange(done[i], b)) \/ InRange(range, b)
        <3>1. InRange(long, b) <=> InRange(prev, b) \/ InRange(range, b)
            BY <1>3, <1>4, <2>2, <2>3, <2>5 DEF InRange
        <3>2. more[n] = long /\ \A i \in 1 .. n : i # n => more[i] = done[i]
            BY <2>1, <2>6
        <3>3. ASSUME NEW i \in 1 .. n, InRange(more[i], b)
              PROVE  (\E k \in 1 .. n : InRange(done[k], b)) \/ InRange(range, b)
            <4>1. CASE i = n
                BY <2>1, <3>1, <3>2, <3>3, <4>1
            <4>2. CASE i # n
                BY <3>2, <3>3, <4>2
            <4>. QED BY <4>1, <4>2
        <3>4. ASSUME NEW i \in 1 .. n, InRange(done[i], b)
              PROVE  \E k \in 1 .. n : InRange(more[k], b)
            <4>1. CASE i = n
                BY <2>1, <3>1, <3>2, <3>4, <4>1
            <4>2. CASE i # n
                BY <3>2, <3>4, <4>2
            <4>. QED BY <4>1, <4>2
        <3>5. InRange(range, b) => \E k \in 1 .. n : InRange(more[k], b)
            BY <2>1, <3>1, <3>2
        <3>. QED BY <3>3, <3>4, <3>5
    <2>. QED BY <2>6, <2>7, <2>8, <2>9
<1>5. CASE ~(done # <<>> /\ range[1] <= End(prev))
    <2>1. more = Append(done, range)
        BY <1>5 DEF Merged
    <2>2. /\ more \in Seq(ByteRange) /\ more # <<>> /\ Len(more) = n + 1
          /\ \A i \in 1 .. n : more[i] = done[i]
          /\ more[n + 1] = range
        BY <2>1, AppendProperties
    <2>3. \A i \in 1 .. n : End(done[i]) < range[1]
        <3>. TAKE i \in 1 .. n
        <3>1. done # <<>> /\ n \in 1 .. n
            BY <1>1
        <3>2. prev[1] \in Nat /\ End(prev) \in Nat /\ prev[1] < End(prev) /\ End(prev) < range[1]
            BY <1>2, <1>3, <1>5, <3>1
        <3>3. End(done[i]) \in Nat
            BY <1>2
        <3>4. CASE i = n
            BY <3>2, <3>4
        <3>5. CASE i # n
            <4>1. i < n
                BY <1>1, <3>5
            <4>2. End(done[i]) < prev[1]
                BY <3>1, <4>1
            <4>. QED BY <1>3, <3>2, <3>3, <4>2
        <3>. QED BY <3>4, <3>5
    <2>4. \A i, j \in 1 .. n + 1 : i < j => End(more[i]) < more[j][1]
        <3>. SUFFICES ASSUME NEW i \in 1 .. n + 1, NEW j \in 1 .. n + 1, i < j PROVE End(more[i]) < more[j][1]
            OBVIOUS
        <3>1. i \in 1 .. n
            BY <1>1
        <3>2. CASE j = n + 1
            BY <2>2, <2>3, <3>1, <3>2
        <3>3. CASE j # n + 1
            <4>1. j \in 1 .. n
                BY <1>1, <3>3
            <4>. QED BY <2>2, <3>1, <4>1
        <3>. QED BY <3>2, <3>3
    <2>5. more[Len(more)][1] <= range[1]
        BY <1>3, <2>2
    <2>6. ASSUME NEW b \in Nat
          PROVE  (\E i \in 1 .. n + 1 : InRange(more[i], b))
                    <=> (\E i \in 1 .. n : InRange(done[i], b)) \/ InRange(range, b)
        <3>1. ASSUME NEW i \in 1 .. n + 1, InRange(more[i], b)
              PROVE  (\E k \in 1 .. n : InRange(done[k], b)) \/ InRange(range, b)
            <4>1. i \in 1 .. n \/ i = n + 1
                BY <1>1
            <4>. QED BY <2>2, <3>1, <4>1
        <3>2. ASSUME NEW i \in 1 .. n, InRange(done[i], b)
              PROVE  \E k \in 1 .. n + 1 : InRange(more[k], b)
            <4>1. i \in 1 .. n + 1
                BY <1>1
            <4>. QED BY <2>2, <3>2, <4>1
        <3>3. InRange(range, b) => \E k \in 1 .. n + 1 : InRange(more[k], b)
            <4>1. n + 1 \in 1 .. n + 1
                BY <1>1
            <4>. QED BY <2>2, <4>1
        <3>. QED BY <3>1, <3>2, <3>3
    <2>. QED BY <2>2, <2>4, <2>5, <2>6
<1>. QED BY <1>4, <1>5

\* Nothing the loops do changes what the policy asks for.
LEMMA WantedKept ==
    ASSUME UNCHANGED vars, UNCHANGED policy
    PROVE  Wanted' = Wanted /\ (Built' <=> Built)
BY DEF vars, buildVars, treeVars, allocVars, Wanted, DirectoryClusters, Run, Dirs, Existing, Built

LEMMA MergeNextInv ==
    ASSUME HotInv, MergeNext
    PROVE  HotInv'
<1>1. PICK range \in pending :
        /\ \A other \in pending : other = range \/ Before(range, other)
        /\ merged' = Merged(merged, range)
        /\ pending' = pending \ {range}
    BY DEF MergeNext
<1>2. /\ loop = "merge" /\ UNCHANGED <<loop, policy, bounded>> /\ UNCHANGED vars
    BY DEF MergeNext
<1>3. /\ pending \subseteq ByteRange /\ merged \in Seq(ByteRange) /\ bounded = <<>>
      /\ \A i, j \in 1 .. Len(merged) : i < j => End(merged[i]) < merged[j][1]
      /\ merged # <<>> => merged[Len(merged)][1] <= range[1]
    BY <1>1, <1>2 DEF HotInv, MergeInv
<1>4. range \in ByteRange
    BY <1>1, <1>3
<1>5. /\ merged' \in Seq(ByteRange) /\ merged' # <<>>
      /\ merged'[Len(merged')][1] <= range[1]
      /\ \A i, j \in 1 .. Len(merged') : i < j => End(merged'[i]) < merged'[j][1]
      /\ \A b \in Nat : (\E i \in 1 .. Len(merged') : InRange(merged'[i], b))
                          <=> (\E i \in 1 .. Len(merged) : InRange(merged[i], b)) \/ InRange(range, b)
    BY <1>1, <1>3, <1>4, MergeOne
<1>6. ASSUME NEW r \in pending' PROVE merged'[Len(merged')][1] <= r[1]
    <2>1. r \in pending /\ r \in ByteRange /\ r[1] \in Nat /\ range[1] \in Nat
        BY <1>1, <1>3, <1>4, <1>6, RangeType
    <2>2. range[1] <= r[1]
        BY <1>1, <1>4, <2>1 DEF Before
    <2>3. merged'[Len(merged')][1] \in Nat
        <3>1. Len(merged') \in 1 .. Len(merged')
            BY <1>5, EmptySeq
        <3>2. merged'[Len(merged')] \in ByteRange
            BY <1>5, <3>1, ElementOfSeq
        <3>. QED BY <3>2, RangeType
    <2>. QED BY <1>5, <2>1, <2>2, <2>3
<1>7. MergeInv'
    <2>1. Len(bounded') = 0
        BY <1>2, <1>3
    <2>. QED BY <1>1, <1>2, <1>3, <1>5, <1>6, <2>1, EmptySeq DEF MergeInv
<1>8. \A b \in Nat : HotByte(b)' <=> HotByte(b)
    <2>. TAKE b \in Nat
    <2>1. (\E r \in pending : InRange(r, b)) <=> (\E r \in pending' : InRange(r, b)) \/ InRange(range, b)
        BY <1>1
    <2>2. (\E i \in 1 .. Len(merged') : InRange(merged'[i], b))
            <=> (\E i \in 1 .. Len(merged) : InRange(merged[i], b)) \/ InRange(range, b)
        BY <1>5
    <2>3. HotByte(b)' <=> \/ \E r \in pending' : InRange(r, b)
                          \/ \E i \in 1 .. Len(merged') : InRange(merged'[i], b)
                          \/ \E i \in 1 .. Len(bounded) : InRange(bounded[i], b)
        BY <1>2 DEF HotByte, InRange, End
    <2>. QED BY <2>1, <2>2, <2>3 DEF HotByte
<1>9. Wanted' = Wanted /\ Built'
    BY <1>2, WantedKept DEF HotInv
<1>. QED BY <1>2, <1>3, <1>7, <1>8, <1>9 DEF HotInv

\* The second loop cuts a piece off the first range, or keeps what is left.
LEMMA SplitPieceInv ==
    ASSUME HotInv, SplitPiece
    PROVE  HotInv'
<1>. DEFINE r == merged[1]  m == MAX_METADATA_PREFETCH_BYTES  n == Len(merged)  k == Len(bounded)
<1>1. /\ loop = "split" /\ merged # <<>> /\ pending = {} /\ pending' = pending
      /\ UNCHANGED <<loop, policy>> /\ UNCHANGED vars
    BY DEF SplitPiece, HotInv
<1>2. /\ merged \in Seq(ByteRange) /\ bounded \in Seq(ByteRange)
      /\ \A i, j \in 1 .. n : i < j => End(merged[i]) < merged[j][1]
      /\ \A i \in 1 .. k : bounded[i][2] <= m /\ \A j \in 1 .. n : End(bounded[i]) <= merged[j][1]
      /\ \A i, j \in 1 .. k : i < j => End(bounded[i]) <= bounded[j][1]
    BY DEF HotInv, MergeInv
<1>3. /\ n \in Nat \ {0} /\ k \in Nat /\ 1 \in 1 .. n /\ m \in Nat \ {0}
    BY <1>1, <1>2, EmptySeq, PrefetchAssumption
<1>4. /\ r \in ByteRange /\ r[1] \in Nat /\ r[2] \in Nat \ {0} /\ End(r) = r[1] + r[2]
    BY <1>2, <1>3, ElementOfSeq, RangeType
<1>5. \A i \in 1 .. n : merged[i] \in ByteRange /\ merged[i][1] \in Nat
    BY <1>2, ElementOfSeq, RangeType
<1>6. \A i \in 1 .. k : bounded[i] \in ByteRange /\ bounded[i][1] \in Nat /\ End(bounded[i]) \in Nat
    BY <1>2, ElementOfSeq, RangeType
<1>7. Head(merged) = r
    BY <1>1, <1>2
<1>8. PICK piece \in ByteRange :
        /\ piece[1] = r[1] /\ piece[2] <= m /\ End(piece) <= End(r)
        /\ bounded' = Append(bounded, piece)
        /\ \/ /\ merged' \in Seq(ByteRange) /\ Len(merged') = n
              /\ \A i \in 1 .. n : i # 1 => merged'[i] = merged[i]
              /\ merged'[1][1] = End(piece) /\ End(merged'[1]) = End(r)
           \/ merged' = Tail(merged) /\ piece = r
    <2>1. CASE r[2] > m /\ bounded' = Append(bounded, <<r[1], m>>)
               /\ merged' = [merged EXCEPT ![1] = <<r[1] + m, r[2] - m>>]
        <3>. DEFINE piece == <<r[1], m>>  rest == <<r[1] + m, r[2] - m>>
        <3>1. /\ piece \in ByteRange /\ piece[1] = r[1] /\ piece[2] = m /\ End(piece) = r[1] + m
            BY <1>3, <1>4 DEF ByteRange, End
        <3>2. /\ rest \in ByteRange /\ rest[1] = r[1] + m /\ End(rest) = r[1] + r[2]
            <4>1. r[2] - m \in Nat \ {0} /\ r[1] + m \in Nat /\ (r[1] + m) + (r[2] - m) = r[1] + r[2]
                BY <1>3, <1>4, <2>1
            <4>. QED BY <4>1 DEF ByteRange, End
        <3>. HIDE DEF piece, rest
        <3>3. merged' = [merged EXCEPT ![1] = rest] /\ bounded' = Append(bounded, piece)
            BY <2>1 DEF rest, piece
        <3>4. /\ merged' \in Seq(ByteRange) /\ Len(merged') = n
            BY <1>2, <1>3, <3>2, <3>3, ExceptSeq
        <3>5. merged'[1] = rest /\ \A i \in 1 .. n : i # 1 => merged'[i] = merged[i]
            BY <1>2, <1>3, <3>3
        <3>6. End(piece) <= End(r)
            BY <1>3, <1>4, <2>1, <3>1
        <3>7. /\ piece[1] = r[1] /\ piece[2] <= m /\ End(piece) <= End(r)
              /\ bounded' = Append(bounded, piece)
              /\ merged' \in Seq(ByteRange) /\ Len(merged') = n
              /\ \A i \in 1 .. n : i # 1 => merged'[i] = merged[i]
              /\ merged'[1][1] = End(piece) /\ End(merged'[1]) = End(r)
            BY <1>3, <1>4, <3>1, <3>2, <3>3, <3>4, <3>5, <3>6
        <3>. QED BY <3>1, <3>7
    <2>2. CASE r[2] <= m /\ bounded' = Append(bounded, r) /\ merged' = Tail(merged)
        BY <1>4, <2>2
    <2>. QED BY <1>1, <1>3, <1>4, <1>7, <2>1, <2>2 DEF SplitPiece
<1>9. /\ bounded' \in Seq(ByteRange) /\ Len(bounded') = k + 1
      /\ \A i \in 1 .. k : bounded'[i] = bounded[i]
      /\ bounded'[k + 1] = piece
    BY <1>2, <1>8, AppendProperties
<1>10. /\ piece[1] \in Nat /\ End(piece) \in Nat /\ piece[1] < End(piece)
    BY RangeType
<1>11. \A i \in 1 .. k : End(bounded[i]) <= piece[1]
    BY <1>2, <1>3, <1>8
<1>12. \A i, j \in 1 .. k + 1 : i < j => End(bounded'[i]) <= bounded'[j][1]
    <2>. SUFFICES ASSUME NEW i \in 1 .. k + 1, NEW j \in 1 .. k + 1, i < j
                  PROVE  End(bounded'[i]) <= bounded'[j][1]
        OBVIOUS
    <2>1. i \in 1 .. k /\ (j \in 1 .. k \/ j = k + 1)
        BY <1>3
    <2>. QED BY <1>2, <1>9, <1>11, <2>1
<1>13. \A i \in 1 .. k + 1 : bounded'[i][2] <= m
    <2>. TAKE i \in 1 .. k + 1
    <2>1. i \in 1 .. k \/ i = k + 1
        BY <1>3
    <2>. QED BY <1>2, <1>8, <1>9, <2>1
<1>14. \A b \in Nat : (\E i \in 1 .. k + 1 : InRange(bounded'[i], b))
                        <=> (\E i \in 1 .. k : InRange(bounded[i], b)) \/ InRange(piece, b)
    <2>. TAKE b \in Nat
    <2>1. ASSUME NEW i \in 1 .. k + 1, InRange(bounded'[i], b)
          PROVE  (\E l \in 1 .. k : InRange(bounded[l], b)) \/ InRange(piece, b)
        <3>1. i \in 1 .. k \/ i = k + 1
            BY <1>3
        <3>. QED BY <1>9, <2>1, <3>1
    <2>2. ASSUME NEW i \in 1 .. k, InRange(bounded[i], b)
          PROVE  \E l \in 1 .. k + 1 : InRange(bounded'[l], b)
        <3>1. i \in 1 .. k + 1
            BY <1>3
        <3>. QED BY <1>9, <2>2, <3>1
    <2>3. InRange(piece, b) => \E l \in 1 .. k + 1 : InRange(bounded'[l], b)
        <3>1. k + 1 \in 1 .. k + 1
            BY <1>3
        <3>. QED BY <1>9, <3>1
    <2>. QED BY <2>1, <2>2, <2>3
\* What is left starts where the piece ends, or later, and covers the rest.
<1>15. /\ merged' \in Seq(ByteRange)
       /\ \A i, j \in 1 .. Len(merged') : i < j => End(merged'[i]) < merged'[j][1]
       /\ \A j \in 1 .. Len(merged') : End(piece) <= merged'[j][1]
       /\ \A b \in Nat : (\E i \in 1 .. n : InRange(merged[i], b))
                           <=> (\E i \in 1 .. Len(merged') : InRange(merged'[i], b)) \/ InRange(piece, b)
    <2>1. CASE /\ merged' \in Seq(ByteRange) /\ Len(merged') = n
               /\ \A i \in 1 .. n : i # 1 => merged'[i] = merged[i]
               /\ merged'[1][1] = End(piece) /\ End(merged'[1]) = End(r)
        <3>1. \A i, j \in 1 .. n : i < j => End(merged'[i]) < merged'[j][1]
            <4>. SUFFICES ASSUME NEW i \in 1 .. n, NEW j \in 1 .. n, i < j PROVE End(merged'[i]) < merged'[j][1]
                BY <2>1
            <4>1. j # 1 /\ merged'[j] = merged[j] /\ End(merged'[i]) = End(merged[i])
                BY <1>3, <2>1
            <4>. QED BY <1>2, <4>1
        <3>2. \A j \in 1 .. n : End(piece) <= merged'[j][1]
            <4>. TAKE j \in 1 .. n
            <4>1. CASE j = 1
                BY <1>10, <2>1, <4>1
            <4>2. CASE j # 1
                <5>1. 1 < j /\ merged'[j] = merged[j]
                    BY <2>1, <4>2
                <5>2. End(r) < merged[j][1]
                    BY <1>2, <1>3, <5>1
                <5>. QED BY <1>4, <1>5, <1>8, <1>10, <5>1, <5>2
            <4>. QED BY <4>1, <4>2
        <3>3. ASSUME NEW b \in Nat
              PROVE  (\E i \in 1 .. n : InRange(merged[i], b))
                        <=> (\E i \in 1 .. n : InRange(merged'[i], b)) \/ InRange(piece, b)
            <4>1. InRange(r, b) <=> InRange(merged'[1], b) \/ InRange(piece, b)
                BY <1>4, <1>8, <1>10, <2>1 DEF InRange
            <4>2. \A i \in 1 .. n : i # 1 => (InRange(merged'[i], b) <=> InRange(merged[i], b))
                BY <2>1
            <4>. QED BY <1>3, <4>1, <4>2
        <3>. QED BY <2>1, <3>1, <3>2, <3>3
    <2>2. CASE merged' = Tail(merged) /\ piece = r
        <3>1. /\ merged' \in Seq(ByteRange) /\ Len(merged') = n - 1
              /\ \A i \in 1 .. n - 1 : merged'[i] = merged[i + 1]
            BY <1>1, <1>2, <2>2, HeadTailProperties
        <3>2. \A i, j \in 1 .. n - 1 : i < j => End(merged'[i]) < merged'[j][1]
            <4>. SUFFICES ASSUME NEW i \in 1 .. n - 1, NEW j \in 1 .. n - 1, i < j
                          PROVE  End(merged'[i]) < merged'[j][1]
                OBVIOUS
            <4>1. i + 1 \in 1 .. n /\ j + 1 \in 1 .. n /\ i + 1 < j + 1
                BY <1>3
            <4>. QED BY <1>2, <3>1, <4>1
        <3>3. \A j \in 1 .. n - 1 : End(piece) <= merged'[j][1]
            <4>. TAKE j \in 1 .. n - 1
            <4>1. j + 1 \in 1 .. n /\ 1 < j + 1
                BY <1>3
            <4>2. End(r) < merged[j + 1][1] /\ merged[j + 1][1] \in Nat
                BY <1>2, <1>3, <1>5, <4>1
            <4>. QED BY <1>10, <2>2, <3>1, <4>2
        <3>4. ASSUME NEW b \in Nat
              PROVE  (\E i \in 1 .. n : InRange(merged[i], b))
                        <=> (\E i \in 1 .. n - 1 : InRange(merged'[i], b)) \/ InRange(piece, b)
            <4>1. ASSUME NEW i \in 1 .. n, InRange(merged[i], b)
                  PROVE  (\E l \in 1 .. n - 1 : InRange(merged'[l], b)) \/ InRange(piece, b)
                <5>1. CASE i = 1
                    BY <2>2, <4>1, <5>1
                <5>2. CASE i # 1
                    <6>1. i - 1 \in 1 .. n - 1 /\ (i - 1) + 1 = i
                        BY <1>3, <5>2
                    <6>. QED BY <3>1, <4>1, <6>1
                <5>. QED BY <5>1, <5>2
            <4>2. ASSUME NEW i \in 1 .. n - 1, InRange(merged'[i], b)
                  PROVE  \E l \in 1 .. n : InRange(merged[l], b)
                <5>1. i + 1 \in 1 .. n
                    BY <1>3
                <5>. QED BY <3>1, <4>2, <5>1
            <4>3. InRange(piece, b) => \E l \in 1 .. n : InRange(merged[l], b)
                BY <1>3, <2>2
            <4>. QED BY <4>1, <4>2, <4>3
        <3>. QED BY <3>1, <3>2, <3>3, <3>4
    <2>. QED BY <1>8, <2>1, <2>2
<1>16. \A i \in 1 .. k + 1 : \A j \in 1 .. Len(merged') : End(bounded'[i]) <= merged'[j][1]
    <2>. TAKE i \in 1 .. k + 1
    <2>. TAKE j \in 1 .. Len(merged')
    <2>1. merged'[j][1] \in Nat /\ End(piece) <= merged'[j][1]
        BY <1>15, ElementOfSeq, RangeType
    <2>2. CASE i \in 1 .. k
        <3>1. bounded'[i] = bounded[i] /\ End(bounded[i]) \in Nat /\ End(bounded[i]) <= piece[1]
            BY <1>6, <1>9, <1>11, <2>2
        <3>. QED BY <1>10, <2>1, <3>1
    <2>3. CASE i = k + 1
        BY <1>9, <2>1, <2>3
    <2>. QED BY <1>3, <2>2, <2>3
<1>17. MergeInv'
    BY <1>1, <1>9, <1>12, <1>13, <1>15, <1>16 DEF MergeInv
<1>18. \A b \in Nat : HotByte(b)' <=> HotByte(b)
    <2>. TAKE b \in Nat
    <2>1. HotByte(b)' <=> \/ \E i \in 1 .. Len(merged') : InRange(merged'[i], b)
                          \/ \E i \in 1 .. Len(bounded') : InRange(bounded'[i], b)
        BY <1>1 DEF HotByte, InRange, End
    <2>2. HotByte(b) <=> \/ \E i \in 1 .. n : InRange(merged[i], b)
                         \/ \E i \in 1 .. k : InRange(bounded[i], b)
        BY <1>1 DEF HotByte
    <2>3. (\E i \in 1 .. Len(bounded') : InRange(bounded'[i], b))
            <=> (\E i \in 1 .. k : InRange(bounded[i], b)) \/ InRange(piece, b)
        BY <1>9, <1>14
    <2>. QED BY <1>15, <2>1, <2>2, <2>3
<1>19. Wanted' = Wanted /\ Built'
    BY <1>1, WantedKept DEF HotInv
<1>. QED BY <1>1, <1>17, <1>18, <1>19 DEF HotInv

\* Ranges of bytes that are those of a set of sectors.
Covers(ranges, sectors) ==
    /\ ranges \subseteq Nat \X Nat
    /\ \A b \in Nat : (\E r \in ranges : InRange(r, b)) <=> b \div SECTOR_SIZE \in sectors

LEMMA CoversUnion ==
    ASSUME NEW a, NEW b, NEW s, NEW t, Covers(a, s), Covers(b, t)
    PROVE  Covers(a \cup b, s \cup t)
BY DEF Covers

LEMMA CoversNothing == Covers({}, {})
BY DEF Covers

\* A run of sectors, in bytes.
LEMMA CoversRun ==
    ASSUME NEW start \in Nat, NEW count \in Nat
    PROVE  Covers({InBytes(start, count)}, start .. start + count - 1)
<1>. DEFINE r == InBytes(start, count)
<1>1. /\ r = <<start * SECTOR_SIZE, count * SECTOR_SIZE>>
      /\ start * SECTOR_SIZE \in Nat /\ count * SECTOR_SIZE \in Nat
      /\ (start + count) * SECTOR_SIZE = start * SECTOR_SIZE + count * SECTOR_SIZE
    BY Sizes DEF InBytes
<1>2. ASSUME NEW b \in Nat
      PROVE  InRange(r, b) <=> b \div SECTOR_SIZE \in start .. start + count - 1
    <2>. DEFINE q == b \div SECTOR_SIZE  end == start + count
    <2>1. /\ q \in Nat /\ q * SECTOR_SIZE <= b /\ b < q * SECTOR_SIZE + SECTOR_SIZE
          /\ q * SECTOR_SIZE \in Nat
        BY Sizes, DivMod
    <2>. HIDE DEF q
    <2>2. InRange(r, b) <=> start * SECTOR_SIZE <= b /\ b < end * SECTOR_SIZE
        BY <1>1 DEF InRange, End
    <2>. HIDE DEF r
    <2>3. end \in Nat /\ end * SECTOR_SIZE \in Nat
        BY Sizes
    <2>4. /\ start <= q => start * SECTOR_SIZE <= q * SECTOR_SIZE
          /\ q < start => q * SECTOR_SIZE + SECTOR_SIZE <= start * SECTOR_SIZE
        BY <2>1, Sizes, Times, TimesStrict
    <2>5. /\ end <= q => end * SECTOR_SIZE <= q * SECTOR_SIZE
          /\ q < end => q * SECTOR_SIZE + SECTOR_SIZE <= end * SECTOR_SIZE
        BY <2>1, <2>3, Sizes, Times, TimesStrict
    <2>6. InRange(r, b) <=> start <= q /\ q < end
        <3>. HIDE DEF end
        <3>. DEFINE x == start * SECTOR_SIZE  y == end * SECTOR_SIZE  z == q * SECTOR_SIZE
        <3>1. x \in Nat /\ y \in Nat /\ z \in Nat /\ SECTOR_SIZE \in Nat
            BY <1>1, <2>1, <2>3, Sizes
        <3>. HIDE DEF x, y, z
        <3>2. /\ z <= b /\ b < z + SECTOR_SIZE
              /\ InRange(r, b) <=> x <= b /\ b < y
              /\ start <= q => x <= z
              /\ q < start => z + SECTOR_SIZE <= x
              /\ end <= q => y <= z
              /\ q < end => z + SECTOR_SIZE <= y
            BY <2>1, <2>2, <2>4, <2>5 DEF x, y, z
        <3>. QED BY <2>1, <2>3, <3>1, <3>2
    <2>7. start <= q /\ q < end <=> q \in start .. end - 1
        BY <2>1, <2>3
    <2>. QED BY <2>6, <2>7 DEF q
<1>3. r \in Nat \X Nat
    BY <1>1
<1>. QED BY <1>2, <1>3 DEF Covers

\* The maximal runs of stored sectors have all of them, and no others.
LEMMA CoversStored ==
    ASSUME BuildInv
    PROVE  Covers(hot_ranges, DOMAIN metadata)
<1>. DEFINE stored == DOMAIN metadata
            firsts == {s \in stored : s - 1 \notin stored}
            lasts  == {s \in stored : s + 1 \notin stored}
            runs   == {r \in firsts \X lasts : r[1] <= r[2] /\ r[1] .. r[2] \subseteq stored}
<1>1. stored \subseteq Nat
    BY DEF BuildInv, StoredInv, SectorsInv
<1>2. PICK top \in Nat : \A s \in stored : s <= top
    BY DEF BuildInv, StoredInv, SectorsInv
<1>3. hot_ranges = {InBytes(r[1], r[2] - r[1] + 1) : r \in runs}
    BY DEF hot_ranges
<1>. HIDE DEF stored
<1>4. ASSUME NEW r \in runs
      PROVE  /\ InBytes(r[1], r[2] - r[1] + 1) \in Nat \X Nat
             /\ \A b \in Nat : InRange(InBytes(r[1], r[2] - r[1] + 1), b)
                                 <=> b \div SECTOR_SIZE \in r[1] .. r[2]
    <2>. DEFINE count == r[2] - r[1] + 1
    <2>0. r[1] \in stored /\ r[2] \in stored /\ r[1] <= r[2]
        OBVIOUS
    <2>. DEFINE a == r[1]  z == r[2]
    <2>1. r[1] \in Nat /\ r[2] \in Nat /\ count \in Nat /\ r[1] + count - 1 = r[2]
        <3>1. a \in Nat /\ z \in Nat /\ a <= z
            BY <1>1, <2>0
        <3>. HIDE DEF a, z
        <3>2. z - a + 1 \in Nat /\ a + (z - a + 1) - 1 = z
            BY <3>1
        <3>. QED BY <3>1, <3>2 DEF a, z
    <2>. HIDE DEF count
    <2>2. Covers({InBytes(r[1], count)}, r[1] .. r[2])
        BY <2>1, CoversRun
    <2>. QED BY <2>2 DEF Covers, count
<1>5. ASSUME NEW s \in stored
      PROVE  \E r \in runs : s \in r[1] .. r[2]
    <2>1. s \in Nat
        BY <1>1
    <2>2. PICK x \in Nat : s + x + 1 \notin stored /\ \A y \in Nat : y < x => s + y + 1 \in stored
        <3>. DEFINE T == {k \in Nat : s + k + 1 \notin stored}
        <3>1. top \in T
            <4>1. ~ (s + top + 1 <= top)
                BY <2>1
            <4>. QED BY <1>2, <4>1
        <3>2. PICK x \in T : \A y \in T : x <= y
            BY <3>1, Least
        <3>. QED BY <3>2
    <2>3. PICK z \in Nat : s - z - 1 \notin stored /\ \A y \in Nat : y < z => s - y - 1 \in stored
        <3>. DEFINE T == {k \in Nat : s - k - 1 \notin stored}
        <3>1. s \in T
            BY <1>1, <2>1
        <3>2. PICK w \in T : \A y \in T : w <= y
            BY <3>1, Least
        <3>. QED BY <3>2
    <2>4. ASSUME NEW t \in (s - z) .. (s + x)
          PROVE  t \in stored
        <3>1. CASE t = s
            BY <3>1
        <3>2. CASE t > s
            <4>1. t - s - 1 \in Nat /\ t - s - 1 < x /\ s + (t - s - 1) + 1 = t
                BY <2>1, <3>2
            <4>. QED BY <2>2, <4>1
        <3>3. CASE t < s
            <4>1. s - t - 1 \in Nat /\ s - t - 1 < z /\ s - (s - t - 1) - 1 = t
                BY <2>1, <3>3
            <4>. QED BY <2>3, <4>1
        <3>. QED BY <2>1, <3>1, <3>2, <3>3
    <2>. DEFINE f == s - z  l == s + x
    <2>5. /\ f \in Int /\ l \in Int /\ f <= s /\ s <= l /\ f - 1 = s - z - 1 /\ l + 1 = s + x + 1
        BY <2>1
    <2>. HIDE DEF f, l
    <2>6. f \in stored /\ l \in stored /\ f .. l \subseteq stored
        <3>1. \A t \in f .. l : t \in stored
            BY <2>4 DEF f, l
        <3>2. f \in f .. l /\ l \in f .. l
            BY <2>1, <2>5
        <3>. QED BY <3>1, <3>2
    <2>7. f \in firsts /\ l \in lasts
        <3>1. f - 1 \notin stored /\ l + 1 \notin stored
            BY <2>2, <2>3, <2>5
        <3>. QED BY <2>6, <3>1
    <2>8. <<f, l>> \in runs
        BY <2>5, <2>6, <2>7
    <2>. QED BY <2>1, <2>5, <2>8
<1>6. hot_ranges \subseteq Nat \X Nat
    BY <1>3, <1>4
<1>7. ASSUME NEW b \in Nat
      PROVE  (\E r \in hot_ranges : InRange(r, b)) <=> b \div SECTOR_SIZE \in stored
    <2>1. ASSUME NEW r \in runs, InRange(InBytes(r[1], r[2] - r[1] + 1), b)
          PROVE  b \div SECTOR_SIZE \in stored
        BY <1>4, <2>1
    <2>2. ASSUME b \div SECTOR_SIZE \in stored
          PROVE  \E r \in runs : InRange(InBytes(r[1], r[2] - r[1] + 1), b)
        BY <1>4, <1>5, <2>2
    <2>. QED BY <1>3, <2>1, <2>2
<1>. QED BY <1>6, <1>7 DEF Covers, stored

\* The FAT sectors of a run of clusters.
LEMMA CoversEntries ==
    ASSUME NEW first \in Nat, NEW count \in Nat \ {0}
    PROVE  Covers({FatRange(first, count)},
                  {fat_offset + c \div EntriesPerSector : c \in first .. first + count - 1})
<1>. DEFINE last_c == first + count - 1  E == EntriesPerSector
            p == first \div E  q == last_c \div E
            sectors == {fat_offset + c \div E : c \in first .. last_c}
<1>1. E \in Nat \ {0} /\ SECTOR_SIZE = E * 4 /\ SECTOR_SIZE \in Nat \ {0} /\ fat_offset \in Nat
    BY EntrySizes, Sizes, GeometryAssumption
<1>2. last_c \in Nat /\ first <= last_c /\ first + count = last_c + 1
    OBVIOUS
<1>. HIDE DEF last_c, E
<1>3. /\ p \in Nat /\ p * E <= first /\ first < p * E + E
      /\ q \in Nat /\ q * E <= last_c /\ last_c < q * E + E
    BY <1>1, <1>2, DivMod
<1>. HIDE DEF p, q
<1>4. (first * 4) \div SECTOR_SIZE = p
    <2>1. p * SECTOR_SIZE = (p * E) * 4 /\ p * E \in Nat
        BY <1>1, <1>3
    <2>2. p * SECTOR_SIZE <= first * 4 /\ first * 4 < p * SECTOR_SIZE + SECTOR_SIZE
        BY <1>1, <1>3, <2>1
    <2>3. first * 4 \in Int /\ p \in Int
        BY <1>3
    <2>. QED BY <1>1, <2>2, <2>3, DivBetween
<1>5. CeilDiv((first + count) * 4, SECTOR_SIZE) = q + 1
    <2>. DEFINE n == (last_c + 1) * 4 + SECTOR_SIZE - 1
    <2>1. q * SECTOR_SIZE = (q * E) * 4 /\ q * E \in Nat /\ q + 1 \in Int
          /\ (q + 1) * SECTOR_SIZE = q * SECTOR_SIZE + SECTOR_SIZE
        BY <1>1, <1>3
    <2>2. n \in Int /\ n = last_c * 4 + 4 + (SECTOR_SIZE - 1)
        BY <1>1, <1>2
    <2>. HIDE DEF n
    <2>3. (q + 1) * SECTOR_SIZE <= n /\ n < (q + 1) * SECTOR_SIZE + SECTOR_SIZE
        <3>. DEFINE x == q * E
        <3>1. x \in Nat /\ x <= last_c /\ last_c < x + E
            BY <1>3, <2>1
        <3>2. (q + 1) * SECTOR_SIZE = x * 4 + E * 4
            BY <1>1, <2>1
        <3>. HIDE DEF x
        <3>. QED BY <1>1, <1>2, <2>2, <3>1, <3>2
    <2>4. n \div SECTOR_SIZE = q + 1
        BY <1>1, <2>1, <2>2, <2>3, DivBetween
    <2>. QED BY <1>2, <2>4 DEF CeilDiv, n
<1>6. p <= q
    <2>1. q < p => q * E + E <= p * E
        BY <1>1, <1>3, TimesStrict
    <2>2. q * E \in Nat /\ p * E \in Nat
        BY <1>1, <1>3
    <2>. QED BY <1>1, <1>2, <1>3, <2>1, <2>2
<1>7. FatRange(first, count) = InBytes(fat_offset + p, (q + 1) - p)
    <2>1. FatRange(first, count)
            = InBytes(fat_offset + (first * 4) \div SECTOR_SIZE,
                      CeilDiv((first + count) * 4, SECTOR_SIZE) - (first * 4) \div SECTOR_SIZE)
        BY DEF FatRange
    <2>. QED BY <1>4, <1>5, <2>1
<1>8. sectors = fat_offset + p .. fat_offset + q
    <2>1. ASSUME NEW c \in first .. last_c
          PROVE  fat_offset + c \div E \in fat_offset + p .. fat_offset + q
        <3>. DEFINE t == c \div E
        <3>1. c \in Nat /\ first <= c /\ c <= last_c
            BY <1>2
        <3>2. t \in Nat /\ t * E <= c /\ c < t * E + E
            BY <1>1, <3>1, DivMod
        <3>. HIDE DEF t
        <3>3. /\ t < p => t * E + E <= p * E
              /\ q < t => q * E + E <= t * E
            BY <1>1, <1>3, <3>2, TimesStrict
        <3>4. t * E \in Nat /\ p * E \in Nat /\ q * E \in Nat
            BY <1>1, <1>3, <3>2
        <3>5. p <= t /\ t <= q
            BY <1>1, <1>2, <1>3, <3>1, <3>2, <3>3, <3>4
        <3>6. fat_offset + t \in fat_offset + p .. fat_offset + q
            BY <1>1, <1>3, <3>2, <3>5
        <3>. QED BY <3>6 DEF t
    <2>2. ASSUME NEW s \in fat_offset + p .. fat_offset + q
          PROVE  \E c \in first .. last_c : s = fat_offset + c \div E
        <3>. DEFINE t == s - fat_offset
        <3>1. t \in Nat /\ p <= t /\ t <= q /\ s = fat_offset + t
            BY <1>1, <1>3
        <3>. HIDE DEF t
        <3>2. CASE t = p
            BY <1>2, <3>1, <3>2 DEF p
        <3>3. CASE t # p
            <4>1. p * E + E <= t * E /\ t * E <= q * E
                BY <1>1, <1>3, <3>1, <3>3, Times, TimesStrict
            <4>2. t * E \in Nat /\ p * E \in Nat /\ q * E \in Nat
                BY <1>1, <1>3, <3>1
            <4>3. t * E \in first .. last_c
                BY <1>1, <1>2, <1>3, <4>1, <4>2
            <4>4. (t * E) \div E = t
                BY <1>1, <3>1, <4>2, DivBetween
            <4>. QED BY <3>1, <4>3, <4>4
        <3>. QED BY <3>2, <3>3
    <2>. QED BY <2>1, <2>2
<1>9. Covers({InBytes(fat_offset + p, (q + 1) - p)}, fat_offset + p .. fat_offset + q)
    <2>. DEFINE start == fat_offset + p  size_s == (q + 1) - p
    <2>1. start \in Nat /\ size_s \in Nat /\ start + size_s - 1 = fat_offset + q
        BY <1>1, <1>3, <1>6
    <2>. HIDE DEF start, size_s
    <2>2. Covers({InBytes(start, size_s)}, start .. fat_offset + q)
        BY <2>1, CoversRun
    <2>. QED BY <2>2 DEF start, size_s
<1>. QED BY <1>7, <1>8, <1>9 DEF last_c, E

\* The clusters of the directories are in the image.
LEMMA DirectoryImage ==
    ASSUME BuildInv, Built, NEW c \in DirectoryClusters
    PROVE  c \in Nat /\ c <= cluster_count + 1
<1>1. Root \in Dirs
    BY SizesAssumption DEF BuildInv, ShapeInv, IInv, AllocTypeOK, Dirs, Existing, Root, Node
<1>2. first_cluster[Root] \in Run(Root)
    <2>1. first_cluster[Root] \in Nat /\ clusters[Root] \in Nat \ {0}
        BY <1>1, PlacedNode DEF Dirs, Built, Allocated
    <2>. QED BY <2>1 DEF Run
<1>3. \E n \in Existing : c \in Run(n)
    BY <1>1, <1>2 DEF DirectoryClusters, Dirs
<1>. QED BY <1>3, InImage

\* What get_hot_ranges selects for the directories, and for the FAT.
TreeSectors ==
    DOMAIN metadata
    \cup {s \in BitmapStart .. BitmapStart + cluster_count : InBitmap(s)}
    \cup {fat_offset + c \div EntriesPerSector : c \in DirectoryClusters}

FatSectors == {s \in fat_offset .. fat_offset + fat_length : InFat(s)}

LEMMA CoversDirectoryEntries ==
    ASSUME BuildInv, Allocated
    PROVE  Covers({FatRange(first_cluster[Root], 1)}
                  \cup {FatRange(first_cluster[n], clusters[n]) : n \in {d \in Dirs \ {Root} : clusters[d] > 0}},
                  {fat_offset + c \div EntriesPerSector : c \in DirectoryClusters})
<1>. DEFINE sector(c) == fat_offset + c \div EntriesPerSector
            placed    == {d \in Dirs \ {Root} : clusters[d] > 0}
            ranges    == {FatRange(first_cluster[n], clusters[n]) : n \in placed}
            sectors   == {sector(c) : c \in UNION {Run(n) : n \in Dirs \ {Root}}}
            root      == first_cluster[Root]
<1>1. ASSUME NEW n \in Dirs
      PROVE  /\ first_cluster[n] \in Nat /\ clusters[n] \in Nat \ {0}
             /\ Covers({FatRange(first_cluster[n], clusters[n])}, {sector(c) : c \in Run(n)})
    <2>1. first_cluster[n] \in Nat /\ clusters[n] \in Nat \ {0}
        BY PlacedNode DEF Dirs
    <2>2. Run(n) = first_cluster[n] .. first_cluster[n] + clusters[n] - 1
        BY DEF Run
    <2>. QED BY <2>1, <2>2, CoversEntries
<1>2. placed = Dirs \ {Root}
    <2>1. ASSUME NEW d \in Dirs PROVE clusters[d] > 0
        <3>1. clusters[d] \in Nat \ {0}
            BY <1>1
        <3>. QED BY <3>1
    <2>. QED BY <2>1
<1>3. Covers(ranges, sectors)
    <2>1. ranges \subseteq Nat \X Nat
        BY <1>1 DEF Covers
    <2>2. ASSUME NEW b \in Nat
          PROVE  (\E r \in ranges : InRange(r, b)) <=> b \div SECTOR_SIZE \in sectors
        <3>1. \A n \in Dirs : InRange(FatRange(first_cluster[n], clusters[n]), b)
                                 <=> b \div SECTOR_SIZE \in {sector(c) : c \in Run(n)}
            BY <1>1 DEF Covers
        <3>. HIDE DEF sector
        <3>2. b \div SECTOR_SIZE \in sectors
                <=> \E n \in Dirs \ {Root} : b \div SECTOR_SIZE \in {sector(c) : c \in Run(n)}
            OBVIOUS
        <3>3. (\E r \in ranges : InRange(r, b))
                <=> \E n \in Dirs \ {Root} : InRange(FatRange(first_cluster[n], clusters[n]), b)
            BY <1>2
        <3>. QED BY <3>1, <3>2, <3>3
    <2>. QED BY <2>1, <2>2 DEF Covers
<1>4. Covers({FatRange(root, 1)}, {sector(root)})
    <2>1. root \in Nat
        <3>1. Root \in Dirs
            BY SizesAssumption DEF BuildInv, ShapeInv, IInv, AllocTypeOK, Dirs, Existing, Root, Node
        <3>. QED BY <1>1, <3>1
    <2>2. 1 \in Nat \ {0} /\ root .. root + 1 - 1 = {root}
        BY <2>1
    <2>3. {sector(c) : c \in root .. root + 1 - 1} = {sector(root)}
        BY <2>2
    <2>. HIDE DEF root
    <2>4. Covers({FatRange(root, 1)}, {fat_offset + c \div EntriesPerSector : c \in root .. root + 1 - 1})
        BY <2>1, <2>2, CoversEntries
    <2>. QED BY <2>3, <2>4
<1>5. Covers({FatRange(root, 1)} \cup ranges, {sector(root)} \cup sectors)
    BY <1>3, <1>4, CoversUnion
<1>6. {sector(root)} \cup sectors = {sector(c) : c \in DirectoryClusters}
    BY DEF DirectoryClusters
<1>. QED BY <1>5, <1>6

\* A quotient rounded up is no larger than the dividend.
LEMMA CeilBound == \A n \in Nat, d \in Nat \ {0} : CeilDiv(n, d) <= n
<1>. SUFFICES ASSUME NEW n \in Nat, NEW d \in Nat \ {0} PROVE CeilDiv(n, d) <= n
    OBVIOUS
<1>. DEFINE r == CeilDiv(n, d)
<1>1. r \in Nat /\ r * d < n + d
    BY CeilFacts
<1>. HIDE DEF r
<1>2. n < r => n * d + d <= r * d
    BY <1>1, TimesStrict
<1>3. n <= n * d /\ n * d \in Nat /\ r * d \in Nat
    <2>1. n * 1 <= n * d
        BY SMT
    <2>. QED BY <1>1, <2>1
<1>. QED BY <1>1, <1>2, <1>3 DEF r

LEMMA CoversBitmap ==
    Covers({InBytes(BitmapStart, CeilDiv(bitmap_length, SECTOR_SIZE))},
           {s \in BitmapStart .. BitmapStart + cluster_count : InBitmap(s)})
<1>. DEFINE r == CeilDiv(bitmap_length, SECTOR_SIZE)
<1>1. BitmapStart \in Nat
    BY HeapSectorType DEF BitmapStart, bitmap_cluster
<1>2. r \in Nat /\ r <= cluster_count /\ cluster_count \in Nat
    <2>1. cluster_count \in Nat /\ 8 \in Nat \ {0}
        BY GeometryAssumption
    <2>2. bitmap_length \in Nat /\ bitmap_length <= cluster_count
        BY <2>1, CeilFacts, CeilBound DEF bitmap_length
    <2>3. r \in Nat /\ r <= bitmap_length
        BY <2>2, CeilFacts, CeilBound, Sizes
    <2>. QED BY <2>1, <2>2, <2>3
<1>3. {s \in BitmapStart .. BitmapStart + cluster_count : InBitmap(s)} = BitmapStart .. BitmapStart + r - 1
    <2>. HIDE DEF r
    <2>1. \A s : InBitmap(s) <=> BitmapStart <= s /\ s < BitmapStart + r
        BY DEF InBitmap, r
    <2>. QED BY <1>1, <1>2, <2>1
<1>. HIDE DEF r
<1>4. Covers({InBytes(BitmapStart, r)}, BitmapStart .. BitmapStart + r - 1)
    BY <1>1, <1>2, CoversRun
<1>. QED BY <1>3, <1>4 DEF r

LEMMA CoversFat == Covers({InBytes(fat_offset, fat_length)}, FatSectors)
<1>1. fat_offset \in Nat /\ fat_length \in Nat
    BY GeometryAssumption
<1>2. FatSectors = fat_offset .. fat_offset + fat_length - 1
    BY <1>1 DEF FatSectors, InFat
<1>. QED BY <1>1, <1>2, CoversRun

LEMMA CoversDirectories ==
    ASSUME BuildInv, Built
    PROVE  Covers(DirectoryRanges, TreeSectors)
<1>. DEFINE entries == {FatRange(first_cluster[Root], 1)}
                       \cup {FatRange(first_cluster[n], clusters[n]) : n \in {d \in Dirs \ {Root} : clusters[d] > 0}}
            bits    == {InBytes(BitmapStart, CeilDiv(bitmap_length, SECTOR_SIZE))}
            es      == {fat_offset + c \div EntriesPerSector : c \in DirectoryClusters}
            bs      == {s \in BitmapStart .. BitmapStart + cluster_count : InBitmap(s)}
<1>1. Allocated
    BY DEF Built, Allocated
<1>2. Covers(hot_ranges, DOMAIN metadata) /\ Covers(entries, es) /\ Covers(bits, bs)
    BY <1>1, CoversStored, CoversDirectoryEntries, CoversBitmap
<1>3. DirectoryRanges = (hot_ranges \cup entries) \cup bits
    BY DEF DirectoryRanges
<1>4. TreeSectors = (DOMAIN metadata \cup es) \cup bs
    BY DEF TreeSectors
<1>. HIDE DEF entries, bits, es, bs
<1>5. Covers(hot_ranges \cup entries, DOMAIN metadata \cup es)
    BY <1>2, CoversUnion
<1>6. Covers((hot_ranges \cup entries) \cup bits, (DOMAIN metadata \cup es) \cup bs)
    BY <1>2, <1>5, CoversUnion
<1>. QED BY <1>3, <1>4, <1>6

\* The ranges that are selected are those of the sectors the policy wants.
LEMMA CoversSelected ==
    ASSUME BuildInv, Built, NEW p
    PROVE  Covers(Selected(p), (IF p.directories THEN TreeSectors ELSE {})
                               \cup (IF p.fat THEN FatSectors ELSE {}))
<1>1. Covers(IF p.directories THEN DirectoryRanges ELSE {}, IF p.directories THEN TreeSectors ELSE {})
    BY CoversDirectories, CoversNothing
<1>2. Covers(IF p.fat THEN {InBytes(fat_offset, fat_length)} ELSE {}, IF p.fat THEN FatSectors ELSE {})
    BY CoversFat, CoversNothing
<1>. QED BY <1>1, <1>2, CoversUnion DEF Selected

LEMMA CollectInv ==
    ASSUME BuildInv, HotInv, NEW directories \in BOOLEAN, NEW fat \in BOOLEAN, Collect(directories, fat)
    PROVE  HotInv'
<1>1. /\ Built /\ loop = "none" /\ loop' = "merge" /\ UNCHANGED <<vars, merged, bounded>>
      /\ pending' = {r \in Selected(policy') : r[2] > 0}
      /\ merged = <<>> /\ bounded = <<>>
    BY DEF Collect, HotInv
<1>2. Covers(Selected(policy'), (IF policy'.directories THEN TreeSectors ELSE {})
                                \cup (IF policy'.fat THEN FatSectors ELSE {}))
    BY <1>1, CoversSelected
<1>3. Wanted' = (IF policy'.directories THEN TreeSectors ELSE {})
                \cup (IF policy'.fat THEN FatSectors ELSE {})
    BY <1>1 DEF vars, buildVars, treeVars, allocVars, Wanted, DirectoryClusters, Run, Dirs, Existing,
                TreeSectors, FatSectors
<1>4. Built'
    BY <1>1 DEF vars, buildVars, Built
<1>5. Selected(policy') \subseteq Nat \X Nat
      /\ \A b \in Nat : (\E r \in Selected(policy') : InRange(r, b)) <=> b \div SECTOR_SIZE \in Wanted'
    BY <1>2, <1>3 DEF Covers
<1>6. pending' \subseteq ByteRange
    BY <1>1, <1>5 DEF ByteRange
<1>7. \A b \in Nat : HotByte(b)' <=> b \div SECTOR_SIZE \in Wanted'
    <2>. TAKE b \in Nat
    <2>1. \A r \in Nat \X Nat : InRange(r, b) => r[2] > 0
        BY DEF InRange, End
    <2>2. (\E r \in pending' : InRange(r, b)) <=> b \div SECTOR_SIZE \in Wanted'
        BY <1>1, <1>5, <2>1
    <2>3. Len(merged) = 0 /\ Len(bounded) = 0
        BY <1>1
    <2>4. HotByte(b)' <=> \E r \in pending' : InRange(r, b)
        BY <1>1, <2>3 DEF HotByte, InRange, End
    <2>. QED BY <2>2, <2>4
<1>8. MergeInv'
    <2>1. merged' = <<>> /\ bounded' = <<>> /\ Len(merged') = 0 /\ Len(bounded') = 0
          /\ merged' \in Seq(ByteRange) /\ bounded' \in Seq(ByteRange)
        BY <1>1, EmptySeq
    <2>. QED BY <1>6, <2>1 DEF MergeInv
<1>. QED BY <1>1, <1>4, <1>7, <1>8 DEF HotInv

LEMMA StepHotInv ==
    ASSUME BuildInv, HotInv, [HotNext]_allVars
    PROVE  HotInv'
<1>1. CASE UNCHANGED hotVars /\ (Built' <=> Built) /\ (Built => UNCHANGED vars)
    <2>1. loop' = loop /\ pending' = pending /\ merged' = merged /\ bounded' = bounded /\ policy' = policy
        BY <1>1 DEF hotVars
    <2>2. MergeInv' <=> MergeInv
        BY <2>1 DEF MergeInv, End
    <2>3. loop # "none" => Wanted' = Wanted
        BY <1>1, <2>1, WantedKept DEF HotInv
    <2>4. \A b \in Nat : HotByte(b)' <=> HotByte(b)
        BY <2>1 DEF HotByte, InRange, End
    <2>. QED BY <1>1, <2>1, <2>2, <2>3, <2>4 DEF HotInv
<1>2. CASE Build /\ UNCHANGED hotVars
    <2>1. ~Built /\ loop = "none"
        BY <1>2, BuildEnds DEF Build, HotInv
    <2>2. loop' = loop /\ pending' = pending /\ merged' = merged /\ bounded' = bounded
        BY <1>2 DEF hotVars
    <2>3. MergeInv' <=> MergeInv
        BY <2>2 DEF MergeInv, End
    <2>. QED BY <2>1, <2>2, <2>3 DEF HotInv
<1>3. CASE UNCHANGED allVars
    <2>1. UNCHANGED hotVars /\ UNCHANGED vars
        BY <1>3 DEF allVars
    <2>2. Built' <=> Built
        BY <2>1 DEF vars, buildVars, Built
    <2>. QED BY <1>1, <2>1, <2>2
<1>4. ASSUME NEW directories \in BOOLEAN, NEW fat \in BOOLEAN, Collect(directories, fat)
      PROVE  HotInv'
    BY <1>4, CollectInv
<1>5. CASE BeginSplit \/ EndSplit
    <2>1. /\ UNCHANGED vars /\ policy' = policy /\ pending' = pending /\ merged' = merged /\ bounded' = bounded
          /\ \/ loop = "merge" /\ loop' = "split" /\ pending = {}
             \/ loop = "split" /\ loop' = "ready" /\ merged = <<>>
        BY <1>5 DEF BeginSplit, EndSplit
    <2>2. MergeInv' <=> MergeInv
        BY <2>1 DEF MergeInv, End
    <2>3. Wanted' = Wanted /\ (Built' <=> Built)
        BY <2>1, WantedKept
    <2>4. \A b \in Nat : HotByte(b)' <=> HotByte(b)
        BY <2>1 DEF HotByte, InRange, End
    <2>. QED BY <2>1, <2>2, <2>3, <2>4 DEF HotInv
<1>. QED BY <1>2, <1>3, <1>4, <1>5, MergeNextInv, SplitPieceInv DEF HotNext

LEMMA PreloadHotInv == HotSpec => [](BuildInv /\ HotInv)
<1>1. HotInit => HotInv
    <2>. SUFFICES ASSUME HotInit PROVE HotInv
        OBVIOUS
    <2>1. loop = "none" /\ pending = {} /\ merged = <<>> /\ bounded = <<>>
        BY DEF HotInit
    <2>2. MergeInv
        BY <2>1, EmptySeq DEF MergeInv
    <2>. QED BY <2>1, <2>2 DEF HotInv
<1>2. BuildInv /\ HotInv /\ [HotNext]_allVars => HotInv'
    BY StepHotInv
<1>. QED BY <1>1, <1>2, PreloadBuildInv, PTL DEF HotSpec

\* The preloader never asks for more than the limit at once, nor for a byte
\* twice: its ranges are ascending and disjoint.
THEOREM PreloadBounded == HotSpec => []HotBounded
<1>1. HotInv => HotBounded
    <2>. SUFFICES ASSUME HotInv, loop = "ready" PROVE HotBounded
        BY DEF HotBounded
    <2>1. /\ bounded \in Seq(ByteRange)
          /\ \A i \in 1 .. Len(bounded) : bounded[i][2] <= MAX_METADATA_PREFETCH_BYTES
          /\ \A i, j \in 1 .. Len(bounded) : i < j => End(bounded[i]) <= bounded[j][1]
        BY DEF HotInv, MergeInv
    <2>2. \A i \in 1 .. Len(bounded) : bounded[i][2] \in Nat \ {0}
        BY <2>1, ElementOfSeq, RangeType
    <2>3. \A i \in 1 .. Len(bounded) : bounded[i][2] \in 1 .. MAX_METADATA_PREFETCH_BYTES
        BY <2>1, <2>2, PrefetchAssumption
    <2>. QED BY <2>1, <2>3 DEF HotBounded
<1>. QED BY <1>1, PreloadHotInv, PTL

\* The pieces cover the sectors that the policy wants and no others.
LEMMA CoveredWanted ==
    ASSUME BuildInv, HotInv, loop = "ready"
    PROVE  Covered = Wanted
<1>1. /\ bounded \in Seq(ByteRange) /\ pending = {} /\ merged = <<>>
      /\ \A b \in Nat : HotByte(b) <=> b \div SECTOR_SIZE \in Wanted
    BY DEF HotInv, MergeInv
<1>2. ASSUME NEW b \in Nat
      PROVE  b \div SECTOR_SIZE \in Wanted <=> \E i \in 1 .. Len(bounded) : InRange(bounded[i], b)
    <2>1. Len(merged) = 0
        BY <1>1
    <2>. QED BY <1>1, <2>1 DEF HotByte
<1>3. SECTOR_SIZE \in Nat \ {0}
    BY Sizes
<1>4. Wanted \subseteq Nat
    <2>1. DOMAIN metadata \subseteq Nat /\ Built
        BY DEF BuildInv, StoredInv, SectorsInv, HotInv
    <2>2. \A s \in BitmapStart .. BitmapStart + cluster_count : InBitmap(s) => s \in Nat
        <3>1. BitmapStart \in Nat /\ cluster_count \in Nat
            BY HeapSectorType, GeometryAssumption DEF BitmapStart, bitmap_cluster
        <3>. QED BY <3>1
    <2>3. \A s \in fat_offset .. fat_offset + fat_length : s \in Nat
        BY GeometryAssumption
    <2>4. \A c \in DirectoryClusters : fat_offset + c \div EntriesPerSector \in Nat
        <3>1. \A c \in Nat : c \div EntriesPerSector \in Nat
            BY EntrySizes, DivMod
        <3>. QED BY <2>1, <3>1, DirectoryImage, GeometryAssumption
    <2>. QED BY <2>1, <2>2, <2>3, <2>4 DEF Wanted
<1>5. ASSUME NEW i \in 1 .. Len(bounded)
      PROVE  /\ bounded[i][1] \in Nat /\ End(bounded[i]) \in Nat /\ bounded[i][1] < End(bounded[i])
             /\ \A s \in Int : s \in (bounded[i][1] \div SECTOR_SIZE) .. ((End(bounded[i]) - 1) \div SECTOR_SIZE)
                    <=> \E b \in Nat : InRange(bounded[i], b) /\ b \div SECTOR_SIZE = s
    <2>. DEFINE x == bounded[i][1]  e == End(bounded[i])  z == e - 1
                p == x \div SECTOR_SIZE  q == z \div SECTOR_SIZE
    <2>1. x \in Nat /\ e \in Nat /\ x < e
        BY <1>1, ElementOfSeq, RangeType
    <2>2. z \in Nat /\ x <= z /\ \A b \in Nat : InRange(bounded[i], b) <=> x <= b /\ b <= z
        BY <2>1 DEF InRange
    <2>. HIDE DEF x, e, z
    <2>3. /\ p \in Nat /\ p * SECTOR_SIZE <= x /\ x < p * SECTOR_SIZE + SECTOR_SIZE
          /\ q \in Nat /\ q * SECTOR_SIZE <= z /\ z < q * SECTOR_SIZE + SECTOR_SIZE
        BY <1>3, <2>1, <2>2, DivMod
    <2>. HIDE DEF p, q
    <2>4. p * SECTOR_SIZE \in Nat /\ q * SECTOR_SIZE \in Nat
        BY <1>3, <2>3
    <2>5. ASSUME NEW s \in p .. q
          PROVE  \E b \in Nat : InRange(bounded[i], b) /\ b \div SECTOR_SIZE = s
        <3>1. s \in Nat /\ s * SECTOR_SIZE \in Nat /\ p * SECTOR_SIZE <= s * SECTOR_SIZE
              /\ s * SECTOR_SIZE <= q * SECTOR_SIZE
            BY <1>3, <2>3, Times
        <3>2. CASE x <= s * SECTOR_SIZE
            <4>1. InRange(bounded[i], s * SECTOR_SIZE)
                BY <2>2, <2>3, <2>4, <3>1, <3>2
            <4>2. (s * SECTOR_SIZE) \div SECTOR_SIZE = s
                BY <1>3, <3>1, DivBetween
            <4>. QED BY <3>1, <4>1, <4>2
        <3>3. CASE s * SECTOR_SIZE < x
            <4>1. InRange(bounded[i], x)
                BY <2>1, <2>2
            <4>2. x < s * SECTOR_SIZE + SECTOR_SIZE
                BY <1>3, <2>1, <2>3, <2>4, <3>1
            <4>3. x \div SECTOR_SIZE = s
                BY <1>3, <2>1, <3>1, <3>3, <4>2, DivBetween
            <4>. QED BY <2>1, <4>1, <4>3
        <3>. QED BY <2>1, <3>1, <3>2, <3>3
    <2>6. ASSUME NEW b \in Nat, InRange(bounded[i], b)
          PROVE  b \div SECTOR_SIZE \in p .. q
        <3>. DEFINE t == b \div SECTOR_SIZE
        <3>1. t \in Nat /\ t * SECTOR_SIZE <= b /\ b < t * SECTOR_SIZE + SECTOR_SIZE
            BY <1>3, DivMod
        <3>. HIDE DEF t
        <3>2. x <= b /\ b <= z
            BY <2>2, <2>6
        <3>3. /\ t < p => t * SECTOR_SIZE + SECTOR_SIZE <= p * SECTOR_SIZE
              /\ q < t => q * SECTOR_SIZE + SECTOR_SIZE <= t * SECTOR_SIZE
              /\ t * SECTOR_SIZE \in Nat
            BY <1>3, <2>3, <3>1, TimesStrict
        <3>4. p <= t /\ t <= q
            BY <1>3, <2>1, <2>2, <2>3, <2>4, <3>1, <3>2, <3>3
        <3>. QED BY <2>3, <3>1, <3>4 DEF t
    <2>7. \A s \in Int : s \in p .. q <=> \E b \in Nat : InRange(bounded[i], b) /\ b \div SECTOR_SIZE = s
        BY <2>5, <2>6
    <2>. QED BY <2>1, <2>7 DEF x, e, z, p, q
<1>6. ASSUME NEW s \in Covered PROVE s \in Wanted
    <2>1. PICK i \in 1 .. Len(bounded) :
            s \in (bounded[i][1] \div SECTOR_SIZE) .. ((End(bounded[i]) - 1) \div SECTOR_SIZE)
        BY DEF Covered
    <2>2. s \in Int
        BY <2>1
    <2>3. PICK b \in Nat : InRange(bounded[i], b) /\ b \div SECTOR_SIZE = s
        BY <1>5, <2>1, <2>2
    <2>. QED BY <1>2, <2>3
<1>7. ASSUME NEW s \in Wanted PROVE s \in Covered
    <2>1. s \in Nat
        BY <1>4
    <2>2. s * SECTOR_SIZE \in Nat /\ (s * SECTOR_SIZE) \div SECTOR_SIZE = s
        <3>1. s * SECTOR_SIZE \in Nat
            BY <1>3, <2>1
        <3>. QED BY <1>3, <2>1, <3>1, DivBetween
    <2>3. PICK i \in 1 .. Len(bounded) : InRange(bounded[i], s * SECTOR_SIZE)
        BY <1>2, <2>2
    <2>4. s \in (bounded[i][1] \div SECTOR_SIZE) .. ((End(bounded[i]) - 1) \div SECTOR_SIZE)
        BY <1>5, <2>1, <2>2, <2>3
    <2>. QED BY <2>4 DEF Covered
<1>. QED BY <1>6, <1>7

\* After merging and splitting, get_hot_ranges covers exactly the sectors that
\* its policy stands for, directories of every depth among them, and no sector
\* of a file.
THEOREM PreloadExact == HotSpec => []HotExact
<1>1. BuildInv /\ HotInv => HotExact
    <2>. SUFFICES ASSUME BuildInv, HotInv, loop = "ready" PROVE HotExact
        BY DEF HotExact
    <2>1. Built
        BY DEF HotInv
    <2>2. ASSUME NEW c \in DirectoryClusters, ~InFat(fat_offset + c \div EntriesPerSector)
          PROVE  FatShort /\ c \div EntriesPerSector = fat_length
        <3>1. c \in Nat /\ c <= cluster_count + 1
            BY <2>1, DirectoryImage
        <3>. QED BY <2>2, <3>1, FatHolds, FatLacks
    <2>3. \A s \in Wanted : IsMetadata(s) \/ (FatShort /\ s = fat_offset + fat_length)
        BY <2>2 DEF Wanted, IsMetadata
    <2>. QED BY <2>3, CoveredWanted DEF HotExact
<1>. QED BY <1>1, PreloadHotInv, PTL

=============================================================================

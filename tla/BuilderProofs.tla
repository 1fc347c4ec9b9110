---------------------------- MODULE BuilderProofs ----------------------------
(***************************************************************************)
(* The two allocation loops of build never give a cluster twice, for every *)
(* tree, every cluster and sector size and every image; and the sectors    *)
(* build stores stay out of the FAT and the bitmap, cover the clusters of  *)
(* every directory and, unless a directory overflows, nothing else.        *)
(*                                                                         *)
(* RunsDisjoint is inductive only together with the position of the loop:  *)
(* a node that is placed lies before next_cluster, the node under the      *)
(* cursor is not placed yet, and the second loop places exactly the nodes  *)
(* the first passed over.                                                  *)
(***************************************************************************)
EXTENDS VolumeProperties, TLAPS, WellFoundedInduction, SequenceTheorems

Allocating == {"directories", "files"}

\* The part of BuildTypeOK that the allocation depends on.
AllocTypeOK ==
    /\ phase \in Phases
    /\ last \in Node
    /\ isDirectory \in [Node -> BOOLEAN]
    /\ size \in [Node -> Nat]
    /\ counted \in [Node -> Nat]
    /\ cursor \in Node
    /\ next_cluster \in Nat
    /\ first_cluster \in [Node -> Nat] /\ clusters \in [Node -> Nat]

\* Where the loops are.
LoopInv ==
    /\ cursor <= last
    /\ phase \in {"scan", "fit", "boot", "root"} => cursor = Root
    /\ phase \in {"boot", "root", "write", "built"} => FitsImage
    /\ FirstFree <= next_cluster
    /\ last > Root \/ phase = "scan"

IInv == AllocTypeOK /\ LoopInv /\ RunsDisjoint

-----------------------------------------------------------------------------

\* Whatever is stored takes at least one cluster.
LEMMA ClustersType == \A bytes \in Nat : Clusters(bytes) \in Nat \ {0}
<1> TAKE bytes \in Nat
<1>1. CLUSTER_SIZE_BYTES \in Nat \ {0}
    BY SizesAssumption DEF CLUSTER_SIZE_BYTES
<1>2. CeilDiv(bytes, CLUSTER_SIZE_BYTES) \in Int
    BY <1>1 DEF CeilDiv
<1>. QED BY <1>2 DEF Clusters, AtLeast

\* The bitmap and the upcase table start at cluster 2.
LEMMA FirstFreeType == FirstFree \in Nat /\ FirstFree > 2
<1>1. bitmap_length \in Nat
    BY GeometryAssumption DEF bitmap_length, CeilDiv
<1>. QED BY <1>1, ClustersType, SizesAssumption
         DEF FirstFree, upcase_cluster, bitmap_cluster, bitmap_clusters, upcase_clusters

\* An entry set has a positive number of entries.
LEMMA EntryTypes ==
    /\ \A units \in NameLengths : CountedFor(units) \in Nat
    /\ \A n \in Node : FixedEntries(n) \in Nat
BY SizesAssumption DEF CountedFor, CeilDiv, FixedEntries

\* Nothing is placed before the loops start.
LEMMA InitIInv == BuildInit => IInv
<1> SUFFICES ASSUME BuildInit PROVE IInv
    OBVIOUS
<1>1. AllocTypeOK
    <2>1. isDirectory \in [Node -> BOOLEAN]
        BY DEF BuildInit
    <2>2. last \in Node /\ cursor \in Node
        BY SizesAssumption DEF BuildInit, Root, Node
    <2>3. counted \in [Node -> Nat]
        BY EntryTypes DEF BuildInit
    <2>4. next_cluster \in Nat /\ phase \in Phases
        BY FirstFreeType DEF BuildInit, Phases
    <2>5. size \in [Node -> Nat] /\ first_cluster \in [Node -> Nat] /\ clusters \in [Node -> Nat]
        BY DEF BuildInit
    <2>. QED BY <2>1, <2>2, <2>3, <2>4, <2>5 DEF AllocTypeOK
<1>2. LoopInv
    BY FirstFreeType, SizesAssumption DEF BuildInit, LoopInv, Root, Node
<1>3. RunsDisjoint
    BY DEF BuildInit, RunsDisjoint, Placed
<1>. QED BY <1>1, <1>2, <1>3 DEF IInv

\* Steps that place nothing.
LEMMA NothingPlaced ==
    ASSUME RunsDisjoint, AllocTypeOK, AllocTypeOK', UNCHANGED allocVars,
           \A n \in Node : Placed(n)' => Placed(n)
    PROVE  RunsDisjoint'
BY DEF RunsDisjoint, allocVars, Run, Existing, Placed

\* A step that gives the node under the cursor the next free clusters.
LEMMA OnePlaced ==
    ASSUME RunsDisjoint, AllocTypeOK, LoopInv, UNCHANGED last,
           NEW count \in Nat \ {0}, Take(count),
           NEW c \in Existing, c = cursor,
           \A n \in Node : Placed(n)' => Placed(n) \/ n = c
    PROVE  RunsDisjoint'
<1> USE DEF AllocTypeOK
<1>1. Existing' = Existing /\ Existing \subseteq Node
    BY DEF Existing
<1>2. /\ next_cluster' = next_cluster + count
      /\ FirstFree \in Nat /\ FirstFree <= next_cluster
    BY FirstFreeType DEF Take, LoopInv
<1>3. Run(c)' = next_cluster .. next_cluster + count - 1
    BY <1>1 DEF Take, Run
<1>4. \A n \in Node : n # c => Run(n)' = Run(n)
    BY DEF Take, Run
<1>5. \A n \in Existing : Placed(n)' /\ n # c =>
          Run(n)' # {} /\ Run(n)' \subseteq FirstFree .. next_cluster - 1
    BY <1>1, <1>4 DEF RunsDisjoint
<1>6. \A n \in Existing : Placed(n)' /\ n # c => Run(n)' \cap Run(c)' = {}
    BY <1>2, <1>3, <1>5
<1>7. \A m, n \in Existing :
          Placed(m)' /\ Placed(n)' /\ m # n => Run(m)' \cap Run(n)' = {}
    <2> TAKE m, n \in Existing
    <2> HAVE Placed(m)' /\ Placed(n)' /\ m # n
    <2>1. CASE m = c \/ n = c
        BY <2>1, <1>6
    <2>2. CASE m # c /\ n # c
        BY <2>2, <1>1, <1>4 DEF RunsDisjoint
    <2>. QED BY <2>1, <2>2
<1>8. \A n \in Existing : Placed(n)' =>
          Run(n)' # {} /\ Run(n)' \subseteq FirstFree .. next_cluster' - 1
    <2> TAKE n \in Existing
    <2> HAVE Placed(n)'
    <2>1. CASE n = c
        <3>1. next_cluster \in Run(c)'
            BY <1>2, <1>3
        <3>2. next_cluster .. next_cluster + count - 1 \subseteq FirstFree .. next_cluster' - 1
            BY <1>2
        <3>3. Run(c)' # {} /\ Run(c)' \subseteq FirstFree .. next_cluster' - 1
            BY <3>1, <3>2, <1>3
        <3>. QED BY <2>1, <3>3
    <2>2. CASE n # c
        BY <2>2, <1>2, <1>5
    <2>. QED BY <2>1, <2>2
<1>. QED BY <1>1, <1>7, <1>8 DEF RunsDisjoint

-----------------------------------------------------------------------------
(* The steps of build *)

\* The cursor of a loop stays within the tree and returns to the root.
LEMMA CursorAdvances ==
    ASSUME AllocTypeOK, LoopInv, NEW p, Advance(p)
    PROVE  /\ cursor' \in Node /\ cursor' <= last
           /\ \/ phase' = p /\ cursor' = Root
              \/ phase' = phase
<1>1. last \in 0 .. MaxNodes /\ cursor \in 0 .. MaxNodes /\ cursor <= last /\ MaxNodes \in Nat
    BY SizesAssumption DEF AllocTypeOK, LoopInv, Node
<1>2. CASE cursor = last
    <2>1. phase' = p /\ cursor' = 0
        BY <1>2 DEF Advance, Root
    <2>. QED BY <1>1, <1>2, <2>1 DEF Node, Root
<1>3. CASE cursor # last
    BY <1>1, <1>3 DEF Advance, Node
<1>. QED BY <1>2, <1>3

\* Scanning places nothing, and the loops have not begun.
LEMMA ScanIInv ==
    ASSUME IInv,
           \/ \E units \in NameLengths :
                 ScanDirectory(units) \/ \E bytes \in FileSizes : ScanFile(units, bytes)
           \/ LeaveDirectory
           \/ TreeScanned
    PROVE  IInv'
<1> USE DEF IInv
<1>1. /\ phase = "scan" /\ phase' \in {"scan", "directories"}
      /\ UNCHANGED <<cursor, next_cluster, first_cluster, clusters>>
      /\ UNCHANGED last \/ (last < MaxNodes /\ last' = last + 1)
      /\ phase' = "directories" => last' > Root
    BY DEF ScanDirectory, ScanFile, AppendChild, LeaveDirectory, TreeScanned, allocVars, treeVars
<1>2. AllocTypeOK'
    <2>1. last' \in Node
        <3>1. last \in 0 .. MaxNodes /\ MaxNodes \in Nat
            BY SizesAssumption DEF AllocTypeOK, Node
        <3>2. CASE UNCHANGED last
            BY <3>1, <3>2 DEF Node
        <3>3. CASE last < MaxNodes /\ last' = last + 1
            BY <3>1, <3>3 DEF Node
        <3>. QED BY <1>1, <3>2, <3>3
    <2>2. isDirectory' \in [Node -> BOOLEAN]
        BY DEF ScanDirectory, ScanFile, LeaveDirectory, TreeScanned, treeVars, AllocTypeOK
    <2>3. size' \in [Node -> Nat]
        BY SizesAssumption DEF ScanDirectory, ScanFile, LeaveDirectory, TreeScanned, treeVars, AllocTypeOK
    <2>4. counted' \in [Node -> Nat]
        <3>1. CASE \E units \in NameLengths : AppendChild(units)
            <4>1. PICK units \in NameLengths : AppendChild(units)
                BY <3>1
            <4>2. CountedFor(units) \in Nat /\ counted \in [Node -> Nat]
                BY EntryTypes DEF AllocTypeOK
            <4>3. counted' = [counted EXCEPT ![Parent] = counted[Parent] + CountedFor(units)]
                BY <4>1 DEF AppendChild
            <4>4. \A n \in Node : counted[n] + CountedFor(units) \in Nat
                BY <4>2
            <4>. QED BY <4>2, <4>3, <4>4
        <3>2. CASE UNCHANGED counted
            BY <3>2 DEF AllocTypeOK
        <3>. QED BY <3>1, <3>2 DEF ScanDirectory, ScanFile, LeaveDirectory, TreeScanned, treeVars
    <2>. QED BY <1>1, <2>1, <2>2, <2>3, <2>4 DEF AllocTypeOK, Phases
<1>4. LoopInv'
    BY <1>1, <1>2, FirstFreeType DEF LoopInv, AllocTypeOK, Node, Root
<1>5. \A n \in Node : ~Placed(n)'
    BY <1>1, <1>2 DEF Placed, LoopInv, Root, Node
<1>. QED BY <1>2, <1>4, <1>5 DEF RunsDisjoint, Existing

\* A node under the cursor of a loop gets its clusters.
LEMMA PlaceIInv ==
    ASSUME IInv, PlaceDirectory \/ PlaceFile
    PROVE  IInv'
<1> USE DEF IInv
<1>1. cursor \in Existing /\ cursor \in Node
    BY DEF Existing, LoopInv, AllocTypeOK
<1>2. PICK count \in Nat \ {0} : Take(count)
    <2>1. size[cursor] \in Nat /\ counted[cursor] * ENTRY_BYTES \in Nat
        BY <1>1 DEF AllocTypeOK, ENTRY_BYTES
    <2>. QED BY <2>1, ClustersType DEF PlaceDirectory, PlaceFile, directory_cluster_count
<1>3. /\ UNCHANGED <<last, isDirectory, size, counted>>
      /\ phase \in Allocating /\ phase' \in Allocating \cup {"fit"}
      /\ cursor' \in Node /\ cursor' <= last
      /\ phase' = "fit" => cursor' = Root
    <2>1. UNCHANGED <<last, isDirectory, size, counted>> /\ phase \in Allocating
        BY DEF PlaceDirectory, PlaceFile, treeVars, Allocating
    <2>2. Advance("files") \/ Advance("fit")
        BY DEF PlaceDirectory, PlaceFile
    <2>. QED BY <1>1, <2>1, <2>2, CursorAdvances DEF Allocating
<1>4. AllocTypeOK'
    BY <1>1, <1>2, <1>3 DEF Take, AllocTypeOK, Phases, Allocating
<1>5. LoopInv'
    <2>1. FirstFree <= next_cluster'
        BY <1>2, FirstFreeType DEF Take, LoopInv, AllocTypeOK
    <2>. QED BY <1>3, <2>1 DEF LoopInv, Allocating
<1>6. \A n \in Node : Placed(n)' => Placed(n) \/ n = cursor
    BY <1>1, <1>3 DEF PlaceDirectory, PlaceFile, Advance, Placed, Existing, LoopInv, AllocTypeOK, Node, Root,
       treeVars
<1>7. RunsDisjoint'
    BY <1>1, <1>2, <1>3, <1>6, OnePlaced
<1>. QED BY <1>4, <1>5, <1>7

\* The steps after the loops, and those that pass over a node.
LEMMA OtherIInv ==
    ASSUME IInv, PassOver \/ CheckFit \/ PutBootRegions \/ PutRootAndUpcase \/ PutNode
    PROVE  IInv'
<1> USE DEF IInv
<1>1. /\ UNCHANGED <<last, isDirectory, size, counted>>
      /\ UNCHANGED <<next_cluster, first_cluster, clusters>>
    BY DEF PassOver, CheckFit, PutBootRegions, PutRootAndUpcase, PutNode, treeVars, allocVars
<1>2. /\ phase' \in Phases \ {"scan"} /\ cursor' \in Node /\ cursor' <= last
      /\ phase # "scan"
    <2>1. CASE PassOver \/ PutNode
        <3>1. phase # "scan" /\ \E p \in {"files", "fit", "built"} : Advance(p)
            BY <2>1 DEF PassOver, PutNode
        <3>. QED BY <3>1, CursorAdvances DEF Phases, AllocTypeOK
    <2>2. CASE CheckFit \/ PutBootRegions
        BY <2>2 DEF CheckFit, PutBootRegions, Phases, LoopInv, AllocTypeOK
    <2>3. CASE PutRootAndUpcase
        BY <2>3, SizesAssumption DEF PutRootAndUpcase, Phases, LoopInv, AllocTypeOK, Node, Root
    <2>. QED BY <2>1, <2>2, <2>3
<1>3. AllocTypeOK'
    BY <1>1, <1>2 DEF AllocTypeOK
<1>4. LoopInv'
    <2>1. phase' \in {"fit", "boot", "root"} => cursor' = Root
        BY DEF PassOver, CheckFit, PutBootRegions, PutRootAndUpcase, PutNode, Advance, LoopInv
    <2>2. phase' \in {"boot", "root", "write", "built"} => FitsImage
        BY DEF PassOver, CheckFit, PutBootRegions, PutRootAndUpcase, PutNode, Advance, LoopInv
    <2>. QED BY <1>1, <1>2, <2>1, <2>2 DEF LoopInv, FitsImage
<1>5. \A n \in Node : Placed(n)' => Placed(n)
    BY <1>1, <1>2 DEF PassOver, CheckFit, PutBootRegions, PutRootAndUpcase, PutNode, Advance, Placed, Existing,
       LoopInv, AllocTypeOK, Node, Root, Phases
<1>6. RunsDisjoint'
    BY <1>1, <1>3, <1>5, NothingPlaced DEF allocVars
<1>. QED BY <1>3, <1>4, <1>6

\* The allocation stays within the invariant throughout build.
THEOREM Invariance == BuildSpec => []IInv
<1>1. IInv /\ UNCHANGED buildVars => IInv'
    BY DEF IInv, AllocTypeOK, LoopInv, RunsDisjoint, FitsImage, Placed, Existing, Run,
           buildVars, treeVars, allocVars
<1>2. IInv /\ BuildNext => IInv'
    BY ScanIInv, PlaceIInv, OtherIInv DEF BuildNext
<1>. QED BY InitIInv, <1>1, <1>2, PTL DEF BuildSpec

\* build never gives a cluster to two of: the files, the directories, the
\* bitmap and the upcase table.
THEOREM ClustersOwnedOnce == BuildSpec => []RunsDisjoint
BY Invariance, PTL DEF IInv

\* Every cluster of a finished layout is a cluster of the image.
THEOREM LayoutInImage == BuildSpec => []RunsInImage
<1>1. IInv => RunsInImage
    <2> SUFFICES ASSUME IInv, phase = "built", NEW n \in Existing
                 PROVE  Run(n) \subseteq 2 .. cluster_count + 1
        BY DEF RunsInImage
    <2>1. Run(n) \subseteq FirstFree .. next_cluster - 1
        BY DEF IInv, RunsDisjoint, Placed
    <2>2. FitsImage /\ next_cluster \in Nat
        BY DEF IInv, LoopInv, AllocTypeOK
    <2>. QED BY <2>1, <2>2, FirstFreeType, GeometryAssumption DEF FitsImage
<1>. QED BY Invariance, <1>1, PTL

-----------------------------------------------------------------------------
(* Arithmetic                                                              *)

\* Products grow with their factors.
LEMMA Times == \A a, b \in Int, k \in Nat : a <= b => a * k <= b * k
OBVIOUS

\* Multiples of k lie at least k apart.
LEMMA TimesStrict == \A a, b \in Int, k \in Nat : a < b => a * k + k <= b * k
OBVIOUS

\* What a quotient is, rounded down ...
LEMMA DivFacts == \A n \in Int, d \in Nat \ {0} :
   /\ n \div d \in Int
   /\ (n \div d) * d <= n /\ n < (n \div d) * d + d
   /\ n \in Nat => n \div d \in Nat
   /\ n % d = n - (n \div d) * d
OBVIOUS

\* ... what remains ...
LEMMA DivMod ==
    ASSUME NEW n \in Nat, NEW d \in Nat \ {0}, NEW q, q = n \div d
    PROVE  /\ q \in Nat /\ q * d <= n /\ n < q * d + d
           /\ n % d = n - q * d /\ n % d \in 0 .. d - 1
<1>1. n \in Int /\ n \div d \in Nat /\ (n \div d) * d <= n /\ n < (n \div d) * d + d
    BY DivFacts
<1>2. n % d = n - (n \div d) * d
    BY DivFacts
<1>3. q * d \in Int
    BY <1>1
<1>. QED BY <1>1, <1>2, <1>3

\* ... and how to recognise it.
LEMMA DivBetween == \A n, q \in Int, d \in Nat \ {0} : q * d <= n /\ n < q * d + d => n \div d = q
<1>. SUFFICES ASSUME NEW n \in Int, NEW q \in Int, NEW d \in Nat \ {0}, q * d <= n, n < q * d + d PROVE n \div d = q
  OBVIOUS
<1>. DEFINE r == n \div d
<1>1. r \in Int /\ r * d <= n /\ n < r * d + d
  BY DivFacts
<1>. HIDE DEF r
<1>2. ~ r < q
  BY <1>1, TimesStrict
<1>3. ~ q < r
  BY <1>1, TimesStrict
<1>. QED BY <1>1, <1>2, <1>3 DEF r

\* What a quotient is, rounded up.
LEMMA CeilFacts == \A n \in Nat, d \in Nat \ {0} :
    /\ CeilDiv(n, d) \in Nat
    /\ n <= CeilDiv(n, d) * d /\ CeilDiv(n, d) * d < n + d
    /\ n > 0 => CeilDiv(n, d) >= 1
<1>. TAKE n \in Nat, d \in Nat \ {0}
<1>. DEFINE m == n + d - 1  r == m \div d
<1>1. m \in Nat
  OBVIOUS
<1>2. r \in Nat /\ r * d <= m /\ m < r * d + d
  <2>. HIDE DEF m
  <2>. QED BY <1>1, DivFacts
<1>3. CeilDiv(n, d) = r
  BY DEF CeilDiv
<1>. HIDE DEF r
<1>4. n > 0 => r >= 1
  BY <1>2
<1>. QED BY <1>2, <1>3, <1>4

\* It grows with the dividend.
LEMMA CeilMono == \A m, n \in Nat, d \in Nat \ {0} : m <= n => CeilDiv(m, d) <= CeilDiv(n, d)
<1>. SUFFICES ASSUME NEW m \in Nat, NEW n \in Nat, NEW d \in Nat \ {0}, m <= n PROVE CeilDiv(m, d) <= CeilDiv(n, d)
  OBVIOUS
<1>. DEFINE q == CeilDiv(m, d)  r == CeilDiv(n, d)
<1>1. q \in Nat /\ r \in Nat /\ q * d < m + d /\ n <= r * d
  BY CeilFacts
<1>. HIDE DEF q, r
<1>2. ~ r < q
  BY <1>1, TimesStrict
<1>. QED BY <1>1, <1>2 DEF q, r

\* A set of numbers has a smallest one.
LEMMA Least == \A T \in SUBSET Nat : T # {} => \E x \in T : \A y \in T : x <= y
<1>. SUFFICES ASSUME NEW T \in SUBSET Nat, T # {} PROVE \E x \in T : \A y \in T : x <= y
  OBVIOUS
<1>1. \E x \in T : \A y \in T : ~ (<<y, x>> \in OpToRel(<, Nat))
  BY WFMin, NatLessThanWellFounded, Zenon
<1>2. PICK x \in T : \A y \in T : ~ (<<y, x>> \in OpToRel(<, Nat))
  BY <1>1
<1>3. \A y \in T : ~ (y < x)
  BY <1>2 DEF OpToRel
<1>. QED BY <1>3

-----------------------------------------------------------------------------
(* The stored sectors                                                      *)

BootSectors   == 0 .. 2 * BOOT_REGION_SECTORS - 1
UpcaseSectors == HeapSector(upcase_cluster) .. HeapSector(FirstFree) - 1

\* The sectors of the clusters of a node.
Region(n) == HeapSector(first_cluster[n]) .. HeapSector(first_cluster[n] + clusters[n]) - 1

\* Nothing is stored before the allocation has succeeded.
Early == {"scan", "directories", "files", "fit", "boot", "refused"}

\* The entries of a directory have been stored.
Stored(n) == n \in Dirs /\ (phase = "built" \/ (phase = "write" /\ n < cursor))

\* The types the allocation does not depend on; no directory is encoded in
\* fewer entries than were counted for it.
ShapeInv ==
    /\ stack \in Seq(Node) /\ stack # <<>>
    /\ isDirectory[Root]
    /\ encoded \in [Node -> Nat]
    /\ \A n \in Node : 1 <= counted[n] /\ counted[n] <= encoded[n]

\* A directory has the clusters that were counted for it.
ClustersInv ==
    \A n \in Node : Placed(n) /\ isDirectory[n] => clusters[n] = directory_cluster_count(n)

\* Sectors are stored in the boot regions and from the upcase table on.
SectorsInv(stored) ==
    /\ DOMAIN stored \subseteq Nat
    /\ \E top \in Nat : \A s \in DOMAIN stored : s <= top
    /\ \A s \in DOMAIN stored :
          /\ stored[s] \in {"boot", "directory", "upcase"} \X Node \X Nat
          /\ s \in BootSectors \/ HeapSector(upcase_cluster) <= s

StoredInv ==
    /\ SectorsInv(metadata)
    /\ \A n \in Node : Stored(n) => Region(n) \subseteq DOMAIN metadata
    /\ phase \in Early => DOMAIN metadata = {}

ContentsInv ==
    NoOverflow =>
        /\ \A s \in DOMAIN metadata :
              s \in BootSectors \cup UpcaseSectors \/ \E n \in Node : Stored(n) /\ s \in Region(n)
        /\ \A n \in Node : Stored(n) =>
              \A s \in Region(n) : metadata[s] = <<"directory", n, s - HeapSector(first_cluster[n])>>

BuildInv == IInv /\ ShapeInv /\ ClustersInv /\ StoredInv /\ ContentsInv

\* Clusters and sectors have sizes.
LEMMA Sizes ==
    /\ SECTOR_SIZE \in Nat \ {0} /\ SECTORS_PER_CLUSTER \in Nat \ {0}
    /\ CLUSTER_SIZE_BYTES \in Nat \ {0} /\ CLUSTER_SIZE_BYTES = SECTORS_PER_CLUSTER * SECTOR_SIZE
    /\ cluster_heap_offset \in Nat /\ 24 <= cluster_heap_offset
<1>1. SECTOR_SIZE \in Nat \ {0} /\ SECTORS_PER_CLUSTER \in Nat \ {0}
    BY SizesAssumption
<1>2. cluster_heap_offset \in Nat /\ 24 <= cluster_heap_offset
    BY GeometryAssumption DEF BOOT_REGION_SECTORS
<1>. QED BY <1>1, <1>2 DEF CLUSTER_SIZE_BYTES

\* The bitmap comes first in the heap, then the upcase table, then the tree.
LEMMA FixedClusters ==
    /\ bitmap_cluster = 2 /\ bitmap_clusters \in Nat \ {0} /\ upcase_clusters \in Nat \ {0}
    /\ upcase_cluster = 2 + bitmap_clusters
    /\ FirstFree = upcase_cluster + upcase_clusters
    /\ bitmap_length \in Nat
<1>1. bitmap_length \in Nat
    BY GeometryAssumption DEF bitmap_length, CeilDiv
<1>. QED BY <1>1, ClustersType, SizesAssumption
         DEF FirstFree, upcase_cluster, bitmap_cluster, bitmap_clusters, upcase_clusters

\* Clusters follow one another in the heap.
LEMMA HeapSectors ==
    ASSUME NEW a \in Nat, NEW b \in Nat
    PROVE  /\ HeapSector(a) \in Int
           /\ HeapSector(a + b) = HeapSector(a) + b * SECTORS_PER_CLUSTER
           /\ 2 <= a => cluster_heap_offset <= HeapSector(a)
           /\ a <= b => HeapSector(a) <= HeapSector(b)
           /\ a < b => HeapSector(a) + SECTORS_PER_CLUSTER <= HeapSector(b)
<1>. DEFINE k == SECTORS_PER_CLUSTER  x == a - 2  y == b - 2
<1>1. k \in Nat \ {0} /\ x \in Int /\ y \in Int /\ cluster_heap_offset \in Nat
    BY Sizes
<1>2. HeapSector(a) = cluster_heap_offset + x * k /\ HeapSector(b) = cluster_heap_offset + y * k
    BY DEF HeapSector
<1>3. (x + b) * k = x * k + b * k /\ x * k \in Int /\ y * k \in Int /\ b * k \in Int
    BY <1>1
<1>4. HeapSector(a + b) = cluster_heap_offset + (x + b) * k
    <2>1. a + b - 2 = x + b
        OBVIOUS
    <2>. QED BY <2>1 DEF HeapSector
<1>5. /\ 0 <= x => 0 <= x * k
      /\ x <= y => x * k <= y * k
      /\ x < y => x * k + k <= y * k
    BY <1>1, Times, TimesStrict
<1>6. /\ 2 <= a => 0 <= x
      /\ a <= b => x <= y
      /\ a < b => x < y
    OBVIOUS
<1>. HIDE DEF k, x, y
<1>7. k = SECTORS_PER_CLUSTER
    BY DEF k
<1>. QED BY <1>1, <1>2, <1>3, <1>4, <1>5, <1>6, <1>7

\* Sectors are counted from the start of the image.
LEMMA HeapSectorType ==
    \A a \in Nat : HeapSector(a) \in Int /\ (2 <= a => HeapSector(a) \in Nat)
<1>. TAKE a \in Nat
<1>1. HeapSector(a) \in Int /\ (2 <= a => cluster_heap_offset <= HeapSector(a))
    BY HeapSectors
<1>. QED BY <1>1, Sizes

\* The sectors of two runs of clusters are disjoint if the runs are.
LEMMA RegionsApart ==
    ASSUME NEW a \in Nat, NEW b \in Nat, NEW c \in Nat, NEW d \in Nat,
           b > 0, d > 0, (a .. a + b - 1) \cap (c .. c + d - 1) = {}
    PROVE  HeapSector(a + b) <= HeapSector(c) \/ HeapSector(c + d) <= HeapSector(a)
<1>1. a \in a .. a + b - 1 /\ c \in c .. c + d - 1
    OBVIOUS
<1>2. a + b <= c \/ c + d <= a
    BY <1>1
<1>3. \A x, y \in Nat : x <= y => HeapSector(x) <= HeapSector(y)
    BY HeapSectors
<1>4. a + b \in Nat /\ c + d \in Nat
    OBVIOUS
<1>. QED BY <1>2, <1>3, <1>4

\* The sectors that are stored for a directory start with its first cluster
\* and fill its clusters, or more than them where it overflows.
LEMMA DirectorySectors ==
    ASSUME NEW n \in Node, first_cluster \in [Node -> Nat], clusters \in [Node -> Nat],
           counted \in [Node -> Nat], ShapeInv, clusters[n] = directory_cluster_count(n)
    PROVE  LET count == AtLeast(1, CeilDiv(directory_bytes(n), SECTOR_SIZE))
           IN  /\ count \in Nat
               /\ clusters[n] * SECTORS_PER_CLUSTER <= count
               /\ ~Overflowing(n) => count = clusters[n] * SECTORS_PER_CLUSTER
<1>. DEFINE k == CeilDiv(encoded[n] * ENTRY_BYTES, CLUSTER_SIZE_BYTES)
            q == k * SECTORS_PER_CLUSTER
<1>1. /\ counted[n] * ENTRY_BYTES \in Nat /\ counted[n] * ENTRY_BYTES > 0
      /\ encoded[n] * ENTRY_BYTES \in Nat
      /\ counted[n] * ENTRY_BYTES <= encoded[n] * ENTRY_BYTES
    BY DEF ShapeInv, ENTRY_BYTES
<1>2. clusters[n] = CeilDiv(counted[n] * ENTRY_BYTES, CLUSTER_SIZE_BYTES)
    <2>1. CeilDiv(counted[n] * ENTRY_BYTES, CLUSTER_SIZE_BYTES) \in Nat \ {0}
        BY <1>1, CeilFacts, Sizes
    <2>. QED BY <2>1 DEF directory_cluster_count, Clusters, AtLeast
<1>3. /\ k \in Nat /\ clusters[n] \in Nat /\ clusters[n] <= k /\ 1 <= clusters[n]
    BY <1>1, <1>2, CeilFacts, CeilMono, Sizes
<1>4. directory_bytes(n) = k * CLUSTER_SIZE_BYTES
    BY DEF directory_bytes
<1>. HIDE DEF k
<1>5. q \in Nat /\ 1 <= q
    BY <1>3, Sizes
<1>6. directory_bytes(n) = q * SECTOR_SIZE
    BY <1>3, <1>4, Sizes
<1>7. CeilDiv(directory_bytes(n), SECTOR_SIZE) = q
    <2>. HIDE DEF q
    <2>1. q * SECTOR_SIZE + SECTOR_SIZE - 1 \in Int
        BY <1>5, Sizes
    <2>2. (q * SECTOR_SIZE + SECTOR_SIZE - 1) \div SECTOR_SIZE = q
        BY <1>5, <2>1, Sizes, DivBetween
    <2>. QED BY <1>6, <2>2 DEF CeilDiv
<1>8. clusters[n] * SECTORS_PER_CLUSTER <= q
    BY <1>3, Times, Sizes
<1>9. ~Overflowing(n) => k = clusters[n]
    <2>. SUFFICES ASSUME ~Overflowing(n) PROVE ~ clusters[n] < k
        BY <1>3
    <2>1. ~ clusters[n] * CLUSTER_SIZE_BYTES < k * CLUSTER_SIZE_BYTES
        BY <1>3, <1>4, Sizes DEF Overflowing
    <2>. QED BY <1>3, <2>1, TimesStrict, Sizes
<1>. QED BY <1>5, <1>7, <1>8, <1>9 DEF AtLeast

\* The stored sectors with count sectors of a structure put at start.
Wrote(new, old, start, count, kind, n) ==
    /\ DOMAIN new = DOMAIN old \cup (start .. start + count - 1)
    /\ \A s \in start .. start + count - 1 : new[s] = <<kind, n, s - start>>
    /\ \A s \in DOMAIN old \ (start .. start + count - 1) : new[s] = old[s]

\* That is what _put_sectors does.
LEMMA Put ==
    ASSUME NEW old, NEW start \in Int, NEW count \in Nat, NEW kind, NEW n
    PROVE  Wrote(PutSectors(old, start, count, kind, n), old, start, count, kind, n)
BY DEF PutSectors, Wrote

\* Before the sectors are written.
LEMMA EarlyStored ==
    ASSUME phase \in Early, DOMAIN metadata = {}
    PROVE  StoredInv /\ ContentsInv
<1>1. \A n \in Node : ~Stored(n)
    BY DEF Early, Stored
<1>2. 0 \in Nat
    OBVIOUS
<1>. QED BY <1>1, <1>2 DEF StoredInv, SectorsInv, ContentsInv

\* The tree of the root alone.
LEMMA InitBuildInv == BuildInit => BuildInv
<1>. SUFFICES ASSUME BuildInit PROVE BuildInv
    OBVIOUS
<1>1. IInv
    BY InitIInv
<1>2. ShapeInv
    <2>1. Root \in Node
        BY SizesAssumption DEF Root, Node
    <2>2. stack \in Seq(Node) /\ stack # <<>>
        BY <2>1 DEF BuildInit
    <2>3. \A n \in Node : FixedEntries(n) \in Nat /\ 1 <= FixedEntries(n)
        BY DEF FixedEntries
    <2>4. isDirectory[Root]
        BY <2>1 DEF BuildInit
    <2>. QED BY <2>2, <2>3, <2>4 DEF BuildInit, ShapeInv
<1>3. ClustersInv
    BY DEF BuildInit, ClustersInv, Placed
<1>4. phase \in Early /\ DOMAIN metadata = {}
    BY DEF BuildInit, Early
<1>. QED BY <1>1, <1>2, <1>3, <1>4, EarlyStored DEF BuildInv

\* A name needs at least as many entries as are counted for it.
LEMMA EntriesCounted ==
    \A units \in NameLengths :
        CountedFor(units) \in Nat /\ EncodedFor(units) \in Nat /\ CountedFor(units) <= EncodedFor(units)
<1>. TAKE units \in NameLengths
<1>1. units \in Nat /\ 15 \in Nat \ {0}
    BY SizesAssumption
<1>2. CeilDiv(units, 15) \in Nat
    BY <1>1, CeilFacts
<1>. QED BY <1>2 DEF CountedFor, EncodedFor, AtLeast

\* The steps that do not concern the entries of directories.
LEMMA ShapeKept ==
    ASSUME ShapeInv, UNCHANGED <<stack, isDirectory, counted, encoded>>
    PROVE  ShapeInv'
BY DEF ShapeInv

LEMMA ScanBuildInv ==
    ASSUME BuildInv,
           \/ \E units \in NameLengths :
                 ScanDirectory(units) \/ \E bytes \in FileSizes : ScanFile(units, bytes)
           \/ LeaveDirectory
           \/ TreeScanned
    PROVE  BuildInv'
<1>1. IInv'
    BY ScanIInv DEF BuildInv
<1>2. ShapeInv'
    <2>. USE DEF BuildInv, ShapeInv
    <2>1. ASSUME NEW units \in NameLengths, AppendChild(units)
          PROVE  /\ encoded' \in [Node -> Nat]
                 /\ \A n \in Node : 1 <= counted'[n] /\ counted'[n] <= encoded'[n]
        <3>1. /\ counted \in [Node -> Nat] /\ encoded \in [Node -> Nat]
              /\ \A n \in Node : 1 <= counted[n] /\ counted[n] <= encoded[n]
            BY DEF IInv, AllocTypeOK
        <3>2. /\ counted' = [counted EXCEPT ![Parent] = @ + CountedFor(units)]
              /\ encoded' = [encoded EXCEPT ![Parent] = @ + EncodedFor(units)]
            BY <2>1 DEF AppendChild
        <3>3. /\ CountedFor(units) \in Nat /\ EncodedFor(units) \in Nat
              /\ CountedFor(units) <= EncodedFor(units)
            BY EntriesCounted
        <3>4. \A n \in Node :
                 /\ counted'[n] = IF n = Parent THEN counted[n] + CountedFor(units) ELSE counted[n]
                 /\ encoded'[n] = IF n = Parent THEN encoded[n] + EncodedFor(units) ELSE encoded[n]
            BY <3>1, <3>2
        <3>5. \A n \in Node : encoded'[n] \in Nat /\ 1 <= counted'[n] /\ counted'[n] <= encoded'[n]
            <4>. TAKE n \in Node
            <4>1. /\ counted[n] \in Nat /\ encoded[n] \in Nat
                  /\ 1 <= counted[n] /\ counted[n] <= encoded[n]
                BY <3>1
            <4>. QED BY <3>3, <3>4, <4>1
        <3>6. DOMAIN encoded' = Node /\ encoded' = [n \in DOMAIN encoded' |-> encoded'[n]]
            BY <3>1, <3>2
        <3>7. encoded' \in [Node -> Nat]
            BY <3>5, <3>6
        <3>. QED BY <3>5, <3>7
    <2>2. ASSUME NEW units \in NameLengths, ScanDirectory(units) PROVE ShapeInv'
        <3>1. last \in 0 .. MaxNodes /\ last < MaxNodes /\ MaxNodes \in Nat
            BY <2>2, SizesAssumption DEF ScanDirectory, AppendChild, IInv, AllocTypeOK, Node
        <3>2. last + 1 \in Node
            BY <3>1 DEF Node
        <3>3. stack' \in Seq(Node) /\ stack' # <<>>
            BY <2>2, <3>2 DEF ScanDirectory
        <3>. QED BY <2>1, <2>2, <3>3 DEF ScanDirectory
    <2>3. ASSUME NEW units \in NameLengths, NEW bytes \in FileSizes, ScanFile(units, bytes) PROVE ShapeInv'
        BY <2>1, <2>3 DEF ScanFile
    <2>4. CASE LeaveDirectory
        <3>1. stack' = SubSeq(stack, 1, Len(stack) - 1) /\ Len(stack) > 1
            BY <2>4 DEF LeaveDirectory
        <3>2. stack' \in Seq(Node) /\ Len(stack') = Len(stack) - 1
            BY <3>1, SubSeqProperties
        <3>3. stack' # <<>>
            <4>1. Len(stack') > 0
                BY <3>1, <3>2
            <4>. QED BY <4>1
        <3>4. UNCHANGED <<isDirectory, counted, encoded>>
            BY <2>4 DEF LeaveDirectory
        <3>. QED BY <3>2, <3>3, <3>4
    <2>5. CASE TreeScanned
        BY <2>5, ShapeKept DEF TreeScanned, treeVars
    <2>. QED BY <2>2, <2>3, <2>4, <2>5
<1>3. /\ phase = "scan" /\ phase' \in {"scan", "directories"} /\ UNCHANGED metadata
      /\ UNCHANGED cursor
    BY DEF ScanDirectory, ScanFile, AppendChild, LeaveDirectory, TreeScanned
<1>4. ClustersInv'
    <2>1. \A n \in Node : ~Placed(n)'
        BY <1>1, <1>3 DEF BuildInv, IInv, AllocTypeOK, LoopInv, Placed, Root, Node
    <2>. QED BY <2>1 DEF ClustersInv
<1>5. (phase \in Early)' /\ (DOMAIN metadata = {})'
    BY <1>3 DEF BuildInv, StoredInv, Early
<1>6. StoredInv' /\ ContentsInv'
    BY <1>5, EarlyStored, PTL
<1>. QED BY <1>1, <1>2, <1>4, <1>6 DEF BuildInv

\* The steps that place no further directory.
LEMMA ClustersKept ==
    ASSUME ClustersInv, UNCHANGED <<counted, isDirectory>>,
           \A n \in Node : Placed(n)' /\ isDirectory[n] => Placed(n) /\ clusters'[n] = clusters[n]
    PROVE  ClustersInv'
BY DEF ClustersInv, directory_cluster_count

LEMMA PlaceBuildInv ==
    ASSUME BuildInv, PlaceDirectory \/ PlaceFile \/ PassOver \/ CheckFit
    PROVE  BuildInv'
<1>1. IInv'
    BY PlaceIInv, OtherIInv DEF BuildInv
<1>2. UNCHANGED treeVars /\ UNCHANGED metadata
    BY DEF PlaceDirectory, PlaceFile, PassOver, CheckFit
<1>3. ShapeInv'
    BY <1>2, ShapeKept DEF BuildInv, treeVars
<1>4. phase \in Early /\ phase' \in Early
    BY DEF PlaceDirectory, PlaceFile, PassOver, CheckFit, Advance, Early
<1>5. ClustersInv'
    <2>. USE DEF BuildInv
    <2>1. ClustersInv /\ UNCHANGED <<counted, isDirectory, last>>
        BY <1>2 DEF treeVars
    <2>2. cursor \in Node /\ cursor' \in Node /\ last \in Node /\ cursor <= last /\ last' = last
        BY <1>1, <2>1 DEF IInv, AllocTypeOK, LoopInv
    <2>3. CASE PlaceDirectory
        <3>1. /\ phase = "directories" /\ Advance("files")
              /\ clusters' = [clusters EXCEPT ![cursor] = directory_cluster_count(cursor)]
              /\ clusters \in [Node -> Nat]
            BY <2>3 DEF PlaceDirectory, Take, IInv, AllocTypeOK
        <3>2. \A n \in Node : Placed(n)' /\ isDirectory[n] => Placed(n) \/ n = cursor
            BY <2>1, <2>2, <3>1 DEF Placed, Existing, Advance, Node
        <3>. QED BY <2>1, <3>1, <3>2 DEF ClustersInv, directory_cluster_count
    <2>4. CASE PlaceFile
        <3>1. /\ phase = "files" /\ Advance("fit") /\ ~isDirectory[cursor]
              /\ \A n \in Node : n # cursor => clusters'[n] = clusters[n]
            BY <2>4 DEF PlaceFile, Take, IInv, AllocTypeOK
        <3>2. \A n \in Node : Placed(n)' /\ isDirectory[n] => Placed(n) /\ n # cursor
            BY <2>1, <3>1 DEF Placed, Existing
        <3>. QED BY <2>1, <3>1, <3>2, ClustersKept
    <2>5. CASE PassOver \/ CheckFit
        <3>1. clusters' = clusters
            BY <2>5 DEF PassOver, CheckFit, allocVars
        <3>2. \A n \in Node : Placed(n)' => Placed(n)
            BY <2>1, <2>2, <2>5, <1>1 DEF PassOver, CheckFit, Advance, Placed, Existing, IInv, LoopInv, Node, Root
        <3>. QED BY <2>1, <3>1, <3>2, ClustersKept
    <2>. QED BY <2>3, <2>4, <2>5
<1>6. (phase \in Early)' /\ (DOMAIN metadata = {})'
    BY <1>2, <1>4 DEF BuildInv, StoredInv
<1>7. StoredInv' /\ ContentsInv'
    BY <1>6, EarlyStored, PTL
<1>. QED BY <1>1, <1>3, <1>5, <1>7 DEF BuildInv

\* The clusters have been given.
Allocated == phase \in {"fit", "boot", "root", "write", "built"}

\* A node lies behind the upcase table, and not in another node.
LEMMA PlacedNode ==
    ASSUME BuildInv, Allocated, NEW n \in Existing
    PROVE  /\ n \in Node
           /\ first_cluster[n] \in Nat /\ clusters[n] \in Nat \ {0}
           /\ FirstFree <= first_cluster[n] /\ first_cluster[n] + clusters[n] <= next_cluster
           /\ HeapSector(FirstFree) <= HeapSector(first_cluster[n])
           /\ isDirectory[n] => clusters[n] = directory_cluster_count(n)
           /\ \A m \in Existing : m # n => Region(m) \cap Region(n) = {}
<1>1. \A m \in Existing : m \in Node /\ Placed(m)
    BY DEF Allocated, Existing, Placed
<1>2. /\ first_cluster \in [Node -> Nat] /\ clusters \in [Node -> Nat] /\ next_cluster \in Nat
      /\ RunsDisjoint
    BY DEF BuildInv, IInv, AllocTypeOK
<1>3. \A m \in Existing : Run(m) # {} /\ Run(m) \subseteq FirstFree .. next_cluster - 1
    BY <1>1, <1>2 DEF RunsDisjoint
<1>4. \A m \in Existing : clusters[m] > 0
    BY <1>1, <1>2, <1>3 DEF Run
<1>5. first_cluster[n] \in Run(n) /\ first_cluster[n] + clusters[n] - 1 \in Run(n)
    BY <1>1, <1>2, <1>4 DEF Run
<1>6. FirstFree <= first_cluster[n] /\ first_cluster[n] + clusters[n] <= next_cluster
    BY <1>1, <1>2, <1>3, <1>5, FirstFreeType
<1>7. HeapSector(FirstFree) <= HeapSector(first_cluster[n])
    BY <1>1, <1>2, <1>6, FirstFreeType, HeapSectors
<1>8. ASSUME NEW m \in Existing, m # n
      PROVE  Region(m) \cap Region(n) = {}
    <2>. DEFINE a == first_cluster[m]  b == clusters[m]  c == first_cluster[n]  d == clusters[n]
    <2>1. a \in Nat /\ b \in Nat /\ c \in Nat /\ d \in Nat /\ b > 0 /\ d > 0
        BY <1>1, <1>2, <1>4
    <2>2. (a .. a + b - 1) \cap (c .. c + d - 1) = {}
        BY <1>1, <1>2, <1>8 DEF RunsDisjoint, Run
    <2>3. Region(m) = HeapSector(a) .. HeapSector(a + b) - 1 /\ Region(n) = HeapSector(c) .. HeapSector(c + d) - 1
        BY DEF Region
    <2>. HIDE DEF a, b, c, d
    <2>4. HeapSector(a + b) <= HeapSector(c) \/ HeapSector(c + d) <= HeapSector(a)
        BY <2>1, <2>2, RegionsApart
    <2>5. /\ HeapSector(a) \in Int /\ HeapSector(c) \in Int
          /\ HeapSector(a + b) \in Int /\ HeapSector(c + d) \in Int
        BY <2>1, HeapSectorType
    <2>. QED BY <2>3, <2>4, <2>5
<1>9. isDirectory[n] => clusters[n] = directory_cluster_count(n)
    BY <1>1 DEF BuildInv, ClustersInv
<1>. QED BY <1>1, <1>2, <1>4, <1>6, <1>7, <1>8, <1>9

\* What storing a directory changes.
LEMMA DirectoryPut ==
    ASSUME BuildInv, Allocated, NEW n \in Dirs, NEW old
    PROVE  \E start, count \in Nat :
              /\ start = HeapSector(first_cluster[n]) /\ HeapSector(FirstFree) <= start
              /\ Region(n) \subseteq start .. start + count - 1
              /\ ~Overflowing(n) => Region(n) = start .. start + count - 1
              /\ Wrote(PutDirectory(old, n), old, start, count, "directory", n)
<1>. DEFINE start == HeapSector(first_cluster[n])
            count == AtLeast(1, CeilDiv(directory_bytes(n), SECTOR_SIZE))
<1>1. n \in Existing /\ isDirectory[n]
    BY DEF Dirs
<1>2. /\ n \in Node /\ first_cluster[n] \in Nat /\ clusters[n] \in Nat \ {0}
      /\ HeapSector(FirstFree) <= start /\ clusters[n] = directory_cluster_count(n)
      /\ 2 <= first_cluster[n]
    BY <1>1, PlacedNode, FirstFreeType
<1>3. /\ first_cluster \in [Node -> Nat] /\ clusters \in [Node -> Nat]
      /\ counted \in [Node -> Nat] /\ ShapeInv
    BY DEF BuildInv, IInv, AllocTypeOK
<1>4. /\ count \in Nat
      /\ clusters[n] * SECTORS_PER_CLUSTER <= count
      /\ ~Overflowing(n) => count = clusters[n] * SECTORS_PER_CLUSTER
    BY <1>2, <1>3, DirectorySectors
<1>5. start \in Nat
    BY <1>2, HeapSectorType
<1>6. Region(n) = start .. start + clusters[n] * SECTORS_PER_CLUSTER - 1
    <2>1. HeapSector(first_cluster[n] + clusters[n]) = start + clusters[n] * SECTORS_PER_CLUSTER
        BY <1>2, HeapSectors
    <2>2. clusters[n] * SECTORS_PER_CLUSTER \in Nat
        BY <1>2, Sizes
    <2>. QED BY <1>5, <2>1, <2>2 DEF Region
<1>7. PutDirectory(old, n) = PutSectors(old, start, count, "directory", n)
    BY DEF PutDirectory, PutClusterBytes
<1>8. clusters[n] * SECTORS_PER_CLUSTER \in Nat
    BY <1>2, Sizes
<1>. HIDE DEF start, count
<1>9. Region(n) \subseteq start .. start + count - 1
    BY <1>4, <1>5, <1>6, <1>8
<1>10. ~Overflowing(n) => Region(n) = start .. start + count - 1
    BY <1>4, <1>6
<1>11. Wrote(PutDirectory(old, n), old, start, count, "directory", n)
    BY <1>4, <1>5, <1>7, Put
<1>. QED BY <1>2, <1>4, <1>5, <1>9, <1>10, <1>11 DEF start

\* The sectors of a structure fit into its clusters.
LEMMA SectorsFit ==
    ASSUME NEW bytes \in Nat
    PROVE  /\ CeilDiv(bytes, SECTOR_SIZE) \in Nat
           /\ AtLeast(1, CeilDiv(bytes, SECTOR_SIZE)) \in Nat
           /\ CeilDiv(bytes, SECTOR_SIZE) <= AtLeast(1, CeilDiv(bytes, SECTOR_SIZE))
           /\ AtLeast(1, CeilDiv(bytes, SECTOR_SIZE)) <= Clusters(bytes) * SECTORS_PER_CLUSTER
<1>. DEFINE r    == CeilDiv(bytes, SECTOR_SIZE)
            k    == CeilDiv(bytes, CLUSTER_SIZE_BYTES)
            c    == Clusters(bytes)
            area == c * SECTORS_PER_CLUSTER
<1>1. /\ r \in Nat /\ k \in Nat
      /\ r * SECTOR_SIZE < bytes + SECTOR_SIZE
      /\ bytes <= k * CLUSTER_SIZE_BYTES
    BY Sizes, CeilFacts
<1>2. c \in Nat \ {0} /\ k <= c
    BY <1>1, ClustersType DEF Clusters, AtLeast
<1>. HIDE DEF k, c
<1>3. area \in Nat /\ 1 <= area
    BY <1>2, Sizes
<1>4. c * CLUSTER_SIZE_BYTES = area * SECTOR_SIZE
    BY <1>2, Sizes
<1>5. k * CLUSTER_SIZE_BYTES <= c * CLUSTER_SIZE_BYTES
    BY <1>1, <1>2, Sizes, Times
<1>. HIDE DEF area, r
<1>6. r <= area
    <2>1. r * SECTOR_SIZE \in Int /\ area * SECTOR_SIZE \in Int /\ k * CLUSTER_SIZE_BYTES \in Int
        BY <1>1, <1>3, Sizes
    <2>2. r * SECTOR_SIZE < area * SECTOR_SIZE + SECTOR_SIZE
        BY <1>1, <1>4, <1>5, <2>1, Sizes
    <2>3. area < r => area * SECTOR_SIZE + SECTOR_SIZE <= r * SECTOR_SIZE
        BY <1>1, <1>3, Sizes, TimesStrict
    <2>. QED BY <1>1, <1>3, <2>1, <2>2, <2>3, Sizes
<1>7. AtLeast(1, r) \in Nat /\ AtLeast(1, r) <= area /\ r <= AtLeast(1, r)
    BY <1>1, <1>3, <1>6 DEF AtLeast
<1>. QED BY <1>1, <1>7 DEF r, area, c

\* What storing the upcase table changes.
LEMMA UpcasePut ==
    ASSUME NEW old
    PROVE  \E start, count \in Nat :
              /\ start = HeapSector(upcase_cluster)
              /\ start .. start + count - 1 \subseteq UpcaseSectors
              /\ Wrote(PutClusterBytes(old, upcase_cluster, UPCASE_TABLE_BYTES, "upcase", Root),
                        old, start, count, "upcase", Root)
<1>. DEFINE start == HeapSector(upcase_cluster)
            count == AtLeast(1, CeilDiv(UPCASE_TABLE_BYTES, SECTOR_SIZE))
            area  == upcase_clusters * SECTORS_PER_CLUSTER
<1>1. count \in Nat /\ count <= area
    BY SizesAssumption, SectorsFit DEF upcase_clusters
<1>2. start \in Nat
    BY FixedClusters, HeapSectorType
<1>3. area \in Nat
    BY FixedClusters, Sizes
<1>4. HeapSector(FirstFree) = start + area
    BY FixedClusters, HeapSectors
<1>5. PutClusterBytes(old, upcase_cluster, UPCASE_TABLE_BYTES, "upcase", Root)
        = PutSectors(old, start, count, "upcase", Root)
    BY DEF PutClusterBytes
<1>. HIDE DEF start, count, area
<1>6. start .. start + count - 1 \subseteq UpcaseSectors
    BY <1>1, <1>2, <1>3, <1>4 DEF UpcaseSectors, start
<1>7. Wrote(PutClusterBytes(old, upcase_cluster, UPCASE_TABLE_BYTES, "upcase", Root),
            old, start, count, "upcase", Root)
    BY <1>1, <1>2, <1>5, Put
<1>. QED BY <1>1, <1>2, <1>6, <1>7 DEF start

\* Writing a structure in one of those places keeps them there.
LEMMA WroteSectors ==
    ASSUME NEW new, NEW old, NEW start \in Nat, NEW count \in Nat,
           NEW kind \in {"boot", "directory", "upcase"}, NEW n \in Node,
           SectorsInv(old), Wrote(new, old, start, count, kind, n),
           start .. start + count - 1 \subseteq BootSectors \/ HeapSector(upcase_cluster) <= start
    PROVE  SectorsInv(new)
<1>1. PICK top \in Nat : \A s \in DOMAIN old : s <= top
    BY DEF SectorsInv
<1>2. /\ DOMAIN new = DOMAIN old \cup (start .. start + count - 1)
      /\ DOMAIN old \subseteq Nat
    BY DEF SectorsInv, Wrote
<1>3. \A s \in DOMAIN new : s \in Nat /\ s <= top + start + count
    BY <1>1, <1>2
<1>4. ASSUME NEW s \in DOMAIN new
      PROVE  /\ new[s] \in {"boot", "directory", "upcase"} \X Node \X Nat
             /\ s \in BootSectors \/ HeapSector(upcase_cluster) <= s
    <2>1. CASE s \in start .. start + count - 1
        <3>1. new[s] = <<kind, n, s - start>> /\ s - start \in Nat
            BY <2>1 DEF Wrote
        <3>2. HeapSector(upcase_cluster) \in Int
            BY FixedClusters, HeapSectorType
        <3>. QED BY <2>1, <3>1, <3>2
    <2>2. CASE s \in DOMAIN old \ (start .. start + count - 1)
        BY <2>2 DEF Wrote, SectorsInv
    <2>. QED BY <1>2, <2>1, <2>2
<1>5. top + start + count \in Nat
    OBVIOUS
<1>. QED BY <1>3, <1>4, <1>5 DEF SectorsInv

LEMMA BootBuildInv ==
    ASSUME BuildInv, PutBootRegions
    PROVE  StoredInv' /\ ContentsInv'
<1>. DEFINE boot(old, start) == PutSectors(old, start, BOOT_REGION_SECTORS, "boot", Root)
<1>1. /\ metadata' = boot(boot(metadata, 0), BOOT_REGION_SECTORS)
      /\ phase = "boot" /\ phase' = "root"
    BY DEF PutBootRegions
<1>2. Root \in Node
    BY SizesAssumption DEF Root, Node
<1>3. \A old : \A start \in Nat : Wrote(boot(old, start), old, start, 12, "boot", Root)
    BY Put DEF BOOT_REGION_SECTORS
<1>. HIDE DEF boot
<1>4. DOMAIN metadata = {} /\ SectorsInv(metadata)
    BY <1>1 DEF BuildInv, StoredInv, Early
<1>5. /\ Wrote(boot(metadata, 0), metadata, 0, 12, "boot", Root)
      /\ Wrote(metadata', boot(metadata, 0), 12, 12, "boot", Root)
    BY <1>1, <1>3 DEF BOOT_REGION_SECTORS
<1>6. BootSectors = 0 .. 23 /\ 0 .. 0 + 12 - 1 \subseteq BootSectors /\ 12 .. 12 + 12 - 1 \subseteq BootSectors
    BY DEF BootSectors, BOOT_REGION_SECTORS
<1>7. SectorsInv(boot(metadata, 0))
    BY <1>2, <1>4, <1>5, <1>6, WroteSectors
<1>8. SectorsInv(metadata')
    BY <1>2, <1>5, <1>6, <1>7, WroteSectors
<1>9. \A s \in DOMAIN metadata' : s \in BootSectors
    BY <1>4, <1>5, <1>6 DEF Wrote
<1>10. \A n \in Node : ~Stored(n)'
    BY <1>1 DEF Stored
<1>. QED BY <1>1, <1>8, <1>9, <1>10 DEF StoredInv, SectorsInv, ContentsInv, Early

\* The steps that store sectors leave the tree and its clusters alone.
LEMMA NothingMoves ==
    ASSUME UNCHANGED <<treeVars, allocVars>>
    PROVE  /\ NoOverflow' <=> NoOverflow
           /\ \A n : Region(n)' = Region(n)
           /\ Dirs' = Dirs
BY DEF treeVars, allocVars, NoOverflow, Overflowing, directory_bytes, Region, Dirs, Existing

LEMMA RootBuildInv ==
    ASSUME BuildInv, PutRootAndUpcase
    PROVE  StoredInv' /\ ContentsInv'
<1>. DEFINE dir == PutDirectory(metadata, Root)
<1>1. /\ metadata' = PutClusterBytes(dir, upcase_cluster, UPCASE_TABLE_BYTES, "upcase", Root)
      /\ phase = "root" /\ phase' = "write" /\ cursor' = 1
    BY DEF PutRootAndUpcase
<1>. HIDE DEF dir
<1>2. UNCHANGED <<treeVars, allocVars>> /\ Allocated /\ last \in Node
    BY DEF PutRootAndUpcase, Allocated, BuildInv, IInv, AllocTypeOK
<1>3. SectorsInv(metadata) /\ ContentsInv /\ \A n \in Node : ~Stored(n)
    BY <1>1 DEF BuildInv, StoredInv, Stored
<1>4. \A n \in Node : Stored(n)' => n = Root
    BY <1>1, <1>2 DEF Stored, Node, Root
<1>5. CASE Root \in Dirs
    <2>1. Root \in Node
        BY <1>5 DEF Dirs, Existing
    <2>2. PICK a, b \in Nat :
            /\ a = HeapSector(first_cluster[Root]) /\ HeapSector(FirstFree) <= a
            /\ Region(Root) \subseteq a .. a + b - 1
            /\ ~Overflowing(Root) => Region(Root) = a .. a + b - 1
            /\ Wrote(dir, metadata, a, b, "directory", Root)
        BY <1>2, <1>5, DirectoryPut DEF dir
    <2>3. PICK c, d \in Nat :
            /\ c = HeapSector(upcase_cluster)
            /\ c .. c + d - 1 \subseteq UpcaseSectors
            /\ Wrote(metadata', dir, c, d, "upcase", Root)
        BY <1>1, UpcasePut
    <2>4. HeapSector(upcase_cluster) <= HeapSector(FirstFree) /\ HeapSector(FirstFree) \in Nat
        BY FixedClusters, HeapSectors, HeapSectorType
    <2>5. SectorsInv(dir)
        BY <1>3, <2>1, <2>2, <2>3, <2>4, WroteSectors
    <2>6. SectorsInv(metadata')
        BY <2>1, <2>3, <2>5, WroteSectors
    <2>7. StoredInv'
        <3>1. Region(Root)' \subseteq DOMAIN metadata'
            BY <1>2, <2>2, <2>3, NothingMoves DEF Wrote
        <3>. QED BY <1>1, <1>4, <2>6, <3>1 DEF StoredInv, SectorsInv, Early
    <2>8. ASSUME NoOverflow'
          PROVE  /\ \A s \in DOMAIN metadata' : s \in BootSectors \cup UpcaseSectors \cup Region(Root)
                 /\ \A s \in Region(Root) :
                       metadata'[s] = <<"directory", Root, s - HeapSector(first_cluster[Root])>>
        <3>1. NoOverflow /\ Region(Root) = a .. a + b - 1
            BY <1>2, <1>5, <2>2, <2>8, NothingMoves DEF NoOverflow
        <3>2. \A s \in DOMAIN metadata : s \in BootSectors \cup UpcaseSectors
            BY <1>3, <3>1 DEF ContentsInv
        <3>3. \A s \in Region(Root) : s \notin c .. c + d - 1
            BY <2>2, <2>3, <2>4, <3>1 DEF UpcaseSectors
        <3>. QED BY <2>2, <2>3, <3>1, <3>2, <3>3 DEF Wrote
    <2>9. ContentsInv'
        <3>1. Stored(Root)'
            BY <1>1, <1>2, <1>5, NothingMoves DEF Stored, Root
        <3>2. \A n : Region(n)' = Region(n)
            BY <1>2, NothingMoves
        <3>3. first_cluster' = first_cluster
            BY <1>2 DEF allocVars
        <3>. QED BY <1>4, <2>1, <2>8, <3>1, <3>2, <3>3 DEF ContentsInv
    <2>. QED BY <2>7, <2>9
<1>6. Root \in Dirs
    BY <1>2, SizesAssumption DEF BuildInv, ShapeInv, Dirs, Existing, Node, Root
<1>. QED BY <1>5, <1>6

LEMMA NodeBuildInv ==
    ASSUME BuildInv, PutNode
    PROVE  StoredInv' /\ ContentsInv'
<1>1. /\ phase = "write" /\ phase' \in {"write", "built"}
      /\ cursor \in Node /\ last \in Node /\ cursor <= last
      /\ UNCHANGED <<treeVars, allocVars>> /\ Allocated
      /\ (phase' = "built" /\ cursor = last) \/ (phase' = "write" /\ cursor' = cursor + 1)
    <2>1. cursor \in Node /\ last \in Node /\ cursor <= last
        BY DEF BuildInv, IInv, AllocTypeOK, LoopInv
    <2>2. phase = "write" /\ UNCHANGED <<treeVars, allocVars>> /\ Advance("built")
        BY DEF PutNode
    <2>. QED BY <2>1, <2>2 DEF Advance, Allocated
<1>2. /\ SectorsInv(metadata) /\ ContentsInv
      /\ \A n \in Node : Stored(n) => Region(n) \subseteq DOMAIN metadata
    BY DEF BuildInv, StoredInv
<1>3. \A n \in Node : Stored(n)' <=> Stored(n) \/ (n = cursor /\ isDirectory[n])
    <2>. TAKE n \in Node
    <2>1. n <= last <=> n < cursor \/ n = cursor \/ (cursor < n /\ n <= last)
        BY <1>1 DEF Node
    <2>2. Stored(n)' <=> n \in Dirs /\ n <= cursor
        BY <1>1, NothingMoves DEF Stored, Dirs, Existing, Node
    <2>3. Stored(n) <=> n \in Dirs /\ n < cursor
        BY <1>1 DEF Stored
    <2>. QED BY <1>1, <2>2, <2>3 DEF Dirs, Existing, Node
<1>4. /\ \A n : Region(n)' = Region(n)
      /\ NoOverflow' <=> NoOverflow
      /\ first_cluster' = first_cluster
    BY <1>1, NothingMoves DEF allocVars
<1>5. CASE ~isDirectory[cursor]
    <2>1. metadata' = metadata /\ \A n \in Node : Stored(n)' <=> Stored(n)
        BY <1>3, <1>5 DEF PutNode
    <2>. QED BY <1>1, <1>2, <1>4, <2>1 DEF StoredInv, ContentsInv, Early
<1>6. CASE isDirectory[cursor]
    <2>1. cursor \in Dirs
        BY <1>1, <1>6 DEF Dirs, Existing
    <2>2. metadata' = PutDirectory(metadata, cursor)
        BY <1>6 DEF PutNode
    <2>3. PICK a, b \in Nat :
            /\ a = HeapSector(first_cluster[cursor]) /\ HeapSector(FirstFree) <= a
            /\ Region(cursor) \subseteq a .. a + b - 1
            /\ ~Overflowing(cursor) => Region(cursor) = a .. a + b - 1
            /\ Wrote(metadata', metadata, a, b, "directory", cursor)
        BY <1>1, <2>1, <2>2, DirectoryPut
    <2>4. HeapSector(upcase_cluster) <= a
        <3>1. HeapSector(upcase_cluster) <= HeapSector(FirstFree)
            BY FixedClusters, HeapSectors
        <3>2. HeapSector(upcase_cluster) \in Int /\ HeapSector(FirstFree) \in Int
            BY FixedClusters, HeapSectorType
        <3>. QED BY <2>3, <3>1, <3>2
    <2>5. SectorsInv(metadata')
        BY <1>1, <1>2, <2>3, <2>4, WroteSectors
    <2>6. StoredInv'
        <3>1. \A n \in Node : Stored(n)' => Region(n) \subseteq DOMAIN metadata'
            BY <1>2, <1>3, <2>3 DEF Wrote
        <3>. QED BY <1>1, <1>4, <2>5, <3>1 DEF StoredInv, SectorsInv, Early
    <2>7. ContentsInv'
        <3>. SUFFICES ASSUME NoOverflow
                      PROVE  /\ \A s \in DOMAIN metadata' :
                                   \/ s \in BootSectors \cup UpcaseSectors
                                   \/ \E n \in Node : Stored(n)' /\ s \in Region(n)
                             /\ \A n \in Node : Stored(n)' =>
                                   \A s \in Region(n) :
                                      metadata'[s] = <<"directory", n, s - HeapSector(first_cluster[n])>>
            BY <1>4 DEF ContentsInv
        <3>1. Region(cursor) = a .. a + b - 1
            BY <2>1, <2>3 DEF NoOverflow
        <3>2. \A s \in DOMAIN metadata' :
                 \/ s \in BootSectors \cup UpcaseSectors
                 \/ \E n \in Node : Stored(n)' /\ s \in Region(n)
            BY <1>1, <1>2, <1>3, <1>6, <2>3, <3>1 DEF Wrote, ContentsInv
        <3>3. ASSUME NEW n \in Node, Stored(n)', NEW s \in Region(n)
              PROVE  metadata'[s] = <<"directory", n, s - HeapSector(first_cluster[n])>>
            <4>1. CASE n = cursor
                BY <2>3, <3>1, <3>3, <4>1 DEF Wrote
            <4>2. CASE n # cursor
                <5>1. Stored(n) /\ n \in Existing
                    BY <1>3, <3>3, <4>2 DEF Stored, Dirs
                <5>2. Region(n) \cap Region(cursor) = {}
                    BY <1>1, <2>1, <4>2, <5>1, PlacedNode DEF Dirs
                <5>3. s \in DOMAIN metadata \ (a .. a + b - 1)
                    BY <1>2, <3>1, <3>3, <5>1, <5>2
                <5>4. metadata[s] = <<"directory", n, s - HeapSector(first_cluster[n])>>
                    BY <1>2, <3>3, <5>1 DEF ContentsInv
                <5>. QED BY <2>3, <5>3, <5>4 DEF Wrote
            <4>. QED BY <4>1, <4>2
        <3>. QED BY <3>2, <3>3
    <2>. QED BY <2>6, <2>7
<1>. QED BY <1>5, <1>6

LEMMA PutBuildInv ==
    ASSUME BuildInv, PutBootRegions \/ PutRootAndUpcase \/ PutNode
    PROVE  BuildInv'
<1>1. IInv'
    BY OtherIInv DEF BuildInv
<1>2. UNCHANGED <<treeVars, allocVars>>
    BY DEF PutBootRegions, PutRootAndUpcase, PutNode
<1>3. ShapeInv'
    BY <1>2, ShapeKept DEF BuildInv, treeVars
<1>4. ClustersInv'
    <2>1. \A n \in Node : Placed(n)' => Placed(n)
        BY <1>2 DEF PutBootRegions, PutRootAndUpcase, PutNode, Advance, Placed, Existing, treeVars
    <2>. QED BY <1>2, <2>1, ClustersKept DEF BuildInv, treeVars, allocVars
<1>5. StoredInv' /\ ContentsInv'
    BY BootBuildInv, RootBuildInv, NodeBuildInv
<1>. QED BY <1>1, <1>3, <1>4, <1>5 DEF BuildInv

\* Every step of build keeps the sectors where they belong.
LEMMA StepBuildInv ==
    ASSUME BuildInv, BuildNext \/ UNCHANGED buildVars
    PROVE  BuildInv'
<1>1. CASE UNCHANGED buildVars
    BY <1>1 DEF BuildInv, IInv, AllocTypeOK, LoopInv, RunsDisjoint, FitsImage, Placed, Existing, Run,
       ShapeInv, ClustersInv, StoredInv, SectorsInv, ContentsInv, NoOverflow, Overflowing, Stored, Dirs,
       Region, directory_bytes, directory_cluster_count, buildVars, treeVars, allocVars
<1>2. CASE BuildNext
    BY <1>2, ScanBuildInv, PlaceBuildInv, PutBuildInv DEF BuildNext
<1>. QED BY <1>1, <1>2

=============================================================================

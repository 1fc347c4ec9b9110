---------------------------- MODULE ExfatBuilder ----------------------------
(***************************************************************************)
(* ExfatBuilder.build: scan the configured sources into a tree, give every *)
(* directory and then every file a run of clusters, and store the sectors  *)
(* of the boot regions, of the upcase table and of the directories.        *)
(*                                                                         *)
(* Nodes are numbered in the order of _walk, which is the order in which   *)
(* _scan finds them: a directory, then its children in lexical order.  Of  *)
(* a name only its length in UTF-16 units matters here.  Where the regions *)
(* of the image lie is the result of _geometry (module ExfatGeometry).     *)
(***************************************************************************)
EXTENDS Integers, Sequences

CONSTANTS
    SECTOR_SIZE, SECTORS_PER_CLUSTER, UPCASE_TABLE_BYTES,   \* consts.py
    fat_offset, fat_length, cluster_heap_offset, cluster_count,  \* _geometry
    MaxNodes,      \* bound on the entries of the tree
    NameLengths,   \* UTF-16 units of a name
    FileSizes      \* bytes of a source file

BOOT_REGION_SECTORS == 12
ENTRY_BYTES         == 32
CLUSTER_SIZE_BYTES  == SECTOR_SIZE * SECTORS_PER_CLUSTER
Root                == 0
Node                == 0 .. MaxNodes

CeilDiv(n, d)    == (n + d - 1) \div d
AtLeast(low, n)  == IF n < low THEN low ELSE n
Clusters(bytes)  == AtLeast(1, CeilDiv(bytes, CLUSTER_SIZE_BYTES))

bitmap_cluster  == 2
bitmap_length   == CeilDiv(cluster_count, 8)
bitmap_clusters == Clusters(bitmap_length)
upcase_cluster  == bitmap_cluster + bitmap_clusters
upcase_clusters == Clusters(UPCASE_TABLE_BYTES)
FirstFree       == upcase_cluster + upcase_clusters

ASSUME SizesAssumption ==
    /\ SECTOR_SIZE \in Nat \ {0} /\ SECTOR_SIZE % ENTRY_BYTES = 0
    /\ SECTORS_PER_CLUSTER \in Nat \ {0}
    /\ UPCASE_TABLE_BYTES \in Nat
    /\ MaxNodes \in Nat
    /\ NameLengths \subseteq Nat \ {0}
    /\ FileSizes \subseteq Nat

\* What _geometry returns for every size that config.py accepts, if the image
\* has room for a cluster (HandedOver of module GeometryProofs).  _geometry does
\* not count the two reserved entries of the FAT, so that the last one or two
\* clusters may have no entry.
ASSUME GeometryAssumption ==
    /\ fat_offset \in Nat /\ 2 * BOOT_REGION_SECTORS <= fat_offset
    /\ fat_length \in Nat
    /\ cluster_heap_offset \in Nat /\ fat_offset + fat_length <= cluster_heap_offset
    /\ cluster_count \in Nat /\ cluster_count <= fat_length * (SECTOR_SIZE \div 4)

VARIABLES
    phase,         \* the loop of build that is running
    last,          \* nodes 0 .. last exist
    stack,         \* the directories _scan is in, outermost first
    isDirectory, size,
    counted,       \* entries _directory_cluster_count allows a directory
    encoded,       \* entries _directory_bytes writes for it
    cursor,        \* the node the loop has come to
    next_cluster,
    first_cluster, clusters,   \* the run of a node
    metadata       \* stored sectors; <<kind, node, i>> is sector i of a structure

treeVars  == <<last, stack, isDirectory, size, counted, encoded>>
allocVars == <<next_cluster, first_cluster, clusters>>
buildVars == <<phase, cursor, metadata, treeVars, allocVars>>

Phases == {"scan", "directories", "files", "fit", "boot", "root", "write", "built", "refused"}

BuildTypeOK ==
    /\ phase \in Phases
    /\ last \in Node
    /\ stack \in Seq(Node) /\ stack # <<>>
    /\ isDirectory \in [Node -> BOOLEAN]
    /\ size \in [Node -> Nat]
    /\ counted \in [Node -> Nat] /\ encoded \in [Node -> Nat]
    /\ cursor \in Node
    /\ next_cluster \in Nat
    /\ first_cluster \in [Node -> Nat] /\ clusters \in [Node -> Nat]
    /\ DOMAIN metadata \subseteq Nat

\* The terminator; in the root also label, bitmap and upcase entries.
FixedEntries(n) == IF n = Root THEN 4 ELSE 1

BuildInit ==
    /\ phase = "scan"
    /\ last = Root
    /\ stack = <<Root>>
    /\ isDirectory = [n \in Node |-> n = Root]
    /\ size = [n \in Node |-> 0]
    /\ counted = [n \in Node |-> FixedEntries(n)]
    /\ encoded = [n \in Node |-> FixedEntries(n)]
    /\ cursor = Root
    /\ next_cluster = FirstFree
    /\ first_cluster = [n \in Node |-> 0]
    /\ clusters = [n \in Node |-> 0]
    /\ metadata = [s \in {} |-> <<>>]

-----------------------------------------------------------------------------
(* _build_tree and _scan *)

Parent == stack[Len(stack)]

\* A child's share of the sum in _directory_cluster_count.
CountedFor(units) == 1 + CeilDiv(units, 15)

\* _file_entry_set: file and stream entries, and the name.
EncodedFor(units) == 2 + AtLeast(1, CeilDiv(units, 15))

\* One more child of the directory being scanned.
AppendChild(units) ==
    /\ phase = "scan"
    /\ last < MaxNodes
    /\ last' = last + 1
    /\ counted' = [counted EXCEPT ![Parent] = @ + CountedFor(units)]
    /\ encoded' = [encoded EXCEPT ![Parent] = @ + EncodedFor(units)]
    /\ UNCHANGED <<phase, cursor, metadata, allocVars>>

ScanDirectory(units) ==
    /\ AppendChild(units)
    /\ isDirectory' = [isDirectory EXCEPT ![last + 1] = TRUE]
    /\ stack' = Append(stack, last + 1)
    /\ UNCHANGED size

\* A file whose metadata cannot be read keeps size 0.
ScanFile(units, bytes) ==
    /\ AppendChild(units)
    /\ size' = [size EXCEPT ![last + 1] = bytes]
    /\ UNCHANGED <<isDirectory, stack>>

\* Mutant: leaves the root as well.
LeaveDirectory_PopsRoot ==
    /\ phase = "scan"
    /\ last > Root
    /\ stack' = SubSeq(stack, 1, Len(stack) - 1)
    /\ UNCHANGED <<phase, cursor, metadata, allocVars, last, isDirectory, size, counted, encoded>>

\* The end of a directory, or a directory that cannot be read.
LeaveDirectory ==
    /\ phase = "scan"
    /\ Len(stack) > 1
    /\ stack' = SubSeq(stack, 1, Len(stack) - 1)
    /\ UNCHANGED <<phase, cursor, metadata, allocVars, last, isDirectory, size, counted, encoded>>

\* A configuration has at least one entry.
TreeScanned ==
    /\ phase = "scan"
    /\ Len(stack) = 1
    /\ last > Root
    /\ phase' = "directories"
    /\ UNCHANGED <<cursor, metadata, allocVars, treeVars>>

-----------------------------------------------------------------------------
(* The two allocation loops of build *)

\* The loop goes on to the next node, or the next loop starts.
Advance(following) ==
    IF cursor = last THEN phase' = following /\ cursor' = Root
                     ELSE cursor' = cursor + 1 /\ UNCHANGED phase

\* Mutant: the next node starts inside this one.
Take_OneShort(count) ==
    /\ first_cluster' = [first_cluster EXCEPT ![cursor] = next_cluster]
    /\ clusters' = [clusters EXCEPT ![cursor] = count]
    /\ next_cluster' = next_cluster + AtLeast(1, count - 1)

\* The node under the cursor gets the next free clusters.
Take(count) ==
    /\ first_cluster' = [first_cluster EXCEPT ![cursor] = next_cluster]
    /\ clusters' = [clusters EXCEPT ![cursor] = count]
    /\ next_cluster' = next_cluster + count

directory_cluster_count(n) == Clusters(counted[n] * ENTRY_BYTES)

PlaceDirectory ==
    /\ phase = "directories"
    /\ isDirectory[cursor]
    /\ Take(directory_cluster_count(cursor))
    /\ Advance("files")
    /\ UNCHANGED <<metadata, treeVars>>

PlaceFile ==
    /\ phase = "files"
    /\ ~isDirectory[cursor]
    /\ Take(Clusters(size[cursor]))
    /\ Advance("fit")
    /\ UNCHANGED <<metadata, treeVars>>

\* A file in the first loop, a directory in the second.
PassOver ==
    /\ \/ phase = "directories" /\ ~isDirectory[cursor] /\ Advance("files")
       \/ phase = "files" /\ isDirectory[cursor] /\ Advance("fit")
    /\ UNCHANGED <<metadata, treeVars, allocVars>>

\* Mutant: forgets that cluster numbers start at 2.
FitsImage_OffByTwo == next_cluster - 4 <= cluster_count

\* The image must hold the clusters 2 .. next_cluster - 1.
FitsImage == next_cluster - 2 <= cluster_count

CheckFit ==
    /\ phase = "fit"
    /\ phase' = IF FitsImage THEN "boot" ELSE "refused"
    /\ UNCHANGED <<cursor, metadata, treeVars, allocVars>>

-----------------------------------------------------------------------------
(* Storing the structures *)

HeapSector(cluster) == cluster_heap_offset + (cluster - 2) * SECTORS_PER_CLUSTER

\* _put_sectors: count sectors of a structure, replacing what was there.
PutSectors(stored, start, count, kind, n) ==
    [s \in DOMAIN stored \cup (start .. start + count - 1) |->
        IF s \in start .. start + count - 1 THEN <<kind, n, s - start>> ELSE stored[s]]

\* _put_cluster_bytes
PutClusterBytes(stored, cluster, bytes, kind, n) ==
    PutSectors(stored, HeapSector(cluster), AtLeast(1, CeilDiv(bytes, SECTOR_SIZE)), kind, n)

\* The entries of a directory, padded to whole clusters.
directory_bytes(n) == CeilDiv(encoded[n] * ENTRY_BYTES, CLUSTER_SIZE_BYTES) * CLUSTER_SIZE_BYTES

PutDirectory(stored, n) ==
    PutClusterBytes(stored, first_cluster[n], directory_bytes(n), "directory", n)

\* The primary and the backup boot region are the same twelve sectors.
PutBootRegions ==
    /\ phase = "boot"
    /\ metadata' = PutSectors(PutSectors(metadata, 0, BOOT_REGION_SECTORS, "boot", Root),
                              BOOT_REGION_SECTORS, BOOT_REGION_SECTORS, "boot", Root)
    /\ phase' = "root"
    /\ UNCHANGED <<cursor, treeVars, allocVars>>

PutRootAndUpcase ==
    /\ phase = "root"
    /\ metadata' = PutClusterBytes(PutDirectory(metadata, Root),
                                   upcase_cluster, UPCASE_TABLE_BYTES, "upcase", Root)
    /\ phase' = "write"
    /\ cursor' = 1
    /\ UNCHANGED <<treeVars, allocVars>>

\* The directories below the root, in the order of _walk.
PutNode ==
    /\ phase = "write"
    /\ metadata' = IF isDirectory[cursor] THEN PutDirectory(metadata, cursor) ELSE metadata
    /\ Advance("built")
    /\ UNCHANGED <<treeVars, allocVars>>

BuildNext ==
    \/ \E units \in NameLengths :
          \/ ScanDirectory(units)
          \/ \E bytes \in FileSizes : ScanFile(units, bytes)
    \/ LeaveDirectory
    \/ TreeScanned
    \/ PlaceDirectory
    \/ PlaceFile
    \/ PassOver
    \/ CheckFit
    \/ PutBootRegions
    \/ PutRootAndUpcase
    \/ PutNode

BuildSpec == BuildInit /\ [][BuildNext]_buildVars

-----------------------------------------------------------------------------
(* What build promises *)

Existing == {n \in Node : n <= last}
Files    == {n \in Existing : ~isDirectory[n]}
Dirs     == {n \in Existing : isDirectory[n]}

\* The clusters of a node.
Run(n) == first_cluster[n] .. first_cluster[n] + clusters[n] - 1

\* The loops of build have given the node its clusters.
Placed(n) ==
    /\ n \in Existing
    /\ \/ phase \notin {"scan", "directories", "files"}
       \/ phase = "files" /\ (isDirectory[n] \/ n < cursor)
       \/ phase = "directories" /\ isDirectory[n] /\ n < cursor

\* No cluster belongs to two nodes, or to a node and to the bitmap or the
\* upcase table, at any point of the two allocation loops of build.
RunsDisjoint ==
    /\ \A m, n \in Existing : Placed(m) /\ Placed(n) /\ m # n => Run(m) \cap Run(n) = {}
    /\ \A n \in Existing : Placed(n) => Run(n) # {} /\ Run(n) \subseteq FirstFree .. next_cluster - 1

\* The clusters of a finished layout are clusters of the image.
RunsInImage == phase = "built" => \A n \in Existing : Run(n) \subseteq 2 .. cluster_count + 1

=============================================================================

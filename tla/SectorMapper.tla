---------------------------- MODULE SectorMapper ----------------------------
(***************************************************************************)
(* SectorMapper: what the export serves at every sector of a built layout. *)
(* Stored metadata wins, then the FAT and the bitmap are generated from    *)
(* the allocated runs, then files are read from their sources, and all     *)
(* else is zero.  read and extents are loops over the sectors of a request *)
(* (nbdkit serializes requests, so one is in progress at a time).  A       *)
(* source may change its size at any time after the scan, between two      *)
(* sectors of a read as well.                                              *)
(***************************************************************************)
EXTENDS ExfatBuilder, FiniteSets

CONSTANTS
    Requests,      \* <<offset, length>> in bytes
    NewSizes,      \* what a source may be resized to after the scan
    MaxResizes     \* bound on the states of the sources that a read can meet

\* nbdkit passes unsigned numbers, and a file has no negative size.
ASSUME RequestsAssumption ==
    Requests \subseteq Nat \X Nat /\ NewSizes \subseteq Nat /\ MaxResizes \in Nat

VARIABLES
    source,        \* bytes of the source of a file, now
    call,          \* the request in progress or its outcome
    offset, length, at,   \* the request and the cursor in it
    out,           \* bytes read so far
    run,           \* the open extent <<start, is_zero>>, or <<>>
    extents,       \* the closed ones, <<start, length, is_zero>>
    had            \* history: what source has been since the read began

callVars == <<call, offset, length, at, out, run, extents, had>>
vars     == <<buildVars, source, callVars>>

\* The image ends with its last cluster (a shorter rest would read as zeros).
total_bytes == (cluster_heap_offset + cluster_count * SECTORS_PER_CLUSTER) * SECTOR_SIZE

EOC           == -1   \* 0xFFFFFFFF
FirstReserved == -8   \* 0xFFFFFFF8
Zero          == <<"zero", 0, 0>>

Smaller(m, n) == IF m < n THEN m ELSE n

-----------------------------------------------------------------------------
(* Generated metadata *)

\* _allocated_ranges: <<start, count>> of everything that owns clusters.
allocated_ranges ==
    {<<bitmap_cluster, bitmap_clusters>>, <<upcase_cluster, upcase_clusters>>}
    \cup {<<first_cluster[n], clusters[n]>> : n \in Existing}

Holds(range, cluster) == range[1] <= cluster /\ cluster < range[1] + range[2]

\* Mutant: the last cluster of a run points to the next one.
FatEntry_NoEnd(cluster) ==
    LET holders == {r \in allocated_ranges : Holds(r, cluster)}
    IN  IF cluster = 0 THEN FirstReserved
        ELSE IF cluster = 1 THEN EOC
        ELSE IF holders = {} THEN 0 ELSE cluster + 1

\* _fat_sector decides every entry from the first run that holds the cluster.
FatEntry(cluster) ==
    LET holders == {r \in allocated_ranges : Holds(r, cluster)}
        holder  == CHOOSE r \in holders : \A q \in holders : r[1] <= q[1]
    IN  IF cluster = 0 THEN FirstReserved
        ELSE IF cluster = 1 THEN EOC
        ELSE IF holders = {} THEN 0
        ELSE IF cluster = holder[1] + holder[2] - 1 THEN EOC ELSE cluster + 1

EntriesPerSector == SECTOR_SIZE \div 4

fat_sector(index) ==
    [i \in 0 .. EntriesPerSector - 1 |-> FatEntry(index * EntriesPerSector + i)]

\* Mutant: bit 0 taken for cluster 0.
bitmap_sector_FromZero(index) ==
    LET base == index * SECTOR_SIZE * 8
    IN  [bit \in 0 .. SECTOR_SIZE * 8 - 1 |-> \E r \in allocated_ranges : Holds(r, base + bit)]

\* The bits of the sector that _bitmap_sector generates.
bitmap_sector(index) ==
    LET base == 2 + index * SECTOR_SIZE * 8
    IN  [bit \in 0 .. SECTOR_SIZE * 8 - 1 |-> \E r \in allocated_ranges : Holds(r, base + bit)]

InFat(sector) == fat_offset <= sector /\ sector < fat_offset + fat_length

BitmapStart == HeapSector(bitmap_cluster)

InBitmap(sector) ==
    BitmapStart <= sector /\ sector < BitmapStart + CeilDiv(bitmap_length, SECTOR_SIZE)

-----------------------------------------------------------------------------
(* map: a sector is <<kind, node, index>>; for the FAT and the bitmap the   *)
(* index says which sector is generated, for a file where its source is     *)
(* read, in bytes.                                                          *)

IsMetadata(sector) == sector \in DOMAIN metadata \/ InFat(sector) \/ InBitmap(sector)

MetadataSector(sector) ==
    IF sector \in DOMAIN metadata THEN metadata[sector]
    ELSE IF InFat(sector) THEN <<"fat", 0, sector - fat_offset>>
    ELSE <<"bitmap", 0, sector - BitmapStart>>

\* The file whose clusters contain the sector, the first of file_mappings.
FilesAt(sector) ==
    {n \in Files : /\ HeapSector(first_cluster[n]) <= sector
                   /\ sector < HeapSector(first_cluster[n]) + clusters[n] * SECTORS_PER_CLUSTER}

Map(sector) ==
    LET file == CHOOSE n \in FilesAt(sector) : \A m \in FilesAt(sector) : n <= m
    IN  IF IsMetadata(sector) THEN MetadataSector(sector)
        ELSE IF FilesAt(sector) # {}
             THEN <<"file", file, (sector - HeapSector(first_cluster[file])) * SECTOR_SIZE>>
        ELSE Zero

-----------------------------------------------------------------------------

TypeOK ==
    /\ BuildTypeOK
    /\ source \in [Node -> Nat]
    /\ call \in {"idle", "read", "extents", "read_done", "extents_done", "error"}
    /\ offset \in Nat /\ length \in Nat /\ at \in Nat

Init ==
    /\ BuildInit
    /\ source = size
    /\ call = "idle"
    /\ offset = 0 /\ length = 0 /\ at = 0
    /\ out = <<>> /\ run = <<>> /\ extents = <<>>
    /\ had = {}

Build == BuildNext /\ source' = size' /\ UNCHANGED callVars

\* Someone writes to the share (extents reads no source).
Resize(n, bytes) ==
    /\ phase = "built" /\ call \in {"idle", "read"}
    /\ n \in Files
    /\ source' = [source EXCEPT ![n] = bytes]
    /\ had' = IF call = "read" THEN had \cup {source'} ELSE had
    /\ Cardinality(had') <= MaxResizes + 1
    /\ UNCHANGED <<buildVars, call, offset, length, at, out, run, extents>>

-----------------------------------------------------------------------------
(* read *)

\* pread of the plugin and read of the mapper refuse the same requests.
BeginRead(o, l) ==
    /\ phase = "built" /\ call = "idle"
    /\ offset' = o /\ length' = l /\ at' = 0
    /\ call' = IF o + l > total_bytes THEN "error" ELSE "read"
    /\ had' = {source}
    /\ UNCHANGED <<buildVars, source, out, run, extents>>

\* Mutant: a piece that ignores where it starts in its sector.
PieceLength_WholeSector(within) == Smaller(length - at, SECTOR_SIZE)

\* The rest of the sector, or of the request.
PieceLength(within) == Smaller(length - at, SECTOR_SIZE - within)

\* Byte i of a sector that maps to m, with sources of these sizes.  One that
\* has become shorter gives a short pread, which the code fills with zeros.
ByteOf(m, i, sizes) ==
    IF m[1] = "zero" THEN Zero
    ELSE IF m[1] # "file" THEN <<m[1], m[2], m[3] * SECTOR_SIZE + i>>
    ELSE IF m[3] + i < sizes[m[2]] THEN <<"file", m[2], m[3] + i>> ELSE Zero

ReadPiece ==
    /\ call = "read"
    /\ at < length
    /\ LET absolute == offset + at
           within   == absolute % SECTOR_SIZE
           m        == Map(absolute \div SECTOR_SIZE)
           count    == PieceLength(within)
       IN  /\ out' = out \o [i \in 1 .. count |-> ByteOf(m, within + i - 1, source)]
           /\ at' = at + count
    /\ UNCHANGED <<buildVars, source, call, offset, length, run, extents, had>>

\* os.open or os.pread of a source fails: the plugin reports EIO.
ReadFails ==
    /\ call = "read"
    /\ at < length
    /\ Map((offset + at) \div SECTOR_SIZE)[1] = "file"
    /\ call' = "error"
    /\ UNCHANGED <<buildVars, source, offset, length, at, out, run, extents, had>>

EndRead ==
    /\ call = "read"
    /\ at >= length
    /\ call' = "read_done"
    /\ UNCHANGED <<buildVars, source, offset, length, at, out, run, extents, had>>

-----------------------------------------------------------------------------
(* extents *)

IsZero(byte) == Map(byte \div SECTOR_SIZE)[1] = "zero"

\* The end of the request, rounded up to a sector and cut at the image.
ExtentsEnd == Smaller(total_bytes, CeilDiv(offset + length, SECTOR_SIZE) * SECTOR_SIZE)

BeginExtents(o, l) ==
    /\ phase = "built" /\ call = "idle"
    /\ offset' = o /\ length' = l
    /\ at' = o - (o % SECTOR_SIZE)
    /\ call' = IF l <= 0 THEN "extents_done" ELSE "extents"
    /\ UNCHANGED <<buildVars, source, out, run, extents, had>>

OpenRun ==
    /\ call = "extents" /\ run = <<>> /\ at < ExtentsEnd
    /\ run' = <<at, IsZero(at)>>
    /\ at' = at + SECTOR_SIZE
    /\ UNCHANGED <<buildVars, source, call, offset, length, out, extents, had>>

\* Mutant: looks one sector back.
Continues_Late == at < ExtentsEnd /\ IsZero(at - SECTOR_SIZE) = run[2]

\* The next sector belongs to the open extent.
Continues == at < ExtentsEnd /\ IsZero(at) = run[2]

GrowRun ==
    /\ call = "extents" /\ run # <<>> /\ Continues
    /\ at' = at + SECTOR_SIZE
    /\ UNCHANGED <<buildVars, source, call, offset, length, out, run, extents, had>>

CloseRun ==
    /\ call = "extents" /\ run # <<>> /\ ~Continues
    /\ extents' = Append(extents, <<run[1], at - run[1], run[2]>>)
    /\ run' = <<>>
    /\ UNCHANGED <<buildVars, source, call, offset, length, at, out, had>>

EndExtents ==
    /\ call = "extents" /\ run = <<>> /\ at >= ExtentsEnd
    /\ call' = "extents_done"
    /\ UNCHANGED <<buildVars, source, offset, length, at, out, run, extents, had>>

\* map opens the source of the next sector, and os.open fails.
ExtentsFail ==
    /\ call = "extents" /\ at < ExtentsEnd
    /\ Map(at \div SECTOR_SIZE)[1] = "file"
    /\ call' = "error"
    /\ UNCHANGED <<buildVars, source, offset, length, at, out, run, extents, had>>

\* The buffers of a request are gone when the next one arrives.
Answered ==
    /\ call \in {"read_done", "extents_done", "error"}
    /\ call' = "idle"
    /\ offset' = 0 /\ length' = 0 /\ at' = 0
    /\ out' = <<>> /\ run' = <<>> /\ extents' = <<>> /\ had' = {}
    /\ UNCHANGED <<buildVars, source>>

Next ==
    \/ Build
    \/ \E n \in Node, bytes \in NewSizes : Resize(n, bytes)
    \/ \E r \in Requests : BeginRead(r[1], r[2]) \/ BeginExtents(r[1], r[2])
    \/ ReadPiece \/ ReadFails \/ EndRead
    \/ OpenRun \/ GrowRun \/ CloseRun \/ EndExtents \/ ExtentsFail
    \/ Answered

Spec == Init /\ [][Next]_vars

=============================================================================

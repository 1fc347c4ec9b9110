-------------------------- MODULE VolumeProperties --------------------------
(***************************************************************************)
(* What the console relies on when it reads the image: the properties that *)
(* relate the layout of ExfatBuilder to what SectorMapper serves.          *)
(***************************************************************************)
EXTENDS SectorMapper

Built == phase = "built"

\* A directory whose encoding is longer than the clusters it was given.
Overflowing(n) == directory_bytes(n) > clusters[n] * CLUSTER_SIZE_BYTES

NoOverflow == \A n \in Dirs : ~Overflowing(n)

\* _geometry does not count the two reserved entries: for an image_size_bytes
\* just above what a FAT of its length describes, the last one or two clusters
\* have no entry.  Never for a whole number of GiB (WholeGiBFatComplete).
FatShort == fat_length * EntriesPerSector < cluster_count + 2

HasEntry(cluster) == cluster < fat_length * EntriesPerSector

\* What a driver reads from the FAT and the bitmap on the device; Map decides
\* whether these sectors are served as such.
FatOnDevice(cluster) ==
    LET m == Map(fat_offset + cluster \div EntriesPerSector)
    IN  IF m[1] = "fat" THEN fat_sector(m[3])[cluster % EntriesPerSector] ELSE 0

InUseOnDevice(cluster) ==
    LET bit == cluster - 2
        m   == Map(BitmapStart + bit \div (SECTOR_SIZE * 8))
    IN  m[1] = "bitmap" /\ bitmap_sector(m[3])[bit % (SECTOR_SIZE * 8)]

\* Following the FAT on the device from the first cluster of a directory entry
\* visits exactly the clusters build gave that file or directory, and ends; but
\* with a short FAT the last two clusters of the image may be missing from it.
ChainsComplete ==
    Built => \A n \in Existing : \A c \in Run(n) :
                IF HasEntry(c)
                THEN FatOnDevice(c) = IF c + 1 \in Run(n) THEN c + 1 ELSE EOC
                ELSE FatShort /\ c >= cluster_count

\* The allocation bitmap says what is allocated on every cluster of the image,
\* and the FAT, generated by different code from the same runs, agrees on every
\* cluster that it has an entry for.
BitmapMatchesFat ==
    Built => \A c \in 2 .. cluster_count + 1 :
                /\ InUseOnDevice(c) <=> \E r \in allocated_ranges : Holds(r, c)
                /\ HasEntry(c) => (InUseOnDevice(c) <=> FatOnDevice(c) # 0)

\* What the image holds at a byte, from the tree alone, when the sources have
\* these sizes: every byte of a node's clusters is that node's, and a source is
\* followed by zeros.
Owned(n, byte, sizes) ==
    LET index == byte - HeapSector(first_cluster[n]) * SECTOR_SIZE
    IN  IF isDirectory[n] THEN <<"directory", n, index>>
        ELSE IF index < sizes[n] THEN <<"file", n, index>> ELSE Zero

Cluster(byte) == (byte \div SECTOR_SIZE - cluster_heap_offset) \div SECTORS_PER_CLUSTER + 2

\* Neither a node's nor metadata.
Hole(byte) ==
    /\ \A n \in Existing : Cluster(byte) \notin Run(n)
    /\ ~IsMetadata(byte \div SECTOR_SIZE)

\* read returns, byte for byte, what the tree says, for requests that start
\* and end anywhere in a sector: of a source, what its size at some moment of
\* the read allows; of the FAT and the bitmap, their own bytes in order; and
\* zeros where nobody has anything.
ReadsTree ==
    call = "read_done" /\ NoOverflow =>
        /\ Len(out) = length
        /\ \A i \in 1 .. length :
              LET byte   == offset + i - 1
                  sector == byte \div SECTOR_SIZE
              IN  /\ \A n \in Existing : Cluster(byte) \in Run(n) =>
                        \E sizes \in had : out[i] = Owned(n, byte, sizes)
                  /\ InFat(sector) => out[i] = <<"fat", 0, byte - fat_offset * SECTOR_SIZE>>
                  /\ InBitmap(sector) => out[i] = <<"bitmap", 0, byte - BitmapStart * SECTOR_SIZE>>
                  /\ Hole(byte) => out[i] = Zero

\* extents reports contiguous extents from the sector of the offset to the end
\* of the request, maximal ones, and a hole only where every byte reads zero.
ExtentsExact ==
    call = "extents_done" /\ length > 0 /\ offset < total_bytes =>
        /\ extents # <<>>
        /\ extents[1][1] = offset - (offset % SECTOR_SIZE)
        /\ extents[Len(extents)][1] + extents[Len(extents)][2] = ExtentsEnd
        /\ \A i \in 1 .. Len(extents) - 1 :
              /\ extents[i + 1][1] = extents[i][1] + extents[i][2]
              /\ extents[i + 1][3] # extents[i][3]
        /\ \A i \in 1 .. Len(extents) : \A k \in 0 .. extents[i][2] \div SECTOR_SIZE - 1 :
              extents[i][3] <=> Hole(extents[i][1] + k * SECTOR_SIZE)

\* "Contiguous cluster range backed by one source file"
\* (exfat_builder.py:191): every sector of a mapping is served from its file.
MappingsBacked ==
    Built => \A n \in Files : \A c \in Run(n) : \A k \in 0 .. SECTORS_PER_CLUSTER - 1 :
                LET m == Map(HeapSector(c) + k) IN m[1] = "file" /\ m[2] = n

=============================================================================

----------------------------- MODULE MCGeometry -----------------------------
EXTENDS ExfatGeometry

\* Around n full clusters of FAT, n * 32768 clusters: the sizes at which the
\* FAT grows and, for n a multiple of 8, the sizes at which the heap moves.
Boundary(n) == FAT_OFFSET + n * 32768 * SECTORS_PER_CLUSTER
               + RoundUp(n * SECTORS_PER_CLUSTER, CLUSTER_HEAP_ALIGNMENT_SECTORS)

\* TLC's integers end at 1023 GiB.
MCImages ==
    {g * SectorsPerGiB : g \in 1 .. 1023}
    \cup UNION {{Boundary(n) + 128 * k : k \in -6 .. 24} : n \in {1, 7, 8, 9, 16, 64, 80}}
    \cup {25, 4096, 4351, 4352, 488570880}
=============================================================================

\* Requests that start and end inside, at and across sectors, clusters and
\* regions, on every tree of up to two entries, with sources that change.
SPECIFICATION Spec
CONSTANTS
    SECTOR_SIZE = 64
    SECTORS_PER_CLUSTER = 8
    UPCASE_TABLE_BYTES = 512
    fat_offset = 24
    fat_length = 2
    cluster_heap_offset = 26
    cluster_count = 8
    MaxNodes = 2
    NameLengths = {1}
    FileSizes = {65, 513}
    NewSizes = {0, 600}
    MaxResizes = 1
    Offsets = {100, 1535, 1727, 3199, 3711, 5700, 5760}
    Lengths = {0, 1, 150, 540}
    Requests <- MCRequests
INVARIANTS ReadsTree ExtentsExact
CHECK_DEADLOCK FALSE

\* Every tree of up to four entries and every prefetch policy.  Sectors hold one
\* directory entry, clusters four sectors; the FAT has three sectors, so that the
\* entries of a directory may lie in the middle one, and 24 entries for the
\* clusters 2 .. 24: the last has none.  build returns or refuses.
SPECIFICATION HotSpec
CONSTANTS
    SECTOR_SIZE = 32
    SECTORS_PER_CLUSTER = 4
    UPCASE_TABLE_BYTES = 384
    fat_offset = 25
    fat_length = 3
    cluster_heap_offset = 30
    cluster_count = 23
    MaxNodes = 4
    NameLengths = {1, 16}
    FileSizes = {0, 640}
    NewSizes = {}
    MaxResizes = 0
    Requests = {}
    MAX_METADATA_PREFETCH_BYTES = 96
INVARIANTS TypeOK RunsDisjoint RunsInImage ChainsComplete BitmapMatchesFat HotBounded HotExact
CHECK_DEADLOCK FALSE

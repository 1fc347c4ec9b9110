\* exfat_builder.py: a mapping is backed by one source file. Trees of up to three entries.
SPECIFICATION Spec
CONSTANTS
    SECTOR_SIZE = 64
    SECTORS_PER_CLUSTER = 2
    UPCASE_TABLE_BYTES = 128
    fat_offset = 24
    fat_length = 2
    cluster_heap_offset = 26
    cluster_count = 18
    MaxNodes = 3
    NameLengths = {1, 16}
    FileSizes = {0, 129, 640}
    NewSizes = {}
    MaxResizes = 0
    Offsets = {}
    Lengths = {}
    Requests <- MCRequests
INVARIANT MappingsBacked
CHECK_DEADLOCK FALSE

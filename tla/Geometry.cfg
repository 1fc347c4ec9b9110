\* Every size in GiB that fits TLC's integers, and the sizes at which the
\* FAT grows.  _geometry returns.
SPECIFICATION Spec
CONSTANT Images <- MCImages
INVARIANTS TypeOK FatBeforeHeap WholeGiBFatComplete
CHECK_DEADLOCK FALSE

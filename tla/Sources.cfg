\* One mount point for which sources name different shares, two compilations at
\* a time, the kernel's connection and one of nbdsh, two files.
SPECIFICATION Spec
CONSTANTS
    m1 = m1
    nfs1 = nfs1
    nfs2 = nfs2
    t1 = t1
    t2 = t2
    kernel = kernel
    nbdsh = nbdsh
    p = p
    q = q
    Points = {m1}
    Shares = {nfs1, nfs2}
    Compilers = {t1, t2}
    Conns = {kernel, nbdsh}
    Paths = {p, q}
    Fds = {1, 2}
    Empty = Empty
    NoFile = NoFile
    PointOf <- MCPointOf
    Respelled = {}
    MaxSources = 1
    MaxMounts = 3
    MaxMisread = 2
    MaxSectors = 1
SYMMETRY Symmetry
INVARIANTS TypeOK StackBounded SharesKept ReadsOwnFile CacheExact

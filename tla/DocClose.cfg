\* specs/07-config-system.md: keeping descriptors open is safe.  A connection ends
\* while another one reads.
SPECIFICATION Spec
CONSTANTS
    m1 = m1
    nfs1 = nfs1
    nfs2 = nfs2
    t1 = t1
    t2 = t2
    kernel = kernel
    nbdsh = nbdsh
    p = p
    q = q
    Points = {m1}
    Shares = {nfs1, nfs2}
    Compilers = {t1}
    Conns = {kernel, nbdsh}
    Paths = {p, q}
    Fds = {1, 2}
    Empty = Empty
    NoFile = NoFile
    PointOf <- MCPointOf
    Respelled = {}
    MaxSources = 1
    MaxMounts = 3
    MaxMisread = 2
    MaxSectors = 1
INVARIANT ReadsNoOtherFile

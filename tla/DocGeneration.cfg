\* specs/08: a generation is an immutable snapshot.
SPECIFICATION Spec
CONSTANTS
    r1 = r1
    r2 = r2
    main = main
    c1 = c1
    c2 = c2
    NoCfg = NoCfg
    Free = Free
    NoWorker = NoWorker
    Configs <- MCConfigs
    Requests <- MCRequests
    Procs <- MCProcs
    Main <- main
    PrefetchOn <- MCConfigs
    MaxGen = 3
    MaxRestarts = 0
    MaxLater = 1
    MaxPasses = 1
    Ops = {"compile"}
PROPERTY GenerationImmutable

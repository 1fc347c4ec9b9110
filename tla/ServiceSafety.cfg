\* Every endpoint that changes state.
SPECIFICATION Spec
CONSTANTS
    r1 = r1
    r2 = r2
    main = main
    c1 = c1
    c2 = c2
    NoCfg = NoCfg
    Free = Free
    NoWorker = NoWorker
    Configs <- MCConfigs
    Requests <- MCRequests
    Procs <- MCProcs
    Main <- main
    PrefetchOn <- MCConfigs
    MaxGen = 2
    MaxRestarts = 1
    MaxLater = 1
    MaxPasses = 1
    Ops = {"compile", "activate", "replace", "eject"}
SYMMETRY Symmetry
INVARIANTS TypeOK OneCutover NoLockLeak PassesCounted NoOrphanWorker RunningServes
PROPERTIES ActiveSwap BoundOverDevice ImplementsGenerations

\* Liveness: activations of the startup generation and shutdown.
SPECIFICATION FairSpec
CONSTANTS
    r1 = r1
    r2 = r2
    main = main
    c1 = c1
    c2 = c2
    NoCfg = NoCfg
    Free = Free
    NoWorker = NoWorker
    Configs = {c1}
    Requests <- MCRequests
    Procs <- MCProcs
    Main <- main
    PrefetchOn = {c1}
    MaxGen = 1
    MaxRestarts = 0
    MaxLater = 1
    MaxPasses = 1
    Ops = {"activate"}
PROPERTIES Answered StopObeyed

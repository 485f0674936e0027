SPECIFICATION Spec
CONSTANTS
    Part = {"barrier", "ring", "pace", "fd", "mmap"}
    Threads <- ThreeThreads
    MaxRounds = 3
    Size = 4
    Word = 16
    MaxItems = 9
    Workers <- ThreeWorkers
    Due <- ShortGaps
    MaxSleep = 3
    Horizon = 6
    Buckets = 4
    StackMax = 2
    CapFds <- SmallFds
    MaxOpen = 3
    Pids <- Procs
    Calls <- FourCalls
    PidOf <- Owners
    SlotOf <- Collide
    AddrOf <- OwnAddrs
    PendingSize = 2
    MapSize = 1
    None = None
INVARIANTS
    BarrierInv
    RingInv
    PacedInv
    DescriptorsResolve
    MappingsStayOwn
PROPERTIES
    ReleaseOnlyWhenAllArrived
    SkewIsPermanent
    EveryWaitReturns
    ImplementsQueue
CHECK_DEADLOCK FALSE

SPECIFICATION Spec
CONSTANTS
    Part = {"mmap"}
    Threads <- ThreeThreads
    MaxRounds = 3
    Size = 4
    Word = 16
    MaxItems = 9
    Workers <- ThreeWorkers
    Due <- ShortGaps
    MaxSleep = 3
    Horizon = 6
    Buckets = 4
    StackMax = 2
    CapFds <- SmallFds
    MaxOpen = 3
    Pids <- Procs
    Calls <- FourCalls
    PidOf <- Owners
    SlotOf <- Apart
    AddrOf <- SameAddrs
    PendingSize = 4
    MapSize = 2
    None = None
INVARIANT UnmapsOwnMapping
CHECK_DEADLOCK FALSE

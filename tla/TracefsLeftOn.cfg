SPECIFICATION Spec
CONSTANTS
    Part = {"ftrace"}
    t1 = t1
    t2 = t2
    Tasks <- MCTasks
    TgidOf <- OneProcess
    Nrs <- MCNrs
    MaxCalls <- TwoAndOne
    MaxEntries = 2
    RingRecords = 2
    FirstMax = 2
    HardMax = 4
    LogPids = {1, 2}
    LogFds = {3}
    Precapture = {2}
    Lookahead = 3
    Overtakes = 2
    MaxLog = 6
    MaxOpening = 2
    None = None
    NoCommand = NoCommand
    TracedDevice <- MCDisk
    PartitionsOf <- MCPartitions
    Extents <- MCBlockExtents
    NvmeKeys <- MCNvmeKeys
    Commands <- MCNvmeCommands
    OtherDisk = 11
    Settings <- MCSettings
    Brokens <- MCBrokens
    Unreadables <- MCUnreadables
    LogicalBlockSize = 4096
    SectorBytes = 512
    ZoneSecs = 8
    NLba = 2
    MaxPending = 1
    PendingTimeout = 1
    PruneEvery = 2
    MaxSamples = 1
    MaxLines = 3
    MaxBlockLines = 2
    MaxTime = 3
    NoTime = NoTime
    BlkExtents <- MCExtents
    MaxRequests = 2
    MaxBlkLines = 5
    MaxTick = 3
    LbaBins = 4
    TimeBucket = 2
    IuSectors = 2
    NpwgSectors = 3
    AwunSectors = 4
    Outlier = 8
    MaxPlotEvents = 2
    MaxQdSamples = 2
    LiveDuration = 3
    MaxDiskIos = 3
    MaxReplugs = 1
    NoFile = NoFile
    ObsPids = {1, 2, 3}
    f1 = f1
    f2 = f2
    ObsFiles = {f1, f2}
    Stdin = f2
    SameBase = {}
    NamedIn <- MCNamedIn
    MapAddrs = {1}
    TraceModes = {"pid", "comm"}
    FollowForks = TRUE
    MaxProcSteps = 3
    MaxRounds = 1
INVARIANT RestoredOnExit
CHECK_DEADLOCK FALSE

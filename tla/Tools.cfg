SPECIFICATION Spec
CONSTANTS
  None = None
  Targets <- MCTargets
  Cases <- MCCases
  Profiles <- MCProfilesOf
  Reported <- MCReported
  Regions = {9000, 20000, 30000, 40000}
  Reps = 2
  MaxSectorsKb = 64
  Hugepage = 4096
  CalibratedBs = 0
  Before <- MCBefore
  MaxSignals = 2
  CommandLines <- MCLines
  Slots = 6
  MaxIoErrors = 1
  b1 = b1
  b2 = b2
  Builders = {b1, b2}
  Inputs <- MCInputs
  Replacements <- MCReplacements
  MaxVerifies = 2
  NoRun = NoRun
  DevCommands <- MCDevCommands
  CmdKeys = {1, 2}
  TickNs = 1600
  LbaBytes = 2
  MaxDevEvents = 2
  MaxRunEvents = 4
  MaxFaults = 2
  MaxCrashes = 1
  Objects <- MCObjects
  HeaderBytes = 2
  BlockAlign = 2
  Producers = {1, 2}
  SlackNs = 1
  NominalNs = 3
  FlagLba = 1
  DeviceLba = 2
  MaxJoinOps = 2
  MaxJoinCmds = 3
  MaxJoinTicks = 2
  MaxOddities = 1
  QdMinCmds = 2
  SuspiciousGap = 2
  BatchGapNs = 1
  MaxXfer = 4
  SemTraces <- MCSemTraces
  RecHeader = 2
  RecAlign = 4
  RecUnit = 8
  Warmup = 1
  Iters = 2
  OpTimeout = 4
  DogLag = 1
  RecSlots = 4
  RotatingKeys = 2
  MaxRecClock = 9
INVARIANTS
  BenchIsSafe
  DriverIsTrue
  PassedAsBuilt
  ReplayIsJudged
  LogsAreUsable
CHECK_DEADLOCK FALSE

SPECIFICATION Spec
CONSTANTS
  Part = {"lmcache", "posix", "s3", "plan", "documents", "sizes"}
  None = None
  c1 = c1
  c2 = c2
  k1 = k1
  Callers = {c1, c2}
  Keys = {k1}
  LiveAtStart = {k1}
  Bytes <- MCBytes
  QueueCapacity = 2
  MaxCalls = 3
  MaxOverlapping = 2
  Unwritable = {6}
  FailingCalls = {3}
  PosixCalls <- MCPosixCalls
  Files <- MCFiles
  Dirs <- MCDirs
  MaxPosixCalls = 4
  S3Calls <- MCS3Calls
  Stored <- MCStored
  MaxS3Calls = 4
  MaxTimeouts = 2
  Prompts <- MCPrompts
  Rounds <- MCRounds
  ChunkTokens = 2
  Capacities = {0, 2, 3}
  MaxRequests = 4
  Ranks = 2
  MaxServed = 2
  Slots = 6
  Sizes <- MCSized
  Dimensions <- MCDims
  LimitSets <- MCLimits
INVARIANTS
  CaptureIsFaithful
  CallsReplay
  PlanRuns
  DocumentsAgree
  SizesAddUp
SYMMETRY CallerSymmetry
CHECK_DEADLOCK FALSE

SPECIFICATION Spec
CONSTANTS
    Pids <- ThreePids
    Traces <- Captures
    Limits = {2, 3}
    Capacity = 1
    MaxRounds = 9
INVARIANTS
    RecordsOnceInOrder
    MembersAreWorkers
PROPERTIES
    RoundsAreComplete
    ReplayEnds

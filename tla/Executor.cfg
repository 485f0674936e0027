SPECIFICATION Spec
CONSTANTS
    N = 5
    DepChoices <- Graphs
    Delay <- Delays
    Release <- Releases
    Verb <- Verbs
    Obj <- Objs
    Live = {}
    Flaky = {1}
    Cancelled = {4}
    Crew = {w1, w2}
    Horizon = 2
    Workers = 2
    Service = {0, 1, 3}
INVARIANTS
    PoolInv
    AfterPrerequisites
    OutcomesAreSerial
PROPERTIES
    NoIdleLag
    WorkloadEnds

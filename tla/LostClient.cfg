SPECIFICATION Spec
CONSTANTS
    Clients = {"c1", "c2"}
    Attempts = {"a1", "a2", "a3"}
    ClaimOf <- Claims
    Streams = {"s1", "s2", "s3"}
    Linked <- Pairs
    Assignments <- Split
    Skews <- Behind
    Probes = 2
    LastTick = 9
INVARIANT FailureMakesPartial

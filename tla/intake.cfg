SPECIFICATION Safety
CONSTANTS
    r1 = r1
    r2 = r2
    r3 = r3
    k1 = k1
    k2 = k2
    p1 = p1
    NoId = NoId
    Workers = {}
    Requests = {r1, r2, r3}
    Keys = {k1, k2}
    MaxFaults <- TwoErrors
    MaxTotal = 2
    Replicas = {p1}
    Whole = 2
    Refill = 1
    Burst = 3
    MaxTicks = 3
INVARIANTS TypeOK OnePerKey AnswersAgree NoDeadEnd CreatorHasEnqueued
    RefusedLeavesNothing
PROPERTIES LimiterIsBucket
SYMMETRY RequestSymmetry

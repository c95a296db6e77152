SPECIFICATION FairSpec
CONSTANTS
    NodeID = {1, 2, 3}
    Hash = {1, 2}
    RandomPriority = {1}
    High = 9
    Leader = 1
    Offers <- OneOffer
    Gaps = {}
    Up = {1, 2}
    Barrier <- MCBarrier
    MaxStep = 6
    MaxRuns <- RecoveryRuns
    MaxCuts = 0
    MaxRestarts <- LeaderRestarts
INVARIANT
    SafeAgreement
PROPERTY
    RecoveryCompletes
CONSTRAINT LateLearner
CHECK_DEADLOCK FALSE

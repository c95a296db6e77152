SPECIFICATION Spec
CONSTANTS
    NodeID = {1, 2, 3, 4, 5}
    Hash = {1, 2, 3}
    RandomPriority = {1}
    High = 9
    Leader = 2
    Offers <- EquivocationOffers
    Gaps = {}
    Up = {1, 2}
    Barrier <- MCBarrier
    MaxStep = 6
    MaxRuns <- EquivocationRuns
    MaxCuts = 0
    MaxRestarts <- LeaderRestarts
INVARIANT
    Agreement
CONSTRAINT EquivocationAnswers
VIEW View
CHECK_DEADLOCK FALSE

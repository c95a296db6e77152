SPECIFICATION Spec
CONSTANTS
    NodeID = {1, 2, 3}
    Hash = {1, 2, 3}
    RandomPriority = {1}
    High = 9
    Leader = 1
    Offers <- ContentionOffers
    Gaps = {}
    Up = {1, 2}
    Barrier <- MCBarrier
    MaxStep = 8
    MaxRuns <- ContentionRuns
    MaxCuts = 2
    MaxRestarts <- NoRestarts
INVARIANTS
    Agreement
    CertificatesValid
    UniqueHighest
CONSTRAINT ContentionOrRetries
VIEW View
CHECK_DEADLOCK FALSE

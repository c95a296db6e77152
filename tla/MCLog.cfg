SPECIFICATION MCSpec
CONSTANTS
    \* RecorderLog
    t1 = t1
    t2 = t2
    NodeID = {1}
    Hash = {1, 2}
    RandomPriority = {1}
    High = 9
    MaxSlot = 3
    DecidedHash <- MCDecidedHash
    SealSlot <- MCSealSlot
    Requests <- MCRequests
    Callers = {t1, t2}
    MaxCalls = 2
    MaxRestarts = 1
    MaxFailures = 1
    \* Wal
    Appends <- MCAppends
    Plans <- MCPlans
    MaxSize = 1
    MaxBytes = 2
    MaxAppends = 2
    MaxFaults = 1
    MaxCrashes = 2
    MaxCompactions = 1
    Settles = TRUE
INVARIANTS
    AnswersSurvive
    SyncedFlagsHold
    OpenSucceeds
PROPERTY
    WalImplementsLog
CONSTRAINT Incidents
SYMMETRY Symmetry
CHECK_DEADLOCK FALSE

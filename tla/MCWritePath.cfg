SPECIFICATION WriteFairSpec
CONSTANTS
    c1 = c1
    c2 = c2
    c3 = c3
    Call = {c1, c2, c3}
    Setups <- MCSetups
    Worker = {1}
    MaxAdmitted = 2
    MaxQueued = 1
    BatchLimit = 2
    ValueLimit = 2
    InflightBytes = 1
    LocalCap = 2
INVARIANTS
    DefiniteErrorsTrue
    OkAnswersHold
    ResourcesBalance
    QuiesceExcludes
PROPERTY
    CloseCompletes
CHECK_DEADLOCK FALSE

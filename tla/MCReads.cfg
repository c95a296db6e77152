SPECIFICATION MCSpec
CONSTANTS
  \* ReadIndex
  a = a
  b = b
  c = c
  NodeID = {a, b, c}
  Writers = {a}
  Readers = {c}
  MaxSlot = 2
  MaxRestarts = 1
  \* Materializer
  Histories <- ThreeHistories
  Window = 2
  MaxPage = 2
  MaxRetained = 2
  MaxRecent = 1
  MaxMatCrashes = 2
  MaxPowerLosses = 1
  MaxMatErrors = 2
  MaxRestores = 1
  \* NodeCatchUp
  LastSlot = 3
  SealOf <- TwoSeals
  MaxNodeStops = 1
INVARIANTS
  MaterializedState
  ReplayNeverStuck
  CatchUpSound
PROPERTY
  CompletedWriteVisible
VIEW View
CHECK_DEADLOCK FALSE

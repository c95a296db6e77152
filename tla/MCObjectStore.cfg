SPECIFICATION MCSpec
CONSTANTS
  \* Archive
  m1 = m1
  m2 = m2
  Managers <- MCManagers
  Duties <- MCDuties
  Operations = {o}
  MaxSlot = 2
  MaxGeneration = 4
  ExtentItems = 2
  MaxFaults = 1
  \* CheckpointSeal
  a = a
  b = b
  c = c
  Voters = {a, b, c}
  Compacting = {c}
  Reach <- MiddleReached
  Crashing = {c}
  Publishers = {a, b}
  MaxSealSlot = 3
  MaxClaims = 2
  MaxMaintenance = 1
  MaxSealFaults = 1
  \* CheckpointStore
  Publisher = publisher
  Collector = collector
  Recoverer = recoverer
  Contents = {{x}, {y}}
  MaxStoreIndex = 2
  KeepRoots = 1
  MaxLeases = 6
  MaxStoreFaults = 1
  \* Fork
  ForkRuns = {f, g}
  ForkOps = {copy, anchored}
  AnchoredOps = {anchored}
  MaxSourceTip = 2
  MaxTargetTip = 3
  MaxStarts = 4
  MaxForkFaults = 1
INVARIANTS
  ArchiveReadable AckedArchived
  SealsRecoverable
  StoreReadable
  ForkSound
PROPERTIES
  HeadAdvances
  RunningUndisturbed
CONSTRAINT Scenarios
CHECK_DEADLOCK FALSE

SPECIFICATION MCSpec
CONSTANTS
  \* GenerationRecovery
  r1 = r1
  r2 = r2
  r3 = r3
  Recoveries = {r1, r2, r3}
  o1 = o1
  o2 = o2
  Operators = {o1, o2}
  Genesis = genesis
  None = none
  SourceOf <- MCSourceOf
  MaxTip = 2
  MaxEdits = 1
  \* LocalBackup
  KeepLocalRoots = 1
  MaxLocalSlots = 4
  MaxBoots = 3
  MaxLocalFaults = 2
  \* AutoRecovery
  v1 = v1
  v2 = v2
  v3 = v3
  BaseVoters = {v1, v2, v3}
  Reconcilers = {o1, o2}
  Nothing = nothing
  MaxIncidents = 2
  MaxAttempts = 2
  MaxOutages = 2
  \* LocalReclaim: 420 bytes leave room for two or three maximal slots above
  \* the reserve
  HeaderBytes = 1
  ReceiptBytes = 1
  CertificateBytes = 1
  BaseBytes = 3
  SealLen = 3
  ScheduleLen = 1
  ValueLimit = 30
  WalLimit = 420
  Lengths = {1, 30}
  ScheduleSlots = {2}
  Images = {1, 2}
  MaxReclaimSlots = 6
  MaxStops = 2
  \* PairInstall
  MaxRevision = 1
  MaxPairCrashes = 2
INVARIANTS
  HandoverSafe
  RepairSafe
  ArchiveKeepsAcked LocalViewsReadable
  ReserveHolds WalRootsPresent PairPreserved
PROPERTY
  LateReconcilersHarmless
CONSTRAINT Scenarios
SYMMETRY Controllers
CHECK_DEADLOCK FALSE

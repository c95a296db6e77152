SPECIFICATION Spec
CONSTANTS
  na = na
  nb = nb
  nc = nc
  nd = nd
  None = None
  Node <- MCNode
  Genesis <- MCGenesis
  LegacyVotes <- MCLegacy
  Caller <- MCCaller
  Proposer <- MCProposer
  Wanted <- MCWanted
  Crashing <- MCGenesis
  MaxLag = 3
  Window = 2
  MaxSlot = 6
  MaxCrashes = 2
CONSTRAINT Bounded
SYMMETRY Others
CHECK_DEADLOCK FALSE
INVARIANTS SlotAgreement PrefixNeverStuck CompletedChangesKept AddedVotersCaughtUp

SPECIFICATION Spec
CONSTANTS
  Window = 1
  MaxSessions = 1
  MaxTime = 4
  MaxCount = 2
INVARIANTS
  IdleTruthful
  SnapshotConsistent
  ActiveNotStale

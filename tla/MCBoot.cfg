SPECIFICATION FairSpec
CONSTANTS
  Readers <- TheWebServer
  Configs <- FiveBuilds
  EventQueueSize = 3
INVARIANTS
  TypeOK
  InitBeforeUse
  OneConnector
  StartLeavesWhole
  RequestAnswered
  ConnectedTruthful
PROPERTIES
  BootCompletes
  TriesAgain
CHECK_DEADLOCK FALSE

SPECIFICATION Spec
CONSTANTS
  Readers <- TheWebServer
  Configs <- StationAndWeb
  EventQueueSize = 16
INVARIANTS
  LinkedTruthful
CHECK_DEADLOCK FALSE

SPECIFICATION FairSpec
CONSTANTS
  Readers <- NoReaders
  Configs <- StationOnly
  EventQueueSize = 16
PROPERTIES
  KeepsTrying
CHECK_DEADLOCK FALSE

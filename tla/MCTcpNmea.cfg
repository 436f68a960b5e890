SPECIFICATION FairSpec
CONSTANTS
  f1 = f1
  f2 = f2
  NoFd = NoFd
  Fds <- TwoFds
  MaxClients = 1
  ClientEnabled = TRUE
  MaxSinks = 2
  FrameLen = 2
  Backlog = 1
  ExitPreemptible = TRUE
  MaxBackoff = 3
INVARIANTS
  TypeOK
  FdExclusive
  NoFdLeak
  SinkAvailable
  CountsNested
  WholeFrames
  ConnectingTruthful
PROPERTIES
  SlotsComeBack
  ClientReconnects

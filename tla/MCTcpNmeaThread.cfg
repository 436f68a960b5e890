SPECIFICATION Spec
CONSTANTS
  f1 = f1
  f2 = f2
  NoFd = NoFd
  Fds <- TwoFds
  MaxClients = 1
  ClientEnabled = FALSE
  MaxSinks = 2
  FrameLen = 1
  Backlog = 1
  ExitPreemptible = TRUE
  MaxBackoff = 3
CHECK_DEADLOCK FALSE
INVARIANTS
  PeerGetsSession

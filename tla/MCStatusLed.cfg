SPECIFICATION FairSpec
CONSTANTS
  u1 = u1
  s1 = s1
  UartThreads <- NoUart
  SessionThreads <- OneSession
  Wrap = 4
  FlashTicks = 1
  RetryInitial = 1
  RetryMax = 1
  MaxAttempts = 2
INVARIANTS
  TypeOK
  NoLostWake
PROPERTY LedCatchesUp

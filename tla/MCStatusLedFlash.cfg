SPECIFICATION Spec
CONSTANTS
  u1 = u1
  s1 = s1
  UartThreads <- TheUart
  SessionThreads <- OneSession
  Wrap = 8
  FlashTicks = 1
  RetryInitial = 1
  RetryMax = 3
  MaxAttempts = 3
INVARIANTS
  FlashIsShort

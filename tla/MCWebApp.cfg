SPECIFICATION FairSpec
CONSTANTS
  c1 = c1
  c2 = c2
  c3 = c3
  Clients <- ThreeClients
  Requests <- SomeRequests
  RxBufSize = 9
  Backlog = 2
  PartLen = 2
INVARIANTS
  TypeOK
  RightAnswer
  WholeResponse
PROPERTIES
  EveryoneServed
CHECK_DEADLOCK FALSE

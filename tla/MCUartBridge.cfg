SPECIFICATION FairSpec
CONSTANTS
  s1 = s1
  s2 = s2
  Sessions <- TwoSessions
  LineLens <- Around
  FrameMaxLen = 2
  MaxLines = 3
  MaxSinks = 1
  IngestDepth = 1
  SinkDepth = 1
INVARIANTS
  TypeOK
  FramesAreLines
  LossExplained
  NoRejects
  QuietMeansComplete
PROPERTY EventuallyDispatched

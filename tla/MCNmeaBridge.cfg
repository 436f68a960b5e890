SPECIFICATION Spec
CONSTANTS
  s1 = s1
  s2 = s2
  Sessions <- TwoSessions
  Lens <- AllLens
  MaxSinks = 2
  IngestDepth = 2
  SinkDepth = 2
  FrameMaxLen = 1
  MaxFrames = 4
  MaxRejects = 1
INVARIANTS
  TypeOK
  ExclusiveSinks
  IngestExact
  SinkQueueIsSuffix
  SinkExact
PROPERTIES
  ImplementsFanOut
  OpenNeverFails

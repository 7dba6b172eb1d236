\* The upload does not fit its pipe, the frames do not fit theirs, and a
\* batch of three units ends in the middle of a frame.
SPECIFICATION FairSpec
CONSTANTS
  UploadSize = 3
  StdinRoom = 2
  StdoutRoom = 3
  Frames = 3
  Batch = 3
INVARIANTS
  OkMeansComplete
  EarlyExitTold
  LateReadsBounded
PROPERTIES
  HealthyRunEnds
  RunEnds
  KeepsPromise

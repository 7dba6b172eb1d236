\* A buffer of two bytes over one slot: one call waits while the other renders, and
\* chunks fit, overflow the document, and overflow the buffer. No symmetry: the run
\* checks liveness too.
SPECIFICATION WaiterSpec
CONSTANTS
  Calls = {c1, c2}
  MaxSlots = 1
  MaxDocBytes = 2
  ConfiguredCap = 2
  ChunkSizes = {1, 2}
INVARIANTS
  BufferExact
  BufferCapped
  WorkerBriefed
  NothingLeftBehind
PROPERTIES
  GoneWaiterLeaves
  UploadedCallEnds

CONSTANTS
  LogBlock = 2
  ChunkBytes = 4
  MaxPerRead = 2
  MaxBurst = 2
  Stride = 2
  MaxBatchCount = 2
  MaxBatchBytes = 12
  Unsized = Unsized
  SizedSource = FALSE
  ForwardSource = TRUE
  Overstated = 0
  ShortReads = FALSE
  Texts <- LongText
  Calls <- LongGets
  ChunkIds <- SomeChunks
SPECIFICATION Spec
PROPERTIES OnePass

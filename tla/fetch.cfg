CONSTANTS
  LogBlock = 2
  ChunkBytes = 4
  MaxPerRead = 2
  MaxBurst = 2
  Stride = 2
  MaxBatchCount = 2
  MaxBatchBytes = 12
  Unsized = Unsized
  SizedSource = TRUE
  ForwardSource = TRUE
  Overstated = 0
  ShortReads = FALSE
  Texts <- SomeTexts
  Calls <- SomeCalls
  ChunkIds <- SomeChunks
SPECIFICATION FairSpec
INVARIANTS TypeOK WindowIsSource AnswersTrue DeliveredIsPrefix SamplesStand WindowBounded
PROPERTIES LocatesForward ChildrenForward EveryCallAnswered DriveSpec

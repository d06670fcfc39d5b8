SPECIFICATION Spec
CONSTANTS
  Null = Null
  Undefined = Undefined
  NoRow = NoRow
  NoSummary = NoSummary
  w1 = w1
  w2 = w2
  r1 = r1
  Movies = {7}
  Scenes = {1, 2, 3}
  Writers = {w1, w2}
  Readers = {r1}
  Batches <- MCBatches
  InitialTables <- MCInitialTables
  ChunkSize = 2
  MaxAttempts = 2
  MaxPromises = 2
  MaxRestarts = 1
INVARIANTS
  TypeOK
  BarrierIsFair
  CacheCoherent
  SummaryExact
PROPERTIES
  EveryWriterLeaves
  ImplementsStore
CHECK_DEADLOCK TRUE

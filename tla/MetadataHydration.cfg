SPECIFICATION Spec
CONSTANTS
  backfill = backfill
  page = page
  Scenes = {1, 2}
  OnDemand = {page}
  Backfill = backfill
  BatchSize = 1
  QueryBatch = 1
  Accelerated = 0
  RetryBackoff = 1
  Steady = 1
  CheckCache = 1
  RefreshAge = 1
  MaxEvents = 1
  NoRow = NoRow
  NoScene = 0
INVARIANTS
  TypeOK
  ClaimsExact
PROPERTIES
  YoungestAnswerStays
  PendingRowsHydrated

SPECIFICATION Spec
CONSTANTS
  Scenes = {1}
  NoRow = NoRow
  IndexMaxAge = 1
  SnapshotMaxAge = 1
  RequestMaxAge = 0
  FreshnessEvents = 2
  Instances = {1, 2}
  Callers = {"p", "q"}
  TTL = 1
  MaxEntries = 1
  MaxLookup = 1
  AvailabilityEvents = 3
  movie = movie
  other = other
  Movie = movie
  Rows = {"NOT_REQUESTED", "DOWNLOADING", "AVAILABLE"}
  Null = Null
  Items <- MCItems
  MaxItems = 3
  Others = {"WHISPARR"}
  Urls = {u1, u2}
  NoUrl = NoUrl
  Clients = {c1, c2}
  NoType = "none"
  ConnectionsEvents = 2
  Calls = {k1, k2}
  FAILURE_THRESHOLD = 2
  NoRecord = NoRecord
  HealthEvents = 5
  Downloads = {1, 2, 3}
  Unusable = {3}
  QueuePageSize = 1
  MaxQueuePages = 3
  PagingEvents = 4
INVARIANTS
  OneCatalogProvider
CHECK_DEADLOCK FALSE

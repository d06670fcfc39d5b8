SPECIFICATION Spec
CONSTANTS
  Passwords = {p1, p2}
  NoPassword = NoPassword
  Sessions = {s1, s2}
  NoSession = NoSession
  Requests = {r1, r2}
  Custom = {"a", "b"}
  Hybrid = {"h"}
  RailRequests = {r1, r2}
  NoPlace = NoPlace
  NoRequest = NoRequest
  NoNavigation = NoNavigation
  NoText = NoText
  NoAnswer = NoAnswer
  NoDetails = NoDetails
  MAX_FAILURES = 2
  AuthEvents = 6
  RailsEvents = 3
  Catalog <- MCCatalog
  Limit = 1
  LOOKUP_CONCURRENCY = 2
  OVERSCAN_FACTOR = 2
  PAGE_SIZE_MAX = 3
  Filters = {"f", "g"}
  DefaultFilter = "f"
  Words = {"x"}
  LastPage = 2
  ListPageSize = 1
  SceneTags = {"a"}
  ScenesEvents = 3
  LocalScenes <- MCLocalScenes
  LibraryTags = {"a", "b"}
  LibraryLinks <- MCLibraryLinks
  LibraryEvents = 3
  Names <- MCNames
  PerformersLinks <- MCPerformersLinks
  PerformersEvents = 2
  PerformerIds = {1, 2}
  Studios = {"s"}
  PerformerTags = {"t"}
  PerformerLinks <- MCPerformerLinks
  PerformerEvents = 2
  AcquisitionScenes = {1, 2}
  AcquisitionEvents = 2
  Builtin = {"d"}
  NewRail = "new"
  NoForm = "none"
  HomeEvents = 2
INVARIANTS
  TypeOK
  OldPasswordsOut
  ArrangementKept
  HomeShowsRails
  RailShowsFirstMatches
  FeedsShowSelection
CHECK_DEADLOCK FALSE

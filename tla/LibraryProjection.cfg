SPECIFICATION Spec
CONSTANTS
  c1 = c1
  c2 = c2
  stashdb = stashdb
  Scenes = {1, 2, 3}
  Catalog = {c1, c2}
  Providers = {stashdb}
  Refs <- MCRefs
  PageSize = 1
  MaxEvents = 3
  None = None
INVARIANTS
  TypeOK
  QuietPassExact
PROPERTIES
  OnlyShiftedRowsVanish
  ProjectionConverges
CHECK_DEADLOCK FALSE

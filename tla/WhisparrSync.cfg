SPECIFICATION Safe
CONSTANTS
  Null = Null
  Undefined = Undefined
  NoRow = NoRow
  Nothing = Nothing
  a = a
  b = b
  Scenes = {a, b}
  Movies = {1, 2}
  MaxChanges = 3
  MaxFailures = 1
INVARIANTS
  TypeOK
  QueueNeedsMovie
  MovieProvenance

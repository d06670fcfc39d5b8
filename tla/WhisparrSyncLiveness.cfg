SPECIFICATION Spec
CONSTANTS
  Null = Null
  Undefined = Undefined
  NoRow = NoRow
  Nothing = Nothing
  a = a
  b = b
  Scenes = {a}
  Movies = {1, 2}
  MaxChanges = 4
  MaxFailures = 0
PROPERTIES
  MoviesConverge
  RowsConverge

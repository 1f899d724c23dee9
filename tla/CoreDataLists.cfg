SPECIFICATION Spec
CONSTANTS
  Ids = {i1, i2, i3, i4}
  Names = {Unnamed, n1}
  Blank = Unnamed
  NoId = NoId
  Nothing = Nothing
INVARIANTS ListShowsContext RowOpensItsObject
PROPERTY ImplementsSet

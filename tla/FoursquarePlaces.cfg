SPECIFICATION Spec
CONSTANTS
  Users = {u1}
  Ids = {i1, i2, i3}
  Limit = 2
  Tags = {t1, t2}
  Spots = {s1}
  Empty = Empty
  None = None
INVARIANTS DetailCanOpen NewPlaceIsListed SignedInBehindTheList
PROPERTY SaveLeavesMap

SPECIFICATION Spec
CONSTANTS
  d1 = d1
  d2 = d2
  p1 = p1
  p2 = p2
  ann = ann
  bob = bob
  Phones <- TwoPhones
  Posts <- TwoPosts
  Users <- TwoUsers
  AuthorOf <- OneEach
  MaxTaps = 1
CHECK_DEADLOCK FALSE
INVARIANT
  OnlyTheAuthorIsTold

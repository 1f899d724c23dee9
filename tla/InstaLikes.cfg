SPECIFICATION FairSpec
CONSTANTS
  d1 = d1
  d2 = d2
  p1 = p1
  p2 = p2
  ann = ann
  bob = bob
  Phones <- TwoPhones
  Posts <- TwoPosts
  Users <- TwoUsers
  AuthorOf <- OneEach
  MaxTaps = 2
CHECK_DEADLOCK FALSE
INVARIANTS
  LikesNeverExceedTaps
  NoLikeLost
PROPERTIES
  AuthorIsTold

SPECIFICATION SettledSpec
CONSTANTS
  d1 = d1
  d2 = d2
  p1 = p1
  p2 = p2
  u1 = u1
  u2 = u2
  ann = ann
  bob = bob
  Blank = Blank
  Nobody = Nobody
  NoUser = NoUser
  Phones <- TwoPhones
  Names <- Usernames
  Users <- TwoUsers
  Photos <- TwoPhotos
  PhoneOf <- OneApiece
  TTL = 1
  MaxTime = 2
  MaxInFlight = 2
CHECK_DEADLOCK FALSE
INVARIANTS
  OneStoryPerOwner
PROPERTIES
  ImplementsBoard
  StoriesOnlyGrow
  UploadCompletes
  OldStoriesGo

SPECIFICATION FeedSpec
CONSTANTS
  d1 = d1
  p1 = p1
  p2 = p2
  u1 = u1
  u2 = u2
  ann = ann
  Blank = Blank
  Nobody = Nobody
  NoUser = NoUser
  Phones <- OnePhone
  Names <- Usernames
  Users <- TwoUsers
  Photos <- TwoPhotos
  PhoneOf <- AllOnOne
  TTL = 2
  MaxTime = 2
  MaxInFlight = 2
INVARIANT
  TimeIsOfTheSnap

SPECIFICATION Spec
CONSTANTS
  d1 = d1
  d2 = d2
  p1 = p1
  p2 = p2
  u1 = u1
  u2 = u2
  ann = ann
  bob = bob
  Blank = Blank
  Nobody = Nobody
  NoUser = NoUser
  Phones <- OnePhone
  Names <- Usernames
  Users <- TwoUsers
  Photos <- TwoPhotos
  PhoneOf <- AllOnOne
  TTL = 1
  MaxTime = 1
  MaxInFlight = 1
INVARIANT
  EveryAccountHasAName

SPECIFICATION FairPageSpec
CONSTANTS
  MaxArtists = 4
  Ids = {a, b, c}
  Details = {old, new}
  NoData = NoData
  NotRunning = NotRunning
  NoPage = NoPage
INVARIANTS
  TabsAreComplete
  VenueAskedOnce
  NoEventTwice
PROPERTIES
  ImplementsSet
  PageCompletes

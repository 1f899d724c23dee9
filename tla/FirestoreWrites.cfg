SPECIFICATION FairSpec
CONSTANTS
  Users = {anna, nobody}
  MaxPending = 2
  Refused = {2}
  NoToken = NoToken
  MaxWrites = 3
  MaxTasks = 2
  MaxTrouble = 3
CHECK_DEADLOCK FALSE
INVARIANTS
  AssertionsHold
  WrittenAsTheirUser
  NothingLost
  NeverStalls
  ToldTruly
  Settled
PROPERTIES
  ImplementsOutbox
  WritesGetThrough

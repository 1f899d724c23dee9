SPECIFICATION Spec
CONSTANTS
  Phones = {d1, d2}
  Users = {ann, bob}
  NoUser = NoUser
  MaxAsked = 3
CHECK_DEADLOCK FALSE
INVARIANTS
  RegisteredForTheUser
PROPERTIES
  RemovedByLogOutHere

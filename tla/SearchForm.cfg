SPECIFICATION FairSpec
CONSTANTS
  Keywords = {jazz}
  Places = {oslo}
  Here = Here
  Empty = Empty
  MaxSent = 3
CHECK_DEADLOCK FALSE
INVARIANTS
  OneDisplay
  EventsAreThoseSubmitted
PROPERTIES
  ImplementsPanel
  LoadingEnds

SPECIFICATION DeliverySpec
CONSTANTS
  o1 = o1  o2 = o2  p1 = p1  p2 = p2  w1 = w1  w2 = w2  None = None
  Workspaces = {w1}
  Panes = {o1, p1}
  Owners = {o1}
  Home <- HomeShared
  Authors = {p1}
  TaggedRows = {}
  TaggedCloses = {}
  EventTypes = {"outcome"}
  MaxEvents = 2
  MaxIncarnations = 2
  MaxClock = 0
  MaxAttempts = 2
  ReclaimAge = 0
  FreshAge = 0
  GraceAge = 0
  SettledAge = 0
  ScopeAge = 0
CHECK_DEADLOCK FALSE
PROPERTY SettledIncarnationStaysSettled

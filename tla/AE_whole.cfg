SPECIFICATION WholeSpec
CONSTANTS
  o1 = o1  o2 = o2  p1 = p1  p2 = p2  w1 = w1  w2 = w2  None = None
  Workspaces = {w1, w2}
  Panes = {o1, o2, p1}
  Owners = {o1, o2}
  Home <- HomeSplit
  Authors = {o1, p1}
  TaggedRows = {}
  TaggedCloses = {}
  EventTypes = {"failed", "outcome"}
  MaxEvents = 2
  MaxIncarnations = 2
  MaxClock = 2
  MaxAttempts = 2
  ReclaimAge = 0
  FreshAge = 0
  GraceAge = 0
  SettledAge = 1
  ScopeAge = 1
CHECK_DEADLOCK FALSE
INVARIANTS TypeOK RowsCoherent
PROPERTIES AckIsFinal CursorNeverRetreats UnseenFailureSurvives AckStaysInReach InFlightStaysWithOwner

SPECIFICATION MCFollowingSpec
CONSTANTS
  None = None
  Sessions = {s1}
  s1 = s1
  Panes = {"a", "b"}
  Watchers = {1, 2, 3}
  InitialPanes = {"a"}
  MaxTurn = 1
  MaxMoves = 2
  MaxSignals = 0
CHECK_DEADLOCK FALSE
PROPERTIES FollowsHerdr

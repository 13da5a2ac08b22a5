SPECIFICATION MCStoppingSpec
CONSTANTS
  None = None
  Sessions = {s1}
  s1 = s1
  Panes = {"a", "b"}
  Watchers = {1, 2, 3}
  InitialPanes = {"a"}
  MaxTurn = 1
  MaxMoves = 1
  MaxSignals = 2
CHECK_DEADLOCK FALSE
INVARIANTS TypeOK OneLoopPerSession WatchedIsRunning StoppedIsQuiet ExitIsClean
PROPERTIES SignalEnds

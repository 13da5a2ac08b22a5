SPECIFICATION FairSpec
CONSTANTS
  t1 = t1  t2 = t2  c1 = c1  c2 = c2
  None = None
  Terminals <- OneTerminal
  Conns <- MCConns
  AgyConns <- MCAgyConns
  MayRun <- OneMayRun
  MaxTimers = 2
  Grace = 1
  StartupGrace = 1
PROPERTY AbsenceEnds

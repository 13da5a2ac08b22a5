SPECIFICATION Spec
CONSTANTS
  t1 = t1  t2 = t2  c1 = c1  c2 = c2
  None = None
  Terminals <- MCTerminals
  Conns <- MCConns
  AgyConns <- MCAgyConns
  MayRun <- MCMayRun
  MaxTimers = 2
  Grace = 1
  StartupGrace = 1
INVARIANTS TypeOK NoForgottenOwner
PROPERTY ConnectedOwnerKept

SPECIFICATION FairSpec
CONSTANTS
  g1 = g1  g2 = g2  g3 = g3  Free = Free
  Goroutines = {g1, g2, g3}
  Anonymous = {g3}
  MaxRows = 2
INVARIANTS TypeOK LevelsAgree TransactionWindow BeginFindsNone NoLostWakeup
PROPERTIES GateIsTaken PanicFreesGate

SPECIFICATION MCFairSpec
CONSTANTS
  MaxPlans = 2
  MaxRef = 1
  MaxAttempts = 2
  EventIds = {TRUE}
  MaxStops = 1
  MaxQueue = 1
  Kinds = {"pi", "agy", "other"}
  Statuses = {"working", "idle", "done"}
  None = None
CHECK_DEADLOCK FALSE
INVARIANTS TypeOK WaitingIsCarried DoneIsTold TurnsDiffer PlaceholderWithdrawn
PROPERTIES ImplementsLedger EventuallySettled

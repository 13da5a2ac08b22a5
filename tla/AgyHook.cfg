SPECIFICATION MCSpec
CONSTANTS
  MaxEvent = 2
  Terminals = {"a"}
  MaxPid = 2
  MaxTurns = 1
  MaxFaults = 1
  MaxAttempts = 2
  KeepLimit = 1
  Kinds = {"completed", "noise"}
  Owners = {"self", "none"}
  Transcripts = {TRUE}
CHECK_DEADLOCK FALSE
INVARIANTS TypeOK NothingSwallowed AckIsAllThatIsOwed OnePrompter
PROPERTIES WakesForSomething EventuallyTold

\* A client that registers twice.
CONSTANTS
  Patterns <- MCFewPatterns
  NoPattern = NoPattern
  RestartModes = {FALSE}
  Overlap = TRUE
  MayFail = FALSE
  MaxPatternTimers = 1
  MaxRegistrations = 2
  CountModulus = 1
  Pressable = {"resource", "unregister"}
SPECIFICATION BlinkySafeSpec
INVARIANTS
  OneIncrementTimer
CHECK_DEADLOCK FALSE

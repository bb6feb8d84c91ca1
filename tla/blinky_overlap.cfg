\* A sequence started over another one.
CONSTANTS
  Patterns <- MCFewPatterns
  NoPattern = NoPattern
  RestartModes = {FALSE}
  Overlap = TRUE
  MayFail = FALSE
  MaxPatternTimers = 2
  MaxRegistrations = 1
  CountModulus = 1
  Pressable = {"resource", "unregister"}
SPECIFICATION BlinkySafeSpec
INVARIANTS
  TimersOfSequence
CHECK_DEADLOCK FALSE

\* One sequence at a time, repeated or not; memory suffices.
CONSTANTS
  Patterns <- MCPatterns
  NoPattern = NoPattern
  RestartModes = {TRUE, FALSE}
  Overlap = FALSE
  MayFail = FALSE
  MaxPatternTimers = 1
  MaxRegistrations = 2
  CountModulus = 1
  Pressable = {"resource", "unregister"}
SPECIFICATION BlinkySpec
INVARIANTS
  PeriodicTimersBounded
  NoPressLost
PROPERTIES
  PlaysPatterns
  PressesAnswered

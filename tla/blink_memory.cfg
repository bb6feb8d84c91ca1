\* Overlapping sequences and POSTs; memory for events and patterns may run out.
CONSTANTS
  Patterns <- MCPatterns
  NoPattern = NoPattern
  RestartModes = {FALSE}
  Overlap = TRUE
  MayFail = TRUE
  MaxPatternTimers = 2
  MaxRegistrations = 2
  CountModulus = 1
  Pressable = {"resource"}
  Tokens = {t1, t2}
  NoToken = NoToken
SPECIFICATION Spec
INVARIANTS
  RequestTypeOK
  StoredPostHasResponse
  LoopsRun
  SequenceGoesOn
PROPERTIES
  LastPostAnswered
\* Reading a NULL pattern is the end of what the code says.
CHECK_DEADLOCK FALSE

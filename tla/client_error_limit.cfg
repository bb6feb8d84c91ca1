\* The thresholds of the source.
CONSTANTS
  RetryCount = 1
  SingleThread = TRUE
  NULL = NULL
  Iface = Iface
  MaxInitErrors = 9
  MaxErrors = 5
  EvqMax = 1
  ErrorBound = 11
SPECIFICATION SafeSpec
INVARIANTS
  RebootsAtMaxErrors
CHECK_DEADLOCK FALSE

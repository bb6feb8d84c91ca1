\* One thread; the resources may fail to be created.
CONSTANTS
  RetryCount = 1
  SingleThread = TRUE
  NULL = NULL
  Iface = Iface
  MaxInitErrors = 2
  MaxErrors = 2
  EvqMax = 1
  ErrorBound = 3
SPECIFICATION SafeSpec
INVARIANTS
  RegisteredWasCalled
CHECK_DEADLOCK FALSE

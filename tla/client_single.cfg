\* One thread (mbed_app.json).
CONSTANTS
  RetryCount = 3
  SingleThread = TRUE
  NULL = NULL
  Iface = Iface
  MaxInitErrors = 3
  MaxErrors = 2
  EvqMax = 2
  ErrorBound = 4
SPECIFICATION Spec
INVARIANTS
  StatusTruthful
  BreakDue
  CalledWhileRegistering
PROPERTIES
  AnswersEveryCall
  ResumesConnected
  FollowsDutyCycle
\* Closed by the button before it registered, the client has nothing left to do.
CHECK_DEADLOCK FALSE

\* The driver's callback in a thread of its own (mbed_app_rtos.json).
CONSTANTS
  RetryCount = 2
  SingleThread = FALSE
  NULL = NULL
  Iface = Iface
  MaxInitErrors = 4
  MaxErrors = 2
  EvqMax = 2
  ErrorBound = 5
SPECIFICATION SafeSpec
INVARIANTS
  TypeOK
  WakeUpScheduled
  NoReentry
  Listening
  BreakOwned
  RetryLoopBounded
  RetryWaitDoubles
  ErrorLimit
PROPERTIES
  UsesConnection
  KeepsDutyCycle
  AnswersAtMostOnce
\* A callback between connect() and the flag leaves the dispatch waiting.
CHECK_DEADLOCK FALSE

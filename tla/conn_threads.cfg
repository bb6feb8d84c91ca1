\* The driver's callback in a thread of its own, the retry count of the source.
CONSTANTS
  RetryCount = 5
  SingleThread = FALSE
  NULL = NULL
  Iface = Iface
SPECIFICATION ConnSafeSpec
INVARIANTS
  ConnTypeOK
  BreakOwned
  Listening
PROPERTIES
  AnswersTruthfully
\* A callback between connect() and the flag leaves the dispatch waiting.
CHECK_DEADLOCK FALSE

\* The callback in its own thread, fair: is the wait left once connected?
CONSTANTS
  RetryCount = 2
  SingleThread = FALSE
  NULL = NULL
  Iface = Iface
SPECIFICATION ConnSpec
PROPERTIES
  LeavesWhenConnected
\* A callback between connect() and the flag leaves the dispatch waiting.
CHECK_DEADLOCK FALSE

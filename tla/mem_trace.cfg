\* A pool as large as the queue; recv_thread allocates as well.
CONSTANTS
  Threads = {t1, t2}
  recv_thread = recv_thread
  NULL = NULL
  mpool = {b1, b2}
  QueueSize = 2
  MaxOps = 2
SPECIFICATION Spec
INVARIANTS
  MemTypeOK
  OnePlace
  NeverWaits
PROPERTIES
  InOrder
  RecordsReturn
\* The threads allocate no more than MaxOps times.
CHECK_DEADLOCK FALSE

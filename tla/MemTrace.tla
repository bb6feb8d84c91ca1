------------------------------ MODULE MemTrace ------------------------------
(***************************************************************************)
(* source/memory_statistics.c: the allocator of every thread reports its   *)
(* operations through a pool of records and a queue of pointers to them;   *)
(* recv_thread prints them.  The report is made inside malloc() and must   *)
(* not wait, yet it puts into the queue with osWaitForever.                *)
(***************************************************************************)
EXTENDS Naturals, Sequences, FiniteSets

CONSTANTS
  Threads,     \* the threads that allocate
  recv_thread, \* printing may allocate as well
  NULL,
  mpool,       \* the records of the pool, 64 in the source
  QueueSize,   \* osMessageQDef(MsgBox, 64, ...)
  MaxOps       \* bound: allocations of each thread

ASSUME MemThreadsAssumption == recv_thread \notin Threads
ASSUME PoolAssumption ==
  /\ IsFiniteSet(mpool)
  /\ NULL \notin mpool
  /\ QueueSize \in Nat
  /\ Cardinality(mpool) <= QueueSize
ASSUME MaxOpsAssumption == MaxOps \in Nat

Senders == Threads \cup {recv_thread}

VARIABLES
  free,        \* records osPoolAlloc() may return
  MsgBox,
  filling,     \* the record a thread has allocated and not yet put
  trace_data,  \* the record recv_thread is printing
  content,     \* who reported in a record, and its how manieth operation it is
  ops,         \* operations of each thread so far
  printed      \* the last operation of each thread that was printed

vars == <<free, MsgBox, filling, trace_data, content, ops, printed>>

Record == Senders \X Nat

MemTypeOK ==
  /\ free \subseteq mpool
  /\ MsgBox \in Seq(mpool)
  /\ filling \in [Senders -> mpool \cup {NULL}]
  /\ trace_data \in mpool \cup {NULL}
  /\ content \in [mpool -> Record \cup {NULL}]
  /\ ops \in [Senders -> 0 .. MaxOps]
  /\ printed \in [Senders -> 0 .. MaxOps]

\* mem_stat_init(): the callback is set when everything else is in place.
Init ==
  /\ free = mpool
  /\ MsgBox = <<>>
  /\ filling = [t \in Senders |-> NULL]
  /\ trace_data = NULL
  /\ content = [b \in mpool |-> NULL]
  /\ ops = [t \in Senders |-> 0]
  /\ printed = [t \in Senders |-> 0]

\* recv_thread allocates only from within printf(), and not while it does so
\* already.
MayAllocate(t) ==
  /\ filling[t] = NULL
  /\ t = recv_thread => trace_data # NULL
  /\ ops[t] < MaxOps

Take(t, b) ==
  /\ filling' = [filling EXCEPT ![t] = b]
  /\ content' = [content EXCEPT ![b] = <<t, ops[t] + 1>>]
  /\ free' = free \ {b}

\* Wrong variant: without a free record another one is used again.
TakeAnyway(t) ==
  /\ MayAllocate(t)
  /\ ops' = [ops EXCEPT ![t] = @ + 1]
  /\ IF free # {} THEN \E b \in free : Take(t, b) ELSE \E b \in mpool : Take(t, b)
  /\ UNCHANGED <<MsgBox, trace_data, printed>>

\* mem_trace_cb_sender() up to its osMessagePut(); without a free record the
\* operation is not reported.
Allocate(t) ==
  /\ MayAllocate(t)
  /\ ops' = [ops EXCEPT ![t] = @ + 1]
  /\ IF free # {} THEN \E b \in free : Take(t, b)
     ELSE UNCHANGED <<free, filling, content>>
  /\ UNCHANGED <<MsgBox, trace_data, printed>>

\* Wrong variant: no return without a record.
PutAnyway(t) ==
  /\ Len(MsgBox) < QueueSize
  /\ MsgBox' = Append(MsgBox, filling[t])
  /\ filling' = [filling EXCEPT ![t] = NULL]
  /\ UNCHANGED <<free, trace_data, content, ops, printed>>

\* osMessagePut() waits while the queue is full.
Put(t) ==
  /\ filling[t] # NULL
  /\ Len(MsgBox) < QueueSize
  /\ MsgBox' = Append(MsgBox, filling[t])
  /\ filling' = [filling EXCEPT ![t] = NULL]
  /\ UNCHANGED <<free, trace_data, content, ops, printed>>

\* Wrong variant: the message stays in the queue.
GetAndLeave ==
  /\ trace_data = NULL
  /\ MsgBox # <<>>
  /\ trace_data' = Head(MsgBox)
  /\ UNCHANGED <<free, MsgBox, filling, content, ops, printed>>

\* Wrong variant: the record is freed before it is printed.
GetAndFree ==
  /\ trace_data = NULL
  /\ MsgBox # <<>>
  /\ trace_data' = Head(MsgBox)
  /\ free' = free \cup {Head(MsgBox)}
  /\ MsgBox' = Tail(MsgBox)
  /\ UNCHANGED <<filling, content, ops, printed>>

\* osMessageGet().
Get ==
  /\ trace_data = NULL
  /\ MsgBox # <<>>
  /\ trace_data' = Head(MsgBox)
  /\ MsgBox' = Tail(MsgBox)
  /\ UNCHANGED <<free, filling, content, ops, printed>>

\* Wrong variant: the record is not freed.
ReceiveOnly ==
  /\ trace_data # NULL /\ filling[recv_thread] = NULL
  /\ printed' = [printed EXCEPT ![content[trace_data][1]] = content[trace_data][2]]
  /\ trace_data' = NULL
  /\ UNCHANGED <<free, MsgBox, filling, content, ops>>

\* mem_trace_cb_receiver() ends and osPoolFree() returns the record.
Receive ==
  /\ trace_data # NULL /\ filling[recv_thread] = NULL
  /\ printed' = [printed EXCEPT ![content[trace_data][1]] = content[trace_data][2]]
  /\ free' = free \cup {trace_data}
  /\ trace_data' = NULL
  /\ UNCHANGED <<MsgBox, filling, content, ops>>

Next ==
  \/ \E t \in Senders : Allocate(t) \/ Put(t)
  \/ Get \/ Receive

SafeSpec == Init /\ [][Next]_vars

\* Every thread is scheduled, recv_thread with the higher priority.
Spec ==
  /\ SafeSpec
  /\ \A t \in Senders : WF_vars(Put(t))
  /\ WF_vars(Get) /\ WF_vars(Receive)

-----------------------------------------------------------------------------
(* Properties.                                                             *)

\* A record is free, being filled by one thread, queued once, or being printed;
\* no thread writes into what another one reads.
OnePlace ==
  /\ \A t, u \in Senders : filling[t] # NULL /\ filling[t] = filling[u] => t = u
  /\ \A i, j \in DOMAIN MsgBox : MsgBox[i] = MsgBox[j] => i = j
  /\ \A t \in Senders : filling[t] # NULL =>
       filling[t] \notin free \cup {MsgBox[i] : i \in DOMAIN MsgBox} \cup {trace_data}
  /\ \A i \in DOMAIN MsgBox : MsgBox[i] \notin free \cup {trace_data}
  /\ trace_data \notin free

\* "Waiting is not a option": no allocation waits for the queue, not even one
\* of recv_thread, which would wait for itself.
NeverWaits == \A t \in Senders : filling[t] # NULL => Len(MsgBox) < QueueSize

\* The record that recv_thread ends with tells of a later operation than all its
\* thread had printed before.
PrintsLater ==
  LET t == content[trace_data][1] IN printed'[t] > printed[t]

\* Each thread's operations are printed in their order, and none twice: whenever
\* recv_thread has printed a record, it was of a later operation of its thread.
InOrder == [][trace_data # NULL /\ trace_data' = NULL => PrintsLater]_vars

\* What is reported is printed, and every record returns to the pool.
RecordsReturn == \A b \in mpool : b \notin free ~> b \in free

=============================================================================

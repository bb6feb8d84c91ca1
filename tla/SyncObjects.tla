----------------------------- MODULE SyncObjects -----------------------------
(***************************************************************************)
(* What the callers of plat_semaphore_*() and plat_mutex_*() of            *)
(* source/platform/include/setup.h may rely on who know only the statuses  *)
(* they are given: no heap, no waiting, no time-outs.  A semaphore is a    *)
(* count, a mutex is taken by one thread at a time, as often as it likes,  *)
(* and nobody gets anything from an object that is not there.  Only of a   *)
(* token that a semaphore gave before it was deleted may a thread still be *)
(* told afterwards.                                                        *)
(***************************************************************************)
EXTENDS Integers

CONSTANTS Threads, MaxCount

VARIABLES
  exists,  \* the kinds of which there is an object
  count,   \* the semaphore's
  holds,   \* how often each thread has the mutex
  late     \* who may still be told of a token of a semaphore that is no more

vars == <<exists, count, holds, late>>

Init ==
  /\ exists = {}
  /\ count = 0
  /\ holds = [t \in Threads |-> 0]
  /\ late = {}

\* Nobody but t has the mutex.
Alone(t) == \A u \in Threads \ {t} : holds[u] = 0

Creates(k) == k \notin exists /\ exists' = exists \cup {k}
Deletes(k) == k \in exists /\ exists' = exists \ {k}
Uses(k) == k \in exists /\ UNCHANGED exists

CreateSemaphore ==
  /\ Creates("semaphore") /\ count' \in 0 .. MaxCount
  /\ UNCHANGED <<holds, late>>
Acquire(t) ==
  /\ Uses("semaphore") /\ count > 0 /\ t \notin late
  /\ count' = count - 1
  /\ UNCHANGED <<holds, late>>
Release ==
  Uses("semaphore") /\ count' = count + 1 /\ UNCHANGED <<holds, late>>
DeleteSemaphore ==
  /\ Deletes("semaphore") /\ count' = 0
  /\ \E ts \in SUBSET Threads : late' = late \cup ts
  /\ UNCHANGED holds

\* A success that counts for nothing.
LearnsLate(t) ==
  t \in late /\ late' = late \ {t} /\ UNCHANGED <<exists, count, holds>>

CreateMutex ==
  /\ Creates("mutex") /\ \A t \in Threads : holds[t] = 0
  /\ UNCHANGED <<count, holds, late>>
Lock(t) ==
  /\ Uses("mutex") /\ Alone(t) /\ t \notin late
  /\ holds' = [holds EXCEPT ![t] = @ + 1]
  /\ UNCHANGED <<count, late>>
Unlock(t) ==
  /\ Uses("mutex") /\ Alone(t) /\ holds[t] > 0
  /\ holds' = [holds EXCEPT ![t] = @ - 1]
  /\ UNCHANGED <<count, late>>
DeleteMutex(t) ==
  /\ Deletes("mutex") /\ Alone(t)
  /\ holds' = [u \in Threads |-> 0]
  /\ UNCHANGED <<count, late>>

Next ==
  \/ CreateSemaphore \/ Release \/ DeleteSemaphore \/ CreateMutex
  \/ \E t \in Threads :
       \/ Acquire(t) \/ LearnsLate(t)
       \/ Lock(t) \/ Unlock(t) \/ DeleteMutex(t)

Spec == Init /\ [][Next]_vars

=============================================================================

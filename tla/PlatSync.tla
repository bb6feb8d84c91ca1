------------------------------- MODULE PlatSync -------------------------------
(***************************************************************************)
(* The plat_semaphore_*() and plat_mutex_*() wrappers of setup.cpp, which  *)
(* put an RTOS object into a block of the heap and give its address away   *)
(* as a handle.  Threads share one handle of each kind.                    *)
(*                                                                         *)
(* What the wrappers do not guard against is left to the callers, who are  *)
(* outside this repository: none uses a handle while another one creates   *)
(* or deletes the object, or deletes a mutex that another one has or was   *)
(* just handed.  Only a thread in a wait may see its object deleted,       *)
(* before or after it was given a token, and it must not have asked for    *)
(* the count then.                                                         *)
(***************************************************************************)
EXTENDS Integers, FiniteSets

CONSTANTS
  Threads,
  None,      \* the handle 0
  Blocks,    \* bound: the heap
  MaxCount,  \* osSemaphoreNew(1024, ...)
  Counts,    \* bound: the initial counts asked for
  MaxDepth   \* bound: how often a thread takes the mutex it has

ASSUME HandlesAssumption == None \notin Blocks
ASSUME CountsAssumption ==
  MaxCount \in Nat /\ Counts \subseteq Nat /\ MaxDepth \in Nat
ASSUME SyncThreadsAssumption == IsFiniteSet(Threads)

Kinds == {"semaphore", "mutex"}

VARIABLES
  id,       \* *semaphoreID and *mutexID
  block,    \* the heap: "free", malloc'ed ("raw"), a live object of some kind,
            \* or one the RTOS has deleted
  tokens,   \* external: the live semaphore's
  locks,    \* external: how often each thread has the live mutex
  call,     \* where each thread is in a wrapper
  balance,  \* history: the semaphore's tokens as the returned statuses tell
  taken,    \* history: how often each thread has the mutex, likewise
  late      \* history: who was given a token by a semaphore that was deleted
            \* before the thread is told

rtosVars == <<tokens, locks>>
toldVars == <<balance, taken, late>>
vars == <<id, block, rtosVars, call, toldVars>>

InCall(at, kind, of, counters) ==
  [at |-> at, kind |-> kind, of |-> of, os |-> "osOK", counters |-> counters]
Idle == InCall("idle", "mutex", None, FALSE)
BackWith(c, os) == [c EXCEPT !.at = "back", !.os = os]

SyncTypeOK ==
  /\ id \in [Kinds -> Blocks \cup {None}]
  /\ block \in [Blocks -> Kinds \cup {"free", "raw", "deleted"}]
  /\ tokens \in 0 .. MaxCount
  /\ locks \in [Threads -> 0 .. MaxDepth]
  /\ call \in [Threads ->
       [at : {"idle", "creating", "waiting", "back", "deleting"},
        kind : Kinds, of : Blocks \cup {None},
        os : {"osOK", "osErrorTimeout", "osErrorResource"},
        counters : BOOLEAN]]
  /\ balance \in Nat
  /\ taken \in [Threads -> 0 .. MaxDepth]
  /\ late \subseteq Threads

Init ==
  /\ id = [k \in Kinds |-> None]
  /\ block = [b \in Blocks |-> "free"]
  /\ tokens = 0 /\ balance = 0
  /\ locks = [t \in Threads |-> 0] /\ taken = locks
  /\ call = [t \in Threads |-> Idle]
  /\ late = {}

In(t, at, k) == call[t].at = at /\ call[t].kind = k
Doing(at, k) == {t \in Threads : In(t, at, k)}
Waiters(k) == Doing("waiting", k)

\* The RTOS has given them what they waited for; they have not returned yet.
Granted(k) == {t \in Doing("back", k) : call[t].os = "osOK"}

\* t may call a wrapper for the object of kind k.
MayCall(t, k) ==
  call[t].at = "idle" /\ id[k] # None /\ Doing("deleting", k) = {}

-----------------------------------------------------------------------------
(* Creation.  Without a free block malloc() fails and nothing changes.     *)

Mallocs(t, k) ==
  /\ call[t].at = "idle" /\ id[k] = None /\ Doing("creating", k) = {}
  /\ \E b \in Blocks :
       /\ block[b] = "free"
       /\ block' = [block EXCEPT ![b] = "raw"]
       /\ call' = [call EXCEPT ![t] = InCall("creating", k, b, FALSE)]
  /\ UNCHANGED <<id, rtosVars, toldVars>>

\* Wrong variant: the block is not freed.
OsNewFailsAndLeaks(t, k) ==
  /\ In(t, "creating", k)
  /\ call' = [call EXCEPT ![t] = Idle]
  /\ UNCHANGED <<id, block, rtosVars, toldVars>>

OsNewFails(t, k) ==
  /\ In(t, "creating", k)
  /\ block' = [block EXCEPT ![call[t].of] = "free"]
  /\ call' = [call EXCEPT ![t] = Idle]
  /\ UNCHANGED <<id, rtosVars, toldVars>>

OsNews(t, k) ==
  /\ In(t, "creating", k)
  /\ block' = [block EXCEPT ![call[t].of] = k]
  /\ id' = [id EXCEPT ![k] = call[t].of]
  /\ call' = [call EXCEPT ![t] = Idle]
  /\ UNCHANGED <<locks, taken, late>>

plat_semaphore_create(t) ==
  \/ Mallocs(t, "semaphore") \/ OsNewFails(t, "semaphore")
  \/ \E count \in Counts :       \* a count above the maximum is refused
       /\ count <= MaxCount
       /\ OsNews(t, "semaphore")
       /\ tokens' = count /\ balance' = count

plat_mutex_create(t) ==
  \/ Mallocs(t, "mutex") \/ OsNewFails(t, "mutex")
  \/ OsNews(t, "mutex") /\ UNCHANGED <<tokens, balance>>

-----------------------------------------------------------------------------
(* Waiting.  The RTOS hands a released object over to a thread that waits. *)

plat_semaphore_wait(t) ==
  /\ MayCall(t, "semaphore")
  /\ \E counters \in BOOLEAN :
       LET c == InCall("waiting", "semaphore", id["semaphore"], counters)
       IN \/ /\ tokens > 0
             /\ tokens' = tokens - 1
             /\ call' = [call EXCEPT ![t] = BackWith(c, "osOK")]
          \/ /\ tokens = 0
             /\ \/ call' = [call EXCEPT ![t] = c]
                \/ call' = [call EXCEPT ![t] = BackWith(c, "osErrorResource")]
             /\ UNCHANGED tokens
  /\ UNCHANGED <<id, block, locks, toldVars>>

TimesOut(t) ==
  /\ In(t, "waiting", "semaphore")
  /\ call' = [call EXCEPT ![t] = BackWith(@, "osErrorTimeout")]
  /\ UNCHANGED <<id, block, rtosVars, toldVars>>

plat_mutex_wait(t) ==
  /\ MayCall(t, "mutex")
  /\ locks[t] < MaxDepth
  /\ LET c == InCall("waiting", "mutex", id["mutex"], FALSE)
     IN IF \A u \in Threads \ {t} : locks[u] = 0
        THEN /\ locks' = [locks EXCEPT ![t] = @ + 1]
             /\ call' = [call EXCEPT ![t] = BackWith(c, "osOK")]
        ELSE call' = [call EXCEPT ![t] = c] /\ UNCHANGED locks
  /\ UNCHANGED <<id, block, tokens, toldVars>>

\* Wrong variant: only a time-out is reported.
succeeded_unless_timeout(os) == os # "osErrorTimeout"

\* The status 0.
succeeded(os) == os = "osOK"

\* osSemaphoreGetCount(semaphore->semaphoreID) is still to come.
reads_count(c) == c.at = "back" /\ c.counters

\* What the caller makes of the status a wait returns.  The token of a
\* semaphore deleted meanwhile is none of the next one's.
WaitReturns(t) ==
  /\ call[t].at = "back"
  /\ call' = [call EXCEPT ![t] = Idle]
  /\ late' = late \ {t}
  /\ LET got(k) ==
           call[t].kind = k /\ succeeded(call[t].os) /\ t \notin late
     IN /\ balance' = IF got("semaphore") THEN balance - 1 ELSE balance
        /\ taken' = [taken EXCEPT ![t] = IF got("mutex") THEN @ + 1 ELSE @]
  /\ UNCHANGED <<id, block, rtosVars>>

-----------------------------------------------------------------------------
(* Releasing.  A full semaphore, or a mutex the thread has not got, is     *)
(* refused and nothing changes.                                            *)

plat_semaphore_release(t) ==
  /\ MayCall(t, "semaphore")
  /\ IF Waiters("semaphore") = {}
     THEN /\ tokens < MaxCount
          /\ tokens' = tokens + 1
          /\ UNCHANGED call
     ELSE /\ \E w \in Waiters("semaphore") :
               call' = [call EXCEPT ![w] = BackWith(@, "osOK")]
          /\ UNCHANGED tokens
  /\ balance' = balance + 1
  /\ UNCHANGED <<id, block, locks, taken, late>>

plat_mutex_release(t) ==
  /\ MayCall(t, "mutex")
  /\ locks[t] > 0
  /\ IF locks[t] > 1 \/ Waiters("mutex") = {}
     THEN locks' = [locks EXCEPT ![t] = @ - 1] /\ UNCHANGED call
     ELSE \E w \in Waiters("mutex") :
            /\ locks' = [locks EXCEPT ![t] = 0, ![w] = 1]
            /\ call' = [call EXCEPT ![w] = BackWith(@, "osOK")]
  /\ taken' = [taken EXCEPT ![t] = @ - 1]
  /\ UNCHANGED <<id, block, tokens, balance, late>>

-----------------------------------------------------------------------------
(* Deletion: the RTOS deletes the object, which sends the waiting threads  *)
(* back; then the block is freed and the handle reset.  A wait that was    *)
(* granted before returns its success all the same.                        *)

\* The code checks the handle only; the rest is assumed of the callers.
MayDelete(t, k) ==
  /\ MayCall(t, k)
  /\ \A u \in Threads \ {t} :
       /\ k = "mutex" => locks[u] = 0
       /\ call[u].at # "idle" /\ call[u].kind = k => ~call[u].counters

\* Wrong variant: the block is freed first.
FreesFirst(t, k) ==
  /\ MayDelete(t, k)
  /\ block' = [block EXCEPT ![id[k]] = "free"]
  /\ call' = [call EXCEPT ![t] = InCall("deleting", k, id[k], FALSE)]
  /\ UNCHANGED <<id, rtosVars, toldVars>>

OsDeletes(t, k) ==
  /\ MayDelete(t, k)
  /\ block' = [block EXCEPT ![id[k]] = "deleted"]
  /\ call' = [u \in Threads |->
       IF u = t THEN InCall("deleting", k, id[k], FALSE)
       ELSE IF u \in Waiters(k) THEN BackWith(call[u], "osErrorResource")
       ELSE call[u]]
  /\ IF k = "mutex"
     THEN /\ locks' = [u \in Threads |-> 0] /\ taken' = locks'
          /\ UNCHANGED <<tokens, balance, late>>
     ELSE /\ tokens' = 0 /\ balance' = 0
          /\ late' = late \cup Granted("semaphore")
          /\ UNCHANGED <<locks, taken>>
  /\ UNCHANGED id

Frees(t, k) ==
  /\ In(t, "deleting", k)
  /\ block' = [block EXCEPT ![call[t].of] = "free"]
  /\ id' = [id EXCEPT ![k] = None]
  /\ call' = [call EXCEPT ![t] = Idle]
  /\ UNCHANGED <<rtosVars, toldVars>>

plat_semaphore_delete(t) == OsDeletes(t, "semaphore") \/ Frees(t, "semaphore")
plat_mutex_delete(t) == OsDeletes(t, "mutex") \/ Frees(t, "mutex")

-----------------------------------------------------------------------------
Next ==
  \E t \in Threads :
    \/ plat_semaphore_create(t) \/ plat_mutex_create(t)
    \/ plat_semaphore_wait(t) \/ plat_mutex_wait(t)
    \/ TimesOut(t) \/ WaitReturns(t)
    \/ plat_semaphore_release(t) \/ plat_mutex_release(t)
    \/ plat_semaphore_delete(t) \/ plat_mutex_delete(t)

Spec == Init /\ [][Next]_vars

-----------------------------------------------------------------------------
(* Properties.                                                             *)

\* No block is lost, not even when a creation fails half way, and a handle that
\* is not 0 is that of an object, but for the moments of its deletion.
HandlesMatch ==
  LET creating == {t \in Threads : call[t].at = "creating"}
  IN /\ {b \in Blocks : block[b] # "free"} =
          {call[t].of : t \in creating} \cup ({id[k] : k \in Kinds} \ {None})
     /\ \A k \in Kinds : id[k] # None =>
          block[id[k]] = IF Doing("deleting", k) # {} THEN "deleted" ELSE k

\* No thread waits inside a block, or is about to read it, that was freed under
\* it, nor one that holds another object by now.
NoDangling ==
  \A t \in Threads :
    /\ call[t].at = "waiting" => block[call[t].of] = call[t].kind
    /\ reads_count(call[t]) => block[call[t].of] = call[t].kind

\* The statuses tell the truth: a thread that was told it has the mutex has it,
\* alone, and the tokens add up, though waits time out, objects are deleted
\* under their waiters, and blocks are used again.  A token given by a semaphore
\* that is deleted before its wait returns is told of, but not one of the next.
StatusesTruthful ==
  LET pending(k) == Granted(k) \ late
  IN /\ tokens + Cardinality(pending("semaphore")) = balance
     /\ \A t \in Threads :
          locks[t] = taken[t] + IF t \in pending("mutex") THEN 1 ELSE 0
     /\ \A t, u \in Threads : taken[t] > 0 /\ taken[u] > 0 => t = u

\* The object of kind k, from its creation until the RTOS deletes it.
Exists(k) == id[k] # None /\ Doing("deleting", k) = {}

\* To callers who know only the statuses, the wrappers are a counter and a lock
\* that one thread has at a time, however waits, time-outs, deletions and the
\* reuse of blocks overlap: a success is returned for an object that is there
\* and has something to give, or else, once, to a thread that was in a wait when
\* the semaphore was deleted, and then takes nothing from another one.
Objects == INSTANCE SyncObjects WITH
  exists <- {k \in Kinds : Exists(k)}, count <- balance, holds <- taken
ActsAsObjects == Objects!Spec

=============================================================================

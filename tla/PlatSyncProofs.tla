---------------------------- MODULE PlatSyncProofs ----------------------------
(***************************************************************************)
(* For any number of threads and any heap: the handles match the heap, no  *)
(* thread waits in, or will read, a block that was taken away, and to      *)
(* callers who go by the statuses the wrappers are SyncObjects.            *)
(***************************************************************************)
EXTENDS PlatSync, FiniteSetTheorems, TLAPS

Calls == [at : {"idle", "creating", "waiting", "back", "deleting"},
          kind : Kinds, of : Blocks \cup {None},
          os : {"osOK", "osErrorTimeout", "osErrorResource"},
          counters : BOOLEAN]

HandleTypes ==
  /\ id \in [Kinds -> Blocks \cup {None}]
  /\ block \in [Blocks -> Kinds \cup {"free", "raw", "deleted"}]
  /\ call \in [Threads -> Calls]

Creates(t) == call[t].at = "creating"
Deletes(t) == call[t].at = "deleting"

\* t will touch the block it was called with.
Inside(t) == call[t].at = "waiting" \/ reads_count(call[t])

\* A block that is being made into an object belongs to one thread, which alone
\* makes one of this kind.
OneCreator ==
  \A t \in Threads : Creates(t) =>
    /\ call[t].of \in Blocks /\ block[call[t].of] = "raw"
    /\ id[call[t].kind] = None
    /\ \A u \in Threads : Creates(u) /\ u # t =>
         call[u].kind # call[t].kind /\ call[u].of # call[t].of

\* One thread deletes an object, which the handle still names.
OneDeleter ==
  \A t \in Threads : Deletes(t) =>
    /\ id[call[t].kind] = call[t].of /\ call[t].of # None
    /\ \A u \in Threads : Deletes(u) /\ u # t => call[u].kind # call[t].kind

\* The handle still names the block a thread is in, and nobody deletes it.
InsideLive ==
  \A t \in Threads : Inside(t) =>
    /\ call[t].of = id[call[t].kind] /\ call[t].of # None
    /\ \A u \in Threads : Deletes(u) => call[u].kind # call[t].kind

\* What a handle names is an object of its kind, and of no other handle.
HandlesNameObjects ==
  \A k \in Kinds : id[k] # None =>
    /\ (\E t \in Threads : In(t, "deleting", k)) => block[id[k]] = "deleted"
    /\ (\A t \in Threads : ~ In(t, "deleting", k)) => block[id[k]] = k
    /\ \A j \in Kinds : j # k => id[j] # id[k]

NoBlockLost ==
  \A b \in Blocks : block[b] # "free" <=>
    \/ \E t \in Threads : Creates(t) /\ call[t].of = b
    \/ \E k \in Kinds : id[k] = b

Inv == HandleTypes /\ OneCreator /\ OneDeleter /\ InsideLive
       /\ HandlesNameObjects /\ NoBlockLost

LEMMA InitInv == Init => Inv
<1> SUFFICES ASSUME Init PROVE Inv
  OBVIOUS
<1>1. /\ \A k \in Kinds : id[k] = None
      /\ \A b \in Blocks : block[b] = "free"
      /\ \A t \in Threads : call[t].at = "idle"
  BY DEF Init, Idle, InCall
<1>2. HandleTypes
  BY DEF Init, HandleTypes, Calls, Kinds, Idle, InCall
<1>3. OneCreator /\ OneDeleter /\ InsideLive
  BY <1>1 DEF OneCreator, OneDeleter, InsideLive, Creates, Deletes, Inside,
              reads_count
<1>4. HandlesNameObjects /\ NoBlockLost
  BY <1>1, HandlesAssumption DEF HandlesNameObjects, NoBlockLost, Creates
<1>5. QED
  BY <1>2, <1>3, <1>4 DEF Inv

-----------------------------------------------------------------------------
(* Waiting and releasing touch neither the heap nor the handles.           *)

\* Threads that create or delete go on doing so, no other one begins to, and
\* one that comes inside a block does so by its handle.
LEMMA QuietStep ==
  ASSUME Inv, UNCHANGED <<id, block>>, call' \in [Threads -> Calls],
         \A t \in Threads :
           /\ Creates(t) \/ Deletes(t) => call'[t] = call[t]
           /\ Creates(t)' => Creates(t)
           /\ Deletes(t)' => Deletes(t)
           /\ Inside(t)' => \/ Inside(t) /\ call'[t].of = call[t].of
                                         /\ call'[t].kind = call[t].kind
                            \/ /\ call'[t].of = id[call'[t].kind]
                               /\ call'[t].of # None
                               /\ Doing("deleting", call'[t].kind) = {}
  PROVE  Inv'
<1> USE DEF Inv, Creates, Deletes
<1>1. HandleTypes'
  BY DEF HandleTypes
<1>2. OneCreator'
  BY DEF OneCreator
<1>3. OneDeleter'
  BY DEF OneDeleter
<1>4. InsideLive'
  BY DEF InsideLive, Doing, In
<1>5. HandlesNameObjects'
  BY DEF HandlesNameObjects, In
<1>6. NoBlockLost'
  BY DEF NoBlockLost
<1>7. QED
  BY <1>1, <1>2, <1>3, <1>4, <1>5, <1>6

\* An idle thread calls a wait: it is then inside its handle's block.
LEMMA AsksInv ==
  ASSUME Inv, NEW t \in Threads, NEW k \in Kinds, MayCall(t, k),
         NEW counters \in BOOLEAN, UNCHANGED <<id, block>>,
         NEW os \in {"osOK", "osErrorResource"},
         LET c == InCall("waiting", k, id[k], counters)
         IN call' \in {[call EXCEPT ![t] = c],
                       [call EXCEPT ![t] = BackWith(c, os)]}
  PROVE  Inv'
<1>1. PICK c \in Calls :
        /\ c.at \in {"waiting", "back"} /\ c.of = id[k] /\ c.kind = k
        /\ call' = [call EXCEPT ![t] = c]
  <2>1. id[k] \in Blocks \cup {None}
    BY DEF Inv, HandleTypes
  <2>2. QED
    BY <2>1 DEF Calls, InCall, BackWith
<1>2. QED
  BY <1>1, QuietStep
  DEF MayCall, Inv, HandleTypes, Creates, Deletes, Inside, reads_count

LEMMA WaitsInv ==
  ASSUME Inv, NEW t \in Threads, plat_semaphore_wait(t) \/ plat_mutex_wait(t)
  PROVE  Inv'
<1>1. CASE plat_semaphore_wait(t)
  BY <1>1, AsksInv, Zenon DEF plat_semaphore_wait, Kinds
<1>2. CASE plat_mutex_wait(t)
  BY <1>2, AsksInv, Zenon DEF plat_mutex_wait, Kinds
<1>3. QED
  BY <1>1, <1>2

\* A waiting thread is sent back, or one that is back returns.
LEMMA GoesBackInv ==
  ASSUME Inv, NEW w \in Threads, NEW c, UNCHANGED <<id, block>>,
         \/ /\ call[w].at = "waiting"
            /\ \E os \in {"osOK", "osErrorTimeout", "osErrorResource"} :
                 c = BackWith(call[w], os)
         \/ call[w].at = "back" /\ c = Idle,
         call' = [call EXCEPT ![w] = c]
  PROVE  Inv'
<1>1. c \in Calls /\ c.at \in {"back", "idle"}
      /\ (c.at = "back" => c.of = call[w].of /\ c.kind = call[w].kind
                           /\ call[w].at = "waiting")
  <2>1. CASE call[w].at = "back" /\ c = Idle
    BY <2>1 DEF Calls, Idle, InCall, Kinds
  <2>2. ASSUME NEW os \in {"osOK", "osErrorTimeout", "osErrorResource"},
               c = BackWith(call[w], os), call[w].at = "waiting"
        PROVE  <1>1!:
    <3>1. call[w] \in Calls
      BY DEF Inv, HandleTypes
    <3>2. QED
      BY <2>2, <3>1 DEF Calls, BackWith
  <2>3. QED
    BY <2>1, <2>2
<1>2. QED
  BY <1>1, QuietStep
  DEF Inv, HandleTypes, Creates, Deletes, Inside, reads_count

LEMMA ReturnsInv ==
  ASSUME Inv, NEW t \in Threads, TimesOut(t) \/ WaitReturns(t)
  PROVE  Inv'
<1>1. CASE TimesOut(t)
  BY <1>1, GoesBackInv, Zenon DEF TimesOut, In
<1>2. CASE WaitReturns(t)
  BY <1>2, GoesBackInv, Zenon DEF WaitReturns
<1>3. QED
  BY <1>1, <1>2

LEMMA ReleasesInv ==
  ASSUME Inv, NEW t \in Threads,
         plat_semaphore_release(t) \/ plat_mutex_release(t)
  PROVE  Inv'
<1>1. CASE UNCHANGED call
  BY <1>1, QuietStep
  DEF plat_semaphore_release, plat_mutex_release, Inv, HandleTypes, Creates,
      Deletes, Inside, reads_count
<1>2. ASSUME NEW w \in Threads, call[w].at = "waiting",
             call' = [call EXCEPT ![w] = BackWith(@, "osOK")]
      PROVE  Inv'
  BY <1>2, GoesBackInv, Zenon DEF plat_semaphore_release, plat_mutex_release
<1>3. QED
  BY <1>1, <1>2, Zenon
  DEF plat_semaphore_release, plat_mutex_release, Waiters, Doing, In

-----------------------------------------------------------------------------
(* Creating.                                                               *)

LEMMA MallocsInv ==
  ASSUME Inv, NEW t \in Threads, NEW k \in Kinds, Mallocs(t, k)
  PROVE  Inv'
<1> USE DEF Inv, HandleTypes, Creates, Deletes
<1>1. PICK b \in Blocks :
        /\ block[b] = "free" /\ block' = [block EXCEPT ![b] = "raw"]
        /\ call' = [call EXCEPT ![t] = InCall("creating", k, b, FALSE)]
  BY DEF Mallocs
<1>2. /\ call[t].at = "idle" /\ id[k] = None /\ id' = id
      /\ \A u \in Threads : Creates(u) => call[u].kind # k
  BY DEF Mallocs, Doing, In
<1>3. /\ call'[t].at = "creating" /\ call'[t].of = b /\ call'[t].kind = k
      /\ \A u \in Threads : u # t => call'[u] = call[u]
      /\ block'[b] = "raw"
      /\ \A c \in Blocks : c # b => block'[c] = block[c]
  BY <1>1 DEF InCall
<1>4. (\A u \in Threads : Creates(u) => call[u].of # b)
      /\ (\A j \in Kinds : id[j] # b)
  BY <1>1 DEF NoBlockLost
<1>5. HandleTypes'
  <2>1. InCall("creating", k, b, FALSE) \in Calls
    BY DEF InCall, Calls
  <2>2. QED
    BY <1>1, <1>2, <2>1
<1>6. OneCreator'
  BY <1>2, <1>3, <1>4 DEF OneCreator
<1>7. OneDeleter'
  BY <1>2, <1>3 DEF OneDeleter
<1>8. InsideLive'
  BY <1>2, <1>3 DEF InsideLive, Inside, reads_count
<1>9. HandlesNameObjects'
  BY <1>2, <1>3, <1>4 DEF HandlesNameObjects, In
<1>10. NoBlockLost'
  BY <1>2, <1>3, <1>4 DEF NoBlockLost
<1>11. QED
  BY <1>5, <1>6, <1>7, <1>8, <1>9, <1>10

LEMMA OsNewFailsInv ==
  ASSUME Inv, NEW t \in Threads, NEW k \in Kinds, OsNewFails(t, k)
  PROVE  Inv'
<1> USE DEF Inv, HandleTypes, Creates, Deletes
<1> DEFINE b == call[t].of
<1>1. /\ Creates(t) /\ call[t].kind = k /\ id' = id
      /\ block' = [block EXCEPT ![b] = "free"]
      /\ call' = [call EXCEPT ![t] = Idle]
  BY DEF OsNewFails, In
<1>2. /\ b \in Blocks /\ block[b] = "raw"
      /\ \A u \in Threads : Creates(u) /\ u # t => call[u].of # b
  BY <1>1 DEF OneCreator
<1>3. \A j \in Kinds : id[j] # b
  BY <1>2, HandlesAssumption DEF HandlesNameObjects, Kinds
<1>4. /\ call'[t].at = "idle"
      /\ \A u \in Threads : u # t => call'[u] = call[u]
      /\ block'[b] = "free"
      /\ \A c \in Blocks : c # b => block'[c] = block[c]
  BY <1>1, <1>2 DEF Idle, InCall
<1>5. HandleTypes'
  <2>1. Idle \in Calls
    BY DEF Idle, InCall, Calls, Kinds
  <2>2. QED
    BY <1>1, <1>2, <2>1
<1>6. OneCreator'
  BY <1>1, <1>2, <1>4 DEF OneCreator
<1>7. OneDeleter'
  BY <1>1, <1>4 DEF OneDeleter
<1>8. InsideLive'
  BY <1>1, <1>4 DEF InsideLive, Inside, reads_count
<1>9. HandlesNameObjects'
  BY <1>1, <1>3, <1>4 DEF HandlesNameObjects, In
<1>10. NoBlockLost'
  BY <1>1, <1>2, <1>3, <1>4 DEF NoBlockLost
<1>11. QED
  BY <1>5, <1>6, <1>7, <1>8, <1>9, <1>10

LEMMA OsNewsInv ==
  ASSUME Inv, NEW t \in Threads, NEW k \in Kinds, OsNews(t, k)
  PROVE  Inv'
<1> USE DEF Inv, HandleTypes, Creates, Deletes
<1> DEFINE b == call[t].of
<1>1. /\ Creates(t) /\ call[t].kind = k
      /\ id' = [id EXCEPT ![k] = b]
      /\ block' = [block EXCEPT ![b] = k]
      /\ call' = [call EXCEPT ![t] = Idle]
  BY DEF OsNews, In
<1>2. /\ b \in Blocks /\ block[b] = "raw" /\ id[k] = None
      /\ \A u \in Threads : Creates(u) /\ u # t =>
           call[u].kind # k /\ call[u].of # b
  BY <1>1 DEF OneCreator
<1>3. \A j \in Kinds : id[j] # b
  BY <1>2, HandlesAssumption DEF HandlesNameObjects, Kinds
<1>4. /\ call'[t].at = "idle"
      /\ \A u \in Threads : u # t => call'[u] = call[u]
      /\ block'[b] = k /\ k # "free" /\ k # "raw" /\ b # None
      /\ \A c \in Blocks : c # b => block'[c] = block[c]
      /\ id'[k] = b
      /\ \A j \in Kinds : j # k => id'[j] = id[j]
  BY <1>1, <1>2, HandlesAssumption DEF Idle, InCall, Kinds
<1>5. HandleTypes'
  <2>1. Idle \in Calls
    BY DEF Idle, InCall, Calls, Kinds
  <2>2. QED
    BY <1>1, <1>2, <2>1
<1>6. OneCreator'
  BY <1>1, <1>2, <1>4 DEF OneCreator, Calls
<1>7. OneDeleter'
  BY <1>1, <1>2, <1>4 DEF OneDeleter, Calls
<1>8. InsideLive'
  BY <1>1, <1>2, <1>4 DEF InsideLive, Inside, reads_count, Calls
<1>9. HandlesNameObjects'
  <2>1. \A u \in Threads : ~ In(u, "deleting", k)
    BY <1>2 DEF OneDeleter, In
  <2>2. QED
    BY <2>1, <1>1, <1>3, <1>4 DEF HandlesNameObjects, In
<1>10. NoBlockLost'
  BY <1>1, <1>2, <1>3, <1>4, HandlesAssumption DEF NoBlockLost
<1>11. QED
  BY <1>5, <1>6, <1>7, <1>8, <1>9, <1>10

-----------------------------------------------------------------------------
(* Deleting.                                                               *)

LEMMA OsDeletesInv ==
  ASSUME Inv, NEW t \in Threads, NEW k \in Kinds, OsDeletes(t, k)
  PROVE  Inv'
<1> USE DEF Inv, HandleTypes, Creates, Deletes
<1> DEFINE b == id[k]
<1>1. /\ call[t].at = "idle" /\ id' = id /\ b # None /\ b \in Blocks
      /\ \A u \in Threads : ~ In(u, "deleting", k)
      /\ block' = [block EXCEPT ![b] = "deleted"]
  BY DEF OsDeletes, MayDelete, MayCall, Doing
<1>2. \A u \in Threads :
        In(u, "back", k) => ~ reads_count(call[u])
  BY <1>1 DEF OsDeletes, MayDelete, In, reads_count
<1>3. /\ call' \in [Threads -> Calls]
      /\ call'[t].at = "deleting" /\ call'[t].kind = k /\ call'[t].of = b
      /\ \A u \in Threads : u # t =>
           \/ call'[u] = call[u] /\ ~ In(u, "waiting", k)
           \/ /\ In(u, "waiting", k) /\ In(u, "back", k)'
              /\ ~ reads_count(call'[u])
  <2> DEFINE c == InCall("deleting", k, b, FALSE)
  <2>1. call' = [u \in Threads |->
          IF u = t THEN c
          ELSE IF u \in Waiters(k) THEN BackWith(call[u], "osErrorResource")
          ELSE call[u]]
    BY DEF OsDeletes
  <2>2. c \in Calls /\ c.at = "deleting" /\ c.kind = k /\ c.of = b
    BY <1>1 DEF InCall, Calls
  <2>3. ASSUME NEW u \in Threads, u # t, u \in Waiters(k)
        PROVE  /\ BackWith(call[u], "osErrorResource") \in Calls
               /\ In(u, "waiting", k) /\ In(u, "back", k)'
               /\ ~ reads_count(call'[u])
    <3>1. call[u] \in Calls /\ call[u].at = "waiting" /\ call[u].kind = k
          /\ ~ call[u].counters
      BY <2>3 DEF OsDeletes, MayDelete, Waiters, Doing, In
    <3>2. call'[u] = BackWith(call[u], "osErrorResource")
      BY <2>1, <2>3
    <3>3. QED
      BY <3>1, <3>2 DEF BackWith, Calls, In, reads_count
  <2>4. \A u \in Threads : u \notin Waiters(k) => ~ In(u, "waiting", k)
    BY DEF Waiters, Doing
  <2>5. QED
    BY <2>1, <2>2, <2>3, <2>4
<1>4. /\ block'[b] = "deleted"
      /\ \A c \in Blocks : c # b => block'[c] = block[c]
      /\ \A j \in Kinds : j # k => id[j] # b
      /\ block[b] = k /\ k \notin {"free", "raw", "deleted"}
  BY <1>1 DEF HandlesNameObjects, Kinds
<1>5. HandleTypes'
  BY <1>1, <1>3
<1>6. OneCreator'
  BY <1>1, <1>3, <1>4 DEF OneCreator, In
<1>7. OneDeleter'
  BY <1>1, <1>3 DEF OneDeleter, In
<1>8. InsideLive'
  BY <1>1, <1>2, <1>3 DEF InsideLive, Inside, reads_count, In
<1>9. HandlesNameObjects'
  BY <1>1, <1>3, <1>4 DEF HandlesNameObjects, In
<1>10. NoBlockLost'
  BY <1>1, <1>3, <1>4 DEF NoBlockLost, In
<1>11. QED
  BY <1>5, <1>6, <1>7, <1>8, <1>9, <1>10

LEMMA FreesInv ==
  ASSUME Inv, NEW t \in Threads, NEW k \in Kinds, Frees(t, k)
  PROVE  Inv'
<1> USE DEF Inv, HandleTypes, Creates, Deletes
<1> DEFINE b == id[k]
<1>1. /\ Deletes(t) /\ call[t].kind = k
      /\ call[t].of = b /\ b # None /\ b \in Blocks
      /\ \A u \in Threads : Deletes(u) /\ u # t => call[u].kind # k
  BY DEF Frees, In, OneDeleter
<1>2. /\ id' = [id EXCEPT ![k] = None]
      /\ block' = [block EXCEPT ![b] = "free"]
      /\ call' = [call EXCEPT ![t] = Idle]
  BY <1>1 DEF Frees
<1>3. /\ call'[t].at = "idle"
      /\ \A u \in Threads : u # t => call'[u] = call[u]
      /\ block'[b] = "free"
      /\ \A c \in Blocks : c # b => block'[c] = block[c]
      /\ id'[k] = None
      /\ \A j \in Kinds : j # k => id'[j] = id[j]
  BY <1>1, <1>2 DEF Idle, InCall
<1>4. /\ block[b] = "deleted"
      /\ \A j \in Kinds : j # k => id[j] # b
      /\ \A u \in Threads : Creates(u) => call[u].of # b
      /\ \A u \in Threads : Inside(u) => call[u].kind # k
  BY <1>1 DEF HandlesNameObjects, OneCreator, InsideLive, In
<1>5. HandleTypes'
  <2>1. Idle \in Calls
    BY DEF Idle, InCall, Calls, Kinds
  <2>2. QED
    BY <1>1, <1>2, <2>1
<1>6. OneCreator'
  BY <1>1, <1>3, <1>4 DEF OneCreator, Calls
<1>7. OneDeleter'
  BY <1>1, <1>3 DEF OneDeleter, Calls
<1>8. InsideLive'
  BY <1>1, <1>3, <1>4 DEF InsideLive, Inside, reads_count, Calls
<1>9. HandlesNameObjects'
  BY <1>1, <1>3, <1>4 DEF HandlesNameObjects, In
<1>10. NoBlockLost'
  BY <1>1, <1>3, <1>4, HandlesAssumption DEF NoBlockLost
<1>11. QED
  BY <1>5, <1>6, <1>7, <1>8, <1>9, <1>10

-----------------------------------------------------------------------------
(* The theorems.                                                           *)

THEOREM Invariance == Spec => []Inv
<1>1. Inv /\ [Next]_vars => Inv'
  <2> SUFFICES ASSUME Inv, [Next]_vars PROVE Inv'
    OBVIOUS
  <2>1. ASSUME NEW t \in Threads, NEW k \in Kinds,
               Mallocs(t, k) \/ OsNewFails(t, k) \/ OsNews(t, k)
               \/ OsDeletes(t, k) \/ Frees(t, k)
        PROVE  Inv'
    BY <2>1, MallocsInv, OsNewFailsInv, OsNewsInv, OsDeletesInv, FreesInv
  <2>2. CASE UNCHANGED vars
    BY <2>2, QuietStep
    DEF vars, Inv, HandleTypes, Creates, Deletes, Inside, reads_count
  <2>3. QED
    BY <2>1, <2>2, WaitsInv, ReturnsInv, ReleasesInv, Zenon
    DEF Next, plat_semaphore_create, plat_mutex_create, plat_semaphore_delete,
        plat_mutex_delete, Kinds
<1>2. QED
  BY InitInv, <1>1, PTL DEF Spec

\* No block of the heap is lost by a creation that fails half way or by a
\* deletion, and every handle is that of an object of its kind.
THEOREM HandlesAlwaysMatch == Spec => []HandlesMatch
<1>1. Inv => HandlesMatch
  <2> SUFFICES ASSUME Inv PROVE HandlesMatch
    OBVIOUS
  <2> USE DEF Inv, Creates
  <2> DEFINE creating == {t \in Threads : call[t].at = "creating"}
  <2>1. \A b \in Blocks : block[b] # "free" <=>
          b \in {call[t].of : t \in creating} \cup
                ({id[k] : k \in Kinds} \ {None})
    BY HandlesAssumption DEF NoBlockLost
  <2>2. {call[t].of : t \in creating} \subseteq Blocks
    BY DEF OneCreator
  <2>3. {id[k] : k \in Kinds} \ {None} \subseteq Blocks
    BY DEF HandleTypes
  <2>4. {b \in Blocks : block[b] # "free"} =
          {call[t].of : t \in creating} \cup ({id[k] : k \in Kinds} \ {None})
    BY <2>1, <2>2, <2>3, Zenon
  <2>5. \A k \in Kinds : id[k] # None =>
          block[id[k]] = IF Doing("deleting", k) # {} THEN "deleted" ELSE k
    BY DEF HandlesNameObjects, Doing
  <2>6. QED
    BY <2>4, <2>5, Zenon DEF HandlesMatch
<1>2. QED
  BY <1>1, Invariance, PTL

\* No thread waits in a block, or is about to read it, that was freed under it.
THEOREM NoneDangling == Spec => []NoDangling
<1>1. Inv => NoDangling
  BY DEF Inv, InsideLive, Inside, HandlesNameObjects, In, Deletes, NoDangling,
         HandleTypes, Calls
<1>2. QED
  BY <1>1, Invariance, PTL

-----------------------------------------------------------------------------
(* What the statuses tell.                                                 *)

\* t is back with the status 0 of an object that is still there, and has not
\* seen it yet.
Got(t, k) == In(t, "back", k) /\ call[t].os = "osOK" /\ t \notin late
Pending(k) == {t \in Threads : Got(t, k)}

\* Who is to learn of a token too late is on the way back from its wait.
LateBack == late \subseteq Threads /\ \A t \in late : In(t, "back", "semaphore")

\* Nobody may wait for the object or release it.
Gone(k) == id[k] = None \/ \E t \in Threads : In(t, "deleting", k)

\* A new semaphore starts without statuses of the one before.
TokensTold ==
  /\ tokens \in 0 .. MaxCount /\ balance \in Nat
  /\ tokens + Cardinality(Pending("semaphore")) = balance
  /\ Gone("semaphore") => Pending("semaphore") = {}

\* A thread that waits for the mutex has not got it: releasing it hands it to
\* somebody who starts from nothing.
LocksTold ==
  /\ locks \in [Threads -> 0 .. MaxDepth] /\ taken \in [Threads -> 0 .. MaxDepth]
  /\ \A t \in Threads :
       /\ Got(t, "mutex") => locks[t] = taken[t] + 1
       /\ ~ Got(t, "mutex") => locks[t] = taken[t]
       /\ In(t, "waiting", "mutex") => locks[t] = 0
  /\ \A t, u \in Threads : locks[t] > 0 /\ locks[u] > 0 => t = u

LEMMA PendingFinite ==
  ASSUME NEW k
  PROVE  IsFiniteSet(Pending(k)) /\ Cardinality(Pending(k)) \in Nat
<1>1. Pending(k) \in SUBSET Threads
  BY DEF Pending
<1>2. QED
  BY <1>1, SyncThreadsAssumption, FS_Subset, FS_CardinalityType

\* One thread's call changes.
LEMMA OneCall ==
  ASSUME HandleTypes, NEW w \in Threads, NEW c, call' = [call EXCEPT ![w] = c],
         late' \in {late, late \ {w}}, NEW k \in Kinds
  PROVE  /\ \A u \in Threads : u # w =>
              /\ Got(u, k)' <=> Got(u, k)
              /\ In(u, "waiting", k)' <=> In(u, "waiting", k)
              /\ In(u, "deleting", k)' <=> In(u, "deleting", k)
         /\ Got(w, k)' <=> /\ c.at = "back" /\ c.kind = k /\ c.os = "osOK"
                          /\ w \notin late'
         /\ In(w, "waiting", k)' <=> c.at = "waiting" /\ c.kind = k
         /\ In(w, "deleting", k)' <=> c.at = "deleting" /\ c.kind = k
<1>1. /\ call'[w] = c
      /\ \A u \in Threads : u # w => call'[u] = call[u]
  BY DEF HandleTypes
<1>2. QED
  BY <1>1 DEF Got, In

LEMMA TokensQuiet ==
  ASSUME TokensTold, UNCHANGED <<tokens, balance>>,
         \A t \in Threads : Got(t, "semaphore")' <=> Got(t, "semaphore"),
         Gone("semaphore")' => Gone("semaphore") \/ Pending("semaphore") = {}
  PROVE  TokensTold'
<1>1. Pending("semaphore")' = Pending("semaphore")
  BY DEF Pending
<1>2. QED
  BY <1>1 DEF TokensTold

LEMMA LocksQuiet ==
  ASSUME LocksTold, UNCHANGED <<locks, taken>>,
         \A t \in Threads :
           /\ Got(t, "mutex")' <=> Got(t, "mutex")
           /\ In(t, "waiting", "mutex")' => In(t, "waiting", "mutex")
  PROVE  LocksTold'
BY DEF LocksTold

\* A status 0 of the semaphore comes on its way, or is seen.
LEMMA PendingMore ==
  ASSUME NEW w \in Threads, ~ Got(w, "semaphore"), Got(w, "semaphore")',
         \A u \in Threads : u # w => (Got(u, "semaphore")' <=> Got(u, "semaphore"))
  PROVE  Cardinality(Pending("semaphore")') = Cardinality(Pending("semaphore")) + 1
<1>1. /\ Pending("semaphore")' = Pending("semaphore") \cup {w}
      /\ w \notin Pending("semaphore")
  BY DEF Pending
<1>2. QED
  BY <1>1, PendingFinite, FS_AddElement

LEMMA PendingFewer ==
  ASSUME NEW w \in Threads, Got(w, "semaphore"), ~ Got(w, "semaphore")',
         \A u \in Threads : u # w => (Got(u, "semaphore")' <=> Got(u, "semaphore"))
  PROVE  Cardinality(Pending("semaphore")') = Cardinality(Pending("semaphore")) - 1
<1>1. /\ Pending("semaphore")' = Pending("semaphore") \ {w}
      /\ w \in Pending("semaphore")
  BY DEF Pending
<1>2. QED
  BY <1>1, PendingFinite, FS_RemoveElement

Told == TokensTold /\ LocksTold

\* A call that neither was nor becomes a wait or a deletion.
LEMMA CreatingTold ==
  ASSUME Inv, NEW w \in Threads, NEW c, call' = [call EXCEPT ![w] = c],
         UNCHANGED late, call[w].at \in {"idle", "creating"}, c.at \in {"idle", "creating"}
  PROVE  \A k \in Kinds, u \in Threads :
           /\ Got(u, k)' <=> Got(u, k)
           /\ In(u, "waiting", k)' <=> In(u, "waiting", k)
           /\ In(u, "deleting", k)' <=> In(u, "deleting", k)
<1> TAKE k \in Kinds, u \in Threads
<1>1. CASE u = w
  <2>1. ~ Got(w, k) /\ ~ In(w, "waiting", k) /\ ~ In(w, "deleting", k)
    BY DEF Got, In
  <2>2. ~ Got(w, k)' /\ ~ In(w, "waiting", k)' /\ ~ In(w, "deleting", k)'
    BY OneCall DEF Inv
  <2>3. QED
    BY <1>1, <2>1, <2>2
<1>2. CASE u # w
  BY <1>2, OneCall DEF Inv
<1>3. QED
  BY <1>1, <1>2

LEMMA BeginsTold ==
  ASSUME Inv, Told, NEW t \in Threads, NEW k \in Kinds,
         Mallocs(t, k) \/ OsNewFails(t, k)
  PROVE  Told'
<1>1. UNCHANGED <<id, tokens, balance, locks, taken, late>>
  BY DEF Mallocs, OsNewFails, rtosVars, toldVars
<1>2. PICK c : /\ call' = [call EXCEPT ![t] = c] /\ c.at \in {"idle", "creating"}
               /\ call[t].at \in {"idle", "creating"}
  BY DEF Mallocs, OsNewFails, In, Idle, InCall
<1>3. \A j \in Kinds, u \in Threads :
        /\ Got(u, j)' <=> Got(u, j)
        /\ In(u, "waiting", j)' <=> In(u, "waiting", j)
        /\ In(u, "deleting", j)' <=> In(u, "deleting", j)
  BY <1>1, <1>2, CreatingTold
<1>4. TokensTold'
  BY <1>1, <1>3, TokensQuiet, Zenon DEF Told, Gone, Kinds
<1>5. LocksTold'
  BY <1>1, <1>3, LocksQuiet, Zenon DEF Told, Kinds
<1>6. QED
  BY <1>4, <1>5 DEF Told

\* The new semaphore's count is the balance, for nobody is told of the old one.
LEMMA CreatedTold ==
  ASSUME Inv, Told, NEW t \in Threads,
         \/ \E count \in Counts : /\ count <= MaxCount
                                  /\ OsNews(t, "semaphore")
                                  /\ tokens' = count /\ balance' = count
         \/ OsNews(t, "mutex") /\ UNCHANGED <<tokens, balance>>
  PROVE  Told'
<1>1. PICK k \in Kinds : OsNews(t, k)
  BY DEF Kinds
<1>2. /\ call' = [call EXCEPT ![t] = Idle] /\ id' = [id EXCEPT ![k] = call[t].of]
      /\ call[t].at = "creating" /\ call[t].kind = k /\ Idle.at = "idle"
      /\ UNCHANGED <<locks, taken, late>>
  BY <1>1 DEF OsNews, In, Idle, InCall
<1>3. \A j \in Kinds, u \in Threads :
        /\ Got(u, j)' <=> Got(u, j)
        /\ In(u, "waiting", j)' <=> In(u, "waiting", j)
        /\ In(u, "deleting", j)' <=> In(u, "deleting", j)
  BY <1>2, CreatingTold
<1>4. LocksTold'
  BY <1>2, <1>3, LocksQuiet, Zenon DEF Told, Kinds
<1>5. Pending("semaphore")' = Pending("semaphore")
  BY <1>3 DEF Pending, Kinds
<1>6. TokensTold'
  <2>1. CASE k = "semaphore"
    <3>1. Gone("semaphore") /\ Pending("semaphore") = {}
      BY <2>1, <1>2 DEF Inv, OneCreator, Creates, Gone, Told, TokensTold
    <3>2. PICK count \in Counts : /\ count <= MaxCount
                                  /\ tokens' = count /\ balance' = count
      BY <2>1, <1>2 DEF OsNews, In
    <3>3. tokens' \in 0 .. MaxCount /\ balance' \in Nat /\ tokens' + 0 = balance'
      BY <3>2, CountsAssumption
    <3>4. QED
      BY <3>1, <3>3, <1>5, FS_EmptySet DEF TokensTold
  <2>2. CASE k # "semaphore"
    <3>1. UNCHANGED <<tokens, balance>>
      BY <2>2, <1>2 DEF OsNews, In
    <3>2. id'["semaphore"] = id["semaphore"]
      BY <2>2, <1>2 DEF Inv, HandleTypes, Kinds
    <3>3. QED
      BY <3>1, <3>2, <1>3, TokensQuiet, Zenon DEF Told, Gone, Kinds
  <2>3. QED
    BY <2>1, <2>2
<1>7. QED
  BY <1>4, <1>6 DEF Told

-----------------------------------------------------------------------------
(* Waiting.                                                                *)

LEMMA SemaphoreWaitTold ==
  ASSUME Inv, LateBack, Told, NEW t \in Threads, plat_semaphore_wait(t)
  PROVE  Told'
<1>1. /\ call[t].at = "idle" /\ ~ Gone("semaphore")
      /\ UNCHANGED <<id, locks, balance, taken, late>> /\ t \notin late
  BY DEF plat_semaphore_wait, MayCall, Doing, Gone, toldVars, LateBack, In
<1>2. PICK counters \in BOOLEAN :
        LET c == InCall("waiting", "semaphore", id["semaphore"], counters)
        IN \/ /\ tokens > 0
              /\ tokens' = tokens - 1
              /\ call' = [call EXCEPT ![t] = BackWith(c, "osOK")]
           \/ /\ tokens = 0
              /\ \/ call' = [call EXCEPT ![t] = c]
                 \/ call' = [call EXCEPT ![t] = BackWith(c, "osErrorResource")]
              /\ UNCHANGED tokens
  BY DEF plat_semaphore_wait
<1> DEFINE c0 == InCall("waiting", "semaphore", id["semaphore"], counters)
<1>3. PICK c : /\ call' = [call EXCEPT ![t] = c] /\ c.kind = "semaphore"
               /\ c.at \in {"waiting", "back"}
               /\ \/ /\ c.at = "back" /\ c.os = "osOK"
                     /\ tokens > 0 /\ tokens' = tokens - 1
                  \/ (c.at = "waiting" \/ c.os # "osOK") /\ UNCHANGED tokens
  <2> DEFINE ok == BackWith(c0, "osOK")
             failed == BackWith(c0, "osErrorResource")
  <2>1. /\ c0.kind = "semaphore" /\ c0.at = "waiting"
        /\ ok.kind = "semaphore" /\ ok.at = "back" /\ ok.os = "osOK"
        /\ failed.kind = "semaphore" /\ failed.at = "back" /\ failed.os # "osOK"
    BY DEF InCall, BackWith
  <2> HIDE DEF c0, ok, failed
  <2>2. \/ /\ tokens > 0 /\ tokens' = tokens - 1
           /\ call' = [call EXCEPT ![t] = ok]
        \/ call' = [call EXCEPT ![t] = c0] /\ UNCHANGED tokens
        \/ call' = [call EXCEPT ![t] = failed] /\ UNCHANGED tokens
    BY <1>2 DEF c0, ok, failed
  <2>3. CASE call' = [call EXCEPT ![t] = c0] /\ UNCHANGED tokens
    BY <2>1, <2>3
  <2>4. CASE call' = [call EXCEPT ![t] = failed] /\ UNCHANGED tokens
    BY <2>1, <2>4
  <2>5. CASE tokens > 0 /\ tokens' = tokens - 1 /\ call' = [call EXCEPT ![t] = ok]
    BY <2>1, <2>5
  <2>6. QED
    BY <2>2, <2>3, <2>4, <2>5
<1>4. \A k \in Kinds : ~ Got(t, k) /\ ~ In(t, "waiting", k) /\ ~ In(t, "deleting", k)
  BY <1>1 DEF Got, In
<1>5. \A k \in Kinds :
        /\ \A u \in Threads : u # t =>
             /\ Got(u, k)' <=> Got(u, k)
             /\ In(u, "waiting", k)' <=> In(u, "waiting", k)
             /\ In(u, "deleting", k)' <=> In(u, "deleting", k)
        /\ Got(t, k)' <=> c.at = "back" /\ c.kind = k /\ c.os = "osOK"
        /\ In(t, "waiting", k)' <=> c.at = "waiting" /\ c.kind = k
        /\ In(t, "deleting", k)' <=> c.at = "deleting" /\ c.kind = k
  BY <1>1, <1>3, OneCall DEF Inv
<1>6. LocksTold'
  <2>1. ~ Got(t, "mutex")' /\ ~ In(t, "waiting", "mutex")'
    BY <1>3, <1>5 DEF Kinds
  <2>2. QED
    BY <2>1, <1>1, <1>4, <1>5, LocksQuiet DEF Told, Kinds
<1>7. ~ Gone("semaphore")'
  <2>1. \A u \in Threads : ~ In(u, "deleting", "semaphore")'
    BY <1>1, <1>3, <1>5 DEF Gone, Kinds
  <2>2. QED
    BY <2>1, <1>1 DEF Gone
<1>8. TokensTold'
  <2>1. CASE c.at = "back" /\ c.os = "osOK" /\ tokens > 0 /\ tokens' = tokens - 1
    <3>1. Cardinality(Pending("semaphore")') = Cardinality(Pending("semaphore")) + 1
      <4>1. ~ Got(t, "semaphore") /\ Got(t, "semaphore")'
        BY <2>1, <1>3, <1>4, <1>5 DEF Kinds
      <4>2. \A u \in Threads :
              u # t => (Got(u, "semaphore")' <=> Got(u, "semaphore"))
        BY <1>5 DEF Kinds
      <4>3. QED
        BY <4>1, <4>2, PendingMore
    <3>2. /\ Cardinality(Pending("semaphore")) \in Nat
          /\ tokens \in 0 .. MaxCount /\ balance \in Nat
          /\ tokens + Cardinality(Pending("semaphore")) = balance
      BY PendingFinite DEF Told, TokensTold
    <3>3. /\ tokens' \in 0 .. MaxCount
          /\ tokens' + Cardinality(Pending("semaphore")') = balance
      BY <2>1, <3>1, <3>2, CountsAssumption
    <3>4. QED
      BY <3>2, <3>3, <1>1, <1>7 DEF TokensTold
  <2>2. CASE (c.at = "waiting" \/ c.os # "osOK") /\ UNCHANGED tokens
    <3>1. ~ Got(t, "semaphore")'
      BY <2>2, <1>5 DEF Kinds
    <3>2. \A u \in Threads : Got(u, "semaphore")' <=> Got(u, "semaphore")
      BY <3>1, <1>4, <1>5 DEF Kinds
    <3>3. QED
      BY <2>2, <3>2, <1>1, <1>7, TokensQuiet DEF Told
  <2>3. QED
    BY <2>1, <2>2, <1>3
<1>9. QED
  BY <1>6, <1>8 DEF Told

\* The mutex is free, the thread's own, or somebody else's.
LEMMA MutexWaitTold ==
  ASSUME Inv, LateBack, Told, NEW t \in Threads, plat_mutex_wait(t)
  PROVE  Told'
<1>1. /\ call[t].at = "idle" /\ locks[t] < MaxDepth
      /\ UNCHANGED <<id, tokens, balance, taken, late>> /\ t \notin late
  BY DEF plat_mutex_wait, MayCall, toldVars, LateBack, In
<1> DEFINE c0 == InCall("waiting", "mutex", id["mutex"], FALSE)
           ok == BackWith(c0, "osOK")
<1>2. /\ c0.kind = "mutex" /\ c0.at = "waiting"
      /\ ok.kind = "mutex" /\ ok.at = "back" /\ ok.os = "osOK"
  BY DEF InCall, BackWith
<1>3. IF \A u \in Threads \ {t} : locks[u] = 0
      THEN /\ locks' = [locks EXCEPT ![t] = @ + 1]
           /\ call' = [call EXCEPT ![t] = ok]
      ELSE call' = [call EXCEPT ![t] = c0] /\ UNCHANGED locks
  BY DEF plat_mutex_wait
<1> HIDE DEF c0, ok
<1>4. \A k \in Kinds : ~ Got(t, k) /\ ~ In(t, "waiting", k) /\ ~ In(t, "deleting", k)
  BY <1>1 DEF Got, In
<1>5. PICK c \in {c0, ok} : call' = [call EXCEPT ![t] = c]
  BY <1>3
<1>6. \A k \in Kinds :
        /\ \A u \in Threads : u # t =>
             /\ Got(u, k)' <=> Got(u, k)
             /\ In(u, "waiting", k)' <=> In(u, "waiting", k)
             /\ In(u, "deleting", k)' <=> In(u, "deleting", k)
        /\ Got(t, k)' <=> c.at = "back" /\ c.kind = k /\ c.os = "osOK"
        /\ In(t, "waiting", k)' <=> c.at = "waiting" /\ c.kind = k
        /\ In(t, "deleting", k)' <=> c.at = "deleting" /\ c.kind = k
  BY <1>1, <1>5, OneCall DEF Inv
<1>7. TokensTold'
  <2>1. ~ Got(t, "semaphore")' /\ ~ In(t, "deleting", "semaphore")'
    BY <1>2, <1>5, <1>6 DEF Kinds
  <2>2. \A u \in Threads : Got(u, "semaphore")' <=> Got(u, "semaphore")
    BY <2>1, <1>4, <1>6 DEF Kinds
  <2>3. Gone("semaphore")' => Gone("semaphore")
    BY <2>1, <1>1, <1>6 DEF Gone, Kinds
  <2>4. QED
    BY <2>2, <2>3, <1>1, TokensQuiet DEF Told
<1>8. /\ locks \in [Threads -> 0 .. MaxDepth] /\ taken \in [Threads -> 0 .. MaxDepth]
      /\ locks[t] = taken[t]
  BY <1>4 DEF Told, LocksTold, Kinds
<1>9. \A u \in Threads : u # t =>
        /\ Got(u, "mutex")' <=> Got(u, "mutex")
        /\ In(u, "waiting", "mutex")' <=> In(u, "waiting", "mutex")
  BY <1>6 DEF Kinds
<1>10. CASE \A u \in Threads \ {t} : locks[u] = 0
  <2>1. /\ locks' = [locks EXCEPT ![t] = @ + 1]
        /\ call' = [call EXCEPT ![t] = ok]
    BY <1>3, <1>10
  <2>2. Got(t, "mutex")' /\ ~ In(t, "waiting", "mutex")'
    <3>1. call'[t] = ok
      BY <2>1 DEF Inv, HandleTypes
    <3>2. QED
      BY <3>1, <1>1, <1>2 DEF Got, In
  <2>3. /\ locks' \in [Threads -> 0 .. MaxDepth]
        /\ locks'[t] = taken[t] + 1
        /\ \A u \in Threads : u # t => locks'[u] = locks[u] /\ locks'[u] = 0
    BY <2>1, <1>1, <1>8, <1>10, CountsAssumption
  <2>4. ASSUME NEW u \in Threads
        PROVE  /\ Got(u, "mutex")' => locks'[u] = taken[u] + 1
               /\ ~ Got(u, "mutex")' => locks'[u] = taken[u]
               /\ In(u, "waiting", "mutex")' => locks'[u] = 0
    BY <2>2, <2>3, <1>9 DEF Told, LocksTold
  <2>5. \A u, v \in Threads : locks'[u] > 0 /\ locks'[v] > 0 => u = v
    BY <2>3
  <2>6. LocksTold'
    BY <2>3, <2>4, <2>5, <1>1, <1>8 DEF LocksTold
  <2>7. QED
    BY <2>6, <1>7 DEF Told
<1>11. CASE ~ \A u \in Threads \ {t} : locks[u] = 0
  <2>1. call' = [call EXCEPT ![t] = c0] /\ UNCHANGED locks
    BY <1>3, <1>11
  <2>2. ~ Got(t, "mutex")'
    <3>1. call'[t] = c0
      BY <2>1 DEF Inv, HandleTypes
    <3>2. QED
      BY <3>1, <1>2 DEF Got, In
  <2>3. locks[t] = 0
    <3>1. PICK u \in Threads \ {t} : locks[u] # 0
      BY <1>11
    <3>2. locks[u] > 0 /\ locks[t] \in Nat
      BY <3>1, <1>8, CountsAssumption
    <3>3. QED
      BY <3>2 DEF Told, LocksTold
  <2>4. ASSUME NEW u \in Threads
        PROVE  /\ Got(u, "mutex")' => locks[u] = taken[u] + 1
               /\ ~ Got(u, "mutex")' => locks[u] = taken[u]
               /\ In(u, "waiting", "mutex")' => locks[u] = 0
    BY <2>2, <2>3, <1>8, <1>9 DEF Told, LocksTold
  <2>5. LocksTold'
    BY <2>1, <2>4, <1>1 DEF Told, LocksTold
  <2>6. QED
    BY <2>5, <1>7 DEF Told
<1>12. QED
  BY <1>10, <1>11

\* Neither object is concerned.
LEMMA TimesOutTold ==
  ASSUME Inv, Told, NEW t \in Threads, TimesOut(t)
  PROVE  Told'
<1> DEFINE c == BackWith(call[t], "osErrorTimeout")
<1>1. /\ UNCHANGED <<id, tokens, balance, locks, taken, late>>
      /\ call' = [call EXCEPT ![t] = c]
      /\ call[t].at = "waiting"
  BY DEF TimesOut, In, rtosVars, toldVars
<1>2. c.at = "back" /\ c.os # "osOK"
  BY DEF BackWith, Inv, HandleTypes, Calls
<1> HIDE DEF c
<1>3. ASSUME NEW u \in Threads, NEW k \in Kinds
      PROVE  /\ Got(u, k)' <=> Got(u, k)
             /\ In(u, "waiting", k)' => In(u, "waiting", k)
             /\ In(u, "deleting", k)' => In(u, "deleting", k)
  <2>1. CASE u = t
    <3>1. ~ Got(t, k)
      BY <1>1 DEF Got, In
    <3>2. ~ Got(t, k)' /\ ~ In(t, "waiting", k)' /\ ~ In(t, "deleting", k)'
      BY <1>1, <1>2, OneCall DEF Inv
    <3>3. QED
      BY <2>1, <3>1, <3>2
  <2>2. CASE u # t
    BY <2>2, <1>1, OneCall DEF Inv
  <2>3. QED
    BY <2>1, <2>2
<1>4. TokensTold'
  BY <1>1, <1>3, TokensQuiet, Zenon DEF Told, Gone, Kinds
<1>5. LocksTold'
  BY <1>1, <1>3, LocksQuiet, Zenon DEF Told, Kinds
<1>6. QED
  BY <1>4, <1>5 DEF Told

\* A status 0 is seen: from here on the thread counts on what it was told.
LEMMA WaitReturnsTold ==
  ASSUME Inv, Told, NEW t \in Threads, WaitReturns(t)
  PROVE  Told'
<1>1. /\ call[t].at = "back" /\ call' = [call EXCEPT ![t] = Idle] /\ Idle.at = "idle"
      /\ UNCHANGED <<id, tokens, locks>> /\ late' = late \ {t}
      /\ balance' = IF Got(t, "semaphore") THEN balance - 1 ELSE balance
      /\ taken' = [taken EXCEPT ![t] = IF Got(t, "mutex") THEN @ + 1 ELSE @]
  BY DEF WaitReturns, succeeded, Got, In, Idle, InCall, rtosVars
<1>2. \A k \in Kinds :
        /\ \A u \in Threads : u # t =>
             /\ Got(u, k)' <=> Got(u, k)
             /\ In(u, "waiting", k)' <=> In(u, "waiting", k)
             /\ In(u, "deleting", k)' <=> In(u, "deleting", k)
        /\ ~ Got(t, k)' /\ ~ In(t, "waiting", k)' /\ ~ In(t, "deleting", k)'
  BY <1>1, OneCall DEF Inv
<1>3. Gone("semaphore")' => Gone("semaphore")
  BY <1>1, <1>2 DEF Gone, Kinds
<1>4. TokensTold'
  <2>1. CASE ~ Got(t, "semaphore")
    <3>1. \A u \in Threads : Got(u, "semaphore")' <=> Got(u, "semaphore")
      BY <2>1, <1>2 DEF Kinds
    <3>2. QED
      BY <2>1, <3>1, <1>1, <1>3, TokensQuiet DEF Told
  <2>2. CASE Got(t, "semaphore")
    <3>1. Cardinality(Pending("semaphore")') = Cardinality(Pending("semaphore")) - 1
      <4>1. /\ ~ Got(t, "semaphore")'
            /\ \A u \in Threads :
                 u # t => (Got(u, "semaphore")' <=> Got(u, "semaphore"))
        BY <1>2 DEF Kinds
      <4>2. QED
        BY <2>2, <4>1, PendingFewer
    <3>2. /\ Cardinality(Pending("semaphore")) \in Nat
          /\ Cardinality(Pending("semaphore")') \in Nat
      <4>1. Pending("semaphore")' \in SUBSET Threads
        BY DEF Pending
      <4>2. QED
        BY <4>1, PendingFinite, SyncThreadsAssumption, FS_Subset, FS_CardinalityType
    <3>3. /\ tokens \in 0 .. MaxCount /\ balance \in Nat /\ balance' = balance - 1
          /\ tokens + Cardinality(Pending("semaphore")) = balance
      BY <2>2, <1>1 DEF Told, TokensTold
    <3>4. /\ tokens' \in 0 .. MaxCount /\ balance' \in Nat
          /\ tokens' + Cardinality(Pending("semaphore")') = balance'
      BY <3>1, <3>2, <3>3, <1>1, CountsAssumption
    <3>5. ~ Gone("semaphore")
      BY <2>2 DEF Told, TokensTold, Pending
    <3>6. QED
      BY <3>4, <3>5, <1>3 DEF TokensTold
  <2>3. QED
    BY <2>1, <2>2
<1>5. LocksTold'
  <2>1. /\ locks \in [Threads -> 0 .. MaxDepth] /\ taken \in [Threads -> 0 .. MaxDepth]
    BY DEF Told, LocksTold
  <2>2. taken'[t] = locks[t] /\ \A u \in Threads : u # t => taken'[u] = taken[u]
    BY <2>1, <1>1 DEF Told, LocksTold
  <2>3. taken' \in [Threads -> 0 .. MaxDepth]
    <3>1. taken' = [taken EXCEPT ![t] = locks[t]]
      BY <2>1, <2>2, <1>1
    <3>2. QED
      BY <2>1, <3>1
  <2>4. ASSUME NEW u \in Threads
        PROVE  /\ Got(u, "mutex")' => locks[u] = taken'[u] + 1
               /\ ~ Got(u, "mutex")' => locks[u] = taken'[u]
               /\ In(u, "waiting", "mutex")' => locks[u] = 0
    BY <2>2, <1>2 DEF Told, LocksTold, Kinds
  <2>5. QED
    BY <2>1, <2>3, <2>4, <1>1 DEF Told, LocksTold
<1>6. QED
  BY <1>4, <1>5 DEF Told

-----------------------------------------------------------------------------
(* Releasing.                                                              *)

\* A waiter is told that it got what was released; it was told nothing before.
LEMMA WakesEffect ==
  ASSUME Inv, LateBack, NEW w \in Threads, NEW k \in Kinds,
         In(w, "waiting", k), UNCHANGED late,
         call' = [call EXCEPT ![w] = BackWith(@, "osOK")]
  PROVE  /\ ~ Got(w, k) /\ Got(w, k)'
         /\ \A j \in Kinds : ~ In(w, "waiting", j)' /\ (j # k => ~ Got(w, j)')
         /\ \A j \in Kinds : ~ Got(w, j) /\ ~ In(w, "deleting", j)'
         /\ \A j \in Kinds, u \in Threads : u # w =>
              /\ Got(u, j)' <=> Got(u, j)
              /\ In(u, "waiting", j)' <=> In(u, "waiting", j)
              /\ In(u, "deleting", j)' <=> In(u, "deleting", j)
<1> DEFINE c == BackWith(call[w], "osOK")
<1>1. /\ c.at = "back" /\ c.kind = k /\ c.os = "osOK"
      /\ call[w].at = "waiting" /\ w \notin late
  BY DEF BackWith, In, Inv, HandleTypes, Calls, LateBack
<1>2. call' = [call EXCEPT ![w] = c]
  OBVIOUS
<1> HIDE DEF c
<1>3. \A j \in Kinds : ~ Got(w, j)
  BY <1>1 DEF Got, In
<1>4. \A j \in Kinds :
        /\ \A u \in Threads : u # w =>
             /\ Got(u, j)' <=> Got(u, j)
             /\ In(u, "waiting", j)' <=> In(u, "waiting", j)
             /\ In(u, "deleting", j)' <=> In(u, "deleting", j)
        /\ Got(w, j)' <=> /\ c.at = "back" /\ c.kind = j /\ c.os = "osOK"
                         /\ w \notin late'
        /\ In(w, "waiting", j)' <=> c.at = "waiting" /\ c.kind = j
        /\ In(w, "deleting", j)' <=> c.at = "deleting" /\ c.kind = j
  BY <1>2, OneCall DEF Inv
<1>5. QED
  BY <1>1, <1>3, <1>4

\* The token goes to the semaphore or to a waiter.
LEMMA SemaphoreReleaseTold ==
  ASSUME Inv, LateBack, Told, NEW t \in Threads, plat_semaphore_release(t)
  PROVE  Told'
<1>1. /\ UNCHANGED <<id, locks, taken, late>> /\ balance' = balance + 1
      /\ ~ Gone("semaphore")
  BY DEF plat_semaphore_release, MayCall, Doing, Gone
<1>2. /\ Cardinality(Pending("semaphore")) \in Nat
      /\ tokens \in 0 .. MaxCount /\ balance \in Nat
      /\ tokens + Cardinality(Pending("semaphore")) = balance
  BY PendingFinite DEF Told, TokensTold
<1>3. CASE tokens < MaxCount /\ tokens' = tokens + 1 /\ UNCHANGED call
  <2>1. LocksTold'
    BY <1>1, <1>3 DEF Told, LocksTold, Got, In
  <2>2. Pending("semaphore")' = Pending("semaphore") /\ ~ Gone("semaphore")'
    BY <1>1, <1>3 DEF Pending, Got, In, Gone
  <2>3. /\ tokens' \in 0 .. MaxCount /\ balance' \in Nat
        /\ tokens' + Cardinality(Pending("semaphore")) = balance'
    <3> DEFINE n == Cardinality(Pending("semaphore"))
    <3>1. balance' = balance + 1 /\ tokens' = tokens + 1 /\ tokens < MaxCount
      BY <1>1, <1>3
    <3>2. n \in Nat /\ tokens \in 0 .. MaxCount /\ balance \in Nat
          /\ tokens + n = balance
      BY <1>2
    <3> HIDE DEF n
    <3>3. /\ tokens' \in 0 .. MaxCount /\ balance' \in Nat
          /\ tokens' + n = balance'
      BY <3>1, <3>2, CountsAssumption
    <3>4. QED
      BY <3>3 DEF n
  <2>4. TokensTold'
    BY <2>2, <2>3 DEF TokensTold
  <2>5. QED
    BY <2>1, <2>4 DEF Told
<1>4. ASSUME NEW w \in Threads, In(w, "waiting", "semaphore"), UNCHANGED tokens,
             call' = [call EXCEPT ![w] = BackWith(@, "osOK")]
      PROVE  Told'
  <2>1. /\ ~ Got(w, "semaphore") /\ Got(w, "semaphore")'
        /\ \A j \in Kinds : /\ ~ In(w, "waiting", j)'
                            /\ j # "semaphore" => ~ Got(w, j)'
        /\ \A j \in Kinds : ~ Got(w, j) /\ ~ In(w, "deleting", j)'
        /\ \A j \in Kinds, u \in Threads : u # w =>
              /\ Got(u, j)' <=> Got(u, j)
              /\ In(u, "waiting", j)' <=> In(u, "waiting", j)
              /\ In(u, "deleting", j)' <=> In(u, "deleting", j)
    BY <1>1, <1>4, WakesEffect DEF Kinds
  <2>2. LocksTold'
    BY <2>1, <1>1, LocksQuiet DEF Told, Kinds
  <2>3. ~ Gone("semaphore")'
    BY <2>1, <1>1 DEF Gone, Kinds
  <2>4. Cardinality(Pending("semaphore")') = Cardinality(Pending("semaphore")) + 1
    <3>1. \A u \in Threads : u # w => (Got(u, "semaphore")' <=> Got(u, "semaphore"))
      BY <2>1 DEF Kinds
    <3>2. QED
      BY <2>1, <3>1, PendingMore
  <2>5. /\ tokens' \in 0 .. MaxCount /\ balance' \in Nat
        /\ tokens' + Cardinality(Pending("semaphore")') = balance'
    BY <2>4, <1>1, <1>2, <1>4
  <2>6. TokensTold'
    BY <2>3, <2>5 DEF TokensTold
  <2>7. QED
    BY <2>2, <2>6 DEF Told
<1>5. QED
  BY <1>3, <1>4 DEF plat_semaphore_release, Waiters, Doing

\* The last release hands the mutex over to a waiter.
LEMMA MutexReleaseTold ==
  ASSUME Inv, LateBack, Told, NEW t \in Threads, plat_mutex_release(t)
  PROVE  Told'
<1>1. /\ call[t].at = "idle" /\ locks[t] > 0
      /\ UNCHANGED <<id, tokens, balance, late>>
      /\ taken' = [taken EXCEPT ![t] = @ - 1]
  BY DEF plat_mutex_release, MayCall
<1>2. /\ locks \in [Threads -> 0 .. MaxDepth] /\ taken \in [Threads -> 0 .. MaxDepth]
      /\ locks[t] = taken[t] /\ ~ Got(t, "mutex") /\ ~ In(t, "waiting", "mutex")
  BY <1>1 DEF Told, LocksTold, Got, In
<1>3. /\ taken' \in [Threads -> 0 .. MaxDepth] /\ taken'[t] = locks[t] - 1
      /\ \A u \in Threads : u # t => taken'[u] = taken[u]
      /\ locks[t] \in Nat /\ MaxDepth \in Nat /\ locks[t] <= MaxDepth
  BY <1>1, <1>2, CountsAssumption
<1>4. \A u \in Threads : u # t => locks[u] = 0
  <2>1. ASSUME NEW u \in Threads, u # t PROVE ~ (locks[u] > 0)
    BY <2>1, <1>1 DEF Told, LocksTold
  <2>2. \A u \in Threads : locks[u] \in Nat
    BY <1>2, CountsAssumption
  <2>3. QED
    BY <2>1, <2>2
<1>5. CASE locks' = [locks EXCEPT ![t] = @ - 1] /\ UNCHANGED call
  <2>1. /\ locks' \in [Threads -> 0 .. MaxDepth] /\ locks'[t] = locks[t] - 1
        /\ \A u \in Threads : u # t => locks'[u] = locks[u]
    <3>1. locks[t] - 1 \in 0 .. MaxDepth
      BY <1>1, <1>3
    <3>2. locks' = [locks EXCEPT ![t] = locks[t] - 1]
      BY <1>5
    <3>3. QED
      BY <3>1, <3>2, <1>2
  <2>2. \A u \in Threads : /\ Got(u, "mutex")' <=> Got(u, "mutex")
                           /\ In(u, "waiting", "mutex")' <=> In(u, "waiting", "mutex")
    BY <1>1, <1>5 DEF Got, In
  <2>3. ASSUME NEW u \in Threads
        PROVE  /\ Got(u, "mutex")' => locks'[u] = taken'[u] + 1
               /\ ~ Got(u, "mutex")' => locks'[u] = taken'[u]
               /\ In(u, "waiting", "mutex")' => locks'[u] = 0
    BY <2>1, <2>2, <1>2, <1>3 DEF Told, LocksTold
  <2>4. \A u, v \in Threads : locks'[u] > 0 /\ locks'[v] > 0 => u = v
    BY <2>1, <1>4
  <2>5. LocksTold'
    BY <2>1, <2>3, <2>4, <1>3 DEF LocksTold
  <2>6. TokensTold'
    BY <1>1, <1>5, TokensQuiet DEF Told, Got, In, Gone
  <2>7. QED
    BY <2>5, <2>6 DEF Told
<1>6. ASSUME NEW w \in Threads, In(w, "waiting", "mutex"), ~ (locks[t] > 1),
             locks' = [locks EXCEPT ![t] = 0, ![w] = 1],
             call' = [call EXCEPT ![w] = BackWith(@, "osOK")]
      PROVE  Told'
  <2>1. /\ ~ Got(w, "mutex") /\ Got(w, "mutex")'
        /\ \A j \in Kinds : /\ ~ In(w, "waiting", j)'
                            /\ j # "mutex" => ~ Got(w, j)'
        /\ \A j \in Kinds : ~ Got(w, j) /\ ~ In(w, "deleting", j)'
        /\ \A j \in Kinds, u \in Threads : u # w =>
              /\ Got(u, j)' <=> Got(u, j)
              /\ In(u, "waiting", j)' <=> In(u, "waiting", j)
              /\ In(u, "deleting", j)' <=> In(u, "deleting", j)
    BY <1>1, <1>6, WakesEffect DEF Kinds
  <2>2. w # t /\ locks[t] = 1
    BY <1>1, <1>2, <1>3, <1>6
  <2>3. /\ locks' \in [Threads -> 0 .. MaxDepth]
        /\ locks'[t] = 0 /\ locks'[w] = 1
        /\ \A u \in Threads : u # t /\ u # w => locks'[u] = 0
    <3>1. 0 \in 0 .. MaxDepth /\ 1 \in 0 .. MaxDepth
      BY <2>2, <1>3
    <3>2. QED
      BY <3>1, <2>2, <1>2, <1>4, <1>6
  <2>4. taken'[t] = 0 /\ taken'[w] = 0
    BY <2>1, <2>2, <1>3, <1>4 DEF Told, LocksTold
  <2>5. ASSUME NEW u \in Threads
        PROVE  /\ Got(u, "mutex")' => locks'[u] = taken'[u] + 1
               /\ ~ Got(u, "mutex")' => locks'[u] = taken'[u]
               /\ In(u, "waiting", "mutex")' => locks'[u] = 0
    <3>1. CASE u = w
      BY <3>1, <2>1, <2>3, <2>4 DEF Kinds
    <3>2. CASE u = t
      <4>1. ~ Got(t, "mutex")'
        BY <2>1, <2>2, <1>2 DEF Kinds
      <4>2. QED
        BY <4>1, <3>2, <2>3, <2>4
    <3>3. CASE u # w /\ u # t
      <4>1. locks'[u] = locks[u] /\ taken'[u] = taken[u]
        BY <3>3, <2>3, <1>3, <1>4
      <4>2. QED
        BY <3>3, <4>1, <2>1 DEF Told, LocksTold, Kinds
    <3>4. QED
      BY <3>1, <3>2, <3>3
  <2>6. \A u, v \in Threads : locks'[u] > 0 /\ locks'[v] > 0 => u = v
    BY <2>3
  <2>7. LocksTold'
    BY <2>3, <2>5, <2>6, <1>3 DEF LocksTold
  <2>8. TokensTold'
    <3>1. \A u \in Threads : Got(u, "semaphore")' <=> Got(u, "semaphore")
      BY <2>1 DEF Kinds
    <3>2. Gone("semaphore")' => Gone("semaphore")
      BY <2>1, <1>1 DEF Gone, Kinds
    <3>3. QED
      BY <3>1, <3>2, <1>1, TokensQuiet DEF Told
  <2>9. QED
    BY <2>7, <2>8 DEF Told
<1>7. QED
  BY <1>5, <1>6 DEF plat_mutex_release, Waiters, Doing

-----------------------------------------------------------------------------
(* Deleting.                                                               *)

\* Waiters come back with an error; a success that is about to be seen was the
\* semaphore's and comes too late.
LEMMA DeletesTold ==
  ASSUME Inv, Told, NEW t \in Threads, NEW k \in Kinds, OsDeletes(t, k)
  PROVE  Told'
<1> DEFINE c == InCall("deleting", k, id[k], FALSE)
<1>1. /\ call[t].at = "idle" /\ UNCHANGED id
      /\ \A u \in Threads \ {t} :
           k = "mutex" => locks[u] = 0
      /\ call' = [u \in Threads |->
           IF u = t THEN c
           ELSE IF u \in Waiters(k) THEN BackWith(call[u], "osErrorResource")
           ELSE call[u]]
  BY DEF OsDeletes, MayDelete, MayCall, In
<1>2. c.at = "deleting" /\ c.kind = k
  BY DEF InCall
<1>3. ASSUME NEW u \in Threads, u # t
      PROVE  \/ In(u, "waiting", k) /\ call'[u] = BackWith(call[u], "osErrorResource")
             \/ call'[u] = call[u]
  BY <1>1, <1>3 DEF Waiters, Doing
<1>4. call'[t] = c
  BY <1>1
<1> HIDE DEF c
<1>L. /\ k = "mutex" => UNCHANGED late
      /\ k = "semaphore" => late' = late \cup Granted("semaphore")
      /\ late \subseteq late'
  BY DEF OsDeletes, Kinds
<1>5. ASSUME NEW u \in Threads, NEW j \in Kinds
      PROVE  /\ Got(u, j)' <=> Got(u, j) /\ u \notin late'
             /\ In(u, "waiting", j)' => In(u, "waiting", j)
             /\ In(u, "deleting", j)' => In(u, "deleting", j) \/ j = k
  <2>1. CASE u = t
    BY <2>1, <1>1, <1>2, <1>4 DEF Got, In
  <2>2. CASE u # t /\ call'[u] = call[u]
    BY <2>2, <1>L DEF Got, In
  <2>3. CASE In(u, "waiting", k) /\ call'[u] = BackWith(call[u], "osErrorResource")
    <3>1. call[u] \in Calls
      BY DEF Inv, HandleTypes
    <3>2. call'[u].at = "back" /\ call'[u].os # "osOK"
      BY <2>3, <3>1 DEF BackWith, Calls
    <3>3. QED
      BY <2>3, <3>2 DEF Got, In
  <2>4. QED
    BY <2>1, <2>2, <2>3, <1>3
<1>6. \A u \in Threads : ~ Got(u, k)'
  <2>1. CASE k = "semaphore"
    BY <2>1, <1>5, <1>L DEF Got, Granted, Doing
  <2>2. CASE k = "mutex"
    <3>1. \A u \in Threads : Got(u, k) => u # t /\ taken[u] \in Nat
      BY <2>2, <1>1, CountsAssumption DEF Got, In, Told, LocksTold
    <3>2. \A u \in Threads : ~ Got(u, k)
      BY <2>2, <3>1, <1>1 DEF Told, LocksTold
    <3>3. QED
      BY <3>2, <1>5
  <2>3. QED
    BY <2>1, <2>2 DEF Kinds
<1>7. CASE k = "mutex"
  <2>1. /\ locks' = [u \in Threads |-> 0] /\ taken' = [u \in Threads |-> 0]
        /\ UNCHANGED <<tokens, balance>>
    BY <1>7 DEF OsDeletes
  <2>2. LocksTold'
    BY <2>1, <1>5, <1>6, <1>7, CountsAssumption DEF LocksTold, Kinds
  <2>3. Gone("semaphore")' => Gone("semaphore")
    BY <1>1, <1>5, <1>7 DEF Gone, Kinds
  <2>4. \A u \in Threads : Got(u, "semaphore")' <=> Got(u, "semaphore")
    BY <1>5, <1>7, <1>L DEF Kinds, Got
  <2>5. TokensTold'
    BY <2>1, <2>3, <2>4, TokensQuiet DEF Told
  <2>6. QED
    BY <2>2, <2>5 DEF Told
<1>8. CASE k = "semaphore"
  <2>1. tokens' = 0 /\ balance' = 0 /\ UNCHANGED <<locks, taken>>
    BY <1>8 DEF OsDeletes
  <2>2. LocksTold'
    <3>1. \A u \in Threads : Got(u, "mutex")' <=> Got(u, "mutex")
      BY <1>5, <1>8, <1>L DEF Kinds, Got, Granted, Doing, In
    <3>2. QED
      BY <2>1, <3>1, <1>5, LocksQuiet DEF Told, Kinds
  <2>3. Pending("semaphore")' = {}
    BY <1>6, <1>8 DEF Pending
  <2>4. TokensTold'
    BY <2>1, <2>3, CountsAssumption, FS_EmptySet DEF TokensTold
  <2>5. QED
    BY <2>2, <2>4 DEF Told
<1>9. QED
  BY <1>7, <1>8 DEF Kinds

LEMMA FreesTold ==
  ASSUME Inv, Told, NEW t \in Threads, NEW k \in Kinds, Frees(t, k)
  PROVE  Told'
<1>1. /\ call[t].at = "deleting" /\ call[t].kind = k
      /\ id' = [id EXCEPT ![k] = None] /\ call' = [call EXCEPT ![t] = Idle]
      /\ Idle.at = "idle"
      /\ UNCHANGED <<tokens, balance, locks, taken, late>>
  BY DEF Frees, In, Idle, InCall, rtosVars, toldVars
<1>2. ASSUME NEW u \in Threads, NEW j \in Kinds
      PROVE  /\ Got(u, j)' <=> Got(u, j)
             /\ In(u, "waiting", j)' => In(u, "waiting", j)
             /\ In(u, "deleting", j)' => In(u, "deleting", j)
  <2>1. CASE u = t
    <3>1. ~ Got(t, j)
      BY <1>1 DEF Got, In
    <3>2. ~ Got(t, j)' /\ ~ In(t, "waiting", j)' /\ ~ In(t, "deleting", j)'
      BY <1>1, OneCall DEF Inv
    <3>3. QED
      BY <2>1, <3>1, <3>2
  <2>2. CASE u # t
    BY <2>2, <1>1, OneCall DEF Inv
  <2>3. QED
    BY <2>1, <2>2
<1>3. Gone("semaphore")' => Gone("semaphore")
  <2>1. CASE k = "semaphore"
    BY <2>1, <1>1 DEF Gone, In
  <2>2. CASE k # "semaphore"
    <3>1. id'["semaphore"] = id["semaphore"]
      BY <2>2, <1>1 DEF Inv, HandleTypes, Kinds
    <3>2. QED
      BY <3>1, <1>2 DEF Gone, Kinds
  <2>3. QED
    BY <2>1, <2>2
<1>4. TokensTold'
  BY <1>1, <1>2, <1>3, TokensQuiet, Zenon DEF Told, Kinds
<1>5. LocksTold'
  BY <1>1, <1>2, LocksQuiet, Zenon DEF Told, Kinds
<1>6. QED
  BY <1>4, <1>5 DEF Told

-----------------------------------------------------------------------------
(* Who is late.                                                            *)

\* Only a return takes a thread out of the way back.
LEMMA LateStep ==
  ASSUME Inv, LateBack, [Next]_vars
  PROVE  LateBack'
<1>1. ASSUME late' = late, \A u \in Threads : call[u].at = "back" => call'[u] = call[u]
      PROVE  LateBack'
  BY <1>1 DEF LateBack, In
<1>2. ASSUME NEW w \in Threads, NEW c, call' = [call EXCEPT ![w] = c],
             call[w].at # "back", late' = late
      PROVE  LateBack'
  BY <1>1, <1>2 DEF Inv, HandleTypes
<1>3. ASSUME NEW t \in Threads, NEW k \in Kinds,
             \/ Mallocs(t, k) \/ OsNewFails(t, k) \/ OsNews(t, k) \/ Frees(t, k)
             \/ plat_semaphore_wait(t) \/ plat_mutex_wait(t) \/ TimesOut(t)
      PROVE  LateBack'
  <2>1. late' = late /\ call[t].at # "back"
    BY <1>3
    DEF Mallocs, OsNewFails, OsNews, Frees, plat_semaphore_wait, plat_mutex_wait,
        TimesOut, MayCall, In, toldVars
  <2>2. \E c : call' = [call EXCEPT ![t] = c]
    BY <1>3, Zenon
    DEF Mallocs, OsNewFails, OsNews, Frees, plat_semaphore_wait, plat_mutex_wait,
        TimesOut
  <2>3. QED
    BY <2>1, <2>2, <1>2
<1>4. ASSUME NEW t \in Threads, WaitReturns(t)
      PROVE  LateBack'
  BY <1>4 DEF WaitReturns, LateBack, In, Inv, HandleTypes
<1>5. ASSUME NEW t \in Threads, plat_semaphore_release(t) \/ plat_mutex_release(t)
      PROVE  LateBack'
  <2>1. late' = late
    BY <1>5 DEF plat_semaphore_release, plat_mutex_release
  <2>2. CASE UNCHANGED call
    BY <2>1, <2>2, <1>1
  <2>3. ASSUME NEW w \in Threads, call[w].at = "waiting",
               call' = [call EXCEPT ![w] = BackWith(@, "osOK")]
        PROVE  LateBack'
    BY <2>1, <2>3, <1>2
  <2>4. QED
    BY <1>5, <2>2, <2>3, Zenon
    DEF plat_semaphore_release, plat_mutex_release, Waiters, Doing, In
<1>6. ASSUME NEW t \in Threads, NEW k \in Kinds, OsDeletes(t, k)
      PROVE  LateBack'
  <2>1. \A u \in Threads : call[u].at = "back" => call'[u] = call[u]
    BY <1>6 DEF OsDeletes, MayDelete, MayCall, Waiters, Doing, In
  <2>2. late' \in {late, late \cup Granted("semaphore")}
    BY <1>6 DEF OsDeletes
  <2>3. QED
    BY <2>1, <2>2 DEF LateBack, Granted, Doing, In
<1>7. CASE UNCHANGED vars
  BY <1>1, <1>7 DEF vars, toldVars
<1>8. QED
  BY <1>3, <1>4, <1>5, <1>6, <1>7, Zenon
  DEF Next, plat_semaphore_create, plat_mutex_create, plat_semaphore_delete,
      plat_mutex_delete, Kinds

THEOREM LateInvariance == Spec => []LateBack
<1>1. Init => LateBack
  BY DEF Init, LateBack
<1>2. QED
  BY <1>1, LateStep, Invariance, PTL DEF Spec

-----------------------------------------------------------------------------
(* The theorems about statuses.                                            *)

LEMMA InitTold == Init => Told
<1> SUFFICES ASSUME Init PROVE Told
  OBVIOUS
<1>1. \A t \in Threads : call[t].at = "idle"
  BY DEF Init, Idle, InCall
<1>2. \A t \in Threads, k \in Kinds : ~ Got(t, k) /\ ~ In(t, "waiting", k)
  BY <1>1 DEF Got, In
<1>3. Pending("semaphore") = {}
  BY <1>2 DEF Pending, Kinds
<1>4. TokensTold
  BY <1>3, CountsAssumption, FS_EmptySet DEF Init, TokensTold
<1>5. LocksTold
  BY <1>2, CountsAssumption DEF Init, LocksTold, Kinds
<1>6. QED
  BY <1>4, <1>5 DEF Told

THEOREM ToldInvariance == Spec => []Told
<1>1. Inv /\ LateBack /\ Told /\ [Next]_vars => Told'
  <2> SUFFICES ASSUME Inv, LateBack, Told, [Next]_vars PROVE Told'
    OBVIOUS
  <2>1. ASSUME NEW t \in Threads, NEW k \in Kinds,
               Mallocs(t, k) \/ OsNewFails(t, k) \/ OsDeletes(t, k) \/ Frees(t, k)
        PROVE  Told'
    BY <2>1, BeginsTold, DeletesTold, FreesTold
  <2>2. CASE UNCHANGED vars
    BY <2>2 DEF vars, rtosVars, toldVars, Told, TokensTold, LocksTold, Pending, Got,
                In, Gone
  <2>3. QED
    BY <2>1, <2>2, CreatedTold, SemaphoreWaitTold, MutexWaitTold, TimesOutTold,
       WaitReturnsTold, SemaphoreReleaseTold, MutexReleaseTold, Zenon
    DEF Next, plat_semaphore_create, plat_mutex_create, plat_semaphore_delete,
        plat_mutex_delete, Kinds
<1>2. QED
  BY InitTold, Invariance, LateInvariance, <1>1, PTL DEF Spec

\* The variables keep to their values: the semaphore to its maximum, and the
\* balance of the statuses never to less than nothing.
THEOREM SyncTypeCorrect == Spec => []SyncTypeOK
<1>1. Inv /\ LateBack /\ Told => SyncTypeOK
  BY DEF Inv, HandleTypes, LateBack, Told, TokensTold, LocksTold, SyncTypeOK, Calls
<1>2. QED
  BY <1>1, Invariance, LateInvariance, ToldInvariance, PTL

\* Mutual exclusion as the callers see it: who was told of the mutex has it, and
\* alone; and no token of the semaphore is lost or handed out twice, not even
\* where one deleted meanwhile still answers.
THEOREM StatusesAreTrue == Spec => []StatusesTruthful
<1>1. Told => StatusesTruthful
  <2> SUFFICES ASSUME Told PROVE StatusesTruthful
    OBVIOUS
  <2> DEFINE pending(k) == Granted(k) \ late
  <2>1. pending("semaphore") = Pending("semaphore")
    BY DEF Pending, Got, Granted, Doing
  <2>2. tokens + Cardinality(pending("semaphore")) = balance
    BY <2>1, Zenon DEF Told, TokensTold
  <2>3. \A t \in Threads :
          locks[t] = taken[t] + IF t \in pending("mutex") THEN 1 ELSE 0
    <3>1. ASSUME NEW t \in Threads
          PROVE  locks[t] = taken[t] + IF t \in pending("mutex") THEN 1 ELSE 0
      <4>1. taken[t] \in Nat
        BY CountsAssumption DEF Told, LocksTold
      <4>2. t \in pending("mutex") <=> Got(t, "mutex")
        BY DEF Got, Granted, Doing
      <4>3. QED
        BY <4>1, <4>2 DEF Told, LocksTold
    <3>2. QED
      BY <3>1
  <2>4. \A t, u \in Threads : taken[t] > 0 /\ taken[u] > 0 => t = u
    <3>1. \A t \in Threads : taken[t] > 0 => locks[t] > 0
      BY CountsAssumption DEF Told, LocksTold
    <3>2. QED
      BY <3>1 DEF Told, LocksTold
  <2>5. QED
    BY <2>2, <2>3, <2>4, Zenon DEF StatusesTruthful
<1>2. QED
  BY <1>1, ToldInvariance, PTL

-----------------------------------------------------------------------------
(* What the callers may rely on: the wrappers implement SyncObjects.       *)

ThereAre == {k \in Kinds : Exists(k)}

\* Who has the mutex, has one that is there.
LocksLive == Gone("mutex") => \A t \in Threads : locks[t] = 0

\* A step that neither completes a creation nor begins a deletion.
LEMMA SameObjects ==
  ASSUME \A k \in Kinds : Gone(k)' <=> Gone(k)
  PROVE  ThereAre' = ThereAre
<1>1. \A k \in Kinds : Exists(k) <=> ~ Gone(k)
  BY DEF Exists, Doing, Gone
<1>2. \A k \in Kinds : Exists(k)' <=> ~ Gone(k)'
  BY DEF Exists, Doing, Gone
<1>3. \A k \in Kinds : Exists(k)' <=> Exists(k)
  BY <1>1, <1>2
<1>4. QED
  BY <1>3 DEF ThereAre

\* Creations that fail, waits, time-outs, returns and releases.
LEMMA QuietObjects ==
  ASSUME Inv, NEW t \in Threads,
         \/ \E k \in Kinds : Mallocs(t, k) \/ OsNewFails(t, k)
         \/ plat_semaphore_wait(t) \/ plat_mutex_wait(t)
         \/ TimesOut(t) \/ WaitReturns(t)
         \/ plat_semaphore_release(t) \/ plat_mutex_release(t)
  PROVE  ThereAre' = ThereAre
<1>1. UNCHANGED id
  BY DEF Mallocs, OsNewFails, plat_semaphore_wait, plat_mutex_wait, TimesOut,
         WaitReturns, plat_semaphore_release, plat_mutex_release
<1>2. ASSUME NEW w \in Threads, \A u \in Threads : u # w => call'[u] = call[u],
             call[w].at # "deleting", call'[w].at # "deleting"
      PROVE  ThereAre' = ThereAre
  <2>1. \A k \in Kinds, u \in Threads :
          In(u, "deleting", k)' <=> In(u, "deleting", k)
    BY <1>2 DEF In
  <2>2. \A k \in Kinds : Gone(k)' <=> Gone(k)
    BY <2>1, <1>1 DEF Gone
  <2>3. QED
    BY <2>2, SameObjects
<1>3. CASE UNCHANGED call
  <2>1. \A k \in Kinds : Gone(k)' <=> Gone(k)
    BY <1>3, <1>1 DEF Gone, In
  <2>2. QED
    BY <2>1, SameObjects
<1>4. ASSUME NEW w \in Threads, NEW c, call' = [call EXCEPT ![w] = c]
      PROVE  call'[w] = c /\ \A u \in Threads : u # w => call'[u] = call[u]
  BY <1>4 DEF Inv, HandleTypes
<1>5. ASSUME NEW w \in Threads, NEW os,
             call[w].at = "waiting", call' = [call EXCEPT ![w] = BackWith(@, os)]
      PROVE  ThereAre' = ThereAre
  <2>1. BackWith(call[w], os).at # "deleting"
    BY DEF Inv, HandleTypes, Calls, BackWith
  <2>2. QED
    BY <2>1, <1>2, <1>4, <1>5
<1>6. ASSUME NEW k \in Kinds, Mallocs(t, k) \/ OsNewFails(t, k)
      PROVE  ThereAre' = ThereAre
  <2>1. /\ call[t].at # "deleting" /\ call'[t].at # "deleting"
        /\ \A u \in Threads : u # t => call'[u] = call[u]
    BY <1>6 DEF Mallocs, OsNewFails, In, InCall, Idle, Inv, HandleTypes
  <2>2. QED
    BY <2>1, <1>2
<1>7. CASE plat_semaphore_wait(t) \/ plat_mutex_wait(t)
  <2>1. ASSUME NEW k \in Kinds, MayCall(t, k), NEW n \in BOOLEAN,
               NEW os \in {"osOK", "osErrorResource"},
               LET c == InCall("waiting", k, id[k], n)
               IN call' \in {[call EXCEPT ![t] = c],
                             [call EXCEPT ![t] = BackWith(c, os)]}
        PROVE  ThereAre' = ThereAre
    <3> DEFINE c0 == InCall("waiting", k, id[k], n)
               c1 == BackWith(c0, os)
    <3>1. c0.at = "waiting" /\ c1.at = "back"
      BY DEF InCall, BackWith
    <3>2. call[t].at # "deleting"
      BY <2>1 DEF MayCall
    <3>3. call' = [call EXCEPT ![t] = c0] \/ call' = [call EXCEPT ![t] = c1]
      BY <2>1
    <3> HIDE DEF c0, c1
    <3>4. CASE call' = [call EXCEPT ![t] = c0]
      BY <3>1, <3>2, <3>4, <1>2, <1>4
    <3>5. CASE call' = [call EXCEPT ![t] = c1]
      BY <3>1, <3>2, <3>5, <1>2, <1>4
    <3>6. QED
      BY <3>3, <3>4, <3>5
  <2>2. CASE plat_semaphore_wait(t)
    BY <2>1, <2>2, Zenon DEF plat_semaphore_wait, Kinds
  <2>3. CASE plat_mutex_wait(t)
    BY <2>1, <2>3, Zenon DEF plat_mutex_wait, Kinds
  <2>4. QED
    BY <1>7, <2>2, <2>3
<1>8. CASE TimesOut(t)
  BY <1>5, <1>8 DEF TimesOut, In
<1>9. CASE WaitReturns(t)
  <2>1. call[t].at # "deleting" /\ Idle.at # "deleting"
        /\ call' = [call EXCEPT ![t] = Idle]
    BY <1>9 DEF WaitReturns, Idle, InCall
  <2>2. QED
    BY <2>1, <1>2, <1>4
<1>10. CASE plat_semaphore_release(t) \/ plat_mutex_release(t)
  BY <1>3, <1>5, <1>10
  DEF plat_semaphore_release, plat_mutex_release, Waiters, Doing, In
<1>11. QED
  BY <1>6, <1>7, <1>8, <1>9, <1>10

LEMMA CreatedObject ==
  ASSUME Inv, NEW t \in Threads, NEW k \in Kinds, OsNews(t, k)
  PROVE  k \notin ThereAre /\ ThereAre' = ThereAre \cup {k}
<1>1. /\ call' = [call EXCEPT ![t] = Idle] /\ id' = [id EXCEPT ![k] = call[t].of]
      /\ call[t].at = "creating" /\ call[t].kind = k /\ Idle.at = "idle"
  BY DEF OsNews, In, Idle, InCall
<1>2. id[k] = None /\ call[t].of # None
  BY <1>1, HandlesAssumption DEF Inv, OneCreator, Creates
<1>3. /\ id'[k] # None
      /\ \A j \in Kinds : j # k => id'[j] = id[j]
  BY <1>1, <1>2 DEF Inv, HandleTypes
<1>4. \A j \in Kinds, u \in Threads : In(u, "deleting", j)' <=> In(u, "deleting", j)
  BY <1>1, CreatingTold DEF OsNews
<1>5. \A u \in Threads : ~ In(u, "deleting", k)
  BY <1>2, HandlesAssumption DEF Inv, OneDeleter, Deletes, In
<1>6. ~ Exists(k) /\ Exists(k)'
  BY <1>2, <1>3, <1>4, <1>5 DEF Exists, Doing
<1>7. \A j \in Kinds : j # k => (Exists(j)' <=> Exists(j))
  BY <1>3, <1>4 DEF Exists, Doing
<1>8. QED
  BY <1>6, <1>7 DEF ThereAre

LEMMA DeletedObject ==
  ASSUME Inv, NEW t \in Threads, NEW k \in Kinds, OsDeletes(t, k)
  PROVE  k \in ThereAre /\ ThereAre' = ThereAre \ {k}
<1> DEFINE c == InCall("deleting", k, id[k], FALSE)
<1>1. /\ call[t].at = "idle" /\ UNCHANGED id
      /\ call' = [u \in Threads |->
           IF u = t THEN c
           ELSE IF u \in Waiters(k) THEN BackWith(call[u], "osErrorResource")
           ELSE call[u]]
  BY DEF OsDeletes, MayDelete, MayCall
<1>2. c.at = "deleting" /\ c.kind = k
  BY DEF InCall
<1> HIDE DEF c
<1>3. Exists(k)
  BY DEF OsDeletes, MayDelete, MayCall, Exists
<1>4. ~ Exists(k)'
  BY <1>1, <1>2 DEF Exists, Doing, In
<1>5. ASSUME NEW u \in Threads, NEW j \in Kinds, j # k
      PROVE  In(u, "deleting", j)' <=> In(u, "deleting", j)
  <2>1. CASE u = t
    BY <2>1, <1>1, <1>2, <1>5 DEF In
  <2>2. CASE u # t /\ u \in Waiters(k)
    <3>1. call'[u] = BackWith(call[u], "osErrorResource") /\ call[u] \in Calls
          /\ call[u].at = "waiting"
      BY <2>2, <1>1 DEF Inv, HandleTypes, Waiters, Doing, In
    <3>2. call'[u].at = "back"
      BY <3>1 DEF BackWith, Calls
    <3>3. QED
      BY <3>1, <3>2 DEF In
  <2>3. CASE u # t /\ u \notin Waiters(k)
    BY <2>3, <1>1 DEF In
  <2>4. QED
    BY <2>1, <2>2, <2>3
<1>6. \A j \in Kinds : j # k => (Exists(j)' <=> Exists(j))
  BY <1>1, <1>5 DEF Exists, Doing
<1>7. QED
  BY <1>3, <1>4, <1>6 DEF ThereAre

\* The object had been deleted before.
LEMMA FreedObject ==
  ASSUME Inv, NEW t \in Threads, NEW k \in Kinds, Frees(t, k)
  PROVE  ThereAre' = ThereAre
<1>1. /\ In(t, "deleting", k) /\ id' = [id EXCEPT ![k] = None]
      /\ call[t].kind = k /\ UNCHANGED late
      /\ call' = [call EXCEPT ![t] = Idle] /\ Idle.at = "idle"
  BY DEF Frees, Idle, InCall, In, toldVars
<1>2. Gone(k) /\ Gone(k)'
  BY <1>1 DEF Gone, Inv, HandleTypes
<1>3. \A j \in Kinds : j # k => id'[j] = id[j]
  BY <1>1 DEF Inv, HandleTypes
<1>4. ASSUME NEW u \in Threads, NEW j \in Kinds, j # k
      PROVE  In(u, "deleting", j)' <=> In(u, "deleting", j)
  <2>1. CASE u = t
    BY <2>1, <1>1, <1>4, OneCall DEF Inv, In
  <2>2. CASE u # t
    BY <2>2, <1>1, OneCall DEF Inv
  <2>3. QED
    BY <2>1, <2>2
<1>5. \A j \in Kinds : j # k => (Gone(j)' <=> Gone(j))
  BY <1>3, <1>4 DEF Gone
<1>6. QED
  BY <1>2, <1>5, SameObjects

-----------------------------------------------------------------------------
(* Each step is one of SyncObjects or a stutter.                           *)

LEMMA LocksLiveStep ==
  ASSUME Inv, Told, LocksLive, [Next]_vars
  PROVE  LocksLive'
<1>1. Gone("mutex") <=> "mutex" \notin ThereAre
  BY DEF ThereAre, Exists, Doing, Gone, Kinds
<1>2. Gone("mutex")' <=> "mutex" \notin ThereAre'
  BY DEF ThereAre, Exists, Doing, Gone, Kinds
<1>3. CASE ThereAre' = ThereAre /\ (UNCHANGED locks \/ ~ Gone("mutex"))
  BY <1>1, <1>2, <1>3 DEF LocksLive
<1>4. ASSUME NEW t \in Threads, NEW k \in Kinds, OsNews(t, k)
      PROVE  LocksLive'
  BY <1>1, <1>2, <1>4, CreatedObject DEF OsNews, LocksLive
<1>5. ASSUME NEW t \in Threads, NEW k \in Kinds, OsDeletes(t, k)
      PROVE  LocksLive'
  BY <1>1, <1>2, <1>5, DeletedObject DEF OsDeletes, LocksLive
<1>6. ASSUME NEW t \in Threads, NEW k \in Kinds, Frees(t, k)
      PROVE  LocksLive'
  BY <1>3, <1>6, FreedObject DEF Frees, rtosVars
<1>7. ASSUME NEW t \in Threads,
             \/ \E k \in Kinds : Mallocs(t, k) \/ OsNewFails(t, k)
             \/ plat_semaphore_wait(t) \/ plat_mutex_wait(t)
             \/ TimesOut(t) \/ WaitReturns(t)
             \/ plat_semaphore_release(t) \/ plat_mutex_release(t)
      PROVE  LocksLive'
  <2>1. UNCHANGED locks \/ ~ Gone("mutex")
    BY <1>7
    DEF Mallocs, OsNewFails, plat_semaphore_wait, plat_mutex_wait, TimesOut,
        WaitReturns, plat_semaphore_release, plat_mutex_release, rtosVars, MayCall,
        Doing, Gone
  <2>2. QED
    BY <2>1, <1>3, <1>7, QuietObjects
<1>8. CASE UNCHANGED vars
  BY <1>8 DEF vars, rtosVars, LocksLive, Gone, In
<1>9. QED
  BY <1>4, <1>5, <1>6, <1>7, <1>8, Zenon
  DEF Next, plat_semaphore_create, plat_mutex_create, plat_semaphore_delete,
      plat_mutex_delete, Kinds

\* A caller that has the mutex, or was handed it, is alone.
LEMMA HolderAlone ==
  ASSUME Inv, Told, NEW t \in Threads, locks[t] > 0
  PROVE  Objects!Alone(t)
<1>1. ASSUME NEW u \in Threads, u # t PROVE taken[u] = 0
  <2>1. locks[u] \in Nat /\ taken[u] \in Nat /\ ~ (locks[u] > 0)
    BY <1>1, CountsAssumption DEF Told, LocksTold
  <2>2. locks[u] = taken[u] \/ locks[u] = taken[u] + 1
    BY DEF Told, LocksTold
  <2>3. QED
    BY <2>1, <2>2
<1>2. QED
  BY <1>1 DEF Objects!Alone

LEMMA ReturnActs ==
  ASSUME Inv, Told, LocksLive, NEW t \in Threads, WaitReturns(t)
  PROVE  Objects!Next \/ UNCHANGED Objects!vars
<1>1. /\ UNCHANGED locks /\ ThereAre' = ThereAre
      /\ balance' = IF Got(t, "semaphore") THEN balance - 1 ELSE balance
      /\ taken' = [taken EXCEPT ![t] = IF Got(t, "mutex") THEN @ + 1 ELSE @]
      /\ late' = late \ {t}
  BY QuietObjects DEF WaitReturns, succeeded, Got, In, rtosVars
<1>2. taken \in [Threads -> 0 .. MaxDepth]
  BY DEF Told, LocksTold
<1>3. CASE Got(t, "semaphore")
  <2>1. ~ Gone("semaphore")
    BY <1>3 DEF Told, TokensTold, Pending
  <2>2. "semaphore" \in ThereAre
    BY <2>1 DEF ThereAre, Exists, Doing, Gone, Kinds
  <2>3. ~ Got(t, "mutex")
    BY <1>3 DEF Got, In
  <2>4. balance > 0
    <3>1. Pending("semaphore") # {} /\ IsFiniteSet(Pending("semaphore"))
          /\ Cardinality(Pending("semaphore")) \in Nat
      BY <1>3, PendingFinite DEF Pending
    <3>2. Cardinality(Pending("semaphore")) # 0
      BY <3>1, FS_EmptySet
    <3>3. tokens \in 0 .. MaxCount /\ balance \in Nat
          /\ tokens + Cardinality(Pending("semaphore")) = balance
      BY DEF Told, TokensTold
    <3>4. QED
      BY <3>1, <3>2, <3>3, CountsAssumption
  <2>5. UNCHANGED taken /\ balance' = balance - 1
    BY <1>1, <1>2, <1>3, <2>3
  <2>6. t \notin late /\ UNCHANGED late
    BY <1>1, <1>3 DEF Got
  <2>7. Objects!Acquire(t)
    BY <1>1, <2>2, <2>4, <2>5, <2>6 DEF Objects!Acquire, Objects!Uses, ThereAre
  <2>8. QED
    BY <2>7 DEF Objects!Next
<1>4. CASE Got(t, "mutex")
  <2>1. locks[t] > 0
    BY <1>4, <1>2, CountsAssumption DEF Told, LocksTold
  <2>2. "mutex" \in ThereAre
    BY <2>1 DEF LocksLive, ThereAre, Exists, Doing, Gone, Kinds
  <2>3. /\ taken' = [taken EXCEPT ![t] = @ + 1]
        /\ t \notin late /\ UNCHANGED <<balance, late>>
    BY <1>1, <1>4 DEF Got, In
  <2>4. Objects!Lock(t)
    BY <1>1, <2>1, <2>2, <2>3, HolderAlone
    DEF Objects!Lock, Objects!Uses, ThereAre
  <2>5. QED
    BY <2>4 DEF Objects!Next
<1>5. CASE ~ Got(t, "semaphore") /\ ~ Got(t, "mutex")
  <2>1. UNCHANGED <<balance, taken>>
    BY <1>1, <1>2, <1>5
  <2>2. CASE t \in late
    BY <1>1, <2>1, <2>2 DEF Objects!LearnsLate, Objects!Next, ThereAre
  <2>3. CASE t \notin late
    BY <1>1, <2>1, <2>3 DEF Objects!vars, ThereAre
  <2>4. QED
    BY <2>2, <2>3
<1>6. QED
  BY <1>3, <1>4, <1>5

LEMMA ReleaseActs ==
  ASSUME Inv, Told, NEW t \in Threads,
         plat_semaphore_release(t) \/ plat_mutex_release(t)
  PROVE  Objects!Next
<1>1. ThereAre' = ThereAre
  BY QuietObjects
<1>2. CASE plat_semaphore_release(t)
  <2>1. "semaphore" \in ThereAre
    BY <1>2 DEF plat_semaphore_release, MayCall, ThereAre, Exists, Kinds
  <2>2. Objects!Release
    BY <1>1, <1>2, <2>1
    DEF plat_semaphore_release, Objects!Release, Objects!Uses, ThereAre
  <2>3. QED
    BY <2>2 DEF Objects!Next
<1>3. CASE plat_mutex_release(t)
  <2>1. "mutex" \in ThereAre
    BY <1>3 DEF plat_mutex_release, MayCall, ThereAre, Exists, Kinds
  <2>2. locks[t] > 0 /\ ~ Got(t, "mutex")
    BY <1>3 DEF plat_mutex_release, MayCall, Got, In
  <2>3. taken[t] > 0
    BY <2>2 DEF Told, LocksTold
  <2>4. Objects!Unlock(t)
    BY <1>1, <1>3, <2>1, <2>2, <2>3, HolderAlone
    DEF plat_mutex_release, Objects!Unlock, Objects!Uses, ThereAre
  <2>5. QED
    BY <2>4 DEF Objects!Next
<1>4. QED
  BY <1>2, <1>3

LEMMA CreateActs ==
  ASSUME Inv, Told, LocksLive, NEW t \in Threads,
         \/ \E count \in Counts : /\ count <= MaxCount
                                  /\ OsNews(t, "semaphore")
                                  /\ tokens' = count /\ balance' = count
         \/ OsNews(t, "mutex") /\ UNCHANGED <<tokens, balance>>
  PROVE  Objects!Next
<1>1. CASE OsNews(t, "semaphore")
           /\ \E count \in Counts : count <= MaxCount /\ balance' = count
  <2>1. Objects!Creates("semaphore")
    BY <1>1, CreatedObject DEF Objects!Creates, ThereAre, Kinds
  <2>2. balance' \in 0 .. MaxCount
    BY <1>1, CountsAssumption
  <2>3. Objects!CreateSemaphore
    BY <1>1, <2>1, <2>2 DEF OsNews, Objects!CreateSemaphore
  <2>4. QED
    BY <2>3 DEF Objects!Next
<1>2. CASE OsNews(t, "mutex") /\ UNCHANGED balance
  <2>1. "mutex" \notin ThereAre /\ Objects!Creates("mutex")
    BY <1>2, CreatedObject DEF Objects!Creates, ThereAre, Kinds
  <2>2. Gone("mutex")
    BY <2>1 DEF ThereAre, Exists, Doing, Gone, Kinds
  <2>3. ASSUME NEW u \in Threads PROVE taken[u] = 0
    <3>1. locks[u] = 0 /\ taken[u] \in Nat
      BY <2>2, CountsAssumption DEF LocksLive, Told, LocksTold
    <3>2. locks[u] = taken[u] \/ locks[u] = taken[u] + 1
      BY DEF Told, LocksTold
    <3>3. QED
      BY <3>1, <3>2
  <2>4. Objects!CreateMutex
    BY <1>2, <2>1, <2>3 DEF OsNews, Objects!CreateMutex
  <2>5. QED
    BY <2>4 DEF Objects!Next
<1>3. QED
  BY <1>1, <1>2

LEMMA DeleteActs ==
  ASSUME Inv, Told, NEW t \in Threads, NEW k \in Kinds, OsDeletes(t, k)
  PROVE  Objects!Next
<1>1. Objects!Deletes(k)
  BY DeletedObject DEF Objects!Deletes, ThereAre
<1>2. CASE k = "semaphore"
  <2>1. /\ balance' = 0 /\ UNCHANGED taken
        /\ late' = late \cup Granted("semaphore")
    BY <1>2 DEF OsDeletes
  <2>2. Granted("semaphore") \in SUBSET Threads
    BY DEF Granted, Doing
  <2>3. Objects!DeleteSemaphore
    BY <1>1, <1>2, <2>1, <2>2 DEF Objects!DeleteSemaphore
  <2>4. QED
    BY <2>3 DEF Objects!Next
<1>3. CASE k = "mutex"
  <2>1. Objects!Alone(t)
    <3>1. ASSUME NEW u \in Threads, u # t PROVE taken[u] = 0
      <4>1. locks[u] = 0 /\ taken[u] \in Nat
        BY <1>3, <3>1, CountsAssumption DEF OsDeletes, MayDelete, Told, LocksTold
      <4>2. locks[u] = taken[u] \/ locks[u] = taken[u] + 1
        BY DEF Told, LocksTold
      <4>3. QED
        BY <4>1, <4>2
    <3>2. QED
      BY <3>1 DEF Objects!Alone
  <2>2. taken' = [u \in Threads |-> 0] /\ UNCHANGED <<balance, late>>
    BY <1>3 DEF OsDeletes
  <2>3. Objects!DeleteMutex(t)
    BY <1>1, <1>3, <2>1, <2>2 DEF Objects!DeleteMutex
  <2>4. QED
    BY <2>3 DEF Objects!Next
<1>4. QED
  BY <1>2, <1>3 DEF Kinds

LEMMA StepActs ==
  ASSUME Inv, Told, LocksLive, [Next]_vars
  PROVE  [Objects!Next]_(Objects!vars)
<1>1. CASE UNCHANGED vars
  <2>1. \A k \in Kinds : Gone(k)' <=> Gone(k)
    BY <1>1 DEF vars, Gone, In
  <2>2. ThereAre' = ThereAre
    BY <2>1, SameObjects
  <2>3. QED
    BY <1>1, <2>2 DEF vars, toldVars, Objects!vars, ThereAre
<1>2. ASSUME NEW t \in Threads,
             \/ \E k \in Kinds : Mallocs(t, k) \/ OsNewFails(t, k)
             \/ plat_semaphore_wait(t) \/ plat_mutex_wait(t) \/ TimesOut(t)
      PROVE  UNCHANGED Objects!vars
  <2>1. ThereAre' = ThereAre
    BY <1>2, QuietObjects
  <2>2. UNCHANGED toldVars
    BY <1>2
    DEF Mallocs, OsNewFails, plat_semaphore_wait, plat_mutex_wait, TimesOut
  <2>3. QED
    BY <2>1, <2>2 DEF toldVars, Objects!vars, ThereAre
<1>3. ASSUME NEW t \in Threads, NEW k \in Kinds, Frees(t, k)
      PROVE  UNCHANGED Objects!vars
  <2>1. ThereAre' = ThereAre
    BY <1>3, FreedObject
  <2>2. QED
    BY <1>3, <2>1 DEF Frees, toldVars, Objects!vars, ThereAre
<1>4. QED
  BY <1>1, <1>2, <1>3, ReturnActs, ReleaseActs, CreateActs, DeleteActs, Zenon
  DEF Next, plat_semaphore_create, plat_mutex_create, plat_semaphore_delete,
      plat_mutex_delete, Kinds

\* Whatever waits, time-outs, deletions and reuse of blocks overlap: to callers
\* who go by the statuses, the wrappers are a counter and a lock, but for a
\* success of a semaphore deleted meanwhile, which is told once.
THEOREM WrappersImplementObjects == Spec => ActsAsObjects
<1>1. Init => LocksLive
  BY DEF Init, LocksLive
<1>2. Init => Objects!Init
  BY DEF Init, Objects!Init, Exists, Kinds
<1>3. QED
  BY <1>1, <1>2, LocksLiveStep, StepActs, Invariance, ToldInvariance, PTL
  DEF Spec, ActsAsObjects, Objects!Spec

=============================================================================

# Verification of the Pelion Client Lite example

This directory specifies the program in TLA+, model-checks it with TLC on small
instances and proves theorems about it with TLAPS. The repository holds a small
application around a client library that it does not contain: `main()` connects
to the network, hands control to an event queue, and from then on everything is
a handler: events of the library, timed events, and callbacks of the network
driver. What is hard is not computed anywhere; it is the order in which these
handlers meet.

## 1. Inventory

| Component (source) | State | Operations | Hard behaviour | What makes it correct |
|---|---|---|---|---|
| Network connection (`platform/mbed-os/setup.cpp`, 43-49, 189-426) | `network_interface`, `interface_connected`, `dispatch_called`, the registered listener | `init_connection(int8_t)`, `close_connection()`, `network_status_callback()` | the call dispatches the *shared* event queue from inside and relies on a callback, in another thread, to break that dispatch | a break only ends the nested dispatch; a call stays listening; true only when connected; every call is answered |
| Client application (`pdmc_client_example.cpp`, `main.cpp`) | registration flags, `paused`, `wake_up_requested`, one shared error count, the retry wait | boot, connection retries, library events, sleep, wake-up, unregistration, reboot | a wake-up reconnects from inside a handler, so other handlers run nested in it; one counter serves two purposes | a sleeping device always wakes up, resumptions do not nest, errors lead to a reboot, the duty cycle goes round |
| LED pattern, buttons, increments (`blinky.cpp`, button flags of `setup.cpp`) | `_pattern`, `_curr_pattern`, `_state`, `_restart`, pending timers, interrupt flags | `start()`, `stop()`, the handlers of three timed events, the interrupts | sequences overlap while a timer of the earlier one is pending; interrupts come between test and reset of a flag; requests fail silently | patterns are played as written; presses are not lost; loops go on |
| Blink request (`pdmc_client_example.cpp`, 306-341) | `execute_token`, the delayed response | POST to 3201/0/5850, `send_application_response()` | a second POST before the response to the first | the last POST is answered |
| Memory trace (`memory_statistics.c`) | record pool, message queue | the allocator's callback, the receiving thread | the reporter runs inside `malloc()` of every thread, the receiver included, and puts with `osWaitForever` | nothing waits, no record is shared, records return |
| Mutex and semaphore wrappers (`setup.cpp`, 455-680) | a handle, a block of the heap, an RTOS object in it | create, wait, release, delete of each kind | creation that fails half way; deletion under a waiter; a time-out, a release and a deletion that race for one waiting thread | handles match the heap, nothing dangles, the returned statuses tell the truth |
| Platform start-up, storage, LED (`setup.cpp`) | button flags, the LED | `init_platform()`, the interrupts, `toggle_led()` | interrupts between test and reset of a flag | inside `Blinky`; the rest forwards or formats |
| Heap statistics, FOTA hooks, resource definitions, configuration, tools | none that the program reads | measure, print, return constants | none | not modelled, see section 9 |

They interact as follows. `main()` calls `init_connection()` of the client
application, which calls `init_connection(int8_t)` of the platform in a retry
loop; then it dispatches the queue for good. A wake-up event runs the same retry
loop from inside a handler, and `init_connection(int8_t)` dispatches the queue
again. The driver calls back into `setup.cpp`. Library events reach
`pdmc_event_handler()`, which starts Blinky's loops; Blinky polls the buttons and
unregisters the client; a POST starts Blinky's pattern. The mutex and semaphore
wrappers are there for the client library; nothing in this repository calls them.

## 2. Modules

| Module | Role |
|---|---|
| `ConnectCall` | abstract: what one call of `init_connection(int8_t)` promises |
| `PlatformConnection` | the connection, both threads statement by statement; implements `ConnectCall` |
| `DutyCycle` | abstract: booting, online, asleep, waking, rebooting |
| `PdmcClient` | EXTENDS `PlatformConnection`; the client application and `main()`; implements `DutyCycle` |
| `PatternPlayer` | abstract: what playing a blink pattern means |
| `Blinky` | pattern, polling, increments; implements `PatternPlayer` when sequences do not overlap |
| `BlinkRequest` | EXTENDS `Blinky`; the POST and its delayed response |
| `MemTrace` | the memory trace |
| `SyncObjects` | abstract: what callers who know only the statuses may rely on, a counter and a lock |
| `PlatSync` | the mutex and semaphore wrappers over the heap and the RTOS; implements `SyncObjects` |
| `MC*` | the same modules for TLC, with the patterns it runs on |
| `PlatformConnectionProofs`, `PdmcClientProofs`, `BlinkyProofs`, `BlinkRequestProofs`, `MemTraceProofs`, `PlatSyncProofs` | theorems and proofs of the module each is named after |
| `NatRecursion` | lemmas, no model: functions defined by recursion over the naturals exist and are unique |

Operators called *wrong variants* stand before the definition they alter. They
are bugs one could have written instead; each property below has been seen to
fail when one of them replaces its definition.

### Correspondence with the code

- **PlatformConnection.** `pc` names the statement of `init_connection(int8_t)`
  that comes next: `connect` is 236, `arm` is 243 (`dispatch_called = true`),
  `dispatch` is 244, `check` is 247, `disconnect` is 254 with the wait and the
  loop's end. `callback` does the same for `network_status_callback()`: the
  assignment of `interface_connected`, the test and reset of `dispatch_called`,
  and `break_dispatch()`. The test and the reset are one step: the only other
  writer, the main thread, is then inside `dispatch_forever()` or has yet to
  set the flag, so nothing can come between that matters. `link` and `owes_down`
  are the driver: `disconnect()` may be reported at once, later (during the next
  attempt, which it then ends) or never.
- **ConnectCall.** It leaves open when the status changes: `init_connection(int8_t)`
  clears it when it begins and when it gives up, and handlers that run nested in
  its dispatch, `close_connection()` among them, change it as well. What it fixes
  is the answer: `true` only in a step that leaves the status connected.
- **PdmcClient.** `stage` says which function the main thread is in: the boot,
  `main()`'s dispatch, `pdmc_client_resume()`, or the reboot. `Dispatching` holds
  when some dispatch of the queue runs, `main()`'s or the nested one; every
  handler has it as a guard and is then one step. `evq` holds library events sent
  and not handled, `wakes` the wake-up events, which have the lowest priority and
  wait for `evq` to be empty. `carry` is a history variable: the failures that
  `init_connection()` left in the error count. `resources` says how many of its four
  resources `init_example_resources()` created before one failed; a POST needs all
  of them. `AnswersEveryCall` instantiates `ConnectCall` with the client's own
  calls, first connection and resumption alike.
- **Blinky.** A pattern is a sequence of fields, told apart by what
  `strtol()` makes of them: a number (an empty field counts as 0), a value that
  ends the sequence but is passed over (negative, or a number with something
  behind it), and a character that no call gets past. `timers` counts the timed
  events of each kind that are requested and not delivered. `handle_buttons()` is
  modelled statement by statement, with interrupts between any two; all other
  handlers are one step. `unanswered` and `lost` are history variables.
- **BlinkRequest.** `responses` counts the pending calls of
  `send_application_response()`; each answers whatever token is stored by then.
  `open` holds the tokens whose POST awaits its response, `unscheduled` those for
  which `eventOS_timeout_ms()` failed; both are history variables.
- **MemTrace.** Sender: take a record and fill it, then put it. Receiver: get,
  print, free. An allocation inside `printf()` makes the receiving thread a
  sender as well.
- **PlatSync.** `id` holds the two handles, `block` the heap, `call` where each
  thread is inside a wrapper. What another thread can come between is a step of
  its own: `malloc()` and `osSemaphoreNew()`/`osMutexNew()` (or its failure and the
  `free()` behind it); the wait and its return, after which `plat_semaphore_wait()`
  reads the block once more for the count; the RTOS's deletion and `free()`. `tokens` and `locks` are
  the RTOS's own (external): it hands a released object to a waiting
  thread, and a deletion sends the waiting threads back with an error. `balance` and
  `taken` are history variables: what the callers believe who go by the statuses
  alone. They are also what `SyncObjects` is about: its `count` and `holds`. `late`
  is one as well: a semaphore may be deleted after it gave a token to a waiting
  thread and before the wait returns. The wrapper then reports a success all the
  same, of an object that is gone; `late` holds the threads it will report it to,
  and `SyncObjects` grants them this one success, which takes nothing from the
  semaphore that may exist by then.

## 3. Runs

Passing runs:

| Run | Bounds | Shows |
|---|---|---|
| `conn_threads` | two threads, RetryCount 5 as in the source | `ConnTypeOK`, `BreakOwned`, `Listening`, `AnswersTruthfully` (refines `ConnectCall!SafeSpec`) |
| `client_threads` | two threads, RetryCount 2, MaxInitErrors 4, MaxErrors 2, EvqMax 2 | `TypeOK`, `WakeUpScheduled`, `NoReentry`, `Listening`, `BreakOwned`, `RetryLoopBounded`, `RetryWaitDoubles`, `ErrorLimit`, `UsesConnection` (each step of the client is one the connection allows), `KeepsDutyCycle` and `AnswersAtMostOnce` (refine the safety parts of `DutyCycle` and `ConnectCall`) |
| `client_single` | one thread, RetryCount 3, MaxInitErrors 3, MaxErrors 2, EvqMax 2 | `StatusTruthful`, `BreakDue`, `CalledWhileRegistering`, `AnswersEveryCall` (refines `ConnectCall` with its liveness, nested handlers included), `ResumesConnected`, `FollowsDutyCycle` (refines `DutyCycle` with its liveness) |
| `blinky_play` | six patterns, one at a time, repeated or not; two registrations | `PeriodicTimersBounded`, `NoPressLost`, `PlaysPatterns` (refines `PatternPlayer` with its liveness), `PressesAnswered` |
| `blink_memory` | two patterns, two pending pattern timers, two tokens, any request may fail; two registrations, one of the two buttons pressed | `RequestTypeOK`, `StoredPostHasResponse`, `LoopsRun`, `SequenceGoesOn`, `LastPostAnswered` |
| `mem_trace` | two threads and the receiver, two records, two operations each | `MemTypeOK`, `OnePlace`, `NeverWaits`, `InOrder`, `RecordsReturn` |
| `plat_sync` | three threads, two blocks, at most two tokens, a mutex taken at most twice by its owner | `SyncTypeOK`, `HandlesMatch`, `NoDangling`, `StatusesTruthful`, `ActsAsObjects` (refines `SyncObjects`) |

Runs that end in a counterexample are in section 7.

Why the bounds are enough:

- *RetryCount* is the source's 5 in the connection's own run. Inside the client
  2 or 3 is enough for a first, a last and an "again" attempt.
- *MaxInitErrors* is 9 and *MaxErrors* 5 in the source. What matters is that the
  first exceeds the second, so that leftovers of the connection can pass the
  error threshold; 4 and 2, or 3 and 2, keep that, and `client_error_limit` uses 9
  and 5.
- *EvqMax* 2 lets an event overtake nothing but wait behind another one, across
  a handler that changes the state it finds. *ErrorBound* lies above both
  thresholds.
- *Patterns*: no field, one, several, an end inside, a first character nobody
  gets past, such a character after numbers. `blink_memory` keeps the empty one
  and the one behind whose end a left-over timer reads on.
- *MaxPatternTimers* 2: one timer of the earlier sequence, one of the present.
- *MaxRegistrations* 2: timers of registrations pile up, and a loop that was lost is
  restarted by the second one. `blinky_overlap`, which is about neither, has 1.
  *Pressable* holds both buttons, but in `blink_memory` only the one for the resource:
  presses have nothing to do there but to come in between.
  *CountModulus* 1 makes the button resource's value a constant: no property
  looks at it.
- *mpool* and the queue have two records instead of 64. The argument is one of
  equal sizes (`PoolAssumption`), not of the number, and two threads plus the
  receiver exhaust the pool.
- *Threads* of `plat_sync` are three: one that deletes or releases, two that
  wait, so that a release has a choice of waiters and one waiter can be on its way
  back while another still waits. Two *Blocks* let both objects exist, or one
  kind take over the block of the other; `Counts` holds one count above
  `MaxCount`, which `osSemaphoreNew()` refuses. Threads and blocks are symmetric.

Deadlock is checked where the system never stops (`blinky_play`, `plat_sync`).
It is not in the others: with two threads a lost wake-up leaves the main thread
waiting; a client closed by the button before it registered has nothing left
to do; what follows `strtol(NULL)` is unknown; threads make only *MaxOps*
allocations.

## 4. Fairness

- The main thread and the driver's thread are scheduled (`WF` of the statements
  of `init_connection(int8_t)`, of the callback, of `Poll`).
- Queued events are dispatched and timers expire (`WF` of `pdmc_event_handler`,
  `WakeUp`, `handle_buttons`). `SF` of `handle_pattern_event` and
  `send_application_response`: polling the buttons disables them again and again,
  but a queue that delivers by time gives each its turn.
- A driver that accepted a non-blocking `connect()` ends up connected or not:
  it has time-outs of its own. A blocking one returns.
- `mbed_client_default_reboot()` comes back.
- Every thread of the memory trace is scheduled, the receiver with its higher
  priority.

Nothing is assumed of the client library, the network, the buttons or the server.

## 5. Modelling assumptions

- The library calls the sleep callback only when it has been idle after a
  registration, with no event of its own pending. While paused it reports nothing
  but its closure.
- `close_connection()` is not called during a call of `init_connection(int8_t)`: the
  guard of `Close` is this assumption about callers, not a test in the code. In the
  client, the one caller there is, it is no assumption: `sleep_callback_function`
  calls `close_connection` without it, and `UsesConnection` (proved as
  `ConnectionIsUsed`) shows that it does so between two calls only.
- The driver does not call back twice at once. In the single-threaded build its
  callback is an event of the queue and so runs to its end.
- The application registers -1 as network event handler, so
  `send_network_event()` returns at its first test and is left out.
- Handlers that only print (`VALUE_UPDATED`, `BOOTSTRAP_DONE`, `button_callback()`,
  `pattern_callback()`) change no state and are left out.
- `assert(false)` in Blinky does nothing (release profile): *MayFail* lets
  requests for memory fail and the code go on.
- `registry_get_value_string()` finds the pattern resource, which the program
  created before it registered.
- Times are not modelled, but `timeout_ms` is: its doubling is the retry loop's
  own state. Priorities and order are modelled.
- The callers of the wrappers, who are outside this repository, do not use a handle
  while another thread creates or deletes its object, nor delete a mutex another
  thread has or was just handed, nor delete a semaphore under a wait that asked for the count
  (`plat_semaphore_wait()` reads the block after the wait). The wrappers guard
  against none of this. `MayDelete` states the last two; nothing else is asked of a
  deletion. It may come under any other wait, before the RTOS granted it or after.
- `osSemaphoreDelete()` and `osMutexDelete()` send the waiting threads back with
  `osErrorResource`, as in RTX.
- A call of `strtol()` with NULL is undefined; `pc` then is `undefined` and the
  model stops there.

## 6. Proofs

All proof modules hold for every value of the constants under the ASSUMEs of
the modules they extend: counts are positive, flags are Booleans, `Iface # NULL`,
patterns are sequences of fields and NULL is none of them, pool and queue are of
equal size, the threads are finitely many. Every invariant a passing run checks
is proved, and of its action and temporal properties the safety parts are.

**`PlatformConnectionProofs`**: `ConnInv == ConnTypeOK /\ BreakOwned /\
Listening` is inductive as it stands. The three parts of `BreakOwned` carry each
other: an armed flag, a callback about to break, and a pending break exclude one
another and each implies the nested dispatch. It gives `ConnTypeCorrect`,
`BreakStaysNested`, `CallIsListening`, and with them `PromiseImplemented`: each step
maps to a step of `ConnectCall` or to none. `SingleInv` adds what holds with one
thread: while the main thread is between two statements no callback is in flight.
`TruthInv` adds where the status can come from: it is connected, or a callback runs,
only while a listener is registered, and no call attempts anything while connected.
`ConnStatusIsTruthful` and `DispatchIsBroken` follow. The latter is the converse of
`BreakStaysNested`: a break comes to no other dispatch, and it does come to the
nested one. With two threads its first half alone holds, as `conn_lost_wakeup`
shows.

**`PdmcClientProofs`**: `WakeUpScheduled` and `NoReentry` are not inductive.
`NoReentry` depends on the library not calling the sleep callback while it
reconnects, so the invariant says where the library can be in each stage
(`StageInv`), relates the flag to the wake-ups in the queue and to a registered
client (`WakeInv`), and says which events can still be in the queue for which
library state. From it follow `TypeCorrect`, `SleepersWakeUp`,
`ResumptionNotReentered`, `ErrorsReboot`, `RetriesBounded`.

How handlers nest in a call of the connection is settled once: `ConnectionIsUsed`
says that every step of the client is a step of the connection, a
`close_connection()` between two calls, or leaves it alone. Every invariant of the
connection then holds in the client by one argument: `ConnectionUndisturbed`,
`StatusIsTruthful`, `ClientDispatchIsBroken`, and with one thread
`ResumedOverConnection`. `FollowsCycle` is the safety refinement of `DutyCycle`,
`ClientCallsAnswered` that of `ConnectCall` with handlers nested in the call.

`WaitsDouble` is about `RetryWait`, which is defined by recursion. That such a
function exists needs induction over data, and the library's theorem for it takes
an operator as a parameter. `NatRecursion` does without: induction is stated for a
*set* of numbers (`SetInduction`), and from it come the uniqueness and existence
of the functions that unroll a recursion (`UnrollsUnique`, `UnrollsExists`,
`RecursionExists`). The step itself is the arithmetic of one failure.

`CalledUntilClosed` needs `CalledInv`: once the library has been told to close, what is
queued for it cannot register it again before a reboot. It gives
`RegisteredWithResources`, the exact condition of the finding
`client_no_resources`: with all four resources the rule is kept.

**`BlinkyProofs`**: the invariant is the conjunction of the types with `NoPressLost`,
`LoopsRun` and `SequenceGoesOn`. The last two need lemmas on what requests do to
the timers (`FewerEffect`, `MoreEffect`, `RequestEffect`), the type of
`_curr_pattern` needs that `get_next_int()` stops at the end of the pattern
(`RunStepEffect`). The theorems are `BlinkyTypeCorrect`, `PressesKept`,
`LoopsKeepRunning`, `StartedSequenceGoesOn`. `PlaysAsWritten` is the safety
refinement of `PatternPlayer`, for sequences that do not overlap and memory that
suffices: `PlayInv` adds that only the sequence has a timer (`TimersOfSequence`) and
that a started sequence has a first number to go back to; `RestOfPattern` relates
`_curr_pattern` to the abstract module's rest of the pattern.

Counting goes the other way in `TimersDoNotMultiply`: `LoopsRun` says that there are
enough timers, `PeriodicTimersBounded` that there are not too many. `BoundInv` adds
that the tasklet's first event comes only after its creation; an event that requests
its successor, successfully or not, never leaves more than before
(`SuccessorBound`). Three theorems draw the limits of the findings.
`OneTimerOfOneRegistration`: until the second registration there is one increment
timer. `NoTimerLeftOver`: without overlap no timer is left over, even when requests
fail. `NoNullPatternRead`: without overlap, or with memory that suffices,
`strtol(NULL)` is not called; it takes both.

**`BlinkRequestProofs`**: `BlinkySafeUnderPosts` shows that Blinky's invariant survives
the POSTs, which start sequences as they like, `TimersBoundedUnderPosts` and
`NoNullPatternUnderPosts` the same of the bound and of the pattern. Blinky's lemmas
are stated for `AnyStep`, a step with a start at any time, so that both modules use
them. `RequestInv` puts `StoredPostHasResponse` beside the types: a response that
answers the stored token may be the one due for an earlier POST, so the proof is
about the number of responses due, not about which POST asked for them.

**`MemTraceProofs`**: `NeverWaits` is a matter of counting. `OnePlace` says that no
record is in two places; `Accounted` that each is in the pool, with one sender, in the
queue or with the receiver. A sender that is about to put has its record
outside the queue, so by the pigeonhole principle the queue has room. `InOrder` says
that a record which the receiver has printed is of a later operation than all
it printed of that thread before, so that neither a swap nor a repeat passes. It needs
the order of the reports: `Reported`, `Newest`, `Ordered` and `PrintedBound` say that
what a thread has printed is older than what the receiver has of it, this older than
what is queued, and that older than what the thread is filling in.
The theorems are `MemTypeCorrect`, `RecordsNotShared`, `ReportsNeverWait` and
`PrintedInOrder`.

**`PlatSyncProofs`**: in three layers. `Inv` is about the heap: one thread creates or
deletes an object of a kind at a time, a handle names an object of its kind, a call
is inside a live object unless it is on its way back from a failed wait, no block
is lost. It gives `HandlesAlwaysMatch` and `NoneDangling`. `Told` is about the
statuses, by cardinalities of the threads on their way back
(`TokensTold`) and per thread (`LocksTold`), beside `LateBack`, which says that
who is `late` is on the way back from a semaphore; with them come `SyncTypeCorrect` and
`StatusesAreTrue`. `WrappersImplementObjects` is the refinement of `SyncObjects`: an
object exists from its creation to the RTOS's deletion of it, and a success is
counted when the caller sees it, not when the RTOS grants it; one that comes
after the semaphore's deletion is the step `LearnsLate`. `TokensTold` then says
that a status 0 under way has a token behind it, `HolderAlone` that one of the mutex
finds no other holder, and `LocksLive`, the one part added to the invariant, that
nobody has a mutex which is gone.

Only model-checked: what holds under fairness (the liveness of `AnswersEveryCall`,
`FollowsDutyCycle` and `PlaysPatterns`, and `PressesAnswered`, `LastPostAnswered`,
`RecordsReturn`), since TLAPS does not reason about ENABLED.

## 7. Findings

Each is a run whose property restates what the repository says; the
counterexample is what the code does.

| Run | Property | Says | Does |
|---|---|---|---|
| `conn_lost_wakeup` | `LeavesWhenConnected` | "Stay here until we get a connection" (setup.cpp:230) | a callback between `connect()` and `dispatch_called = true` requests no break; the main thread stays in the dispatch though connected. Two threads only |
| `client_error_limit` | `RebootsAtMaxErrors` | "Max error count %d reached, rebooting." (pdmc_client_example.cpp:173) | the count starts with what the connection left in it and is compared with `==`; after five to eight failed connections error events pass the threshold |
| `client_no_resources` | `RegisteredWasCalled` | "Check if client is registering or registered" (main.cpp:91); "Failed to create resources - exit!" | `main()` dispatches all the same and the client registers, with `register_called` false |
| `blinky_overlap` | `TimersOfSequence` | "allow one to start multiple times before previous sequence has completed" (blinky.cpp:110) | `stop()` leaves the timer; two timers carry on one sequence, or, if `malloc()` fails, one reads a NULL pattern |
| `blinky_increment` | `OneIncrementTimer` | "Update resource periodically every 300 seconds" (blinky.cpp:44) | each registration adds a timer that requests its successor |

`LastPostAnswered` speaks of the last POST because no more can be promised:
a POST that arrives within 100 ms of another overwrites its token, and the earlier
one is never answered. `StoredPostHasResponse` is its safety half.

## 8. Hazards and what covers them

`PROJECT.json` lists each at its line. Covered: the callback's interleavings
(`BreakOwned`, `BreakDue`, `Listening`, `AnswersTruthfully`, `LeavesWhenConnected`), state left
by an earlier call (`StatusTruthful`), a disconnect reported late
(`AnswersEveryCall`, `StatusTruthful`), the nested dispatch (`NoReentry`,
`UsesConnection`, `KeepsDutyCycle`), the wake-up's
flag and event (`WakeUpScheduled`), the shared count (`RetryLoopBounded`,
`RetryWaitDoubles`, `ErrorLimit`), registration against its flag (`CalledWhileRegistering`), interrupts (`NoPressLost`), requests that fail
(`LoopsRun`, `SequenceGoesOn`), overlapping sequences and POSTs (`TimersOfSequence`,
`LastPostAnswered`, `StoredPostHasResponse`), waiting inside the allocator (`NeverWaits`,
`RecordsReturn`), deletion under a waiter and half-done creation (`NoDangling`,
`HandlesMatch`, `StatusesTruthful`, `ActsAsObjects`), timers that request their successors
(`PeriodicTimersBounded`).

Not covered: `strtol(NULL)` after a `malloc()` that failed does happen, and
`NoNullPatternRead` says when (section 6); what `strtol()` makes of the characters of a field is
abstracted into classes; that no semaphore is deleted under a wait which asks for its
count is assumed of the callers; `update_progress()` keeps eight bits of a quotient, but only prints it;
what the library makes of a `pdmc_resume()` after `pdmc_connect_close()`
is not visible in this repository.

## 9. Not modelled

The heap statistics and memory tests measure and print. The FOTA hooks are
placeholders that return success. Object definitions, credentials, update resources
and configuration are constant data; whether there are threads is a constant of the
modules (`SingleThread`). The developer tools are
sequential scripts run by hand. `update_progress()`, `button_callback()` and
`pattern_callback()` compute what they print and change no state. The prebuilt bootloaders and the vendored libraries
are not code of this repository. UDP queue mode is selected for every target by
`mbed_app.json` and `mbed_app_baremetal_tls.json`, but by `mbed_app_rtos.json` only for
`DISCO_L475VG_IOT01A_CELLULAR_ALTAIR`; its other target falls back to TCP
(`mbed_cloud_client_user_config.h`, 29-31). The code without queue mode, which neither
sleeps nor wakes up, is not modelled separately.

## 10. Plan

What a next step could add:

1. `PdmcClient` and `Blinky` composed: the events and timers both take from one
   pool, and a wake-up that finds none reboots the device. Today each module lets
   its own requests fail at any time, which allows more than the shared pool does.
2. `update_progress()` with its division and its eight bits, once something reads
   the percentage or the totals the library passes are known.
3. Larger instances: three registrations in `blinky_increment`, three records in
   `mem_trace`, three retries with two threads in `client_threads`.

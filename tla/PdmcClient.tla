----------------------------- MODULE PdmcClient -----------------------------
(***************************************************************************)
(* source/pdmc_client_example.cpp on top of the connection, in the UDP     *)
(* queue mode builds (mbed_app.json, mbed_app_baremetal_tls.json, and one  *)
(* target of mbed_app_rtos.json): boot, the handlers of the client         *)
(* library's events, sleep and wake-up, the reboot after too many errors.  *)
(*                                                                         *)
(* Every handler runs in the main thread, to its end, when the shared      *)
(* event queue is dispatched: by main(), or by init_connection(int8_t)     *)
(* while a wake-up is reconnecting.  The latter nests handlers: what they  *)
(* change, the interrupted pdmc_client_resume() finds changed.             *)
(***************************************************************************)
EXTENDS PlatformConnection, Integers, Sequences

CONSTANTS
  MaxInitErrors,   \* MAX_PDMC_CLIENT_INIT_CONNECTION_ERROR_COUNT
  MaxErrors,       \* MAX_PDMC_CLIENT_ERROR_COUNT
  EvqMax,          \* bound: events of the library not yet handled
  ErrorBound       \* bound: the library reports no error beyond this count

ASSUME LimitsAssumption ==
  /\ MaxInitErrors \in Nat \ {0}
  /\ MaxErrors \in Nat \ {0}
ASSUME BoundsAssumption == EvqMax \in Nat \ {0} /\ ErrorBound \in Nat

VARIABLES
  stage,             \* what the main thread runs: the boot, main()'s dispatch,
                     \* pdmc_client_resume(), or nothing any more
  registered, register_called,
  resources,         \* how many of its four resources the client has created
  paused, wake_up_requested,
  wakes,             \* external: wake-up events sent and not yet delivered
  pdmc_client_error_count,
  timeout_ms,        \* local of init_connection()
  carry,             \* history: the part of the count init_connection() left
  lib,               \* external: the client library
  evq,               \* external: its events, sent and not yet delivered
  unregister_sent    \* the response to 5000/0/1 awaits its delivery

errorVars == <<pdmc_client_error_count, carry>>
wakeVars == <<wake_up_requested, wakes>>
regVars == <<registered, register_called, resources>>
libVars == <<lib, evq, unregister_sent>>
clientVars == <<stage, regVars, paused, wakeVars, errorVars, timeout_ms,
                libVars>>
vars == <<connVars, clientVars>>

Events == {"setup_completed", "registered", "updated", "unregistered",
           "error", "other_error"}

TypeOK ==
  /\ ConnTypeOK
  /\ stage \in {"boot", "main", "resume", "rebooting"}
  /\ registered \in BOOLEAN
  /\ register_called \in BOOLEAN
  /\ resources \in 0 .. 4
  /\ paused \in BOOLEAN
  /\ wake_up_requested \in BOOLEAN
  /\ wakes \in Nat
  /\ pdmc_client_error_count \in Nat
  /\ timeout_ms \in Nat
  /\ carry \in Nat
  /\ lib \in {"none", "setup", "ready", "connecting", "awake", "paused",
              "closing", "closingPaused", "closed"}
  /\ evq \in Seq(Events)
  /\ unregister_sent \in BOOLEAN

ClientInit ==
  /\ stage = "boot"
  /\ registered = FALSE
  /\ register_called = FALSE
  /\ resources = 0
  /\ paused = FALSE
  /\ wake_up_requested = FALSE
  /\ wakes = 0
  /\ pdmc_client_error_count = 0
  /\ timeout_ms = 5000
  /\ carry = 0
  /\ lib = "none"
  /\ evq = <<>>
  /\ unregister_sent = FALSE

Init == ConnInit /\ ClientInit

Reconnecting == stage \in {"boot", "resume"}

\* Some dispatch_forever() of the shared queue is running.
Dispatching ==
  /\ MainRuns
  /\ \/ stage = "main" /\ pc = "idle"
     \/ Reconnecting /\ pc = "dispatch"

Reboot == stage' = "rebooting"

-----------------------------------------------------------------------------
(* init_connection(): the retry loop around init_connection(int8_t).       *)

\* Wrong variant: the count is tested before it is incremented.
reboot_one_late(threshold) ==
  /\ pdmc_client_error_count' = pdmc_client_error_count + 1
  /\ IF pdmc_client_error_count = threshold THEN Reboot ELSE UNCHANGED stage

reboot_if_threshold_value(threshold) ==
  /\ pdmc_client_error_count' = pdmc_client_error_count + 1
  /\ IF pdmc_client_error_count' = threshold THEN Reboot ELSE UNCHANGED stage

Attempt ==
  /\ Reconnecting
  /\ Call
  /\ UNCHANGED clientVars

\* Wrong variant: the failure is not counted.
AttemptFailsForEver ==
  /\ Reconnecting
  /\ At("false")
  /\ Return
  /\ UNCHANGED clientVars

AttemptFails ==
  /\ Reconnecting
  /\ At("false")
  /\ Return
  /\ timeout_ms' = timeout_ms * 2
  /\ reboot_if_threshold_value(MaxInitErrors)
  /\ UNCHANGED <<regVars, paused, wakeVars, carry, libVars>>

\* The resources are created in order (the last is 5000/0/1), up to the first
\* that fails; the failure may also be that of its initial value.
init_example_resources == resources' \in 0 .. 4

\* A resource that cannot be created ends it early.
init_pdmc_client ==
  /\ lib' = "setup"
  /\ init_example_resources
  /\ register_called' = (resources' = 4)
  /\ UNCHANGED <<registered, evq, unregister_sent>>

\* The end of pdmc_client_resume().
pdmc_connect_resume ==
  /\ lib' = CASE lib = "paused" -> "connecting"
              [] lib = "closingPaused" -> "closing"
              [] OTHER -> lib
  /\ UNCHANGED <<regVars, evq, unregister_sent>>

AttemptSucceeds ==
  /\ Reconnecting
  /\ At("true")
  /\ Return
  /\ stage' = "main"
  /\ IF stage = "boot" THEN init_pdmc_client ELSE pdmc_connect_resume
  /\ carry' = pdmc_client_error_count
  /\ UNCHANGED <<paused, wakeVars, pdmc_client_error_count, timeout_ms>>

-----------------------------------------------------------------------------
(* Sleep and wake-up.                                                      *)

\* Wrong variant: the flag is not consulted.
request_without_flag ==
  \/ /\ wakes' = wakes + 1
     /\ wake_up_requested' = TRUE
     /\ UNCHANGED stage
  \/ Reboot /\ UNCHANGED wakeVars

request_next_wake_up ==
  IF wake_up_requested
  THEN UNCHANGED <<stage, wakeVars>>
  ELSE \/ /\ wakes' = wakes + 1
          /\ wake_up_requested' = TRUE
          /\ UNCHANGED stage
       \/ Reboot /\ UNCHANGED wakeVars   \* eventOS_event_send_after() failed

\* Wrong variant: the library is not told to pause.
sleep_without_pause ==
  /\ Dispatching
  /\ lib = "awake" /\ evq = <<>>
  /\ close_connection
  /\ paused' = TRUE
  /\ UNCHANGED <<stage, regVars, wakeVars, errorVars, timeout_ms, libVars>>

\* The library has been idle: nothing of it waits to be handled.
sleep_callback_function ==
  /\ Dispatching
  /\ lib = "awake" /\ evq = <<>>
  /\ lib' = "paused"
  /\ close_connection
  /\ paused' = TRUE
  /\ UNCHANGED <<stage, regVars, wakeVars, errorVars, timeout_ms, evq,
                 unregister_sent>>

\* Wrong variants: the device still counts as paused while it reconnects; the
\* wait of an earlier reconnection is kept.
resume_still_paused ==
  /\ UNCHANGED paused
  /\ stage' = "resume"
  /\ pdmc_client_error_count' = 0
  /\ timeout_ms' = 5000
  /\ pc' = "enter"
  /\ UNCHANGED <<callVars, flagVars, driverVars, carry>>

resume_keeps_wait ==
  /\ paused' = FALSE
  /\ stage' = "resume"
  /\ pdmc_client_error_count' = 0
  /\ pc' = "enter"
  /\ UNCHANGED <<callVars, flagVars, driverVars, carry, timeout_ms>>

\* pdmc_client_resume() up to its first attempt to connect.
pdmc_client_resume ==
  /\ paused' = FALSE
  /\ stage' = "resume"
  /\ pdmc_client_error_count' = 0
  /\ timeout_ms' = 5000
  /\ pc' = "enter"
  /\ UNCHANGED <<callVars, flagVars, driverVars, carry>>

\* wake_up_event_handler_wrapper() and handle_wake_up().  The event has low
\* priority: it waits until the library's events are handled.  Its own event
\* has been delivered, so request_next_wake_up() sends the next one.
WakeUp ==
  /\ Dispatching
  /\ wakes > 0 /\ evq = <<>>
  /\ \/ /\ wake_up_requested' = TRUE
        /\ UNCHANGED wakes
        /\ IF paused THEN pdmc_client_resume
           ELSE UNCHANGED <<connVars, stage, paused, errorVars, timeout_ms>>
     \/ /\ Reboot                 \* eventOS_event_send_after() failed
        /\ wake_up_requested' = FALSE
        /\ wakes' = wakes - 1
        /\ UNCHANGED <<connVars, paused, errorVars, timeout_ms>>
  /\ UNCHANGED <<regVars, libVars>>

-----------------------------------------------------------------------------
(* pdmc_event_handler() and what it calls.                                 *)

register_pdmc_client ==
  /\ lib' = IF lib = "ready" THEN "connecting" ELSE lib
  /\ UNCHANGED <<stage, regVars, wakeVars, errorVars>>

pdmc_client_registered ==
  /\ registered' = TRUE
  /\ pdmc_client_error_count' = 0
  /\ carry' = 0
  /\ request_next_wake_up
  /\ UNCHANGED <<register_called, resources, lib>>

\* Wrong variant: only the other flag is reset.
unregistered_keeps_registered ==
  /\ register_called' = FALSE
  /\ UNCHANGED <<stage, registered, resources, wakeVars, errorVars, lib>>

pdmc_client_unregistered ==
  /\ registered' = FALSE
  /\ register_called' = FALSE
  /\ UNCHANGED <<stage, resources, wakeVars, errorVars, lib>>

pdmc_client_registration_updated ==
  /\ pdmc_client_error_count' = 0
  /\ carry' = 0
  /\ UNCHANGED <<stage, regVars, wakeVars, lib>>

\* "error" stands for the four codes that are counted.
pdmc_client_error_event(error) ==
  /\ IF error = "error" THEN reboot_if_threshold_value(MaxErrors)
     ELSE UNCHANGED <<stage, pdmc_client_error_count>>
  /\ UNCHANGED <<regVars, wakeVars, carry, lib>>

pdmc_event_handler ==
  /\ Dispatching
  /\ evq # <<>>
  /\ evq' = Tail(evq)
  /\ CASE Head(evq) = "setup_completed" -> register_pdmc_client
       [] Head(evq) = "registered" -> pdmc_client_registered
       [] Head(evq) = "unregistered" -> pdmc_client_unregistered
       [] Head(evq) = "updated" -> pdmc_client_registration_updated
       [] OTHER -> pdmc_client_error_event(Head(evq))
  /\ UNCHANGED <<connVars, paused, timeout_ms, unregister_sent>>

-----------------------------------------------------------------------------
(* Unregistering: by the button, or by a POST to 5000/0/1, which is        *)
(* answered first.                                                         *)

pdmc_connect_close ==
  lib' = CASE lib \in {"connecting", "awake"} -> "closing"
           [] lib = "paused" -> "closingPaused"
           [] OTHER -> lib

\* handle_buttons() calls pdmc_client_close().
unregister_button_clicked ==
  /\ Dispatching
  /\ register_called
  /\ pdmc_connect_close
  /\ UNCHANGED <<connVars, stage, regVars, paused, wakeVars, errorVars,
                 timeout_ms, evq, unregister_sent>>

unregister_callback ==
  /\ Dispatching
  /\ \/ /\ lib = "awake" /\ resources = 4              \* the POST
        /\ unregister_sent' = TRUE
        /\ UNCHANGED lib
     \/ /\ unregister_sent            \* the response delivered, or given up
        /\ lib \notin {"paused", "closingPaused"}
        /\ unregister_sent' = FALSE
        /\ pdmc_connect_close
  /\ UNCHANGED <<connVars, stage, regVars, paused, wakeVars, errorVars,
                 timeout_ms, evq>>

-----------------------------------------------------------------------------
(* The library, as this file uses it.  While paused it reports nothing.    *)

Emit(event, next) ==
  /\ evq' = Append(evq, event)
  /\ lib' = next

LibReports ==
  /\ stage = "main" \/ Reconnecting
  /\ Len(evq) < EvqMax
  /\ \/ lib = "setup" /\ Emit("setup_completed", "ready")
     \/ lib = "connecting" /\ Emit("registered", "awake")
     \/ lib = "connecting" /\ registered /\ Emit("updated", "awake")
     \/ lib = "awake" /\ Emit("updated", "awake")
     \/ /\ lib \in {"connecting", "awake"}
        /\ pdmc_client_error_count + Len(evq) < ErrorBound
        /\ Emit("error", "connecting")
     \/ lib \in {"connecting", "awake"} /\ Emit("other_error", lib)
     \/ lib \in {"closing", "closingPaused"} /\ Emit("unregistered", "closed")
     \/ lib \in {"closing", "closingPaused"} /\ Emit("other_error", "closed")
  /\ UNCHANGED <<connVars, stage, regVars, paused, wakeVars, errorVars,
                 timeout_ms, unregister_sent>>

-----------------------------------------------------------------------------
\* mbed_client_default_reboot(): every variable of the program starts anew.
Restart ==
  /\ stage = "rebooting"
  /\ pc' = "idle" /\ attempt' = 1 /\ blocking_interface' = FALSE
  /\ network_interface' = NULL /\ interface_connected' = FALSE
  /\ dispatch_called' = FALSE /\ listeners' = 0
  /\ break_requested' = FALSE
  /\ link' = "down" /\ owes_down' = FALSE /\ callback' = "none"
  /\ stage' = "boot"
  /\ registered' = FALSE /\ register_called' = FALSE /\ resources' = 0
  /\ paused' = FALSE
  /\ wake_up_requested' = FALSE /\ wakes' = 0
  /\ pdmc_client_error_count' = 0 /\ carry' = 0
  /\ timeout_ms' = 5000
  /\ lib' = "none" /\ evq' = <<>> /\ unregister_sent' = FALSE

ConnectionStep ==
  /\ Reconnecting
  /\ InitConnectionStep
  /\ UNCHANGED clientVars

StatusStep ==
  /\ stage # "rebooting"
  /\ \/ CallbackStep
     \/ (SingleThread => Dispatching) /\ DriverStep
  /\ UNCHANGED clientVars

Next ==
  \/ Attempt \/ AttemptFails \/ AttemptSucceeds
  \/ ConnectionStep \/ StatusStep
  \/ sleep_callback_function \/ WakeUp
  \/ pdmc_event_handler
  \/ unregister_button_clicked \/ unregister_callback
  \/ LibReports
  \/ Restart

\* Both threads are scheduled, the queue's events are dispatched, timers
\* expire, a reboot comes back, and a driver that accepted connect() ends up
\* connected or not.  Nothing is assumed of the library or the buttons.
Fairness ==
  /\ WF_vars(Attempt \/ AttemptFails \/ AttemptSucceeds \/ ConnectionStep)
  /\ WF_vars(CallbackStep /\ StatusStep)
  /\ WF_vars(link = "connecting" /\ (LinkComesUp \/ LinkGoesDown) /\ StatusStep)
  /\ WF_vars(pdmc_event_handler)
  /\ WF_vars(WakeUp)
  /\ WF_vars(Restart)

SafeSpec == Init /\ [][Next]_vars
Spec == SafeSpec /\ Fairness

-----------------------------------------------------------------------------
(* What the client promises.                                               *)

\* A sleeping device has its wake-up, and no device has two: every path of
\* request_next_wake_up() keeps the flag in step with the queue.
WakeUpScheduled ==
  stage # "rebooting" =>
    /\ wakes = IF wake_up_requested THEN 1 ELSE 0
    /\ paused => wakes = 1

\* The device sleeps only under main()'s own dispatch.  A handler nested in the
\* dispatch of a wake-up therefore neither puts it back to sleep nor starts a
\* second pdmc_client_resume() inside the first.
NoReentry == paused /\ stage # "rebooting" => stage = "main" /\ pc = "idle"

\* init_connection() does not go on past MaxInitErrors failures: the loop starts
\* without those counted before, and no handler nested in it, which may count
\* in the same variable, takes it over the threshold unnoticed.
RetryLoopBounded == Reconnecting => pdmc_client_error_count < MaxInitErrors

\* The wait after n failures of one loop.
RetryWait[n \in Nat] == IF n = 0 THEN 5000 ELSE 2 * RetryWait[n - 1]

\* It waits 5 s after the first of them and then twice as long each time, though
\* the count is shared with handlers that run nested in the loop.
RetryWaitDoubles ==
  Reconnecting => timeout_ms = RetryWait[pdmc_client_error_count]

\* Error events add up to a reboot at MaxErrors, provided the failures that
\* init_connection() left in the shared count are fewer.
ErrorLimit ==
  stage = "main" /\ carry < MaxErrors => pdmc_client_error_count < MaxErrors

\* The same without the proviso: "Max error count %d reached, rebooting."
RebootsAtMaxErrors ==
  stage = "main" => pdmc_client_error_count - carry < MaxErrors

\* main() asks is_pdmc_client_register_called() to learn whether the "client is
\* registering or registered"; without its resources the client is to exit.
RegisteredWasCalled == registered => register_called

\* With all its resources a client keeps to that rule to the end: whatever
\* handlers and events are still queued when it is closed, it is neither
\* registered nor able to register once the flag is reset.
CalledWhileRegistering ==
  resources = 4 /\ (registered \/ lib # "closed") => register_called

\* The library is resumed over a connected interface: in the single-threaded
\* build nothing can take it away between the answer and its use.
ResumesConnected ==
  [][stage = "resume" /\ stage' = "main" =>
       get_network_interface = Iface]_vars

\* The client uses the connection as its module says, so what is shown of it
\* there holds here: handlers nested in the dispatch of a call neither close
\* the connection under it nor call it again; only a reboot cuts a call off.
UsesConnection == [][ConnNext \/ Restart]_connVars

Cycle == INSTANCE DutyCycle WITH
  phase <- IF stage = "rebooting" THEN "rebooting"
           ELSE IF paused THEN "asleep"
           ELSE IF stage = "boot" THEN "booting"
           ELSE IF stage = "resume" THEN "waking"
           ELSE "online"

\* The device boots, sleeps and wakes up in the order of its duty cycle, and
\* goes to sleep only when it is online, in both builds.
KeepsDutyCycle == Cycle!SafeSpec

\* The device follows its duty cycle and never gets stuck asleep, booting or
\* reconnecting.
FollowsDutyCycle == Cycle!Spec

\* What the rest of the program sees of init_connection(int8_t).  A reboot
\* takes the answer away from a call that is under way.
ClientCall == INSTANCE ConnectCall WITH
  call <- IF pc \in {"idle", "true", "false"} THEN pc
          ELSE IF stage = "rebooting" THEN "false" ELSE "busy",
  connected <- interface_connected

\* In both builds a call is answered at most once, and true only while the
\* interface is connected, though handlers run nested in it.
AnswersAtMostOnce == ClientCall!SafeSpec

\* Whatever the handlers do that run nested in a call, and although
\* disconnect() may be reported when the next call is already waiting: every
\* call is answered, once, and true only while the interface is connected.
AnswersEveryCall == ClientCall!Spec

=============================================================================

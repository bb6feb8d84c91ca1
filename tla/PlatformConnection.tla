------------------------- MODULE PlatformConnection -------------------------
(***************************************************************************)
(* The network connection of source/platform/mbed-os/setup.cpp:            *)
(* init_connection(int8_t), close_connection() and the driver's callback   *)
(* network_status_callback().                                              *)
(*                                                                         *)
(* Two threads of control meet here.  The main thread asks the driver to   *)
(* connect without blocking and then dispatches the shared event queue     *)
(* from inside init_connection() until the callback breaks that dispatch.  *)
(* The callback runs in the driver's thread, one statement at a time       *)
(* (mbed_app_rtos.json), or, in the single-threaded build (mbed_app.json), *)
(* as an event of the queue the main thread is dispatching.                *)
(*                                                                         *)
(* The application passes -1 as event handler, so send_network_event()     *)
(* returns at its first test and is left out, as are the callback's cases  *)
(* that only call it.                                                      *)
(***************************************************************************)
EXTENDS Naturals

CONSTANTS
  RetryCount,    \* PLATFORM_CONNECTION_RETRY_COUNT
  SingleThread,  \* TRUE: the callback only runs where the queue is dispatched
  NULL, Iface    \* the values of network_interface

ASSUME RetryCountAssumption == RetryCount \in Nat \ {0}
ASSUME SingleThreadAssumption == SingleThread \in BOOLEAN
ASSUME InterfaceAssumption == Iface # NULL

VARIABLES
  pc,                   \* where the main thread is in init_connection(int8_t)
  attempt,              \* its loop counter i
  blocking_interface,   \* its local of that name
  network_interface,
  interface_connected,
  dispatch_called,
  listeners,            \* how often network_status_callback is registered
  break_requested,      \* external: the shared queue's break flag
  link,                 \* external: what the driver is doing
  owes_down,            \* external: a disconnect() not yet reported
  callback              \* where the driver is in network_status_callback()

callVars == <<attempt, blocking_interface, network_interface, listeners>>
mainVars == <<pc, callVars>>
flagVars == <<interface_connected, dispatch_called, break_requested>>
driverVars == <<link, owes_down, callback>>
connVars == <<mainVars, flagVars, driverVars>>

ConnTypeOK ==
  /\ pc \in {"idle", "enter", "connect", "arm", "dispatch", "check",
             "disconnect", "true", "false"}
  /\ attempt \in 1 .. RetryCount
  /\ blocking_interface \in BOOLEAN
  /\ network_interface \in {NULL, Iface}
  /\ interface_connected \in BOOLEAN
  /\ dispatch_called \in BOOLEAN
  /\ listeners \in {0, 1}
  /\ break_requested \in BOOLEAN
  /\ link \in {"down", "connecting", "up"}
  /\ owes_down \in BOOLEAN
  /\ callback \in {"none", "up", "down", "test", "break"}

ConnInit ==
  /\ pc = "idle"
  /\ attempt = 1
  /\ blocking_interface = FALSE
  /\ network_interface = NULL
  /\ interface_connected = FALSE
  /\ dispatch_called = FALSE
  /\ listeners = 0
  /\ break_requested = FALSE
  /\ link = "down"
  /\ owes_down = FALSE
  /\ callback = "none"

\* With one thread the callback runs to its end before the main thread goes on.
MainRuns == SingleThread => callback = "none"

At(label) == pc = label /\ MainRuns

-----------------------------------------------------------------------------
(* The driver, as setup.cpp uses it.                                       *)

\* disconnect() returned NSAPI_ERROR_OK.  The driver may report it, now or
\* later, or not at all.
DriverDisconnects ==
  /\ link' = "down"
  /\ owes_down' \in {owes_down, link # "down"}
  /\ UNCHANGED callback

CanReport == callback = "none" /\ (SingleThread => pc \in {"idle", "dispatch"})

Report(status) == callback' = IF listeners > 0 THEN status ELSE "none"

LinkComesUp ==
  /\ CanReport
  /\ link = "connecting"
  /\ link' = "up"
  /\ Report("up")
  /\ UNCHANGED <<mainVars, flagVars, owes_down>>

\* The attempt to connect fails, or an established connection is lost.
LinkGoesDown ==
  /\ CanReport
  /\ link \in {"connecting", "up"}
  /\ link' = "down"
  /\ Report("down")
  /\ UNCHANGED <<mainVars, flagVars, owes_down>>

LateDown ==
  /\ CanReport
  /\ owes_down
  /\ owes_down' = FALSE
  /\ Report("down")
  /\ UNCHANGED <<mainVars, flagVars, link>>

-----------------------------------------------------------------------------
(* network_status_callback(), statement by statement.                      *)

CallbackSets ==
  /\ callback \in {"up", "down"}
  /\ interface_connected' = (callback = "up")
  /\ callback' = "test"
  /\ UNCHANGED <<mainVars, dispatch_called, break_requested, link, owes_down>>

\* Wrong variants: the flag is left set; the dispatch is not broken.
CallbackKeepsFlag ==
  /\ callback = "test"
  /\ callback' = IF dispatch_called THEN "break" ELSE "none"
  /\ UNCHANGED <<mainVars, interface_connected, dispatch_called,
                 break_requested, link, owes_down>>

CallbackNeverBreaks ==
  /\ callback = "test"
  /\ dispatch_called' = FALSE
  /\ callback' = "none"
  /\ UNCHANGED <<mainVars, interface_connected, break_requested, link,
                 owes_down>>

CallbackTests ==
  /\ callback = "test"
  /\ dispatch_called' = FALSE
  /\ callback' = IF dispatch_called THEN "break" ELSE "none"
  /\ UNCHANGED <<mainVars, interface_connected, break_requested, link,
                 owes_down>>

CallbackBreaks ==
  /\ callback = "break"
  /\ break_requested' = TRUE
  /\ callback' = "none"
  /\ UNCHANGED <<mainVars, interface_connected, dispatch_called, link,
                 owes_down>>

-----------------------------------------------------------------------------
(* init_connection(int8_t), in the main thread.                            *)

Call ==
  /\ At("idle")
  /\ pc' = "enter"
  /\ UNCHANGED <<callVars, flagVars, driverVars>>

EnterNoInterface ==
  /\ At("enter")
  /\ network_interface' = NULL
  /\ pc' = "false"
  /\ UNCHANGED <<attempt, blocking_interface, listeners, flagVars, driverVars>>

\* Wrong variant: a new call trusts the status of the one before.
EnterKeepsStatus ==
  /\ At("enter")
  /\ network_interface' = Iface
  /\ link' \in {link, "down"}
  /\ listeners' = 1
  /\ dispatch_called' = FALSE
  /\ blocking_interface' \in BOOLEAN
  /\ attempt' = 1
  /\ pc' = "connect"
  /\ UNCHANGED <<interface_connected, break_requested, owes_down, callback>>

\* Wrong variant: the listener is added, then removed.
EnterRemovesLast ==
  /\ At("enter")
  /\ network_interface' = Iface
  /\ link' \in {link, "down"}
  /\ listeners' = 0
  /\ interface_connected' = FALSE
  /\ dispatch_called' = FALSE
  /\ blocking_interface' \in BOOLEAN
  /\ attempt' = 1
  /\ pc' = "connect"
  /\ UNCHANGED <<break_requested, owes_down, callback>>

\* A cellular modem is powered off first; the listener is removed and added.
Enter ==
  /\ At("enter")
  /\ network_interface' = Iface
  /\ link' \in {link, "down"}
  /\ listeners' = 1
  /\ interface_connected' = FALSE
  /\ dispatch_called' = FALSE
  /\ blocking_interface' \in BOOLEAN
  /\ attempt' = 1
  /\ pc' = "connect"
  /\ UNCHANGED <<break_requested, owes_down, callback>>

ConnectStarts ==
  /\ At("connect")
  /\ ~blocking_interface
  /\ link # "up"
  /\ link' = "connecting"
  /\ pc' = "arm"
  /\ UNCHANGED <<callVars, flagVars, owes_down, callback>>

ConnectIsConnected ==
  /\ At("connect")
  /\ ~blocking_interface
  /\ link = "up"
  /\ interface_connected' = TRUE
  /\ pc' = "check"
  /\ UNCHANGED <<callVars, dispatch_called, break_requested, driverVars>>

ConnectFails ==
  /\ At("connect")
  /\ ~blocking_interface
  /\ pc' = "false"
  /\ UNCHANGED <<callVars, flagVars, driverVars>>

BlockingConnects ==
  /\ At("connect")
  /\ blocking_interface
  /\ link' = "up"
  /\ interface_connected' = TRUE
  /\ pc' = "true"
  /\ UNCHANGED <<callVars, dispatch_called, break_requested, owes_down,
                 callback>>

BlockingFails ==
  /\ At("connect")
  /\ blocking_interface
  /\ pc' = "disconnect"
  /\ UNCHANGED <<callVars, flagVars, driverVars>>

Arm ==
  /\ At("arm")
  /\ dispatch_called' = TRUE
  /\ pc' = "dispatch"
  /\ UNCHANGED <<callVars, interface_connected, break_requested, driverVars>>

\* The nested dispatch_forever() returns: it takes the break request.
DispatchReturns ==
  /\ At("dispatch")
  /\ break_requested
  /\ break_requested' = FALSE
  /\ pc' = "check"
  /\ UNCHANGED <<callVars, interface_connected, dispatch_called, driverVars>>

\* Wrong variant: a dispatch that ended counts as a connection.
CheckNothing ==
  /\ At("check")
  /\ pc' = "true"
  /\ UNCHANGED <<callVars, flagVars, driverVars>>

Check ==
  /\ At("check")
  /\ pc' = IF interface_connected THEN "true" ELSE "disconnect"
  /\ UNCHANGED <<callVars, flagVars, driverVars>>

\* Wrong variant: the loop runs once more than it should.
NextAttemptOneMore ==
  /\ At("disconnect")
  /\ IF attempt > RetryCount
     THEN pc' = "false" /\ UNCHANGED attempt
     ELSE pc' = "connect" /\ attempt' = attempt + 1
  /\ DriverDisconnects \/ UNCHANGED driverVars
  /\ UNCHANGED <<blocking_interface, network_interface, listeners, flagVars>>

\* disconnect(), do_wait() and the end of the loop body.
NextAttempt ==
  /\ At("disconnect")
  /\ IF attempt = RetryCount
     THEN pc' = "false" /\ UNCHANGED attempt
     ELSE pc' = "connect" /\ attempt' = attempt + 1
  /\ DriverDisconnects \/ UNCHANGED driverVars
  /\ UNCHANGED <<blocking_interface, network_interface, listeners, flagVars>>

Return ==
  /\ \/ At("true")
     \/ At("false")
  /\ pc' = "idle"
  /\ UNCHANGED <<callVars, flagVars, driverVars>>

InitConnectionStep ==
  \/ EnterNoInterface \/ Enter
  \/ ConnectStarts \/ ConnectIsConnected \/ ConnectFails
  \/ BlockingConnects \/ BlockingFails
  \/ Arm \/ DispatchReturns \/ Check \/ NextAttempt

-----------------------------------------------------------------------------
(* close_connection(), called by a handler of the event queue.             *)

CloseDisconnects ==
  /\ network_interface # NULL
  /\ DriverDisconnects
  /\ listeners' = 0
  /\ network_interface' = NULL
  /\ interface_connected' = FALSE
  /\ UNCHANGED <<pc, attempt, blocking_interface, dispatch_called,
                 break_requested>>

\* Nothing to close, or disconnect() failed.
CloseFails == UNCHANGED connVars

close_connection == CloseDisconnects \/ CloseFails

get_network_interface == IF interface_connected THEN network_interface ELSE NULL

\* The code of close_connection() would run during a call as well.  That none of
\* its callers has it do so is assumed here; of the client it is a property.
Close == At("idle") /\ close_connection

-----------------------------------------------------------------------------
DriverStep == LinkComesUp \/ LinkGoesDown \/ LateDown
CallbackStep == CallbackSets \/ CallbackTests \/ CallbackBreaks

ConnNext == Call \/ InitConnectionStep \/ Return \/ Close \/ DriverStep
            \/ CallbackStep

\* The main thread and the driver's thread are scheduled, and a driver that
\* accepted connect() ends up connected or not.
ConnFairness ==
  /\ WF_connVars(InitConnectionStep)
  /\ WF_connVars(Return)
  /\ WF_connVars(CallbackStep)
  /\ WF_connVars(link = "connecting" /\ (LinkComesUp \/ LinkGoesDown))

ConnSafeSpec == ConnInit /\ [][ConnNext]_connVars
ConnSpec == ConnSafeSpec /\ ConnFairness

-----------------------------------------------------------------------------
(* What the connection promises.                                           *)

\* The queue that init_connection() dispatches is the one main() dispatches
\* for the rest of the program ("a bit dangerous as main thread uses same
\* queue").  A break is therefore only ever requested for the nested dispatch,
\* at most once for each, and is taken by it: none is left to end main()'s.
BreakOwned ==
  /\ dispatch_called => pc = "dispatch"
  /\ callback = "break" =>
       pc = "dispatch" /\ ~dispatch_called /\ ~break_requested
  /\ break_requested => pc = "dispatch" /\ ~dispatch_called

\* No dispatch that init_connection() started is left without a break to come:
\* its flag is set until the callback takes it, and then the break is requested.
\* In the single-threaded build the status is not connected before that, so a
\* connection ends the wait; with two threads it may be made too early for it.
BreakDue ==
  pc = "dispatch" =>
    /\ dispatch_called \/ callback = "break" \/ break_requested
    /\ SingleThread /\ interface_connected /\ dispatch_called =>
         callback = "test"

\* While a call is past its first statements the callback is registered and
\* network_interface is set, so the status the call waits for reaches it.
Listening ==
  pc \in {"connect", "arm", "dispatch", "check", "disconnect", "true"} =>
    listeners = 1 /\ network_interface = Iface

\* In the single-threaded build interface_connected, which decides whether
\* get_network_interface() hands out the interface, never claims a connection
\* the driver has not got, a report on its way excepted.
StatusTruthful ==
  SingleThread /\ interface_connected /\ callback # "down" => link = "up"

Promise == INSTANCE ConnectCall WITH
  call <- IF pc \in {"idle", "true", "false"} THEN pc ELSE "busy",
  connected <- interface_connected

\* init_connection(int8_t) answers only calls that were made, once each, and
\* answers true only at a moment when the interface is connected.
AnswersTruthfully == Promise!SafeSpec

\* The loop of init_connection() is left once there is a connection ("Stay
\* here until we get a connection").
LeavesWhenConnected ==
  (pc = "dispatch" /\ interface_connected) ~>
    (pc # "dispatch" \/ ~interface_connected)

=============================================================================

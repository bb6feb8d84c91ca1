--------------------------- MODULE PdmcClientProofs ---------------------------
(***************************************************************************)
(* For every threshold and bound and both builds: type correctness of the  *)
(* client, the wake-up of a sleeping device, no re-entry of a resumption,  *)
(* the connection used as it allows, with all its guarantees under nested  *)
(* handlers, the error limit, the retries and their waits, and that the    *)
(* client takes the steps of the duty cycle and of ConnectCall.            *)
(***************************************************************************)
EXTENDS PdmcClient, PlatformConnectionProofs, SequenceTheorems, NatRecursion

\* Event e is among the events q that are not yet handled.
Has(q, e) == \E i \in 1 .. Len(q) : q[i] = e

LEMMA HasAppend ==
  ASSUME NEW q \in Seq(Events), NEW e \in Events, NEW x
  PROVE  /\ Append(q, e) \in Seq(Events)
         /\ Has(Append(q, e), x) <=> Has(q, x) \/ x = e
<1>1. /\ Append(q, e) \in Seq(Events)
      /\ Len(Append(q, e)) = Len(q) + 1
      /\ \A i \in 1 .. Len(q) : Append(q, e)[i] = q[i]
      /\ Append(q, e)[Len(q) + 1] = e
  BY AppendProperties
<1>2. Len(q) \in Nat
  BY LenProperties
<1>3. QED
  BY <1>1, <1>2, SMT DEF Has

LEMMA HasTail ==
  ASSUME NEW q \in Seq(Events), q # <<>>, NEW x
  PROVE  /\ Head(q) \in Events
         /\ Tail(q) \in Seq(Events)
         /\ Has(q, x) <=> Has(Tail(q), x) \/ x = Head(q)
<1>1. /\ Head(q) \in Events
      /\ Tail(q) \in Seq(Events)
      /\ Len(Tail(q)) = Len(q) - 1
      /\ \A i \in 1 .. Len(Tail(q)) : Tail(q)[i] = q[i + 1]
  BY HeadTailProperties
<1>2. /\ Len(q) \in Nat \ {0}
      /\ Head(q) = q[1]
  BY EmptySeq, SMT
<1>3. ASSUME NEW i \in 1 .. Len(q), i # 1
      PROVE  i - 1 \in 1 .. Len(Tail(q)) /\ Tail(q)[i - 1] = q[i]
  BY <1>1, <1>2, <1>3, SMT
<1>4. ASSUME NEW i \in 1 .. Len(Tail(q))
      PROVE  i + 1 \in 1 .. Len(q) /\ Tail(q)[i] = q[i + 1]
  BY <1>1, <1>2, SMT
<1>5. 1 \in 1 .. Len(q)
  BY <1>2, SMT
<1>6. Has(Tail(q), x) => Has(q, x)
  BY <1>4, Zenon DEF Has
<1>7. x = Head(q) => Has(q, x)
  BY <1>2, <1>5, Zenon DEF Has
<1>8. ASSUME Has(q, x), x # Head(q) PROVE Has(Tail(q), x)
  <2>1. PICK i \in 1 .. Len(q) : q[i] = x
    BY <1>8 DEF Has
  <2>2. i # 1
    BY <2>1, <1>2, <1>8
  <2>3. QED
    BY <2>1, <2>2, <1>3, Zenon DEF Has
<1>9. QED
  BY <1>1, <1>6, <1>7, <1>8

LEMMA HasEmpty == \A x : ~ Has(<<>>, x)
BY SMT DEF Has

-----------------------------------------------------------------------------
(* The inductive invariant.                                                *)

Running == stage # "rebooting"

\* The library is not connected, and reports at most that it was closed.
Offline == lib \in {"paused", "closingPaused", "closed"}

\* Where the main thread can be in each stage.
StageInv ==
  /\ stage = "boot" => lib = "none" /\ evq = <<>> /\ wakes = 0 /\ ~paused
                       /\ ~wake_up_requested /\ ~registered
                       /\ ~register_called /\ ~unregister_sent
  /\ stage = "main" => pc = "idle"
  /\ stage = "resume" => Offline /\ ~paused
  /\ paused /\ Running => stage = "main" /\ Offline

\* The flag counts the wake-ups, and a registered client has one.
WakeInv ==
  Running =>
    /\ wakes = IF wake_up_requested THEN 1 ELSE 0
    /\ registered => wake_up_requested
    /\ paused => wake_up_requested

\* An awake library has reported its registration, and reports the end of it
\* only once it is closed.
LibInv ==
  /\ lib = "awake" => registered \/ Has(evq, "registered")
  /\ Has(evq, "unregistered") => lib = "closed"

ClientTypes ==
  /\ stage \in {"boot", "main", "resume", "rebooting"}
  /\ registered \in BOOLEAN
  /\ register_called \in BOOLEAN
  /\ paused \in BOOLEAN
  /\ wake_up_requested \in BOOLEAN
  /\ lib \in {"none", "setup", "ready", "connecting", "awake", "paused",
              "closing", "closingPaused", "closed"}
  /\ evq \in Seq(Events)
  /\ unregister_sent \in BOOLEAN

CountTypes ==
  /\ wakes \in Nat
  /\ pdmc_client_error_count \in Nat
  /\ timeout_ms \in Nat
  /\ carry \in Nat
  /\ resources \in 0 .. 4

Inv == ClientTypes /\ CountTypes /\ ConnInv /\ StageInv /\ WakeInv /\ LibInv

LEMMA InvTypes == Inv => TypeOK
BY DEF Inv, ConnInv, ClientTypes, CountTypes, TypeOK

LEMMA InitInv == Init => Inv
<1> SUFFICES ASSUME Init PROVE Inv
  OBVIOUS
<1>1. ConnInv
  BY ConnInitInv DEF Init
<1>2. ClientTypes
  BY EmptySeq, Zenon DEF Init, ClientInit, ClientTypes
<1>3. CountTypes
  BY SMT DEF Init, ClientInit, CountTypes
<1>4. StageInv /\ WakeInv /\ LibInv
  BY HasEmpty, Zenon
  DEF Init, ClientInit, StageInv, WakeInv, LibInv, Running, Offline
<1>5. QED
  BY <1>1, <1>2, <1>3, <1>4 DEF Inv

-----------------------------------------------------------------------------
(* One lemma for each action.                                              *)

\* The actions of the connection leave the client's own variables alone, and
\* the reconnecting stages do not depend on pc.
LEMMA ConnectionStepInv == Inv /\ ConnectionStep => Inv'
<1> SUFFICES ASSUME Inv, ConnectionStep PROVE Inv'
  OBVIOUS
<1>1. ConnInv'
  BY InitConnectionStepInv DEF Inv, ConnectionStep
<1>2. ClientTypes' /\ CountTypes'
  BY DEF Inv, ConnectionStep, clientVars, regVars, wakeVars, errorVars,
                    libVars, ClientTypes, CountTypes
<1>3. StageInv' /\ WakeInv' /\ LibInv'
  BY Zenon DEF Inv, ConnectionStep, Reconnecting, clientVars, regVars,
     wakeVars, errorVars, libVars, StageInv, WakeInv, LibInv, Running, Offline
<1>4. QED
  BY <1>1, <1>2, <1>3 DEF Inv

LEMMA StatusStepInv == Inv /\ StatusStep => Inv'
<1> SUFFICES ASSUME Inv, StatusStep PROVE Inv'
  OBVIOUS
<1>1. ConnInv'
  BY DriverStepInv, CallbackStepInv DEF Inv, StatusStep
<1>2. UNCHANGED pc
  BY DEF StatusStep, DriverStep, LinkComesUp, LinkGoesDown, LateDown,
         CallbackStep, CallbackSets, CallbackTests, CallbackBreaks, mainVars,
         callVars, flagVars
<1>3. ClientTypes' /\ CountTypes'
  BY DEF Inv, StatusStep, clientVars, regVars, wakeVars, errorVars, libVars,
         ClientTypes, CountTypes
<1>4. StageInv' /\ WakeInv' /\ LibInv'
  BY <1>2, Zenon DEF Inv, StatusStep, clientVars, regVars, wakeVars,
     errorVars, libVars, StageInv, WakeInv, LibInv, Running, Offline
<1>5. QED
  BY <1>1, <1>3, <1>4 DEF Inv

LEMMA AttemptInv == Inv /\ Attempt => Inv'
<1> SUFFICES ASSUME Inv, Attempt PROVE Inv'
  OBVIOUS
<1>1. ConnInv'
  BY CallInv DEF Inv, Attempt
<1>2. ClientTypes' /\ CountTypes'
  BY DEF Inv, Attempt, clientVars, regVars, wakeVars, errorVars, libVars,
         ClientTypes, CountTypes
<1>3. StageInv' /\ WakeInv' /\ LibInv'
  BY Zenon DEF Inv, Attempt, Reconnecting, clientVars, regVars, wakeVars,
     errorVars, libVars, StageInv, WakeInv, LibInv, Running, Offline
<1>4. QED
  BY <1>1, <1>2, <1>3 DEF Inv

\* A failed attempt only counts, or reboots.
LEMMA AttemptFailsInv == Inv /\ AttemptFails => Inv'
<1> SUFFICES ASSUME Inv, AttemptFails PROVE Inv'
  OBVIOUS
<1> USE DEF AttemptFails, reboot_if_threshold_value, Reboot, Reconnecting,
            regVars, wakeVars, errorVars, libVars
<1>1. ConnInv'
  BY ReturnInv DEF Inv
<1>2. ClientTypes'
  BY Zenon DEF Inv, ClientTypes
<1>3. CountTypes'
  BY SMT DEF Inv, CountTypes
<1>4. StageInv' /\ WakeInv' /\ LibInv'
  BY Zenon DEF Inv, StageInv, WakeInv, LibInv, Running, Offline
<1>5. QED
  BY <1>1, <1>2, <1>3, <1>4 DEF Inv

\* The library is initialised at the end of the boot and resumed at the end of
\* a wake-up; neither makes it awake.
LEMMA AttemptSucceedsInv == Inv /\ AttemptSucceeds => Inv'
<1> SUFFICES ASSUME Inv, AttemptSucceeds PROVE Inv'
  OBVIOUS
<1> USE DEF AttemptSucceeds, regVars, wakeVars
<1>1. ConnInv' /\ pc' = "idle"
  BY ReturnInv DEF Inv, Return
<1>2. CountTypes'
  <2>1. resources' \in 0 .. 4
    BY DEF Inv, CountTypes, init_pdmc_client, init_example_resources,
           pdmc_connect_resume
  <2>2. QED
    BY <2>1 DEF Inv, CountTypes
<1>3. CASE stage = "boot"
  <2>1. ClientTypes'
    BY <1>3 DEF Inv, ClientTypes, init_pdmc_client
  <2>2. StageInv' /\ WakeInv'
    BY <1>1, <1>3 DEF Inv, StageInv, WakeInv, Running, Offline,
                      init_pdmc_client
  <2>3. LibInv'
    BY <1>3, HasEmpty DEF Inv, StageInv, LibInv, init_pdmc_client
  <2>4. QED
    BY <1>1, <1>2, <2>1, <2>2, <2>3 DEF Inv
<1>4. CASE stage = "resume"
  <2>1. lib' \in {"connecting", "closing", "closed"}
        /\ (lib = "closed" => lib' = "closed")
    BY <1>4 DEF Inv, StageInv, Offline, pdmc_connect_resume
  <2>2. ClientTypes'
    BY <1>4, <2>1 DEF Inv, ClientTypes, pdmc_connect_resume
  <2>3. StageInv' /\ WakeInv'
    BY <1>1, <1>4 DEF Inv, StageInv, WakeInv, Running, Offline,
                      pdmc_connect_resume
  <2>4. LibInv'
    BY <1>4, <2>1, Zenon DEF Inv, LibInv, pdmc_connect_resume
  <2>5. QED
    BY <1>1, <1>2, <2>2, <2>3, <2>4 DEF Inv
<1>5. QED
  BY <1>3, <1>4 DEF Reconnecting

\* Sleep: an awake library is never found in a nested dispatch.
LEMMA SleepInv == Inv /\ sleep_callback_function => Inv'
<1> SUFFICES ASSUME Inv, sleep_callback_function PROVE Inv'
  OBVIOUS
<1> USE DEF sleep_callback_function, regVars, wakeVars, errorVars
<1>1. stage = "main" /\ pc = "idle" /\ registered
  BY HasEmpty DEF Inv, ClientTypes, StageInv, LibInv, Offline, Dispatching,
                  Reconnecting
<1>2. ConnInv' /\ pc' = "idle"
  BY <1>1, CloseInv DEF Inv, close_connection, CloseDisconnects, CloseFails,
                        connVars, mainVars, callVars, flagVars
<1>3. ClientTypes' /\ CountTypes'
  BY DEF Inv, ClientTypes, CountTypes
<1>4. StageInv' /\ WakeInv'
  BY <1>1, <1>2 DEF Inv, StageInv, WakeInv, Running, Offline
<1>5. LibInv'
  BY HasEmpty DEF LibInv
<1>6. QED
  BY <1>2, <1>3, <1>4, <1>5 DEF Inv

\* A wake-up keeps one request pending; it resumes only from main()'s dispatch.
LEMMA WakeUpInv == Inv /\ WakeUp => Inv'
<1> SUFFICES ASSUME Inv, WakeUp PROVE Inv'
  OBVIOUS
<1> USE DEF regVars, libVars, errorVars
<1>1. ASSUME wake_up_requested' = TRUE, UNCHANGED wakes,
             IF paused THEN pdmc_client_resume
             ELSE UNCHANGED <<connVars, stage, paused, errorVars, timeout_ms>>
      PROVE  Inv'
  <2>1. Running /\ stage # "boot" /\ wakes = 1
    <3>1. Running /\ wakes # 0 /\ stage # "boot"
      BY SMT DEF Inv, WakeUp, Dispatching, Reconnecting, Running, StageInv
    <3>2. QED
      BY <3>1 DEF Inv, WakeInv
  <2>2. CASE paused
    <3>1. stage = "main" /\ pc = "idle" /\ Offline
      BY <2>1, <2>2 DEF Inv, StageInv
    <3>2. ConnInv'
      <4>1. Call
        BY <1>1, <2>2, <3>1
        DEF Call, At, WakeUp, Dispatching, pdmc_client_resume, driverVars,
            callVars, flagVars
      <4>2. QED
        BY <4>1, CallInv DEF Inv
    <3>3. /\ paused' = FALSE /\ stage' = "resume"
          /\ UNCHANGED <<registered, register_called, resources, lib, evq,
                         unregister_sent>>
      BY <1>1, <2>2 DEF WakeUp, pdmc_client_resume
    <3>4. ClientTypes'
      BY <1>1, <3>3, Zenon DEF Inv, ClientTypes
    <3>5. CountTypes'
      BY <1>1, <2>2, <3>3, SMT DEF Inv, CountTypes, pdmc_client_resume
    <3>6. StageInv'
      BY <3>1, <3>3, Zenon DEF StageInv, Running, Offline
    <3>7. WakeInv'
      BY <1>1, <2>1, <3>3 DEF WakeInv, Running
    <3>8. LibInv'
      BY <3>3, Zenon DEF Inv, LibInv
    <3>9. QED
      BY <3>2, <3>4, <3>5, <3>6, <3>7, <3>8 DEF Inv
  <2>3. CASE ~paused
    <3>1. ConnInv' /\ UNCHANGED pc
      BY <1>1, <2>3, ConnStutterInv DEF Inv, connVars, mainVars, callVars, flagVars
    <3>2. ClientTypes' /\ CountTypes'
      BY <1>1, <2>3 DEF Inv, WakeUp, ClientTypes, CountTypes
    <3>3. StageInv' /\ WakeInv' /\ LibInv'
      BY <1>1, <2>1, <2>3, <3>1, Zenon
      DEF Inv, WakeUp, StageInv, WakeInv, LibInv, Running, Offline
    <3>4. QED
      BY <3>1, <3>2, <3>3 DEF Inv
  <2>4. QED
    BY <2>2, <2>3
<1>2. ASSUME Reboot, wake_up_requested' = FALSE, wakes' = wakes - 1,
             UNCHANGED <<connVars, paused, errorVars, timeout_ms>>
      PROVE  Inv'
  <2>1. ConnInv' /\ UNCHANGED pc
    BY <1>2, ConnStutterInv DEF Inv, connVars, mainVars, callVars, flagVars
  <2>2. ClientTypes'
    BY <1>2 DEF Inv, WakeUp, ClientTypes, Reboot
  <2>3. CountTypes'
    BY <1>2, SMT DEF Inv, WakeUp, CountTypes
  <2>4. StageInv' /\ WakeInv' /\ LibInv'
    BY <1>2, <2>1, Zenon
    DEF Inv, WakeUp, StageInv, WakeInv, LibInv, Running, Offline, Reboot
  <2>5. QED
    BY <2>1, <2>2, <2>3, <2>4 DEF Inv
<1>3. QED
  BY <1>1, <1>2 DEF WakeUp

\* request_next_wake_up() leaves the flag set, or reboots.
LEMMA RequestInv ==
  ASSUME CountTypes, WakeInv, request_next_wake_up, Running,
         wake_up_requested \in BOOLEAN
  PROVE  /\ wakes' \in Nat
         /\ wake_up_requested' \in BOOLEAN
         /\ stage' \in {stage, "rebooting"}
         /\ stage' # "rebooting" => wake_up_requested' = TRUE /\ wakes' = 1
<1>1. CASE wake_up_requested
  BY <1>1 DEF request_next_wake_up, WakeInv, Running, CountTypes, wakeVars
<1>2. CASE ~wake_up_requested
  <2>1. wakes = 0
    BY <1>2 DEF WakeInv, Running
  <2>2. CASE wakes' = wakes + 1 /\ wake_up_requested' = TRUE /\ UNCHANGED stage
    BY <2>1, <2>2, SMT
  <2>3. CASE Reboot /\ UNCHANGED wakeVars
    BY <2>3 DEF Reboot, wakeVars, CountTypes
  <2>4. QED
    BY <1>2, <2>2, <2>3 DEF request_next_wake_up
<1>3. QED
  BY <1>1, <1>2

\* The handlers of the library's events, in whichever dispatch they run.
LEMMA EventInv == Inv /\ pdmc_event_handler => Inv'
<1> SUFFICES ASSUME Inv, pdmc_event_handler PROVE Inv'
  OBVIOUS
<1> DEFINE e == Head(evq)
<1> DEFINE Effect ==
         /\ stage' \in {stage, "rebooting"}
         /\ lib' = lib \/ (lib = "ready" /\ lib' = "connecting")
         /\ wakes' \in Nat /\ wake_up_requested' \in BOOLEAN
         /\ registered' \in BOOLEAN /\ register_called' \in BOOLEAN
         /\ stage' # "rebooting" => WakeInv'
         /\ registered' = registered
            \/ (e = "registered" /\ registered')
            \/ (e = "unregistered" /\ ~registered')
         /\ e = "registered" => registered'
<1>1. ConnInv' /\ UNCHANGED <<pc, paused>>
  BY ConnStutterInv DEF Inv, pdmc_event_handler, connVars, mainVars, callVars, flagVars
<1>2. /\ evq # <<>> /\ evq' = Tail(evq)
      /\ Running /\ stage # "boot"
      /\ evq \in Seq(Events) /\ wake_up_requested \in BOOLEAN
  BY DEF Inv, ClientTypes, pdmc_event_handler, Dispatching, Reconnecting,
         Running, StageInv
<1>3. /\ e \in Events /\ evq' \in Seq(Events)
      /\ \A x : Has(evq, x) <=> Has(evq', x) \/ x = e
  BY <1>2, HasTail
<1>4. Effect
  <2>1. CASE e = "registered"
    <3>1. pdmc_client_registered
      BY <2>1 DEF pdmc_event_handler
    <3>2. /\ wakes' \in Nat /\ wake_up_requested' \in BOOLEAN
          /\ stage' \in {stage, "rebooting"}
          /\ stage' # "rebooting" => wake_up_requested' = TRUE /\ wakes' = 1
      BY <1>2, <3>1, RequestInv DEF Inv, pdmc_client_registered
    <3>3. /\ registered' = TRUE
          /\ UNCHANGED <<register_called, lib>>
      BY <3>1 DEF pdmc_client_registered
    <3>4. stage' # "rebooting" => WakeInv'
      BY <3>2 DEF WakeInv
    <3>5. register_called \in BOOLEAN
      BY DEF Inv, ClientTypes
    <3>6. QED
      BY <2>1, <3>2, <3>3, <3>4, <3>5, Zenon
  <2> DEFINE Quiet ==
           /\ e # "registered"
           /\ stage' \in {stage, "rebooting"}
           /\ wakes' = wakes /\ wake_up_requested' = wake_up_requested
           /\ \/ registered' = registered
                /\ register_called' = register_called
              \/ /\ e = "unregistered"
                 /\ registered' = FALSE /\ register_called' = FALSE
           /\ lib' = lib \/ (lib = "ready" /\ lib' = "connecting")
  <2>2. ASSUME Quiet PROVE Effect
    <3>1. /\ wakes \in Nat /\ wake_up_requested \in BOOLEAN
          /\ registered \in BOOLEAN /\ register_called \in BOOLEAN
      BY DEF Inv, ClientTypes, CountTypes
    <3>2. registered' => registered
      BY <2>2
    <3>3. WakeInv'
      BY <1>1, <1>2, <2>2, <3>2, Zenon DEF Inv, WakeInv, Running
    <3>4. QED
      BY <2>2, <3>1, <3>3, Zenon
  <2>3. CASE e = "setup_completed"
    <3>1. register_pdmc_client
      BY <2>3 DEF pdmc_event_handler
    <3>2. Quiet
      BY <2>3, <3>1 DEF register_pdmc_client, regVars, wakeVars
    <3>3. QED
      BY <2>2, <3>2
  <2>4. CASE e = "unregistered"
    <3>1. pdmc_client_unregistered
      BY <2>4 DEF pdmc_event_handler
    <3>2. Quiet
      BY <2>4, <3>1 DEF pdmc_client_unregistered, wakeVars
    <3>3. QED
      BY <2>2, <3>2
  <2>5. CASE e = "updated"
    <3>1. pdmc_client_registration_updated
      BY <2>5 DEF pdmc_event_handler
    <3>2. Quiet
      BY <2>5, <3>1
      DEF pdmc_client_registration_updated, regVars, wakeVars
    <3>3. QED
      BY <2>2, <3>2
  <2>6. CASE e \in {"error", "other_error"}
    <3>1. pdmc_client_error_event(e)
      BY <2>6 DEF pdmc_event_handler
    <3>2. stage' \in {stage, "rebooting"}
      BY <3>1 DEF pdmc_client_error_event, reboot_if_threshold_value, Reboot
    <3>3. Quiet
      BY <2>6, <3>1, <3>2 DEF pdmc_client_error_event, regVars, wakeVars
    <3>4. QED
      BY <2>2, <3>3
  <2>7. QED
    BY <1>3, <2>1, <2>3, <2>4, <2>5, <2>6 DEF Events
<1>5. pdmc_client_error_count' \in Nat /\ carry' \in Nat
      /\ UNCHANGED <<timeout_ms, unregister_sent, resources>>
  BY SMT
  DEF Inv, CountTypes, pdmc_event_handler, register_pdmc_client,
      pdmc_client_registered, pdmc_client_unregistered,
      pdmc_client_registration_updated, pdmc_client_error_event,
      reboot_if_threshold_value, errorVars, regVars
<1>6. ClientTypes'
  BY <1>1, <1>3, <1>4, <1>5 DEF Inv, ClientTypes
<1>7. CountTypes'
  BY <1>4, <1>5 DEF Inv, CountTypes
<1>8. StageInv'
  BY <1>1, <1>2, <1>4 DEF Inv, StageInv, Running, Offline
<1>9. WakeInv'
  BY <1>4 DEF WakeInv, Running
<1>10. LibInv'
  <2>1. lib = "awake" => registered \/ Has(evq, "registered")
    BY DEF Inv, LibInv
  <2>2. Has(evq, "unregistered") => lib = "closed"
    BY DEF Inv, LibInv
  <2>3. lib' = "awake" => registered' \/ Has(evq', "registered")
    <3>1. ASSUME lib' = "awake" PROVE lib = "awake"
      BY <1>4, <3>1
    <3>2. lib = "awake" => e # "unregistered"
      BY <1>3, <2>2
    <3>3. QED
      BY <1>3, <1>4, <2>1, <3>1, <3>2
  <2>4. Has(evq', "unregistered") => lib' = "closed"
    BY <1>3, <1>4, <2>2
  <2>5. QED
    BY <2>3, <2>4 DEF LibInv
<1>11. QED
  BY <1>1, <1>6, <1>7, <1>8, <1>9, <1>10 DEF Inv

\* Unregistering takes an awake library away, and never makes one awake.
LEMMA CloseEffect ==
  ASSUME Inv, Dispatching, pdmc_connect_close, UNCHANGED evq
  PROVE  /\ lib' \in {"none", "setup", "ready", "connecting", "awake", "paused",
                      "closing", "closingPaused", "closed"}
         /\ lib' # "awake"
         /\ Offline <=> Offline'
         /\ lib = "closed" => lib' = "closed"
BY DEF Inv, ClientTypes, pdmc_connect_close, Offline

LEMMA UnregisterInv ==
  Inv /\ (unregister_button_clicked \/ unregister_callback) => Inv'
<1> SUFFICES ASSUME Inv, unregister_button_clicked \/ unregister_callback
             PROVE  Inv'
  OBVIOUS
<1>1. /\ Dispatching
      /\ UNCHANGED <<connVars, stage, regVars, paused, wakeVars, errorVars,
                     timeout_ms, evq>>
      /\ pdmc_connect_close \/ lib' = lib
      /\ unregister_sent' \in BOOLEAN
  BY DEF unregister_button_clicked, unregister_callback, Inv, ClientTypes
<1>2. ConnInv' /\ pc' = pc
  BY <1>1, ConnStutterInv DEF Inv, connVars, mainVars, callVars, flagVars
<1>3. Running /\ stage # "boot"
  BY DEF unregister_button_clicked, unregister_callback, Inv, Dispatching,
         Reconnecting, Running, StageInv
<1>4. /\ lib' \in {"none", "setup", "ready", "connecting", "awake", "paused",
                   "closing", "closingPaused", "closed"}
      /\ lib' = "awake" => lib = "awake"
      /\ Offline <=> Offline'
      /\ lib = "closed" => lib' = "closed"
  BY <1>1, CloseEffect DEF Inv, ClientTypes, Offline
<1>5. ClientTypes' /\ CountTypes'
  BY <1>1, <1>4
  DEF Inv, ClientTypes, CountTypes, regVars, wakeVars, errorVars
<1>6. StageInv'
  <2>1. stage' = stage /\ paused' = paused
    BY <1>1
  <2>2. QED
    BY <1>2, <1>3, <1>4, <2>1, Zenon DEF Inv, StageInv, Running
<1>7. WakeInv'
  BY <1>1 DEF Inv, WakeInv, Running, regVars, wakeVars
<1>8. LibInv'
  BY <1>1, <1>4, Zenon DEF Inv, LibInv, regVars
<1>9. QED
  BY <1>2, <1>5, <1>6, <1>7, <1>8 DEF Inv

\* The library becomes awake by reporting a registration, or with one reported.
LEMMA LibReportsInv == Inv /\ LibReports => Inv'
<1> SUFFICES ASSUME Inv, LibReports PROVE Inv'
  OBVIOUS
<1>1. UNCHANGED <<connVars, stage, regVars, paused, wakeVars, errorVars,
                  timeout_ms, unregister_sent>>
  BY DEF LibReports
<1>2. ConnInv' /\ pc' = pc
  BY <1>1, ConnStutterInv DEF Inv, connVars, mainVars, callVars, flagVars
<1>3. PICK e \in Events :
        /\ evq' = Append(evq, e)
        /\ lib # "none"
        /\ lib' \in {"ready", "connecting", "awake", "closed"}
        /\ lib' = "closed" <=> lib \in {"closing", "closingPaused"}
        /\ lib \in {"paused", "closed"} => FALSE
        /\ e = "unregistered" => lib' = "closed"
        /\ lib' = "awake" => lib = "awake" \/ registered \/ e = "registered"
  BY Zenon DEF LibReports, Emit, Events, Inv, ClientTypes
<1>4. /\ evq' \in Seq(Events)
      /\ \A x : Has(evq', x) <=> Has(evq, x) \/ x = e
  BY <1>3, HasAppend DEF Inv, ClientTypes
<1>5. ClientTypes' /\ CountTypes'
  BY <1>1, <1>3, <1>4
  DEF Inv, ClientTypes, CountTypes, regVars, wakeVars, errorVars
<1>6. StageInv'
  BY <1>1, <1>2, <1>3 DEF Inv, StageInv, Running, Offline, regVars, wakeVars
<1>7. WakeInv'
  BY <1>1 DEF Inv, WakeInv, Running, regVars, wakeVars
<1>8. LibInv'
  <2>1. lib' = "awake" => registered' \/ Has(evq', "registered")
    BY <1>1, <1>3, <1>4 DEF Inv, LibInv, regVars
  <2>2. Has(evq', "unregistered") => lib' = "closed"
    BY <1>3, <1>4 DEF Inv, LibInv
  <2>3. QED
    BY <2>1, <2>2 DEF LibInv
<1>9. QED
  BY <1>2, <1>5, <1>6, <1>7, <1>8 DEF Inv

LEMMA RestartInv == Restart => Inv'
<1> SUFFICES ASSUME Restart PROVE Inv'
  OBVIOUS
<1>1. ConnInv'
  BY FirstAttempt DEF Restart, ConnInv, ConnTypeOK, BreakOwned, Listening
<1>2. ClientTypes'
  BY EmptySeq, Zenon DEF Restart, ClientTypes
<1>3. CountTypes'
  BY SMT DEF Restart, CountTypes
<1>4. StageInv' /\ WakeInv' /\ LibInv'
  BY HasEmpty DEF Restart, StageInv, WakeInv, LibInv, Running, Offline
<1>5. QED
  BY <1>1, <1>2, <1>3, <1>4 DEF Inv

LEMMA StutterInv == Inv /\ UNCHANGED vars => Inv'
<1> SUFFICES ASSUME Inv, UNCHANGED vars PROVE Inv'
  OBVIOUS
<1> USE DEF vars, clientVars, regVars, wakeVars, errorVars, libVars
<1>1. ConnInv' /\ pc' = pc
  BY ConnStutterInv DEF Inv, connVars, mainVars, callVars, flagVars
<1>2. ClientTypes' /\ CountTypes'
  BY DEF Inv, ClientTypes, CountTypes
<1>3. StageInv' /\ WakeInv' /\ LibInv'
  BY <1>1, Zenon DEF Inv, StageInv, WakeInv, LibInv, Running, Offline
<1>4. QED
  BY <1>1, <1>2, <1>3 DEF Inv

-----------------------------------------------------------------------------
(* The theorems.                                                           *)

\* The invariant holds in every reachable state of the client.
THEOREM Invariance == SafeSpec => []Inv
<1>1. Init => Inv
  BY InitInv
<1>2. Inv /\ [Next]_vars => Inv'
  BY AttemptInv, AttemptFailsInv, AttemptSucceedsInv, ConnectionStepInv,
     StatusStepInv, SleepInv, WakeUpInv, EventInv, UnregisterInv,
     LibReportsInv, RestartInv, StutterInv
  DEF Next
<1>3. QED
  BY <1>1, <1>2, PTL DEF SafeSpec

\* Type correctness of the client.
THEOREM TypeCorrect == SafeSpec => []TypeOK
BY Invariance, InvTypes, PTL

\* A sleeping device has exactly one wake-up pending.
THEOREM SleepersWakeUp == SafeSpec => []WakeUpScheduled
<1>1. Inv => WakeUpScheduled
  BY DEF Inv, WakeInv, WakeUpScheduled, Running
<1>2. QED
  BY <1>1, Invariance, PTL

\* No handler nested in a resumption sleeps or resumes.
THEOREM ResumptionNotReentered == SafeSpec => []NoReentry
<1>1. Inv => NoReentry
  BY DEF Inv, StageInv, NoReentry, Running
<1>2. QED
  BY <1>1, Invariance, PTL

\* The connection's guarantees survive the nesting of handlers: no handler
\* closes it under a call, and none leaves a break request to main().
THEOREM ConnectionUndisturbed == SafeSpec => [](BreakOwned /\ Listening)
<1>1. Inv => BreakOwned /\ Listening
  BY DEF Inv, ConnInv
<1>2. QED
  BY <1>1, Invariance, PTL

-----------------------------------------------------------------------------
(* Steps.                                                                  *)

\* Handlers leave the connection alone but for the two that main()'s own dispatch
\* runs: one closes it to sleep, one calls it to wake up.
LEMMA UsesConnectionStep == Inv /\ [Next]_vars => [ConnNext \/ Restart]_connVars
<1> SUFFICES ASSUME Inv, [Next]_vars
             PROVE  ConnNext \/ Restart \/ UNCHANGED connVars
  OBVIOUS
<1>1. CASE Attempt \/ AttemptFails \/ AttemptSucceeds \/ ConnectionStep
           \/ StatusStep
  BY <1>1 DEF Attempt, AttemptFails, AttemptSucceeds, ConnectionStep,
     StatusStep, ConnNext
<1>2. CASE sleep_callback_function
  <2>1. pc = "idle" /\ MainRuns
    BY <1>2, HasEmpty DEF sleep_callback_function, Inv, StageInv, LibInv,
                          Offline, Dispatching, Reconnecting
  <2>2. QED
    BY <1>2, <2>1 DEF sleep_callback_function, ConnNext, Close, At
<1>3. CASE WakeUp
  <2>1. CASE paused /\ pdmc_client_resume
    <3>1. pc = "idle" /\ MainRuns
      BY <1>3, <2>1 DEF WakeUp, Dispatching, Reconnecting, Inv, StageInv,
                        Running
    <3>2. QED
      BY <2>1, <3>1 DEF pdmc_client_resume, ConnNext, Call, At
  <2>2. CASE UNCHANGED connVars
    BY <2>2
  <2>3. QED
    BY <1>3, <2>1, <2>2 DEF WakeUp
<1>4. CASE pdmc_event_handler \/ unregister_button_clicked
           \/ unregister_callback \/ LibReports \/ UNCHANGED vars
  BY <1>4 DEF pdmc_event_handler, unregister_button_clicked,
     unregister_callback, LibReports, vars
<1>5. QED
  BY <1>1, <1>2, <1>3, <1>4 DEF Next

\* The client's steps are steps of the connection's module, or restarts.
THEOREM ConnectionIsUsed == SafeSpec => UsesConnection
BY UsesConnectionStep, Invariance, PTL DEF SafeSpec, UsesConnection

\* So it keeps what the connection keeps.
LEMMA ClientStatusInvariance == SafeSpec => []StatusInv
<1>1. Init => StatusInv
  BY StatusInitInv DEF Init
<1>2. Inv /\ StatusInv /\ [Next]_vars => StatusInv'
  <2>1. Restart => StatusInv'
    BY DEF Restart, StatusInv, SingleInv, TruthInv, BreakDue
  <2>2. Inv => ConnInv
    BY DEF Inv
  <2>3. QED
    BY <2>1, <2>2, UsesConnectionStep, StatusInvStep
<1>3. QED
  BY <1>1, <1>2, Invariance, PTL DEF SafeSpec

\* Whatever handlers run nested in it, a dispatch of a call has its break to
\* come, and with one thread a connection ends its wait.
THEOREM ClientDispatchIsBroken == SafeSpec => []BreakDue
BY ClientStatusInvariance, PTL DEF StatusInv

\* With one thread the status never claims a connection the driver has not got,
\* nested handlers, sleep and reboots included.
THEOREM StatusIsTruthful == SafeSpec => []StatusTruthful
<1>1. StatusInv => StatusTruthful
  BY DEF StatusInv, TruthInv, StatusTruthful
<1>2. QED
  BY <1>1, ClientStatusInvariance, PTL

\* In the single-threaded build the library is resumed over an interface that
\* is there and connected.
THEOREM ResumedOverConnection == SingleThread /\ SafeSpec => ResumesConnected
<1> SUFFICES ASSUME SingleThread PROVE SafeSpec => ResumesConnected
  OBVIOUS
<1>1. Inv /\ SingleInv /\ [Next]_vars =>
        [stage = "resume" /\ stage' = "main" =>
           get_network_interface = Iface]_vars
  <2> SUFFICES ASSUME Inv, SingleInv, Next, stage = "resume", stage' = "main"
               PROVE  get_network_interface = Iface
    OBVIOUS
  <2>1. AttemptSucceeds
    <3>1. AttemptFails => stage' \in {stage, "rebooting"}
      BY DEF AttemptFails, reboot_if_threshold_value, Reboot
    <3>2. WakeUp => stage' \in {stage, "resume", "rebooting"}
      BY DEF WakeUp, pdmc_client_resume, Reboot
    <3>3. pdmc_event_handler => stage' \in {stage, "rebooting"}
      BY Zenon DEF pdmc_event_handler, register_pdmc_client,
         pdmc_client_registered, request_next_wake_up,
         pdmc_client_unregistered, pdmc_client_registration_updated,
         pdmc_client_error_event, reboot_if_threshold_value, Reboot
    <3>4. QED
      BY <3>1, <3>2, <3>3 DEF Next, Attempt, ConnectionStep, StatusStep,
         sleep_callback_function, unregister_button_clicked,
         unregister_callback, LibReports, Restart, clientVars
  <2>2. pc = "true"
    BY <2>1 DEF AttemptSucceeds, At
  <2>3. QED
    BY <2>2 DEF SingleInv, Inv, ConnInv, Listening, get_network_interface
<1>2. QED
  BY <1>1, Invariance, ClientStatusInvariance, PTL
  DEF SafeSpec, StatusInv, ResumesConnected

\* What a step of the stage and of paused means for the device.
LEMMA StepEffects ==
  ASSUME Inv, Next
  PROVE  \/ stage' = stage /\ paused' = paused
         \/ Running /\ stage' = "rebooting"
         \/ stage \in {"boot", "resume"} /\ stage' = "main" /\ paused' = paused
         \/ stage = "main" /\ stage' = stage /\ ~paused /\ paused'
         \/ stage = "main" /\ stage' = "resume" /\ paused /\ ~paused'
         \/ stage = "rebooting" /\ stage' = "boot" /\ ~paused'
<1>1. CASE Attempt \/ ConnectionStep \/ StatusStep \/ LibReports
           \/ unregister_button_clicked \/ unregister_callback
  BY <1>1 DEF Attempt, ConnectionStep, StatusStep, LibReports,
     unregister_button_clicked, unregister_callback, clientVars
<1>2. CASE AttemptFails
  BY <1>2 DEF AttemptFails, reboot_if_threshold_value, Reboot, Reconnecting,
              Running
<1>3. CASE AttemptSucceeds
  BY <1>3 DEF AttemptSucceeds, Reconnecting
<1>4. CASE sleep_callback_function
  BY <1>4 DEF sleep_callback_function, Inv, StageInv, Dispatching,
              Reconnecting, Running, Offline
<1>5. CASE WakeUp
  BY <1>5 DEF WakeUp, pdmc_client_resume, Reboot, Dispatching, Reconnecting,
              Running, Inv, StageInv
<1>6. CASE pdmc_event_handler
  <2>1. Running /\ paused' = paused
    BY <1>6 DEF pdmc_event_handler, Dispatching, Reconnecting, Running
  <2>2. stage' \in {stage, "rebooting"}
    BY <1>6, Zenon DEF pdmc_event_handler, register_pdmc_client,
       pdmc_client_registered, request_next_wake_up,
       pdmc_client_unregistered, pdmc_client_registration_updated,
       pdmc_client_error_event, reboot_if_threshold_value, Reboot
  <2>3. QED
    BY <2>1, <2>2
<1>7. CASE Restart
  BY <1>7 DEF Restart
<1>8. QED
  BY <1>1, <1>2, <1>3, <1>4, <1>5, <1>6, <1>7 DEF Next

\* Every step of the client is a step of the duty cycle, or none: the device
\* boots, sleeps and wakes up in that order, and goes to sleep only when it is
\* online.
THEOREM FollowsCycle == SafeSpec => KeepsDutyCycle
<1> DEFINE phase == IF stage = "rebooting" THEN "rebooting"
                    ELSE IF paused THEN "asleep"
                    ELSE IF stage = "boot" THEN "booting"
                    ELSE IF stage = "resume" THEN "waking"
                    ELSE "online"
<1>1. Init => Cycle!Init
  BY DEF Init, ClientInit, Cycle!Init
<1>2. Inv /\ [Next]_vars => [Cycle!Next]_phase
  <2> SUFFICES ASSUME Inv, Next PROVE Cycle!Next \/ phase' = phase
    BY DEF vars, clientVars
  <2> USE DEF Cycle!Next, Cycle!Step
  <2> paused \in BOOLEAN /\ (paused /\ Running => stage = "main")
    BY DEF Inv, ClientTypes, StageInv
  <2>1. CASE stage' = stage /\ paused' = paused
    BY <2>1
  <2>2. CASE Running /\ stage' = "rebooting"
    <3>1. phase # "rebooting" /\ phase' = "rebooting"
      BY <2>2 DEF Running
    <3>2. QED
      BY <3>1 DEF Cycle!GivesUp
  <2>3. CASE stage \in {"boot", "resume"} /\ stage' = "main" /\ paused' = paused
    <3>1. phase \in {"booting", "waking"} /\ phase' = "online"
      BY <2>3 DEF Running
    <3>2. QED
      BY <3>1 DEF Cycle!Boots, Cycle!Resumes
  <2>4. CASE stage = "main" /\ stage' = stage /\ ~paused /\ paused'
    <3>1. phase = "online" /\ phase' = "asleep"
      BY <2>4
    <3>2. QED
      BY <3>1 DEF Cycle!Sleeps
  <2>5. CASE stage = "main" /\ stage' = "resume" /\ paused /\ ~paused'
    <3>1. phase = "asleep" /\ phase' = "waking"
      BY <2>5
    <3>2. QED
      BY <3>1 DEF Cycle!Wakes
  <2>6. CASE stage = "rebooting" /\ stage' = "boot" /\ ~paused'
    <3>1. phase = "rebooting" /\ phase' = "booting"
      BY <2>6
    <3>2. QED
      BY <3>1 DEF Cycle!Restarts
  <2>7. QED
    BY StepEffects, <2>1, <2>2, <2>3, <2>4, <2>5, <2>6
<1>3. QED
  BY <1>1, <1>2, Invariance, PTL DEF SafeSpec, KeepsDutyCycle, Cycle!SafeSpec

-----------------------------------------------------------------------------
(* The error limit is inductive with the types.                            *)

LEMMA ErrorLimitStep == Inv /\ ErrorLimit /\ [Next]_vars => ErrorLimit'
<1> SUFFICES ASSUME Inv, ErrorLimit, [Next]_vars, stage' = "main",
                    carry' < MaxErrors
             PROVE  pdmc_client_error_count' < MaxErrors
  BY DEF ErrorLimit
<1> USE LimitsAssumption
<1> /\ pdmc_client_error_count \in Nat /\ carry \in Nat
  BY DEF Inv, CountTypes
<1>1. CASE AttemptSucceeds
  BY <1>1 DEF AttemptSucceeds
<1>2. CASE pdmc_event_handler
  <2>1. \/ pdmc_client_error_count' = 0
        \/ UNCHANGED <<stage, errorVars>>
        \/ reboot_if_threshold_value(MaxErrors) /\ UNCHANGED carry
        \/ UNCHANGED errorVars /\ stage' \in {stage, "rebooting"}
    BY <1>2, Zenon DEF pdmc_event_handler, register_pdmc_client,
       pdmc_client_registered, request_next_wake_up,
       pdmc_client_unregistered, pdmc_client_registration_updated,
       pdmc_client_error_event, errorVars, Reboot
  <2>2. CASE reboot_if_threshold_value(MaxErrors) /\ UNCHANGED carry
    <3>1. /\ pdmc_client_error_count' = pdmc_client_error_count + 1
          /\ pdmc_client_error_count' # MaxErrors /\ stage = "main"
      BY <2>2 DEF reboot_if_threshold_value, Reboot
    <3>2. pdmc_client_error_count < MaxErrors
      BY <2>2, <3>1 DEF ErrorLimit
    <3>3. QED
      BY <3>1, <3>2, SMT
  <2>3. QED
    BY <2>1, <2>2 DEF ErrorLimit, errorVars
<1>3. CASE WakeUp
  BY <1>3 DEF WakeUp, pdmc_client_resume, Reboot, ErrorLimit, errorVars
<1>4. CASE Attempt \/ ConnectionStep \/ StatusStep \/ LibReports
           \/ unregister_button_clicked \/ unregister_callback
           \/ sleep_callback_function \/ UNCHANGED vars
  BY <1>4 DEF Attempt, ConnectionStep, StatusStep, LibReports,
     unregister_button_clicked, unregister_callback, sleep_callback_function,
     vars, clientVars, errorVars, ErrorLimit
<1>5. CASE AttemptFails
  BY <1>5 DEF AttemptFails, reboot_if_threshold_value, Reboot, Reconnecting
<1>6. CASE Restart
  BY <1>6 DEF Restart
<1>7. QED
  BY <1>1, <1>2, <1>3, <1>4, <1>5, <1>6 DEF Next

\* Error events lead to a reboot when they reach MaxErrors, if init_connection()
\* left fewer failures than that in the count.
THEOREM ErrorsReboot == SafeSpec => []ErrorLimit
<1>1. Init => ErrorLimit
  BY DEF Init, ClientInit, ErrorLimit
<1>2. QED
  BY <1>1, ErrorLimitStep, Invariance, PTL DEF SafeSpec

-----------------------------------------------------------------------------
(* The retry loop gives up in time: no error event can reach the count     *)
(* while init_connection() uses it.                                        *)

\* The events sent before the device slept are handled, and a library that is
\* offline reports none that its handler counts or takes for a success.
Counted == {"error", "registered", "updated"}

RetryInv ==
  /\ RetryLoopBounded
  /\ Running /\ (paused \/ stage = "resume") =>
       \A e \in Counted : ~ Has(evq, e)

LEMMA RetryStep == Inv /\ RetryInv /\ [Next]_vars => RetryInv'
<1> SUFFICES ASSUME Inv, RetryInv, [Next]_vars PROVE RetryInv'
  OBVIOUS
<1> USE LimitsAssumption
    DEF RetryInv, RetryLoopBounded, Reconnecting, Running, Counted
<1> pdmc_client_error_count \in Nat /\ evq \in Seq(Events)
  BY DEF Inv, ClientTypes, CountTypes
<1>1. CASE AttemptFails
  <2>1. /\ pdmc_client_error_count' = pdmc_client_error_count + 1
        /\ stage' = "rebooting"
           \/ (stage' = stage /\ pdmc_client_error_count' # MaxInitErrors)
        /\ stage \in {"boot", "resume"}
        /\ UNCHANGED <<paused, evq>>
    BY <1>1 DEF AttemptFails, reboot_if_threshold_value, Reboot, libVars
  <2>2. pdmc_client_error_count < MaxInitErrors
    BY <2>1
  <2>3. stage' # "rebooting" => pdmc_client_error_count' < MaxInitErrors
    BY <2>1, <2>2, SMT
  <2>4. QED
    BY <2>1, <2>3
<1>2. CASE AttemptSucceeds
  BY <1>2 DEF AttemptSucceeds, Inv, StageInv
<1>3. CASE WakeUp
  <2>1. evq' = evq /\ \A e \in Counted : ~ Has(evq, e)
    BY <1>3, HasEmpty DEF WakeUp, libVars
  <2>2. \/ stage' = "resume" /\ pdmc_client_error_count' = 0
        \/ stage' = "rebooting"
        \/ stage' = stage /\ UNCHANGED pdmc_client_error_count
    BY <1>3 DEF WakeUp, pdmc_client_resume, Reboot, errorVars
  <2>3. 0 < MaxInitErrors
    BY SMT
  <2>4. QED
    BY <2>1, <2>2, <2>3
<1>4. CASE pdmc_event_handler
  <2>1. /\ evq # <<>> /\ evq' = Tail(evq) /\ paused' = paused
        /\ stage \in {"main", "resume"}
    BY <1>4 DEF pdmc_event_handler, Dispatching, Inv, StageInv
  <2>2. \A x : Has(evq, x) <=> Has(evq', x) \/ x = Head(evq)
    BY <2>1, HasTail
  <2>3. stage' \in {stage, "rebooting"}
    BY <1>4, Zenon DEF pdmc_event_handler, register_pdmc_client,
       pdmc_client_registered, request_next_wake_up,
       pdmc_client_unregistered, pdmc_client_registration_updated,
       pdmc_client_error_event, reboot_if_threshold_value, Reboot
  <2>4. Head(evq) # "error" => \/ pdmc_client_error_count' = 0
                               \/ UNCHANGED pdmc_client_error_count
    BY <1>4, Zenon DEF pdmc_event_handler, register_pdmc_client,
       pdmc_client_registered, pdmc_client_unregistered,
       pdmc_client_registration_updated, pdmc_client_error_event, errorVars
  <2>5. 0 < MaxInitErrors
    BY SMT
  <2>6. QED
    BY <2>1, <2>2, <2>3, <2>4, <2>5
<1>5. CASE LibReports
  <2>1. UNCHANGED <<stage, paused, pdmc_client_error_count>>
    BY <1>5 DEF LibReports, errorVars
  <2>2. PICK e \in Events : /\ evq' = Append(evq, e)
                            /\ e \in Counted => lib \in {"connecting", "awake"}
    BY <1>5, Zenon DEF LibReports, Emit, Events
  <2>3. \A x : Has(evq', x) <=> Has(evq, x) \/ x = e
    BY <2>2, HasAppend
  <2>4. QED
    BY <2>1, <2>2, <2>3 DEF Inv, StageInv, Offline
<1>6. CASE Attempt \/ ConnectionStep \/ StatusStep \/ unregister_button_clicked
           \/ unregister_callback \/ UNCHANGED vars
  BY <1>6 DEF Attempt, ConnectionStep, StatusStep, unregister_button_clicked,
     unregister_callback, vars, clientVars, errorVars, libVars
<1>7. CASE sleep_callback_function
  BY <1>7, HasEmpty DEF sleep_callback_function, errorVars
<1>8. CASE Restart
  <2>1. 0 < MaxInitErrors
    BY SMT
  <2>2. QED
    BY <1>8, <2>1, HasEmpty DEF Restart
<1>9. QED
  BY <1>1, <1>2, <1>3, <1>4, <1>5, <1>6, <1>7, <1>8 DEF Next

LEMMA RetryInvariance == SafeSpec => []RetryInv
<1>1. Init => RetryInv
  <2>1. 0 < MaxInitErrors
    BY LimitsAssumption, SMT
  <2>2. QED
    BY <2>1, HasEmpty DEF Init, ClientInit, RetryInv, RetryLoopBounded
<1>2. QED
  BY <1>1, RetryStep, Invariance, PTL DEF SafeSpec

\* The device reboots rather than fail to connect more often than its threshold.
THEOREM RetriesBounded == SafeSpec => []RetryLoopBounded
<1>1. RetryInv => RetryLoopBounded
  BY DEF RetryInv
<1>2. QED
  BY <1>1, RetryInvariance, PTL

-----------------------------------------------------------------------------
(* Unregistering is final.                                                 *)

\* The library is closed with its last event, so nothing is queued behind the
\* one that resets register_called.
CalledInv ==
  /\ \A i \in 1 .. Len(evq) : evq[i] = "unregistered" => i = Len(evq)
  /\ resources = 4 /\ ~register_called =>
       ~registered /\ lib = "closed" /\ evq = <<>>

LEMMA CalledStep == Inv /\ CalledInv /\ [Next]_vars => CalledInv'
<1> SUFFICES ASSUME Inv, CalledInv, [Next]_vars PROVE CalledInv'
  OBVIOUS
<1> USE DEF CalledInv
<1> /\ evq \in Seq(Events) /\ register_called \in BOOLEAN
    /\ registered \in BOOLEAN
  BY DEF Inv, ClientTypes
<1>1. CASE Attempt \/ AttemptFails \/ ConnectionStep \/ StatusStep \/ WakeUp
           \/ UNCHANGED vars
  BY <1>1 DEF Attempt, AttemptFails, ConnectionStep, StatusStep, WakeUp, vars,
     clientVars, regVars, libVars
<1>2. CASE AttemptSucceeds
  <2>1. UNCHANGED evq
    BY <1>2 DEF AttemptSucceeds, init_pdmc_client, pdmc_connect_resume
  <2>2. \/ resources' = 4 => register_called'
        \/ /\ UNCHANGED <<registered, register_called, resources>>
           /\ lib = "closed" => lib' = "closed"
    BY <1>2 DEF AttemptSucceeds, init_pdmc_client, pdmc_connect_resume, regVars
  <2>3. QED
    BY <2>1, <2>2
<1>3. CASE sleep_callback_function
  BY <1>3 DEF sleep_callback_function, regVars
<1>4. CASE pdmc_event_handler
  <2>1. evq # <<>> /\ evq' = Tail(evq) /\ resources' = resources
    BY <1>4, Zenon DEF pdmc_event_handler, register_pdmc_client,
       pdmc_client_registered, pdmc_client_unregistered,
       pdmc_client_registration_updated, pdmc_client_error_event, regVars
  <2>2. /\ Len(evq) \in Nat \ {0} /\ Head(evq) = evq[1]
        /\ Len(evq') = Len(evq) - 1
        /\ \A i \in 1 .. Len(evq') : evq'[i] = evq[i + 1]
    BY <2>1, EmptySeq, HeadTailProperties
  <2>3. \A i \in 1 .. Len(evq') : evq'[i] = "unregistered" => i = Len(evq')
    BY <2>2
  <2>4. CASE Head(evq) = "unregistered"
    <3>1. lib' = lib /\ ~registered'
      BY <1>4, <2>4 DEF pdmc_event_handler, pdmc_client_unregistered
    <3>2. 1 \in 1 .. Len(evq)
      BY <2>2
    <3>3. lib = "closed" /\ Len(evq) = 1
      BY <2>2, <2>4, <3>2 DEF Inv, LibInv, Has
    <3>4. evq' = <<>>
      BY <2>1, <2>2, <3>3, HeadTailProperties, EmptySeq
    <3>5. QED
      BY <2>3, <3>1, <3>3, <3>4
  <2>5. CASE Head(evq) # "unregistered"
    <3>1. register_called' = register_called
      BY <1>4, <2>5, Zenon DEF pdmc_event_handler, register_pdmc_client,
         pdmc_client_registered, pdmc_client_registration_updated,
         pdmc_client_error_event, regVars
    <3>2. QED
      BY <2>1, <2>3, <3>1
  <2>6. QED
    BY <2>4, <2>5
<1>5. CASE unregister_button_clicked \/ unregister_callback
  BY <1>5 DEF unregister_button_clicked, unregister_callback,
     pdmc_connect_close, regVars
<1>6. CASE LibReports
  <2>1. lib # "closed" /\ UNCHANGED <<registered, register_called, resources>>
    BY <1>6 DEF LibReports, regVars
  <2>2. PICK e \in Events : evq' = Append(evq, e)
    BY <1>6, Zenon DEF LibReports, Emit, Events
  <2>3. /\ Len(evq) \in Nat /\ Len(evq') = Len(evq) + 1
        /\ \A i \in 1 .. Len(evq) : evq'[i] = evq[i]
    BY <2>2, AppendProperties, LenProperties
  <2>4. ASSUME NEW i \in 1 .. Len(evq'), i # Len(evq')
        PROVE  evq'[i] # "unregistered"
    <3>1. i \in 1 .. Len(evq)
      BY <2>3, <2>4
    <3>2. QED
      BY <2>1, <2>3, <3>1 DEF Inv, LibInv, Has
  <2>5. QED
    BY <2>1, <2>4
<1>7. CASE Restart
  BY <1>7, HasEmpty DEF Restart, Has
<1>8. QED
  BY <1>1, <1>2, <1>3, <1>4, <1>5, <1>6, <1>7 DEF Next

\* A client with all its resources is registered, or may still register, only
\* while register_called says so.
THEOREM CalledUntilClosed == SafeSpec => []CalledWhileRegistering
<1>1. Init => CalledInv
  BY HasEmpty DEF Init, ClientInit, CalledInv, Has
<1>2. CalledInv => CalledWhileRegistering
  BY DEF CalledInv, CalledWhileRegistering
<1>3. QED
  BY <1>1, <1>2, CalledStep, Invariance, PTL DEF SafeSpec

\* So the flag is missing only where a resource could not be created.
THEOREM RegisteredWithResources ==
  SafeSpec => [](resources = 4 => RegisteredWasCalled)
<1>1. CalledWhileRegistering => (resources = 4 => RegisteredWasCalled)
  BY DEF CalledWhileRegistering, RegisteredWasCalled
<1>2. QED
  BY <1>1, CalledUntilClosed, PTL

-----------------------------------------------------------------------------
(* The waits of the retry loop.                                            *)

\* The recursive function is what its definition says.
LEMMA RetryWaitDef ==
  /\ RetryWait[0] = 5000
  /\ \A n \in Nat : RetryWait[n + 1] = 2 * RetryWait[n]
<1> DEFINE first == 5000
           double == [x \in Nat |-> 2 * x]
           Def(f) == [n \in Nat |-> IF n = 0 THEN 5000 ELSE 2 * f[n - 1]]
<1>1. /\ first \in Nat /\ double \in [Nat -> Nat]
      /\ \A x \in Nat : double[x] = 2 * x
  BY SMT
<1> HIDE DEF first, double
<1>2. PICK f : Follows(f, Nat, first, double)
  BY <1>1, RecursionExists, Zenon
<1>3. f = Def(f)
  <2>1. /\ f \in [Nat -> Nat] /\ f[0] = 5000
        /\ \A n \in Nat : f[n + 1] = double[f[n]]
    BY <1>2 DEF Follows, first
  <2>2. \A n \in Nat : n # 0 => n - 1 \in Nat /\ (n - 1) + 1 = n
    BY SMT
  <2>3. \A n \in Nat : f[n] \in Nat
    BY <2>1
  <2>4. \A n \in Nat : n # 0 => f[n] = 2 * f[n - 1]
    BY <1>1, <2>1, <2>2, <2>3
  <2>5. QED
    BY <2>1, <2>4
<1>4. RetryWait = CHOOSE g : g = Def(g)
  BY Zenon DEF RetryWait
<1> HIDE DEF Def
<1>5. RetryWait = Def(RetryWait)
  BY <1>3, <1>4, Zenon
<1>6. \A n \in Nat :
        RetryWait[n] = IF n = 0 THEN 5000 ELSE 2 * RetryWait[n - 1]
  BY <1>5 DEF Def
<1>7. QED
  BY <1>6

\* Nothing touches the count or the wait in the loop but a failed attempt.
LEMMA RetryWaitStep ==
  Inv /\ RetryInv /\ RetryWaitDoubles /\ [Next]_vars => RetryWaitDoubles'
<1> SUFFICES ASSUME Inv, RetryInv, RetryWaitDoubles, [Next]_vars,
                    Reconnecting'
             PROVE  timeout_ms' = RetryWait[pdmc_client_error_count']
  BY DEF RetryWaitDoubles
<1> USE DEF Reconnecting
<1>1. ASSUME UNCHANGED <<pdmc_client_error_count, timeout_ms>>, Reconnecting
      PROVE  timeout_ms' = RetryWait[pdmc_client_error_count']
  BY <1>1 DEF RetryWaitDoubles
<1>2. CASE AttemptFails
  <2>1. /\ timeout_ms' = timeout_ms * 2 /\ Reconnecting
        /\ pdmc_client_error_count' = pdmc_client_error_count + 1
    BY <1>2 DEF AttemptFails, reboot_if_threshold_value
  <2>2. timeout_ms \in Nat /\ pdmc_client_error_count \in Nat
    BY DEF Inv, CountTypes
  <2>3. timeout_ms = RetryWait[pdmc_client_error_count]
    BY <2>1 DEF RetryWaitDoubles
  <2>4. RetryWait[pdmc_client_error_count + 1]
          = 2 * RetryWait[pdmc_client_error_count]
    BY <2>2, RetryWaitDef
  <2>5. timeout_ms * 2 = 2 * timeout_ms
    BY <2>2
  <2>6. QED
    BY <2>1, <2>3, <2>4, <2>5
<1>3. CASE AttemptSucceeds
  BY <1>3 DEF AttemptSucceeds
<1>4. CASE WakeUp
  <2>1. CASE pdmc_client_resume
    BY <2>1, RetryWaitDef DEF pdmc_client_resume
  <2>2. CASE UNCHANGED <<stage, errorVars, timeout_ms>>
    BY <1>1, <2>2 DEF errorVars
  <2>3. QED
    BY <1>4, <2>1, <2>2 DEF WakeUp, Reboot, errorVars
<1>5. CASE pdmc_event_handler
  <2>1. /\ evq # <<>> /\ timeout_ms' = timeout_ms
        /\ stage' \in {stage, "rebooting"}
    BY <1>5, Zenon DEF pdmc_event_handler, register_pdmc_client,
       pdmc_client_registered, request_next_wake_up,
       pdmc_client_unregistered, pdmc_client_registration_updated,
       pdmc_client_error_event, reboot_if_threshold_value, Reboot
  <2>2. stage = "resume"
    BY <2>1 DEF Inv, StageInv
  <2>3. Head(evq) \notin Counted
    BY <2>1, <2>2, HasTail DEF RetryInv, Running, Inv, ClientTypes
  <2>4. UNCHANGED pdmc_client_error_count
    BY <1>5, <2>3, Zenon DEF Counted, pdmc_event_handler,
       register_pdmc_client, pdmc_client_unregistered,
       pdmc_client_error_event, errorVars
  <2>5. QED
    BY <1>1, <2>1, <2>2, <2>4
<1>6. CASE Attempt \/ ConnectionStep \/ StatusStep \/ LibReports
           \/ unregister_button_clicked \/ unregister_callback
           \/ sleep_callback_function \/ UNCHANGED vars
  BY <1>1, <1>6 DEF Attempt, ConnectionStep, StatusStep, LibReports,
     unregister_button_clicked, unregister_callback, sleep_callback_function,
     vars, clientVars, errorVars
<1>7. CASE Restart
  BY <1>7, RetryWaitDef DEF Restart
<1>8. QED
  BY <1>2, <1>3, <1>4, <1>5, <1>6, <1>7 DEF Next

\* The waits double from 5 s: no handler nested in a resumption resets or raises
\* the count they go by.
THEOREM WaitsDouble == SafeSpec => []RetryWaitDoubles
<1>1. Init => RetryWaitDoubles
  BY RetryWaitDef DEF Init, ClientInit, RetryWaitDoubles
<1>2. QED
  BY <1>1, RetryWaitStep, RetryInvariance, Invariance, PTL DEF SafeSpec

-----------------------------------------------------------------------------
(* The client's calls of init_connection(int8_t) are calls of ConnectCall. *)

\* A step of the connection is one of the call, when no reboot is going on.
LEMMA ClientCallStep ==
  ASSUME Inv, Inv', Running, Running', [ConnNext]_connVars
  PROVE  [ClientCall!Next]_(ClientCall!vars)
<1>1. [Promise!Next]_(Promise!vars)
  BY PromiseStep DEF Inv, ConnInv
<1>2. QED
  BY <1>1 DEF Running, Promise!Next, Promise!vars, Promise!Begin,
     Promise!StatusChange, Promise!Succeed, Promise!Fail, Promise!Finish,
     ClientCall!Next, ClientCall!vars, ClientCall!Begin,
     ClientCall!StatusChange, ClientCall!Succeed, ClientCall!Fail,
     ClientCall!Finish

\* Whatever handlers run nested in a call, it is answered once, and true only
\* when connected; a reboot takes the answer away from a call under way.
THEOREM ClientCallsAnswered == SafeSpec => AnswersAtMostOnce
<1>1. Init => ClientCall!Init
  BY DEF Init, ConnInit, ClientCall!Init
<1>2. Inv /\ Inv' /\ [Next]_vars => [ClientCall!Next]_(ClientCall!vars)
  <2> SUFFICES ASSUME Inv, Inv', [Next]_vars
               PROVE  [ClientCall!Next]_(ClientCall!vars)
    OBVIOUS
  <2> USE DEF ClientCall!Next, ClientCall!vars
  <2> /\ pc \in {"idle", "enter", "connect", "arm", "dispatch", "check",
                 "disconnect", "true", "false"}
      /\ interface_connected' \in BOOLEAN
    BY DEF Inv, ConnInv, ConnTypeOK
  <2>1. CASE AttemptFails
    BY <2>1 DEF AttemptFails, Reconnecting, At, Return, flagVars,
                ClientCall!Finish
  <2>2. CASE Running /\ stage' = "rebooting" /\ UNCHANGED connVars
    BY <2>2 DEF Running, connVars, mainVars, flagVars, ClientCall!Fail
  <2>3. CASE Restart
    BY <2>3 DEF Restart, ClientCall!Finish, ClientCall!StatusChange
  <2>4. CASE Running /\ Running' /\ [ConnNext]_connVars
    BY <2>4, ClientCallStep
  <2>5. CASE UNCHANGED vars
    BY <2>5 DEF vars, clientVars, connVars, mainVars, flagVars
  <2>6. CASE Attempt \/ AttemptSucceeds \/ ConnectionStep \/ StatusStep
    <3>1. Running /\ Running' /\ ConnNext
      BY <2>6 DEF Attempt, AttemptSucceeds, ConnectionStep, StatusStep,
                  Reconnecting, Running, clientVars, ConnNext
    <3>2. QED
      BY <3>1, <2>4
  <2>7. CASE sleep_callback_function
    <3>1. Running /\ Running' /\ [ConnNext]_connVars
      BY <2>7, UsesConnectionStep
      DEF sleep_callback_function, Dispatching, Reconnecting, Running, Restart
    <3>2. QED
      BY <3>1, <2>4
  <2>8. CASE WakeUp
    <3>1. Running /\ (Running' \/ stage' = "rebooting")
      BY <2>8 DEF WakeUp, Dispatching, Reconnecting, Running
    <3>2. CASE UNCHANGED connVars
      BY <3>1, <3>2, <2>2, <2>4
    <3>3. CASE paused /\ pdmc_client_resume
      <4>1. pc = "idle" /\ pc' = "enter" /\ Running'
            /\ UNCHANGED interface_connected
        BY <3>1, <3>3 DEF pdmc_client_resume, flagVars, Inv, StageInv, Running
      <4>2. QED
        BY <3>1, <4>1 DEF Running, ClientCall!Begin
    <3>4. QED
      BY <2>8, <3>2, <3>3 DEF WakeUp
  <2>9. CASE pdmc_event_handler \/ unregister_button_clicked
             \/ unregister_callback \/ LibReports
    <3>1. UNCHANGED connVars /\ Running
      BY <2>9 DEF pdmc_event_handler, unregister_button_clicked,
                  unregister_callback, LibReports, Dispatching, Reconnecting,
                  Running
    <3>2. QED
      BY <3>1, <2>2, <2>4 DEF Running
  <2>10. QED
    BY <2>1, <2>3, <2>5, <2>6, <2>7, <2>8, <2>9 DEF Next
<1>3. QED
  BY <1>1, <1>2, Invariance, PTL
  DEF SafeSpec, AnswersAtMostOnce, ClientCall!SafeSpec

=============================================================================

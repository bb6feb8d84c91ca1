----------------------------- MODULE ConnectCall -----------------------------
(***************************************************************************)
(* What bool init_connection(int8_t) of source/platform/include/setup.h    *)
(* promises its caller, whatever the network driver does: the call begins, *)
(* stays busy for a while during which the connection status may change,   *)
(* and answers.  It answers TRUE only at a moment when the interface is    *)
(* reported connected; with any other step the status may change too.      *)
(***************************************************************************)

VARIABLES
  call,       \* "idle", "busy", or the answer the caller has not yet taken
  connected   \* what get_network_interface() goes by

vars == <<call, connected>>

TypeOK ==
  /\ call \in {"idle", "busy", "true", "false"}
  /\ connected \in BOOLEAN

Init ==
  /\ call = "idle"
  /\ connected = FALSE

Begin ==
  /\ call = "idle"
  /\ call' = "busy"
  /\ connected' \in BOOLEAN

\* The network comes and goes, and close_connection() may be called.
StatusChange ==
  /\ connected' \in BOOLEAN
  /\ UNCHANGED call

Succeed ==
  /\ call = "busy"
  /\ call' = "true"
  /\ connected' = TRUE

Fail ==
  /\ call = "busy"
  /\ call' = "false"
  /\ connected' \in BOOLEAN

Finish ==
  /\ call \in {"true", "false"}
  /\ call' = "idle"
  /\ connected' \in BOOLEAN

Next == Begin \/ StatusChange \/ Succeed \/ Fail \/ Finish

SafeSpec == Init /\ [][Next]_vars

\* The call does not hang: a busy call is answered.
Spec == SafeSpec /\ WF_vars(Succeed \/ Fail)

=============================================================================

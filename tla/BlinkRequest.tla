---------------------------- MODULE BlinkRequest ----------------------------
(***************************************************************************)
(* The executable resource 3201/0/5850 of pdmc_client_example.cpp, on top  *)
(* of Blinky: a POST stores its token, starts the pattern and is answered  *)
(* 100 ms later, with whatever token is stored by then.  Nothing keeps the *)
(* server from sending another POST meanwhile.                             *)
(***************************************************************************)
EXTENDS Blinky

CONSTANTS
  Tokens,    \* bound: the tokens of the server's POSTs
  NoToken    \* the zeros execute_token starts with

ASSUME TokensAssumption == NoToken \notin Tokens

VARIABLES
  execute_token,
  responses,    \* calls of send_application_response() yet to be made
  open,         \* external: POSTs the server awaits the response of
  unscheduled   \* history: POSTs whose eventOS_timeout_ms() failed

requestVars == <<execute_token, responses, open, unscheduled>>
vars == <<blinkyVars, requestVars>>

RequestTypeOK ==
  /\ BlinkyTypeOK
  /\ execute_token \in Tokens \cup {NoToken}
  /\ responses \in Nat
  /\ open \subseteq Tokens
  /\ unscheduled \subseteq open

Init ==
  /\ BlinkyInit
  /\ execute_token = NoToken /\ responses = 0
  /\ open = {} /\ unscheduled = {}

-----------------------------------------------------------------------------
Arrives(t) ==
  /\ Free /\ register_called
  /\ timers["pattern"] < MaxPatternTimers
  /\ t \notin open
  /\ open' = open \cup {t}

\* Wrong variant: a pattern that does not start is not answered.
blink_callback_if_started(t) ==
  /\ Arrives(t)
  /\ execute_token' = t
  /\ \E p \in Patterns : start(p, FALSE)
  /\ responses' = IF state' = "started" THEN responses + 1 ELSE responses
  /\ UNCHANGED unscheduled

\* The pattern is the one the server PUT into 3201/0/5853 before.
blink_callback(t) ==
  /\ Arrives(t)
  /\ execute_token' = t
  /\ \E p \in Patterns : start(p, FALSE)
  /\ \/ responses' = responses + 1 /\ UNCHANGED unscheduled
     \/ /\ MayFail
        /\ unscheduled' = unscheduled \cup {t}
        /\ UNCHANGED responses

send_application_response ==
  /\ Free
  /\ responses > 0
  /\ responses' = responses - 1
  /\ open' = open \ {execute_token}
  /\ unscheduled' = unscheduled \ {execute_token}
  /\ UNCHANGED <<blinkyVars, execute_token>>

Next ==
  \/ \E t \in Tokens : blink_callback(t)
  \/ send_application_response
  \/ BlinkyStep /\ UNCHANGED requestVars

SafeSpec == Init /\ [][Next]_vars

\* The main thread runs and timers expire; responses are due whatever else
\* the main thread has to do.
Spec ==
  /\ SafeSpec
  /\ WF_vars(Poll /\ UNCHANGED requestVars)
  /\ SF_vars(send_application_response)

-----------------------------------------------------------------------------
(* Properties.                                                             *)

\* While the POST whose token is stored awaits its response, one is due that will
\* carry this token, however many POSTs came before and were answered or not;
\* else the timer could not be requested.
StoredPostHasResponse ==
  execute_token \in open => responses > 0 \/ execute_token \in unscheduled

\* The last POST is answered, whatever its pattern, the sequences before it and
\* the POSTs before it whose responses are still due, unless a later POST has
\* taken its place or the memory for the timer or the pattern was not there.
LastPostAnswered ==
  \A t \in Tokens :
    (t \in open /\ t = execute_token) ~>
      \/ t \notin open
      \/ t # execute_token
      \/ t \in unscheduled
      \/ pc.at = "undefined"

=============================================================================

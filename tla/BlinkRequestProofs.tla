------------------------- MODULE BlinkRequestProofs -------------------------
(***************************************************************************)
(* Blinky keeps its promises when POSTs start its patterns, whatever the   *)
(* server sends while sequences and responses are pending.                 *)
(***************************************************************************)
EXTENDS BlinkRequest, BlinkyProofs

RequestTypes ==
  /\ execute_token \in Tokens \cup {NoToken}
  /\ responses \in Nat
  /\ open \subseteq Tokens
  /\ unscheduled \subseteq open

RequestInv == Inv /\ RequestTypes /\ StoredPostHasResponse

LEMMA RequestInitInv == Init => RequestInv
<1> SUFFICES ASSUME Init PROVE RequestInv
  OBVIOUS
<1>1. Inv
  BY InitInv DEF Init
<1>2. RequestTypes /\ StoredPostHasResponse
  BY DEF Init, RequestTypes, StoredPostHasResponse
<1>3. QED
  BY <1>1, <1>2 DEF RequestInv

\* A POST takes the place of the one before.
LEMMA BlinkCallbackInv ==
  ASSUME RequestInv, NEW t \in Tokens, blink_callback(t)
  PROVE  RequestInv'
<1>1. PICK p \in Patterns : start(p, FALSE)
  BY DEF blink_callback
<1>2. Inv'
  BY <1>1, StartInv DEF RequestInv
<1>3. /\ execute_token' = t /\ open' = open \cup {t}
      /\ \/ responses' = responses + 1 /\ unscheduled' = unscheduled
         \/ unscheduled' = unscheduled \cup {t} /\ responses' = responses
  BY DEF blink_callback, Arrives
<1>4. RequestTypes'
  BY <1>3 DEF RequestInv, RequestTypes
<1>5. StoredPostHasResponse'
  BY <1>3 DEF RequestInv, RequestTypes, StoredPostHasResponse
<1>6. QED
  BY <1>2, <1>4, <1>5 DEF RequestInv

\* A response answers the POST that is stored by now.
LEMMA ResponseInv ==
  ASSUME RequestInv, send_application_response
  PROVE  RequestInv'
<1>1. /\ responses > 0 /\ responses' = responses - 1
      /\ open' = open \ {execute_token}
      /\ unscheduled' = unscheduled \ {execute_token}
      /\ UNCHANGED <<blinkyVars, execute_token>>
  BY DEF send_application_response
<1>2. Inv'
  BY <1>1, StepInv DEF RequestInv
<1>3. RequestTypes'
  BY <1>1 DEF RequestInv, RequestTypes
<1>4. StoredPostHasResponse'
  BY <1>1 DEF StoredPostHasResponse
<1>5. QED
  BY <1>2, <1>3, <1>4 DEF RequestInv

THEOREM RequestInvariance == SafeSpec => []RequestInv
<1>1. RequestInv /\ [Next]_vars => RequestInv'
  <2> SUFFICES ASSUME RequestInv, [Next]_vars PROVE RequestInv'
    OBVIOUS
  <2>1. CASE \/ BlinkyStep /\ UNCHANGED requestVars
             \/ UNCHANGED vars
    <3>1. [BlinkyNext]_blinkyVars /\ UNCHANGED requestVars
      BY <2>1 DEF BlinkyNext, vars
    <3>2. Inv'
      BY <3>1, StepInv DEF RequestInv
    <3>3. RequestTypes' /\ StoredPostHasResponse'
      BY <3>1 DEF RequestInv, RequestTypes, StoredPostHasResponse, requestVars
    <3>4. QED
      BY <3>2, <3>3 DEF RequestInv
  <2>2. QED
    BY <2>1, BlinkCallbackInv, ResponseInv DEF Next
<1>2. QED
  BY RequestInitInv, <1>1, PTL DEF SafeSpec

\* The types of Blinky and of the request: overlapping sequences move
\* _curr_pattern out of no pattern.
THEOREM RequestTypeCorrect == SafeSpec => []RequestTypeOK
<1>1. RequestInv => RequestTypeOK
  BY InvTypes DEF RequestInv, RequestTypes, RequestTypeOK
<1>2. QED
  BY <1>1, RequestInvariance, PTL

\* The POST that is stored has a response coming that will carry its token.
THEOREM StoredPostAnswerable == SafeSpec => []StoredPostHasResponse
<1>1. RequestInv => StoredPostHasResponse
  BY DEF RequestInv
<1>2. QED
  BY <1>1, RequestInvariance, PTL

\* A step of the request is one of Blinky, for which a POST starts a sequence.
LEMMA RequestStep == [Next]_vars => [AnyStep]_blinkyVars
<1>1. ASSUME NEW t \in Tokens, blink_callback(t) PROVE Starts
  BY <1>1 DEF blink_callback, Starts
<1>2. send_application_response => UNCHANGED blinkyVars
  BY DEF send_application_response
<1>3. UNCHANGED vars => UNCHANGED blinkyVars
  BY DEF vars
<1>4. QED
  BY <1>1, <1>2, <1>3 DEF Next, AnyStep

\* Presses, periodic events and sequences are as safe with POSTs coming in as
\* they are without.
THEOREM BlinkySafeUnderPosts ==
  SafeSpec => [](NoPressLost /\ LoopsRun /\ SequenceGoesOn)
<1>1. RequestInv => NoPressLost /\ LoopsRun /\ SequenceGoesOn
  BY DEF RequestInv, Inv
<1>2. QED
  BY <1>1, RequestInvariance, PTL

\* Nor do POSTs, which may be the first to create the tasklet, multiply timers.
THEOREM TimersBoundedUnderPosts == SafeSpec => []PeriodicTimersBounded
<1>1. Init => BoundInv
  BY KindsFacts DEF Init, BlinkyInit, BoundInv, PeriodicTimersBounded
<1>2. BoundInv => PeriodicTimersBounded
  BY DEF BoundInv
<1>3. RequestInv => Inv
  BY DEF RequestInv
<1>4. QED
  BY <1>1, <1>2, <1>3, BoundStep, RequestStep, RequestInvariance, PTL
  DEF SafeSpec

\* While there is memory for every pattern no event reads one that is not there,
\* however the POSTs overlap.
THEOREM NoNullPatternUnderPosts ==
  ASSUME ~MayFail
  PROVE  SafeSpec => []ReadsDefined
<1>1. Init => EventsHavePattern /\ ReadsDefined
  BY KindsFacts DEF Init, BlinkyInit, EventsHavePattern, ReadsDefined, Idle
<1>2. RequestInv => Inv
  BY DEF RequestInv
<1>3. QED
  BY <1>1, <1>2, PatternStays, DefinedStep, RequestStep, RequestInvariance,
     PTL
  DEF SafeSpec

=============================================================================

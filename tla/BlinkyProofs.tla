----------------------------- MODULE BlinkyProofs -----------------------------
(***************************************************************************)
(* For all patterns and bounds: _curr_pattern stays within its pattern, a  *)
(* started sequence has a timer, no press of a button is lost, the         *)
(* periodic events only stop when a request failed and do not multiply,    *)
(* and no NULL pattern is read unless sequences overlap and memory fails.  *)
(***************************************************************************)
EXTENDS Blinky, TLAPS

\* The part of the types the other invariants need.
TimerTypes ==
  /\ timers \in [Kinds -> Nat]
  /\ lost \subseteq Periodic

ButtonTypes ==
  /\ pressed \in [Buttons -> BOOLEAN]
  /\ unanswered \in [Buttons -> BOOLEAN]
  /\ pc \in [at : {"idle", "test", "clear", "act", "undefined"},
             button : Buttons]

PlainTypes ==
  /\ created \in BOOLEAN /\ init_event \in BOOLEAN
  /\ state \in {"idle", "started"}
  /\ restart \in BOOLEAN /\ led \in BOOLEAN
  /\ register_called \in BOOLEAN
  /\ registrations \in 0 .. MaxRegistrations

ValueType == value \in 0 .. CountModulus - 1

Inv ==
  /\ TimerTypes /\ ButtonTypes /\ PlainTypes /\ ValueType /\ PatternTypeOK
  /\ NoPressLost /\ LoopsRun /\ SequenceGoesOn

LEMMA InvTypes == Inv => BlinkyTypeOK
BY DEF Inv, TimerTypes, ButtonTypes, PlainTypes, ValueType, BlinkyTypeOK

LEMMA KindsFacts ==
  /\ Periodic \subseteq Kinds
  /\ "pattern" \in Kinds /\ "pattern" \notin Periodic
  /\ "loop" \in Periodic /\ "increment" \in Periodic
BY DEF Kinds, Periodic

-----------------------------------------------------------------------------
(* What the helpers do to the timers.                                      *)

LEMMA FewerEffect ==
  ASSUME TimerTypes, NEW k \in Kinds, timers[k] > 0
  PROVE  /\ Fewer(k) \in [Kinds -> Nat]
         /\ Fewer(k)[k] = timers[k] - 1
         /\ \A e \in Kinds : e # k => Fewer(k)[e] = timers[e]
BY DEF Fewer, TimerTypes

LEMMA MoreEffect ==
  ASSUME NEW pending \in [Kinds -> Nat], NEW k \in Kinds
  PROVE  /\ More(pending, k) \in [Kinds -> Nat]
         /\ More(pending, k)[k] = pending[k] + 1
         /\ \A e \in Kinds : e # k => More(pending, k)[e] = pending[e]
BY DEF More

\* A request adds a timer for each event whose request did not fail.
LEMMA RequestEffect ==
  ASSUME NEW es \in SUBSET Periodic, NEW pending \in [Kinds -> Nat],
         NEW before \in SUBSET Periodic, Request(es, pending, before)
  PROVE  /\ TimerTypes'
         /\ before \subseteq lost'
         /\ timers'["pattern"] = pending["pattern"]
         /\ \A e \in Periodic : timers'[e] >= pending[e]
         /\ \A e \in es : e \notin lost' => timers'[e] > 0
<1>1. PICK ok \in SUBSET es :
        /\ timers' = [e \in Kinds |-> IF e \in ok THEN pending[e] + 1
                                      ELSE pending[e]]
        /\ lost' = before \cup (es \ ok)
  BY DEF Request
<1>2. \A e \in Kinds : /\ pending[e] \in Nat
                       /\ timers'[e] = IF e \in ok THEN pending[e] + 1
                                       ELSE pending[e]
  BY <1>1
<1>3. timers' \in [Kinds -> Nat]
  BY <1>1, <1>2
<1>4. QED
  BY <1>1, <1>2, <1>3, KindsFacts DEF TimerTypes

\* A request for event e after its delivery keeps the periodic events going.
LEMMA RepeatedRequest ==
  ASSUME TimerTypes, LoopsRun, NEW e \in Periodic, timers[e] > 0,
         Request({e}, Fewer(e), lost), UNCHANGED registrations
  PROVE  TimerTypes' /\ LoopsRun' /\ timers'["pattern"] = timers["pattern"]
<1>1. /\ Fewer(e) \in [Kinds -> Nat]
      /\ \A k \in Kinds : k # e => Fewer(e)[k] = timers[k]
  BY FewerEffect, KindsFacts
<1>2. /\ TimerTypes'
      /\ lost \subseteq lost'
      /\ timers'["pattern"] = Fewer(e)["pattern"]
      /\ \A k \in Periodic : timers'[k] >= Fewer(e)[k]
      /\ e \notin lost' => timers'[e] > 0
  BY <1>1, RequestEffect DEF TimerTypes
<1>3. ASSUME NEW k \in Periodic, registrations > 0, k \notin lost'
      PROVE  timers'[k] > 0
  <2>1. CASE k = e
    BY <1>2, <1>3, <2>1
  <2>2. CASE k # e
    <3>1. timers[k] > 0
      BY <1>2, <1>3 DEF LoopsRun
    <3>2. Fewer(e)[k] = timers[k] /\ timers'[k] >= Fewer(e)[k]
      BY <1>1, <1>2, <2>2, KindsFacts
    <3>3. timers[k] \in Nat /\ timers'[k] \in Nat
      BY <1>2, KindsFacts DEF TimerTypes
    <3>4. QED
      BY <3>1, <3>2, <3>3
  <2>3. QED
    BY <2>1, <2>2
<1>4. QED
  BY <1>1, <1>2, <1>3, KindsFacts DEF LoopsRun

-----------------------------------------------------------------------------
(* The pattern.                                                            *)

\* run_step() leaves _curr_pattern within the pattern and starts only with a
\* timer.
LEMMA RunStepEffect ==
  ASSUME NEW p \in Patterns, NEW i \in 1 .. Len(p) + 1,
         NEW pending \in [Kinds -> Nat], run_step(p, i, pending), led \in BOOLEAN
  PROVE  /\ curr_pattern' \in 1 .. Len(p) + 1
         /\ timers' \in [Kinds -> Nat]
         /\ \A e \in Periodic : timers'[e] = pending[e]
         /\ state' \in {"idle", "started"}
         /\ state' = "started" => timers'["pattern"] > 0
         /\ led' \in BOOLEAN
<1>1. Len(p) \in Nat
  BY PatternsAssumption
<1>2. Behind(p, i) \in 1 .. Len(p) + 1
  BY <1>1 DEF Behind
<1>3. \/ /\ timers' = More(pending, "pattern")
         /\ state' = "started" /\ led' = ~led
      \/ /\ timers' = pending
         /\ state' = "idle" /\ led' = led
  BY Zenon DEF run_step
<1>4. /\ More(pending, "pattern") \in [Kinds -> Nat]
      /\ More(pending, "pattern")["pattern"] = pending["pattern"] + 1
      /\ \A e \in Periodic : More(pending, "pattern")[e] = pending[e]
  BY MoreEffect, KindsFacts
<1>5. pending["pattern"] \in Nat
  BY KindsFacts
<1>6. curr_pattern' \in 1 .. Len(p) + 1
  BY <1>2 DEF run_step
<1>7. led' \in BOOLEAN /\ state' \in {"idle", "started"}
  BY <1>3
<1>8. /\ timers' \in [Kinds -> Nat]
      /\ \A e \in Periodic : timers'[e] = pending[e]
  BY <1>3, <1>4
<1>9. state' = "started" => timers'["pattern"] > 0
  BY <1>3, <1>4, <1>5
<1>10. QED
  BY <1>6, <1>7, <1>8, <1>9

LEMMA StartInv ==
  ASSUME Inv, NEW p \in Patterns, NEW r \in BOOLEAN, start(p, r)
  PROVE  Inv'
<1>1. /\ TimerTypes /\ led \in BOOLEAN
      /\ lost' = lost /\ registrations' = registrations
  BY DEF Inv, PlainTypes, start, externalVars
<1>2. /\ timers' \in [Kinds -> Nat]
      /\ \A e \in Periodic : timers'[e] = timers[e]
      /\ PatternTypeOK' /\ SequenceGoesOn'
      /\ state' \in {"idle", "started"} /\ led' \in BOOLEAN
  <2>1. CASE pattern' = p /\ run_step(p, 1, timers)
    <3>1. 1 \in 1 .. Len(p) + 1 /\ p # NoPattern
      BY PatternsAssumption
    <3>2. QED
      BY <1>1, <2>1, <3>1, RunStepEffect
      DEF TimerTypes, PatternTypeOK, SequenceGoesOn
  <2>2. CASE /\ pattern' = NoPattern /\ curr_pattern' = 0 /\ state' = "idle"
             /\ UNCHANGED <<timers, led>>
    BY <1>1, <2>2 DEF TimerTypes, PatternTypeOK, SequenceGoesOn
  <2>3. QED
    BY <2>1, <2>2, Zenon DEF start
<1>3. TimerTypes' /\ LoopsRun'
  BY <1>1, <1>2 DEF TimerTypes, LoopsRun, Inv
<1>4. PlainTypes' /\ ValueType'
  BY <1>2, FlagsAssumption
  DEF Inv, PlainTypes, ValueType, start, create_tasklet, externalVars
<1>5. ButtonTypes' /\ NoPressLost'
  BY DEF Inv, ButtonTypes, NoPressLost, start, buttonVars
<1>6. QED
  BY <1>2, <1>3, <1>4, <1>5 DEF Inv

LEMMA PlayOnInv == Inv /\ PlayOn => Inv'
<1> SUFFICES ASSUME Inv, PlayOn PROVE Inv'
  OBVIOUS
<1>1. /\ pattern \in Patterns
      /\ curr_pattern \in 1 .. Len(pattern) + 1
      /\ 1 \in 1 .. Len(pattern) + 1
      /\ timers["pattern"] > 0 /\ pattern # NoPattern
      /\ led \in BOOLEAN
  BY PatternsAssumption DEF PlayOn, Inv, PatternTypeOK, PlainTypes
<1>2. PICK i \in 1 .. Len(pattern) + 1 : run_step(pattern, i, Fewer("pattern"))
  BY <1>1, Zenon DEF PlayOn
<1>3. /\ Fewer("pattern") \in [Kinds -> Nat]
      /\ \A e \in Periodic : Fewer("pattern")[e] = timers[e]
  BY <1>1, FewerEffect, KindsFacts DEF Inv
<1>4. /\ curr_pattern' \in 1 .. Len(pattern) + 1
      /\ timers' \in [Kinds -> Nat]
      /\ \A e \in Periodic : timers'[e] = timers[e]
      /\ state' \in {"idle", "started"}
      /\ state' = "started" => timers'["pattern"] > 0
      /\ led' \in BOOLEAN
  BY <1>1, <1>2, <1>3, RunStepEffect
<1>5. /\ pattern' = pattern
      /\ UNCHANGED <<created, init_event, restart, value, externalVars,
                     buttonVars, lost>>
  BY DEF PlayOn
<1>6. TimerTypes' /\ LoopsRun'
  BY <1>4, <1>5 DEF TimerTypes, LoopsRun, Inv, externalVars
<1>7. PatternTypeOK' /\ SequenceGoesOn'
  BY <1>1, <1>4, <1>5 DEF PatternTypeOK, SequenceGoesOn
<1>8. PlainTypes' /\ ValueType'
  BY <1>4, <1>5 DEF Inv, PlainTypes, ValueType, externalVars
<1>9. ButtonTypes' /\ NoPressLost'
  BY <1>5 DEF Inv, ButtonTypes, NoPressLost, buttonVars
<1>10. QED
  BY <1>6, <1>7, <1>8, <1>9 DEF Inv

-----------------------------------------------------------------------------
(* Periodic events.                                                        *)

\* What no periodic event touches.
LEMMA PatternUntouched ==
  ASSUME Inv, UNCHANGED patternVars, timers'["pattern"] = timers["pattern"]
  PROVE  PatternTypeOK' /\ SequenceGoesOn'
BY DEF Inv, PatternTypeOK, SequenceGoesOn, patternVars

LEMMA ButtonsUntouched ==
  ASSUME Inv, UNCHANGED buttonVars
  PROVE  ButtonTypes' /\ NoPressLost'
BY DEF Inv, ButtonTypes, NoPressLost, buttonVars

LEMMA RegisteredInv == Inv /\ Registered => Inv'
<1> SUFFICES ASSUME Inv, Registered PROVE Inv'
  OBVIOUS
<1>1. /\ UNCHANGED <<patternVars, value, register_called, buttonVars>>
      /\ registrations < MaxRegistrations
      /\ registrations' = registrations + 1
  BY DEF Registered
<1>2. /\ TimerTypes'
      /\ timers'["pattern"] = timers["pattern"]
      /\ \A e \in Periodic : e \notin lost' => timers'[e] > 0
  <2>1. Request(Periodic, timers, {})
    BY DEF Registered
  <2>2. timers \in [Kinds -> Nat]
    BY DEF Inv, TimerTypes
  <2>3. QED
    BY <2>1, <2>2, RequestEffect
<1>3. LoopsRun'
  BY <1>2 DEF LoopsRun
<1>4. PatternTypeOK' /\ SequenceGoesOn' /\ ButtonTypes' /\ NoPressLost'
  BY <1>1, <1>2, PatternUntouched, ButtonsUntouched
<1>5. registrations' \in 0 .. MaxRegistrations
  BY <1>1, BlinkyBoundsAssumption DEF Inv, PlainTypes
<1>6. PlainTypes' /\ ValueType'
  BY <1>1, <1>5
  DEF Inv, PlainTypes, ValueType, Registered, create_tasklet, patternVars
<1>7. QED
  BY <1>2, <1>3, <1>4, <1>6 DEF Inv

LEMMA LoopInitInv == Inv /\ LoopInit => Inv'
<1> SUFFICES ASSUME Inv, LoopInit PROVE Inv'
  OBVIOUS
<1>1. UNCHANGED <<created, patternVars, value, externalVars, buttonVars>>
  BY DEF LoopInit
<1>2. /\ TimerTypes'
      /\ lost \subseteq lost'
      /\ timers'["pattern"] = timers["pattern"]
      /\ \A e \in Periodic : timers'[e] >= timers[e]
  BY RequestEffect, KindsFacts DEF Inv, TimerTypes, LoopInit
<1>3. LoopsRun'
  <2> SUFFICES ASSUME NEW e \in Periodic, registrations > 0, e \notin lost'
               PROVE  timers'[e] > 0
    BY <1>1 DEF LoopsRun, externalVars
  <2>1. timers[e] > 0
    BY <1>2 DEF Inv, LoopsRun
  <2>2. timers[e] \in Nat /\ timers'[e] \in Nat
    BY <1>2, KindsFacts DEF Inv, TimerTypes
  <2>3. QED
    BY <1>2, <2>1, <2>2
<1>4. PatternTypeOK' /\ SequenceGoesOn' /\ ButtonTypes' /\ NoPressLost'
  BY <1>1, <1>2, PatternUntouched, ButtonsUntouched
<1>5. PlainTypes' /\ ValueType'
  BY <1>1 DEF Inv, PlainTypes, ValueType, LoopInit, patternVars, externalVars
<1>6. QED
  BY <1>2, <1>3, <1>4, <1>5 DEF Inv

LEMMA IncrementType ==
  ASSUME ValueType, increment_button_value \/ value' = value
  PROVE  ValueType'
BY BlinkyBoundsAssumption DEF ValueType, increment_button_value

LEMMA IncrementInv == Inv /\ handle_automatic_increment => Inv'
<1> SUFFICES ASSUME Inv, handle_automatic_increment PROVE Inv'
  OBVIOUS
<1>1. /\ UNCHANGED <<created, init_event, patternVars, externalVars, buttonVars>>
      /\ increment_button_value \/ value' = value
  BY DEF handle_automatic_increment
<1>2. TimerTypes' /\ LoopsRun' /\ timers'["pattern"] = timers["pattern"]
  <2>1. /\ timers["increment"] > 0
        /\ Request({"increment"}, Fewer("increment"), lost)
        /\ registrations' = registrations
    BY DEF handle_automatic_increment, externalVars
  <2>2. QED
    BY <2>1, RepeatedRequest, KindsFacts DEF Inv
<1>3. PatternTypeOK' /\ SequenceGoesOn' /\ ButtonTypes' /\ NoPressLost'
  BY <1>1, <1>2, PatternUntouched, ButtonsUntouched
<1>4. PlainTypes' /\ ValueType'
  BY <1>1, IncrementType DEF Inv, PlainTypes, patternVars, externalVars
<1>5. QED
  BY <1>2, <1>3, <1>4 DEF Inv

-----------------------------------------------------------------------------
(* The buttons.                                                            *)

LEMMA PollsButtons ==
  ASSUME NEW b \in Buttons
  PROVE  /\ NextButton(b) \in [at : {"idle", "test", "clear", "act", "undefined"},
                               button : Buttons]
         /\ \A c \in Buttons : /\ NextButton(b) # Polling("act", c)
                               /\ NextButton(b) # Polling("clear", c)
BY DEF NextButton, Polling, Idle, Buttons

\* The steps that touch nothing but the buttons, pc and the resource.
ButtonStep ==
  /\ UNCHANGED <<created, init_event, timers, patternVars, externalVars, lost>>
  /\ increment_button_value \/ value' = value

LEMMA ButtonStepInv ==
  ASSUME Inv, ButtonStep, ButtonTypes', NoPressLost'
  PROVE  Inv'
<1>1. TimerTypes' /\ LoopsRun'
  BY DEF Inv, TimerTypes, LoopsRun, ButtonStep, externalVars
<1>2. PatternTypeOK' /\ SequenceGoesOn'
  BY PatternUntouched DEF ButtonStep
<1>3. PlainTypes' /\ ValueType'
  BY IncrementType DEF Inv, PlainTypes, ButtonStep, patternVars, externalVars
<1>4. QED
  BY <1>1, <1>2, <1>3 DEF Inv

LEMMA PressInv == ASSUME Inv, NEW b \in Buttons, Press(b) PROVE Inv'
<1>1. /\ ButtonStep /\ pc' = pc
      /\ pressed' = [pressed EXCEPT ![b] = TRUE]
      /\ unanswered' = [unanswered EXCEPT ![b] = TRUE]
  BY DEF Press, ButtonStep
<1>2. ButtonTypes'
  BY <1>1 DEF Inv, ButtonTypes
<1>3. NoPressLost'
  BY <1>1 DEF Inv, ButtonTypes, NoPressLost
<1>4. QED
  BY <1>1, <1>2, <1>3, ButtonStepInv

LEMMA PollInv == Inv /\ Poll => Inv'
<1> SUFFICES ASSUME Inv, NEW b \in Buttons,
                    TestButton(b) \/ ClearButton(b) \/ ActOnButton(b)
             PROVE  Inv'
  BY DEF Poll
<1>1. ButtonStep
  BY DEF TestButton, ClearButton, ActOnButton, ButtonStep
<1>2. ButtonTypes'
  <2>1. pc' \in {NextButton(b), Polling("clear", b), Polling("act", b)}
    BY DEF TestButton, ClearButton, ActOnButton
  <2>2. pc' \in [at : {"idle", "test", "clear", "act", "undefined"},
                 button : Buttons]
    BY <2>1, PollsButtons DEF Polling
  <2>3. pressed' \in [Buttons -> BOOLEAN] /\ unanswered' \in [Buttons -> BOOLEAN]
    BY DEF TestButton, ClearButton, ActOnButton, Inv, ButtonTypes
  <2>4. QED
    BY <2>2, <2>3 DEF ButtonTypes
<1>3. NoPressLost'
  <2> SUFFICES ASSUME NEW c \in Buttons, unanswered'[c]
               PROVE  \/ pressed'[c]
                      \/ pc' = Polling("act", c) \/ pc' = Polling("clear", c)
    BY DEF NoPressLost
  <2>1. CASE TestButton(b)
    <3>1. pressed[c]
      BY <2>1 DEF TestButton, Inv, NoPressLost, Polling
    <3>2. QED
      BY <2>1, <3>1 DEF TestButton
  <2>2. CASE ClearButton(b)
    <3>1. CASE c = b
      BY <2>2, <3>1 DEF ClearButton
    <3>2. CASE c # b
      BY <2>2, <3>2 DEF ClearButton, Inv, NoPressLost, ButtonTypes, Polling
    <3>3. QED
      BY <3>1, <3>2
  <2>3. CASE ActOnButton(b)
    <3>1. c # b
      BY <2>3 DEF ActOnButton, Inv, ButtonTypes
    <3>2. QED
      BY <2>3, <3>1 DEF ActOnButton, Inv, NoPressLost, ButtonTypes, Polling
  <2>4. QED
    BY <2>1, <2>2, <2>3
<1>4. QED
  BY <1>1, <1>2, <1>3, ButtonStepInv

LEMMA HandleButtonsInv == Inv /\ handle_buttons => Inv'
<1> SUFFICES ASSUME Inv, handle_buttons PROVE Inv'
  OBVIOUS
<1>1. UNCHANGED <<created, init_event, patternVars, value, externalVars,
                  pressed, unanswered>>
  BY DEF handle_buttons
<1>2. TimerTypes' /\ LoopsRun' /\ timers'["pattern"] = timers["pattern"]
  <2>1. /\ timers["loop"] > 0
        /\ Request({"loop"}, Fewer("loop"), lost)
        /\ registrations' = registrations
    BY DEF handle_buttons, externalVars
  <2>2. QED
    BY <2>1, RepeatedRequest, KindsFacts DEF Inv
<1>3. PatternTypeOK' /\ SequenceGoesOn'
  BY <1>1, <1>2, PatternUntouched
<1>4. ButtonTypes'
  BY <1>1 DEF handle_buttons, Inv, ButtonTypes, Polling, Idle, Buttons
<1>5. NoPressLost'
  BY <1>1 DEF handle_buttons, Free, Idle, Polling, Inv, NoPressLost
<1>6. PlainTypes' /\ ValueType'
  BY <1>1 DEF Inv, PlainTypes, ValueType, patternVars, externalVars
<1>7. QED
  BY <1>2, <1>3, <1>4, <1>5, <1>6 DEF Inv

-----------------------------------------------------------------------------
(* The theorems.                                                           *)

LEMMA InitInv == BlinkyInit => Inv
<1> SUFFICES ASSUME BlinkyInit PROVE Inv
  OBVIOUS
<1> USE DEF BlinkyInit
<1>1. TimerTypes /\ PlainTypes /\ ValueType
  <2>1. TimerTypes
    BY DEF TimerTypes
  <2>2. 0 \in 0 .. MaxRegistrations /\ 0 \in 0 .. CountModulus - 1
    BY BlinkyBoundsAssumption
  <2>3. QED
    BY <2>1, <2>2 DEF PlainTypes, ValueType
<1>2. ButtonTypes
  BY DEF ButtonTypes, Idle, Buttons
<1>3. PatternTypeOK /\ NoPressLost /\ LoopsRun /\ SequenceGoesOn
  BY DEF PatternTypeOK, NoPressLost, LoopsRun, SequenceGoesOn
<1>4. QED
  BY <1>1, <1>2, <1>3 DEF Inv

LEMMA StepInv == Inv /\ [BlinkyNext]_blinkyVars => Inv'
<1> SUFFICES ASSUME Inv, [BlinkyNext]_blinkyVars PROVE Inv'
  OBVIOUS
<1>1. CASE Start
  BY <1>1, StartInv, FlagsAssumption DEF Start
<1>2. CASE ReadsNullPattern
  <2>1. ButtonStep
    BY <1>2 DEF ReadsNullPattern, ButtonStep
  <2>2. ButtonTypes'
    BY <1>2 DEF ReadsNullPattern, Inv, ButtonTypes, Polling, Buttons
  <2>3. NoPressLost'
    BY <1>2 DEF ReadsNullPattern, Free, Idle, Polling, Inv, NoPressLost
  <2>4. QED
    BY <2>1, <2>2, <2>3, ButtonStepInv
<1>3. CASE Unregistered
  <2>1. /\ UNCHANGED <<created, init_event, timers, patternVars, value,
                       registrations, buttonVars, lost>>
        /\ register_called' = FALSE
    BY <1>3 DEF Unregistered
  <2>2. PatternTypeOK' /\ SequenceGoesOn' /\ ButtonTypes' /\ NoPressLost'
    BY <2>1, PatternUntouched, ButtonsUntouched
  <2>3. TimerTypes' /\ LoopsRun' /\ PlainTypes' /\ ValueType'
    BY <2>1 DEF Inv, TimerTypes, LoopsRun, PlainTypes, ValueType, patternVars
  <2>4. QED
    BY <2>2, <2>3 DEF Inv
<1>4. CASE UNCHANGED blinkyVars
  <2>1. ButtonStep /\ UNCHANGED buttonVars
    BY <1>4 DEF blinkyVars, ButtonStep
  <2>2. QED
    BY <2>1, ButtonStepInv, ButtonsUntouched
<1>5. QED
  BY <1>1, <1>2, <1>3, <1>4, PlayOnInv, RegisteredInv, LoopInitInv,
     IncrementInv, HandleButtonsInv, PollInv, PressInv
  DEF BlinkyNext, BlinkyStep, handle_pattern_event

THEOREM BlinkyInvariance == BlinkySafeSpec => []Inv
BY InitInv, StepInv, PTL DEF BlinkySafeSpec

\* _curr_pattern never leaves its pattern, and the other types are kept.
THEOREM BlinkyTypeCorrect == BlinkySafeSpec => []BlinkyTypeOK
BY BlinkyInvariance, InvTypes, PTL

\* No press of either button is lost, at whatever moment it comes.
THEOREM PressesKept == BlinkySafeSpec => []NoPressLost
<1>1. Inv => NoPressLost
  BY DEF Inv
<1>2. QED
  BY <1>1, BlinkyInvariance, PTL

\* Polls and increments only stop when a request for them failed.
THEOREM LoopsKeepRunning == BlinkySafeSpec => []LoopsRun
<1>1. Inv => LoopsRun
  BY DEF Inv
<1>2. QED
  BY <1>1, BlinkyInvariance, PTL

\* A started sequence has a pattern and a timer, whatever overlaps or fails.
THEOREM StartedSequenceGoesOn == BlinkySafeSpec => []SequenceGoesOn
<1>1. Inv => SequenceGoesOn
  BY DEF Inv
<1>2. QED
  BY <1>1, BlinkyInvariance, PTL

-----------------------------------------------------------------------------
(* Blinky implements PatternPlayer when sequences do not overlap and the   *)
(* memory suffices: nobody but the sequence has a timer then.              *)

\* A sequence that was started has a first number to go back to.
PlayInv ==
  /\ Inv
  /\ TimersOfSequence
  /\ state = "started" => ReadsInt(pattern, 1)

Rest(p, i) == SubSeq(p, i, Len(p))

\* What get_next_int() finds is the head of what is left of the pattern.
LEMMA RestOfPattern ==
  ASSUME NEW p \in Seq(Fields), NEW i \in 1 .. Len(p) + 1
  PROVE  /\ ReadsInt(p, i) <=> Player!Toggles(Rest(p, i))
         /\ ReadsInt(p, i) => /\ Behind(p, i) = i + 1
                              /\ Tail(Rest(p, i)) = Rest(p, i + 1)
         /\ Rest(p, 1) = p
         /\ 1 \in 1 .. Len(p) + 1
<1>1. Len(p) \in Nat /\ DOMAIN p = 1 .. Len(p)
  OBVIOUS
<1>2. /\ Rest(p, i) \in Seq(Fields)
      /\ Len(Rest(p, i)) = Len(p) - i + 1
      /\ \A j \in 1 .. Len(Rest(p, i)) : Rest(p, i)[j] = p[i + j - 1]
  BY <1>1 DEF Rest
<1>3. ReadsInt(p, i) <=> Player!Toggles(Rest(p, i))
  <2>1. CASE i = Len(p) + 1
    BY <2>1, <1>1, <1>2 DEF ReadsInt, Player!Toggles
  <2>2. CASE i <= Len(p)
    <3>1. Rest(p, i) # <<>> /\ Head(Rest(p, i)) = p[i]
      BY <2>2, <1>1, <1>2
    <3>2. QED
      BY <2>2, <3>1, <1>1 DEF ReadsInt, Player!Toggles
  <2>3. QED
    BY <2>1, <2>2, <1>1
<1>4. ASSUME ReadsInt(p, i)
      PROVE  Behind(p, i) = i + 1 /\ Tail(Rest(p, i)) = Rest(p, i + 1)
  BY <1>4, <1>1 DEF ReadsInt, Behind, Rest
<1>5. Rest(p, 1) = p
  BY <1>1 DEF Rest
<1>6. QED
  BY <1>1, <1>3, <1>4, <1>5

\* All steps but the start of a sequence and its events.
OtherStep ==
  \/ Registered \/ Unregistered \/ LoopInit
  \/ handle_automatic_increment \/ handle_buttons \/ Poll
  \/ \E b \in Buttons : Press(b)

LEMMA OtherStepQuiet ==
  ASSUME Inv, OtherStep
  PROVE  UNCHANGED patternVars /\ timers'["pattern"] = timers["pattern"]
<1>1. /\ timers \in [Kinds -> Nat] /\ lost \in SUBSET Periodic
      /\ {} \in SUBSET Periodic /\ Periodic \in SUBSET Periodic
      /\ {"loop"} \in SUBSET Periodic /\ {"increment"} \in SUBSET Periodic
  BY KindsFacts DEF Inv, TimerTypes
<1>2. CASE Registered
  <2>1. Request(Periodic, timers, {}) /\ UNCHANGED patternVars
    BY <1>2 DEF Registered
  <2>2. QED
    BY <2>1, <1>1, RequestEffect
<1>3. CASE LoopInit
  <2>1. Request({"loop"}, timers, lost) /\ UNCHANGED patternVars
    BY <1>3 DEF LoopInit
  <2>2. QED
    BY <2>1, <1>1, RequestEffect
<1>4. CASE handle_automatic_increment
  <2>1. /\ Request({"increment"}, Fewer("increment"), lost)
        /\ timers["increment"] > 0 /\ UNCHANGED patternVars
    BY <1>4 DEF handle_automatic_increment
  <2>2. /\ Fewer("increment") \in [Kinds -> Nat]
        /\ Fewer("increment")["pattern"] = timers["pattern"]
    BY <2>1, FewerEffect, KindsFacts DEF Inv
  <2>3. QED
    BY <2>1, <2>2, <1>1, RequestEffect
<1>5. CASE handle_buttons
  <2>1. /\ Request({"loop"}, Fewer("loop"), lost)
        /\ timers["loop"] > 0 /\ UNCHANGED patternVars
    BY <1>5 DEF handle_buttons
  <2>2. /\ Fewer("loop") \in [Kinds -> Nat]
        /\ Fewer("loop")["pattern"] = timers["pattern"]
    BY <2>1, FewerEffect, KindsFacts DEF Inv
  <2>3. QED
    BY <2>1, <2>2, <1>1, RequestEffect
<1>6. CASE Unregistered \/ Poll \/ \E b \in Buttons : Press(b)
  BY <1>6 DEF Unregistered, Poll, Press, TestButton, ClearButton, ActOnButton
<1>7. QED
  BY <1>2, <1>3, <1>4, <1>5, <1>6 DEF OtherStep

\* One step of a sequence whose event, if any, was taken out of the timers.
LEMMA RunStepPlays ==
  ASSUME ~ MayFail, NEW p \in Patterns, NEW i \in 1 .. Len(p) + 1,
         NEW pending \in [Kinds -> Nat], pending["pattern"] = 0,
         run_step(p, i, pending), ReadsInt(p, i) => ReadsInt(p, 1), pattern' = p
  PROVE  /\ TimersOfSequence'
         /\ (state = "started")' => ReadsInt(p, 1)
         /\ ReadsInt(p, i) =>
              /\ state' = "started" /\ led' = ~led
              /\ curr_pattern' = i + 1
         /\ ~ ReadsInt(p, i) => state' = "idle" /\ led' = led
<1>1. Behind(p, i) = i + 1 \/ ~ ReadsInt(p, i)
  BY RestOfPattern, PatternsAssumption
<1>2. CASE ReadsInt(p, i)
  <2>1. /\ timers' = More(pending, "pattern")
        /\ led' = ~led /\ state' = "started" /\ curr_pattern' = i + 1
    BY <1>1, <1>2 DEF run_step
  <2>2. timers'["pattern"] = 1
    BY <2>1, MoreEffect, KindsFacts
  <2>3. QED
    BY <2>1, <2>2, <1>2 DEF TimersOfSequence
<1>3. CASE ~ ReadsInt(p, i)
  <2>1. timers' = pending /\ led' = led /\ state' = "idle"
    BY <1>3 DEF run_step
  <2>2. QED
    BY <2>1, <1>3 DEF TimersOfSequence
<1>4. QED
  BY <1>2, <1>3

\* The LED of PatternPlayer is this one, playing p from its field i on.
LEMMA StartPlays ==
  ASSUME ~ Overlap, ~ MayFail, PlayInv, Start
  PROVE  PlayInv' /\ \E p \in Patterns, r \in RestartModes : Player!Start(p, r)
<1>1. PICK p \in Patterns, r \in RestartModes : start(p, r)
  BY DEF Start
<1>2. Inv'
  BY <1>1, StartInv, FlagsAssumption DEF PlayInv
<1>3. /\ timers["pattern"] = 0 /\ state = "idle" /\ timers \in [Kinds -> Nat]
  BY DEF Start, PlayInv, Inv, TimersOfSequence, TimerTypes, PlainTypes
<1>4. pattern' = p /\ restart' = r /\ run_step(p, 1, timers)
  BY <1>1 DEF start
<1>5. /\ 1 \in 1 .. Len(p) + 1 /\ Rest(p, 1) = p
      /\ ReadsInt(p, 1) <=> Player!Toggles(p)
      /\ ReadsInt(p, 1) => Tail(p) = Rest(p, 2) /\ p # <<>>
  <2>1. p \in Seq(Fields) /\ Len(p) \in Nat /\ 1 \in 1 .. Len(p) + 1
    BY PatternsAssumption
  <2>2. QED
    BY <2>1, RestOfPattern DEF Player!Toggles
<1>6. /\ TimersOfSequence'
      /\ (state = "started")' => ReadsInt(p, 1)
      /\ ReadsInt(p, 1) =>
           state' = "started" /\ led' = ~led /\ curr_pattern' = 2
      /\ ~ ReadsInt(p, 1) => state' = "idle" /\ led' = led
  BY <1>3, <1>4, <1>5, RunStepPlays
<1>7. PlayInv'
  BY <1>2, <1>4, <1>6 DEF PlayInv
<1>8. Player!Start(p, r)
  <2>1. CASE ReadsInt(p, 1)
    BY <2>1, <1>3, <1>4, <1>5, <1>6
    DEF Player!Start, Player!Playing, Player!PlayFrom, Rest
  <2>2. CASE ~ ReadsInt(p, 1)
    BY <2>2, <1>3, <1>4, <1>5, <1>6
    DEF Player!Start, Player!Playing, Player!Over
  <2>3. QED
    BY <2>1, <2>2
<1>9. QED
  BY <1>7, <1>8

LEMMA PlayOnPlays ==
  ASSUME ~ MayFail, PlayInv, PlayOn
  PROVE  PlayInv' /\ Player!Continue
<1> DEFINE p == pattern
           i == curr_pattern
<1>1. /\ state = "started" /\ timers["pattern"] = 1
      /\ p \in Patterns /\ i \in 1 .. Len(p) + 1 /\ ReadsInt(p, 1)
  BY DEF PlayOn, PlayInv, Inv, TimersOfSequence, PatternTypeOK
<1>2. /\ Fewer("pattern") \in [Kinds -> Nat] /\ Fewer("pattern")["pattern"] = 0
  BY <1>1, FewerEffect, KindsFacts DEF PlayInv, Inv
<1>3. Inv'
  BY PlayOnInv DEF PlayInv
<1>4. pattern' = p /\ restart' = restart
  BY DEF PlayOn
<1>5. /\ p \in Seq(Fields) /\ 1 \in 1 .. Len(p) + 1 /\ Rest(p, 1) = p
      /\ \A j \in 1 .. Len(p) + 1 :
           /\ ReadsInt(p, j) <=> Player!Toggles(Rest(p, j))
           /\ ReadsInt(p, j) => Tail(Rest(p, j)) = Rest(p, j + 1)
      /\ p # <<>>
  BY <1>1, RestOfPattern, PatternsAssumption DEF Player!Toggles
<1>6. CASE ~(restart /\ ~ ReadsInt(p, i)) /\ run_step(p, i, Fewer("pattern"))
  <2>1. /\ TimersOfSequence'
        /\ ReadsInt(p, i) =>
             state' = "started" /\ led' = ~led /\ curr_pattern' = i + 1
        /\ ~ ReadsInt(p, i) => state' = "idle" /\ led' = led
    BY <1>1, <1>2, <1>4, <1>6, RunStepPlays
  <2>2. PlayInv'
    BY <1>1, <1>3, <1>4, <2>1 DEF PlayInv
  <2>3. CASE ReadsInt(p, i)
    BY <2>1, <2>2, <2>3, <1>1, <1>4, <1>5
    DEF Player!Continue, Player!Playing, Player!PlayFrom, Rest
  <2>4. CASE ~ ReadsInt(p, i)
    BY <2>1, <2>2, <2>4, <1>1, <1>4, <1>5, <1>6
    DEF Player!Continue, Player!Playing, Player!Over, Rest
  <2>5. QED
    BY <2>3, <2>4
<1>7. CASE restart /\ ~ ReadsInt(p, i) /\ run_step(p, 1, Fewer("pattern"))
  <2>1. /\ TimersOfSequence'
        /\ state' = "started" /\ led' = ~led /\ curr_pattern' = 2
    BY <1>1, <1>2, <1>4, <1>5, <1>7, RunStepPlays
  <2>2. PlayInv'
    BY <1>1, <1>3, <1>4, <2>1 DEF PlayInv
  <2>3. ~ Player!Toggles(Rest(p, i)) /\ Player!Toggles(p) /\ Tail(p) = Rest(p, 2)
    BY <1>1, <1>5, <1>7
  <2>4. Player!Continue
    BY <2>1, <2>3, <1>1, <1>4, <1>5, <1>7
    DEF Player!Continue, Player!Playing, Player!PlayFrom, Rest
  <2>5. QED
    BY <2>2, <2>4
<1>8. QED
  BY <1>6, <1>7 DEF PlayOn

\* The safety part of PlaysPatterns, for all patterns: sequences that do not
\* overlap toggle the LED as they say, in order, and nothing else toggles it.
THEOREM PlaysAsWritten ==
  ASSUME ~ Overlap, ~ MayFail
  PROVE  BlinkySafeSpec => Player!SafeSpec
<1>1. BlinkyInit => PlayInv /\ Player!Init
  <2> SUFFICES ASSUME BlinkyInit PROVE PlayInv /\ Player!Init
    OBVIOUS
  <2>1. state = "idle" /\ restart = FALSE /\ led = FALSE /\ timers["pattern"] = 0
    BY KindsFacts DEF BlinkyInit
  <2>2. QED
    BY <2>1, InitInv DEF PlayInv, TimersOfSequence, Player!Init
<1>2. PlayInv /\ [BlinkyNext]_blinkyVars => PlayInv' /\ [Player!Next]_Player!vars
  <2> SUFFICES ASSUME PlayInv, [BlinkyNext]_blinkyVars
               PROVE  PlayInv' /\ [Player!Next]_Player!vars
    OBVIOUS
  <2>1. CASE Start
    BY <2>1, StartPlays DEF Player!Next
  <2>2. CASE PlayOn
    BY <2>2, PlayOnPlays DEF Player!Next
  <2>3. ~ ReadsNullPattern
    BY DEF ReadsNullPattern, PlayInv, Inv, TimersOfSequence, SequenceGoesOn
  <2>4. CASE OtherStep \/ UNCHANGED blinkyVars
    <3>1. UNCHANGED patternVars /\ timers'["pattern"] = timers["pattern"]
      BY <2>4, OtherStepQuiet DEF PlayInv, blinkyVars
    <3>2. UNCHANGED <<pattern, curr_pattern, state, restart, led>>
      BY <3>1 DEF patternVars
    <3>3. Inv'
      BY <2>4, StepInv DEF PlayInv
    <3>4. PlayInv'
      BY <3>1, <3>2, <3>3 DEF PlayInv, TimersOfSequence
    <3>5. UNCHANGED Player!vars
      BY <3>2 DEF Player!vars
    <3>6. QED
      BY <3>4, <3>5
  <2>5. QED
    BY <2>1, <2>2, <2>3, <2>4
    DEF BlinkyNext, BlinkyStep, OtherStep, handle_pattern_event
<1>3. QED
  BY <1>1, <1>2, PTL DEF BlinkySafeSpec, Player!SafeSpec

-----------------------------------------------------------------------------
(* The timers add up.                                                      *)

\* A request adds one timer at most, and only for the events it is for.
LEMMA RequestBound ==
  ASSUME NEW es \in SUBSET Periodic, NEW pending \in [Kinds -> Nat],
         NEW before, Request(es, pending, before)
  PROVE  /\ timers' \in [Kinds -> Nat]
         /\ \A e \in Periodic : timers'[e] <= pending[e] + 1
         /\ \A e \in Periodic \ es : timers'[e] = pending[e]
<1>1. PICK ok \in SUBSET es :
        timers' = [e \in Kinds |-> IF e \in ok THEN pending[e] + 1
                                   ELSE pending[e]]
  BY DEF Request
<1>2. \A e \in Kinds : /\ pending[e] \in Nat
                       /\ timers'[e] = IF e \in ok THEN pending[e] + 1
                                       ELSE pending[e]
  BY <1>1
<1>3. timers' \in [Kinds -> Nat]
  BY <1>1, <1>2
<1>4. QED
  BY <1>2, <1>3, KindsFacts

\* An event that requests its successor keeps their number, or lowers it.
LEMMA SuccessorBound ==
  ASSUME TimerTypes, NEW e \in Periodic, timers[e] > 0,
         Request({e}, Fewer(e), lost)
  PROVE  \A k \in Periodic : timers'[k] <= timers[k]
<1>1. /\ Fewer(e) \in [Kinds -> Nat] /\ Fewer(e)[e] = timers[e] - 1
      /\ \A k \in Kinds : k # e => Fewer(e)[k] = timers[k]
  BY FewerEffect, KindsFacts
<1>2. /\ timers' \in [Kinds -> Nat]
      /\ timers'[e] <= Fewer(e)[e] + 1
      /\ \A k \in Periodic \ {e} : timers'[k] = Fewer(e)[k]
  BY <1>1, RequestBound
<1>3. timers \in [Kinds -> Nat]
  BY DEF TimerTypes
<1>4. timers[e] \in Nat /\ timers'[e] \in Nat
  BY <1>2, <1>3, KindsFacts
<1>5. timers'[e] <= timers[e]
  BY <1>1, <1>2, <1>4
<1>6. ASSUME NEW k \in Periodic, k # e PROVE timers'[k] <= timers[k]
  <2>1. timers'[k] = timers[k] /\ timers[k] \in Nat
    BY <1>1, <1>2, <1>3, <1>6, KindsFacts
  <2>2. QED
    BY <2>1
<1>7. QED
  BY <1>5, <1>6

\* Whoever starts a sequence, and over whatever.
Starts == \E p \in Patterns, r \in BOOLEAN : start(p, r)
AnyStep == Starts \/ BlinkyStep

LEMMA NextIsAnyStep == BlinkyNext => AnyStep
BY FlagsAssumption DEF BlinkyNext, Start, Starts, AnyStep

LEMMA AnyStepInv == Inv /\ AnyStep => Inv'
BY StartInv, StepInv DEF AnyStep, Starts, BlinkyNext

\* The pattern's steps leave the other timers alone.
LEMMA PatternStepKeeps ==
  ASSUME Inv, Starts \/ PlayOn
  PROVE  /\ timers' \in [Kinds -> Nat]
         /\ \A e \in Periodic : timers'[e] = timers[e]
         /\ create_tasklet \/ UNCHANGED <<created, init_event>>
         /\ UNCHANGED registrations
<1>1. /\ timers \in [Kinds -> Nat] /\ TimerTypes /\ led \in BOOLEAN
  BY DEF Inv, TimerTypes, PlainTypes
<1>2. \A p \in Patterns : 1 \in 1 .. Len(p) + 1
  BY PatternsAssumption
<1>3. CASE Starts
  <2>1. PICK p \in Patterns, r \in BOOLEAN : start(p, r)
    BY <1>3 DEF Starts
  <2>2. run_step(p, 1, timers) \/ UNCHANGED timers
    BY <2>1 DEF start
  <2>3. timers' \in [Kinds -> Nat] /\ \A e \in Periodic : timers'[e] = timers[e]
    BY <1>1, <1>2, <2>2, RunStepEffect
  <2>4. QED
    BY <2>1, <2>3 DEF start, externalVars
<1>4. CASE PlayOn
  <2>1. /\ pattern \in Patterns /\ curr_pattern \in 1 .. Len(pattern) + 1
        /\ timers["pattern"] > 0
    BY <1>4 DEF PlayOn, Inv, PatternTypeOK
  <2>2. PICK i \in 1 .. Len(pattern) + 1 :
          run_step(pattern, i, Fewer("pattern"))
    BY <1>2, <1>4, <2>1, Zenon DEF PlayOn
  <2>3. /\ Fewer("pattern") \in [Kinds -> Nat]
        /\ \A e \in Periodic : Fewer("pattern")[e] = timers[e]
    BY <1>1, <2>1, FewerEffect, KindsFacts
  <2>4. timers' \in [Kinds -> Nat] /\ \A e \in Periodic : timers'[e] = timers[e]
    BY <1>1, <2>1, <2>2, <2>3, RunStepEffect
  <2>5. QED
    BY <1>4, <2>4 DEF PlayOn, externalVars
<1>5. QED
  BY <1>3, <1>4

\* PeriodicTimersBounded, with what it says of a tasklet not yet created.
BoundInv == PeriodicTimersBounded /\ (init_event => created)

\* Where no timer is added the bounds stay, and creating the tasklet raises
\* both sides.
LEMMA BoundKept ==
  ASSUME Inv, BoundInv, UNCHANGED registrations, timers' \in [Kinds -> Nat],
         create_tasklet \/ UNCHANGED <<created, init_event>>,
         \A e \in Periodic : timers'[e] <= timers[e]
  PROVE  BoundInv'
<1> USE DEF BoundInv, PeriodicTimersBounded
<1>1. /\ timers["increment"] \in Nat /\ timers["loop"] \in Nat
      /\ timers'["increment"] \in Nat /\ timers'["loop"] \in Nat
      /\ timers'["increment"] <= timers["increment"]
      /\ timers'["loop"] <= timers["loop"]
      /\ registrations \in Nat
  BY KindsFacts, BlinkyBoundsAssumption DEF Inv, TimerTypes, PlainTypes
<1>2. CASE UNCHANGED <<created, init_event>>
  BY <1>1, <1>2
<1>3. CASE create_tasklet
  <2>1. created' /\ (created => init_event' = init_event)
    BY <1>3 DEF create_tasklet, Inv, PlainTypes
  <2>2. CASE created
    BY <1>1, <2>1, <2>2
  <2>3. CASE ~created
    BY <1>1, <2>1, <2>3
  <2>4. QED
    BY <2>2, <2>3
<1>4. QED
  BY <1>2, <1>3

LEMMA BoundStep == Inv /\ BoundInv /\ [AnyStep]_blinkyVars => BoundInv'
<1> SUFFICES ASSUME Inv, BoundInv, [AnyStep]_blinkyVars PROVE BoundInv'
  OBVIOUS
<1>1. /\ timers \in [Kinds -> Nat] /\ TimerTypes
      /\ timers["increment"] \in Nat /\ timers["loop"] \in Nat
      /\ registrations \in Nat
      /\ created \in BOOLEAN /\ init_event \in BOOLEAN
      /\ lost \in SUBSET Periodic
      /\ Periodic \in SUBSET Periodic /\ {"loop"} \in SUBSET Periodic
      /\ {"increment"} \in SUBSET Periodic
      /\ \A e \in Periodic : timers[e] \in Nat
  BY KindsFacts, BlinkyBoundsAssumption DEF Inv, TimerTypes, PlainTypes
<1>2. CASE Starts \/ PlayOn
  BY <1>1, <1>2, PatternStepKeeps, BoundKept
<1>3. CASE Registered
  <2>1. /\ Request(Periodic, timers, {}) /\ create_tasklet
        /\ registrations' = registrations + 1
    BY <1>3 DEF Registered
  <2>2. /\ timers'["increment"] \in Nat /\ timers'["loop"] \in Nat
        /\ timers'["increment"] <= timers["increment"] + 1
        /\ timers'["loop"] <= timers["loop"] + 1
    BY <1>1, <2>1, RequestBound, KindsFacts
  <2>3. created' /\ (created => init_event' = init_event)
    BY <1>1, <2>1 DEF create_tasklet
  <2>4. CASE created
    BY <1>1, <2>1, <2>2, <2>3, <2>4 DEF BoundInv, PeriodicTimersBounded
  <2>5. CASE ~created
    BY <1>1, <2>1, <2>2, <2>3, <2>5 DEF BoundInv, PeriodicTimersBounded
  <2>6. QED
    BY <2>4, <2>5
<1>4. CASE LoopInit
  <2>1. /\ Request({"loop"}, timers, lost) /\ init_event /\ ~init_event'
        /\ UNCHANGED <<created, registrations>>
    BY <1>4 DEF LoopInit, externalVars
  <2>2. /\ timers'["increment"] = timers["increment"]
        /\ timers'["loop"] \in Nat /\ timers'["loop"] <= timers["loop"] + 1
    BY <1>1, <2>1, RequestBound, KindsFacts
  <2>3. QED
    BY <1>1, <2>1, <2>2 DEF BoundInv, PeriodicTimersBounded
<1>5. CASE handle_automatic_increment
  <2>1. /\ timers["increment"] > 0
        /\ Request({"increment"}, Fewer("increment"), lost)
        /\ UNCHANGED <<created, init_event, registrations>>
    BY <1>5 DEF handle_automatic_increment, externalVars
  <2>2. \A e \in Periodic : timers'[e] <= timers[e]
    BY <1>1, <2>1, SuccessorBound, KindsFacts
  <2>3. TimerTypes'
    BY <1>5, AnyStepInv DEF Inv, AnyStep, BlinkyStep
  <2>4. QED
    BY <2>1, <2>2, <2>3, BoundKept DEF TimerTypes
<1>6. CASE handle_buttons
  <2>1. /\ timers["loop"] > 0 /\ Request({"loop"}, Fewer("loop"), lost)
        /\ UNCHANGED <<created, init_event, registrations>>
    BY <1>6 DEF handle_buttons, externalVars
  <2>2. \A e \in Periodic : timers'[e] <= timers[e]
    BY <1>1, <2>1, SuccessorBound, KindsFacts
  <2>3. TimerTypes'
    BY <1>6, AnyStepInv DEF Inv, AnyStep, BlinkyStep
  <2>4. QED
    BY <2>1, <2>2, <2>3, BoundKept DEF TimerTypes
<1>7. CASE ReadsNullPattern \/ Unregistered \/ Poll
           \/ (\E b \in Buttons : Press(b)) \/ UNCHANGED blinkyVars
  BY <1>7 DEF ReadsNullPattern, Unregistered, Poll, TestButton, ClearButton,
     ActOnButton, Press, externalVars, blinkyVars, BoundInv,
     PeriodicTimersBounded
<1>8. QED
  BY <1>2, <1>3, <1>4, <1>5, <1>6, <1>7
  DEF AnyStep, BlinkyStep, handle_pattern_event

\* However often the client registers and whatever requests fail, events that
\* request their successors do not multiply.
THEOREM TimersDoNotMultiply == BlinkySafeSpec => []PeriodicTimersBounded
<1>1. BlinkyInit => BoundInv
  BY KindsFacts DEF BlinkyInit, BoundInv, PeriodicTimersBounded
<1>2. BoundInv => PeriodicTimersBounded
  BY DEF BoundInv
<1>3. QED
  BY <1>1, <1>2, BoundStep, NextIsAnyStep, BlinkyInvariance, PTL
  DEF BlinkySafeSpec

\* A client that registers once has one increment per interval.
THEOREM OneTimerOfOneRegistration ==
  BlinkySafeSpec => [](registrations <= 1 => OneIncrementTimer)
<1>1. Inv /\ PeriodicTimersBounded => (registrations <= 1 => OneIncrementTimer)
  <2> SUFFICES ASSUME Inv, PeriodicTimersBounded, registrations <= 1
               PROVE  OneIncrementTimer
    OBVIOUS
  <2>1. timers["increment"] \in Nat /\ registrations \in Nat
    BY KindsFacts, BlinkyBoundsAssumption DEF Inv, TimerTypes, PlainTypes
  <2>2. QED
    BY <2>1 DEF PeriodicTimersBounded, OneIncrementTimer
<1>2. QED
  BY <1>1, TimersDoNotMultiply, BlinkyInvariance, PTL

-----------------------------------------------------------------------------
(* Sequences that do not overlap.                                          *)

\* A step whose event was the only one of its kind leaves one if it goes on.
LEMMA RunStepTimer ==
  ASSUME NEW p, NEW i, NEW pending \in [Kinds -> Nat],
         pending["pattern"] = 0, run_step(p, i, pending)
  PROVE  TimersOfSequence'
<1>1. CASE timers' = More(pending, "pattern") /\ state' = "started"
  BY <1>1, MoreEffect, KindsFacts DEF TimersOfSequence
<1>2. CASE timers' = pending /\ state' = "idle"
  BY <1>2 DEF TimersOfSequence
<1>3. QED
  BY <1>1, <1>2, Zenon DEF run_step

LEMMA TimersOfSequenceStep ==
  ASSUME ~Overlap, Inv, TimersOfSequence, [BlinkyNext]_blinkyVars
  PROVE  TimersOfSequence'
<1>1. timers \in [Kinds -> Nat] /\ TimerTypes
  BY DEF Inv, TimerTypes
<1>2. CASE Start
  <2>1. timers["pattern"] = 0
    BY <1>2 DEF Start
  <2>2. PICK p \in Patterns, r \in RestartModes : start(p, r)
    BY <1>2 DEF Start
  <2>3. CASE run_step(p, 1, timers)
    BY <1>1, <2>1, <2>3, RunStepTimer
  <2>4. CASE state' = "idle" /\ UNCHANGED timers
    BY <2>1, <2>4 DEF TimersOfSequence
  <2>5. QED
    BY <2>2, <2>3, <2>4 DEF start
<1>3. CASE PlayOn
  <2>1. timers["pattern"] = 1
    BY <1>3 DEF PlayOn, TimersOfSequence
  <2>2. Fewer("pattern") \in [Kinds -> Nat] /\ Fewer("pattern")["pattern"] = 0
    BY <1>1, <2>1, FewerEffect, KindsFacts
  <2>3. PICK i : run_step(pattern, i, Fewer("pattern"))
    BY <1>3, Zenon DEF PlayOn
  <2>4. QED
    BY <2>2, <2>3, RunStepTimer
<1>4. CASE ReadsNullPattern \/ UNCHANGED blinkyVars
  BY <1>4 DEF ReadsNullPattern, blinkyVars, patternVars, TimersOfSequence
<1>5. CASE OtherStep
  BY <1>5, OtherStepQuiet DEF patternVars, TimersOfSequence
<1>6. QED
  BY <1>2, <1>3, <1>4, <1>5
  DEF BlinkyNext, BlinkyStep, OtherStep, handle_pattern_event

\* When start() waits for the sequence before, a sequence has its one timer and
\* none is left over, even if memory runs out.
THEOREM NoTimerLeftOver ==
  ASSUME ~Overlap
  PROVE  BlinkySafeSpec => []TimersOfSequence
<1>1. BlinkyInit => TimersOfSequence
  BY KindsFacts DEF BlinkyInit, TimersOfSequence
<1>2. QED
  BY <1>1, TimersOfSequenceStep, BlinkyInvariance, PTL DEF BlinkySafeSpec

\* No event is pending for a pattern that is not there.
EventsHavePattern == pattern = NoPattern => timers["pattern"] = 0

\* The main thread has not read where nothing is known of what it finds.
ReadsDefined == pc.at # "undefined"

LEMMA DefinedStep ==
  ASSUME EventsHavePattern, ReadsDefined, [AnyStep]_blinkyVars
  PROVE  ReadsDefined'
<1> USE DEF ReadsDefined
<1>1. ~ReadsNullPattern
  BY DEF ReadsNullPattern, EventsHavePattern
<1>2. CASE Starts \/ PlayOn \/ UNCHANGED blinkyVars
  BY <1>2 DEF Starts, start, PlayOn, blinkyVars, buttonVars
<1>3. CASE OtherStep
  BY <1>3 DEF OtherStep, Registered, Unregistered, LoopInit,
     handle_automatic_increment, handle_buttons, Poll, TestButton,
     ClearButton, ActOnButton, NextButton, Press, Polling, Idle, buttonVars
<1>4. QED
  BY <1>1, <1>2, <1>3
  DEF AnyStep, BlinkyStep, OtherStep, handle_pattern_event

\* With memory for every pattern, one stays once it is there.
LEMMA PatternStays ==
  ASSUME ~MayFail, Inv, EventsHavePattern, [AnyStep]_blinkyVars
  PROVE  EventsHavePattern'
<1>1. CASE Starts
  BY <1>1, PatternsAssumption DEF Starts, start, EventsHavePattern
<1>2. CASE PlayOn
  BY <1>2 DEF PlayOn, EventsHavePattern
<1>3. CASE ReadsNullPattern \/ UNCHANGED blinkyVars
  BY <1>3 DEF ReadsNullPattern, blinkyVars, patternVars, EventsHavePattern
<1>4. CASE OtherStep
  BY <1>4, OtherStepQuiet DEF patternVars, EventsHavePattern
<1>5. QED
  BY <1>1, <1>2, <1>3, <1>4
  DEF AnyStep, BlinkyStep, OtherStep, handle_pattern_event

\* No event reads a pattern that is not there, unless sequences overlap and
\* memory runs out, both.
THEOREM NoNullPatternRead ==
  ASSUME ~Overlap \/ ~MayFail
  PROVE  BlinkySafeSpec => []ReadsDefined
<1>1. BlinkyInit => EventsHavePattern /\ ReadsDefined
  BY KindsFacts DEF BlinkyInit, EventsHavePattern, ReadsDefined, Idle
<1>2. BlinkySafeSpec => []EventsHavePattern
  <2>1. CASE ~Overlap
    <3>1. Inv /\ TimersOfSequence => EventsHavePattern
      BY DEF Inv, TimersOfSequence, SequenceGoesOn, EventsHavePattern
    <3>2. QED
      BY <2>1, <3>1, NoTimerLeftOver, BlinkyInvariance, PTL
  <2>2. CASE ~MayFail
    BY <1>1, <2>2, PatternStays, NextIsAnyStep, BlinkyInvariance, PTL DEF BlinkySafeSpec
  <2>3. QED
    BY <2>1, <2>2
<1>3. QED
  BY <1>1, <1>2, DefinedStep, NextIsAnyStep, PTL DEF BlinkySafeSpec

=============================================================================

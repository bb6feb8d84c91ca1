------------------------------- MODULE Blinky -------------------------------
(***************************************************************************)
(* source/blinky.cpp with the button flags of setup.cpp: one tasklet for   *)
(* three kinds of timed events, which play the LED pattern, poll the       *)
(* buttons and increment the button resource.  Every handler runs in the   *)
(* main thread to its end; only the buttons' interrupts come in between,   *)
(* so the polling is modelled statement by statement.                      *)
(***************************************************************************)
EXTENDS Naturals, Sequences

CONSTANTS
  Patterns,          \* sequences of Fields
  NoPattern,         \* the NULL of _pattern
  RestartModes,      \* values of pattern_restart
  Overlap,           \* start() may be called before a sequence is over
  MayFail,           \* memory, for events or patterns, may run out (NDEBUG)
  MaxPatternTimers,  \* bound: start() is not called beyond
  MaxRegistrations,  \* bound: registrations of the client
  CountModulus,      \* bound: the button resource counts modulo this
  Pressable          \* bound: the buttons that are pressed

ASSUME FlagsAssumption ==
  RestartModes \subseteq BOOLEAN /\ Overlap \in BOOLEAN /\ MayFail \in BOOLEAN
ASSUME BlinkyBoundsAssumption ==
  /\ MaxPatternTimers \in Nat
  /\ MaxRegistrations \in Nat
  /\ CountModulus \in Nat \ {0}

\* What strtol() finds between two colons.  "num": a number, or nothing at all,
\* which counts as 0.  "ends": a negative number, or one that a sign or a blank
\* follows; it stops the sequence, and the next call reads on behind it.
\* "junk": a character no call gets past.
Fields == {"num", "ends", "junk"}

ASSUME PatternsAssumption ==
  Patterns \subseteq Seq(Fields) /\ NoPattern \notin Seq(Fields)

Buttons == {"resource", "unregister"}
Periodic == {"loop", "increment"}
Kinds == Periodic \cup {"pattern"}

VARIABLES
  created,           \* _tasklet >= 0
  init_event,        \* the tasklet's init event is not yet delivered
  timers,            \* timed events requested and not yet delivered
  pattern,           \* _pattern
  curr_pattern,      \* _curr_pattern: the field it points to, 0 for NULL
  state, restart, led,
  value,             \* the resource 3200/0/5501
  register_called,   \* external: is_pdmc_client_register_called()
  registrations,     \* external: how often the client registered
  pressed,           \* button_..._pressed
  pc,                \* where the main thread is in handle_buttons()
  unanswered,        \* history: buttons pressed and not acted upon since
  lost               \* history: periodic events whose request failed after
                     \* the last registration

patternVars == <<pattern, curr_pattern, state, restart, led>>
externalVars == <<register_called, registrations>>
buttonVars == <<pressed, pc, unanswered>>
blinkyVars == <<created, init_event, timers, patternVars, value, externalVars,
                buttonVars, lost>>

Idle == [at |-> "idle", button |-> "resource"]
Polling(step, b) == [at |-> step, button |-> b]

\* _curr_pattern points into the pattern, or at its end.
PatternTypeOK ==
  \/ pattern = NoPattern /\ curr_pattern = 0
  \/ pattern \in Patterns /\ curr_pattern \in 1 .. Len(pattern) + 1

BlinkyTypeOK ==
  /\ created \in BOOLEAN /\ init_event \in BOOLEAN
  /\ timers \in [Kinds -> Nat]
  /\ PatternTypeOK
  /\ state \in {"idle", "started"}
  /\ restart \in BOOLEAN /\ led \in BOOLEAN
  /\ value \in 0 .. CountModulus - 1
  /\ register_called \in BOOLEAN
  /\ registrations \in 0 .. MaxRegistrations
  /\ pressed \in [Buttons -> BOOLEAN]
  /\ pc \in [at : {"idle", "test", "clear", "act", "undefined"},
             button : Buttons]
  /\ unanswered \in [Buttons -> BOOLEAN]
  /\ lost \subseteq Periodic

\* init_pdmc_client() has just set register_called.
BlinkyInit ==
  /\ created = FALSE /\ init_event = FALSE
  /\ timers = [e \in Kinds |-> 0]
  /\ pattern = NoPattern /\ curr_pattern = 0
  /\ state = "idle" /\ restart = FALSE /\ led = FALSE
  /\ value = 0
  /\ register_called = TRUE /\ registrations = 0
  /\ pressed = [b \in Buttons |-> FALSE]
  /\ pc = Idle
  /\ unanswered = [b \in Buttons |-> FALSE]
  /\ lost = {}

\* Some handler of the main thread may start.
Free == pc = Idle

Fewer(e) == [timers EXCEPT ![e] = @ - 1]
More(requested, e) == [requested EXCEPT ![e] = @ + 1]

-----------------------------------------------------------------------------
(* The pattern.                                                            *)

\* get_next_int(): whether it returns a delay, and where it leaves
\* _curr_pattern.
ReadsInt(p, i) == i \in 1 .. Len(p) /\ p[i] = "num"

\* Wrong variant: the end of the pattern is not looked for.
BehindTheEnd(p, i) == i + 1

Behind(p, i) == IF i \in 1 .. Len(p) /\ p[i] # "junk" THEN i + 1 ELSE i

\* The step at field i of p, with the timers pending otherwise.  Without
\* memory for the event the sequence is idle, though a sequence was to go on.
run_step(p, i, pending) ==
  /\ curr_pattern' = Behind(p, i)
  /\ \/ /\ ReadsInt(p, i)
        /\ timers' = More(pending, "pattern")
        /\ led' = ~led
        /\ state' = "started"
     \/ /\ ReadsInt(p, i) => MayFail
        /\ timers' = pending
        /\ UNCHANGED led
        /\ state' = "idle"

\* Wrong variant: an init event for each call.
create_tasklet_again ==
  /\ created' = TRUE
  /\ init_event' = TRUE

\* The tasklet's first event is its init event.
create_tasklet ==
  /\ created' = TRUE
  /\ init_event' = (init_event \/ ~created)

\* Wrong variant: the state of the sequence before is kept.
start_keeps_state(p, pattern_restart) ==
  /\ create_tasklet
  /\ restart' = pattern_restart
  /\ \/ pattern' = p /\ run_step(p, 1, timers)
     \/ /\ MayFail
        /\ pattern' = NoPattern /\ curr_pattern' = 0
        /\ UNCHANGED <<timers, led, state>>
  /\ UNCHANGED <<value, externalVars, buttonVars, lost>>

\* stop() frees the pattern, but no timer: one that is pending will be
\* delivered to the new sequence, or, if malloc() fails, to none.
start(p, pattern_restart) ==
  /\ create_tasklet
  /\ restart' = pattern_restart
  /\ \/ pattern' = p /\ run_step(p, 1, timers)
     \/ /\ MayFail
        /\ pattern' = NoPattern /\ curr_pattern' = 0 /\ state' = "idle"
        /\ UNCHANGED <<timers, led>>
  /\ UNCHANGED <<value, externalVars, buttonVars, lost>>

Start ==
  /\ Free
  /\ timers["pattern"] < MaxPatternTimers
  /\ Overlap \/ timers["pattern"] = 0
  /\ \E p \in Patterns, r \in RestartModes : start(p, r)

\* Wrong variant: a sequence to be restarted goes on where it stopped.
PlayOnWithoutRewind ==
  /\ Free
  /\ timers["pattern"] > 0 /\ pattern # NoPattern
  /\ run_step(pattern, curr_pattern, Fewer("pattern"))
  /\ UNCHANGED <<created, init_event, pattern, restart, value, externalVars,
                 buttonVars, lost>>

PlayOn ==
  /\ Free
  /\ timers["pattern"] > 0 /\ pattern # NoPattern
  /\ LET fails == ~ReadsInt(pattern, curr_pattern)
     IN \/ /\ ~(restart /\ fails)
           /\ run_step(pattern, curr_pattern, Fewer("pattern"))
        \/ /\ restart /\ (fails \/ MayFail)
           /\ run_step(pattern, 1, Fewer("pattern"))
  /\ UNCHANGED <<created, init_event, pattern, restart, value, externalVars,
                 buttonVars, lost>>

\* get_next_int() calls strtol(NULL): nothing is known of what follows.
ReadsNullPattern ==
  /\ Free
  /\ timers["pattern"] > 0 /\ pattern = NoPattern
  /\ pc' = Polling("undefined", "resource")
  /\ UNCHANGED <<created, init_event, timers, patternVars, value, externalVars,
                 pressed, unanswered, lost>>

handle_pattern_event ==
  IF pattern = NoPattern THEN ReadsNullPattern ELSE PlayOn

-----------------------------------------------------------------------------
(* Periodic events and the buttons.                                        *)

\* request_next_loop_event() and request_automatic_increment_event(), for the
\* events es; their callers do not learn that a request failed.
Request(es, pending, before) ==
  \E ok \in SUBSET es :
    /\ MayFail \/ ok = es
    /\ timers' = [e \in Kinds |->
                    IF e \in ok THEN pending[e] + 1 ELSE pending[e]]
    /\ lost' = before \cup (es \ ok)

\* Wrong variant: the loop is only requested when it is created.
RegisteredOnce ==
  /\ Free /\ register_called
  /\ registrations < MaxRegistrations
  /\ registrations' = registrations + 1
  /\ create_tasklet
  /\ Request({"increment"}, timers, {})
  /\ UNCHANGED <<patternVars, value, register_called, buttonVars>>

\* pdmc_client_registered(): start_loop() and the two requests.
Registered ==
  /\ Free /\ register_called
  /\ registrations < MaxRegistrations
  /\ registrations' = registrations + 1
  /\ create_tasklet
  /\ Request(Periodic, timers, {})
  /\ UNCHANGED <<patternVars, value, register_called, buttonVars>>

\* pdmc_client_unregistered(); the client does not register again.
Unregistered ==
  /\ Free /\ register_called
  /\ register_called' = FALSE
  /\ UNCHANGED <<created, init_event, timers, patternVars, value,
                 registrations, buttonVars, lost>>

\* BLINKY_TASKLET_LOOP_INIT_EVENT.
LoopInit ==
  /\ Free
  /\ init_event
  /\ init_event' = FALSE
  /\ Request({"loop"}, timers, lost)
  /\ UNCHANGED <<created, patternVars, value, externalVars, buttonVars>>

increment_button_value ==
  \/ value' = (value + 1) % CountModulus
  \/ MayFail /\ UNCHANGED value          \* "Failed to update button value!"

handle_automatic_increment ==
  /\ Free
  /\ timers["increment"] > 0
  /\ Request({"increment"}, Fewer("increment"), lost)
  /\ IF register_called THEN increment_button_value ELSE UNCHANGED value
  /\ UNCHANGED <<created, init_event, patternVars, externalVars, buttonVars>>

\* The interrupt handlers, at any moment.
Press(b) ==
  /\ b \in Pressable
  /\ pc.at # "undefined"
  /\ pressed' = [pressed EXCEPT ![b] = TRUE]
  /\ unanswered' = [unanswered EXCEPT ![b] = TRUE]
  /\ UNCHANGED <<created, init_event, timers, patternVars, value, externalVars,
                 pc, lost>>

\* Wrong variant: a poll that may close the client is the last one.
handle_buttons_once ==
  /\ Free
  /\ timers["loop"] > 0
  /\ timers' = Fewer("loop")
  /\ pc' = IF register_called THEN Polling("test", "resource") ELSE Idle
  /\ UNCHANGED <<created, init_event, patternVars, value, externalVars,
                 pressed, unanswered, lost>>

\* handle_buttons() requests the next poll first, then looks at the buttons.
handle_buttons ==
  /\ Free
  /\ timers["loop"] > 0
  /\ Request({"loop"}, Fewer("loop"), lost)
  /\ pc' = IF register_called THEN Polling("test", "resource") ELSE Idle
  /\ UNCHANGED <<created, init_event, patternVars, value, externalVars,
                 pressed, unanswered>>

NextButton(b) == IF b = "resource" THEN Polling("test", "unregister") ELSE Idle

TestButton(b) ==
  /\ pc = Polling("test", b)
  /\ pc' = IF pressed[b] THEN Polling("clear", b) ELSE NextButton(b)
  /\ UNCHANGED <<created, init_event, timers, patternVars, value, externalVars,
                 pressed, unanswered, lost>>

\* Wrong variant: every button is taken for answered.
ClearButtons(b) ==
  /\ pc = Polling("clear", b)
  /\ pressed' = [c \in Buttons |-> FALSE]
  /\ pc' = Polling("act", b)
  /\ UNCHANGED <<created, init_event, timers, patternVars, value, externalVars,
                 unanswered, lost>>

ClearButton(b) ==
  /\ pc = Polling("clear", b)
  /\ pressed' = [pressed EXCEPT ![b] = FALSE]
  /\ pc' = Polling("act", b)
  /\ UNCHANGED <<created, init_event, timers, patternVars, value, externalVars,
                 unanswered, lost>>

\* increment_button_value(), or pdmc_client_close(), which ends in Unregistered
\* if the library is up to it.
ActOnButton(b) ==
  /\ pc = Polling("act", b)
  /\ IF b = "resource" THEN increment_button_value ELSE UNCHANGED value
  /\ unanswered' = [unanswered EXCEPT ![b] = FALSE]
  /\ pc' = NextButton(b)
  /\ UNCHANGED <<created, init_event, timers, patternVars, externalVars,
                 pressed, lost>>

Poll == \E b \in Buttons : TestButton(b) \/ ClearButton(b) \/ ActOnButton(b)

\* Every step but the calls of start().
BlinkyStep ==
  \/ handle_pattern_event
  \/ Registered \/ Unregistered \/ LoopInit
  \/ handle_automatic_increment \/ handle_buttons \/ Poll
  \/ \E b \in Buttons : Press(b)

BlinkyNext == Start \/ BlinkyStep

\* The main thread runs, timers expire, and events are delivered in order of
\* priority: however often the buttons are polled, a pattern's event gets its
\* turn.
BlinkyFairness ==
  /\ SF_blinkyVars(handle_pattern_event)
  /\ WF_blinkyVars(handle_buttons)
  /\ WF_blinkyVars(Poll)

BlinkySafeSpec == BlinkyInit /\ [][BlinkyNext]_blinkyVars
BlinkySpec == BlinkySafeSpec /\ BlinkyFairness

-----------------------------------------------------------------------------
(* Properties.                                                             *)

\* A press that comes at any moment of the polling is acted upon afterwards,
\* or still marked: clearing a flag discards no press of either button.
NoPressLost ==
  \A b \in Buttons :
    unanswered[b] => pressed[b] \/ pc = Polling("act", b)
                                \/ pc = Polling("clear", b)

\* handle_buttons() and handle_automatic_increment() may stop for want of
\* memory, but "the loop should then be restarted after re-registration".
LoopsRun ==
  \A e \in Periodic : registrations > 0 /\ e \notin lost => timers[e] > 0

\* The events that request themselves anew do not multiply: each registration
\* adds at most one increment and one poll, and the tasklet one poll when it is
\* created, whoever creates it, and not again.
PeriodicTimersBounded ==
  /\ timers["increment"] <= registrations
  /\ timers["loop"] + (IF init_event THEN 1 ELSE 0)
       <= registrations + (IF created THEN 1 ELSE 0)

\* A sequence that is started has the event that carries it on, whatever was
\* pending of sequences before it.
SequenceGoesOn == state = "started" => timers["pattern"] > 0 /\ pattern # NoPattern

\* Button presses of a registered device are acted upon, however its other
\* events and the presses themselves are interleaved.
PressesAnswered ==
  \A b \in Buttons :
    (unanswered[b] /\ registrations > 0) ~>
      (~unanswered[b] \/ ~register_called)

Player == INSTANCE PatternPlayer WITH
  todo <- IF state = "started"
          THEN SubSeq(pattern, curr_pattern, Len(pattern)) ELSE <<>>,
  whole <- IF state = "started" THEN pattern ELSE <<>>,
  again <- restart

\* Sequences that do not overlap toggle the LED as their patterns say, and end.
PlaysPatterns == Player!Spec

\* "allow one to start multiple times before previous sequence has completed":
\* the timer of the sequence before is not left to the next one, nor to none.
TimersOfSequence == timers["pattern"] = IF state = "started" THEN 1 ELSE 0

\* "Update resource periodically every 300 seconds": by one timer.
OneIncrementTimer == timers["increment"] <= 1

=============================================================================

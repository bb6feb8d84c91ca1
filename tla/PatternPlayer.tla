---------------------------- MODULE PatternPlayer ----------------------------
(***************************************************************************)
(* What playing a blink pattern means: the LED toggles once for each       *)
(* number of the pattern, in order, until the first field that is not one. *)
(* A pattern played again and again starts over there; else it is over.    *)
(***************************************************************************)
EXTENDS Naturals, Sequences

CONSTANTS Patterns, RestartModes

VARIABLES
  todo,      \* the fields not yet played
  whole,     \* the pattern being played, <<>> when none is
  again,     \* it is to be played again and again
  led

vars == <<todo, whole, again, led>>

Playing == whole # <<>>
Toggles(fields) == fields # <<>> /\ Head(fields) = "num"

Init == todo = <<>> /\ whole = <<>> /\ again = FALSE /\ led = FALSE

PlayFrom(p, fields) ==
  /\ Toggles(fields)
  /\ todo' = Tail(fields) /\ whole' = p /\ led' = ~led

Over == todo' = <<>> /\ whole' = <<>> /\ UNCHANGED led

Start(p, restart) ==
  /\ ~Playing
  /\ again' = restart
  /\ IF Toggles(p) THEN PlayFrom(p, p) ELSE Over

Continue ==
  /\ Playing
  /\ UNCHANGED again
  /\ IF Toggles(todo) THEN PlayFrom(whole, todo)
     ELSE IF again THEN PlayFrom(whole, whole) ELSE Over

Next == Continue \/ \E p \in Patterns, r \in RestartModes : Start(p, r)

SafeSpec == Init /\ [][Next]_vars

\* A pattern being played goes on, so it ends unless it is repeated.
Spec == SafeSpec /\ WF_vars(Continue)

=============================================================================

------------------------------ MODULE DutyCycle ------------------------------
(***************************************************************************)
(* What the device does, seen from outside: it boots, is online, sleeps,   *)
(* wakes up by reconnecting, and reboots when it gives up.  It never goes  *)
(* back to sleep, nor to sleep a second time, before it was online again.  *)
(***************************************************************************)

VARIABLE phase

TypeOK == phase \in {"booting", "online", "asleep", "waking", "rebooting"}

Init == phase = "booting"

Step(from, to) == phase = from /\ phase' = to

Boots == Step("booting", "online")
Sleeps == Step("online", "asleep")
Wakes == Step("asleep", "waking")
Resumes == Step("waking", "online")
GivesUp == phase # "rebooting" /\ phase' = "rebooting"
Restarts == Step("rebooting", "booting")

Next == Boots \/ Sleeps \/ Wakes \/ Resumes \/ GivesUp \/ Restarts

SafeSpec == Init /\ [][Next]_phase

\* A booting, sleeping or waking device does not stay so.
Spec ==
  /\ SafeSpec
  /\ WF_phase(phase = "booting" /\ Next)
  /\ WF_phase(phase = "asleep" /\ Next)
  /\ WF_phase(phase = "waking" /\ Next)

=============================================================================

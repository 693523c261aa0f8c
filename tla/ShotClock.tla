----------------------------- MODULE ShotClock -----------------------------
(***************************************************************************)
(* What the controller promises the referee about the shot clock, without  *)
(* threads, interrupts or work items: one count-down that a press of start *)
(* sets to the full shot, that counts down, that a press of stop freezes,  *)
(* and that ends at zero.                                                  *)
(*                                                                         *)
(* Time is counted in ticks.  Slip is the number of ticks a button press   *)
(* may take to be acted on: a pause may show up to Slip ticks more than    *)
(* were left, and a pause that loses the race with the end of the shot     *)
(* shows at most Slip.                                                     *)
(***************************************************************************)
EXTENDS Naturals

CONSTANTS Shot,     \* length of a full shot in ticks
          Slip      \* reaction time of the device in ticks

VARIABLES mode, left

vars == <<mode, left>>

TypeOK == /\ mode \in {"idle", "running", "paused", "expired"}
          /\ left \in 0..Shot

Init == mode = "idle" /\ left = 0

\* A press of start takes effect: a full shot, whatever came before.
Start == mode' = "running" /\ left' = Shot

\* Time passes.
Count == mode = "running" /\ left > 0 /\ left' = left - 1 /\ UNCHANGED mode

\* The shot ends: only at zero.
Expire == mode = "running" /\ left = 0 /\ mode' = "expired" /\ UNCHANGED left

\* A press of stop freezes the time that was left (give or take Slip).
Pause == /\ mode = "running"
         /\ mode' = "paused"
         /\ left' \in left..(left + Slip)

\* A press of stop on a clock that is not running.  On a clock that just
\* expired it may still show the ticks it read before the end; otherwise,
\* a second press of stop included, the time becomes zero.
PauseStopped == /\ mode # "running"
                /\ mode' = "paused"
                /\ left' = 0 \/ (mode = "expired" /\ left' \in 0..Slip)

\* The first half of a press of start: the old pause or expiry is forgotten.
Discard == mode \in {"paused", "expired"} /\ mode' = "idle" /\ left' = 0

\* While the device boots, a shot that was only just started may be lost.
Forget == mode = "running" /\ left + Slip >= Shot /\ mode' = "idle" /\ left' = 0

\* The device restarts; that cuts a shot short only in its first Slip ticks.
Reboot == /\ mode = "running" => left + Slip >= Shot
          /\ mode' = "idle" /\ left' = 0

Next == \/ Start \/ Count \/ Expire \/ Pause \/ PauseStopped
        \/ Discard \/ Forget \/ Reboot

Spec == Init /\ [][Next]_vars
=============================================================================

------------------------------- MODULE Watcher -------------------------------
(***************************************************************************)
(* What the display's client promises about following a controller,        *)
(* without connection objects, references or handles: it looks for one,    *)
(* tries it, watches it while the link lasts, and looks again.             *)
(***************************************************************************)
CONSTANTS Controllers, Fields,
          Nobody,
          MayFail   \* may it give up?

VARIABLES phase,    \* "booting", "searching", "trying", "watching", "over"
                    \* or "dormant"
          whom,     \* the controller of the link, or Nobody
          hears     \* fields it is subscribed to at that controller

vars == <<phase, whom, hears>>

Init == phase = "booting" /\ whom = Nobody /\ hears = {}

\* Back to searching, or an error that is not tried again.
Search == /\ phase' = "searching" \/ (MayFail /\ phase' = "dormant")
          /\ whom' = Nobody /\ hears' = {}

Boot == phase = "booting" /\ Search

\* A controller is found; with an error it is not connected to.
Find == /\ phase = "searching"
        /\ \/ \E p \in Controllers : phase' = "trying" /\ whom' = p
           \/ MayFail /\ phase' = "dormant" /\ UNCHANGED whom
        /\ UNCHANGED hears

\* The attempt ends, with a link to the controller tried or with a new search.
Link == /\ phase = "trying"
        /\ \/ phase' = "watching" /\ UNCHANGED <<whom, hears>>
           \/ Search

\* On a link it comes to hear the controller's fields, and no other's.
Hear == /\ phase = "watching"
        /\ hears \subseteq hears' /\ hears' \subseteq Fields
        /\ UNCHANGED <<phase, whom>>

\* The controller refuses a field, or ends it.
Refused == /\ phase = "watching"
           /\ \E f \in hears : hears' = hears \ {f}
           /\ UNCHANGED <<phase, whom>>

\* The link is lost, and then found to be.
Lose   == phase = "watching" /\ phase' = "over" /\ hears' = {} /\ UNCHANGED whom
Notice == phase = "over" /\ Search

\* Unplugged and plugged in, which alone ends a dormant state.
Restart == phase' = "booting" /\ whom' = Nobody /\ hears' = {}

Next == Boot \/ Find \/ Link \/ Hear \/ Refused \/ Lose \/ Notice \/ Restart

Spec == Init /\ [][Next]_vars
=============================================================================

------------------------------ MODULE Admission ------------------------------
(***************************************************************************)
(* What the controller's service promises about who may connect to it,     *)
(* without work items, callbacks or the accept list: a gate that is shut,  *)
(* open to displays with a stored key, or open to all.                     *)
(***************************************************************************)
EXTENDS Naturals, FiniteSets

CONSTANTS Displays, Room,  \* displays, and how many may be connected at once
          MayJam           \* may the gate get stuck when it is to be shut?

VARIABLES gate,      \* "shut", "known" or "open"
          stuck,     \* the gate was to be shut and is not
          keys,      \* displays with a stored key
          guests,    \* connected displays
          expelled   \* guests whose key was deleted and who are to leave

vars == <<gate, stuck, keys, guests, expelled>>

Init == /\ gate = "shut" /\ stuck = FALSE /\ keys \in SUBSET Displays
        /\ guests = {} /\ expelled = {}

\* Only displays with a key get through a gate for known ones; through one that
\* is stuck those also who had a key.
Enter(p) == /\ gate = "open" \/ (gate = "known" /\ (p \in keys \/ stuck))
            /\ p \notin guests /\ Cardinality(guests) < Room
            /\ guests' = guests \cup {p}
            /\ UNCHANGED <<gate, stuck, keys, expelled>>

\* A guest pairs; one that is to leave does not get a key back first.
Pair(p) == /\ p \in guests \ expelled
           /\ keys' = keys \cup {p}
           /\ UNCHANGED <<gate, stuck, guests, expelled>>

Leave(p) == /\ p \in guests
            /\ guests' = guests \ {p} /\ expelled' = expelled \ {p}
            /\ UNCHANGED <<gate, stuck, keys>>

Shut == gate' = "shut" /\ stuck' = FALSE /\ UNCHANGED <<keys, guests, expelled>>

\* An attempt to shut it fails; it can only be shut then.
Jam == /\ MayJam /\ gate # "shut"
       /\ stuck' = TRUE
       /\ UNCHANGED <<gate, keys, guests, expelled>>

\* What the gate is opened for changes only by shutting it, and it is not
\* opened to known displays when there are none.
Open == /\ gate = "shut"
        /\ gate' = "open" \/ (gate' = "known" /\ keys # {})
        /\ UNCHANGED <<stuck, keys, guests, expelled>>

\* All keys are forgotten, behind a gate that is shut or stuck; guests who had
\* one must leave.
Forget == /\ gate = "shut" \/ stuck
          /\ keys' = {} /\ expelled' = expelled \cup (guests \cap keys)
          /\ UNCHANGED <<gate, stuck, guests>>

\* Power off and on: only the keys are kept.
Restart == /\ gate' = "shut" /\ stuck' = FALSE /\ guests' = {} /\ expelled' = {}
           /\ UNCHANGED keys

Next == \/ \E p \in Displays : Enter(p) \/ Pair(p) \/ Leave(p)
        \/ Shut \/ Jam \/ Open \/ Forget \/ Restart

Spec == Init /\ [][Next]_vars
=============================================================================

----------------------------- MODULE WorkQueue -----------------------------
(***************************************************************************)
(* The Zephyr system work queue as the firmware uses it: one cooperative   *)
(* thread that takes work items in the order they were submitted and runs  *)
(* each handler to its end.  Submitting an item that is already queued     *)
(* does nothing; submitting the item whose handler is running queues it    *)
(* again.                                                                  *)
(***************************************************************************)
EXTENDS Naturals, SequencesExt

\* k_work_submit(w)
Submit(q, w) == IF Contains(q, w) THEN q ELSE Append(q, w)

\* What every queue of distinct items looks like.
Distinct(q) == \A i, j \in 1..Len(q) : q[i] = q[j] => i = j
=============================================================================

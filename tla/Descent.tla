------------------------------ MODULE Descent ------------------------------
(***************************************************************************)
(* The order behind the arguments that something comes to an end: tuples   *)
(* of natural numbers, of which the first that differ count.  There is no  *)
(* infinite descent in it.                                                 *)
(***************************************************************************)
EXTENDS Naturals

Fewer(v, w) ==
    \E i \in DOMAIN w : v[i] < w[i] /\ \A j \in 1..(i - 1) : v[j] = w[j]
=============================================================================

--------------------------- MODULE Descent_proofs ---------------------------
(***************************************************************************)
(* How a step is shown to go down in the order of Descent.                 *)
(***************************************************************************)
EXTENDS Descent, TLAPS

\* One of the five numbers decreases, and those before it stay.
LEMMA FewerAt ==
    ASSUME NEW v1, NEW v2, NEW v3, NEW v4, NEW v5,
           NEW w1, NEW w2, NEW w3, NEW w4, NEW w5,
           \/ w1 < v1
           \/ w1 = v1 /\ w2 < v2
           \/ w1 = v1 /\ w2 = v2 /\ w3 < v3
           \/ w1 = v1 /\ w2 = v2 /\ w3 = v3 /\ w4 < v4
           \/ w1 = v1 /\ w2 = v2 /\ w3 = v3 /\ w4 = v4 /\ w5 < v5
    PROVE  Fewer(<<w1, w2, w3, w4, w5>>, <<v1, v2, v3, v4, v5>>)
<1> DEFINE v == <<v1, v2, v3, v4, v5>>
           w == <<w1, w2, w3, w4, w5>>
<1>1. CASE w1 < v1
  <2>1. w[1] < v[1] /\ \A j \in 1..0 : w[j] = v[j]
    BY <1>1
  <2> QED BY <2>1 DEF Fewer
<1>2. CASE w1 = v1 /\ w2 < v2
  <2>1. w[2] < v[2] /\ \A j \in 1..1 : w[j] = v[j]
    BY <1>2
  <2> QED BY <2>1 DEF Fewer
<1>3. CASE w1 = v1 /\ w2 = v2 /\ w3 < v3
  <2>1. w[3] < v[3] /\ \A j \in 1..2 : w[j] = v[j]
    BY <1>3
  <2> QED BY <2>1 DEF Fewer
<1>4. CASE w1 = v1 /\ w2 = v2 /\ w3 = v3 /\ w4 < v4
  <2>1. w[4] < v[4] /\ \A j \in 1..3 : w[j] = v[j]
    BY <1>4
  <2> QED BY <2>1 DEF Fewer
<1>5. CASE w1 = v1 /\ w2 = v2 /\ w3 = v3 /\ w4 = v4 /\ w5 < v5
  <2>1. w[5] < v[5] /\ \A j \in 1..4 : w[j] = v[j]
    BY <1>5
  <2> QED BY <2>1 DEF Fewer
<1> QED BY <1>1, <1>2, <1>3, <1>4, <1>5
=============================================================================

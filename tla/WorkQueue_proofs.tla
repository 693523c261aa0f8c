-------------------------- MODULE WorkQueue_proofs --------------------------
(***************************************************************************)
(* Lemmas about the work queue: what submitting an item and taking the     *)
(* first one leave, and in which order.                                    *)
(***************************************************************************)
EXTENDS WorkQueue, TLAPS

\* The empty queue.
LEMMA EmptySeqType ==
    ASSUME NEW S PROVE <<>> \in Seq(S) /\ Distinct(<<>>)
BY DEF Distinct

\* Submitting an item to a queue of distinct items leaves it one.
LEMMA SubmitType ==
    ASSUME NEW S, NEW q \in Seq(S), NEW w \in S, Distinct(q)
    PROVE  /\ Submit(q, w) \in Seq(S)
           /\ Distinct(Submit(q, w))
           /\ Submit(q, w) # <<>>
<1>1. CASE Contains(q, w)
  BY <1>1 DEF Submit, Contains
<1>2. CASE ~Contains(q, w)
  <2>1. Submit(q, w) = Append(q, w) BY <1>2 DEF Submit
  <2>2. Append(q, w) \in Seq(S) /\ Len(Append(q, w)) = Len(q) + 1
    OBVIOUS
  <2>3. \A i \in 1..Len(q) : q[i] # w BY <1>2 DEF Contains
  <2>4. Distinct(Append(q, w))
    BY <2>2, <2>3 DEF Distinct
  <2> QED BY <2>1, <2>2, <2>4
<1> QED BY <1>1, <1>2

\* What a queue holds after a submission.
LEMMA SubmitContains ==
    ASSUME NEW S, NEW q \in Seq(S), NEW w \in S, NEW b
    PROVE  Contains(Submit(q, w), b) <=> Contains(q, b) \/ b = w
BY DEF Submit, Contains

\* Taking the first of a queue of distinct items removes every trace of it
\* and nothing else.
LEMMA TailContains ==
    ASSUME NEW S, NEW q \in Seq(S), q # <<>>, Distinct(q)
    PROVE  /\ Head(q) \in S /\ Tail(q) \in Seq(S) /\ Distinct(Tail(q))
           /\ \A b : Contains(Tail(q), b) <=> Contains(q, b) /\ b # Head(q)
<1>1. Head(q) \in S /\ Tail(q) \in Seq(S) /\ Len(q) \in Nat \ {0}
      /\ Len(Tail(q)) = Len(q) - 1
  OBVIOUS
<1>2. \A i \in 1..Len(Tail(q)) : Tail(q)[i] = q[i + 1]
  OBVIOUS
<1>3. Distinct(Tail(q))
  BY <1>1, <1>2 DEF Distinct
<1>4. ASSUME NEW b PROVE Contains(Tail(q), b) <=> Contains(q, b) /\ b # Head(q)
  <2>1. ASSUME Contains(Tail(q), b) PROVE Contains(q, b) /\ b # Head(q)
    <3>1. PICK i \in 1..Len(Tail(q)) : Tail(q)[i] = b BY <2>1 DEF Contains
    <3>2. i + 1 \in 1..Len(q) /\ q[i + 1] = b BY <1>1, <1>2, <3>1
    <3>3. q[1] # b BY <1>1, <3>2 DEF Distinct
    <3> QED BY <3>2, <3>3 DEF Contains
  <2>2. ASSUME Contains(q, b), b # Head(q) PROVE Contains(Tail(q), b)
    <3>1. PICK i \in 1..Len(q) : q[i] = b BY <2>2 DEF Contains
    <3>2. i # 1 BY <2>2, <3>1
    <3>3. i - 1 \in 1..Len(Tail(q)) /\ Tail(q)[i - 1] = b
      BY <1>1, <1>2, <3>1, <3>2
    <3> QED BY <3>3 DEF Contains
  <2> QED BY <2>1, <2>2
<1> QED BY <1>1, <1>3, <1>4

-----------------------------------------------------------------------------
(* The order of the items *)

Before(q, x, y) ==
    \E i, j \in 1..Len(q) : i < j /\ q[i] = x /\ q[j] = y

\* Two items of a queue are in one order or the other.
LEMMA BeforeOrder ==
    ASSUME NEW S, NEW q \in Seq(S), Distinct(q), NEW x, NEW y, x # y
    PROVE  /\ Before(q, x, y) => Contains(q, x) /\ Contains(q, y)
           /\ Contains(q, x) /\ Contains(q, y) => (Before(q, x, y) \/ Before(q, y, x))
           /\ ~(Before(q, x, y) /\ Before(q, y, x))
BY DEF Before, Contains, Distinct

\* A submission puts the item behind all others, unless it is queued already.
LEMMA SubmitBefore ==
    ASSUME NEW S, NEW q \in Seq(S), NEW w \in S, NEW x, NEW y
    PROVE  Before(Submit(q, w), x, y)
             <=> \/ Before(q, x, y)
                 \/ y = w /\ ~Contains(q, w) /\ Contains(q, x)
<1>1. CASE Contains(q, w)
  BY <1>1 DEF Submit
<1>2. CASE ~Contains(q, w)
  <2>1. Submit(q, w) = Append(q, w)
    BY <1>2 DEF Submit
  <2>2. /\ Len(Append(q, w)) = Len(q) + 1 /\ Len(q) \in Nat
        /\ Append(q, w)[Len(q) + 1] = w
        /\ \A i \in 1..Len(q) : Append(q, w)[i] = q[i]
    OBVIOUS
  <2>3. ASSUME Before(Append(q, w), x, y)
        PROVE  Before(q, x, y) \/ (y = w /\ Contains(q, x))
    BY <2>2, <2>3 DEF Before, Contains
  <2>4. ASSUME Before(q, x, y) \/ (y = w /\ Contains(q, x))
        PROVE  Before(Append(q, w), x, y)
    BY <2>2, <2>4 DEF Before, Contains
  <2> QED BY <1>2, <2>1, <2>3, <2>4
<1> QED BY <1>1, <1>2

\* Taking the first item leaves the others in their order.
LEMMA TailBefore ==
    ASSUME NEW S, NEW q \in Seq(S), q # <<>>, Distinct(q), NEW x, NEW y
    PROVE  Before(Tail(q), x, y) <=> Before(q, x, y) /\ x # Head(q)
<1>1. /\ Tail(q) \in Seq(S) /\ Len(q) \in Nat \ {0} /\ Head(q) = q[1]
      /\ Len(Tail(q)) = Len(q) - 1
      /\ \A i \in 1..Len(Tail(q)) : Tail(q)[i] = q[i + 1]
  OBVIOUS
<1>2. ASSUME Before(Tail(q), x, y) PROVE Before(q, x, y) /\ x # Head(q)
  <2>1. PICK i \in 1..Len(Tail(q)), j \in 1..Len(Tail(q)) :
          i < j /\ Tail(q)[i] = x /\ Tail(q)[j] = y
    BY <1>2 DEF Before
  <2>2. /\ i + 1 \in 1..Len(q) /\ j + 1 \in 1..Len(q) /\ i + 1 < j + 1
        /\ q[i + 1] = x /\ q[j + 1] = y
    BY <1>1, <2>1
  <2>3. x # Head(q)
    BY <1>1, <2>2 DEF Distinct
  <2> QED BY <2>2, <2>3 DEF Before
<1>3. ASSUME Before(q, x, y), x # Head(q) PROVE Before(Tail(q), x, y)
  <2>1. PICK i \in 1..Len(q), j \in 1..Len(q) : i < j /\ q[i] = x /\ q[j] = y
    BY <1>3 DEF Before
  <2>2. i # 1
    BY <1>1, <1>3, <2>1
  <2>3. /\ i - 1 \in 1..Len(Tail(q)) /\ j - 1 \in 1..Len(Tail(q)) /\ i - 1 < j - 1
        /\ Tail(q)[i - 1] = x /\ Tail(q)[j - 1] = y
    BY <1>1, <2>1, <2>2
  <2> QED BY <2>3 DEF Before
<1> QED BY <1>2, <1>3
=============================================================================

------------------------- MODULE DclkService_proofs -------------------------
(***************************************************************************)
(* Proofs about DclkService, for any finite set of displays, any number of *)
(* connections that num_conn can count, and whichever calls may fail.      *)
(***************************************************************************)
EXTENDS DclkService, WorkQueue_proofs, Descent_proofs, FiniteSetTheorems,
        FunctionTheorems

USE ServiceAssumption

-----------------------------------------------------------------------------
(* Type correctness *)

\* setup_accept_list_cb counts each slot once.
SlotsLeft == at = "adv_fill" => bond_cnt + Cardinality(todo) <= Cardinality(Peers)

TypeInv == TypeOK /\ SlotsLeft

\* The three work items are distinct.
LEMMA WorksFacts == /\ Adv \in Works /\ Pair \in Works /\ Button \in Works
                    /\ Adv # Pair /\ Adv # Button /\ Pair # Button
BY DEF Works, Adv, Pair, Button

\* Sets of peers are finite, and are no larger than Peers.
LEMMA PeerSets ==
    ASSUME NEW S \in SUBSET Peers
    PROVE  /\ IsFiniteSet(S) /\ Cardinality(S) \in Nat
           /\ Cardinality(S) <= Cardinality(Peers) /\ Cardinality(Peers) \in Nat
BY FS_Subset, FS_CardinalityType

\* One peer more or less in a set of peers.
LEMMA PeerCount ==
    ASSUME NEW S \in SUBSET Peers, NEW p \in Peers
    PROVE  /\ p \in S => Cardinality(S \ {p}) = Cardinality(S) - 1
           /\ p \notin S => Cardinality(S \cup {p}) = Cardinality(S) + 1
BY PeerSets, FS_AddElement, FS_RemoveElement

LEMMA InitType == Init => TypeInv
<1> SUFFICES ASSUME Init PROVE TypeInv
  OBVIOUS
<1> USE DEF Init
<1>1. <<>> \in Seq(Works) /\ Distinct(<<>>) /\ <<>> \in Seq({"connected", "failed", "disconnected"})
  BY EmptySeqType
<1>2. Cardinality(Peers) \in Nat
  BY PeerSets
<1>3. started \in BOOLEAN /\ ready \in BOOLEAN /\ pair_en \in BOOLEAN /\ cut_short \in BOOLEAN
  OBVIOUS
<1>4. bond_cnt \in -1..Cardinality(Peers)
  BY <1>2
<1> QED BY <1>1, <1>3, <1>4 DEF TypeInv, TypeOK, SlotsLeft, Labels

LEMMA RestartType == TypeInv /\ Restart => TypeInv'
<1> SUFFICES ASSUME TypeInv, Restart PROVE TypeInv'
  OBVIOUS
<1> USE DEF Restart
<1>1. <<>> \in Seq(Works) /\ Distinct(<<>>) /\ <<>> \in Seq({"connected", "failed", "disconnected"})
  BY EmptySeqType
<1>2. Cardinality(Peers) \in Nat
  BY PeerSets
<1>3. started' \in BOOLEAN /\ ready' \in BOOLEAN /\ pair_en' \in BOOLEAN /\ cut_short' \in BOOLEAN
  OBVIOUS
<1>4. bond_cnt' \in -1..Cardinality(Peers)
  BY <1>2
<1> QED BY <1>1, <1>3, <1>4 DEF TypeInv, TypeOK, SlotsLeft, Labels

\* Submitting a work item, or none, keeps the queue well typed.
LEMMA QueueType ==
    ASSUME TypeOK, NEW w \in Works, wq' = Submit(wq, w) \/ wq' = wq
    PROVE  wq' \in Seq(Works) /\ Distinct(wq')
BY SubmitType DEF TypeOK

LEMMA NextType == TypeInv /\ [Next]_vars => TypeInv'
<1> SUFFICES ASSUME TypeInv, [Next]_vars PROVE TypeInv'
  OBVIOUS
<1>0. TypeOK /\ SlotsLeft
  BY DEF TypeInv
<1> USE DEF buttonVars, hostVars, listVars, statusVars, advVars, bootVars
<1>1. CASE Dispatch
  <2>1. /\ Head(wq) \in Works /\ Tail(wq) \in Seq(Works) /\ Distinct(Tail(wq))
    BY <1>0, <1>1, TailContains DEF TypeOK, Dispatch
  <2>2. wq' \in Seq(Works) /\ Distinct(wq')
    BY <1>1, <2>1 DEF Dispatch
  <2>3. at' \in {"handle", "pair_stop", "adv_stop"}
    BY <1>1, <2>1, WorksFacts DEF Dispatch, Works
  <2> QED BY <1>0, <1>1, <2>2, <2>3 DEF TypeInv, TypeOK, SlotsLeft, Dispatch, Labels
<1>2. CASE Handle
  BY <1>0, <1>2 DEF TypeInv, TypeOK, SlotsLeft, Handle, Labels
<1>3. CASE DclkPairing
  <2>1. wq' \in Seq(Works) /\ Distinct(wq')
    BY <1>0, <1>3, WorksFacts, QueueType DEF DclkPairing
  <2>2. at' = "idle" /\ pair_en' \in BOOLEAN
    BY <1>3 DEF DclkPairing
  <2> QED BY <1>0, <1>3, <2>1, <2>2 DEF TypeInv, TypeOK, SlotsLeft, DclkPairing, Labels
<1>4. CASE PairStop
  <2>1. at' = "pair_unpair" /\ cut_short' \in BOOLEAN /\ adv' \in {"off", adv}
    BY <1>4 DEF PairStop, Stop
  <2> QED BY <1>0, <1>4, <2>1 DEF TypeInv, TypeOK, SlotsLeft, PairStop, Stop, Labels
<1>5. CASE PairUnpair
  BY <1>0, <1>5 DEF TypeInv, TypeOK, SlotsLeft, PairUnpair, Labels
<1>6. ASSUME NEW mode \in {"open", "filtered"}, StartsAs(mode) PROVE TypeInv'
  <2>1. at' = "idle" /\ cut_short' \in BOOLEAN /\ adv' \in {"off", "open", "filtered"}
    BY <1>0, <1>6 DEF StartsAs, TypeOK
  <2> QED BY <1>0, <1>6, <2>1 DEF TypeInv, TypeOK, SlotsLeft, StartsAs, Labels
<1>7. CASE AdvStop
  <2>1. at' = "adv_clear" /\ cut_short' \in BOOLEAN /\ adv' \in {"off", adv}
    BY <1>7 DEF AdvStop, Stop
  <2> QED BY <1>0, <1>7, <2>1 DEF TypeInv, TypeOK, SlotsLeft, AdvStop, Stop, Labels
<1>8. CASE AdvClear
  <2>1. Cardinality(Peers) \in Nat
    BY PeerSets
  <2>2. cut_short' \in BOOLEAN
    BY <1>0, <1>8 DEF AdvClear, TypeOK
  <2>3. CASE ready /\ accept_list' = {} /\ todo' = Peers /\ bond_cnt' = 0 /\ at' = "adv_fill"
    <3>1. bond_cnt' \in -1..Cardinality(Peers) /\ SlotsLeft'
      BY <2>1, <2>3 DEF SlotsLeft
    <3> QED BY <1>0, <1>8, <2>2, <2>3, <3>1 DEF TypeInv, TypeOK, AdvClear, Labels
  <2>4. CASE at' = "idle" /\ UNCHANGED listVars
    BY <1>0, <1>8, <2>2, <2>4 DEF TypeInv, TypeOK, SlotsLeft, AdvClear, Labels
  <2> QED BY <1>8, <2>3, <2>4 DEF AdvClear
<1>9. ASSUME NEW p \in Peers, AdvFill(p) PROVE TypeInv'
  <2>1. /\ at = "adv_fill" /\ p \in todo /\ todo' = todo \ {p} /\ todo \in SUBSET Peers
        /\ UNCHANGED <<buttonVars, wq, at, bootVars, adv, hostVars, pending, statusVars>>
    BY <1>0, <1>9 DEF AdvFill, TypeOK
  <2>2. /\ Cardinality(todo') = Cardinality(todo) - 1 /\ Cardinality(todo) \in Nat
        /\ Cardinality(todo') \in Nat /\ Cardinality(Peers) \in Nat
    BY <2>1, PeerSets, PeerCount
  <2>3. bond_cnt \in -1..Cardinality(Peers)
        /\ bond_cnt + Cardinality(todo) <= Cardinality(Peers)
    BY <1>0, <2>1 DEF TypeOK, SlotsLeft
  <2>4. bond_cnt' \in {bond_cnt, bond_cnt + 1, -1}
        /\ (bond_cnt' = bond_cnt + 1 => bond_cnt >= 0)
    BY <1>9, <2>3 DEF AdvFill
  <2>5. bond_cnt' \in -1..Cardinality(Peers)
        /\ bond_cnt' + Cardinality(todo') <= Cardinality(Peers)
    BY <2>2, <2>3, <2>4
  <2>6. cut_short' \in BOOLEAN /\ accept_list' \subseteq Peers /\ todo' \subseteq Peers
    BY <1>0, <1>9, <2>1 DEF AdvFill, TypeOK
  <2> QED BY <1>0, <2>1, <2>5, <2>6 DEF TypeInv, TypeOK, SlotsLeft
<1>10. CASE AdvFilled
  <2>1. at' \in {"adv_start", "idle"} /\ bond_cnt' = 0 /\ todo' = {}
    BY <1>10 DEF AdvFilled
  <2>2. bond_cnt' \in -1..Cardinality(Peers) /\ SlotsLeft'
    BY <2>1, PeerSets, FS_EmptySet DEF SlotsLeft
  <2> QED BY <1>0, <1>10, <2>1, <2>2 DEF TypeInv, TypeOK, AdvFilled, Labels
<1>11. ASSUME NEW p \in Peers, Connect(p) PROVE TypeInv'
  <2>1. pending' \in Seq({"connected", "failed", "disconnected"})
    BY <1>0, <1>11 DEF Connect, TypeOK
  <2>2. links' \subseteq Peers /\ leaving' \subseteq links'
    BY <1>0, <1>11 DEF Connect, TypeOK
  <2> QED BY <1>0, <1>11, <2>1, <2>2 DEF TypeInv, TypeOK, SlotsLeft, Connect, HostStep
<1>12. ASSUME NEW p \in Peers, Bond(p) PROVE TypeInv'
  BY <1>0, <1>12 DEF TypeInv, TypeOK, SlotsLeft, Bond, HostStep
<1>13. ASSUME NEW p \in Peers, Disconnect(p) PROVE TypeInv'
  <2>1. pending' \in Seq({"connected", "failed", "disconnected"})
    BY <1>0, <1>13 DEF Disconnect, TypeOK
  <2>2. links' \subseteq Peers /\ leaving' \subseteq links'
    BY <1>0, <1>13 DEF Disconnect, TypeOK
  <2> QED BY <1>0, <1>13, <2>1, <2>2 DEF TypeInv, TypeOK, SlotsLeft, Disconnect, HostStep
<1>14. CASE ConnectFails
  <2>1. pending' \in Seq({"connected", "failed", "disconnected"})
    BY <1>14 DEF ConnectFails
  <2> QED BY <1>0, <1>14, <2>1 DEF TypeInv, TypeOK, SlotsLeft, ConnectFails, HostStep
<1>15. ASSUME NEW e, Callback(e), wq' = Submit(wq, Adv) \/ wq' = wq, num_conn' \in 0..255
       PROVE  TypeInv'
  <2>1. pending' \in Seq({"connected", "failed", "disconnected"})
    BY <1>0, <1>15 DEF Callback, TypeOK
  <2>2. wq' \in Seq(Works) /\ Distinct(wq')
    BY <1>0, <1>15, WorksFacts, QueueType
  <2> QED BY <1>0, <1>15, <2>1, <2>2 DEF TypeInv, TypeOK, SlotsLeft, Callback, HostStep
<1>16. CASE Callbacks
  <2>1. num_conn \in 0..255
    BY <1>0 DEF TypeOK
  <2>2. num_conn' \in 0..255 /\ (wq' = Submit(wq, Adv) \/ wq' = wq)
    BY <1>16, <2>1 DEF Callbacks, OnConnected, OnConnectFailed, OnDisconnected
  <2> QED BY <1>16, <2>2, <1>15 DEF Callbacks, OnConnected, OnConnectFailed, OnDisconnected
<1>17. CASE DclkInit
  <2>1. wq' \in Seq(Works) /\ Distinct(wq')
    BY <1>0, <1>17, WorksFacts, QueueType DEF DclkInit
  <2>2. started' \in BOOLEAN /\ ready' \in BOOLEAN /\ cut_short' \in BOOLEAN
    BY <1>0, <1>17 DEF DclkInit, TypeOK
  <2> QED BY <1>0, <1>17, <2>1, <2>2 DEF TypeInv, TypeOK, SlotsLeft, DclkInit
<1>18. CASE Edge
  <2>1. wq' \in Seq(Works) /\ Distinct(wq')
    BY <1>0, <1>18, WorksFacts, QueueType DEF Edge
  <2>2. pin' \in {0, 1} /\ val' \in {0, 1}
    BY <1>0, <1>18 DEF Edge, TypeOK
  <2> QED BY <1>0, <1>18, <2>1, <2>2 DEF TypeInv, TypeOK, SlotsLeft, Edge
<1>19. CASE Restart
  BY <1>19, RestartType
<1>20. CASE UNCHANGED vars
  BY <1>0, <1>20 DEF TypeInv, TypeOK, SlotsLeft, vars
<1> QED BY <1>1, <1>2, <1>3, <1>4, <1>5, <1>6, <1>7, <1>8, <1>9, <1>10, <1>11, <1>12,
       <1>13, <1>14, <1>16, <1>17, <1>18, <1>19, <1>20
       DEF Next, Queue, Remote, PairStart, AdvStart

LEMMA SpecType == Spec => []TypeInv
BY InitType, NextType, PTL DEF Spec

-----------------------------------------------------------------------------
(* The accept list *)

\* After a failed dclk_init every set-up fails at its first or second call.
BootInv == /\ ready => started
           /\ started /\ ~ready /\ ~cut_short => at \in {"pair_unpair", "pair_start", "adv_clear"}

LEMMA NextBoot == BootInv /\ [Next]_vars => BootInv'
<1> SUFFICES ASSUME BootInv, [Next]_vars PROVE BootInv'
  OBVIOUS
<1> USE DEF BootInv, buttonVars, hostVars, listVars, statusVars, advVars, bootVars
<1>1. CASE Queue
  <2>1. UNCHANGED <<started, ready>>
    BY <1>1 DEF Queue, Dispatch, Handle, DclkPairing, PairStop, AdvStop, Stop, PairUnpair,
       PairStart, AdvStart, StartsAs, AdvClear, AdvFill, AdvFilled
  <2>2. started /\ ~ready /\ ~cut_short' => at' \in {"pair_unpair", "pair_start", "adv_clear"}
    BY <1>1 DEF Queue, Dispatch, Handle, DclkPairing, PairStop, AdvStop, Stop, PairUnpair,
       PairStart, AdvStart, StartsAs, AdvClear, AdvFill, AdvFilled
  <2> QED BY <2>1, <2>2
<1>2. CASE Callbacks \/ Remote
  BY <1>2 DEF Callbacks, OnConnected, OnConnectFailed, OnDisconnected, Callback, Remote,
     Connect, Bond, Disconnect, ConnectFails, HostStep
<1>3. CASE DclkInit \/ Edge \/ Restart \/ UNCHANGED vars
  BY <1>3 DEF DclkInit, Edge, Restart, vars
<1> QED BY <1>1, <1>2, <1>3 DEF Next

LEMMA SpecBoot == Spec => []BootInv
<1>1. Init => BootInv
  BY DEF Init, BootInv
<1> QED BY <1>1, NextBoot, PTL DEF Spec

\* From the stop of advertising to its start nothing is advertised, unless the
\* stop failed; from its clearing on the accept list holds bonds only, and bonds
\* are deleted only before that.  Nothing of this gets anywhere before Bluetooth
\* is enabled.
AdvInv ==
    /\ at \in {"pair_unpair", "pair_start", "adv_clear", "adv_fill", "adv_start"}
         => adv = "off" \/ cut_short
    /\ at \in {"adv_fill", "adv_start"} =>
         /\ ready
         /\ accept_list \subseteq bonds /\ (bond_cnt > 0 => accept_list # {})
    /\ at = "adv_start" => accept_list # {} /\ bond_cnt = 0
    /\ ~ready => adv = "off"
    /\ FilteredIsForBonds

LEMMA InitAdv == Init => AdvInv
BY DEF Init, AdvInv, FilteredIsForBonds

LEMMA NextAdv == TypeInv /\ BootInv /\ AdvInv /\ [Next]_vars => AdvInv'
<1> SUFFICES ASSUME TypeInv, BootInv, AdvInv, [Next]_vars PROVE AdvInv'
  OBVIOUS
<1>0. TypeOK
  BY DEF TypeInv
<1> USE DEF AdvInv, FilteredIsForBonds, buttonVars, hostVars, listVars, statusVars, advVars, bootVars
<1>1. CASE Dispatch
  <2>1. at' \in {"handle", "pair_stop", "adv_stop"}
    <3>1. wq \in Seq(Works) /\ wq # <<>> => Head(wq) \in Works
      OBVIOUS
    <3> QED BY <1>0, <1>1, <3>1, WorksFacts DEF TypeOK, Dispatch, Works
  <2> QED BY <1>1, <2>1 DEF Dispatch
<1>2. CASE Handle \/ DclkPairing
  BY <1>2 DEF Handle, DclkPairing
<1>3. CASE PairStop \/ AdvStop
  BY <1>3 DEF PairStop, AdvStop, Stop
<1>4. CASE PairUnpair
  BY <1>4 DEF PairUnpair
<1>5. CASE PairStart
  BY <1>5 DEF PairStart, StartsAs
<1>6. CASE AdvClear
  BY <1>6 DEF AdvClear
<1>7. ASSUME NEW p \in Peers, AdvFill(p) PROVE AdvInv'
  <2>1. bond_cnt \in Int
    BY <1>0, FS_CardinalityType DEF TypeOK
  <2> QED BY <1>7, <2>1 DEF AdvFill
<1>8. CASE AdvFilled
  BY <1>8 DEF AdvFilled
<1>9. CASE AdvStart
  BY <1>9 DEF AdvStart, StartsAs
\* The callbacks and the peers change neither list nor advertising, and only
\* add bonds.
<1>10. CASE Remote
  BY <1>10 DEF Remote, Connect, Bond, Disconnect, ConnectFails, HostStep
<1>11. CASE Callbacks
  BY <1>11 DEF Callbacks, OnConnected, OnConnectFailed, OnDisconnected, Callback, HostStep
<1>12. CASE DclkInit \/ Edge
  BY <1>12 DEF DclkInit, Edge, BootInv
<1>13. CASE Restart
  BY <1>13 DEF Restart
<1>14. CASE UNCHANGED vars
  BY <1>14 DEF vars
<1> QED BY <1>1, <1>2, <1>3, <1>4, <1>5, <1>6, <1>7, <1>8, <1>9, <1>10, <1>11, <1>12,
       <1>13, <1>14 DEF Next, Queue

LEMMA SpecAdv == Spec => []AdvInv
BY SpecType, SpecBoot, InitAdv, NextAdv, PTL DEF Spec

-----------------------------------------------------------------------------
(* The pair button *)

\* A release is still to be handled.
Releasing == \/ Contains(wq, Button) \/ at = "handle"
             \/ at = "pair_enable" /\ evt = 0

\* While the button is up, if its release interrupts, whatever opens the service
\* has something behind it that closes it: a release to be handled, or advertise_DCLK after it in the
\* queue.  What makes that hard is that advertise_DCLK may be queued already,
\* and stays at its place, when the release submits it.  It is then never
\* before a queued pair_DCLK, because nothing but a push submits that, and no
\* callback runs while a push is handled.
OpenInv ==
    /\ at \in {"handle", "pair_enable"} => ~Before(wq, Button, Adv)
    /\ Before(wq, Adv, Pair) => /\ at \notin {"handle", "pair_enable"}
                                /\ ~Before(wq, Button, Adv)
    /\ 0 \in PairTrigger /\ pin = 0 =>
         /\ Contains(wq, Button) \/ at = "handle" => val = 0
         /\ Contains(wq, Pair) => Releasing \/ Before(wq, Pair, Adv)
         /\ (adv = "open" /\ ~cut_short) \/ at \in {"pair_stop", "pair_unpair", "pair_start"}
              => Releasing \/ Contains(wq, Adv) \/ at = "adv_stop"
         /\ at = "pair_enable" /\ evt = 1 => Contains(wq, Button)

\* An empty queue holds nothing.
LEMMA EmptyQueue ==
    ASSUME NEW x, NEW y PROVE ~Contains(<<>>, x) /\ ~Before(<<>>, x, y)
BY DEF Contains, Before

LEMMA InitOpen == Init => OpenInv
<1> SUFFICES ASSUME Init PROVE OpenInv
  OBVIOUS
<1>1. \A x, y : ~Contains(wq, x) /\ ~Before(wq, x, y)
  BY EmptyQueue DEF Init
<1> QED BY <1>1 DEF Init, OpenInv

\* What the queue holds, and in which order, after each way to change it.
LEMMA Submitted ==
    ASSUME TypeOK, NEW w \in Works, wq' = Submit(wq, w)
    PROVE  /\ \A x : Contains(wq', x) <=> Contains(wq, x) \/ x = w
           /\ \A x, y : Before(wq', x, y)
                <=> \/ Before(wq, x, y)
                    \/ y = w /\ ~Contains(wq, w) /\ Contains(wq, x)
BY SubmitContains, SubmitBefore DEF TypeOK

LEMMA Taken ==
    ASSUME TypeOK, wq # <<>>, wq' = Tail(wq)
    PROVE  /\ Head(wq) \in Works /\ Contains(wq, Head(wq))
           /\ \A x : Contains(wq', x) <=> Contains(wq, x) /\ x # Head(wq)
           /\ \A x, y : Before(wq', x, y) <=> Before(wq, x, y) /\ x # Head(wq)
           /\ \A y : Contains(wq, y) /\ y # Head(wq) => Before(wq, Head(wq), y)
<1>1. wq \in Seq(Works) /\ Distinct(wq)
  BY DEF TypeOK
<1>2. Len(wq) \in Nat \ {0} /\ Head(wq) = wq[1] /\ Head(wq) \in Works
  BY <1>1
<1>3. Contains(wq, Head(wq))
  BY <1>2 DEF Contains
<1>4. \A y : Contains(wq, y) /\ y # Head(wq) => Before(wq, Head(wq), y)
  BY <1>2 DEF Contains, Before
<1> QED BY <1>1, <1>2, <1>3, <1>4, TailContains, TailBefore

LEMMA NextOpen == TypeInv /\ OpenInv /\ [Next]_vars => OpenInv'
<1> SUFFICES ASSUME TypeInv, OpenInv, [Next]_vars PROVE OpenInv'
  OBVIOUS
<1>0. /\ TypeOK /\ wq \in Seq(Works) /\ Distinct(wq)
      /\ pin \in {0, 1} /\ val \in {0, 1} /\ evt \in {0, 1}
      /\ Adv # Pair /\ Adv # Button /\ Pair # Button
  BY WorksFacts DEF TypeInv, TypeOK
<1> USE DEF buttonVars, advVars, bootVars
<1>1. CASE Dispatch
  <2>1. wq # <<>> /\ wq' = Tail(wq) /\ at = "idle"
        /\ UNCHANGED <<pin, val, evt, adv, cut_short>>
    BY <1>1 DEF Dispatch
  <2>2. /\ Contains(wq, Head(wq))
        /\ \A x : Contains(wq', x) <=> Contains(wq, x) /\ x # Head(wq)
        /\ \A x, y : Before(wq', x, y) <=> Before(wq, x, y) /\ x # Head(wq)
        /\ \A y : Contains(wq, y) /\ y # Head(wq) => Before(wq, Head(wq), y)
    BY <1>0, <2>1, Taken
  <2>3. \A x, y : x # y => (Before(wq, x, y) => Contains(wq, x) /\ Contains(wq, y))
    BY <1>0, BeforeOrder
  <2>4. CASE Head(wq) = Adv
    <3>1. at' = "adv_stop"
      BY <1>0, <1>1, <2>4 DEF Dispatch
    <3>2. ~Before(wq, Pair, Adv)
      BY <1>0, <2>2, <2>3, <2>4, BeforeOrder
    <3> QED BY <1>0, <2>1, <2>2, <2>3, <2>4, <3>1, <3>2 DEF OpenInv, Releasing
  <2>5. CASE Head(wq) = Pair
    <3>1. at' = "pair_stop"
      BY <1>0, <1>1, <2>5 DEF Dispatch
    <3> QED BY <1>0, <2>1, <2>2, <2>3, <2>5, <3>1 DEF OpenInv, Releasing
  <2>6. CASE Head(wq) = Button
    <3>1. at' = "handle"
      BY <1>0, <1>1, <2>6 DEF Dispatch
    \* Were advertise_DCLK before pair_DCLK, it would be behind the button.
    <3>2. ~Before(wq, Adv, Pair)
      BY <1>0, <2>2, <2>3, <2>6 DEF OpenInv
    <3> QED BY <1>0, <2>1, <2>2, <2>3, <2>6, <3>1, <3>2 DEF OpenInv, Releasing
  <2>7. Head(wq) \in Works
    BY <1>0, <2>1, Taken
  <2> QED BY <2>4, <2>5, <2>6, <2>7 DEF Works
<1>2. CASE Handle
  <2>1. /\ at = "handle" /\ evt' = val /\ at' = "pair_enable"
        /\ UNCHANGED <<pin, val, wq, adv, cut_short>>
    BY <1>2 DEF Handle
  <2> QED BY <1>0, <2>1 DEF OpenInv, Releasing
<1>3. CASE DclkPairing
  <2>1. at = "pair_enable" /\ at' = "idle" /\ UNCHANGED <<pin, val, evt, adv, cut_short>>
    BY <1>3 DEF DclkPairing
  <2>2. CASE evt = 1
    <3>1. wq' = Submit(wq, Pair)
      BY <1>3, <2>2 DEF DclkPairing
    <3>2. /\ \A x : Contains(wq', x) <=> Contains(wq, x) \/ x = Pair
          /\ \A x, y : Before(wq', x, y)
                <=> \/ Before(wq, x, y)
                    \/ y = Pair /\ ~Contains(wq, Pair) /\ Contains(wq, x)
      BY <1>0, <3>1, WorksFacts, Submitted
    <3> QED BY <1>0, <2>1, <2>2, <3>2 DEF OpenInv, Releasing
  <2>3. CASE evt = 0
    <3>1. wq' = Submit(wq, Adv)
      BY <1>3, <2>3 DEF DclkPairing
    <3>2. /\ \A x : Contains(wq', x) <=> Contains(wq, x) \/ x = Adv
          /\ \A x, y : Before(wq', x, y)
                <=> \/ Before(wq, x, y)
                    \/ y = Adv /\ ~Contains(wq, Adv) /\ Contains(wq, x)
      BY <1>0, <3>1, WorksFacts, Submitted
    <3>3. Contains(wq', Pair) => Before(wq', Pair, Adv)
      BY <1>0, <2>1, <3>2, BeforeOrder DEF OpenInv
    <3>4. ~Before(wq', Adv, Pair)
      BY <1>0, <2>1, <3>2 DEF OpenInv
    <3> QED BY <1>0, <2>1, <2>3, <3>2, <3>3, <3>4 DEF OpenInv, Releasing
  <2> QED BY <1>0, <2>2, <2>3
<1>4. CASE Stop("pair_stop", "pair_unpair")
  BY <1>4 DEF Stop, OpenInv, Releasing
<1>5. CASE Stop("adv_stop", "adv_clear")
  BY <1>5 DEF Stop, OpenInv, Releasing
<1>6. CASE PairUnpair
  BY <1>6 DEF PairUnpair, OpenInv, Releasing
<1>7. CASE PairStart
  BY <1>7 DEF PairStart, StartsAs, OpenInv, Releasing
<1>8. CASE AdvClear
  BY <1>8 DEF AdvClear, OpenInv, Releasing
<1>9. ASSUME NEW p \in Peers, AdvFill(p) PROVE OpenInv'
  BY <1>9 DEF AdvFill, OpenInv, Releasing
<1>10. CASE AdvFilled
  BY <1>10 DEF AdvFilled, OpenInv, Releasing
<1>11. CASE AdvStart
  BY <1>11 DEF AdvStart, StartsAs, OpenInv, Releasing
<1>12. ASSUME at \notin {"handle", "pair_enable"}, UNCHANGED <<pin, val, evt, at, adv>>,
              cut_short => cut_short',
              wq' = Submit(wq, Adv) \/ wq' = wq
       PROVE  OpenInv'
  <2>1. CASE wq' = wq
    BY <1>12, <2>1 DEF OpenInv, Releasing
  <2>2. CASE wq' = Submit(wq, Adv)
    <3>1. /\ \A x : Contains(wq', x) <=> Contains(wq, x) \/ x = Adv
          /\ \A x, y : Before(wq', x, y)
                <=> \/ Before(wq, x, y)
                    \/ y = Adv /\ ~Contains(wq, Adv) /\ Contains(wq, x)
      BY <1>0, <2>2, WorksFacts, Submitted
    <3>2. Before(wq, Adv, Pair) => Contains(wq, Adv)
      BY <1>0, BeforeOrder
    <3> QED BY <1>0, <1>12, <3>1, <3>2 DEF OpenInv, Releasing
  <2> QED BY <1>12, <2>1, <2>2
<1>13. CASE Remote
  BY <1>13, <1>12 DEF Remote, Connect, Bond, Disconnect, ConnectFails, HostStep, OthersRun
<1>14. CASE Callbacks
  BY <1>14, <1>12 DEF Callbacks, OnConnected, OnConnectFailed, OnDisconnected, Callback,
     HostStep, OthersRun
<1>15. CASE DclkInit
  BY <1>15, <1>12 DEF DclkInit, OthersRun
<1>16. CASE Edge
  <2>0. /\ UNCHANGED <<evt, at, adv, cut_short>>
        /\ \/ UNCHANGED <<val, wq>> /\ (0 \in PairTrigger => pin' # 0)
           \/ wq' = Submit(wq, Button) /\ val' = pin'
    BY <1>16 DEF Edge
  <2>1. CASE UNCHANGED <<val, wq>> /\ (0 \in PairTrigger => pin' # 0)
    BY <2>0, <2>1 DEF OpenInv, Releasing
  <2>2. CASE wq' = Submit(wq, Button) /\ val' = pin'
    <3>1. /\ \A x : Contains(wq', x) <=> Contains(wq, x) \/ x = Button
          /\ \A x, y : Before(wq', x, y)
                <=> \/ Before(wq, x, y)
                    \/ y = Button /\ ~Contains(wq, Button) /\ Contains(wq, x)
      BY <1>0, <2>2, WorksFacts, Submitted
    <3> QED BY <1>0, <2>0, <2>2, <3>1 DEF OpenInv, Releasing
  <2> QED BY <2>0, <2>1, <2>2
<1>17. CASE Restart
  <2>1. \A x, y : ~Contains(wq', x) /\ ~Before(wq', x, y)
    BY <1>17, EmptyQueue DEF Restart
  <2> QED BY <1>17, <2>1 DEF Restart, OpenInv
<1>18. CASE UNCHANGED vars
  BY <1>18 DEF vars, OpenInv, Releasing
<1> QED BY <1>1, <1>2, <1>3, <1>4, <1>5, <1>6, <1>7, <1>8, <1>9, <1>10, <1>11, <1>13,
       <1>14, <1>15, <1>16, <1>17, <1>18 DEF Next, Queue, PairStop, AdvStop

LEMMA SpecOpen == Spec => []OpenInv
BY SpecType, InitOpen, NextOpen, PTL DEF Spec

-----------------------------------------------------------------------------
(* The count of connections *)

Events == {"connected", "failed", "disconnected"}

\* Where event e is among the first k callbacks of s, and how often.
Places(s, k, e) == {i \in 1..k : s[i] = e}
Occurs(s, k, e) == Cardinality(Places(s, k, e))

\* One if x is the event e.
Is(x, e) == IF x = e THEN 1 ELSE 0

LEMMA IsValues ==
    ASSUME NEW x, NEW e
    PROVE  Is(x, e) \in {0, 1} /\ (x = e => Is(x, e) = 1) /\ (x # e => Is(x, e) = 0)
BY DEF Is

\* Counting in a uint8_t, as long as it does not wrap.
LEMMA CountsByOne ==
    ASSUME NEW n \in 0..255
    PROVE  /\ n < 255 => (n + 1) % 256 = n + 1
           /\ n > 0 => (n + 255) % 256 = n - 1
OBVIOUS

LEMMA PlacesFinite ==
    ASSUME NEW s, NEW k \in Nat, NEW e
    PROVE  IsFiniteSet(Places(s, k, e)) /\ Occurs(s, k, e) \in Nat
<1>1. IsFiniteSet(1..k)
  BY FS_Interval
<1>2. Places(s, k, e) \in SUBSET (1..k)
  BY DEF Places
<1> QED BY <1>1, <1>2, FS_Subset, FS_CardinalityType DEF Occurs

\* No callbacks, none of any kind; one more, one more of its kind.
LEMMA OccursStep ==
    ASSUME NEW s, NEW e
    PROVE  /\ Occurs(s, 0, e) = 0
           /\ \A k \in Nat : Occurs(s, k + 1, e)
                = Occurs(s, k, e) + Is(s[k + 1], e)
<1>1. Places(s, 0, e) = {}
  BY DEF Places
<1>2. ASSUME NEW k \in Nat
      PROVE  Occurs(s, k + 1, e) = Occurs(s, k, e) + Is(s[k + 1], e)
  <2>1. IsFiniteSet(Places(s, k, e)) /\ Occurs(s, k, e) \in Nat
    BY PlacesFinite
  <2>2. k + 1 \notin Places(s, k, e)
    BY DEF Places
  <2>3. CASE s[k + 1] = e
    <3>1. Places(s, k + 1, e) = Places(s, k, e) \cup {k + 1}
      BY <2>3 DEF Places
    <3> QED BY <2>1, <2>2, <2>3, <3>1, FS_AddElement DEF Occurs, Is
  <2>4. CASE s[k + 1] # e
    <3>1. Places(s, k + 1, e) = Places(s, k, e)
      BY <2>4 DEF Places
    <3> QED BY <2>1, <2>4, <3>1 DEF Occurs, Is
  <2> QED BY <2>3, <2>4
<1> QED BY <1>1, <1>2, FS_EmptySet DEF Occurs

\* A callback that is appended comes after all others.
LEMMA OccursAppend ==
    ASSUME NEW s \in Seq(Events), NEW x \in Events, NEW e
    PROVE  /\ \A k \in 0..Len(s) : Occurs(Append(s, x), k, e) = Occurs(s, k, e)
           /\ Len(Append(s, x)) = Len(s) + 1 /\ Len(s) \in Nat
           /\ Occurs(Append(s, x), Len(s) + 1, e)
                = Occurs(s, Len(s), e) + Is(x, e)
<1>1. /\ Len(Append(s, x)) = Len(s) + 1 /\ Len(s) \in Nat
      /\ Append(s, x)[Len(s) + 1] = x
      /\ \A i \in 1..Len(s) : Append(s, x)[i] = s[i]
  OBVIOUS
<1>2. ASSUME NEW k \in 0..Len(s)
      PROVE  Places(Append(s, x), k, e) = Places(s, k, e)
  BY <1>1 DEF Places
<1>3. \A k \in 0..Len(s) : Occurs(Append(s, x), k, e) = Occurs(s, k, e)
  BY <1>2 DEF Occurs
<1>4. Occurs(Append(s, x), Len(s) + 1, e)
        = Occurs(Append(s, x), Len(s), e) + Is(Append(s, x)[Len(s) + 1], e)
  BY <1>1, OccursStep
<1> QED BY <1>1, <1>3, <1>4

\* When the first callback has been made the others have moved up by one.
LEMMA OccursTail ==
    ASSUME NEW s \in Seq(Events), s # <<>>, NEW e
    PROVE  /\ Len(Tail(s)) = Len(s) - 1 /\ Len(s) \in Nat \ {0}
           /\ \A k \in 0..Len(Tail(s)) : Occurs(s, k + 1, e)
                = Occurs(Tail(s), k, e) + Is(Head(s), e)
<1>1. /\ Len(Tail(s)) = Len(s) - 1 /\ Len(s) \in Nat \ {0} /\ Head(s) = s[1]
      /\ \A i \in 1..Len(Tail(s)) : Tail(s)[i] = s[i + 1]
  OBVIOUS
<1>2. ASSUME NEW k \in 0..Len(Tail(s))
      PROVE  Occurs(s, k + 1, e) = Occurs(Tail(s), k, e) + Is(Head(s), e)
  <2> DEFINE T == Places(Tail(s), k, e)
             R == Places(s, k + 1, e) \ {1}
             f == [i \in T |-> i + 1]
  <2>1. k \in Nat /\ IsFiniteSet(T) /\ IsFiniteSet(Places(s, k + 1, e))
        /\ Cardinality(T) \in Nat /\ Cardinality(Places(s, k + 1, e)) \in Nat
    BY <1>1, PlacesFinite DEF Occurs
  <2>2. \A i \in T : i \in 1..k /\ i + 1 \in R
    BY <1>1, <2>1 DEF Places
  <2>3. \A j \in R : j - 1 \in T /\ (j - 1) + 1 = j
    BY <1>1, <2>1 DEF Places
  <2>4. f \in Bijection(T, R)
    <3>1. f \in [T -> R]
      BY <2>2
    <3>2. \A a, b \in T : f[a] = f[b] => a = b
      BY <2>2
    <3>3. \A j \in R : \E i \in T : f[i] = j
      BY <2>3
    <3> HIDE DEF f, T, R
    <3> QED BY <3>1, <3>2, <3>3, Fun_IsBij
  <2>5. Cardinality(R) = Cardinality(T)
    BY <2>1, <2>4, FS_Bijection DEF ExistsBijection
  <2>6. 1 \in Places(s, k + 1, e) <=> Head(s) = e
    BY <1>1, <2>1 DEF Places
  <2>7. Cardinality(R) = IF 1 \in Places(s, k + 1, e)
                           THEN Cardinality(Places(s, k + 1, e)) - 1
                           ELSE Cardinality(Places(s, k + 1, e))
    BY <2>1, FS_RemoveElement
  <2> QED BY <2>1, <2>5, <2>6, <2>7 DEF Occurs, Is
<1> QED BY <1>1, <1>2

\* num_conn is right but for the callbacks to come, and no order in which they
\* come takes it below zero: a link is counted before its end is.
CountInv ==
    /\ NumConnCounts
    /\ Cardinality(links) + Count("disconnected") <= MaxConn
    /\ \A k \in 0..Len(pending) : Occurs(pending, k, "disconnected")
                                    <= num_conn + Occurs(pending, k, "connected")

\* Count in the terms of the lemmas.
LEMMA CountIs ==
    ASSUME NEW e, TypeOK
    PROVE  /\ Count(e) = Occurs(pending, Len(pending), e)
           /\ Len(pending) \in Nat /\ Count(e) \in Nat
<1>1. DOMAIN pending = 1..Len(pending) /\ Len(pending) \in Nat
  BY DEF TypeOK
<1>2. Count(e) = Occurs(pending, Len(pending), e)
  BY <1>1 DEF Count, Occurs, Places
<1> QED BY <1>1, <1>2, PlacesFinite

LEMMA InitCount == Init => CountInv
<1> SUFFICES ASSUME Init PROVE CountInv
  OBVIOUS
<1>1. TypeOK
  BY InitType DEF TypeInv
<1>2. Len(pending) = 0 /\ num_conn = 0 /\ Cardinality(links) = 0
  BY FS_EmptySet DEF Init
<1>3. \A e : Occurs(pending, 0, e) = 0
  BY OccursStep
<1>4. Count("connected") = 0 /\ Count("disconnected") = 0
  BY <1>1, <1>2, <1>3, CountIs
<1> QED BY <1>2, <1>3, <1>4 DEF CountInv, NumConnCounts

\* A step that appends a callback and changes the links with it.
LEMMA AppendCount ==
    ASSUME TypeOK, TypeOK', CountInv, UNCHANGED num_conn, NEW x \in Events,
           pending' = Append(pending, x),
           Cardinality(links') = Cardinality(links)
               + Is(x, "connected") - Is(x, "disconnected"),
           Cardinality(links') + Count("disconnected")
               + Is(x, "disconnected") <= MaxConn
    PROVE  CountInv'
<1> DEFINE n == Len(pending)
<1>1. pending \in Seq(Events) /\ n \in Nat /\ num_conn \in Nat /\ num_conn' = num_conn
      /\ Cardinality(links) \in Nat /\ Cardinality(links') \in Nat
  BY PeerSets DEF TypeOK, Events
<1>2. ASSUME NEW e
      PROVE  /\ \A k \in 0..n : Occurs(pending', k, e) = Occurs(pending, k, e)
             /\ Len(pending') = n + 1
             /\ Occurs(pending', n + 1, e)
                  = Occurs(pending, n, e) + Is(x, e)
  BY <1>1, OccursAppend
<1>3. ASSUME NEW e
      PROVE  /\ Count(e) = Occurs(pending, n, e) /\ Count(e) \in Nat
             /\ Count(e)' = Count(e) + Is(x, e)
  <2>1. DOMAIN pending' = 1..(n + 1)
    BY <1>1, <1>2 DEF TypeOK
  <2>2. Count(e)' = Occurs(pending', n + 1, e)
    BY <2>1 DEF Count, Occurs, Places
  <2> QED BY <1>2, <2>2, CountIs
<1>4. /\ Count("connected") \in Nat /\ Count("disconnected") \in Nat
      /\ Count("connected")' = Count("connected") + Is(x, "connected")
      /\ Count("disconnected")' = Count("disconnected") + Is(x, "disconnected")
  BY <1>3
<1>5. /\ num_conn + Count("connected") = Cardinality(links) + Count("disconnected")
      /\ Cardinality(links') + Count("disconnected") + Is(x, "disconnected") <= MaxConn
      /\ Cardinality(links') = Cardinality(links)
               + Is(x, "connected") - Is(x, "disconnected")
  BY DEF CountInv, NumConnCounts
<1>6. /\ num_conn' + Count("connected")' = Cardinality(links') + Count("disconnected")'
      /\ Cardinality(links') + Count("disconnected")' <= MaxConn
  <2>1. Is(x, "connected") \in {0, 1} /\ Is(x, "disconnected") \in {0, 1} /\ MaxConn \in Nat
    BY ONLY IsValues, ServiceAssumption
  <2>2. num_conn' + Count("connected")' = Cardinality(links') + Count("disconnected")'
    BY ONLY <1>1, <1>4, <1>5, <2>1
  <2>3. Cardinality(links') + Count("disconnected")' <= MaxConn
    BY ONLY <1>1, <1>4, <1>5, <2>1
  <2> QED BY <2>2, <2>3
<1>7. ASSUME NEW k \in 0..Len(pending')
      PROVE  Occurs(pending', k, "disconnected") <= num_conn' + Occurs(pending', k, "connected")
  <2>1. CASE k \in 0..n
    BY <1>1, <1>2, <2>1 DEF CountInv
  <2>2. CASE k = n + 1
    <3>1. /\ Occurs(pending', k, "connected") = Count("connected")'
          /\ Occurs(pending', k, "disconnected") = Count("disconnected")'
      BY <1>2, <1>3, <2>2
    <3> QED BY ONLY <1>1, <1>4, <1>6, <3>1, IsValues
  <2> QED BY <1>1, <1>2, <2>1, <2>2
<1> QED BY <1>6, <1>7 DEF CountInv, NumConnCounts

\* A callback is made, and counts up or down as it should.
LEMMA TailCount ==
    ASSUME TypeOK, CountInv, pending # <<>>, pending' = Tail(pending), UNCHANGED links,
           num_conn' = CASE Head(pending) = "connected"    -> (num_conn + 1) % 256
                         [] Head(pending) = "disconnected" -> (num_conn + 255) % 256
                         [] Head(pending) = "failed"       -> num_conn
    PROVE  CountInv'
<1> DEFINE n == Len(pending')
           h == Head(pending)
<1>1. pending \in Seq(Events) /\ pending' \in Seq(Events) /\ h \in Events
      /\ num_conn \in 0..255 /\ Cardinality(links) \in Nat
  BY PeerSets DEF TypeOK, Events
<1>2. ASSUME NEW e
      PROVE  /\ n \in Nat /\ Len(pending) = n + 1
             /\ \A k \in 0..n : /\ Occurs(pending', k, e) \in Nat
                                /\ Occurs(pending, k + 1, e)
                                     = Occurs(pending', k, e) + Is(h, e)
             /\ Occurs(pending', 0, e) = 0
  BY <1>1, OccursTail, OccursStep, PlacesFinite
<1>3. ASSUME NEW e
      PROVE  Count(e)' \in Nat /\ Count(e) = Count(e)' + Is(h, e)
  <2>1. DOMAIN pending' = 1..n
    BY <1>1
  <2>2. Count(e)' = Occurs(pending', n, e)
    BY <2>1 DEF Count, Occurs, Places
  <2>3. Count(e) = Occurs(pending, n + 1, e)
    BY <1>2, CountIs
  <2> QED BY <1>2, <2>2, <2>3, IsValues
<1>4. /\ Count("connected")' \in Nat /\ Count("disconnected")' \in Nat
      /\ Count("connected") = Count("connected")' + Is(h, "connected")
      /\ Count("disconnected") = Count("disconnected")' + Is(h, "disconnected")
  BY <1>3
<1>5. /\ num_conn + Count("connected") = Cardinality(links) + Count("disconnected")
      /\ Cardinality(links) + Count("disconnected") <= MaxConn
  BY DEF CountInv, NumConnCounts
<1>6. \A k \in 0..n : Occurs(pending, k + 1, "disconnected")
                        <= num_conn + Occurs(pending, k + 1, "connected")
  BY <1>2 DEF CountInv
<1>7. num_conn' = num_conn + Is(h, "connected") - Is(h, "disconnected")
  <2>1. CASE h = "connected"
    \* The links, and so the count with this one, are at most 255.
    <3>1. num_conn + 1 <= 255
      BY ONLY <1>1, <1>4, <1>5, <2>1, IsValues, ServiceAssumption
    <3>2. num_conn' = (num_conn + 1) % 256
      BY <2>1
    <3> HIDE DEF h
    <3> QED BY ONLY <1>1, <2>1, <3>1, <3>2, CountsByOne, IsValues
  <2>2. CASE h = "disconnected"
    \* The first callback to come cannot be one too many.
    <3>1. Occurs(pending, 0 + 1, "disconnected") <= num_conn + Occurs(pending, 0 + 1, "connected")
      BY <1>2, <1>6
    <3>2. Occurs(pending, 0 + 1, "disconnected") = 1 /\ Occurs(pending, 0 + 1, "connected") = 0
      BY ONLY <1>2, <2>2, IsValues
    <3>3. num_conn >= 1
      BY ONLY <1>1, <3>1, <3>2
    <3>4. num_conn' = (num_conn + 255) % 256
      BY <2>2
    <3>5. num_conn' = num_conn - 1
      BY ONLY <1>1, <3>3, <3>4, CountsByOne
    <3> HIDE DEF h
    <3> QED BY ONLY <1>1, <2>2, <3>5, IsValues
  <2>3. CASE h = "failed"
    <3>1. num_conn' = num_conn
      BY <2>3
    <3> QED BY ONLY <1>1, <2>3, <3>1, IsValues
  <2> QED BY <1>1, <2>1, <2>2, <2>3 DEF Events
<1>8. /\ num_conn' + Count("connected")' = Cardinality(links) + Count("disconnected")'
      /\ Cardinality(links) + Count("disconnected")' <= MaxConn
  <2> HIDE DEF h
  <2>1. Is(h, "connected") \in {0, 1} /\ Is(h, "disconnected") \in {0, 1} /\ MaxConn \in Nat
    BY ONLY IsValues, ServiceAssumption
  <2>2. num_conn' + Count("connected")' = Cardinality(links) + Count("disconnected")'
    BY ONLY <1>1, <1>4, <1>5, <1>7, <2>1
  <2>3. Cardinality(links) + Count("disconnected")' <= MaxConn
    BY ONLY <1>1, <1>4, <1>5, <2>1
  <2> QED BY <2>2, <2>3
<1>9. ASSUME NEW k \in 0..n
      PROVE  Occurs(pending', k, "disconnected") <= num_conn' + Occurs(pending', k, "connected")
  <2>1. /\ Occurs(pending', k, "disconnected") \in Nat /\ Occurs(pending', k, "connected") \in Nat
        /\ Occurs(pending, k + 1, "disconnected")
             = Occurs(pending', k, "disconnected") + Is(h, "disconnected")
        /\ Occurs(pending, k + 1, "connected")
             = Occurs(pending', k, "connected") + Is(h, "connected")
    BY <1>2
  <2>2. Occurs(pending, k + 1, "disconnected") <= num_conn + Occurs(pending, k + 1, "connected")
    BY <1>6
  <2> HIDE DEF h
  <2> QED BY ONLY <1>1, <1>7, <2>1, <2>2, IsValues
<1> QED BY <1>8, <1>9 DEF CountInv, NumConnCounts

LEMMA NextCount == TypeInv /\ TypeInv' /\ CountInv /\ [Next]_vars => CountInv'
<1> SUFFICES ASSUME TypeInv, TypeInv', CountInv, [Next]_vars PROVE CountInv'
  OBVIOUS
<1>0. TypeOK /\ TypeOK' /\ links \in SUBSET Peers
  BY DEF TypeInv, TypeOK
<1> USE DEF buttonVars, hostVars, listVars, statusVars, advVars, bootVars
<1>1. ASSUME UNCHANGED <<links, pending, num_conn>> PROVE CountInv'
  BY <1>1 DEF CountInv, NumConnCounts, Count
<1>2. CASE Queue
  <2>1. UNCHANGED <<links, pending, num_conn>>
    BY <1>2 DEF Queue, Dispatch, Handle, DclkPairing, PairStop, AdvStop, Stop,
       PairUnpair, PairStart, AdvStart, StartsAs, AdvClear, AdvFill, AdvFilled
  <2> QED BY <2>1, <1>1
<1>3. ASSUME NEW p \in Peers, Connect(p) PROVE CountInv'
  <2>1. /\ pending' = Append(pending, "connected") /\ UNCHANGED num_conn
        /\ links' = links \cup {p} /\ p \notin links
        /\ Cardinality(links) + Count("disconnected") < MaxConn
    BY <1>3 DEF Connect, Advertising, SlotFree
  <2>2. Cardinality(links') = Cardinality(links) + 1 /\ Cardinality(links) \in Nat
    BY <1>0, <2>1, PeerSets, PeerCount
  <2>3. Count("disconnected") \in Nat
    BY <1>0, CountIs
  <2> QED BY <1>0, <2>1, <2>2, <2>3, AppendCount DEF Events, Is
<1>4. ASSUME NEW p \in Peers, Disconnect(p) PROVE CountInv'
  <2>1. /\ pending' = Append(pending, "disconnected") /\ UNCHANGED num_conn
        /\ links' = links \ {p} /\ p \in links
    BY <1>4 DEF Disconnect
  <2>2. Cardinality(links') = Cardinality(links) - 1 /\ Cardinality(links) \in Nat
    BY <1>0, <2>1, PeerSets, PeerCount
  <2>3. Count("disconnected") \in Nat
        /\ Cardinality(links) + Count("disconnected") <= MaxConn
    BY <1>0, CountIs DEF CountInv
  <2> QED BY <1>0, <2>1, <2>2, <2>3, AppendCount DEF Events, Is
<1>5. CASE ConnectFails
  <2>1. /\ pending = <<>> /\ pending' = <<"failed">>
        /\ UNCHANGED <<links, num_conn>>
    BY <1>5 DEF ConnectFails
  <2>2. pending' = Append(pending, "failed")
    BY <2>1
  <2>3. Cardinality(links) \in Nat /\ Count("disconnected") \in Nat
    BY <1>0, PeerSets, CountIs
  <2> QED BY <1>0, <2>1, <2>2, <2>3, AppendCount DEF Events, Is, CountInv
<1>6. ASSUME NEW p \in Peers, Bond(p) PROVE CountInv'
  BY <1>1, <1>6 DEF Bond
<1>7. CASE Callbacks
  BY <1>0, <1>7, TailCount DEF Callbacks, OnConnected, OnConnectFailed, OnDisconnected,
     Callback
<1>8. CASE DclkInit \/ Edge
  BY <1>1, <1>8 DEF DclkInit, Edge
<1>9. CASE Restart
  <2>1. Len(pending') = 0 /\ num_conn' = 0 /\ Cardinality(links') = 0
    BY <1>9, FS_EmptySet DEF Restart
  <2>2. \A e : Occurs(pending', 0, e) = 0
    BY OccursStep
  <2>3. Count("connected")' = 0 /\ Count("disconnected")' = 0
    <3>1. DOMAIN pending' = 1..0
      BY <1>9 DEF Restart
    <3> QED BY <2>2, <3>1 DEF Count, Occurs, Places
  <2> QED BY <2>1, <2>2, <2>3 DEF CountInv, NumConnCounts
<1>10. CASE UNCHANGED vars
  BY <1>1, <1>10 DEF vars
<1> QED BY <1>2, <1>3, <1>4, <1>5, <1>6, <1>7, <1>8, <1>9, <1>10 DEF Next, Remote

LEMMA SpecCount == Spec => []CountInv
BY SpecType, InitCount, NextCount, PTL DEF Spec

-----------------------------------------------------------------------------
(* Ready to reconnect *)

\* What advertise_DCLK sets up.
SetUp == IF bonds = {} THEN adv = "off" ELSE adv = "filtered" /\ accept_list = bonds

Ending == \E i \in 1..Len(pending) : pending[i] = "disconnected"

\* The accept list gets there: it has the bonds already visited, and bond_cnt
\* says whether there are any.
OnTheWay ==
    \/ at \in {"adv_stop", "adv_clear"}
    \/ /\ at = "adv_fill"
       /\ accept_list = bonds \ todo
       /\ bond_cnt >= 0 /\ (bond_cnt = 0 => accept_list = {})
    \/ at = "adv_start" /\ accept_list = bonds
    \/ at \in {"idle", "handle", "pair_enable"} /\ SetUp

\* pair_DCLK is going to open the service, or has.
Opening == \/ Contains(wq, Pair) \/ at \in {"pair_stop", "pair_unpair", "pair_start"}
           \/ at \in {"idle", "handle", "pair_enable"} /\ adv = "open"

\* No error has kept advertising from being set up, or this set-up can still
\* make up for it.
Unharmed == \/ ~cut_short
            \/ at \in {"adv_fill", "adv_start"} /\ adv = "off" /\ bond_cnt >= 0

\* With pairing off, advertise_DCLK is behind whatever opens the service; and
\* without a link, which alone can get a new bond, what is set up is right, or
\* advertise_DCLK is going to run: submitted, or to be by a callback; or, with
\* pairing on, the service is opened.
ReadyInv ==
    /\ ~pair_en /\ Contains(wq, Pair) => Before(wq, Pair, Adv)
    /\ ~pair_en /\ ((adv = "open" /\ ~cut_short) \/ at \in {"pair_stop", "pair_unpair", "pair_start"})
         => Contains(wq, Adv) \/ at = "adv_stop"
    /\ ready /\ links = {} /\ Unharmed
         => Contains(wq, Adv) \/ Ending \/ OnTheWay \/ (pair_en /\ Opening)

LEMMA InitReady == Init => ReadyInv
<1> SUFFICES ASSUME Init PROVE ReadyInv
  OBVIOUS
<1>1. \A x : ~Contains(wq, x)
  BY EmptyQueue DEF Init
<1> QED BY <1>1 DEF Init, ReadyInv

\* A callback more does not hide that a link is ending.
LEMMA EndingAppend ==
    ASSUME TypeOK, NEW e \in Events, pending' = Append(pending, e)
    PROVE  /\ Ending => Ending'
           /\ e = "disconnected" => Ending'
<1>1. /\ Len(pending) \in Nat /\ Len(pending') = Len(pending) + 1
      /\ pending'[Len(pending) + 1] = e
      /\ \A i \in 1..Len(pending) : pending'[i] = pending[i]
  BY DEF TypeOK, Events
<1>2. ASSUME NEW i \in 1..Len(pending), pending[i] = "disconnected"
      PROVE  \E j \in 1..Len(pending') : pending'[j] = "disconnected"
  BY <1>1, <1>2
<1>3. ASSUME e = "disconnected"
      PROVE  \E j \in 1..Len(pending') : pending'[j] = "disconnected"
  BY <1>1, <1>3
<1> QED BY <1>2, <1>3 DEF Ending

\* Nor does making another callback.
LEMMA EndingTail ==
    ASSUME TypeOK, pending # <<>>, pending' = Tail(pending), Head(pending) # "disconnected"
    PROVE  Ending => Ending'
<1>1. /\ Len(pending) \in Nat \ {0} /\ Len(pending') = Len(pending) - 1
      /\ Head(pending) = pending[1]
      /\ \A i \in 1..Len(pending') : pending'[i] = pending[i + 1]
  BY DEF TypeOK
<1>2. ASSUME NEW i \in 1..Len(pending), pending[i] = "disconnected"
      PROVE  \E j \in 1..Len(pending') : pending'[j] = "disconnected"
  <2>1. i - 1 \in 1..Len(pending') /\ pending[(i - 1) + 1] = "disconnected"
    BY <1>1, <1>2
  <2> QED BY <1>1, <2>1
<1> QED BY <1>2 DEF Ending

LEMMA NextReady == TypeInv /\ AdvInv /\ OpenInv /\ ReadyInv /\ [Next]_vars => ReadyInv'
<1> SUFFICES ASSUME TypeInv, AdvInv, OpenInv, ReadyInv, [Next]_vars PROVE ReadyInv'
  OBVIOUS
<1>0. /\ TypeOK /\ wq \in Seq(Works) /\ Distinct(wq)
      /\ Adv # Pair /\ Adv # Button /\ Pair # Button
  BY WorksFacts DEF TypeInv, TypeOK
<1> USE DEF buttonVars, hostVars, listVars, statusVars, advVars, bootVars, Unharmed
<1>1. CASE Dispatch
  <2>1. /\ wq # <<>> /\ wq' = Tail(wq) /\ at = "idle"
        /\ UNCHANGED <<ready, adv, cut_short, accept_list, bonds, links, pending, pair_en>>
    BY <1>1 DEF Dispatch
  <2>2. /\ Head(wq) \in Works
        /\ \A x : Contains(wq', x) <=> Contains(wq, x) /\ x # Head(wq)
        /\ \A x, y : Before(wq', x, y) <=> Before(wq, x, y) /\ x # Head(wq)
        /\ \A y : Contains(wq, y) /\ y # Head(wq) => Before(wq, Head(wq), y)
    BY <1>0, <2>1, Taken
  <2>3. Contains(wq, Head(wq))
    BY <1>0, <2>1, Taken
  <2>4. /\ Before(wq, Pair, Adv) => Contains(wq, Adv)
        /\ ~(Before(wq, Pair, Adv) /\ Before(wq, Adv, Pair))
    BY <1>0, BeforeOrder
  <2>5. Ending' = Ending
    BY <2>1 DEF Ending
  <2>6. CASE Head(wq) = Adv
    <3>1. at' = "adv_stop"
      BY <1>0, <1>1, <2>6 DEF Dispatch
    <3>2. OnTheWay'
      BY <3>1 DEF OnTheWay
    <3> QED BY <1>0, <2>1, <2>2, <2>4, <2>6, <3>1, <3>2 DEF ReadyInv
  <2>7. CASE Head(wq) = Pair
    <3>1. at' = "pair_stop"
      BY <1>0, <1>1, <2>7 DEF Dispatch
    <3>2. ~pair_en => Contains(wq', Adv)
      BY <1>0, <2>2, <2>3, <2>4, <2>7 DEF ReadyInv, Opening
    <3> QED BY <1>0, <2>1, <2>2, <2>7, <3>1, <3>2 DEF ReadyInv, Opening
  <2>8. CASE Head(wq) = Button
    <3>1. at' = "handle"
      BY <1>0, <1>1, <2>8 DEF Dispatch
    <3>2. OnTheWay => OnTheWay'
      BY <2>1, <3>1 DEF OnTheWay, SetUp
    <3> QED BY <1>0, <2>1, <2>2, <2>5, <2>8, <3>1, <3>2 DEF ReadyInv, Opening
  <2> QED BY <2>2, <2>6, <2>7, <2>8 DEF Works
<1>2. CASE Handle
  BY <1>2 DEF Handle, ReadyInv, Opening, Ending, OnTheWay, SetUp
<1>3. CASE DclkPairing
  <2>1. /\ at = "pair_enable" /\ pair_en' = (evt = 1)
        /\ wq' = Submit(wq, IF evt = 1 THEN Pair ELSE Adv)
    BY <1>3 DEF DclkPairing
  <2>2. CASE evt = 1
    <3>1. Contains(wq', Pair) /\ pair_en'
      BY <1>0, <2>1, <2>2, WorksFacts, Submitted
    <3> QED BY <3>1 DEF ReadyInv, Opening
  <2>3. CASE evt # 1
    <3>1. wq' = Submit(wq, Adv)
      BY <2>1, <2>3
    <3>2. /\ \A x : Contains(wq', x) <=> Contains(wq, x) \/ x = Adv
          /\ \A x, y : Before(wq', x, y)
                <=> \/ Before(wq, x, y)
                    \/ y = Adv /\ ~Contains(wq, Adv) /\ Contains(wq, x)
      BY <1>0, <3>1, WorksFacts, Submitted
    <3>3. Contains(wq', Pair) => Before(wq', Pair, Adv)
      BY <1>0, <2>1, <3>2, BeforeOrder DEF OpenInv
    <3> QED BY <3>2, <3>3 DEF ReadyInv
  <2> QED BY <2>2, <2>3
<1>4. CASE Stop("pair_stop", "pair_unpair")
  BY <1>4 DEF Stop, ReadyInv, Opening
<1>5. CASE Stop("adv_stop", "adv_clear")
  <2>1. OnTheWay'
    BY <1>5 DEF Stop, OnTheWay
  <2> QED BY <1>5, <2>1 DEF Stop, ReadyInv
<1>6. CASE PairUnpair
  BY <1>6 DEF PairUnpair, ReadyInv, Opening
<1>7. CASE PairStart
  BY <1>7 DEF PairStart, StartsAs, ReadyInv, Opening
<1>8. CASE AdvClear
  <2>1. /\ at = "adv_clear" /\ UNCHANGED <<wq, ready, adv, bonds, links, pending, pair_en>>
    BY <1>8 DEF AdvClear
  <2>2. CASE cut_short' /\ at' = "idle"
    BY <2>1, <2>2 DEF ReadyInv, Opening
  <2>3. CASE /\ at' = "adv_fill" /\ todo' = Peers /\ bond_cnt' = 0
             /\ accept_list' = {} /\ cut_short' = cut_short
    <3>1. accept_list' = bonds' \ todo'
      BY <1>0, <2>1, <2>3 DEF TypeOK
    <3>2. OnTheWay'
      BY <2>3, <3>1 DEF OnTheWay
    <3>3. ~cut_short' => ~cut_short
      BY <2>3
    <3> QED BY <2>1, <2>3, <3>2, <3>3 DEF ReadyInv
  <2> QED BY <1>8, <2>2, <2>3 DEF AdvClear
<1>9. ASSUME NEW p \in Peers, AdvFill(p) PROVE ReadyInv'
  <2>1. /\ at = "adv_fill" /\ p \in todo /\ todo' = todo \ {p}
        /\ UNCHANGED <<wq, at, ready, adv, bonds, links, pending, pair_en>>
    BY <1>9 DEF AdvFill
  <2>2. Ending' = Ending
    BY <2>1 DEF Ending
  <2>3. bond_cnt \in Int
    BY <1>0, FS_CardinalityType DEF TypeOK
  <2>4. Unharmed' /\ OnTheWay => OnTheWay'
    BY <1>9, <2>1, <2>3 DEF AdvFill, OnTheWay
  <2>5. /\ Unharmed' => Unharmed
        /\ ~cut_short' => ~cut_short
    BY <1>9, <2>1, <2>3 DEF AdvFill
  <2> QED BY <2>1, <2>2, <2>4, <2>5 DEF ReadyInv, Opening
<1>10. CASE AdvFilled
  <2>1. /\ at = "adv_fill" /\ todo = {}
        /\ at' = IF bond_cnt > 0 THEN "adv_start" ELSE "idle"
        /\ UNCHANGED <<wq, ready, adv, cut_short, accept_list, bonds, links, pending, pair_en>>
    BY <1>10 DEF AdvFilled
  <2>2. Ending' = Ending
    BY <2>1 DEF Ending
  <2>3. /\ adv = "off" \/ cut_short
        /\ bond_cnt \in Int
    BY <1>0, <2>1, FS_CardinalityType DEF AdvInv, TypeOK
  <2>4. Unharmed' => Unharmed /\ (OnTheWay => OnTheWay')
    BY <2>1, <2>3 DEF OnTheWay, SetUp
  <2> QED BY <2>1, <2>2, <2>3, <2>4 DEF ReadyInv, Opening
<1>11. CASE AdvStart
  <2>1. at = "adv_start" /\ UNCHANGED <<wq, ready, accept_list, bonds, links, pending, pair_en>>
    BY <1>11 DEF AdvStart, StartsAs
  <2>2. bonds # {} \/ accept_list # bonds
    BY <1>0, <2>1, FS_CardinalityType DEF AdvInv, TypeOK
  <2>3. /\ at' = "idle" /\ adv' \in {"filtered", adv}
        /\ ~cut_short' => Unharmed /\ adv' = "filtered"
    <3>1. at' = "idle" /\ bond_cnt >= 0
      BY <1>0, <1>11, <2>1, FS_CardinalityType DEF AdvInv, TypeOK, AdvStart, StartsAs
    <3>2. CASE adv = "off" /\ adv' = "filtered"
      BY <2>1, <3>1, <3>2
    <3>3. CASE cut_short' = TRUE /\ adv' = adv
      BY <3>1, <3>3
    <3> QED BY <1>11, <3>2, <3>3 DEF AdvStart, StartsAs
  <2>4. ~cut_short' /\ OnTheWay => OnTheWay'
    BY <2>1, <2>2, <2>3 DEF OnTheWay, SetUp
  <2>5. Ending' = Ending
    BY <2>1 DEF Ending
  <2> QED BY <2>1, <2>3, <2>4, <2>5 DEF ReadyInv, Opening, AdvInv
\* The queue is left alone by the peers' steps.
<1>12. ASSUME NEW p \in Peers, Connect(p) PROVE ReadyInv'
  BY <1>12 DEF Connect, HostStep, ReadyInv, Opening
<1>13. ASSUME NEW p \in Peers, Bond(p) PROVE ReadyInv'
  BY <1>13 DEF Bond, HostStep, ReadyInv, Opening
<1>14. ASSUME NEW p \in Peers, Disconnect(p) PROVE ReadyInv'
  <2>1. Ending'
    BY <1>0, <1>14, EndingAppend DEF Disconnect, Events
  <2> QED BY <1>14, <2>1 DEF Disconnect, HostStep, ReadyInv
<1>15. CASE ConnectFails
  <2>1. ~Ending
    BY <1>15 DEF ConnectFails, Ending
  <2> QED BY <1>15, <2>1 DEF ConnectFails, HostStep, ReadyInv, Opening, OnTheWay, SetUp
\* One more advertise_DCLK.
<1>16. ASSUME wq' = Submit(wq, Adv), UNCHANGED <<at, adv, pair_en>>
       PROVE  ReadyInv'
  <2>1. /\ \A x : Contains(wq', x) <=> Contains(wq, x) \/ x = Adv
        /\ \A x, y : Before(wq', x, y)
              <=> \/ Before(wq, x, y)
                  \/ y = Adv /\ ~Contains(wq, Adv) /\ Contains(wq, x)
    BY <1>0, <1>16, WorksFacts, Submitted
  <2> QED BY <1>0, <1>16, <2>1 DEF ReadyInv
<1>17. CASE OnConnected
  <2>1. Ending => Ending'
    BY <1>0, <1>17, EndingTail DEF OnConnected, Callback
  <2> QED BY <1>17, <2>1 DEF OnConnected, Callback, HostStep, ReadyInv, Opening, OnTheWay, SetUp
<1>18. CASE OnConnectFailed \/ OnDisconnected
  BY <1>16, <1>18 DEF OnConnectFailed, OnDisconnected, Callback, HostStep
<1>19. CASE DclkInit
  <2>1. CASE wq' = Submit(wq, Adv)
    BY <1>16, <1>19, <2>1 DEF DclkInit
  <2>2. CASE wq' = wq /\ cut_short' = TRUE
    <3>1. UNCHANGED <<at, adv, bond_cnt, accept_list, todo, bonds, links, pending, pair_en>>
      BY <1>19 DEF DclkInit
    <3>2. Unharmed' => ready /\ Unharmed
      BY <2>2, <3>1 DEF AdvInv
    <3>3. /\ Ending' = Ending /\ OnTheWay' = OnTheWay /\ Opening' = Opening
          /\ \A x, y : Contains(wq', x) = Contains(wq, x) /\ Before(wq', x, y) = Before(wq, x, y)
      BY <2>2, <3>1 DEF Ending, OnTheWay, SetUp, Opening
    <3> QED BY <2>2, <3>1, <3>2, <3>3 DEF ReadyInv
  <2> QED BY <1>19, <2>1, <2>2 DEF DclkInit
<1>20. CASE Edge
  <2>1. /\ wq' \in {wq, Submit(wq, Button)}
        /\ UNCHANGED <<at, ready, adv, cut_short, todo, bond_cnt, accept_list, bonds, links,
                       pending, pair_en>>
    BY <1>20 DEF Edge
  <2>2. /\ \A x : Contains(wq', x) /\ x # Button <=> Contains(wq, x) /\ x # Button
        /\ \A x, y : y # Button => (Before(wq', x, y) <=> Before(wq, x, y))
    <3>1. CASE wq' = wq
      BY <3>1
    <3>2. CASE wq' = Submit(wq, Button)
      BY <1>0, <3>2, WorksFacts, Submitted
    <3> QED BY <2>1, <3>1, <3>2
  <2>3. Ending' = Ending /\ OnTheWay' = OnTheWay
    BY <2>1 DEF Ending, OnTheWay, SetUp
  <2> QED BY <1>0, <2>1, <2>2, <2>3 DEF ReadyInv, Opening
<1>21. CASE Restart
  <2>1. \A x : ~Contains(wq', x)
    BY <1>21, EmptyQueue DEF Restart
  <2> QED BY <1>21, <2>1 DEF Restart, ReadyInv, Opening
<1>22. CASE UNCHANGED vars
  BY <1>22 DEF vars, ReadyInv, Opening, Ending, OnTheWay, SetUp
<1> QED BY <1>1, <1>2, <1>3, <1>4, <1>5, <1>6, <1>7, <1>8, <1>9, <1>10, <1>11, <1>12,
       <1>13, <1>14, <1>15, <1>17, <1>18, <1>19, <1>20, <1>21, <1>22
    DEF Next, Queue, PairStop, AdvStop, Remote, Callbacks

LEMMA SpecReady == Spec => []ReadyInv
BY SpecType, SpecAdv, SpecOpen, InitReady, NextReady, PTL DEF Spec

-----------------------------------------------------------------------------
(* The theorems *)

\* Every state is well typed.
THEOREM TypeCorrect == Spec => []TypeOK
<1>1. TypeInv => TypeOK
  BY DEF TypeInv
<1> QED BY <1>1, SpecType, PTL

\* num_conn, a uint8_t, is right and never wraps, for up to 255 connections.
THEOREM CountCorrect == Spec => []NumConnCounts
<1>1. CountInv => NumConnCounts
  BY DEF CountInv
<1> QED BY <1>1, SpecCount, PTL

\* Advertising with the filter is for bonds only, and for at least one, unless
\* it could not be stopped.
THEOREM FilterCorrect == Spec => []FilteredIsForBonds
<1>1. AdvInv => FilteredIsForBonds
  BY DEF AdvInv
<1> QED BY <1>1, SpecAdv, PTL

\* A service at rest with its button up is not open, if the release interrupts
\* and unless open advertising could not be stopped.
THEOREM ClosedAtRest == Spec => []NotLeftOpen
<1>1. OpenInv => NotLeftOpen
  BY EmptyQueue DEF OpenInv, Releasing, NotLeftOpen, Settled
<1> QED BY <1>1, SpecOpen, PTL

\* A service at rest, without connections and with pairing off, has set up what
\* lets all bonded displays and no other connect, unless dclk_init failed or an
\* error cut it short.
THEOREM ReconnectReady == Spec => []ReadyToReconnect
<1>1. Settled => ~Contains(wq, Adv) /\ ~Contains(wq, Pair) /\ ~Ending
  BY EmptyQueue DEF Settled, Ending
<1>2. BootInv /\ ReadyInv => ReadyToReconnect
  \* At rest Bluetooth is enabled, or an error has been seen.
  BY <1>1 DEF BootInv, ReadyInv, Unharmed, ReadyToReconnect, Settled, OnTheWay, Opening, SetUp
<1> QED BY <1>2, SpecBoot, SpecReady, PTL

-----------------------------------------------------------------------------
(* The promise of Admission *)

\* The gate is what is asked for; the Bluetooth controller applies the list.
LEMMA GateIs == TypeOK => /\ Gate = "shut" <=> adv = "off"
                          /\ Gate = "open" <=> adv = "open"
                          /\ Gate = "known" <=> adv = "filtered"
BY DEF TypeOK, Gate

Stuck == cut_short /\ adv # "off"

\* The gate stays as it is, is shut, or gets stuck.
LEMMA AdmitStutters ==
    ASSUME UNCHANGED <<bonds, links, leaving>>,
           \/ adv' = adv /\ cut_short' = cut_short
           \/ adv' = adv /\ adv = "off"
           \/ adv' = "off"
           \/ adv' = adv /\ cut_short' /\ MayFail
    PROVE  [Admit!Next]_Admit!vars
<1>1. CASE adv' = adv /\ Stuck' = Stuck
  BY <1>1 DEF Gate, Stuck, Admit!vars
<1>2. CASE adv' = "off"
  <2>1. Gate' = "shut" /\ Stuck' = FALSE
    BY <1>2 DEF Gate, Stuck
  <2> QED BY <2>1 DEF Admit!Next, Admit!Shut, Stuck
<1>3. CASE adv' = adv /\ adv # "off" /\ cut_short' /\ MayFail
  <2>1. Gate # "shut" /\ Gate' = Gate /\ Stuck' = TRUE
    BY <1>3 DEF Gate, Stuck
  <2> QED BY <1>3, <2>1 DEF Admit!Next, Admit!Jam, Stuck
<1>4. CASE adv' = adv /\ (adv = "off" \/ cut_short' = cut_short)
  <2>1. Stuck' = Stuck
    BY <1>4 DEF Stuck
  <2> QED BY <1>1, <1>4, <2>1
<1> QED BY <1>2, <1>3, <1>4

LEMMA AdmitStep ==
    TypeInv /\ BootInv /\ AdvInv /\ [Next]_vars => [Admit!Next]_Admit!vars
<1> SUFFICES ASSUME TypeInv, BootInv, AdvInv, [Next]_vars PROVE [Admit!Next]_Admit!vars
  OBVIOUS
<1>0. TypeOK
  BY DEF TypeInv
<1> USE DEF buttonVars, hostVars, listVars, statusVars, advVars, bootVars
\* The work queue: only three of its steps are seen, and what ends advertising.
<1>1. CASE Dispatch \/ Handle \/ DclkPairing
  BY <1>0, <1>1, AdmitStutters DEF Dispatch, Handle, DclkPairing
<1>2. CASE PairStop \/ AdvStop
  BY <1>0, <1>2, AdmitStutters DEF PairStop, AdvStop, Stop
<1>3. CASE PairUnpair
  <2>1. /\ adv = "off" \/ cut_short
        /\ UNCHANGED <<adv, cut_short, links>>
    BY <1>3 DEF PairUnpair, AdvInv
  <2>2. CASE bonds' = {} /\ leaving' = leaving \cup (links \cap bonds)
    <3>1. (Gate = "shut" \/ Stuck) /\ Gate' = Gate /\ Stuck' = Stuck
      BY <1>0, <2>1, GateIs DEF Gate, Stuck
    <3> QED BY <2>1, <2>2, <3>1 DEF Admit!Next, Admit!Forget, Stuck
  <2>3. CASE UNCHANGED <<bonds, leaving>>
    BY <2>1, <2>3, AdmitStutters
  <2> QED BY <1>3, <2>2, <2>3 DEF PairUnpair
<1>4. CASE PairStart
  <2>1. /\ adv = "off" \/ cut_short
        /\ UNCHANGED <<bonds, links, leaving>>
        /\ \/ adv = "off" /\ adv' = "open" /\ cut_short' = FALSE
           \/ adv' = adv /\ cut_short' = TRUE
    BY <1>4 DEF PairStart, StartsAs, AdvInv
  <2>2. CASE adv = "off" /\ adv' = "open" /\ cut_short' = FALSE
    <3>1. Gate = "shut" /\ Gate' = "open" /\ Stuck' = Stuck
      BY <2>2 DEF Gate, Stuck
    <3> QED BY <2>1, <3>1 DEF Admit!Next, Admit!Open, Stuck
  <2>3. CASE adv' = adv /\ cut_short' = TRUE
    BY <2>1, <2>3, AdmitStutters
  <2> QED BY <2>1, <2>2, <2>3
<1>5. CASE AdvClear \/ AdvFilled
  <2>1. CASE AdvClear
    <3>1. /\ adv = "off" \/ cut_short
          /\ UNCHANGED <<bonds, links, leaving, adv>> /\ cut_short' \in {cut_short, TRUE}
      BY <2>1 DEF AdvClear, AdvInv
    <3> QED BY <3>1, AdmitStutters
  <2>2. CASE AdvFilled
    BY <2>2, AdmitStutters DEF AdvFilled
  <2> QED BY <1>5, <2>1, <2>2
<1>6. ASSUME NEW p \in Peers, AdvFill(p) PROVE [Admit!Next]_Admit!vars
  <2>1. /\ adv = "off" \/ cut_short
        /\ UNCHANGED <<bonds, links, leaving, adv>> /\ cut_short' \in {cut_short, TRUE}
    BY <1>6 DEF AdvFill, AdvInv
  <2> QED BY <2>1, AdmitStutters
<1>7. CASE AdvStart
  <2>1. /\ adv = "off" \/ cut_short
        /\ UNCHANGED <<bonds, links, leaving>>
        /\ \/ adv = "off" /\ adv' = "filtered" /\ cut_short' = FALSE
           \/ adv' = adv /\ cut_short' = TRUE
    BY <1>7 DEF AdvStart, StartsAs, AdvInv
  <2>2. bonds # {}
    BY <1>7 DEF AdvStart, AdvInv
  <2>3. CASE adv = "off" /\ adv' = "filtered" /\ cut_short' = FALSE
    <3>1. Gate = "shut" /\ Gate' = "known" /\ Stuck' = Stuck
      BY <2>3 DEF Gate, Stuck
    <3> QED BY <2>1, <2>2, <3>1 DEF Admit!Next, Admit!Open, Stuck
  <2>4. CASE adv' = adv /\ cut_short' = TRUE
    BY <2>1, <2>4, AdmitStutters
  <2> QED BY <2>1, <2>3, <2>4
\* The peers.
<1>8. ASSUME NEW p \in Peers, Connect(p) PROVE [Admit!Next]_Admit!vars
  <2>1. /\ p \notin links /\ links' = links \cup {p}
        /\ UNCHANGED <<adv, cut_short, bonds, leaving>>
    BY <1>8 DEF Connect, HostStep
  <2>2. Gate = "open" \/ (Gate = "known" /\ (p \in bonds \/ (cut_short /\ adv # "off")))
    BY <1>0, <1>8, GateIs DEF TypeOK, Connect, Advertising, AdvInv, FilteredIsForBonds
  <2>3. Admit!Cardinality(links) < MaxConn
    <3>1. Cardinality(links) \in Nat /\ Count("disconnected") \in Nat
      BY <1>0, PeerSets, CountIs DEF TypeOK, Events
    <3>2. Cardinality(links) < MaxConn
      BY <1>8, <3>1 DEF Connect, Advertising, SlotFree
    <3> QED BY <3>2 DEF Admit!Cardinality, Cardinality
  <2> QED BY <2>1, <2>2, <2>3 DEF Gate, Admit!Next, Admit!Enter
<1>9. ASSUME NEW p \in Peers, Bond(p) \/ Disconnect(p) PROVE [Admit!Next]_Admit!vars
  BY <1>9 DEF Bond, Disconnect, HostStep, Gate, Admit!Next, Admit!Pair, Admit!Leave
<1>10. CASE ConnectFails \/ Callbacks
  BY <1>0, <1>10, AdmitStutters DEF ConnectFails, Callbacks, OnConnected,
     OnConnectFailed, OnDisconnected, Callback, HostStep
<1>11. CASE DclkInit
  <2>1. adv = "off" /\ adv' = adv /\ UNCHANGED <<bonds, links, leaving>>
    BY <1>11 DEF DclkInit, AdvInv, BootInv
  <2> QED BY <2>1, AdmitStutters
<1>12. CASE Edge
  BY <1>12, AdmitStutters DEF Edge
<1>13. CASE Restart
  <2>1. Gate' = "shut" /\ Stuck' = FALSE
    BY <1>13 DEF Restart, Gate, Stuck
  <2> QED BY <1>13, <2>1 DEF Restart, Admit!Next, Admit!Restart, Stuck
<1>14. CASE UNCHANGED vars
  BY <1>14, AdmitStutters DEF vars
<1> QED BY <1>1, <1>2, <1>3, <1>4, <1>5, <1>6, <1>7, <1>8, <1>9, <1>10, <1>11, <1>12,
       <1>13, <1>14 DEF Next, Queue, Remote

\* The service, with its work items, callbacks and accept list, implements
\* Admission; its gate gets stuck where bt_le_adv_stop fails.
THEOREM KeepsAdmission == Spec => AdmissionPromise
<1>1. Init => Admit!Init
  BY DEF Init, Gate, Admit!Init
<1> QED BY <1>1, AdmitStep, SpecType, SpecBoot, SpecAdv, PTL DEF Spec, AdmissionPromise, Admit!Spec
-----------------------------------------------------------------------------
(* Coming to rest *)

LEMMA AheadType ==
    ASSUME TypeOK
    PROVE  /\ Len(pending) \in Nat /\ Len(wq) \in Nat /\ Presses \in Nat
           /\ StepsLeft \in Nat /\ Cardinality(todo) \in Nat /\ Cardinality(Peers) \in Nat
<1>1. Len(pending) \in Nat /\ Len(wq) \in Nat
  BY DEF TypeOK
<1>2. Cardinality(todo) \in Nat /\ Cardinality(Peers) \in Nat
  BY PeerSets DEF TypeOK
<1> QED BY <1>1, <1>2 DEF Presses, StepsLeft

\* Nothing is ahead of a service at rest, and of no other.
LEMMA AheadOfNothing == TypeOK => (Ahead = <<0, 0, 0, 0, 0>> <=> Settled)
<1> SUFFICES ASSUME TypeOK PROVE Ahead = <<0, 0, 0, 0, 0>> <=> Settled
  OBVIOUS
<1>1. Len(pending) = 0 <=> pending = <<>>
  BY DEF TypeOK
<1>2. Len(wq) = 0 <=> wq = <<>>
  BY DEF TypeOK
<1>3. wq = <<>> => ~Contains(wq, Button)
  BY EmptyQueue
<1>4. Presses = 0 /\ StepsLeft = 0 <=> at = "idle" /\ ~Contains(wq, Button)
  BY AheadType DEF Presses, StepsLeft, TypeOK, Labels
<1> QED BY <1>1, <1>2, <1>3, <1>4 DEF Ahead, Settled, TypeOK

LEMMA DispatchFewer ==
    ASSUME TypeOK, Dispatch
    PROVE  /\ Presses' <= Presses /\ Presses' \in Nat /\ Presses \in Nat
           /\ Len(wq') < Len(wq)
<1>1. /\ Head(wq) \in Works
      /\ \A x : Contains(wq', x) <=> Contains(wq, x) /\ x # Head(wq)
      /\ Contains(wq, Head(wq))
  BY Taken DEF Dispatch
<1>2. Len(wq') = Len(wq) - 1 /\ Len(wq) \in Nat
  BY DEF Dispatch, TypeOK
<1>3. at = "idle" /\ (at' = "handle" => Head(wq) = Button)
      /\ at' \in {"handle", "pair_stop", "adv_stop"}
  BY <1>1, WorksFacts DEF Dispatch, Works
<1> QED BY <1>1, <1>2, <1>3 DEF Presses

LEMMA QueueFewer == ASSUME TypeOK, Queue PROVE Fewer(Ahead', Ahead)
<1> USE DEF buttonVars, hostVars, listVars, statusVars, advVars, bootVars
<1>0. /\ started' = started /\ pending' = pending
      /\ (IF started' THEN 0 ELSE 1) = (IF started THEN 0 ELSE 1)
      /\ Len(pending') = Len(pending)
  BY DEF Queue, Dispatch, Handle, DclkPairing, PairStop, AdvStop, Stop, PairUnpair,
     PairStart, AdvStart, StartsAs, AdvClear, AdvFill, AdvFilled
<1>1. \/ Presses' < Presses
      \/ Presses' = Presses /\ Len(wq') < Len(wq)
      \/ Presses' = Presses /\ Len(wq') = Len(wq) /\ StepsLeft' < StepsLeft
  <2>1. CASE Dispatch
    BY <2>1, DispatchFewer
  <2>2. CASE Handle
    BY <2>2 DEF Handle, Presses
  <2>3. CASE DclkPairing
    <3>1. Contains(wq', Button) <=> Contains(wq, Button)
      BY <2>3, Submitted, WorksFacts DEF DclkPairing
    <3> QED BY <2>3, <3>1 DEF DclkPairing, Presses
  <2>4. CASE PairStop \/ AdvStop \/ PairUnpair \/ PairStart \/ AdvStart
    BY <2>4, AheadType DEF PairStop, AdvStop, Stop, PairUnpair, PairStart, AdvStart,
       StartsAs, Presses, StepsLeft
  <2>5. CASE AdvClear
    BY <2>5, AheadType DEF AdvClear, Presses, StepsLeft
  <2>6. CASE AdvFilled
    <3>1. at = "adv_fill" /\ at' \in {"adv_start", "idle"} /\ wq' = wq /\ todo = {}
      BY <2>6 DEF AdvFilled
    <3> QED BY <3>1, AheadType DEF Presses, StepsLeft
  <2>7. ASSUME NEW p \in Peers, AdvFill(p)
        PROVE  Presses' = Presses /\ Len(wq') = Len(wq) /\ StepsLeft' < StepsLeft
    <3>1. at = "adv_fill" /\ UNCHANGED <<at, wq>> /\ todo \subseteq Peers
          /\ p \in todo /\ todo' = todo \ {p}
      BY <2>7 DEF AdvFill, TypeOK
    <3>2. Cardinality(todo') = Cardinality(todo) - 1
      BY <3>1, PeerCount
    <3> QED BY <3>1, <3>2, AheadType DEF Presses, StepsLeft
  <2> QED BY <2>1, <2>2, <2>3, <2>4, <2>5, <2>6, <2>7 DEF Queue
<1> QED BY <1>0, <1>1, FewerAt DEF Ahead

\* dclk_init and the callbacks submit work, but are themselves done once.
LEMMA StepFewer ==
    ASSUME TypeOK, Queue \/ Callbacks \/ DclkInit
    PROVE  Fewer(Ahead', Ahead)
<1>1. CASE Callbacks
  <2>1. pending # <<>> /\ pending' = Tail(pending) /\ started' = started
    BY <1>1 DEF Callbacks, OnConnected, OnConnectFailed, OnDisconnected, Callback, HostStep,
       bootVars
  <2>2. Len(pending') < Len(pending)
    BY <2>1 DEF TypeOK
  <2> QED BY <2>1, <2>2, FewerAt DEF Ahead
<1>2. CASE DclkInit
  <2>1. (IF started' THEN 0 ELSE 1) < (IF started THEN 0 ELSE 1)
    BY <1>2 DEF DclkInit
  <2> QED BY <2>1, FewerAt DEF Ahead
<1> QED BY <1>1, <1>2, QueueFewer

\* What callbacks and handlers submit runs out, whatever is interleaved and
\* whatever fails.
THEOREM RunsOut == Spec => WindsDown
<1>1. ASSUME TypeInv
      PROVE  /\ Queue \/ Callbacks \/ DclkInit => Fewer(Ahead', Ahead)
             /\ Ahead = <<0, 0, 0, 0, 0>> <=> Settled
  BY <1>1, StepFewer, AheadOfNothing DEF TypeInv
<1> QED BY <1>1, SpecType, PTL DEF Spec, WindsDown
=============================================================================

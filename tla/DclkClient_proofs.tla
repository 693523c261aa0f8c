------------------------- MODULE DclkClient_proofs -------------------------
(***************************************************************************)
(* Proofs about DclkClient, for any connection objects and controllers in  *)
(* range, complete or not, and whichever calls may fail.                   *)
(***************************************************************************)
EXTENDS DclkClient, TLAPS

\* The scan and the connection in use belong to an initialised client.
Started == init # "done" => ~scan /\ DCLK_C_conn = NULL

\* A connection that is not free has its peer, and discovery one that is up.
Connections ==
    /\ \A c \in Conns : link[c] # "free" => peer[c] \in Peers
    /\ dm # NULL => link[dm] = "up"

IInv == /\ TypeOK /\ RefsBalanced /\ NoScanWhileConnected /\ KeepsTrying
        /\ SubscribedOnOwnLink /\ Started /\ Connections

-----------------------------------------------------------------------------
LEMMA InitIInv == Init => IInv
<1> SUFFICES ASSUME Init PROVE IInv
  OBVIOUS
<1> USE DEF Init
<1>1. NULL \notin Conns
  BY ClientAssumption
<1>2. TypeOK
  <2>1. scan \in BOOLEAN /\ gave_up \in BOOLEAN
    OBVIOUS
  <2> QED BY <2>1 DEF TypeOK, Fields
<1>3. RefsBalanced
  BY <1>1 DEF RefsBalanced
<1>4. NoScanWhileConnected /\ KeepsTrying /\ SubscribedOnOwnLink /\ Started /\ Connections
  BY DEF NoScanWhileConnected, KeepsTrying, SubscribedOnOwnLink, Started, Connections
<1> QED BY <1>2, <1>3, <1>4 DEF IInv

\* Unplugging leads back to the initial state.
LEMMA RestartIInv == Restart => IInv'
<1> SUFFICES ASSUME Restart PROVE IInv'
  OBVIOUS
<1> USE DEF Restart
<1>1. NULL \notin Conns
  BY ClientAssumption
<1>2. TypeOK'
  <2>1. scan' \in BOOLEAN /\ gave_up' \in BOOLEAN
    OBVIOUS
  <2> QED BY <2>1 DEF TypeOK, Fields
<1>3. RefsBalanced'
  BY <1>1 DEF RefsBalanced
<1>4. /\ NoScanWhileConnected' /\ KeepsTrying' /\ SubscribedOnOwnLink'
      /\ Started' /\ Connections'
  BY DEF NoScanWhileConnected, KeepsTrying, SubscribedOnOwnLink, Started, Connections
<1> QED BY <1>2, <1>3, <1>4 DEF IInv

\* What start_auto_connection leaves.
LEMMA StartScanEffect ==
    ASSUME TypeOK, StartScan
    PROVE  scan' \in BOOLEAN /\ gave_up' \in BOOLEAN /\ (scan' \/ gave_up')
BY DEF TypeOK, StartScan

\* A connection object other than the one in use is free, and that one is not.
LEMMA OneInUse ==
    ASSUME RefsBalanced
    PROVE  /\ \A c \in Conns : link[c] # "free" => c = DCLK_C_conn
           /\ DCLK_C_conn \in Conns => link[DCLK_C_conn] # "free"
                                       /\ refs[DCLK_C_conn] = 1
BY DEF RefsBalanced

-----------------------------------------------------------------------------
LEMMA NextIInv == IInv /\ [Next]_vars => IInv'
<1> SUFFICES ASSUME IInv, [Next]_vars PROVE IInv'
  OBVIOUS
<1>0. NULL \notin Conns /\ TypeOK /\ RefsBalanced
  BY ClientAssumption DEF IInv
<1> USE DEF IInv
<1>1. CASE InitStep
  <2>1. init' \in {"auth", "info", "scan", "start"} /\ init # "done"
    BY <1>1 DEF InitStep, Succ
  <2>2. TypeOK'
    BY <1>1, <2>1 DEF TypeOK, InitStep, scanVars, linkVars, clientVars
  <2>3. RefsBalanced' /\ NoScanWhileConnected' /\ SubscribedOnOwnLink' /\ Connections'
    BY <1>1 DEF InitStep, scanVars, linkVars, clientVars, RefsBalanced,
       NoScanWhileConnected, SubscribedOnOwnLink, Connections
  <2>4. KeepsTrying' /\ Started'
    BY <1>1, <2>1 DEF InitStep, scanVars, linkVars, KeepsTrying, Started
  <2> QED BY <2>2, <2>3, <2>4
<1>2. CASE InitStart
  <2>1. scan' \in BOOLEAN /\ gave_up' \in BOOLEAN /\ (scan' \/ gave_up')
    BY <1>2, StartScanEffect DEF InitStart
  <2>2. DCLK_C_conn = NULL
    BY <1>2 DEF InitStart, Started
  <2>3. TypeOK'
    BY <1>2, <2>1 DEF TypeOK, InitStart, linkVars, clientVars
  <2>4. RefsBalanced' /\ SubscribedOnOwnLink' /\ Connections'
    BY <1>2 DEF InitStart, linkVars, clientVars, RefsBalanced,
       SubscribedOnOwnLink, Connections
  <2>5. KeepsTrying' /\ Started' /\ NoScanWhileConnected'
    BY <1>2, <2>1, <2>2 DEF InitStart, linkVars, KeepsTrying, Started,
       NoScanWhileConnected
  <2> QED BY <2>3, <2>4, <2>5
<1>3. CASE InitFails
  <2>1. init' = "failed" /\ init # "done"
    BY <1>3 DEF InitFails, Succ
  <2>2. TypeOK'
    BY <1>3, <2>1 DEF TypeOK, InitFails, scanVars, linkVars, clientVars
  <2>3. RefsBalanced' /\ NoScanWhileConnected' /\ SubscribedOnOwnLink' /\ Connections'
    BY <1>3 DEF InitFails, scanVars, linkVars, clientVars, RefsBalanced,
       NoScanWhileConnected, SubscribedOnOwnLink, Connections
  <2>4. KeepsTrying' /\ Started'
    BY <1>3, <2>1 DEF InitFails, scanVars, linkVars, KeepsTrying, Started
  <2> QED BY <2>2, <2>3, <2>4
<1>4. CASE ScanConnectingError
  <2>1. scan' = FALSE /\ gave_up' = TRUE
    BY <1>4 DEF ScanConnectingError
  <2>2. TypeOK'
    BY <1>4, <2>1 DEF TypeOK, ScanConnectingError, linkVars, clientVars
  <2>3. RefsBalanced' /\ SubscribedOnOwnLink' /\ Connections'
    BY <1>4 DEF ScanConnectingError, linkVars, clientVars, RefsBalanced,
       SubscribedOnOwnLink, Connections
  <2>4. KeepsTrying' /\ Started' /\ NoScanWhileConnected'
    BY <1>4, <2>1 DEF ScanConnectingError, linkVars, KeepsTrying, Started,
       NoScanWhileConnected
  <2> QED BY <2>2, <2>3, <2>4
<1>5. ASSUME NEW c \in Conns, NEW p \in Peers, ScanConnecting(c, p) PROVE IInv'
  <2> USE <1>5 DEF ScanConnecting
  \* While it scans the client has no connection: nothing is overwritten.
  <2>1. init = "done" /\ DCLK_C_conn = NULL /\ \A d \in Conns : link[d] = "free"
    BY <1>0, OneInUse DEF Started, NoScanWhileConnected
  <2>2. \A d \in Conns : refs[d] = 0
    BY <1>0, <2>1 DEF RefsBalanced
  <2>3. subs = {} /\ dm = NULL
    BY <2>1, <1>0 DEF SubscribedOnOwnLink, Connections, TypeOK
  <2>4. refs' = [refs EXCEPT ![c] = 1]
    <3>1. refs[c] + 1 = 1
      BY <2>2
    <3>2. refs' = [refs EXCEPT ![c] = refs[c] + 1]
      OBVIOUS
    <3> QED BY <3>1, <3>2
  <2>5. TypeOK'
    <3>1. scan' \in BOOLEAN /\ gave_up' \in BOOLEAN
      BY <1>0 DEF TypeOK
    <3>2. refs' \in [Conns -> 0..1]
      BY <2>4, <1>0 DEF TypeOK
    <3> QED BY <3>1, <3>2, <1>0 DEF TypeOK, clientVars
  <2>6. RefsBalanced'
    BY <2>1, <2>2, <2>4, <1>0 DEF RefsBalanced, TypeOK
  <2>7. SubscribedOnOwnLink' /\ Connections'
    BY <2>1, <2>3, <1>0 DEF SubscribedOnOwnLink, Connections, TypeOK, clientVars
  <2>8. KeepsTrying' /\ Started' /\ NoScanWhileConnected'
    BY <2>1, <1>0 DEF KeepsTrying, Started, NoScanWhileConnected
  <2> QED BY <2>5, <2>6, <2>7, <2>8
<1>6. ASSUME NEW c \in Conns, Connected(c) PROVE IInv'
  <2> USE <1>6 DEF Connected
  <2>1. link' = [link EXCEPT ![c] = "up"] /\ link[c] = "connecting"
        /\ c = DCLK_C_conn /\ (dm' = c \/ dm' = dm)
    BY <1>0, OneInUse
  <2>2. TypeOK'
    BY <2>1, <1>0 DEF TypeOK, scanVars, clientVars
  <2>3. RefsBalanced'
    BY <2>1, <1>0 DEF RefsBalanced, TypeOK
  <2>4. subs = {}
    BY <2>1 DEF SubscribedOnOwnLink
  <2>5. SubscribedOnOwnLink' /\ Connections'
    BY <2>1, <2>4, <1>0 DEF SubscribedOnOwnLink, Connections, TypeOK, clientVars
  <2>6. KeepsTrying' /\ Started' /\ NoScanWhileConnected'
    BY DEF KeepsTrying, Started, NoScanWhileConnected, scanVars
  <2> QED BY <2>2, <2>3, <2>5, <2>6
<1>7. ASSUME NEW c \in Conns, ConnectedError(c) PROVE IInv'
  <2> USE <1>7 DEF ConnectedError, DropConn
  \* The connection that failed is the one in use: its reference is dropped.
  <2>1. link[c] = "connecting" /\ c = DCLK_C_conn /\ init = "done" /\ ~scan
    BY <1>0, OneInUse DEF Started, NoScanWhileConnected
  <2>2. scan' \in BOOLEAN /\ gave_up' \in BOOLEAN /\ (scan' \/ gave_up')
    BY <1>0, StartScanEffect
  <2>3. refs' = [refs EXCEPT ![c] = 0] /\ DCLK_C_conn' = NULL
    BY <1>0, <2>1, OneInUse DEF TypeOK
  <2>4. TypeOK'
    BY <2>2, <2>3, <1>0 DEF TypeOK, clientVars
  <2>5. RefsBalanced'
    BY <2>1, <2>3, <1>0 DEF RefsBalanced, TypeOK
  <2>6. subs = {} /\ dm # c
    BY <2>1, <1>0 DEF SubscribedOnOwnLink, Connections
  <2>7. SubscribedOnOwnLink' /\ Connections'
    BY <2>1, <2>6, <1>0 DEF SubscribedOnOwnLink, Connections, TypeOK, clientVars
  <2>8. KeepsTrying' /\ Started' /\ NoScanWhileConnected'
    BY <2>1, <2>2, <2>3 DEF KeepsTrying, Started, NoScanWhileConnected
  <2> QED BY <2>4, <2>5, <2>7, <2>8
<1>8. ASSUME NEW c \in Conns, LinkLost(c) PROVE IInv'
  <2> USE <1>8 DEF LinkLost
  <2>1. link[c] = "up" /\ c = DCLK_C_conn
    BY <1>0, OneInUse
  <2>2. TypeOK'
    BY <1>0 DEF TypeOK, scanVars
  <2>3. RefsBalanced'
    BY <2>1, <1>0 DEF RefsBalanced, TypeOK
  \* All subscriptions are on the link that is lost.
  <2>4. subs' = {}
    BY <2>1 DEF SubscribedOnOwnLink
  <2>5. SubscribedOnOwnLink' /\ Connections'
    BY <2>1, <2>4, <1>0 DEF SubscribedOnOwnLink, Connections, TypeOK
  <2>6. KeepsTrying' /\ Started' /\ NoScanWhileConnected'
    BY DEF KeepsTrying, Started, NoScanWhileConnected, scanVars
  <2> QED BY <2>2, <2>3, <2>5, <2>6
<1>9. ASSUME NEW c \in Conns, Disconnected(c) PROVE IInv'
  <2> USE <1>9 DEF Disconnected
  <2>1. link[c] = "closing" /\ c = DCLK_C_conn /\ init = "done" /\ ~scan
    BY <1>0, OneInUse DEF Started, NoScanWhileConnected
  <2>2. DropConn /\ StartScan
    BY <2>1
  <2>3. scan' \in BOOLEAN /\ gave_up' \in BOOLEAN /\ (scan' \/ gave_up')
    BY <2>2, <1>0, StartScanEffect
  <2>4. refs' = [refs EXCEPT ![c] = 0] /\ DCLK_C_conn' = NULL
    BY <2>1, <2>2, <1>0, OneInUse DEF TypeOK, DropConn
  <2>5. TypeOK'
    BY <2>3, <2>4, <1>0 DEF TypeOK, clientVars
  <2>6. RefsBalanced'
    BY <2>1, <2>4, <1>0 DEF RefsBalanced, TypeOK
  <2>7. subs = {} /\ dm # c
    BY <2>1, <1>0 DEF SubscribedOnOwnLink, Connections
  <2>8. SubscribedOnOwnLink' /\ Connections'
    BY <2>1, <2>7, <1>0 DEF SubscribedOnOwnLink, Connections, TypeOK, clientVars
  <2>9. KeepsTrying' /\ Started' /\ NoScanWhileConnected'
    BY <2>1, <2>3, <2>4 DEF KeepsTrying, Started, NoScanWhileConnected
  <2> QED BY <2>5, <2>6, <2>8, <2>9
<1>10. CASE DiscoveryComplete
  <2>1. PICK found \in Found(peer[dm]), ok \in SUBSET Fields :
          /\ HandlesAssign(found)
          /\ ok = {} \/ (client_conn' # NULL /\ link[client_conn'] = "up")
          /\ Subscribe(ok)
    BY <1>10 DEF DiscoveryComplete
  \* Discovery runs on the connection in use.
  <2>2. dm \in Conns /\ link[dm] = "up" /\ dm = DCLK_C_conn /\ peer[dm] \in Peers
    BY <1>10, <1>0, OneInUse DEF DiscoveryComplete, Connections, TypeOK
  <2>3. /\ handles' = [f \in Fields |-> IF f \in found THEN peer[dm] ELSE "bad"]
        /\ client_conn' \in {dm, client_conn}
    BY <2>1 DEF HandlesAssign
  <2>4. client_conn' \in Conns \cup {NULL}
    BY <2>2, <2>3, <1>0 DEF TypeOK
  \* A stale connection has no link, so what is subscribed is on this one.
  <2>5. ok # {} => client_conn' = dm
    BY <2>1, <2>2, <2>4, <1>0, OneInUse
  <2>6. \A s \in subs' : s \in subs \/ \E f \in Fields : s = <<f, dm, handles'[f]>>
    BY <2>1, <2>5 DEF Subscribe
  <2>7. \A f \in Fields : handles'[f] \in {peer[dm], "bad"}
    BY <2>3
  <2>8. UNCHANGED <<init, scanVars, link, peer, refs, DCLK_C_conn>> /\ dm' = NULL
    BY <1>10 DEF DiscoveryComplete
  <2>9. TypeOK'
    <3>1. subs' \subseteq Fields \X Conns \X (Peers \cup {"bad"})
      BY <2>2, <2>6, <2>7, <1>0 DEF TypeOK
    <3>2. handles' \in [Fields -> Peers \cup {"zero", "bad"}]
      BY <2>2, <2>3
    <3> QED BY <3>1, <3>2, <2>4, <2>8, <1>0 DEF TypeOK, scanVars
  <2>10. RefsBalanced' /\ NoScanWhileConnected' /\ KeepsTrying' /\ Started'
    BY <2>8 DEF RefsBalanced, NoScanWhileConnected, KeepsTrying, Started, scanVars
  <2>11. Connections'
    BY <2>8 DEF Connections
  <2>12. SubscribedOnOwnLink'
    BY <2>2, <2>6, <2>7, <2>8 DEF SubscribedOnOwnLink
  <2> QED BY <2>9, <2>10, <2>11, <2>12
<1>11. CASE DiscoveryFails
  <2> USE <1>11 DEF DiscoveryFails
  <2>1. TypeOK'
    BY <1>0 DEF TypeOK, scanVars, clientVars
  <2>2. /\ RefsBalanced' /\ NoScanWhileConnected' /\ KeepsTrying' /\ Started'
        /\ Connections' /\ SubscribedOnOwnLink'
    BY DEF RefsBalanced, NoScanWhileConnected, KeepsTrying, Started, Connections,
       SubscribedOnOwnLink, scanVars, clientVars
  <2> QED BY <2>1, <2>2
<1>12. ASSUME NEW s \in subs, Unsubscribed(s) PROVE IInv'
  <2> USE <1>12 DEF Unsubscribed
  <2>1. TypeOK'
    BY <1>0 DEF TypeOK, scanVars, linkVars
  <2>2. /\ RefsBalanced' /\ NoScanWhileConnected' /\ KeepsTrying' /\ Started'
        /\ Connections' /\ SubscribedOnOwnLink'
    BY DEF RefsBalanced, NoScanWhileConnected, KeepsTrying, Started, Connections,
       SubscribedOnOwnLink, scanVars, linkVars
  <2> QED BY <2>1, <2>2
<1>13. CASE Restart
  BY <1>13, RestartIInv
<1>14. CASE UNCHANGED vars
  <2>1. TypeOK'
    BY <1>14 DEF TypeOK, vars
  <2>2. /\ RefsBalanced' /\ NoScanWhileConnected' /\ KeepsTrying' /\ Started'
        /\ Connections' /\ SubscribedOnOwnLink'
    BY <1>14 DEF RefsBalanced, NoScanWhileConnected, KeepsTrying, Started,
       Connections, SubscribedOnOwnLink, vars
  <2> QED BY <2>1, <2>2
<1> QED BY <1>1, <1>2, <1>3, <1>4, <1>5, <1>6, <1>7, <1>8, <1>9, <1>10, <1>11,
       <1>12, <1>13, <1>14 DEF Next, Starting, ConnEvent, Discovery

LEMMA SpecIInv == Spec => []IInv
BY InitIInv, NextIInv, PTL DEF Spec

-----------------------------------------------------------------------------
(* The theorems *)

\* Every state is well typed: no object is referenced twice or less than never.
THEOREM TypeCorrect == Spec => []TypeOK
<1>1. IInv => TypeOK
  BY DEF IInv
<1> QED BY <1>1, SpecIInv, PTL

\* No connection object leaks and none is released twice.
THEOREM RefsCorrect == Spec => []RefsBalanced
<1>1. IInv => RefsBalanced
  BY DEF IInv
<1> QED BY <1>1, SpecIInv, PTL

\* A scan never runs beside a connection.
THEOREM ScanAlone == Spec => []NoScanWhileConnected
<1>1. IInv => NoScanWhileConnected
  BY DEF IInv
<1> QED BY <1>1, SpecIInv, PTL

\* Only a logged error ends the search.
THEOREM AlwaysTrying == Spec => []KeepsTrying
<1>1. IInv => KeepsTrying
  BY DEF IInv
<1> QED BY <1>1, SpecIInv, PTL

\* No subscription is made on another link or with another peer's handles.
THEOREM SubscriptionsOwn == Spec => []SubscribedOnOwnLink
<1>1. IInv => SubscribedOnOwnLink
  BY DEF IInv
<1> QED BY <1>1, SpecIInv, PTL

-----------------------------------------------------------------------------
(* The promise of Watcher *)

MayGiveUp == InitMayFail \/ ScanMayFail \/ CreateMayFail

\* Subscriptions are there in one phase only, and whom is watched is known.
LEMMA PhaseFacts ==
    ASSUME IInv
    PROVE  /\ init \notin {"done", "failed"} => Phase = "booting"
           /\ scan => Phase = "searching"
           /\ DCLK_C_conn = NULL => Whom = NULL /\ Hears = {} /\ subs = {}
           /\ \A c \in Conns : link[c] # "free" =>
                /\ c = DCLK_C_conn /\ init = "done" /\ ~scan /\ Whom = peer[c]
                /\ link[c] = "connecting" => Phase = "trying"
                /\ link[c] = "up" => Phase = "watching"
                /\ link[c] = "closing" => Phase = "over"
                /\ link[c] # "up" => subs = {} /\ Hears = {}
<1>0. NULL \notin Conns /\ TypeOK /\ RefsBalanced
  BY ClientAssumption DEF IInv
<1> USE DEF IInv
<1>1. scan => init = "done" /\ DCLK_C_conn = NULL
  BY DEF Started, NoScanWhileConnected
<1>2. DCLK_C_conn = NULL => subs = {}
  BY <1>0 DEF SubscribedOnOwnLink, TypeOK
<1>3. ASSUME NEW c \in Conns, link[c] # "free"
      PROVE  /\ c = DCLK_C_conn /\ init = "done" /\ ~scan
             /\ link[c] # "up" => subs = {}
  BY <1>0, <1>3, OneInUse DEF Started, NoScanWhileConnected, SubscribedOnOwnLink
<1> QED BY <1>0, <1>1, <1>2, <1>3 DEF Phase, Whom, Hears

\* To search again is to be done with a connection, whether the scan starts.
LEMMA Searches ==
    ASSUME DCLK_C_conn' = NULL, subs' = {},
           \/ init' = "done" /\ scan' = TRUE
           \/ init' \in {"done", "failed"} /\ scan' = FALSE /\ MayGiveUp
    PROVE  Watch!Search
BY DEF Phase, Whom, Hears, Watch!Search, MayGiveUp

LEMMA WatchStep == IInv /\ [Next]_vars => [Watch!Next]_Watch!vars
<1> SUFFICES ASSUME IInv, [Next]_vars PROVE [Watch!Next]_Watch!vars
  OBVIOUS
<1>0. NULL \notin Conns /\ TypeOK
  BY ClientAssumption DEF IInv
<1>1. CASE InitStep
  <2>1. /\ init \notin {"done", "failed"} /\ init' \notin {"done", "failed"}
        /\ UNCHANGED <<link, peer, DCLK_C_conn, subs>>
    BY <1>1 DEF InitStep, Succ, scanVars, linkVars, clientVars
  <2> QED BY <2>1 DEF Phase, Whom, Hears, Watch!vars
<1>2. CASE InitStart \/ InitFails
  <2>1. init \in {"enable", "auth", "info", "scan", "start"}
    BY <1>2 DEF InitStart, InitFails, Succ
  <2>2. DCLK_C_conn = NULL /\ subs = {} /\ scan = FALSE /\ Phase = "booting"
    BY <1>0, <2>1, PhaseFacts DEF IInv, Started, TypeOK
  <2>3. Watch!Search
    BY <1>2, <2>2, Searches
       DEF InitStart, InitFails, StartScan, scanVars, linkVars, clientVars, MayGiveUp
  <2> QED BY <2>2, <2>3 DEF Watch!Next, Watch!Boot
<1>3. CASE ScanConnectingError
  <2>1. /\ scan /\ scan' = FALSE /\ CreateMayFail
        /\ UNCHANGED <<init, link, peer, DCLK_C_conn, subs>>
    BY <1>3 DEF ScanConnectingError, linkVars, clientVars
  <2>2. Phase = "searching" /\ init = "done" /\ DCLK_C_conn = NULL
    BY <2>1, PhaseFacts DEF IInv, Started, NoScanWhileConnected
  <2>3. Phase' = "dormant" /\ Whom' = Whom /\ Hears' = Hears
    BY <2>1, <2>2 DEF Phase, Whom, Hears
  <2> QED BY <2>1, <2>2, <2>3 DEF Watch!Next, Watch!Find
<1>4. ASSUME NEW c \in Conns, NEW p \in Peers, ScanConnecting(c, p)
      PROVE  [Watch!Next]_Watch!vars
  <2>1. /\ scan /\ DCLK_C_conn' = c /\ UNCHANGED <<init, subs>>
        /\ link' = [link EXCEPT ![c] = "connecting"] /\ peer' = [peer EXCEPT ![c] = p]
    BY <1>4 DEF ScanConnecting, clientVars
  <2>2. Phase = "searching" /\ init = "done" /\ DCLK_C_conn = NULL
    BY <2>1, PhaseFacts DEF IInv, Started, NoScanWhileConnected
  <2>3. subs = {} /\ Hears = {}
    BY <2>2, PhaseFacts
  <2>4. link'[c] = "connecting" /\ peer'[c] = p /\ c # NULL
    BY <1>0, <2>1 DEF TypeOK
  <2>5. Phase' = "trying" /\ Whom' = p /\ Hears' = {}
    BY <2>1, <2>2, <2>3, <2>4 DEF Phase, Whom, Hears
  <2> QED BY <2>2, <2>3, <2>5 DEF Watch!Next, Watch!Find
<1>5. ASSUME NEW c \in Conns, Connected(c) PROVE [Watch!Next]_Watch!vars
  <2>1. /\ link[c] = "connecting" /\ link' = [link EXCEPT ![c] = "up"]
        /\ UNCHANGED <<init, peer, DCLK_C_conn, subs>>
    BY <1>5 DEF Connected, scanVars, clientVars
  <2>2. c = DCLK_C_conn /\ init = "done" /\ Phase = "trying" /\ c # NULL
    BY <1>0, <2>1, PhaseFacts
  <2>3. link'[c] = "up"
    BY <1>0, <2>1 DEF TypeOK
  <2>4. Phase' = "watching" /\ Whom' = Whom /\ Hears' = Hears
    BY <2>1, <2>2, <2>3 DEF Phase, Whom, Hears
  <2> QED BY <2>2, <2>4 DEF Watch!Next, Watch!Link
<1>6. ASSUME NEW c \in Conns, ConnectedError(c) PROVE [Watch!Next]_Watch!vars
  <2>1. /\ link[c] = "connecting" /\ DCLK_C_conn' = NULL
        /\ StartScan /\ UNCHANGED <<init, subs>>
    BY <1>6 DEF ConnectedError, DropConn, clientVars
  <2>2. Phase = "trying" /\ init = "done" /\ ~scan /\ subs = {}
    BY <2>1, PhaseFacts
  <2>3. Watch!Search
    BY <1>0, <2>1, <2>2, Searches DEF StartScan, MayGiveUp, TypeOK
  <2> QED BY <2>2, <2>3 DEF Watch!Next, Watch!Link
<1>7. ASSUME NEW c \in Conns, LinkLost(c) PROVE [Watch!Next]_Watch!vars
  <2>1. /\ link[c] = "up" /\ link' = [link EXCEPT ![c] = "closing"]
        /\ subs' = {s \in subs : s[2] # c} /\ UNCHANGED <<init, peer, DCLK_C_conn>>
    BY <1>7 DEF LinkLost
  <2>2. c = DCLK_C_conn /\ init = "done" /\ Phase = "watching" /\ c # NULL
    BY <1>0, <2>1, PhaseFacts
  <2>3. link'[c] = "closing" /\ subs' = {}
    BY <1>0, <2>1, <2>2 DEF TypeOK, IInv, SubscribedOnOwnLink
  <2>4. Phase' = "over" /\ Whom' = Whom /\ Hears' = {}
    BY <2>1, <2>2, <2>3 DEF Phase, Whom, Hears
  <2> QED BY <2>2, <2>4 DEF Watch!Next, Watch!Lose
<1>8. ASSUME NEW c \in Conns, Disconnected(c) PROVE [Watch!Next]_Watch!vars
  <2>1. link[c] = "closing" /\ UNCHANGED <<init, subs>>
    BY <1>8 DEF Disconnected, clientVars
  <2>2. c = DCLK_C_conn /\ Phase = "over" /\ init = "done" /\ ~scan /\ subs = {}
    BY <2>1, PhaseFacts
  <2>3. DCLK_C_conn' = NULL /\ StartScan
    BY <1>8, <2>2 DEF Disconnected, DropConn
  <2>4. Watch!Search
    BY <1>0, <2>1, <2>2, <2>3, Searches DEF StartScan, MayGiveUp, TypeOK
  <2> QED BY <2>2, <2>4 DEF Watch!Next, Watch!Notice
<1>9. CASE Discovery \/ \E s \in subs : Unsubscribed(s)
  <2>1. UNCHANGED <<init, scan, link, peer, DCLK_C_conn>>
    BY <1>9 DEF Discovery, DiscoveryComplete, DiscoveryFails, Unsubscribed, scanVars,
       linkVars
  <2>2. \E c \in Conns : link[c] = "up"
    <3>1. CASE Discovery
      BY <1>0, <3>1 DEF Discovery, DiscoveryComplete, DiscoveryFails, IInv,
         Connections, TypeOK
    <3>2. CASE \E s \in subs : Unsubscribed(s)
      BY <1>0, <3>2 DEF IInv, SubscribedOnOwnLink, TypeOK
    <3> QED BY <1>9, <3>1, <3>2
  <2>3. Phase = "watching"
    BY <2>2, PhaseFacts
  <2>4. Phase' = Phase /\ Whom' = Whom
    BY <2>1 DEF Phase, Whom
  <2>5. CASE subs \subseteq subs'
    <3>1. Hears \subseteq Hears' /\ Hears' \subseteq Fields
      BY <2>1, <2>4, <2>5 DEF Hears
    <3> QED BY <2>3, <2>4, <3>1 DEF Watch!Next, Watch!Hear
  <2>6. ASSUME NEW s \in subs, subs' = subs \ {s} PROVE [Watch!Next]_Watch!vars
    <3>1. s = <<s[1], s[2], s[3]>>
      BY <1>0 DEF TypeOK
    <3>2. CASE s[1] \in Hears /\ s = <<s[1], DCLK_C_conn, Whom>>
      <4>1. Hears' = Hears \ {s[1]}
        BY <2>1, <2>4, <2>6, <3>2 DEF Hears
      <4> QED BY <2>3, <2>4, <3>2, <4>1 DEF Watch!Next, Watch!Refused
    <3>3. CASE ~(s[1] \in Hears /\ s = <<s[1], DCLK_C_conn, Whom>>)
      <4>1. Hears' = Hears
        BY <2>1, <2>4, <2>6, <3>1, <3>3 DEF Hears
      <4> QED BY <2>4, <4>1 DEF Watch!vars
    <3> QED BY <3>2, <3>3
  <2> QED BY <1>9, <2>5, <2>6 DEF Discovery, DiscoveryComplete, DiscoveryFails,
          Subscribe, Unsubscribed, clientVars
<1>10. CASE Restart
  <2>1. Phase' = "booting" /\ Whom' = NULL /\ Hears' = {}
    BY <1>10 DEF Restart, Phase, Whom, Hears
  <2> QED BY <2>1 DEF Watch!Next, Watch!Restart
<1>11. CASE UNCHANGED vars
  BY <1>11 DEF vars, Phase, Whom, Hears, Watch!vars
<1> QED BY <1>1, <1>2, <1>3, <1>4, <1>5, <1>6, <1>7, <1>8, <1>9, <1>10, <1>11
        DEF Next, Starting, ConnEvent

\* The client, with its scan, connection objects and discovery, implements
\* Watcher.
THEOREM KeepsWatching == Spec => WatcherPromise
<1>1. Init => Watch!Init
  BY DEF Init, Phase, Whom, Hears, Watch!Init
<1> QED BY <1>1, WatchStep, SpecIInv, PTL DEF Spec, WatcherPromise, Watch!Spec
=============================================================================

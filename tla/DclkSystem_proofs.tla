------------------------- MODULE DclkSystem_proofs -------------------------
(***************************************************************************)
(* Proofs about DclkSystem, for any two devices, with failing and working  *)
(* calls.  Every step of the system is one that the service and one that   *)
(* the client can take, or leaves it alone: what DclkService_proofs and    *)
(* DclkClient_proofs prove of each therefore holds of the two together.    *)
(***************************************************************************)
EXTENDS DclkSystem, FiniteSetTheorems, TLAPS

\* The theorems about S and C.
SP == INSTANCE DclkService_proofs WITH Peers <- {Display}, MaxConn <- 1
CP == INSTANCE DclkClient_proofs WITH Conns <- {Conn}, Peers <- {Controller},
                              Complete <- {Controller}, InitMayFail <- MayFail,
                              ScanMayFail <- MayFail, CreateMayFail <- MayFail

-----------------------------------------------------------------------------
(* The components' assumptions, and the two instances of each *)

LEMMA ServiceAssumed == SP!ServiceAssumption
<1>1. IsFiniteSet({Display})
  BY FS_Singleton
<1>2. SP!IsFiniteSet({Display})
  BY <1>1 DEF IsFiniteSet, SP!IsFiniteSet
<1> QED BY <1>2, SystemAssumption DEF SP!ServiceAssumption

LEMMA ClientAssumed == CP!ClientAssumption
<1>1. IsFiniteSet({Conn})
  BY FS_Singleton
<1>2. CP!IsFiniteSet({Conn})
  BY <1>1 DEF IsFiniteSet, CP!IsFiniteSet
<1> QED BY <1>2, SystemAssumption DEF CP!ClientAssumption

LEMMA SameCounts == /\ \A T : S!Cardinality(T) = SP!Cardinality(T)
                    /\ \A e : S!Count(e) = SP!Count(e)
                    /\ S!Advertising <=> SP!Advertising
                    /\ S!FilterInUse <=> SP!FilterInUse
<1>1. \A T : S!Cardinality(T) = SP!Cardinality(T)
  BY DEF S!Cardinality, SP!Cardinality
<1>2. \A e : S!Count(e) = SP!Count(e)
  BY <1>1 DEF S!Count, SP!Count
<1>3. S!Advertising <=> SP!Advertising
  BY <1>1, <1>2 DEF S!Advertising, SP!Advertising, S!SlotFree, SP!SlotFree
<1> QED BY <1>1, <1>2, <1>3 DEF S!FilterInUse, SP!FilterInUse

LEMMA SameService == /\ S!Init => SP!Init
                     /\ [S!Next]_S!vars => [SP!Next]_SP!vars
<1> USE DEF S!buttonVars, SP!buttonVars, S!hostVars, SP!hostVars, S!listVars,
            SP!listVars, S!statusVars, SP!statusVars, S!advVars, SP!advVars,
            S!bootVars, SP!bootVars,
            S!Adv, SP!Adv, S!Pair, SP!Pair, S!Button, SP!Button,
            S!OthersRun, SP!OthersRun, S!Submit, SP!Submit, S!Contains, SP!Contains
<1>1. S!Init => SP!Init
  BY DEF S!Init, SP!Init
<1>2. S!Dispatch \/ S!Handle \/ S!DclkPairing => SP!Queue
  BY DEF S!Dispatch, SP!Dispatch, S!Handle, SP!Handle, S!DclkPairing,
         SP!DclkPairing, SP!Queue
<1>3. S!PairStop \/ S!PairUnpair \/ S!PairStart => SP!Queue
  BY DEF S!Stop, SP!Stop, S!PairStop, SP!PairStop, S!PairUnpair, SP!PairUnpair,
         S!StartsAs, SP!StartsAs, S!PairStart, SP!PairStart, SP!Queue
<1>4. S!AdvStop \/ S!AdvClear \/ S!AdvFilled \/ S!AdvStart => SP!Queue
  BY SameCounts DEF S!Stop, SP!Stop, S!AdvStop, SP!AdvStop, S!AdvClear, SP!AdvClear,
         S!AdvFilled, SP!AdvFilled, S!StartsAs, SP!StartsAs, S!AdvStart,
         SP!AdvStart, SP!Queue
<1>5. (\E p \in {Display} : S!AdvFill(p)) => SP!Queue
  BY SameCounts DEF S!AdvFill, SP!AdvFill, SP!Queue
<1>6. S!Queue => SP!Queue
  BY <1>2, <1>3, <1>4, <1>5 DEF S!Queue
<1>7. S!Callbacks => SP!Callbacks
  BY DEF S!HostStep, SP!HostStep, S!Callback, SP!Callback, S!OnConnected,
         SP!OnConnected, S!OnConnectFailed, SP!OnConnectFailed,
         S!OnDisconnected, SP!OnDisconnected, S!Callbacks, SP!Callbacks
<1>8. S!Remote => SP!Remote
  BY SameCounts DEF S!HostStep, SP!HostStep, S!Connect, SP!Connect, S!Bond,
         SP!Bond, S!Disconnect, SP!Disconnect, S!ConnectFails, SP!ConnectFails,
         S!Remote, SP!Remote
<1>9. S!DclkInit \/ S!Edge \/ S!Restart => SP!DclkInit \/ SP!Edge \/ SP!Restart
  BY DEF S!DclkInit, SP!DclkInit, S!Edge, SP!Edge, S!Restart, SP!Restart
<1>10. S!vars = SP!vars /\ (UNCHANGED S!vars => UNCHANGED SP!vars)
  BY DEF S!vars, SP!vars
<1> QED BY <1>1, <1>6, <1>7, <1>8, <1>9, <1>10 DEF S!Next, SP!Next

LEMMA SameClient == /\ C!Init => CP!Init
                    /\ [C!Next]_C!vars => [CP!Next]_CP!vars
<1> USE DEF C!Fields, CP!Fields, C!scanVars, CP!scanVars, C!linkVars, CP!linkVars,
            C!clientVars, CP!clientVars, C!StartScan, CP!StartScan,
            C!DropConn, CP!DropConn, C!Succ, CP!Succ
<1>1. C!Init => CP!Init
  BY DEF C!Init, CP!Init
<1>2. C!Starting \/ C!Restart => CP!Starting \/ CP!Restart
  BY DEF C!Starting, CP!Starting, C!InitStep, CP!InitStep, C!InitStart,
         CP!InitStart, C!InitFails, CP!InitFails, C!Restart, CP!Restart
<1>3. (\E c \in {Conn} : C!ConnEvent(c)) => \E c \in {Conn} : CP!ConnEvent(c)
  BY DEF C!ConnEvent, CP!ConnEvent, C!ScanConnecting, CP!ScanConnecting,
         C!Connected, CP!Connected, C!ConnectedError, CP!ConnectedError,
         C!LinkLost, CP!LinkLost, C!Disconnected, CP!Disconnected
<1>4. C!ScanConnectingError => CP!ScanConnectingError
  BY DEF C!ScanConnectingError, CP!ScanConnectingError
<1>5. C!Discovery => CP!Discovery
  BY DEF C!Discovery, CP!Discovery, C!DiscoveryComplete, CP!DiscoveryComplete,
         C!DiscoveryFails, CP!DiscoveryFails, C!HandlesAssign, CP!HandlesAssign,
         C!Subscribe, CP!Subscribe, C!Found, CP!Found
<1>6. (\E s \in subs : C!Unsubscribed(s)) => \E s \in subs : CP!Unsubscribed(s)
  BY DEF C!Unsubscribed, CP!Unsubscribed
<1>7. C!vars = CP!vars /\ (UNCHANGED C!vars => UNCHANGED CP!vars)
  BY DEF C!vars, CP!vars
<1> QED BY <1>1, <1>2, <1>3, <1>4, <1>5, <1>6, <1>7 DEF C!Next, CP!Next

\* What the components' theorems say of S and C.
LEMMA ServiceTheorems == S!Spec => SP!Spec
<1>1. (S!Init => SP!Init) /\ ([S!Next]_S!vars => [SP!Next]_SP!vars)
  BY SameService
<1> QED BY <1>1, PTL DEF S!Spec, SP!Spec

LEMMA ClientTheorems == C!Spec => CP!Spec
<1>1. (C!Init => CP!Init) /\ ([C!Next]_C!vars => [CP!Next]_CP!vars)
  BY SameClient
<1> QED BY <1>1, PTL DEF C!Spec, CP!Spec

-----------------------------------------------------------------------------
(* The system implements its components *)

LEMMA ServiceStutters == UNCHANGED service => UNCHANGED S!vars
BY DEF service, S!vars, S!bootVars, S!buttonVars, S!listVars, S!hostVars, S!statusVars

LEMMA ClientStutters == UNCHANGED client => UNCHANGED C!vars
BY DEF client, C!vars

LEMMA ServiceMoves == [Next]_vars => [S!Next]_S!vars
<1> SUFFICES ASSUME [Next]_vars PROVE [S!Next]_S!vars
  OBVIOUS
<1> USE DEF S!Next
<1>1. CASE ServiceStep
  BY <1>1 DEF ServiceStep, Edge
<1>2. CASE ClientStep \/ Match \/ HalfOpen \/ AttemptFails
  BY <1>2, ServiceStutters DEF ClientStep, Match, HalfOpen, AttemptFails
<1>3. CASE Join
  BY <1>3 DEF Join, S!Remote
<1>4. CASE DisplayLoses \/ DisplayRestarts
  BY <1>4, ServiceStutters DEF DisplayLoses, DisplayRestarts, DisplayEnds
<1>5. CASE ControllerLoses
  BY <1>5 DEF ControllerLoses, S!Remote
<1>6. CASE ControllerRestarts
  BY <1>6 DEF ControllerRestarts
<1>7. CASE Secure
  BY <1>7 DEF Secure, S!Remote
<1>8. CASE Discover \/ DiscoveryFails
  BY <1>8, ServiceStutters DEF Discover, DiscoveryFails
<1>9. CASE (\E f \in Fields : CccWrite(f)) \/ \E s \in subs : CccRefused(s)
  BY <1>9, ServiceStutters DEF CccWrite, CccRefused
<1>10. CASE Change \/ Turn
  BY <1>10, ServiceStutters DEF Change, Turn
<1>11. CASE UNCHANGED vars
  BY <1>11, ServiceStutters DEF vars
<1> QED BY <1>1, <1>2, <1>3, <1>4, <1>5, <1>6, <1>7, <1>8, <1>9, <1>10, <1>11
        DEF Next, DisplayWorks, DisplayNotices, LinkWorks

LEMMA ClientMoves == [Next]_vars => [C!Next]_C!vars
<1> SUFFICES ASSUME [Next]_vars PROVE [C!Next]_C!vars
  OBVIOUS
<1> USE DEF C!Next, C!ConnEvent
<1>1. CASE ClientStep
  BY <1>1 DEF ClientStep
<1>2. CASE Match
  BY <1>2 DEF Match
<1>3. CASE Join \/ HalfOpen
  BY <1>3 DEF Join, HalfOpen
<1>4. CASE AttemptFails
  BY <1>4 DEF AttemptFails
<1>5. CASE DisplayLoses \/ DisplayRestarts
  BY <1>5 DEF DisplayLoses, DisplayRestarts
<1>6. CASE ServiceStep \/ ControllerLoses \/ ControllerRestarts
  BY <1>6, ClientStutters DEF ServiceStep, ControllerLoses, ControllerRestarts,
                              ControllerEnds
<1>7. CASE Discover \/ DiscoveryFails
  BY <1>7 DEF Discover, DiscoveryFails, C!Discovery
<1>8. CASE \E s \in subs : CccRefused(s)
  BY <1>8 DEF CccRefused
<1>9. CASE Secure \/ \E f \in Fields : CccWrite(f)
  BY <1>9, ClientStutters DEF Secure, CccWrite
<1>10. CASE Change \/ Turn
  BY <1>10, ClientStutters DEF Change, Turn
<1>11. CASE UNCHANGED vars
  BY <1>11, ClientStutters DEF vars
<1> QED BY <1>1, <1>2, <1>3, <1>4, <1>5, <1>6, <1>7, <1>8, <1>9, <1>10, <1>11
        DEF Next, DisplayWorks, DisplayNotices, LinkWorks

\* Whatever the display does, the controller's service does only what it could
\* do with any displays.
THEOREM ImplementsService == Spec => S!Spec
<1>1. Init => S!Init
  BY DEF Init
<1>2. [Next]_vars => [S!Next]_S!vars
  BY ServiceMoves
<1> QED BY <1>1, <1>2, PTL DEF Spec, S!Spec

\* And the display's client only what it could do with any controllers.
THEOREM ImplementsClient == Spec => C!Spec
<1>1. Init => C!Init
  BY DEF Init
<1>2. [Next]_vars => [C!Next]_C!vars
  BY ClientMoves
<1> QED BY <1>1, <1>2, PTL DEF Spec, C!Spec

-----------------------------------------------------------------------------
(* What the components keep *)

LEMMA ServiceSame == /\ SP!TypeOK => S!TypeOK
                     /\ SP!NumConnCounts => S!NumConnCounts
                     /\ SP!FilteredIsForBonds => S!FilteredIsForBonds
                     /\ SP!NotLeftOpen => S!NotLeftOpen
                     /\ SP!ReadyToReconnect => S!ReadyToReconnect
<1>1. SP!TypeOK => S!TypeOK
  BY SameCounts DEF S!TypeOK, SP!TypeOK, S!Works, SP!Works, S!Adv, SP!Adv, S!Pair,
         SP!Pair, S!Button, SP!Button, S!Labels, SP!Labels, S!Distinct, SP!Distinct
<1>2. SP!NumConnCounts => S!NumConnCounts
  BY SameCounts DEF S!NumConnCounts, SP!NumConnCounts
<1> QED BY <1>1, <1>2 DEF S!FilteredIsForBonds, SP!FilteredIsForBonds,
        S!NotLeftOpen, SP!NotLeftOpen, S!ReadyToReconnect, SP!ReadyToReconnect,
        S!Settled, SP!Settled

\* The service's guarantees hold with this display.
LEMMA ServiceKeeps == Spec => [](/\ S!TypeOK /\ S!NumConnCounts /\ S!FilteredIsForBonds
                                 /\ S!NotLeftOpen /\ S!ReadyToReconnect)
<1>1. SP!Spec => []SP!TypeOK
  BY SP!TypeCorrect, ServiceAssumed
<1>2. SP!Spec => []SP!NumConnCounts
  BY SP!CountCorrect, ServiceAssumed
<1>3. SP!Spec => []SP!FilteredIsForBonds
  BY SP!FilterCorrect, ServiceAssumed
<1>4. SP!Spec => []SP!NotLeftOpen
  BY SP!ClosedAtRest, ServiceAssumed
<1>5. SP!Spec => []SP!ReadyToReconnect
  BY SP!ReconnectReady, ServiceAssumed
<1> QED BY <1>1, <1>2, <1>3, <1>4, <1>5, ServiceSame, ImplementsService,
        ServiceTheorems, PTL

LEMMA ClientSame == /\ CP!TypeOK => C!TypeOK
                    /\ CP!RefsBalanced => C!RefsBalanced
                    /\ CP!NoScanWhileConnected => C!NoScanWhileConnected
                    /\ CP!KeepsTrying => C!KeepsTrying
                    /\ CP!SubscribedOnOwnLink => C!SubscribedOnOwnLink
BY DEF C!TypeOK, CP!TypeOK, C!RefsBalanced, CP!RefsBalanced, C!Fields, CP!Fields,
       C!NoScanWhileConnected, CP!NoScanWhileConnected, C!KeepsTrying,
       CP!KeepsTrying, C!SubscribedOnOwnLink, CP!SubscribedOnOwnLink

\* The client's guarantees hold with this controller.
LEMMA ClientKeeps == Spec => [](/\ C!TypeOK /\ C!RefsBalanced /\ C!NoScanWhileConnected
                                /\ C!KeepsTrying /\ C!SubscribedOnOwnLink)
<1>1. CP!Spec => []CP!TypeOK
  BY CP!TypeCorrect, ClientAssumed
<1>2. CP!Spec => []CP!RefsBalanced
  BY CP!RefsCorrect, ClientAssumed
<1>3. CP!Spec => []CP!NoScanWhileConnected
  BY CP!ScanAlone, ClientAssumed
<1>4. CP!Spec => []CP!KeepsTrying
  BY CP!AlwaysTrying, ClientAssumed
<1>5. CP!Spec => []CP!SubscribedOnOwnLink
  BY CP!SubscriptionsOwn, ClientAssumed
<1> QED BY <1>1, <1>2, <1>3, <1>4, <1>5, ClientSame, ImplementsClient,
        ClientTheorems, PTL

-----------------------------------------------------------------------------
(* Type correctness *)

\* What the system adds to the two.
LinkType == /\ {keyed, secured, refused} \subseteq BOOLEAN
            /\ notify \subseteq Fields /\ heard \in BOOLEAN

LEMMA InitLinkType == Init => LinkType
BY DEF Init, LinkType

LEMMA NextLinkType == LinkType /\ [Next]_vars => LinkType'
<1> SUFFICES ASSUME LinkType, [Next]_vars PROVE LinkType'
  OBVIOUS
<1> USE DEF LinkType
<1>1. CASE ServiceStep \/ ClientStep \/ Match \/ AttemptFails
  BY <1>1 DEF ServiceStep, ClientStep, Match, AttemptFails
<1>2. CASE Join \/ HalfOpen
  <2>1. refused' = (dm' = NULL) /\ UNCHANGED <<keyed, secured, notify, heard>>
    BY <1>2 DEF Join, HalfOpen, NotDiscovering
  <2>2. refused' \in BOOLEAN
    BY <2>1
  <2> QED BY <2>1, <2>2
<1>3. CASE DisplayLoses \/ DisplayRestarts
  BY <1>3 DEF DisplayLoses, DisplayRestarts, DisplayEnds
<1>4. CASE ControllerLoses \/ ControllerRestarts
  BY <1>4 DEF ControllerLoses, ControllerRestarts, ControllerEnds
<1>5. CASE Secure
  BY <1>5 DEF Secure
<1>6. CASE Discover
  <2>1. /\ refused' = ({s[1] : s \in subs'} # Fields)
        /\ UNCHANGED <<keyed, secured, notify, heard>>
    BY <1>6 DEF Discover
  <2>2. refused' \in BOOLEAN
    BY <2>1
  <2> QED BY <2>1, <2>2
<1>7. CASE DiscoveryFails \/ \E s \in subs : CccRefused(s)
  BY <1>7 DEF DiscoveryFails, CccRefused
<1>8. CASE \E f \in Fields : CccWrite(f)
  BY <1>8 DEF CccWrite
<1>9. CASE Change
  BY <1>9 DEF Change
<1>10. CASE Turn
  <2>1. heard' = (heard \/ Hears) /\ UNCHANGED <<keyed, secured, notify, refused>>
    BY <1>10 DEF Turn
  <2>2. heard' \in BOOLEAN
    BY <2>1
  <2> QED BY <2>1, <2>2
<1>11. CASE UNCHANGED vars
  BY <1>11 DEF vars
<1> QED BY <1>1, <1>2, <1>3, <1>4, <1>5, <1>6, <1>7, <1>8, <1>9, <1>10, <1>11
        DEF Next, DisplayWorks, DisplayNotices, LinkWorks

\* The types of both devices and of what is between them.
THEOREM TypeCorrect == Spec => []TypeOK
<1>1. S!TypeOK /\ C!TypeOK /\ LinkType => TypeOK
  BY DEF LinkType, TypeOK
<1> QED BY <1>1, InitLinkType, NextLinkType, ServiceKeeps, ClientKeeps, PTL DEF Spec

-----------------------------------------------------------------------------
(* Notifications to bonded displays only *)

\* A link is secured with a bond at the controller, and that can be deleted
\* under it by bt_unpair only, which tells the stack to end the link.
BondInv == /\ notify # {} => secured
           /\ secured => Display \in links /\ Display \in bonds \cup leaving

\* The service keeps a secured link, and its bond or its way to the end.
LEMMA KeepsSecured ==
    ASSUME ServiceStep, Display \in links, Display \in bonds \cup leaving
    PROVE  Display \in links' /\ (Display \in bonds \cup leaving)'
<1> USE DEF S!hostVars, S!advVars, S!listVars, S!statusVars, S!buttonVars
<1>1. CASE S!Queue
  <2>1. CASE S!PairUnpair
    BY <2>1 DEF S!PairUnpair
  <2>2. CASE ~S!PairUnpair
    BY <1>1, <2>2 DEF S!Queue, S!Dispatch, S!Handle, S!DclkPairing, S!Stop, S!PairStop,
       S!StartsAs, S!PairStart, S!AdvStop, S!AdvClear, S!AdvFill, S!AdvFilled, S!AdvStart
  <2> QED BY <2>1, <2>2
<1>2. CASE S!Callbacks
  BY <1>2 DEF S!Callbacks, S!Callback, S!OnConnected, S!OnConnectFailed, S!OnDisconnected
<1>3. CASE S!DclkInit \/ Edge
  BY <1>3 DEF S!DclkInit, Edge, S!Edge
<1> QED BY <1>1, <1>2, <1>3 DEF ServiceStep

LEMMA InitBond == Init => BondInv
BY DEF Init, BondInv

LEMMA NextBond == BondInv /\ [Next]_vars => BondInv'
<1> SUFFICES ASSUME BondInv, [Next]_vars PROVE BondInv'
  OBVIOUS
<1> USE DEF BondInv, service
<1>1. CASE ServiceStep
  BY <1>1, KeepsSecured DEF ServiceStep
<1>2. CASE ClientStep \/ Match \/ HalfOpen \/ AttemptFails
  BY <1>2 DEF ClientStep, Match, HalfOpen, AttemptFails
<1>3. CASE Join
  BY <1>3 DEF Join, S!Connect
<1>4. CASE DisplayLoses
  BY <1>4 DEF DisplayLoses, DisplayEnds
<1>5. CASE DisplayRestarts
  BY <1>5 DEF DisplayRestarts, DisplayEnds
<1>6. CASE ControllerLoses \/ ControllerRestarts
  BY <1>6 DEF ControllerLoses, ControllerRestarts, ControllerEnds
<1>7. CASE Secure
  BY <1>7 DEF Secure, S!Bond
<1>8. CASE Discover \/ DiscoveryFails
  BY <1>8 DEF Discover, DiscoveryFails
<1>9. CASE \E s \in subs : CccRefused(s)
  BY <1>9 DEF CccRefused
<1>10. CASE \E f \in Fields : CccWrite(f)
  BY <1>10 DEF CccWrite
<1>11. CASE Change \/ Turn
  BY <1>11 DEF Change, Turn
<1>12. CASE UNCHANGED vars
  BY <1>12 DEF vars
<1> QED BY <1>1, <1>2, <1>3, <1>4, <1>5, <1>6, <1>7, <1>8, <1>9, <1>10, <1>11, <1>12
        DEF Next, DisplayWorks, DisplayNotices, LinkWorks

\* No notification goes out but on an authenticated link to a display with a
\* bond, or one whose link is being ended.
THEOREM OnlyBondedNotified == Spec => []NotifiesBonded
<1>1. BondInv => NotifiesBonded
  BY DEF BondInv, NotifiesBonded
<1> QED BY <1>1, InitBond, NextBond, PTL DEF Spec

-----------------------------------------------------------------------------
(* Nobody is stuck *)

\* On a link that the display has, discovery runs, or both subscriptions are
\* made, or the error has been logged.
DiscoverInv == Up => dm # NULL \/ refused \/ Subscribed = Fields

LEMMA InitDiscover == Init => DiscoverInv
BY DEF Init, DiscoverInv, C!Init, Up

LEMMA NextDiscover == C!TypeOK /\ DiscoverInv /\ [Next]_vars => DiscoverInv'
<1> SUFFICES ASSUME C!TypeOK, DiscoverInv, [Next]_vars PROVE DiscoverInv'
  OBVIOUS
<1> USE DEF DiscoverInv, Up, Subscribed
<1>0. link \in [{Conn} -> {"free", "connecting", "up", "closing"}]
  BY DEF C!TypeOK
<1>1. CASE ServiceStep \/ Secure \/ Change \/ Turn \/ \E f \in Fields : CccWrite(f)
  BY <1>1 DEF ServiceStep, Secure, Change, Turn, CccWrite, client
<1>2. CASE ClientStep
  <2>1. CASE C!Starting
    BY <1>2, <2>1 DEF ClientStep, C!Starting, C!InitStep, C!InitStart, C!InitFails,
                      C!linkVars, C!clientVars
  <2>2. CASE C!Disconnected(Conn)
    BY <1>0, <2>2 DEF C!Disconnected
  <2> QED BY <1>2, <2>1, <2>2 DEF ClientStep
<1>3. CASE Match
  <2>1. CASE C!ScanConnecting(Conn, Controller)
    BY <1>0, <2>1 DEF C!ScanConnecting
  <2>2. CASE C!ScanConnectingError
    BY <1>3, <2>2 DEF Match, C!ScanConnectingError, C!linkVars, C!clientVars
  <2> QED BY <1>3, <2>1, <2>2 DEF Match
<1>4. CASE Join \/ HalfOpen
  BY <1>4 DEF Join, HalfOpen, NotDiscovering
<1>5. CASE AttemptFails
  BY <1>0, <1>5 DEF AttemptFails, C!ConnectedError
<1>6. CASE DisplayLoses
  BY <1>0, <1>6 DEF DisplayLoses, C!LinkLost
<1>7. CASE DisplayRestarts
  BY <1>7 DEF DisplayRestarts, C!Restart
<1>8. CASE ControllerLoses \/ ControllerRestarts
  BY <1>8 DEF ControllerLoses, ControllerRestarts, ControllerEnds, client
<1>9. CASE Discover
  BY <1>9 DEF Discover
<1>10. CASE DiscoveryFails \/ \E s \in subs : CccRefused(s)
  BY <1>10 DEF DiscoveryFails, CccRefused
<1>11. CASE UNCHANGED vars
  BY <1>11 DEF vars, client
<1> QED BY <1>1, <1>2, <1>3, <1>4, <1>5, <1>6, <1>7, <1>8, <1>9, <1>10, <1>11
        DEF Next, DisplayWorks, DisplayNotices, LinkWorks

\* A service at rest without the display lets it in, unless it has given up.
LEMMA LetsIn ==
    ASSUME S!TypeOK, S!FilteredIsForBonds, S!ReadyToReconnect, S!Settled,
           Display \notin links, ~GivenUp
    PROVE  Admits
<1>1. links = {}
  BY DEF S!TypeOK
<1>2. S!SlotFree
  <2>1. S!Cardinality(links) = 0
    BY <1>1, FS_EmptySet DEF S!Cardinality, Cardinality
  <2>2. {i \in DOMAIN pending : pending[i] = "disconnected"} = {}
    BY DEF S!Settled
  <2>3. S!Count("disconnected") = 0
    BY <2>2, FS_EmptySet DEF S!Count, S!Cardinality, Cardinality
  <2> QED BY <2>1, <2>3 DEF S!SlotFree
<1>3. ~cut_short
  BY <1>1 DEF GivenUp
<1>4. CASE Display \notin bonds
  BY <1>2, <1>4 DEF GivenUp, Admits, S!Advertising, S!OthersRun, S!Settled
<1>5. CASE Display \in bonds
  <2>1. adv = "open" \/ (adv = "filtered" /\ accept_list = bonds)
    BY <1>1, <1>3, <1>5 DEF S!ReadyToReconnect
  <2> QED BY <1>2, <1>5, <2>1 DEF Admits, S!Advertising, S!OthersRun, S!Settled
<1> QED BY <1>4, <1>5

\* A display without a connection scans, unless it has given up.
LEMMA Scans ==
    ASSUME C!TypeOK, C!RefsBalanced, C!KeepsTrying, ~Booting, ~GivenUp,
           link[Conn] = "free"
    PROVE  scan
<1>1. DCLK_C_conn = NULL
  BY DEF C!TypeOK, C!RefsBalanced
<1>2. init = "done"
  BY DEF Booting, GivenUp
<1> QED BY <1>1, <1>2 DEF C!KeepsTrying, GivenUp

\* Whatever has come before, the two can go on until the display hears the
\* clock and the state, or one of the errors was met.
THEOREM SomeStepRemains == Spec => []NeverStuck
<1>1. ASSUME S!TypeOK, S!FilteredIsForBonds, S!ReadyToReconnect, C!TypeOK,
             C!RefsBalanced, C!KeepsTrying, DiscoverInv, LinkType,
             S!Settled, ~Booting, ~GivenUp
      PROVE  Hears \/ NextStep
  <2>1. link[Conn] \in {"free", "connecting", "up", "closing"}
    BY <1>1 DEF C!TypeOK
  <2>2. CASE link[Conn] \in {"connecting", "closing"}
    BY <2>2 DEF NextStep
  <2>3. CASE Up # (Display \in links)
    BY <2>3 DEF NextStep
  <2>4. CASE link[Conn] = "free" /\ Display \notin links
    BY <1>1, <2>4, LetsIn, Scans DEF NextStep
  <2>5. CASE Joined
    <3>1. CASE ~secured
      BY <1>1, <2>5, <3>1 DEF NextStep, GivenUp
    <3>2. CASE secured /\ dm # NULL
      BY <2>5, <3>2 DEF NextStep
    <3>3. CASE secured /\ dm = NULL
      <4>1. Subscribed = Fields
        BY <1>1, <2>5, <3>3 DEF DiscoverInv, Joined, GivenUp
      <4>2. notify = Fields \/ Subscribed \ notify # {}
        BY <1>1, <4>1 DEF LinkType
      <4> QED BY <2>5, <3>3, <4>1, <4>2 DEF Hears, NextStep
    <3> QED BY <3>1, <3>2, <3>3
  <2> QED BY <2>1, <2>2, <2>3, <2>4, <2>5 DEF Joined, Up
<1>2. /\ S!TypeOK /\ S!FilteredIsForBonds /\ S!ReadyToReconnect /\ C!TypeOK
      /\ C!RefsBalanced /\ C!KeepsTrying /\ DiscoverInv /\ LinkType
      => NeverStuck
  BY <1>1 DEF NeverStuck
<1> QED BY <1>2, ServiceKeeps, ClientKeeps, InitDiscover, NextDiscover, InitLinkType,
        NextLinkType, PTL DEF Spec
=============================================================================

----------------------------- MODULE DclkClient -----------------------------
(***************************************************************************)
(* The display's Bluetooth client (DCLK_client.c): it scans for the shot   *)
(* clock service, connects to the controller that offers it, discovers the *)
(* service and subscribes to the clock and the state.                      *)
(*                                                                         *)
(* All callbacks run one after the other in the stack's threads.  From the *)
(* stack and the scan library the module has what the callbacks rely on:   *)
(* a filter match stops the scan and creates a connection, which the       *)
(* library hands to scan_connecting or reports to scan_connecting_error;   *)
(* the attribute requests of a lost link fail and its volatile             *)
(* subscriptions go before the disconnected callback is made.              *)
(***************************************************************************)
EXTENDS Integers, FiniteSets, Sequences

CONSTANTS Conns,          \* connection objects (CONFIG_BT_MAX_CONN of them)
          Peers,          \* devices in range that offer the service
          Complete,       \* those whose service has all its characteristics
          NULL,           \* no connection, no peer
          InitMayFail,    \* may the calls of dclk_client_init fail?
          ScanMayFail,    \* may bt_scan_start fail?
          CreateMayFail   \* may creating a connection fail?

ASSUME ClientAssumption ==
    /\ IsFiniteSet(Conns) /\ Conns # {} /\ NULL \notin Conns \cup Peers
    /\ Complete \subseteq Peers
    /\ {"zero", "bad"} \cap Peers = {}
    /\ {InitMayFail, ScanMayFail, CreateMayFail} \subseteq BOOLEAN

VARIABLES
    init,          \* where dclk_client_init is
    scan,          \* is the scan running?
    link,          \* per connection object, what the stack knows of it
    peer,          \* per connection object, the device it connects to
    refs,          \* per connection object, the references this code holds
    DCLK_C_conn,   \* the connection in use, or NULL
    dm,            \* the connection discovery runs on, or NULL
    client_conn,   \* DCLK_client.conn
    handles,       \* per field, "zero", "bad" (0xFFFF) or the peer it is of
    subs,          \* subscriptions the stack holds: field, connection, handle
    gave_up        \* (history) an error has been logged that ended the scanning

vars == <<init, scan, link, peer, refs, DCLK_C_conn, dm, client_conn,
          handles, subs, gave_up>>

Fields == {"clock", "state"}
Succ   == [enable |-> "auth", auth |-> "info", info |-> "scan", scan |-> "start"]

Init == /\ init = "enable"
        /\ scan = FALSE
        /\ link = [c \in Conns |-> "free"] /\ peer = [c \in Conns |-> NULL]
        /\ refs = [c \in Conns |-> 0]
        /\ DCLK_C_conn = NULL /\ dm = NULL
        /\ client_conn = NULL /\ handles = [f \in Fields |-> "zero"]
        /\ subs = {}
        /\ gave_up = FALSE

\* The display is unplugged and plugged in: it holds nothing but its bonds.
Restart == /\ init' = "enable"
           /\ scan' = FALSE
           /\ link' = [c \in Conns |-> "free"] /\ peer' = [c \in Conns |-> NULL]
           /\ refs' = [c \in Conns |-> 0]
           /\ DCLK_C_conn' = NULL /\ dm' = NULL
           /\ client_conn' = NULL /\ handles' = [f \in Fields |-> "zero"]
           /\ subs' = {}
           /\ gave_up' = FALSE

-----------------------------------------------------------------------------
(* dclk_client_init *)

scanVars   == <<scan, gave_up>>
linkVars   == <<link, peer, refs, DCLK_C_conn, dm>>
clientVars == <<client_conn, handles, subs>>

\* start_auto_connection: an error is only logged.
StartScan == \/ scan' = TRUE /\ UNCHANGED gave_up
             \/ ScanMayFail /\ gave_up' = TRUE /\ UNCHANGED scan

\* bt_enable, the two registrations and scan_init.
InitStep == /\ init \in DOMAIN Succ
            /\ init' = Succ[init]
            /\ UNCHANGED <<scanVars, linkVars, clientVars>>

InitStart == /\ init = "start"
             /\ StartScan
             /\ init' = "done"
             /\ UNCHANGED <<linkVars, clientVars>>

\* dclk_client_init returns at the first error, with the 0 of success.
InitFails == /\ InitMayFail
             /\ init \in DOMAIN Succ
             /\ init' = "failed"
             /\ UNCHANGED <<scanVars, linkVars, clientVars>>

-----------------------------------------------------------------------------
(* Scanning *)

\* Mutant: the connection is forgotten, its reference is not dropped.
DropConnLeak == DCLK_C_conn' = NULL /\ UNCHANGED refs

\* Mutant: the reference is dropped, the connection is not forgotten.
DropConnKeep == /\ refs' = IF DCLK_C_conn = NULL THEN refs
                           ELSE [refs EXCEPT ![DCLK_C_conn] = @ - 1]
                /\ UNCHANGED DCLK_C_conn

\* bt_conn_unref(DCLK_C_conn); DCLK_C_conn = NULL
DropConn == /\ refs' = IF DCLK_C_conn = NULL THEN refs
                       ELSE [refs EXCEPT ![DCLK_C_conn] = @ - 1]
            /\ DCLK_C_conn' = NULL

\* Mutant: the scan goes on while the connection is created.
ScanConnectingOn(c, p) == /\ scan /\ link[c] = "free"
                          /\ link' = [link EXCEPT ![c] = "connecting"]
                          /\ peer' = [peer EXCEPT ![c] = p]
                          /\ refs' = [refs EXCEPT ![c] = @ + 1]
                          /\ DCLK_C_conn' = c
                          /\ UNCHANGED <<init, scanVars, dm, clientVars>>

\* A match with peer p whose connection is being created: scan_connecting.
ScanConnecting(c, p) == /\ scan /\ link[c] = "free"
                        /\ scan' = FALSE
                        /\ link' = [link EXCEPT ![c] = "connecting"]
                        /\ peer' = [peer EXCEPT ![c] = p]
                        /\ refs' = [refs EXCEPT ![c] = @ + 1]
                        /\ DCLK_C_conn' = c
                        /\ UNCHANGED <<init, dm, gave_up, clientVars>>

\* A match whose connection cannot be created (no memory, the object of the
\* last connection not released yet): scan_connecting_error only logs.
ScanConnectingError == /\ CreateMayFail /\ scan
                       /\ scan' = FALSE
                       /\ gave_up' = TRUE
                       /\ UNCHANGED <<init, linkVars, clientVars>>

-----------------------------------------------------------------------------
(* Connections *)

\* connected, without error: gatt_discover, unless discovery cannot start.
Connected(c) == /\ link[c] = "connecting"
                /\ link' = [link EXCEPT ![c] = "up"]
                /\ \/ c = DCLK_C_conn /\ dm = NULL /\ dm' = c
                   \/ UNCHANGED dm
                /\ UNCHANGED <<init, scanVars, peer, refs, DCLK_C_conn, clientVars>>

\* Mutant: after a failed connection the scan is not started again.
ConnectedErrorQuiet(c) == /\ link[c] = "connecting"
                          /\ link' = [link EXCEPT ![c] = "free"]
                          /\ peer' = [peer EXCEPT ![c] = NULL]
                          /\ DropConn
                          /\ UNCHANGED <<init, scanVars, dm, clientVars>>

\* connected, with an error: it drops whatever connection is in use.
ConnectedError(c) == /\ link[c] = "connecting"
                     /\ link' = [link EXCEPT ![c] = "free"]
                     /\ peer' = [peer EXCEPT ![c] = NULL]
                     /\ DropConn
                     /\ StartScan
                     /\ UNCHANGED <<init, dm, clientVars>>

\* The stack loses the link; discovery_error and the unsubscribed callback
\* only log.
LinkLost(c) == /\ link[c] = "up"
               /\ link' = [link EXCEPT ![c] = "closing"]
               /\ dm' = IF dm = c THEN NULL ELSE dm
               /\ subs' = {s \in subs : s[2] # c}
               /\ UNCHANGED <<init, scanVars, peer, refs, DCLK_C_conn,
                              client_conn, handles>>

\* Mutant: after a disconnection the scan is not started again.
DisconnectedQuiet(c) ==
    /\ link[c] = "closing"
    /\ link' = [link EXCEPT ![c] = "free"]
    /\ peer' = [peer EXCEPT ![c] = NULL]
    /\ IF c = DCLK_C_conn THEN DropConn ELSE UNCHANGED <<refs, DCLK_C_conn>>
    /\ UNCHANGED <<init, scanVars, dm, clientVars>>

Disconnected(c) ==
    /\ link[c] = "closing"
    /\ link' = [link EXCEPT ![c] = "free"]
    /\ peer' = [peer EXCEPT ![c] = NULL]
    /\ IF c = DCLK_C_conn THEN DropConn /\ StartScan
                          ELSE UNCHANGED <<refs, DCLK_C_conn, scanVars>>
    /\ UNCHANGED <<init, dm, clientVars>>

-----------------------------------------------------------------------------
(* Discovery and subscription *)

\* Mutant: the handles of the last peer are not cleared first.
HandlesAssignStale(found) ==
    /\ handles' = [f \in Fields |-> IF f \in found THEN peer[dm] ELSE handles[f]]
    /\ client_conn' = IF found = Fields THEN dm ELSE client_conn

\* dclk_client_handles_assign: every handle is 0xFFFF, then they are filled
\* in one after the other.  It returns early, and leaves the connection
\* alone, at the first that is missing.
HandlesAssign(found) ==
    /\ handles' = [f \in Fields |-> IF f \in found THEN peer[dm] ELSE "bad"]
    /\ client_conn' = IF found = Fields THEN dm ELSE client_conn

\* dclk_client_subscribe, whose two calls succeed for the fields in ok.
\* The bits of conn_state that it sets and clears are read nowhere.
Subscribe(ok) == subs' = subs \cup {<<f, client_conn', handles'[f]>> : f \in ok}

\* What discovery can find of a peer's characteristics, the clock's first.
Found(p) == IF p \in Complete THEN {Fields} ELSE {{}, {"clock"}}

\* discovery_complete: it subscribes whatever the assignment returned.  The
\* calls fail where the connection is missing or is not up.
DiscoveryComplete ==
    /\ dm # NULL
    /\ \E found \in Found(peer[dm]), ok \in SUBSET Fields :
         /\ HandlesAssign(found)
         /\ ok = {} \/ (client_conn' # NULL /\ link[client_conn'] = "up")
         /\ Subscribe(ok)
    /\ dm' = NULL
    /\ UNCHANGED <<init, scanVars, link, peer, refs, DCLK_C_conn>>

\* discovery_service_not_found and discovery_error: nothing is tried again.
DiscoveryFails == /\ dm # NULL
                  /\ dm' = NULL
                  /\ UNCHANGED <<init, scanVars, link, peer, refs, DCLK_C_conn,
                                 clientVars>>

\* on_received without data: the peer refused the subscription or ended it.
Unsubscribed(s) == /\ s \in subs
                   /\ subs' = subs \ {s}
                   /\ UNCHANGED <<init, scanVars, linkVars, client_conn,
                                  handles>>

-----------------------------------------------------------------------------
Starting == InitStep \/ InitStart \/ InitFails
ConnEvent(c) == \/ \E p \in Peers : ScanConnecting(c, p)
                \/ Connected(c) \/ ConnectedError(c)
                \/ LinkLost(c) \/ Disconnected(c)
Discovery == DiscoveryComplete \/ DiscoveryFails

Next == \/ Starting \/ ScanConnectingError \/ Discovery \/ Restart
        \/ (\E c \in Conns : ConnEvent(c))
        \/ \E s \in subs : Unsubscribed(s)

Spec == Init /\ [][Next]_vars

\* dclk_client_init runs, an attempt to connect ends, a discovery ends, and
\* the stack makes the disconnected callback.
Fairness == /\ WF_vars(Starting) /\ WF_vars(Discovery)
            /\ \A c \in Conns : /\ WF_vars(Connected(c) \/ ConnectedError(c))
                                /\ WF_vars(Disconnected(c))

FairSpec == Spec /\ Fairness

-----------------------------------------------------------------------------
(* Properties *)

TypeOK ==
    /\ init \in {"enable", "auth", "info", "scan", "start", "done", "failed"}
    /\ scan \in BOOLEAN
    /\ link \in [Conns -> {"free", "connecting", "up", "closing"}]
    /\ peer \in [Conns -> Peers \cup {NULL}]
    /\ refs \in [Conns -> 0..1]
    /\ {DCLK_C_conn, dm, client_conn} \subseteq Conns \cup {NULL}
    /\ handles \in [Fields -> Peers \cup {"zero", "bad"}]
    /\ subs \subseteq Fields \X Conns \X (Peers \cup {"bad"})
    /\ gave_up \in BOOLEAN

\* One reference is held to the connection in use and none to any other, and
\* that connection is the one the stack has: none leaks, none is dropped
\* twice, whatever order connections fail, end and begin in (scan_connecting,
\* connected, disconnected).
RefsBalanced ==
    \A c \in Conns : /\ refs[c] = IF c = DCLK_C_conn THEN 1 ELSE 0
                     /\ c = DCLK_C_conn <=> link[c] # "free"

\* The display never scans while it has a connection: a match would end the
\* scan, replace DCLK_C_conn and lose the reference it holds.
NoScanWhileConnected == scan => DCLK_C_conn = NULL

\* Every subscription is on the connection in use, and none uses the handles
\* of a peer the display was connected to before, although discovery_complete
\* subscribes after a failed dclk_client_handles_assign too.
SubscribedOnOwnLink ==
    \A s \in subs : /\ s[2] = DCLK_C_conn /\ link[s[2]] = "up"
                    /\ s[3] \in {peer[s[2]], "bad"}

\* After dclk_client_init the display always scans or has a connection,
\* unless start_auto_connection or scan_connecting_error has logged an error:
\* no order of failed attempts, lost links and late callbacks ends the search.
KeepsTrying == init = "done" => scan \/ DCLK_C_conn # NULL \/ gave_up

\* The one connection in use makes the display a Watcher: the scan, the
\* connection objects and the discovery take it through the same phases, with
\* the right handles of its one controller, and only an error leaves it dormant
\* (scan_connecting, connected, disconnected, discovery_complete).
Phase == IF init \notin {"done", "failed"} THEN "booting"
         ELSE IF DCLK_C_conn = NULL THEN IF scan THEN "searching" ELSE "dormant"
         ELSE CASE link[DCLK_C_conn] = "connecting" -> "trying"
                [] link[DCLK_C_conn] = "up"         -> "watching"
                [] OTHER                            -> "over"
Whom  == IF DCLK_C_conn = NULL THEN NULL ELSE peer[DCLK_C_conn]
Hears == {f \in Fields : <<f, DCLK_C_conn, Whom>> \in subs}

Watch == INSTANCE Watcher WITH
             Controllers <- Peers, Nobody <- NULL, phase <- Phase, whom <- Whom,
             hears <- Hears, MayFail <- InitMayFail \/ ScanMayFail \/ CreateMayFail
WatcherPromise == Watch!Spec

\* Whatever attempts fail and links end, the display comes again and again
\* to scan, or to be connected with the link it uses up: it is never left with
\* a connection that is over (connected with an error, disconnected), unless
\* it is unplugged for ever or an error has stopped it.
ScansAgain ==
    \/ []<><<Restart>>_vars
    \/ []<>(\/ gave_up \/ init = "failed"
           \/ scan \/ \E c \in Conns : c = DCLK_C_conn /\ link[c] = "up")
=============================================================================

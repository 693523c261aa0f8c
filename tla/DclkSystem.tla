----------------------------- MODULE DclkSystem -----------------------------
(***************************************************************************)
(* The controller's service and the display's client over one link, with   *)
(* what both sides keep of it: a link can end at one side and still be     *)
(* believed in at the other, the bond can be deleted at one side only, and *)
(* either device can restart.  Over the link go the subscription and the   *)
(* notifications of dclk_app, which carry what its turn has read.          *)
(***************************************************************************)
EXTENDS Integers, Sequences, FiniteSets

CONSTANTS Display, Controller,  \* the two devices
          Conn,                 \* the display's one connection object
          NULL,
          PairTrigger,          \* the levels of the pair button that interrupt
          MayFail               \* may calls into the stack return errors?

ASSUME SystemAssumption ==
    /\ NULL \notin {Display, Controller, Conn} /\ MayFail \in BOOLEAN
    /\ PairTrigger \subseteq {0, 1}
    /\ Controller \notin {"zero", "bad"}

VARIABLES
    pin, val, evt, wq, at, started, ready, adv, accept_list, todo, bond_cnt, bonds,
    links, leaving, pending, num_conn, pair_en, cut_short,  \* see DclkService
    init, scan, link, peer, refs, DCLK_C_conn, dm, client_conn, handles,
    subs, gave_up,                                          \* see DclkClient
    keyed,     \* does the display's flash hold a bond with the controller?
    secured,   \* is the link encrypted with an authenticated key?
    notify,    \* fields f for which notify_f_enabled is set
    heard,     \* has the display received, in one turn of dclk_app, the clock
               \* and the state that the next turn will read?
    refused    \* (history) an error of discovery or of a subscription has been
               \* logged on the display's present link

S == INSTANCE DclkService WITH Peers <- {Display}, MaxConn <- 1
C == INSTANCE DclkClient WITH Conns <- {Conn}, Peers <- {Controller},
                              Complete <- {Controller}, InitMayFail <- MayFail,
                              ScanMayFail <- MayFail, CreateMayFail <- MayFail

service == <<pin, val, evt, wq, at, started, ready, adv, accept_list, todo,
             bond_cnt, bonds, links, leaving, pending, num_conn, pair_en, cut_short>>
client  == <<init, scan, link, peer, refs, DCLK_C_conn, dm, client_conn,
             handles, subs, gave_up>>
vars == <<service, client, keyed, secured, notify, heard, refused>>

Fields == C!Fields

Up      == link[Conn] = "up"
Joined  == Up /\ Display \in links
Admits  == /\ S!Advertising /\ S!OthersRun
           /\ adv = "filtered" => Display \in accept_list

\* A display reflashed or a controller that was never paired: any bonds.
Init == /\ S!Init /\ C!Init /\ pin = 0
        /\ keyed \in BOOLEAN /\ secured = FALSE
        /\ notify = {} /\ heard = FALSE
        /\ refused = FALSE

-----------------------------------------------------------------------------
(* Steps of one side that the other does not see *)

\* Bound: the pair button is pushed and released while the work queue is idle.
Edge == S!Edge /\ wq = <<>> /\ at = "idle"

ServiceStep == /\ \/ S!Queue \/ S!Callbacks \/ S!DclkInit \/ Edge
               /\ UNCHANGED <<client, keyed, secured, notify, heard, refused>>

ClientStep == /\ C!Starting \/ C!Disconnected(Conn)
              /\ UNCHANGED <<service, keyed, secured, notify, heard, refused>>

\* The subscriptions are of the connection: they end with it, and the stack
\* calls dclk_ccc_state_cfg_changed and dclk_ccc_clock_cfg_changed.
ControllerEnds == /\ secured' = FALSE /\ notify' = {}
                  /\ UNCHANGED <<client, keyed, heard, refused>>

ControllerRestarts == S!Restart /\ ControllerEnds

DisplayEnds == /\ refused' = FALSE
               /\ UNCHANGED <<service, keyed, secured, notify>>

DisplayRestarts == C!Restart /\ DisplayEnds /\ heard' = FALSE

-----------------------------------------------------------------------------
(* The link *)

\* The display sees an advertisement, whether or not it will be let in.
Match == /\ S!Advertising
         /\ C!ScanConnecting(Conn, Controller) \/ C!ScanConnectingError
         /\ UNCHANGED <<service, keyed, secured, notify, heard, refused>>

\* gatt_discover fails to start on a link that is up.
NotDiscovering == refused' = (dm' = NULL)

Join == /\ C!Connected(Conn) /\ S!Connect(Display)
        /\ NotDiscovering
        /\ UNCHANGED <<keyed, secured, notify, heard>>

\* The display's request is not answered: to the display the link is up until
\* its supervision timeout, or the attempt fails.
HalfOpen == /\ C!Connected(Conn)
            /\ NotDiscovering
            /\ UNCHANGED <<service, keyed, secured, notify, heard>>

AttemptFails == /\ C!ConnectedError(Conn)
                /\ UNCHANGED <<service, keyed, secured, notify, heard, refused>>

\* Either side loses the link by itself; the other hears of it later.
DisplayLoses    == C!LinkLost(Conn) /\ DisplayEnds /\ UNCHANGED heard
ControllerLoses == S!Disconnect(Display) /\ ControllerEnds

\* bt_conn_set_security in connected: without a key of its own the display
\* pairs, which auth_pairing and passkey_confirm accept at any time; with one
\* the controller must have it too.  Subscriptions kept with a bond come back.
Secure == /\ Joined /\ ~secured
          /\ keyed => Display \in bonds
          /\ S!Bond(Display)
          /\ keyed' = TRUE /\ secured' = TRUE
          /\ IF keyed THEN notify' \in {notify, Fields} ELSE UNCHANGED notify
          /\ UNCHANGED <<client, heard, refused>>

-----------------------------------------------------------------------------
(* Discovery, subscription and notifications *)

\* Discovery needs the controller's answers.
Discover == /\ Joined
            /\ C!DiscoveryComplete
            /\ refused' = ({s[1] : s \in subs'} # Fields)
            /\ UNCHANGED <<service, keyed, secured, notify, heard>>

DiscoveryFails == /\ C!DiscoveryFails
                  /\ refused' = TRUE
                  /\ UNCHANGED <<service, keyed, secured, notify, heard>>

\* Mutant: both handlers set the flag of the state.
CccWriteState(f) == /\ Joined /\ secured /\ f \notin notify
                    /\ \E s \in subs : s[1] = f
                    /\ notify' = notify \cup {"state"}
                    /\ UNCHANGED <<service, client, keyed, secured, heard, refused>>

\* Mutant: the descriptors can be written on any link.
CccWriteOpen(f) == /\ Joined /\ f \notin notify
                   /\ \E s \in subs : s[1] = f
                   /\ notify' = notify \cup {f}
                   /\ UNCHANGED <<service, client, keyed, secured, heard, refused>>

\* The write to the CCC descriptor needs an authenticated link; the handler of
\* the controller that it calls sets the field's flag.
CccWrite(f) == /\ Joined /\ secured /\ f \notin notify
               /\ \E s \in subs : s[1] = f
               /\ notify' = notify \cup {f}
               /\ UNCHANGED <<service, client, keyed, secured, heard, refused>>

\* Without one it is refused, which on_received reports.
CccRefused(s) == /\ Joined /\ ~secured
                 /\ C!Unsubscribed(s)
                 /\ refused' = TRUE
                 /\ UNCHANGED <<service, keyed, secured, notify, heard>>

\* The clock goes on, or a button changes it: what was heard is old.
Change == /\ heard' = FALSE
          /\ UNCHANGED <<service, client, keyed, secured, notify, refused>>

\* on_received tells the notifications apart by the handle subscribed to;
\* those of no subscription the display's stack drops.
Subscribed == {s[1] : s \in subs}

\* Both callbacks of the display get what the controller sends, and go on.
Hears == Joined /\ notify = Fields /\ Subscribed = Fields

\* A turn of dclk_app: dclk_send_clock_notify and dclk_send_state_notify.
Turn == /\ S!OthersRun
        /\ Display \in links
        /\ heard' = (heard \/ Hears)
        /\ UNCHANGED <<service, client, keyed, secured, notify, refused>>

-----------------------------------------------------------------------------
\* A side that has the link notices that the other has not, or ends it.
DisplayNotices    == Display \notin links /\ DisplayLoses
ControllerNotices == (~Up \/ Display \in leaving) /\ ControllerLoses

\* What the display does next while the two are not connected: at every point
\* of its way there is one such step.
DisplayWorks == ClientStep \/ Match \/ Join \/ HalfOpen \/ AttemptFails \/ DisplayNotices

\* What is done once on each link.
LinkWorks == Secure \/ Discover \/ \E f \in Fields : CccWrite(f)

\* A display that boots has nothing to do with the controller: its steps are
\* taken first, which saves states and leaves no outcome out.
Booting == init \notin {"done", "failed"}

Next == \/ Booting /\ ClientStep
        \/ /\ ~Booting
           /\ \/ ServiceStep \/ DisplayWorks \/ LinkWorks \/ Turn
              \/ DisplayLoses \/ ControllerLoses
              \/ DiscoveryFails \/ \E s \in subs : CccRefused(s)
              \/ Change \/ ControllerRestarts \/ DisplayRestarts

Spec == Init /\ [][Next]_vars

\* Both devices do their work, the radio is heard as long as both sides keep
\* the link, and a side whose peer has lost it notices.  Nothing else: no press,
\* no restart, no loss has to happen.
Fairness == /\ WF_vars(S!Queue /\ ServiceStep)
            /\ WF_vars((S!Callbacks \/ S!DclkInit) /\ ServiceStep)
            /\ WF_vars(DisplayWorks) /\ WF_vars(ControllerNotices)
            /\ WF_vars(LinkWorks) /\ WF_vars(Turn)

FairSpec == Spec /\ Fairness

-----------------------------------------------------------------------------
(* Properties *)

TypeOK == /\ S!TypeOK /\ C!TypeOK
          /\ {keyed, secured, refused} \subseteq BOOLEAN
          /\ notify \subseteq Fields /\ heard \in BOOLEAN

\* What people and the radio do to the two.  An attempt that the controller
\* would not have let in is none of it.
Disturbance == \/ Edge \/ Change \/ ControllerRestarts \/ DisplayRestarts
               \/ Admits /\ (HalfOpen \/ AttemptFails)
               \/ Joined /\ Display \notin leaving /\ (DisplayLoses \/ ControllerLoses)

\* Where the code gives up by itself: at the display after an error, at the
\* controller after an error of dclk_init, of stopping its advertising or of
\* setting it up, on a link after an error in discovery or subscription; and without a bond the controller
\* lets nobody in who has not come to pair.
GivenUp == \/ init = "failed" \/ gave_up
           \/ cut_short /\ links = {}
           \/ refused
           \/ Display \notin bonds /\ (keyed \/ adv # "open")

\* The clock and the state are notified on an authenticated link only, to a
\* display whose bond is stored or whose link is being ended: neither a lost
\* link, a deleted bond nor a restart leaves a subscription to somebody else
\* (dclk_svc's permissions, pair_DCLK).
NotifiesBonded == notify # {} => secured /\ Display \in links
                                 /\ Display \in bonds \cup leaving

\* What the two devices can do by themselves so that the display comes to hear:
\* end an attempt or a link, match and be let in, or finish what is to be done
\* on a link.
NextStep == \/ link[Conn] \in {"connecting", "closing"}
            \/ Up # (Display \in links) \/ Display \in leaving
            \/ scan /\ Admits
            \/ Joined /\ \/ ~secured /\ (keyed => Display \in bonds)
                         \/ dm # NULL
                         \/ secured /\ Subscribed \ notify # {}

\* There is always such a step, in whatever order links, errors, restarts and
\* presses of pair have come, until the display hears each turn of dclk_app or
\* one of the errors was met that end the attempts.
NeverStuck == S!Settled /\ ~Booting /\ ~GivenUp => Hears \/ NextStep

\* Once nobody presses, restarts or disturbs, the display has heard the clock
\* and the state of dclk_app's turn and goes on hearing them, whichever side
\* lost the link first and whatever it had to set up again, unless one of
\* the errors above was met.
DisplayFollows == []<><<Disturbance>>_vars \/ <>[](heard \/ GivenUp)

\* And both programs agree about the link, errors or not: one that only one of
\* them believes in does not last, neither in the display's DCLK_C_conn nor in
\* the controller's num_conn.
EndsAgree == \/ []<><<Disturbance>>_vars
             \/ []<>(/\ Up <=> Display \in links
                    /\ DCLK_C_conn # NULL <=> num_conn = 1)
=============================================================================

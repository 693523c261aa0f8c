---------------------------- MODULE DclkService ----------------------------
(***************************************************************************)
(* The controller's Bluetooth service (DCLK.c): advertising, the accept    *)
(* list, bonds, connections, and the pair button that switches between     *)
(* open advertising and advertising to bonded displays only.               *)
(*                                                                         *)
(* advertise_DCLK, pair_DCLK and the pair button's handler are items of    *)
(* one cooperative work queue.  The handlers of the first two wait for the *)
(* Bluetooth controller at every call they make: other threads, and so the *)
(* stack's callbacks, run between their steps.  The button's handler never *)
(* waits, so only interrupts come between its steps.                       *)
(*                                                                         *)
(* Of the Zephyr stack the module has what DCLK.c relies on.  A connection *)
(* suspends advertising, and since the parameters lack ONE_TIME it resumes *)
(* by itself when a connection slot is free again: adv is what has been    *)
(* asked for, Advertising says whether it is on the air.                   *)
(***************************************************************************)
EXTENDS Integers, Sequences, FiniteSets, WorkQueue, Descent

CONSTANTS Peers,     \* displays within reach
          MaxConn,   \* CONFIG_BT_MAX_CONN (1 to 250 in its Kconfig)
          PairTrigger, \* the levels of the pair button that raise its interrupt
          MayFail    \* may calls into the stack return errors?

ASSUME ServiceAssumption ==
    /\ IsFiniteSet(Peers) /\ MaxConn \in 1..255 /\ MayFail \in BOOLEAN
    /\ PairTrigger \subseteq {0, 1}

VARIABLES
    pin, val, evt,   \* the pair button, see ControllerClock
    wq, at,          \* the work queue and where its current handler is
    started,         \* dclk_init has returned, with an error or without
    ready,           \* Bluetooth is enabled and the bonds are loaded
    adv,             \* advertising asked for: "off", "open" or "filtered"
    accept_list,
    todo, bond_cnt,  \* bond slots bt_foreach_bond has still to visit; the count
    bonds,           \* peers with a stored key
    links,           \* connected peers
    leaving,         \* links the stack has been told to terminate
    pending,         \* callbacks the stack has still to make, in order
    num_conn, pair_en, \* dclk_status
    cut_short          \* (history) an error, of dclk_init or of a call since
                       \* bt_le_adv_stop, that one included, has kept advertising
                       \* from being set up

buttonVars == <<pin, val, evt>>
hostVars   == <<bonds, links, leaving>>
listVars   == <<accept_list, todo, bond_cnt>>
statusVars == <<num_conn, pair_en>>
advVars    == <<adv, cut_short>>
bootVars   == <<started, ready>>
vars == <<buttonVars, wq, at, bootVars, adv, listVars, hostVars, pending, statusVars,
          cut_short>>

Adv  == "advertise_DCLK_work"
Pair == "pair_DCLK_work"
Button == "pair"
Works == {Adv, Pair, Button}
Labels == {"idle", "handle", "pair_enable",
           "pair_stop", "pair_unpair", "pair_start",
           "adv_stop", "adv_clear", "adv_fill", "adv_start"}

\* Threads other than the queue's run only while its handler waits.
OthersRun == at \notin {"handle", "pair_enable"}

Count(e) == Cardinality({i \in DOMAIN pending : pending[i] = e})

\* A connection object is free again after the disconnected callback.
SlotFree == Cardinality(links) + Count("disconnected") < MaxConn
Advertising == adv # "off" /\ SlotFree

\* The Bluetooth controller refuses to change an accept list it is using.
FilterInUse == adv = "filtered" /\ Advertising

-----------------------------------------------------------------------------
Init == /\ pin \in {0, 1} /\ val = 1 /\ evt = 0
        /\ wq = <<>> /\ at = "idle"
        /\ started = FALSE /\ ready = FALSE
        /\ adv = "off"
        /\ accept_list = {} /\ todo = {} /\ bond_cnt = 0
        /\ bonds \in SUBSET Peers
        /\ links = {} /\ leaving = {}
        /\ pending = <<>>
        /\ num_conn = 0 /\ pair_en = FALSE
        /\ cut_short = FALSE

\* Power off and on: the bonds are in flash, everything else is gone.
Restart == /\ val' = 1 /\ evt' = 0
           /\ wq' = <<>> /\ at' = "idle"
           /\ started' = FALSE /\ ready' = FALSE
           /\ adv' = "off"
           /\ accept_list' = {} /\ todo' = {} /\ bond_cnt' = 0
           /\ links' = {} /\ leaving' = {}
           /\ pending' = <<>>
           /\ num_conn' = 0 /\ pair_en' = FALSE
           /\ cut_short' = FALSE
           /\ UNCHANGED <<pin, bonds>>

\* dclk_init, in main(): buttons work before it and pairing can be asked for.
\* Any of its calls may report an error, settings_load after it has loaded the
\* bonds too: it returns, main() ends, and all else goes on.
DclkInit == /\ OthersRun /\ ~started
            /\ started' = TRUE
            /\ \/ /\ ready' = TRUE
                  /\ wq' = Submit(wq, Adv)
                  /\ UNCHANGED cut_short
               \/ /\ MayFail
                  /\ ready' \in BOOLEAN /\ cut_short' = TRUE
                  /\ UNCHANGED wq
            /\ UNCHANGED <<buttonVars, at, adv, listVars, hostVars, pending,
                           statusVars>>

-----------------------------------------------------------------------------
(* The pair button *)

\* button_event_cb, if that level interrupts: interface_init asks for it with
\* GPIO_ACTIVE_LOW, which is not an interrupt flag.
Edge == /\ pin' = 1 - pin
        /\ IF pin' \in PairTrigger THEN val' = pin' /\ wq' = Submit(wq, Button)
                                  ELSE UNCHANGED <<val, wq>>
        /\ UNCHANGED <<evt, at, bootVars, advVars, listVars, hostVars, pending, statusVars>>

\* The queue thread takes its next item.
Dispatch == /\ at = "idle" /\ wq # <<>>
            /\ at' = CASE Head(wq) = Adv    -> "adv_stop"
                       [] Head(wq) = Pair   -> "pair_stop"
                       [] Head(wq) = Button -> "handle"
            /\ wq' = Tail(wq)
            /\ UNCHANGED <<buttonVars, bootVars, advVars, listVars, hostVars, pending,
                           statusVars>>

Handle == /\ at = "handle"
          /\ evt' = val
          /\ at' = "pair_enable"
          /\ UNCHANGED <<pin, val, wq, bootVars, advVars, listVars, hostVars, pending,
                         statusVars>>

\* Mutant: releasing the button does not submit advertise_DCLK.
DclkPairingOn == /\ at = "pair_enable"
                 /\ pair_en' = (evt = 1)
                 /\ wq' = IF evt = 1 THEN Submit(wq, Pair) ELSE wq
                 /\ at' = "idle"
                 /\ UNCHANGED <<buttonVars, bootVars, advVars, listVars, hostVars,
                                pending, num_conn>>

\* pair_cb and dclk_pairing
DclkPairing == /\ at = "pair_enable"
               /\ pair_en' = (evt = 1)
               /\ wq' = Submit(wq, IF evt = 1 THEN Pair ELSE Adv)
               /\ at' = "idle"
               /\ UNCHANGED <<buttonVars, bootVars, advVars, listVars, hostVars,
                              pending, num_conn>>

-----------------------------------------------------------------------------
(* pair_DCLK *)

\* bt_le_adv_stop, the first call of both handlers, which ignore its error.
Stop(from, to) == /\ at = from /\ at' = to
                  /\ \/ adv' = "off" /\ cut_short' = FALSE
                     \/ MayFail /\ adv # "off" /\ cut_short' = TRUE /\ UNCHANGED adv
                  /\ UNCHANGED <<buttonVars, wq, bootVars, listVars, hostVars,
                                 pending, statusVars>>

PairStop == Stop("pair_stop", "pair_unpair")

\* Mutant: the links of all deleted bonds are ended, the lost ones too.
PairUnpairAll == /\ at = "pair_unpair"
                 /\ at' = "pair_start"
                 /\ bonds' = IF ready THEN {} ELSE bonds
                 /\ leaving' = IF ready THEN leaving \cup bonds ELSE leaving
                 /\ UNCHANGED <<buttonVars, wq, bootVars, advVars, listVars, links,
                                pending, statusVars>>

\* bt_unpair for every bond: the stack forgets the keys and terminates the
\* connections of those peers.  Before dclk_init it knows no bonds yet.  After an
\* error, which is logged, the bonds are kept and pairing goes on all the same.
PairUnpair == /\ at = "pair_unpair"
              /\ at' = "pair_start"
              /\ \/ /\ ready
                    /\ bonds' = {} /\ leaving' = leaving \cup (links \cap bonds)
                 \/ (MayFail \/ ~ready) /\ UNCHANGED <<bonds, leaving>>
              /\ UNCHANGED <<buttonVars, wq, bootVars, advVars, listVars, links,
                             pending, statusVars>>

\* bt_le_adv_start, which the stack refuses if advertising could not be stopped;
\* on an error the handler returns.
StartsAs(mode) == /\ \/ /\ ready /\ adv = "off"
                        /\ adv' = mode /\ cut_short' = FALSE
                     \/ /\ MayFail \/ ~ready
                        /\ cut_short' = TRUE /\ UNCHANGED adv
                  /\ at' = "idle"
                  /\ UNCHANGED <<buttonVars, wq, bootVars, listVars, hostVars,
                                 pending, statusVars>>

PairStart == at = "pair_start" /\ StartsAs("open")

-----------------------------------------------------------------------------
(* advertise_DCLK with setup_accept_list *)

AdvStop == Stop("adv_stop", "adv_clear")

\* Mutant: the accept list is not cleared first.
AdvClearNot == /\ at = "adv_clear"
               /\ ready
               /\ todo' = Peers /\ bond_cnt' = 0
               /\ at' = "adv_fill"
               /\ UNCHANGED <<buttonVars, wq, bootVars, advVars, accept_list, hostVars,
                              pending, statusVars>>

AdvClear == /\ at = "adv_clear"
            /\ \/ /\ ready /\ ~FilterInUse
                  /\ accept_list' = {} /\ todo' = Peers /\ bond_cnt' = 0
                  /\ at' = "adv_fill"
                  /\ UNCHANGED cut_short
               \/ /\ MayFail \/ ~ready
                  /\ at' = "idle" /\ cut_short' = TRUE
                  /\ UNCHANGED listVars
            /\ UNCHANGED <<buttonVars, wq, bootVars, adv, hostVars, pending, statusVars>>

\* setup_accept_list_cb for the bond in slot p, if there is one; after an
\* error (bond_cnt = -1) the other bonds are passed over.
AdvFill(p) == /\ at = "adv_fill" /\ p \in todo
              /\ todo' = todo \ {p}
              /\ \/ /\ p \in bonds /\ bond_cnt >= 0 /\ ~FilterInUse
                    /\ accept_list' = accept_list \cup {p}
                    /\ bond_cnt' = bond_cnt + 1
                    /\ UNCHANGED cut_short
                 \/ /\ p \in bonds /\ bond_cnt >= 0 /\ MayFail
                    /\ bond_cnt' = -1 /\ cut_short' = TRUE
                    /\ UNCHANGED accept_list
                 \/ /\ p \notin bonds \/ bond_cnt < 0
                    /\ UNCHANGED <<accept_list, bond_cnt, cut_short>>
              /\ UNCHANGED <<buttonVars, wq, at, bootVars, adv, hostVars, pending,
                             statusVars>>

\* Mutant: without bonds advertise_DCLK submits itself again.
AdvFilledRetry == /\ at = "adv_fill" /\ todo = {}
                  /\ at' = IF bond_cnt > 0 THEN "adv_start" ELSE "idle"
                  /\ wq' = IF bond_cnt > 0 THEN wq ELSE Submit(wq, Adv)
                  /\ bond_cnt' = 0
                  /\ UNCHANGED <<buttonVars, bootVars, advVars, accept_list, todo,
                                 hostVars, pending, statusVars>>

\* Without a bond, or after an error, nothing is advertised.  bond_cnt ends with
\* setup_accept_list.
AdvFilled == /\ at = "adv_fill" /\ todo = {}
             /\ at' = IF bond_cnt > 0 THEN "adv_start" ELSE "idle"
             /\ bond_cnt' = 0
             /\ UNCHANGED <<buttonVars, wq, bootVars, advVars, accept_list, todo,
                            hostVars, pending, statusVars>>

AdvStart == at = "adv_start" /\ StartsAs("filtered")

-----------------------------------------------------------------------------
(* Peers, and the callbacks of the stack *)

HostStep == /\ OthersRun /\ ready
            /\ UNCHANGED <<buttonVars, at, bootVars, advVars, listVars>>

Connect(p) == /\ HostStep
              /\ Advertising /\ p \notin links
              /\ adv = "filtered" => p \in accept_list
              /\ links' = links \cup {p}
              /\ pending' = Append(pending, "connected")
              /\ UNCHANGED <<wq, bonds, leaving, statusVars>>

\* A connection that could not be established.
ConnectFails == /\ HostStep
                /\ Advertising /\ pending = <<>>
                /\ pending' = <<"failed">>
                /\ UNCHANGED <<wq, hostVars, statusVars>>

\* Pairing succeeds: auth_pairing and passkey_confirm accept it.
Bond(p) == /\ HostStep
           /\ p \in links \ leaving
           /\ bonds' = bonds \cup {p}
           /\ UNCHANGED <<wq, links, leaving, pending, statusVars>>

Disconnect(p) == /\ HostStep
                 /\ p \in links
                 /\ links' = links \ {p} /\ leaving' = leaving \ {p}
                 /\ pending' = Append(pending, "disconnected")
                 /\ UNCHANGED <<wq, bonds, statusVars>>

\* The next callback: a uint8_t count and, to reconnect, advertise_DCLK.
Callback(e) == /\ HostStep
               /\ pending # <<>> /\ Head(pending) = e
               /\ pending' = Tail(pending)
               /\ UNCHANGED <<hostVars, pair_en>>

OnConnected == /\ Callback("connected")
               /\ num_conn' = (num_conn + 1) % 256
               /\ UNCHANGED wq

\* Mutant: a connection that failed is counted.
OnConnectFailedCounts == /\ Callback("failed")
                         /\ num_conn' = (num_conn + 1) % 256
                         /\ wq' = Submit(wq, Adv)

OnConnectFailed == /\ Callback("failed")
                   /\ wq' = Submit(wq, Adv)
                   /\ UNCHANGED num_conn

\* Mutant: a disconnection does not submit advertise_DCLK.
OnDisconnectedQuiet == /\ Callback("disconnected")
                       /\ num_conn' = (num_conn + 255) % 256
                       /\ UNCHANGED wq

\* Mutant: a disconnection is not counted.
OnDisconnectedUncounted == /\ Callback("disconnected")
                           /\ wq' = Submit(wq, Adv)
                           /\ UNCHANGED num_conn

OnDisconnected == /\ Callback("disconnected")
                  /\ num_conn' = (num_conn + 255) % 256
                  /\ wq' = Submit(wq, Adv)

-----------------------------------------------------------------------------
Queue == \/ Dispatch \/ Handle \/ DclkPairing
         \/ PairStop \/ PairUnpair \/ PairStart
         \/ AdvStop \/ AdvClear \/ (\E p \in Peers : AdvFill(p)) \/ AdvFilled
         \/ AdvStart

Callbacks == OnConnected \/ OnConnectFailed \/ OnDisconnected

Remote == \/ \E p \in Peers : Connect(p) \/ Bond(p) \/ Disconnect(p)
          \/ ConnectFails

Next == Queue \/ Callbacks \/ Remote \/ DclkInit \/ Edge \/ Restart

Spec == Init /\ [][Next]_vars

\* The queue thread and the stack make progress, links that are to be
\* terminated end, and main() reaches dclk_init.
Fairness == /\ WF_vars(Queue) /\ WF_vars(Callbacks) /\ WF_vars(DclkInit)
            /\ \A p \in Peers : WF_vars(p \in leaving /\ Disconnect(p))

FairSpec == Spec /\ Fairness

-----------------------------------------------------------------------------
(* Properties *)

TypeOK ==
    /\ pin \in {0, 1} /\ val \in {0, 1} /\ evt \in {0, 1}
    /\ wq \in Seq(Works) /\ Distinct(wq) /\ at \in Labels
    /\ started \in BOOLEAN /\ ready \in BOOLEAN
    /\ adv \in {"off", "open", "filtered"}
    /\ accept_list \subseteq Peers /\ todo \subseteq Peers
    /\ bond_cnt \in -1..Cardinality(Peers)
    /\ bonds \subseteq Peers /\ links \subseteq Peers /\ leaving \subseteq links
    /\ pending \in Seq({"connected", "failed", "disconnected"})
    /\ num_conn \in 0..255 /\ pair_en \in BOOLEAN /\ cut_short \in BOOLEAN

\* num_conn is the number of links but for the callbacks still to come: it
\* never wraps below zero, whatever fails or is cut in between.
NumConnCounts ==
    num_conn + Count("connected") = Cardinality(links) + Count("disconnected")

\* Advertising to known displays lets in no display whose bond has been
\* deleted, and there is a bond it is for, unless bt_le_adv_stop has failed: then
\* bonds are deleted and the list is cleared behind advertising that goes on.
FilteredIsForBonds ==
    adv = "filtered" /\ ~cut_short => accept_list # {} /\ accept_list \subseteq bonds

Settled == wq = <<>> /\ at = "idle" /\ pending = <<>> /\ started

\* With the pair button released and everything handled nothing is left open
\* to unknown displays, however edges, disconnects and work items met, if the
\* release interrupts and unless bt_le_adv_stop has failed.
NotLeftOpen == 0 \in PairTrigger /\ Settled /\ pin = 0 => adv # "open" \/ cut_short

\* Then, and without connections, every bonded display and no other can
\* connect again, or while pairing is on any display, unless dclk_init failed or
\* an error cut the last set-up short: what earlier errors, restarts and races left behind is
\* repaired by the next event.
ReadyToReconnect ==
    Settled /\ links = {} /\ ~cut_short =>
        \/ pair_en /\ adv = "open"
        \/ IF bonds = {} THEN adv = "off" ELSE adv = "filtered" /\ accept_list = bonds

Gate == CASE adv = "off" -> "shut" [] adv = "open" -> "open" [] OTHER -> "known"

\* Who gets connected is as in Admission, however work items, callbacks, errors
\* and restarts are interleaved: with what advertise_DCLK set up only displays
\* with a stored bond; bonds are deleted only off the air, or behind a gate that
\* is stuck since bt_le_adv_stop failed, and not without ending the links of
\* those displays.
Admit == INSTANCE Admission WITH Displays <- Peers, Room <- MaxConn, MayJam <- MayFail,
                                 gate <- Gate, stuck <- cut_short /\ adv # "off",
                                 keys <- bonds, guests <- links, expelled <- leaving
AdmissionPromise == Admit!Spec

\* What is ahead of the service by itself: dclk_init, callbacks, a press to be
\* handled, work items, and steps of the current handler; the earlier may add
\* to the later.
Presses == (IF Contains(wq, Button) THEN 3 ELSE 0)
           + (CASE at = "handle" -> 2 [] at = "pair_enable" -> 1 [] OTHER -> 0)
StepsLeft == CASE at = "adv_stop"    -> Cardinality(Peers) + 4
               [] at = "adv_clear"   -> Cardinality(Peers) + 3
               [] at = "adv_fill"    -> Cardinality(todo) + 2
               [] at = "pair_stop"   -> 3
               [] at = "pair_unpair" -> 2
               [] at \in {"adv_start", "pair_start"} -> 1
               [] OTHER -> 0
Ahead == <<IF started THEN 0 ELSE 1, Len(pending), Presses, Len(wq), StepsLeft>>

\* Work items that callbacks and handlers submit again and again do not keep
\* the service busy: every step of its own brings it nearer to its rest, which
\* is reached when nothing is ahead.
WindsDown == [][/\ Queue \/ Callbacks \/ DclkInit => Fewer(Ahead', Ahead)
                /\ Ahead = <<0, 0, 0, 0, 0>> <=> Settled]_vars

\* Unless there are presses, restarts, or peers coming and going for ever,
\* the service comes to rest.
ComesToRest == []<><<Edge \/ Restart \/ Remote>>_vars \/ <>[]Settled

(* What documents say and the code does not do. *)

\* DCLK.h: dclk_pairing "starts or stops advertizing immediately and sets the
\* pairing state to enable": while pair_en is set and a display could connect
\* the service is open for it.
PairingIsOpen == Settled /\ pair_en /\ SlotFree => adv = "open"

\* Of all behaviours those in which the pair button is only pushed while a
\* display is connected and the service at rest.
PushedWhileConnected ==
    Init /\ [][Next /\ (Edge /\ pin' = 1 => Settled /\ links # {})]_vars
=============================================================================

-------------------------- MODULE ControllerClock --------------------------
(***************************************************************************)
(* The controller's shot clock: button interrupts and the work items they  *)
(* submit (Interface.c), the button callbacks, the count-down timer and    *)
(* the sleep timer, the boot sequence in main() and power off (main.c).    *)
(*                                                                         *)
(* Who runs when.  Button and timer interrupts preempt everything.  The    *)
(* system work queue is a cooperative thread: only interrupts come between *)
(* the steps of a handler, and main() (priority 0) and dclk_app (priority  *)
(* 5) run only while it has nothing to do.  dclk_app gets its first turn   *)
(* when main() first blocks, on the display or on Bluetooth.               *)
(*                                                                         *)
(* Time is counted in ticks of a length the constants fix; events of one   *)
(* tick happen in any order.  A timer is Off or the ticks it has left; one *)
(* that has 0 left fires before the next tick.                             *)
(***************************************************************************)
EXTENDS Integers, Sequences, FiniteSets, WorkQueue, Descent

CONSTANTS Buttons,     \* the buttons that are set up
          Trigger,     \* per button, the levels whose edge raises its interrupt
          ClockReset,  \* CLOCK_RESET_VALUE in ticks
          SleepShort,  \* GO_SLEEP_SHORT in ticks
          SleepLong,   \* GO_SLEEP_LONG in ticks
          InitMayFail, \* may the drivers report errors during boot?
          MaxLag       \* ticks that a busy spell of the work queue, or the
                       \* boot, may straddle (the bound on reaction time)

ASSUME ButtonAssumption ==
    /\ {"start", "stop"} \subseteq Buttons
    /\ Buttons \subseteq {"pair", "user", "start", "stop"}
    /\ Trigger \in [Buttons -> SUBSET {0, 1}]

ASSUME TimeAssumption ==
    /\ ClockReset \in Nat /\ SleepShort \in Nat /\ SleepLong \in Nat
    /\ MaxLag \in Nat
    /\ MaxLag < ClockReset      \* a busy spell is short next to a shot
    /\ ClockReset < SleepLong   \* 10000 < 30000

ASSUME FailAssumption == InitMayFail \in BOOLEAN

VARIABLES
    pin,         \* level of each button, 1 = pushed
    val, evt,    \* button_t.val and .evt (val: 1 for every nonzero value)
    wq,          \* work items waiting in the system work queue
    running,     \* the item whose handler runs, or None
    at,          \* where that handler is
    clock_state, clock_value,
    d_timer, sleep_timer,
    d_ready,     \* dclk_app has run k_timer_init(&d_timer)
    pair_en,     \* dclk_status.pair_en
    boot,        \* where main() is
    power,       \* "on", or "off" after sys_poweroff()
    lag          \* ticks the current busy spell has straddled

buttonVars == <<pin, val, evt>>
queueVars  == <<wq, running, at>>
clockVars  == <<clock_state, clock_value, d_timer>>
vars == <<buttonVars, queueVars, clockVars, sleep_timer, d_ready, pair_en,
          boot, power, lag>>

None == "none"
Off  == -1
Works == Buttons \cup {"advertise_DCLK_work", "pair_DCLK_work"}
Labels == {"idle", "handle", "start_state", "start_arm", "start_cancel",
           "stop_read", "stop_timer", "stop_state",
           "pair_enable", "pair_cancel", "ble"}
BootSteps == {"buttons", "display", "dclk", "power", "sleep", "done", "failed"}
Countdown == 0..ClockReset
SleepTime == 0..(SleepLong + SleepShort)

-----------------------------------------------------------------------------
(* Timers *)

\* Mutant: a stopped timer is not read as 0.
RemainingRaw(t) == t

\* k_timer_remaining_get()
Remaining(t) == IF t = Off THEN 0 ELSE t

\* One tick of a timer that is not due.
Elapse(t) == IF t = Off THEN Off ELSE t - 1

-----------------------------------------------------------------------------
(* Power up *)

Init == /\ pin \in [Buttons -> {0, 1}]
        /\ val = [b \in Buttons |-> 1]
        /\ evt = [b \in Buttons |-> 0]
        /\ wq = <<>> /\ running = None /\ at = "idle"
        /\ clock_state = 0 /\ clock_value = 0
        /\ d_timer = Off /\ sleep_timer = Off
        /\ d_ready = FALSE
        /\ pair_en = FALSE
        /\ boot = "buttons" /\ power = "on" /\ lag = 0

\* Memory after a reset: every variable has its initialiser again.
Restart == /\ val' = [b \in Buttons |-> 1]
           /\ evt' = [b \in Buttons |-> 0]
           /\ wq' = <<>> /\ running' = None /\ at' = "idle"
           /\ clock_state' = 0 /\ clock_value' = 0
           /\ d_timer' = Off /\ sleep_timer' = Off
           /\ d_ready' = FALSE
           /\ pair_en' = FALSE
           /\ boot' = "buttons" /\ power' = "on" /\ lag' = 0
           /\ UNCHANGED pin

\* A push of the start button ends system-off, once power_manage_init()
\* has made its pin a wake-up source.
Wake == /\ power = "off"
        /\ boot \in {"sleep", "done"}
        /\ pin["start"] = 1
        /\ Restart

-----------------------------------------------------------------------------
(* Button interrupts: button_event_cb *)

Press(b) == [pin EXCEPT ![b] = 1 - @]

\* A button is pushed, released or bounces, and its interrupt runs.
Interrupt(b) ==
    /\ power = "on" /\ boot # "buttons"
    /\ pin' = Press(b)
    /\ pin'[b] \in Trigger[b]
    /\ val' = [val EXCEPT ![b] = pin'[b]]
    /\ wq' = Submit(wq, b)
    /\ UNCHANGED <<evt, running, at, clockVars, sleep_timer, d_ready, pair_en,
                   boot, power, lag>>

\* A change of level nobody is told of.
SilentEdge(b) ==
    /\ pin' = Press(b)
    /\ power = "off" \/ boot = "buttons" \/ pin'[b] \notin Trigger[b]
    /\ UNCHANGED <<val, evt, queueVars, clockVars, sleep_timer, d_ready,
                   pair_en, boot, power, lag>>

-----------------------------------------------------------------------------
(* The system work queue *)

\* The queue thread takes the next item.
Dispatch == /\ power = "on" /\ running = None /\ wq # <<>>
            /\ running' = Head(wq) /\ wq' = Tail(wq)
            /\ at' = IF Head(wq) \in Buttons THEN "handle" ELSE "ble"
            /\ UNCHANGED <<buttonVars, clockVars, sleep_timer, d_ready,
                           pair_en, boot, power, lag>>

\* The thread is in the handler of item w, at label l.
In(w, l) == power = "on" /\ running = w /\ at = l

Return == running' = None /\ at' = "idle"
Goto(l) == at' = l /\ UNCHANGED running

\* handle_button_event: the level is read here, not when it was submitted.
ReadLevel(b) == /\ In(b, "handle")
                /\ evt' = [evt EXCEPT ![b] = val[b]]
                /\ UNCHANGED <<pin, val, wq, clockVars, sleep_timer, d_ready,
                               pair_en, boot, power, lag>>

HandleStart == /\ ReadLevel("start")
               /\ Goto(IF val["start"] = 1 THEN "start_state" ELSE "start_cancel")

HandleStop == /\ ReadLevel("stop")
              /\ IF val["stop"] = 1 THEN Goto("stop_read") ELSE Return

HandlePair == ReadLevel("pair") /\ Goto("pair_enable")

HandleUser == ReadLevel("user") /\ Return

\* advertise_DCLK and pair_DCLK; what they do is module DclkService.
BleWork == /\ power = "on" /\ at = "ble"
           /\ Return
           /\ UNCHANGED <<buttonVars, wq, clockVars, sleep_timer, d_ready,
                          pair_en, boot, power, lag>>

-----------------------------------------------------------------------------
(* start_cb *)

\* Mutant: start_cb does not reset the state.
StartStateKept == /\ In("start", "start_state")
                  /\ Goto("start_arm")
                  /\ UNCHANGED <<buttonVars, wq, clockVars, sleep_timer,
                                 d_ready, pair_en, boot, power, lag>>

StartState == /\ In("start", "start_state")
              /\ clock_state' = 0
              /\ Goto("start_arm")
              /\ UNCHANGED <<buttonVars, wq, clock_value, d_timer, sleep_timer,
                             d_ready, pair_en, boot, power, lag>>

StartArm == /\ In("start", "start_arm")
            /\ d_timer' = ClockReset
            /\ Goto("start_cancel")
            /\ UNCHANGED <<buttonVars, wq, clock_state, clock_value,
                           sleep_timer, d_ready, pair_en, boot, power, lag>>

\* Mutant: start_cb leaves the sleep timer running.
StartCancelNot == /\ In("start", "start_cancel")
                  /\ Return
                  /\ UNCHANGED <<buttonVars, wq, clockVars, sleep_timer,
                                 d_ready, pair_en, boot, power, lag>>

StartCancel == /\ In("start", "start_cancel")
               /\ sleep_timer' = Off
               /\ Return
               /\ UNCHANGED <<buttonVars, wq, clockVars, d_ready, pair_en,
                              boot, power, lag>>

(* stop_cb *)

\* Mutant: stop_cb stops the timer before it reads the time.
StopReadLate == /\ In("stop", "stop_read")
                /\ clock_value' = Remaining(Off)
                /\ Goto("stop_timer")
                /\ UNCHANGED <<buttonVars, wq, clock_state, d_timer,
                               sleep_timer, d_ready, pair_en, boot, power, lag>>

StopRead == /\ In("stop", "stop_read")
            /\ clock_value' = Remaining(d_timer)
            /\ Goto("stop_timer")
            /\ UNCHANGED <<buttonVars, wq, clock_state, d_timer, sleep_timer,
                           d_ready, pair_en, boot, power, lag>>

StopTimer == /\ In("stop", "stop_timer")
             /\ d_timer' = Off
             /\ Goto("stop_state")
             /\ UNCHANGED <<buttonVars, wq, clock_state, clock_value,
                            sleep_timer, d_ready, pair_en, boot, power, lag>>

StopState == /\ In("stop", "stop_state")
             /\ clock_state' = 1
             /\ Return
             /\ UNCHANGED <<buttonVars, wq, clock_value, d_timer, sleep_timer,
                            d_ready, pair_en, boot, power, lag>>

(* pair_cb, with dclk_pairing *)

\* Mutant: a release does not reset pair_en.
PairEnableSticky ==
    /\ In("pair", "pair_enable")
    /\ pair_en' = (evt["pair"] = 1 \/ pair_en)
    /\ wq' = Submit(wq, IF evt["pair"] = 1 THEN "pair_DCLK_work"
                                           ELSE "advertise_DCLK_work")
    /\ Goto("pair_cancel")
    /\ UNCHANGED <<buttonVars, clockVars, sleep_timer, d_ready, boot, power, lag>>

PairEnable == /\ In("pair", "pair_enable")
              /\ pair_en' = (evt["pair"] = 1)
              /\ wq' = Submit(wq, IF evt["pair"] = 1 THEN "pair_DCLK_work"
                                                     ELSE "advertise_DCLK_work")
              /\ Goto("pair_cancel")
              /\ UNCHANGED <<buttonVars, clockVars, sleep_timer, d_ready,
                             boot, power, lag>>

PairCancel == /\ In("pair", "pair_cancel")
              /\ sleep_timer' = Off
              /\ Return
              /\ UNCHANGED <<buttonVars, wq, clockVars, d_ready, pair_en,
                             boot, power, lag>>

-----------------------------------------------------------------------------
(* Timer interrupts and the passing of time *)

\* Mutant: the end of a shot does not start the sleep timer.
DExpireAwake == /\ power = "on" /\ d_timer = 0
                /\ d_timer' = Off
                /\ clock_state' = IF d_ready THEN 2 ELSE clock_state
                /\ UNCHANGED <<buttonVars, queueVars, clock_value, sleep_timer,
                               d_ready, pair_en, boot, power, lag>>

\* d_clock_expire; before k_timer_init the timer has no expiry function.
DExpire == /\ power = "on" /\ d_timer = 0
           /\ d_timer' = Off
           /\ clock_state' = IF d_ready THEN 2 ELSE clock_state
           /\ sleep_timer' = IF d_ready THEN SleepShort ELSE sleep_timer
           /\ UNCHANGED <<buttonVars, queueVars, clock_value, d_ready, pair_en,
                          boot, power, lag>>

\* poweroff
SleepExpire == /\ power = "on" /\ sleep_timer = 0
               /\ sleep_timer' = Off
               /\ power' = "off"
               /\ UNCHANGED <<buttonVars, queueVars, clockVars, d_ready,
                              pair_en, boot, lag>>

QueueIdle == wq = <<>> /\ running = None
Booting == boot \notin {"done", "failed"} \/ ~d_ready
Busy == ~QueueIdle \/ Booting

Tick == /\ power = "on"
        /\ d_timer # 0 /\ sleep_timer # 0
        /\ Busy => lag < MaxLag
        /\ lag' = IF Busy THEN lag + 1 ELSE 0
        /\ d_timer' = Elapse(d_timer)
        /\ sleep_timer' = Elapse(sleep_timer)
        /\ UNCHANGED <<buttonVars, queueVars, clock_state, clock_value,
                       d_ready, pair_en, boot, power>>

-----------------------------------------------------------------------------
(* main() and the first turn of dclk_app *)

MainStep(from, to) == /\ power = "on" /\ QueueIdle
                      /\ boot = from /\ boot' = to
                      /\ UNCHANGED <<buttonVars, running, at, clockVars,
                                     d_ready, pair_en, power, lag>>

\* The buttons of interface_init; only the last one's error is looked at.
SetupButtons == /\ MainStep("buttons", "display")
                /\ UNCHANGED <<wq, sleep_timer>>

\* display_init and buzzer_init: interface_init answers 0 whatever they say.
DisplayInit == /\ MainStep("display", "dclk")
               /\ UNCHANGED <<wq, sleep_timer>>

\* dclk_init
DclkInit == /\ MainStep("dclk", "power")
            /\ wq' = Submit(wq, "advertise_DCLK_work")
            /\ UNCHANGED sleep_timer

\* main() returns early: no wake-up source and no sleep timer.
InitFails == /\ InitMayFail
             /\ \E step \in {"buttons", "dclk"} : MainStep(step, "failed")
             /\ UNCHANGED <<wq, sleep_timer>>

PowerManageInit == /\ MainStep("power", "sleep")
                   /\ UNCHANGED <<wq, sleep_timer>>

ArmSleep == /\ MainStep("sleep", "done")
            /\ sleep_timer' = SleepLong
            /\ UNCHANGED wq

\* dclk_app first runs: k_timer_init(&d_timer).  On a timer that a push of
\* start has already armed the call is undefined: the kernel's list of
\* timeouts still points to it.  It may go on counting, be lost or fault.
AppTurn == power = "on" /\ QueueIdle /\ boot \in {"display", "dclk", "done", "failed"}

AppInit == /\ AppTurn /\ ~d_ready
           /\ d_ready' = TRUE
           /\ d_timer' \in {d_timer, Off}
           /\ UNCHANGED <<buttonVars, queueVars, clock_state, clock_value,
                          sleep_timer, pair_en, boot, power, lag>>

AppFault == /\ AppTurn /\ ~d_ready /\ d_timer # Off
            /\ Restart

-----------------------------------------------------------------------------
Environment == Wake \/ \E b \in Buttons : Interrupt(b) \/ SilentEdge(b)

Queue == \/ Dispatch \/ BleWork
         \/ HandleStart \/ HandleStop \/ HandlePair \/ HandleUser
         \/ StartState \/ StartArm \/ StartCancel
         \/ StopRead \/ StopTimer \/ StopState
         \/ PairEnable \/ PairCancel

Main == \/ SetupButtons \/ DisplayInit \/ DclkInit \/ InitFails
        \/ PowerManageInit \/ ArmSleep

App == AppInit \/ AppFault

Timers == DExpire \/ SleepExpire \/ Tick

Next == Environment \/ Queue \/ Main \/ App \/ Timers

Spec == Init /\ [][Next]_vars

\* The queue thread, main() and dclk_app each get the processor, timers fire
\* and time passes.  Nobody has to push a button.
Fairness == /\ WF_vars(Queue) /\ WF_vars(Main) /\ WF_vars(App)
            /\ WF_vars(DExpire) /\ WF_vars(SleepExpire) /\ WF_vars(Tick)

FairSpec == Spec /\ Fairness

-----------------------------------------------------------------------------
(* Properties *)

TypeOK ==
    /\ pin \in [Buttons -> {0, 1}]
    /\ val \in [Buttons -> {0, 1}] /\ evt \in [Buttons -> {0, 1}]
    /\ wq \in Seq(Works) /\ Distinct(wq)
    /\ running \in Works \cup {None} /\ at \in Labels
    /\ running = None <=> at = "idle"
    /\ clock_state \in 0..2 /\ clock_value \in Countdown
    /\ d_timer \in Countdown \cup {Off}
    /\ sleep_timer \in SleepTime \cup {Off}
    /\ d_ready \in BOOLEAN /\ pair_en \in BOOLEAN
    /\ boot \in BootSteps /\ power \in {"on", "off"} /\ lag \in 0..MaxLag

\* A clock whose state says paused does not count down, whatever expiry or
\* push came between the steps of stop_cb and start_cb.
PausedIsFrozen == clock_state = 1 => d_timer = Off

\* The device never powers off under a running shot, unless the sleep timer
\* fires in the very push of start that was about to stop it: start_cb arms
\* the count-down first and stops the sleep timer after.
NoPowerOffMidShot == power = "off" /\ d_timer # Off => at = "start_cancel"

\* What that rests on: a count-down ends before the sleep timer would fire.
CountdownBeatsSleep ==
    d_timer # Off /\ sleep_timer # Off /\ at # "start_cancel"
        => d_timer < sleep_timer

\* An event of button b that its callback has not been told of.
InFlight(b) == Contains(wq, b) \/ (running = b /\ at = "handle")

\* Pairing is on only while the pair button is held: once its release has
\* been handled pair_en is false, however pushes and releases were merged in
\* the queue.  It takes an interrupt on the release edge.
PairingFollowsButton ==
    "pair" \in Buttons /\ power = "on" =>
        (0 \in Trigger["pair"] /\ pin["pair"] = 0
         /\ ~InFlight("pair") /\ at # "pair_enable" => ~pair_en)

(* The three invariants with what makes them inductive. *)

FrozenInv == /\ PausedIsFrozen
             /\ at = "stop_state" => d_timer = Off
             /\ at = "start_arm" => clock_state # 1

SleepInv == NoPowerOffMidShot /\ CountdownBeatsSleep

PairInv ==
    "pair" \in Buttons /\ 0 \in Trigger["pair"] /\ power = "on" =>
        /\ boot = "buttons" => wq = <<>> /\ at = "idle" /\ ~pair_en
        /\ pin["pair"] = 0 =>
            /\ InFlight("pair") => val["pair"] = 0
            /\ at = "pair_enable" /\ ~Contains(wq, "pair") => evt["pair"] = 0
            /\ at # "pair_enable" /\ ~InFlight("pair") => ~pair_en

NoEvents == \A b \in Buttons : ~InFlight(b)

\* No event is being handled, and a timer runs that leads to a power off.
OnCourse == /\ power = "on" /\ d_ready
            /\ NoEvents /\ at \in {"idle", "ble"}
            /\ d_timer # Off \/ sleep_timer # Off

\* What is ahead of it until then; the earlier may add to the later.
BootLeft == CASE boot = "buttons" -> 5 [] boot = "display" -> 4 [] boot = "dclk" -> 3
              [] boot = "power" -> 2 [] boot = "sleep" -> 1 [] OTHER -> 0
Ahead == <<BootLeft, d_timer + 1, sleep_timer + 1, Len(wq), IF at = "idle" THEN 0 ELSE 1>>

\* Once on that course the device is kept on it by all that happens in it, the
\* end of a shot and the rest of the boot included, and every step brings the
\* power off nearer: only an event can end or delay it.
StaysOnCourse ==
    [][OnCourse => \/ power' = "off" \/ ~NoEvents'
                   \/ /\ OnCourse'
                      /\ Fewer(Ahead', Ahead) \/ \E b \in Buttons : SilentEdge(b)]_vars

\* A shot nobody touches ends and the device powers off: from a running clock
\* (and an initialised timer) with no event pending, unless an event comes.
ShotLeftAloneSleeps ==
    (d_timer # Off /\ d_ready /\ NoEvents /\ at = "idle") ~> (power = "off" \/ ~NoEvents)

(* What documents say and the code does not do; each has a run of its own. *)

\* DCLK.h: state 2 is "stopped".  Once the callbacks are done a state of 2
\* means that nothing counts down.
StoppedMeansStopped == clock_state = 2 /\ QueueIdle => d_timer = Off

\* README: "the ref always knows the correct shot clock time".  The time of
\* a paused clock stays what it was until start is pushed.
PausedTimeKept ==
    [][clock_state = 1 /\ clock_state' = 1 => clock_value' = clock_value]_vars

\* README: the controller "tries to mimize power at all times".  A device
\* nobody touches any more powers off, unless a shot is paused.
EventuallyNoTouch == <>[](NoEvents /\ clock_state # 1 /\ power = "on")
NeverIdlesForever == ~EventuallyNoTouch

-----------------------------------------------------------------------------
(* The controller implements the shot clock the referee is promised. *)

Mode == IF d_timer # Off THEN "running"
        ELSE IF clock_state = 1 \/ at = "stop_state" THEN "paused"
        ELSE IF clock_state = 2 THEN "expired" ELSE "idle"

Left == IF Mode = "running" THEN d_timer
        ELSE IF Mode = "paused" THEN clock_value ELSE 0

Promise == INSTANCE ShotClock WITH Shot <- ClockReset, Slip <- MaxLag,
                                   mode <- Mode, left <- Left
ShotClockPromise == Promise!Spec

\* What the mapping rests on.  A shot started a busy spell ago has lost at
\* most the ticks of that spell, and that is the most the app's first turn or
\* a power off can cost; a reading stop_cb is about to keep is as old at most.
Fresh == d_timer + lag >= ClockReset

PromiseInv ==
    /\ ~d_ready => clock_state # 2
    /\ d_timer # Off /\ (~d_ready \/ power = "off") => Fresh
    /\ d_timer # Off /\ sleep_timer # Off => Fresh \/ d_timer < sleep_timer
    /\ at = "stop_timer" =>
         IF d_timer # Off THEN clock_value \in d_timer..(d_timer + lag)
         ELSE IF clock_state = 2 THEN clock_value \in 0..lag
         ELSE clock_value = 0
=============================================================================

# A TLA+ model of DODGECLOCK

DODGECLOCK is a shot clock for dodgeball: a battery-powered *controller* that
the referee holds (start, stop, pair and user buttons, an LCD, a buzzer) and a
*display* for the players that receives the time over Bluetooth. Both are
Zephyr applications in C. This directory models their firmware, checks the
models with TLC and proves theorems about all of them with TLAPS.

## The system

| Component | State | Operations | Interacts with |
|---|---|---|---|
| Controller, shot clock and power (`main.c`) | `clock_state`, `clock_value`, `d_timer`, `sleep_timer` | `start_cb`, `stop_cb`, `pair_cb`, `user_cb`, `d_clock_expire`, `poweroff`, `main` | called by the button work items and by timer interrupts; read by the application thread |
| Controller, buttons (`Interface.c`) | `button_t.val`, `.evt`, one work item each | `button_event_cb` (interrupt), `handle_button_event` (work queue) | submits to the system work queue, which the Bluetooth service uses too |
| Controller, application thread, LCD and buzzer (`main.c`, `Interface.c`) | the thread's locals, the cache `dis_*`, the frame buffer, the PWM and its timer | `dclk_app`, `interface_update`, `display_init`, `interface_off`, `buzz`, `stop_buzz` | reads the clock and the service's status, notifies, shares the LCD with `main()` and `poweroff` |
| Controller, Bluetooth service (`DCLK.c`) | `dclk_status`, the accept list, bonds, what is advertised | `dclk_init`, `dclk_pairing`, `advertise_DCLK`, `pair_DCLK`, `on_connected`, `on_disconnected`, notifications, attribute reads | work queue; callbacks of the Bluetooth stack |
| Display, Bluetooth client (`DCLK_client.c`) | `DCLK_C_conn`, `DCLK_client` (connection, handles, subscription parameters), the scan | `dclk_client_init`, the scan, connection and discovery callbacks, `dclk_client_subscribe` | callbacks of the stack and of the scan library |
| Display, application and LED strip (`main.c`, `Interface_display.c`) | none that is used | log what is received; `interface_write_display` is empty | called by the client |
| Retained memory (`retained.c`) | the object `retained` in RAM that is not initialised, the retention bits of the RAM sections | `retained_validate`, `retained_update`, `ram_range_retain` | survives resets and System OFF; the file is in the tree, but not built |
| `logo.h` | | not included | |

What is hard about it is that almost everything runs in four contexts which
preempt each other: interrupts (buttons, timers) come anywhere; the system work
queue is one cooperative thread; `main()` (priority 0) and `dclk_app` (priority
5) run only while that queue waits or is idle; and the stack's threads make
callbacks whenever a work item waits for the Bluetooth controller. No variable
is protected by a lock. The second difficulty is power: the device resets at
every wake-up, and whether it ever powers off depends on the sleep timer being
started and stopped by the right events. The third is the error paths, nearly
all of which log and go on.

What makes each component correct:

- *shot clock*: start always gives a full shot, stop freezes what was left, the
  shot ends only at zero, a paused clock does not count; the device never
  powers off under a running shot and does power off after one.
- *buttons*: merged, bounced or late events leave the state the last edge asks
  for.
- *application thread*: the LCD comes to show the clock, without remains of old
  text; a subscribed display hears of the end; the buzzer always stops.
- *service*: the count of connections is right; the accept list is that of the
  bonds whenever it is what advertising is filtered by; pairing is open while the
  button is held and never afterwards.
- *client*: connections are referenced once and released once; a lost link leads
  back to scanning; no handles of another controller are used.
- *both ends together*: they come to agree about the link, and a display left
  alone with its controller comes to hear the clock and the state.
- *retained memory*: no uptime counts twice, a finished update survives, and
  exactly the RAM the object lies in is kept on.

## The modules

| Module | Models | How its state and actions correspond to the code |
|---|---|---|
| `WorkQueue` | `k_work_submit` | a queue is a sequence without duplicates; `Submit` of a queued item does nothing |
| `ShotClock` | nothing in the code: the promise to the referee | `mode` and `left`; one action per thing the referee can observe |
| `Admission` | nothing in the code: the promise about who may connect | a `gate` that is shut, open to known displays or to all, and may get `stuck` when it is to be shut; the `keys`, the `guests` and those `expelled` |
| `Watcher` | nothing in the code: the promise about following a controller | the `phase` of the search, `whom` it is for, what the display `hears` |
| `Descent` | nothing in the code | `Fewer`, the lexicographic order on tuples of naturals that the measures below decrease in |
| `ControllerClock` | `main.c` without the loop of `dclk_app`, the buttons of `Interface.c` | one action per statement between which an interrupt matters: `StartState`, `StartArm`, `StartCancel` are the three statements of `start_cb`, and so on. `wq`, `running` and `at` are the work queue's thread, `boot` is `main()` |
| `MCControllerClock` | | values for `Trigger` |
| `ControllerApp` | the loop of `dclk_app`, `interface_update`, `display_init`, `interface_off`, the buzzer | `pc` is the thread's statement. The handlers of start and stop never wait, so for this thread each is one action |
| `DclkService` | `DCLK.c` and the pair button | one action per call of `pair_DCLK` and `advertise_DCLK` that waits; `pending` holds the callbacks the stack has still to make, `started` says that `dclk_init` has returned, `ready` that Bluetooth is enabled, which after an error it may be or not |
| `DclkClient` | `DCLK_client.c` | one action per callback; `link` is what the stack knows of a connection object, `refs` the references the code holds to it; `Restart` unplugs the display |
| `DclkSystem` | `DclkService` and `DclkClient` over one link, with security, subscriptions, notifications (`dclk_ccc_*_cfg_changed`, `dclk_send_*_notify`, `on_received`) | instances of the two modules; a step is one of one side, or of both (`Join`, `Discover`). The two ends of a link begin and end separately |
| `Retained`, `MCRetained` | `retained.c` | one action per store, and per turn of the loop of `ram_range_retain`; `MCRetained` has the nRF52840's addresses |
| `*_proofs` | | the theorems about the module of that name, and the lemmas they rest on |

`DclkSystem` composes `DclkService` and `DclkClient`, and implements each of
them; `DclkService` and `ControllerClock` use `WorkQueue`. `ControllerClock`
implements `ShotClock`, `DclkService` implements `Admission` and `DclkClient`
implements `Watcher`. `ControllerClock`, `ControllerApp` and `DclkService` use
`Descent`.

Each operator named as a mutant in a comment is a plausible bug (a guard, a
reset or a call dropped, an order swapped). It is not part of any specification:
put in the place of the definition it follows the name of, it makes one of the
properties fail, which shows that the property can fail.

### Decisions a reader should know of

- *Time* is counted in ticks. A timer is `Off` or the ticks it has left; one
  with 0 left fires before the next tick, in any order with everything else in
  that tick. `Fairness` and `Tick` together make time pass.
- *Reaction time.* `MaxLag` bounds how many ticks a busy spell of the work queue
  (or the boot, or one turn of the application thread) may straddle. It names
  the one assumption about speed: a handler is fast next to a shot
  (`MaxLag < ClockReset`). It also bounds how far the abstract clock and the
  real one may be apart (`Slip` in `ShotClock`).
- *k_timer_init on a running timer.* `main()` waits for the LCD before it is
  done, so `dclk_app` gets its first turn, and with it `k_timer_init(&d_timer)`,
  after the buttons work. On an armed timer that is undefined: `AppInit` and
  `AppFault` let it go on, be lost, or fault and restart the device.
- *Button interrupts.* `pair_btn` passes `GPIO_ACTIVE_LOW` where an interrupt
  flag is expected and `setup_button` ignores what
  `gpio_pin_interrupt_configure_dt` returns, so which edges raise an interrupt
  is the constant `Trigger`, arbitrary in the theorems; `PairTrigger` in
  `DclkService` is the same for the one button it has.
- *One-shot advertising.* Comments in `advertise_DCLK` and `pair_DCLK` say that
  advertising stops on a connection, but the `ONE_TIME` option is commented out
  (`DCLK.c:52`); `DclkService` follows the code.
- *Pictures* are tuples: what the text says, and whether characters of a longer
  text are still visible behind it (`cfb_print` does not clear).
- *The sprintf into one char* (`main.c:180`) writes a NUL behind it. `Spill`
  says which locals of `dclk_app` that may clear, for the layout of the stack is
  the compiler's: either of the two in `app_errors` and in the theorems, none in
  `app_shown`, whose properties a cleared clock would break for good.
- *The width of the text.* `DashAt` is the first clock that needs two digits. In
  the code that is 10, the full shot, and `AppAssumption` says what makes the
  LCD come out right: no clock is longer (`ClockReset <= DashAt * Second`).
- *Errors that end something.* Where the code logs an error and nothing tries
  again, a history variable remembers it (`cut_short` in `DclkService`,
  `gave_up` in `DclkClient`, `refused` in `DclkSystem`), and the properties say
  exactly that this is the only exception.
- *Errors that are ignored* are steps like the others. `bt_le_adv_stop` may fail
  under both work items (`Stop`), `bt_unpair` under `pair_DCLK` (`PairUnpair`);
  the handlers go on, with advertising still on. The Bluetooth controller then
  refuses to change the list it filters by (`FilterInUse`), unless all
  connections are taken, and `bt_le_adv_start` refuses to start what is on
  (`StartsAs`). In the two cases in which the code shows no other trace of it, a
  list that is cleared and bonds that are deleted behind advertising that goes
  on, the properties say so.
- *Errors of the boot.* `dclk_init` may return with an error at any of its
  calls: before Bluetooth is enabled, after it but before the bonds are loaded,
  or from `settings_load`. The model has the outcomes as `ready` or not; a
  `settings_load` that failed has loaded all bonds or counts as not ready.
  `display_init` may return from any of its calls (`MainFails`), which
  `interface_init` reports as success.
- *The LCD* takes a picture as a whole or not at all.
- *Notifications* to a subscribed display on a link are accepted by the stack:
  `dclk_app` ignores what `bt_gatt_notify` returns, and repeats each value in the
  next turn.
- *The link.* Each end has its own idea of it. `HalfOpen` and the two actions
  `...Loses` make them differ; `...Notices` is the supervision timeout.
- *Security.* `keyed` and `bonds` are the two halves of a bond. With a key at
  one end only the link cannot be secured, and the display's writes to the CCC
  descriptors are refused.
- *Retained memory* is a CRC computed over some data and compared later: the
  model keeps the data instead (`crc`), as if no two had the same CRC.
- *The stack.* Zephyr's host, the scan library and the drivers are not in the
  repository. They are modelled from how the code uses them and marked external
  in PROJECT.json.

## What the runs check

| Run | Shows | Bounds |
|---|---|---|
| `clock_small` | `PausedIsFrozen`, `NoPowerOffMidShot`, `StaysOnCourse`, `ShotLeftAloneSleeps`, and that `ControllerClock` implements `ShotClock` (`ShotClockPromise`) | start and stop; a shot of 3 ticks, sleep after 2 and 5; lag 1; drivers may fail |
| `clock_pair` | `PairingFollowsButton` | all four buttons, stop dead; a shot of 1 tick |
| `clock_state_stopped` | violation of `StoppedMeansStopped` | |
| `clock_pause_lost` | violation of `PausedTimeKept` | |
| `clock_never_sleeps` | violation of `NeverIdlesForever` | |
| `app_errors` | `BuzzerWillStop`, `LcdClean`, `LcdShowsCache` | a shot of one tick, which is a second; lag 0: events fall between any two statements of a turn, but time does not pass in one; the LCD may fail in the boot and in any turn; any layout of the stack |
| `app_shown` | `CatchesUp`, `GetsSent`, `SettledIsShown`, `ExpiryIsSent` | an LCD that works; two seconds in half seconds; lag 1; one characteristic |
| `service` | `NumConnCounts`, `FilteredIsForBonds`, `NotLeftOpen`, `ReadyToReconnect`, `WindsDown`, `ComesToRest`, and that `DclkService` implements `Admission` (`AdmissionPromise`) | two displays, two connections; every call may fail, `bt_le_adv_stop` and those of `dclk_init` too; restarts; both edges of the pair button interrupt |
| `service_pairing_closed` | violation of `PairingIsOpen` | one display, no errors, and the button pushed only with the display connected and nothing to be handled (`PushedWhileConnected`) |
| `client` | `RefsBalanced`, `NoScanWhileConnected`, `KeepsTrying`, `SubscribedOnOwnLink`, `ScansAgain`, and that `DclkClient` implements `Watcher` (`WatcherPromise`) | two connection objects, two controllers, one of them incomplete; every call may fail; restarts |
| `system` | `NotifiesBonded`, `NeverStuck`, `DisplayFollows`, `EndsAgree` | one controller, one display, one connection object on each side; every call may fail; both restart |
| `retained` | `SumIsRecorded`, `UpdateSurvives`, `RetainsItsSections` | 28 bytes before, over and behind each border of 22 RAM sections; sessions of 3 ticks, sums to 6 |

Each module's `TypeOK` is an invariant of one of its runs.

Why the bounds are enough. The three times of the clock matter by their order
(short < reset < long, reset and short equal in the code) and by leaving room
for a press at every point of a shot; 3, 2 and 5 do both with the lag. The
theorems hold for all times. Which text is on the LCD matters by its width, and
that changes once, at the first clock that would need two digits: `DashAt` is
put where 10 is in the code, at the full shot, so the cases are the full shot,
the rest, and zero. Two displays are the least for which the accept list can hold one
and not the other; two connection objects the least for which a wrong one could
be released. The work queue is bounded by itself (no item is in it twice), the
callbacks to come by the connection objects, `num_conn` by its eight bits.

In `system` one link is enough for what the two ends may disagree about; a
second display or controller adds what `service` and `client` check. Two bounds
keep the composition small: the pair button is pushed and released while the
work queue is idle (`Edge`; the races of the button are `service`'s), and a
display that boots takes its steps first (`Booting`), which loses nothing, since
the controller does not see them. In `retained` the placements put an object on
every side of every border; sums beyond 6 ticks are not looked at, the theorems
hold for all.

Deadlock is checked in all runs: a device that is off or has given up can still
be touched, or unplugged.

### Fairness

- `ControllerClock`: weak fairness for the work queue's thread, `main()` and
  `dclk_app` (the scheduler runs them when nothing of a higher priority can),
  for the two timers and for `Tick`. None for the buttons.
- `ControllerApp`: the same for the thread, `main()`, the timers and `Tick`;
  none for presses, connections or the sleep timer.
- `DclkService`: the work queue, the callbacks the stack owes, `dclk_init`, which
  ends with an error or without, and the end of a link that has been told to end. None for displays, which may stay
  away or stay connected, nor for resets.
- `DclkClient`: the initialisation, a started attempt to connect ends, a started
  discovery ends, the callback after a lost link. None for matches or for links
  to be lost.
- `DclkSystem`: each side does its work; the display does what it does next
  while the two are not connected (`DisplayWorks`: a scan that goes on sees an
  advertisement that goes on, a request that is answered or not); what is done
  once on a link is done; an end whose peer has lost the link notices. None for
  the button, restarts or losses. `DisplayFollows` and `EndsAgree` except runs
  with disturbances for ever, and an attempt that fails although the controller
  would have let the display in is one of them: the radio is not fair.
- `Retained` has safety properties only.

## What is proved

Each theorem about states is proved the same way: `Init` establishes an
inductive invariant, one step per action preserves it, it implies the property.
A theorem about steps uses such an invariant in the state the step starts from,
and has one step per action too. Assumptions about the
constants are the `ASSUME`s of the modules, which TLC evaluates in the runs.

`ControllerClock_proofs`, for every set of buttons and edges, all times with
`MaxLag < ClockReset < SleepLong`, and failing or working drivers:

| Theorem | Property | Inductive invariant |
|---|---|---|
| `TypeCorrect` | `TypeOK` | itself; `SubmitType` keeps items distinct |
| `PausedFrozen` | `PausedIsFrozen` | `FrozenInv`: in `stop_cb` after `k_timer_stop` nothing counts, and in `start_cb` after its first statement the state is not paused. An expiry between the statements changes the state, which is why both halves are needed |
| `NeverOffMidShot`, `CountdownFirst` | `NoPowerOffMidShot` and the `CountdownBeatsSleep` it rests on | `SleepInv`: a count-down has less left than the sleep timer but between arming it and stopping the sleep timer |
| `PairingOffAfterRelease` | `PairingFollowsButton` | `PairInv`: while the button is up, an event in flight carries the level 0, and a handler that has read the level 1 has a later event behind it |
| `KeepsPromise` | `ShotClockPromise` | `PromiseInv`: a shot that the first turn of the thread, a fault or a power off can cost is at most a busy spell old (`Fresh`), and the reading `stop_cb` is about to keep is at most the lag off |
| `CourseKept` | `StaysOnCourse` | `TypeOK`. `Ahead` orders what is left of the course: the boot, the shot, the sleep, the queue (only `ble` items, for `NoButtonRuns`) |

For `KeepsPromise` every step of `ControllerClock` is mapped to a step of
`ShotClock` or a stutter under the refinement mapping `Mode` and `Left`: a clock
counts as running exactly while its timer is armed, and as paused from the
moment the timer is stopped.

`ControllerApp_proofs`, for every length of a shot that the text has room for
(`ClockReset <= DashAt * Second`), all intervals and every layout of the stack:

| Theorem | Property | Inductive invariant |
|---|---|---|
| `TypeCorrect` | `TypeOK` | itself; `SecondsBound`: no clock rounds up to more than the full shot |
| `BuzzerStops` | `BuzzerWillStop` | itself with the types |
| `LcdStaysClean` | `LcdClean` | `CleanInv`: once `main()` has cleared the frame buffer, which a `display_init` that failed never does, only clean texts get into it, and after the next write onto the LCD. `NeverWide` is why no text is wider than the one before |
| `LcdShowsValues` | `LcdShowsCache`, with errors and without | `CacheInv`: unless an error has been logged since, the frame buffer holds the cached text from the moment it is drawn, or has been cleared behind it; `Drawn` says what a text over the start text looks like |
| `ThreadCatchesUp` | `CatchesUp`, for an LCD without errors and a stack that spares the locals (`Spill = {}`) | `TypeOK` and `CacheInv`. `TurnCatchesUp` is the heart: a turn that read an older value is followed by one that reads the present one |
| `EndGetsSent` | `GetsSent`, for a stack that spares `d_state` | `TypeOK` |

`DclkService_proofs`, for any finite set of displays, up to 255 connections,
failing or working calls:

| Theorem | Property | Inductive invariant |
|---|---|---|
| `TypeCorrect` | `TypeOK` | `TypeInv`: with it, each bond is counted once (`SlotsLeft`) |
| `CountCorrect` | `NumConnCounts` | `CountInv`: the links and the ends still to be reported are at most the connection objects, so the count does not wrap upwards; in no prefix of the callbacks to come do the ends exceed the count and the beginnings, so it does not wrap downwards |
| `FilterCorrect` | `FilteredIsForBonds` | `AdvInv`: between stopping and starting nothing is advertised or the stop has failed, and from its clearing on the list holds bonds only; nothing gets that far before Bluetooth is enabled |
| `ClosedAtRest` | `NotLeftOpen` | `OpenInv`: whatever opens the service while the button is up has a release or `advertise_DCLK` behind it. The hard case is an `advertise_DCLK` that is queued already when the release submits it and stays at its place: it is then never before a `pair_DCLK`. The lemmas about `Before` (`WorkQueue_proofs`) give the order of the items |
| `ReconnectReady` | `ReadyToReconnect` | `ReadyInv`: without a link, which alone can get a new bond, what is set up is right, or is being set up from the present bonds, or `advertise_DCLK` is submitted, or a callback that submits it is to come, or with pairing on `pair_DCLK` is opening the service or has; `OpenInv` gives the order again. `BootInv`: after a failed `dclk_init` the error is remembered. `Unharmed`: a set-up under way makes up for an error before it |
| `KeepsAdmission` | `AdmissionPromise` | `TypeInv` and `AdvInv`. `AdmitStep` maps each step to one of `Admission` or a stutter: that keys are forgotten behind a gate that is shut or stuck only is where `AdvInv` is needed |
| `RunsOut` | `WindsDown` | `TypeInv`. `Ahead` counts `dclk_init`, the callbacks to come, a press, the work items and the steps left of the handler; each of these may add to those behind it, never to one before it |

`DclkClient_proofs`, for any connection objects, controllers and errors:
`TypeCorrect`, `RefsCorrect` (`RefsBalanced`), `ScanAlone`
(`NoScanWhileConnected`), `AlwaysTrying` (`KeepsTrying`) and `SubscriptionsOwn`
(`SubscribedOnOwnLink`). One inductive invariant, `IInv`, has them all, for they
need each other: a match replaces `DCLK_C_conn` without dropping it, which is
right only because the display never scans with a connection, which in turn
holds because the callbacks for any other connection are never made
(`RefsBalanced`). `KeepsWatching` (`WatcherPromise`) uses it to show that each
step is one of `Watcher` or a stutter: with the one connection in use, the scan,
the connection object, the discovery and the subscriptions make one phase. `IInv` adds that nothing happens before the initialisation is done
(`Started`), and that a link in use has a peer and discovery a link that is up
(`Connections`).

`DclkSystem_proofs`, for any names of the two devices and the connection object
and failing or working calls:

| Theorem | Property | Argument |
|---|---|---|
| `ImplementsService`, `ImplementsClient` | `S!Spec`, `C!Spec` | each step of the composition is a step of the one side, of the other, of both or of neither (`ServiceMoves`, `ClientMoves`) |
| `TypeCorrect` | `TypeOK` | from `ServiceKeeps` and `ClientKeeps`, and `LinkType` for what is between the two |
| `OnlyBondedNotified` | `NotifiesBonded` | `BondInv`: a secured link is one of the controller's, to a display with a bond or on its way to the end. A bond can go only by `bt_unpair`, which ends the link (`KeepsSecured`) |
| `SomeStepRemains` | `NeverStuck` | `DiscoverInv`: on a link that is up discovery runs, or all is subscribed, or the error is logged. With it the guarantees of both sides: without a link the display scans (`Scans`, from `KeepsTrying`) and a controller at rest lets it in (`LetsIn`, from `ReadyToReconnect`) |

The composition inherits what is proved of its parts: by the first two theorems
every behaviour of it is one of `DclkService` and one of `DclkClient`, so
`ServiceKeeps` and `ClientKeeps` take over their theorems, with the assumptions
about the constants proved for the values `DclkSystem` gives them
(`ServiceAssumed`, `ClientAssumed`).

`Descent_proofs` has the one fact about `Fewer` that the measures need: a tuple
is fewer than another if they are the same up to a place where it is smaller.

`Retained_proofs`, for every SRAM that begins on a border of 32 KiB and has at
most nine blocks, every object and placement in it:

| Theorem | Property | Inductive invariant |
|---|---|---|
| `TypeCorrect` | `TypeOK` | `IInv`, for the types alone do not keep `addr` in RAM |
| `SumCorrect` | `SumIsRecorded` | `Sums`: the data that the CRC vouches for, if any, is that of the last update that has finished, and its sum is what has been recorded |
| `UpdatesSurvive`, `SectionsCorrect` | `UpdateSurvives`, `RetainsItsSections` | `Loop`: on are the sections of the object that end at or before `addr`, which is the object's start or a border |

### What is only model-checked

Liveness under fairness is out of the prover's reach, so `ShotLeftAloneSleeps`,
`SettledIsShown`, `ExpiryIsSent`, `ComesToRest`, `ScansAgain`, `DisplayFollows`
and `EndsAgree` stay with TLC. For five of them the half that does not need
fairness is a theorem about all values of the constants (for `CatchesUp` and
`GetsSent`, those that their theorems name):

| Liveness | Proved half |
|---|---|
| `ShotLeftAloneSleeps` | `StaysOnCourse`: no step leaves the way to power off, each one shortens it |
| `SettledIsShown` | `CatchesUp`: each step brings the thread nearer to the clock, and it stays there |
| `ExpiryIsSent` | `GetsSent`: each step brings the notification nearer, none puts it off |
| `ComesToRest` | `WindsDown`: each step of its own leaves the service less to do |
| `DisplayFollows` | `NeverStuck`: there is always something left to do |

The first four use a measure that has no infinite descent, so what TLC adds is
that fairness makes a step happen as long as one is left. `NeverStuck` has no
measure: that the steps it speaks of come to an end is TLC's alone.

## Known divergences

With a run of their own (PROJECT.json quotes the lines): a state of 2 on a
running clock, a paused time that a second push of stop clears, a device that
never powers off again, pairing that `pair_DCLK`'s own `bt_unpair` closes by
disconnecting the display whose bond it deletes (`DCLK.c:119`, `:198`). In the
same way pairing is closed by any other disconnection, by a connection that
fails (`DCLK.c:184`), and at the boot, for the buttons work before `dclk_init`
submits `advertise_DCLK` (`DCLK.c:429`).

Met while modelling, without a run:

- `dclk_app` reads the state and the time one after the other (`main.c:162-170`);
  a push of stop in between shows 0 for half a second. `SettledIsShown` shows
  that it is repaired.
- It notifies seconds; `DCLK.h:136` says ms, and the display's `main.c:23` logs
  them as ms.
- The NUL that `sprintf` writes behind `dis_status` (`main.c:180`) may clear the
  low byte of a value that is then notified and shown, in every turn, if the
  compiler puts it there.
- After a push of the controller's pair button a display with the old key
  cannot subscribe any more: `bt_conn_set_security` uses a key that the other end
  has deleted, and what would delete the display's, its own `dclk_pairing`, is
  never called. It is the last of the exceptions in `GivenUp`.
- A scan, a discovery or an advertising that fails is not tried again
  (`DCLK_client.c:71`, `:254`, `:467`; `DCLK.c:161`): the other exceptions.
- `retained_validate` sets `uptime_latest` to 0 without a new CRC
  (`retained.c:157`): a reset before the first update of a session loses the
  uptime of all earlier ones.
- The sleep timer can fire between the two statements of `start_cb` that arm the
  count-down and stop it (`main.c:112-115`): the device powers off as the shot
  begins. It is the exception of `NoPowerOffMidShot`.
- The result of `bt_le_adv_stop` is ignored (`DCLK.c:117`, `:145`): if it fails,
  the bonds are deleted behind advertising that still lets the old displays in,
  or the open advertising goes on after the button was released. It is the
  exception of `FilteredIsForBonds` and `NotLeftOpen`, and `Jam` in `Admission`.
- After an error of `dclk_init` nothing is advertised before the next press of
  pair, if Bluetooth is enabled at all, although the rest of the device works.
- An error of `display_init` leaves "DCLK Start" in the frame buffer
  (`Interface.c:205-210`), which `interface_init` does not report: the shorter
  texts of `dclk_app` are then drawn over it and have its end behind them. It is
  the exception of `LcdClean`, and `Mixed` in `LcdShowsCache`.
- The first text of `dclk_app` can be drawn into the picture `display_init` is
  about to clear (`Interface.c:210`), and stays away until a value changes:
  hence `Blank` in `LcdShowsCache` and `SettledIsShown`.
- `interface_update` sets its cache before it writes (`Interface.c:278`), so a
  failed write is not repeated until a value changes: hence `missed` in
  `LcdShowsCache`.
- `interface_off` never writes its text to the LCD (`Interface.c:267`).
- `interface_init` returns `!err`, that is 0, when the LCD fails
  (`Interface.c:234`), and looks at the last button's error only.
- State 0, "running" in `DCLK.h:120`, is also the state before the first shot.
- `dclk_client_init` returns 0 when it fails (`DCLK_client.c:545`).
- `read_clock` returns one byte of the clock (`DCLK.c:262-270`), and
  `DCLK_clock_cb` the time of the stopped timer when the clock is paused.

## What is not modelled, and why

- `read_state` and `read_clock`, the attribute reads: no display of this
  repository reads the attributes, and they change nothing but the two variables
  they copy from.
- `dclk_pairing` and `stop_auto_connection` of the display: unreachable, because
  its `interface_init` drops the callbacks.
- `passkey_display`, `security_changed`, `pairing_complete` and the like: they
  only log. A peer whose pairing fails is one that never does `Bond`.
- The UUID check at the head of `dclk_client_handles_assign`: the discovery asks
  for that UUID and finds no other.
- `boots` and `off_count` of the retained object, which the application would
  write: nothing calls `retained.c`, and `CMakeLists.txt` does not build it.
  Turning retention off (`enable` false): `retained_validate` only turns it on.
- `logo.h`: data that nothing includes. The display's `main.c` and
  `Interface_display.c`: stubs but for the callbacks, which only log. Build
  files, overlays, `_Electrical`: no behaviour.
- The error that `interface_init` overlooks (`Interface.c:219`): what an
  interrupt that is not set up does is `Trigger`.

## Plan

Done, in this order: `ControllerClock` with `ShotClock` and its theorems, then
`ControllerApp`, `DclkService`, `DclkClient`, then `DclkSystem` and `Retained`,
and the theorems about all of them: type correctness, every safety invariant and
action property that a passing run checks, the five refinements, and the
measures behind the liveness. What is left:

1. That the one-action handlers of `ControllerApp` are implemented by the
   steps of `ControllerClock`. The clock changes there in the middle of a
   handler, in `ControllerApp` at one instant, and the thread's reads fall
   between: the mapping needs history variables for the handler under way.
2. A measure for the whole of `DclkSystem`, as `Ahead` is for the service: one
   that a lost link may reset, but nothing else.
3. The clock's values in `DclkSystem`: a notification is there only old or new.
4. The attribute reads with their widths, should a display come to use them.

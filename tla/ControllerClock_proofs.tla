----------------------- MODULE ControllerClock_proofs -----------------------
(***************************************************************************)
(* Theorems about the controller's shot clock, for every set of buttons,   *)
(* every choice of interrupt edges and all times.                          *)
(***************************************************************************)
EXTENDS ControllerClock, WorkQueue_proofs, Descent_proofs, TLAPS

-----------------------------------------------------------------------------
(* Type correctness *)

USE ButtonAssumption, TimeAssumption, FailAssumption

\* Every work item and label is a string of its own.
LEMMA WorksFacts == /\ None \notin Works
                    /\ Buttons \subseteq Works
                    /\ {"advertise_DCLK_work", "pair_DCLK_work"} \subseteq Works
                    /\ Off \notin Countdown /\ Off \notin SleepTime
                    /\ ClockReset \in Countdown
                    /\ SleepShort \in SleepTime /\ SleepLong \in SleepTime
BY DEF Works, None, Off, Countdown, SleepTime

\* Memory after a reset has its types.
LEMMA RestartType == TypeOK /\ Restart => TypeOK'
<1> SUFFICES ASSUME TypeOK, Restart PROVE TypeOK'
  OBVIOUS
<1>1. wq' \in Seq(Works) /\ Distinct(wq')
  BY EmptySeqType DEF Restart
<1>2. pin' \in [Buttons -> {0, 1}] /\ val' \in [Buttons -> {0, 1}]
      /\ evt' \in [Buttons -> {0, 1}]
  BY DEF TypeOK, Restart
<1>3. clock_value' \in Countdown /\ lag' \in 0..MaxLag
  BY DEF Restart, Countdown
<1>4. /\ running' \in Works \cup {None} /\ at' \in Labels
      /\ running' = None <=> at' = "idle"
      /\ boot' \in BootSteps /\ power' \in {"on", "off"}
  BY DEF Restart, Labels, BootSteps
<1>5. d_ready' \in BOOLEAN /\ pair_en' \in BOOLEAN
  BY Zenon DEF Restart
<1>6. /\ clock_state' \in 0..2
      /\ d_timer' \in Countdown \cup {Off}
      /\ sleep_timer' \in SleepTime \cup {Off}
  BY DEF Restart
<1> QED BY <1>1, <1>2, <1>3, <1>4, <1>5, <1>6 DEF TypeOK

\* Each step keeps every variable in its type; the queue holds every item at
\* most once.
LEMMA TypeStep == TypeOK /\ [Next]_vars => TypeOK'
<1> SUFFICES ASSUME TypeOK, [Next]_vars PROVE TypeOK'
  OBVIOUS
<1> USE WorksFacts DEF TypeOK
<1>1. CASE Environment
  <2>1. CASE Wake
    BY <2>1, RestartType DEF Wake
  <2>2. ASSUME NEW b \in Buttons, Interrupt(b) PROVE TypeOK'
    <3>1. wq' \in Seq(Works) /\ Distinct(wq')
      BY <2>2, SubmitType DEF Interrupt
    <3> QED BY <2>2, <3>1 DEF Interrupt, Press, clockVars
  <2>3. ASSUME NEW b \in Buttons, SilentEdge(b) PROVE TypeOK'
    BY <2>3 DEF SilentEdge, Press, queueVars, clockVars
  <2> QED BY <1>1, <2>1, <2>2, <2>3 DEF Environment
<1>2. CASE Queue
  <2>1. CASE Dispatch
    BY <2>1, TailContains DEF Dispatch, buttonVars, clockVars, Labels
  <2>2. CASE BleWork
    BY <2>2 DEF BleWork, Return, buttonVars, clockVars, Labels
  <2>3. CASE HandleStart \/ HandleStop \/ HandlePair \/ HandleUser
    BY <2>3 DEF HandleStart, HandleStop, HandlePair, HandleUser, ReadLevel,
                In, Goto, Return, clockVars, Labels
  <2>4. CASE StartState \/ StartArm \/ StartCancel
    BY <2>4 DEF StartState, StartArm, StartCancel,
                In, Goto, Return, buttonVars, clockVars, Labels
  <2>5. CASE StopRead \/ StopTimer \/ StopState
    BY <2>5 DEF StopRead, StopTimer, StopState, Remaining, Countdown,
                In, Goto, Return, buttonVars, clockVars, Labels
  <2>6. CASE PairEnable
    <3>1. wq' \in Seq(Works) /\ Distinct(wq')
      BY <2>6, SubmitType DEF PairEnable
    <3> QED BY <2>6, <3>1 DEF PairEnable, In, Goto, buttonVars, clockVars, Labels
  <2>7. CASE PairCancel
    BY <2>7 DEF PairCancel, In, Return, buttonVars, clockVars, Labels
  <2> QED BY <1>2, <2>1, <2>2, <2>3, <2>4, <2>5, <2>6, <2>7 DEF Queue
<1>3. CASE Main
  <2>1. CASE DclkInit
    <3>1. wq' \in Seq(Works) /\ Distinct(wq')
      BY <2>1, SubmitType DEF DclkInit
    <3> QED BY <2>1, <3>1 DEF DclkInit, MainStep, buttonVars, clockVars, BootSteps
  <2>2. CASE InitFails
    BY <2>2 DEF InitFails, MainStep, buttonVars, clockVars, BootSteps
  <2>3. CASE SetupButtons \/ DisplayInit \/ PowerManageInit \/ ArmSleep
    BY <2>3 DEF SetupButtons, DisplayInit, PowerManageInit, ArmSleep,
                MainStep, buttonVars, clockVars, BootSteps
  <2> QED BY <1>3, <2>1, <2>2, <2>3 DEF Main
<1>4. CASE App
  <2>1. CASE AppInit
    BY <2>1 DEF AppInit, buttonVars, queueVars
  <2>2. CASE AppFault
    BY <2>2, RestartType DEF AppFault
  <2> QED BY <1>4, <2>1, <2>2 DEF App
<1>5. CASE Timers
  <2>1. CASE DExpire
    BY <2>1 DEF DExpire, buttonVars, queueVars
  <2>2. CASE SleepExpire
    BY <2>2 DEF SleepExpire, buttonVars, queueVars, clockVars
  <2>3. CASE Tick
    BY <2>3 DEF Tick, Busy, Elapse, Off, Countdown, SleepTime, buttonVars, queueVars
  <2> QED BY <1>5, <2>1, <2>2, <2>3 DEF Timers
<1>6. CASE UNCHANGED vars
  BY <1>6 DEF vars, buttonVars, queueVars, clockVars
<1> QED BY <1>1, <1>2, <1>3, <1>4, <1>5, <1>6 DEF Next

\* Every variable of main.c, the timers and the queue of button events stay in
\* their types; no work item is queued twice, no timer exceeds its length.
THEOREM TypeCorrect == Spec => []TypeOK
<1>1. ASSUME Init PROVE TypeOK
  <2>1. wq \in Seq(Works) /\ Distinct(wq)
    BY <1>1, EmptySeqType DEF Init
  <2>2. clock_value \in Countdown /\ lag \in 0..MaxLag
    BY <1>1 DEF Init, Countdown
  <2>3. d_ready \in BOOLEAN /\ pair_en \in BOOLEAN
    BY <1>1, Zenon DEF Init
  <2>4. /\ pin \in [Buttons -> {0, 1}] /\ val \in [Buttons -> {0, 1}]
        /\ evt \in [Buttons -> {0, 1}]
    BY <1>1 DEF Init
  <2>5. /\ running \in Works \cup {None} /\ at \in Labels
        /\ running = None <=> at = "idle"
        /\ boot \in BootSteps /\ power \in {"on", "off"}
        /\ clock_state \in 0..2 /\ d_timer \in Countdown \cup {Off}
        /\ sleep_timer \in SleepTime \cup {Off}
    BY <1>1 DEF Init, Labels, BootSteps
  <2> QED BY <2>1, <2>2, <2>3, <2>4, <2>5 DEF TypeOK
<1> QED BY <1>1, TypeStep, PTL DEF Spec

-----------------------------------------------------------------------------
(* A paused clock does not count down *)

\* The statements of start_cb and stop_cb, and the expiry between them, keep
\* a paused clock frozen.
LEMMA FrozenStep == TypeOK /\ FrozenInv /\ [Next]_vars => FrozenInv'
<1> SUFFICES ASSUME TypeOK, FrozenInv, [Next]_vars PROVE FrozenInv'
  OBVIOUS
<1> USE DEF FrozenInv, PausedIsFrozen
<1>1. CASE Environment
  BY <1>1 DEF Environment, Wake, Restart, Interrupt, SilentEdge,
              clockVars, queueVars
<1>2. CASE Queue
  <2>1. CASE StartState \/ StartArm \/ StartCancel
    BY <2>1 DEF StartState, StartArm, StartCancel, In, Goto, Return, clockVars
  <2>2. CASE StopRead \/ StopTimer \/ StopState
    BY <2>2 DEF StopRead, StopTimer, StopState, In, Goto, Return
  <2>3. CASE HandleStart \/ HandleStop \/ HandlePair \/ HandleUser
    BY <2>3 DEF HandleStart, HandleStop, HandlePair, HandleUser, ReadLevel,
                Goto, Return, clockVars
  <2>4. CASE Dispatch \/ BleWork \/ PairEnable \/ PairCancel
    BY <2>4 DEF Dispatch, BleWork, PairEnable, PairCancel, Goto, Return,
                clockVars
  <2> QED BY <1>2, <2>1, <2>2, <2>3, <2>4 DEF Queue
<1>3. CASE Main
  BY <1>3 DEF Main, SetupButtons, DisplayInit, DclkInit, InitFails,
              PowerManageInit, ArmSleep, MainStep, clockVars
<1>4. CASE App
  BY <1>4 DEF App, AppInit, AppFault, Restart, AppTurn, queueVars
<1>5. CASE Timers
  BY <1>5 DEF Timers, DExpire, SleepExpire, Tick, Elapse, queueVars, clockVars
<1>6. CASE UNCHANGED vars
  BY <1>6 DEF vars, queueVars, clockVars
<1> QED BY <1>1, <1>2, <1>3, <1>4, <1>5, <1>6 DEF Next

\* No order of pushes, expiry and boot steps leaves a paused clock counting
\* (start_cb, stop_cb, d_clock_expire).
THEOREM PausedFrozen == Spec => []PausedIsFrozen
<1>1. Init => FrozenInv
  BY DEF Init, FrozenInv, PausedIsFrozen
<1>2. FrozenInv => PausedIsFrozen
  BY DEF FrozenInv
<1> QED BY <1>1, <1>2, FrozenStep, TypeCorrect, PTL DEF Spec

-----------------------------------------------------------------------------
(* The device does not power off under a running shot *)

\* Both timers lose the same ticks, and start_cb and d_clock_expire are the
\* only ones to arm them while the other may run.
LEMMA SleepStep == TypeOK /\ SleepInv /\ [Next]_vars => SleepInv'
<1> SUFFICES ASSUME TypeOK, SleepInv, [Next]_vars PROVE SleepInv'
  OBVIOUS
<1> USE DEF SleepInv, NoPowerOffMidShot, CountdownBeatsSleep
<1>1. CASE Environment
  BY <1>1 DEF Environment, Wake, Restart, Interrupt, SilentEdge,
              clockVars, queueVars
<1>2. CASE Queue
  <2>1. CASE StartState \/ StartArm \/ StartCancel
    BY <2>1 DEF StartState, StartArm, StartCancel, In, Goto, Return, clockVars
  <2>2. CASE StopRead \/ StopTimer \/ StopState
    BY <2>2 DEF StopRead, StopTimer, StopState, In, Goto, Return
  <2>3. CASE HandleStart \/ HandleStop \/ HandlePair \/ HandleUser
    BY <2>3 DEF HandleStart, HandleStop, HandlePair, HandleUser, ReadLevel,
                In, Goto, Return, clockVars
  <2>4. CASE Dispatch \/ BleWork \/ PairEnable \/ PairCancel
    BY <2>4 DEF Dispatch, BleWork, PairEnable, PairCancel, In, Goto, Return,
                clockVars, TypeOK
  <2> QED BY <1>2, <2>1, <2>2, <2>3, <2>4 DEF Queue
<1>3. CASE Main
  <2>1. CASE ArmSleep
    BY <2>1 DEF ArmSleep, MainStep, clockVars, TypeOK, Countdown
  <2>2. CASE SetupButtons \/ DisplayInit \/ DclkInit \/ InitFails \/ PowerManageInit
    BY <2>2 DEF SetupButtons, DisplayInit, DclkInit, InitFails,
                PowerManageInit, MainStep, clockVars
  <2> QED BY <1>3, <2>1, <2>2 DEF Main
<1>4. CASE App
  BY <1>4 DEF App, AppInit, AppFault, Restart, AppTurn, queueVars
<1>5. CASE Timers
  <2>1. CASE DExpire
    BY <2>1 DEF DExpire, queueVars
  <2>2. CASE SleepExpire
    BY <2>2 DEF SleepExpire, queueVars, clockVars, TypeOK, Countdown, Off
  <2>3. CASE Tick
    BY <2>3 DEF Tick, Elapse, queueVars, TypeOK, Countdown, SleepTime, Off
  <2> QED BY <1>5, <2>1, <2>2, <2>3 DEF Timers
<1>6. CASE UNCHANGED vars
  BY <1>6 DEF vars, queueVars, clockVars
<1> QED BY <1>1, <1>2, <1>3, <1>4, <1>5, <1>6 DEF Next

\* The one moment at which the sleep timer can cut a shot short is inside
\* the push that starts it (poweroff against start_cb).
THEOREM NeverOffMidShot == Spec => []NoPowerOffMidShot
<1>1. Init => SleepInv
  BY DEF Init, SleepInv, NoPowerOffMidShot, CountdownBeatsSleep
<1>2. SleepInv => NoPowerOffMidShot
  BY DEF SleepInv
<1> QED BY <1>1, <1>2, SleepStep, TypeCorrect, PTL DEF Spec

\* A running shot ends before the sleep timer does, but between the statements
\* of start_cb that arm the one and stop the other.
THEOREM CountdownFirst == Spec => []CountdownBeatsSleep
<1>1. Init => SleepInv
  BY DEF Init, SleepInv, NoPowerOffMidShot, CountdownBeatsSleep
<1>2. SleepInv => CountdownBeatsSleep
  BY DEF SleepInv
<1> QED BY <1>1, <1>2, SleepStep, TypeCorrect, PTL DEF Spec

-----------------------------------------------------------------------------
(* Pairing is on only while the pair button is held *)

\* An interrupt of the pair button always leaves an event with its latest
\* level in the queue, and pair_cb acts on the level read last.
LEMMA PairStep == TypeOK /\ PairInv /\ [Next]_vars => PairInv'
<1> SUFFICES ASSUME TypeOK, PairInv, [Next]_vars,
                    "pair" \in Buttons, 0 \in Trigger["pair"], power' = "on"
             PROVE  /\ boot' = "buttons" => wq' = <<>> /\ at' = "idle" /\ ~pair_en'
                    /\ pin'["pair"] = 0 =>
                       /\ InFlight("pair")' => val'["pair"] = 0
                       /\ at' = "pair_enable" /\ ~Contains(wq', "pair")
                          => evt'["pair"] = 0
                       /\ at' # "pair_enable" /\ ~InFlight("pair")' => ~pair_en'
  BY DEF PairInv, InFlight
<1>q. wq \in Seq(Works) /\ Distinct(wq)
  BY DEF TypeOK
<1>e. \A b : ~Contains(<<>>, b)
  BY DEF Contains
<1>1. CASE Environment
  <2>1. CASE Wake \/ AppFault
    BY <2>1, <1>e, Zenon DEF Wake, AppFault, Restart, InFlight
  <2>2. ASSUME NEW b \in Buttons, Interrupt(b) PROVE PairInv'
    <3>1. \A c : Contains(wq', c) <=> Contains(wq, c) \/ c = b
      BY <1>q, <2>2, SubmitContains, WorksFacts DEF Interrupt
    <3>2. CASE b = "pair"
      BY <2>2, <3>1, <3>2 DEF Interrupt, InFlight, PairInv, Press, TypeOK
    <3>3. CASE b # "pair"
      BY <2>2, <3>1, <3>3 DEF Interrupt, InFlight, PairInv, Press, TypeOK
    <3> QED BY <3>2, <3>3
  <2>3. ASSUME NEW b \in Buttons, SilentEdge(b) PROVE PairInv'
    <3>1. power = "on" BY <2>3 DEF SilentEdge
    <3>2. UNCHANGED <<val, evt, wq, running, at, pair_en, boot>>
      BY <2>3 DEF SilentEdge, queueVars
    <3>3. CASE b = "pair" /\ boot = "buttons"
      BY <3>1, <3>2, <3>3, <1>e DEF PairInv, InFlight, TypeOK
    <3>4. CASE b = "pair" /\ boot # "buttons"
      BY <2>3, <3>1, <3>2, <3>4 DEF SilentEdge, Press, PairInv, InFlight, TypeOK
    <3>5. CASE b # "pair"
      BY <2>3, <3>1, <3>2, <3>5 DEF SilentEdge, Press, PairInv, InFlight, TypeOK
    <3> QED BY <3>3, <3>4, <3>5
  <2> QED BY <1>1, <2>1, <2>2, <2>3 DEF Environment, PairInv, InFlight
<1>2. CASE Queue
  <2>1. CASE Dispatch
    <3>1. \A c : Contains(wq', c) <=> Contains(wq, c) /\ c # Head(wq)
      BY <1>q, <2>1, TailContains DEF Dispatch
    <3>2. at # "pair_enable" /\ running # "pair"
      BY <2>1 DEF Dispatch, TypeOK, None
    <3>3. Contains(wq, Head(wq))
      BY <1>q, <2>1 DEF Dispatch, Contains
    <3>4. InFlight("pair")' <=> InFlight("pair")
      BY <2>1, <3>1, <3>2, <3>3 DEF Dispatch, InFlight
    <3> QED BY <2>1, <3>2, <3>4, Zenon DEF Dispatch, PairInv, buttonVars
  <2>2. CASE HandlePair
    BY <2>2 DEF HandlePair, ReadLevel, In, Goto, PairInv, InFlight, TypeOK
  <2>3. CASE PairEnable
    <3>1. \A c \in Buttons : Contains(wq', c) <=> Contains(wq, c)
      BY <1>q, <2>3, SubmitContains, WorksFacts DEF PairEnable
    <3>2. evt["pair"] = 0 => ~(evt["pair"] = 1)
      OBVIOUS
    <3>3. pin' = pin /\ val' = val /\ boot' = boot /\ power = "on"
          /\ running = "pair" /\ running' = "pair"
          /\ at = "pair_enable" /\ at' = "pair_cancel"
          /\ pair_en' = (evt["pair"] = 1)
      BY <2>3, Zenon DEF PairEnable, In, Goto, buttonVars
    <3>4. InFlight("pair")' <=> Contains(wq, "pair")
      BY <3>1, <3>3 DEF InFlight
    <3>5. at' # "pair_enable" /\ boot # "buttons"
      BY <3>3 DEF PairInv
    <3>6. pin["pair"] = 0 /\ ~Contains(wq, "pair") => ~pair_en'
      BY <3>2, <3>3, Zenon DEF PairInv
    <3>7. pin["pair"] = 0 /\ Contains(wq, "pair") => val["pair"] = 0
      BY <3>3 DEF PairInv, InFlight
    <3> QED BY <3>3, <3>4, <3>5, <3>6, <3>7, Zenon
  <2>4. CASE HandleStart \/ HandleStop \/ HandleUser
    BY <2>4 DEF HandleStart, HandleStop, HandleUser, ReadLevel, In, Goto,
                Return, PairInv, InFlight, None, TypeOK
  <2>5. CASE StartState \/ StartArm \/ StartCancel \/ StopRead \/ StopTimer
             \/ StopState \/ PairCancel \/ BleWork
    BY <2>5 DEF StartState, StartArm, StartCancel, StopRead, StopTimer,
                StopState, PairCancel, BleWork, In, Goto, Return, PairInv,
                InFlight, None, buttonVars
  <2> QED BY <1>2, <2>1, <2>2, <2>3, <2>4, <2>5 DEF Queue, PairInv, InFlight
<1>3. CASE Main
  <2>1. UNCHANGED <<pin, val, evt, at, running, pair_en, power>>
        /\ (boot = "buttons" => wq' = wq) /\ boot' # "buttons"
    BY <1>3 DEF Main, SetupButtons, DisplayInit, DclkInit, InitFails,
                PowerManageInit, ArmSleep, MainStep, buttonVars
  <2>2. Contains(wq', "pair") <=> Contains(wq, "pair")
    BY <1>3, <1>q, SubmitContains, WorksFacts
       DEF Main, SetupButtons, DisplayInit, DclkInit, InitFails,
           PowerManageInit, ArmSleep
  <2> QED BY <2>1, <2>2 DEF PairInv, InFlight
<1>4. CASE App
  BY <1>4, <1>e DEF App, AppInit, AppFault, Restart, PairInv, InFlight,
                    buttonVars, queueVars
<1>5. CASE Timers
  BY <1>5 DEF Timers, DExpire, SleepExpire, Tick, PairInv, InFlight,
              buttonVars, queueVars
<1>6. CASE UNCHANGED vars
  BY <1>6 DEF vars, PairInv, InFlight, buttonVars, queueVars
<1> QED BY <1>1, <1>2, <1>3, <1>4, <1>5, <1>6 DEF Next

\* However pushes and releases of the pair button are merged in the queue,
\* once the last release is handled pairing is off (button_event_cb,
\* handle_button_event, pair_cb).
THEOREM PairingOffAfterRelease == Spec => []PairingFollowsButton
<1>1. Init => PairInv
  BY DEF Init, PairInv, InFlight, Contains
<1>2. PairInv => PairingFollowsButton
  BY DEF PairInv, PairingFollowsButton
<1> QED BY <1>1, <1>2, PairStep, TypeCorrect, PTL DEF Spec

-----------------------------------------------------------------------------
(* The controller implements ShotClock *)

\* What the refinement mapping needs to know of lag and of stop_cb's reading
\* is kept by every step.
LEMMA PromiseInvStep ==
    TypeOK /\ FrozenInv /\ SleepInv /\ PromiseInv /\ [Next]_vars => PromiseInv'
<1> SUFFICES ASSUME TypeOK, FrozenInv, SleepInv, PromiseInv, [Next]_vars
             PROVE PromiseInv'
  OBVIOUS
<1> USE DEF PromiseInv, Fresh
<1>1. CASE Environment
  BY <1>1 DEF Environment, Wake, Restart, Interrupt, SilentEdge,
              clockVars, queueVars
<1>2. CASE Queue
  <2>1. CASE StartState \/ StartArm \/ StartCancel
    BY <2>1 DEF StartState, StartArm, StartCancel, In, Goto, Return,
                clockVars, TypeOK
  <2>2. CASE StopRead
    BY <2>2 DEF StopRead, In, Goto, TypeOK, Remaining, Countdown, Off
  <2>3. CASE StopTimer \/ StopState
    BY <2>3 DEF StopTimer, StopState, In, Goto, Return
  <2>4. CASE HandleStart \/ HandleStop \/ HandlePair \/ HandleUser
    BY <2>4 DEF HandleStart, HandleStop, HandlePair, HandleUser, ReadLevel,
                In, Goto, Return, clockVars
  <2>5. CASE Dispatch \/ BleWork \/ PairEnable \/ PairCancel
    BY <2>5 DEF Dispatch, BleWork, PairEnable, PairCancel, In, Goto, Return,
                clockVars
  <2> QED BY <1>2, <2>1, <2>2, <2>3, <2>4, <2>5 DEF Queue
<1>3. CASE Main
  <2>1. CASE ArmSleep
    BY <2>1 DEF ArmSleep, MainStep, clockVars, TypeOK, Countdown, Off
  <2>2. CASE SetupButtons \/ DisplayInit \/ DclkInit \/ InitFails \/ PowerManageInit
    BY <2>2 DEF SetupButtons, DisplayInit, DclkInit, InitFails,
                PowerManageInit, MainStep, clockVars
  <2> QED BY <1>3, <2>1, <2>2 DEF Main
<1>4. CASE App
  <2>1. CASE AppInit
    BY <2>1 DEF AppInit, AppTurn, QueueIdle, queueVars, TypeOK
  <2>2. CASE AppFault
    BY <2>2 DEF AppFault, Restart
  <2> QED BY <1>4, <2>1, <2>2 DEF App
<1>5. CASE Timers
  <2>1. CASE DExpire
    BY <2>1 DEF DExpire, queueVars, TypeOK, Off
  <2>2. CASE SleepExpire
    BY <2>2 DEF SleepExpire, queueVars, clockVars, TypeOK, Countdown, Off
  <2>3. CASE Tick
    <3>1. /\ lag \in Nat /\ (Busy => lag' = lag + 1) /\ (~Busy => lag' = 0)
          /\ power = "on" /\ power' = "on" /\ (d_ready' <=> d_ready)
          /\ UNCHANGED <<at, clock_state, clock_value>>
      BY <2>3 DEF Tick, queueVars, TypeOK
    <3>b. (~d_ready => Busy) /\ (~Busy => at = "idle")
      BY DEF Busy, Booting, QueueIdle, TypeOK
    <3>2. d_timer # Off => d_timer \in Nat /\ d_timer - 1 \in Nat
                           /\ d_timer' = d_timer - 1
      BY <2>3 DEF Tick, Elapse, TypeOK, Countdown, Off
    <3>3. d_timer = Off => d_timer' = Off
      BY <2>3 DEF Tick, Elapse
    <3>f. d_timer # Off /\ Fresh /\ Busy => Fresh'
      BY <3>1, <3>2
    <3>4. d_timer' # Off /\ (~d_ready' \/ power' = "off") => Fresh'
      BY <3>1, <3>b, <3>f, <3>3, Zenon DEF PromiseInv
    <3>5. d_timer' # Off /\ sleep_timer' # Off => Fresh' \/ d_timer' < sleep_timer'
      <4>1. /\ sleep_timer' # Off => sleep_timer \in Nat
                                     /\ sleep_timer' = sleep_timer - 1
            /\ sleep_timer = Off => sleep_timer' = Off
        BY <2>3 DEF Tick, Elapse, TypeOK, SleepTime, Off
      <4>2. d_timer # Off /\ sleep_timer' # Off /\ d_timer < sleep_timer
              => d_timer' < sleep_timer'
        BY <3>2, <4>1
      <4>3. d_timer # Off /\ sleep_timer # Off /\ ~Busy => d_timer < sleep_timer
        BY <3>b DEF SleepInv, CountdownBeatsSleep
      <4> QED BY <3>f, <3>3, <4>1, <4>2, <4>3
    <3>6. at' = "stop_timer" =>
         IF d_timer' # Off THEN clock_value' \in d_timer'..(d_timer' + lag')
         ELSE IF clock_state' = 2 THEN clock_value' \in 0..lag'
         ELSE clock_value' = 0
      <4> SUFFICES ASSUME at' = "stop_timer" PROVE
             IF d_timer' # Off THEN clock_value' \in d_timer'..(d_timer' + lag')
             ELSE IF clock_state' = 2 THEN clock_value' \in 0..lag'
             ELSE clock_value' = 0
        OBVIOUS
      <4>1. lag' = lag + 1 /\ at = "stop_timer"
        BY <3>1, <3>b
      <4>2. CASE d_timer = Off
        BY <3>1, <3>3, <4>1, <4>2 DEF PromiseInv
      <4>3. CASE d_timer # Off
        BY <3>1, <3>2, <4>1, <4>3 DEF PromiseInv, Off
      <4> QED BY <4>2, <4>3
    <3>7. ~d_ready' => clock_state' # 2
      BY <3>1
    <3> QED BY <3>4, <3>5, <3>6, <3>7
  <2> QED BY <1>5, <2>1, <2>2, <2>3 DEF Timers
<1>6. CASE UNCHANGED vars
  BY <1>6 DEF vars, queueVars, clockVars
<1> QED BY <1>1, <1>2, <1>3, <1>4, <1>5, <1>6 DEF Next

\* Steps that do not touch the clock are stuttering steps of the promise.
LEMMA PromiseStutter ==
    ASSUME UNCHANGED clockVars, at' = "stop_state" <=> at = "stop_state"
    PROVE  UNCHANGED Promise!vars
BY DEF clockVars, Promise!vars, Mode, Left

\* Every step of the controller is a step of the promise or none at all.
LEMMA PromiseStep ==
    TypeOK /\ FrozenInv /\ PromiseInv /\ [Next]_vars
        => [Promise!Next]_(Promise!vars)
<1> SUFFICES ASSUME TypeOK, FrozenInv, PromiseInv, [Next]_vars
             PROVE  Promise!Next \/ UNCHANGED Promise!vars
  BY DEF Promise!Next, Promise!vars
<1>m. (d_timer # Off <=> Mode = "running") /\ (d_timer # Off => Left = d_timer)
      /\ (d_timer = Off /\ clock_state # 1 /\ at # "stop_state" => Left = 0)
  BY DEF Mode, Left
<1>r. Restart => Mode' = "idle" /\ Left' = 0
  BY DEF Restart, Mode, Left
<1>1. CASE Environment
  <2>1. CASE Wake
    <3>1. d_timer # Off => Left + MaxLag >= ClockReset
      BY <2>1, <1>m DEF Wake, PromiseInv, Fresh, TypeOK, Countdown, Off
    <3>2. Promise!Reboot
      BY <2>1, <3>1, <1>m, <1>r DEF Wake, Promise!Reboot
    <3> QED BY <3>2 DEF Promise!Next
  <2>2. ASSUME NEW b \in Buttons, Interrupt(b) \/ SilentEdge(b)
        PROVE UNCHANGED Promise!vars
    BY <2>2, PromiseStutter DEF Interrupt, SilentEdge, queueVars
  <2> QED BY <1>1, <2>1, <2>2 DEF Environment
<1>2. CASE Queue
  <2>1. CASE StartState
    <3>1. UNCHANGED <<clock_value, d_timer>> /\ at # "stop_state"
          /\ at' # "stop_state" /\ clock_state' = 0
      BY <2>1 DEF StartState, In, Goto
    <3>2. CASE d_timer # Off
      BY <3>1, <3>2 DEF Promise!vars, Mode, Left
    <3>3. CASE d_timer = Off /\ clock_state = 0
      BY <3>1, <3>3 DEF Promise!vars, Mode, Left
    <3>4. CASE d_timer = Off /\ clock_state # 0
      <4>1. Promise!Discard
        BY <3>1, <3>4 DEF Promise!Discard, Mode, Left, TypeOK
      <4> QED BY <4>1 DEF Promise!Next
    <3> QED BY <3>2, <3>3, <3>4
  <2>2. CASE StartArm
    <3>1. Promise!Start
      BY <2>2 DEF StartArm, Promise!Start, Mode, Left, Off, TypeOK
    <3> QED BY <3>1 DEF Promise!Next
  <2>3. CASE StopRead
    <3>1. clock_state' = clock_state /\ d_timer' = d_timer
          /\ at = "stop_read" /\ at' = "stop_timer"
          /\ clock_value' = Remaining(d_timer)
      BY <2>3 DEF StopRead, In, Goto
    <3>2. CASE clock_state # 1
      BY <3>1, <3>2 DEF Promise!vars, Mode, Left
    <3>3. CASE clock_state = 1
      <4>1. d_timer = Off BY <3>3 DEF FrozenInv, PausedIsFrozen
      <4>2. Promise!PauseStopped
        BY <3>1, <3>3, <4>1 DEF Promise!PauseStopped, Mode, Left, Remaining
      <4> QED BY <4>2 DEF Promise!Next
    <3> QED BY <3>2, <3>3
  <2>4. CASE StopTimer
    <3>1. clock_state' = clock_state /\ clock_value' = clock_value
          /\ d_timer' = Off /\ at = "stop_timer" /\ at' = "stop_state"
      BY <2>4 DEF StopTimer, In, Goto
    <3>2. Mode' = "paused" /\ Left' = clock_value
      BY <3>1 DEF Mode, Left
    <3>3. CASE d_timer # Off
      <4>1. clock_value \in d_timer..(d_timer + MaxLag)
        BY <3>1, <3>3 DEF PromiseInv, TypeOK, Off, Countdown
      <4>2. Promise!Pause
        BY <3>2, <3>3, <4>1, <1>m DEF Promise!Pause
      <4> QED BY <4>2 DEF Promise!Next
    <3>4. CASE d_timer = Off
      <4>1. IF clock_state = 2 THEN clock_value \in 0..MaxLag ELSE clock_value = 0
        BY <3>1, <3>4 DEF PromiseInv, TypeOK
      <4>2. clock_state = 2 => Mode = "expired"
        BY <3>1, <3>4 DEF Mode
      <4>3. Promise!PauseStopped
        BY <3>2, <3>4, <4>1, <4>2, <1>m DEF Promise!PauseStopped
      <4> QED BY <4>3 DEF Promise!Next
    <3> QED BY <3>3, <3>4
  <2>5. CASE StopState
    BY <2>5 DEF StopState, In, Return, FrozenInv, Promise!vars, Mode, Left
  <2>6. CASE HandleStart \/ HandleStop \/ HandlePair \/ HandleUser
    BY <2>6, PromiseStutter
       DEF HandleStart, HandleStop, HandlePair, HandleUser, ReadLevel, In,
           Goto, Return
  <2>7. CASE \/ Dispatch \/ BleWork \/ StartCancel \/ PairEnable \/ PairCancel
    BY <2>7, PromiseStutter
       DEF Dispatch, BleWork, StartCancel, PairEnable, PairCancel, In, Goto,
           Return, TypeOK
  <2> QED BY <1>2, <2>1, <2>2, <2>3, <2>4, <2>5, <2>6, <2>7 DEF Queue
<1>3. CASE Main
  BY <1>3, PromiseStutter
     DEF Main, SetupButtons, DisplayInit, DclkInit, InitFails,
         PowerManageInit, ArmSleep, MainStep
<1>4. CASE App
  <2>1. ~d_ready /\ (d_timer # Off => Left + MaxLag >= ClockReset)
    BY <1>4, <1>m DEF App, AppInit, AppFault, PromiseInv, Fresh, TypeOK,
                      Countdown, Off
  <2>2. CASE AppInit /\ d_timer' = d_timer
    BY <2>2, PromiseStutter DEF AppInit, queueVars, clockVars
  <2>3. CASE AppInit /\ d_timer' = Off /\ d_timer # Off
    <3>1. clock_state' = clock_state /\ at' = "idle" /\ clock_state # 1
      BY <2>3 DEF AppInit, AppTurn, QueueIdle, queueVars, TypeOK, FrozenInv,
                  PausedIsFrozen
    <3>2. CASE clock_state = 0
      <4>1. Promise!Forget
        BY <2>1, <2>3, <3>1, <3>2, <1>m DEF Promise!Forget, Mode, Left
      <4> QED BY <4>1 DEF Promise!Next
    <3> QED BY <2>1, <3>1, <3>2 DEF TypeOK, PromiseInv
  <2>4. CASE AppFault
    <3>1. Promise!Reboot
      BY <2>1, <2>4, <1>m, <1>r DEF AppFault, Promise!Reboot
    <3> QED BY <3>1 DEF Promise!Next
  <2> QED BY <1>4, <2>2, <2>3, <2>4 DEF App, AppInit
<1>5. CASE Timers
  <2>1. CASE DExpire
    <3>1. d_ready
      BY <2>1 DEF DExpire, PromiseInv, Fresh, TypeOK, Off
    <3>2. d_timer = 0 /\ d_timer' = Off /\ clock_state' = 2 /\ at' = at
          /\ clock_value' = clock_value /\ 0 # Off
      BY <2>1, <3>1 DEF DExpire, queueVars, Off
    <3>3. at # "stop_state"
      BY <3>2 DEF FrozenInv
    <3>4. Promise!Expire
      BY <3>2, <3>3 DEF Promise!Expire, Mode, Left
    <3> QED BY <3>4 DEF Promise!Next
  <2>2. CASE SleepExpire
    BY <2>2, PromiseStutter DEF SleepExpire, queueVars
  <2>3. CASE Tick
    <3>1. CASE d_timer = Off
      BY <2>3, <3>1, PromiseStutter DEF Tick, Elapse, queueVars, clockVars
    <3>2. CASE d_timer # Off
      <4>1. d_timer > 0 /\ d_timer' = d_timer - 1 /\ d_timer' # Off
        BY <2>3, <3>2 DEF Tick, Elapse, TypeOK, Countdown, Off
      <4>2. Promise!Count
        BY <3>2, <4>1, <1>m DEF Promise!Count, Mode, Left
      <4> QED BY <4>2 DEF Promise!Next
    <3> QED BY <3>1, <3>2
  <2> QED BY <1>5, <2>1, <2>2, <2>3 DEF Timers
<1>6. CASE UNCHANGED vars
  BY <1>6, PromiseStutter DEF vars, queueVars
<1> QED BY <1>1, <1>2, <1>3, <1>4, <1>5, <1>6 DEF Next

\* The controller keeps the promise of ShotClock, whatever its buttons, its
\* interrupt edges and its times.
THEOREM KeepsPromise == Spec => ShotClockPromise
<1>1. Init => FrozenInv /\ SleepInv /\ PromiseInv
  BY DEF Init, FrozenInv, PausedIsFrozen, SleepInv, NoPowerOffMidShot,
         CountdownBeatsSleep, PromiseInv
<1>2. Init => Promise!Init
  BY DEF Init, Promise!Init, Mode, Left
<1>3. Spec => [](FrozenInv /\ SleepInv /\ PromiseInv)
  BY <1>1, FrozenStep, SleepStep, PromiseInvStep, TypeCorrect, PTL DEF Spec
<1> QED BY <1>2, <1>3, PromiseStep, TypeCorrect, PTL
        DEF Spec, ShotClockPromise, Promise!Spec
-----------------------------------------------------------------------------
(* On the way to power off *)

LEMMA AheadType ==
    ASSUME TypeOK
    PROVE  /\ BootLeft \in Nat /\ Len(wq) \in Nat
           /\ d_timer \in Int /\ d_timer >= Off /\ sleep_timer \in Int /\ sleep_timer >= Off
<1>1. Len(wq) \in Nat
  BY DEF TypeOK
<1> QED BY <1>1 DEF TypeOK, BootLeft, Countdown, SleepTime, Off

\* Without an event the handlers of buttons do not run.
LEMMA NoButtonRuns ==
    ASSUME at \in {"idle", "ble"}
    PROVE  /\ Queue => Dispatch \/ BleWork
           /\ NoEvents <=> \A b \in Buttons : ~Contains(wq, b)
<1>1. Queue => Dispatch \/ BleWork
  BY DEF Queue, HandleStart, HandleStop, HandlePair, HandleUser, ReadLevel, StartState,
         StartArm, StartCancel, StopRead, StopTimer, StopState, PairEnable, PairCancel, In
<1> QED BY <1>1 DEF NoEvents, InFlight

LEMMA CourseQueue ==
    ASSUME TypeOK, OnCourse, Queue
    PROVE  OnCourse' /\ Fewer(Ahead', Ahead)
<1> USE DEF OnCourse, clockVars
<1>1. /\ UNCHANGED <<power, d_ready, d_timer, sleep_timer, boot>>
      /\ Dispatch \/ BleWork
  BY NoButtonRuns DEF Dispatch, BleWork
<1>2. BootLeft' = BootLeft
  BY <1>1 DEF BootLeft
<1>3. CASE Dispatch
  <2>1. /\ Contains(wq, Head(wq)) /\ \A b : Contains(wq', b) => Contains(wq, b)
        /\ Len(wq') < Len(wq)
    <3>1. wq # <<>> /\ wq' = Tail(wq) /\ wq \in Seq(Works) /\ Distinct(wq)
      BY <1>3 DEF Dispatch, TypeOK
    <3>2. Len(wq) \in Nat \ {0} /\ Head(wq) = wq[1] /\ Len(wq') = Len(wq) - 1
      BY <3>1
    <3> QED BY <3>1, <3>2, TailContains DEF Contains
  <2>2. at' = "ble"
    BY <1>3, <2>1, NoButtonRuns DEF Dispatch
  <2>3. NoEvents'
    BY <2>1, <2>2, NoButtonRuns DEF NoEvents, InFlight
  <2> QED BY <1>1, <1>2, <2>1, <2>2, <2>3, FewerAt DEF Ahead
<1>4. CASE BleWork
  <2>1. at = "ble" /\ at' = "idle" /\ wq' = wq
    BY <1>4 DEF BleWork, Return
  <2>2. NoEvents'
    BY <2>1, NoButtonRuns DEF NoEvents, InFlight
  <2>3. (IF at' = "idle" THEN 0 ELSE 1) < (IF at = "idle" THEN 0 ELSE 1)
    BY <2>1
  <2> QED BY <1>1, <1>2, <2>1, <2>2, <2>3, FewerAt DEF Ahead
<1> QED BY <1>1, <1>3, <1>4

LEMMA CourseMain ==
    ASSUME TypeOK, OnCourse, Main
    PROVE  OnCourse' /\ Fewer(Ahead', Ahead)
<1> USE DEF OnCourse, clockVars
<1> USE DEF Main, SetupButtons, DisplayInit, DclkInit, InitFails, PowerManageInit,
            ArmSleep, MainStep
<1>1. /\ UNCHANGED <<power, d_ready, d_timer, at, running>>
      /\ sleep_timer' = sleep_timer \/ sleep_timer' # Off
      /\ wq' = wq \/ wq' = Submit(wq, "advertise_DCLK_work")
  <2>1. SleepLong # Off
    BY DEF Off
  <2>2. CASE InitFails
    BY <2>2
  <2> QED BY <2>1, <2>2
<1>2. BootLeft' < BootLeft
  <2>1. \/ boot \in {"buttons", "dclk"} /\ boot' = "failed"
        \/ boot = "buttons" /\ boot' = "display"
        \/ boot = "display" /\ boot' = "dclk"
        \/ boot = "dclk" /\ boot' = "power"
        \/ boot = "power" /\ boot' = "sleep"
        \/ boot = "sleep" /\ boot' = "done"
    <3>1. CASE InitFails
      BY <3>1
    <3> QED BY <3>1
  <2> QED BY <2>1 DEF BootLeft
<1>3. \A b \in Buttons : Contains(wq', b) <=> Contains(wq, b)
  BY <1>1, SubmitContains, WorksFacts DEF TypeOK
<1>4. NoEvents'
  BY <1>1, <1>3 DEF NoEvents, InFlight
<1> QED BY <1>1, <1>2, <1>4, FewerAt DEF Ahead

LEMMA CourseTimers ==
    ASSUME TypeOK, OnCourse, Timers
    PROVE  power' = "off" \/ (OnCourse' /\ Fewer(Ahead', Ahead))
<1> USE DEF OnCourse, queueVars
<1>1. CASE SleepExpire
  BY <1>1 DEF SleepExpire
<1>2. ASSUME UNCHANGED <<power, d_ready, boot, queueVars>>,
             d_timer' # Off \/ sleep_timer' # Off,
             \/ d_timer' + 1 < d_timer + 1
             \/ d_timer' = d_timer /\ sleep_timer' + 1 < sleep_timer + 1
      PROVE  OnCourse' /\ Fewer(Ahead', Ahead)
  <2>1. BootLeft' = BootLeft /\ NoEvents'
    BY <1>2 DEF BootLeft, NoEvents, InFlight
  <2> QED BY <1>2, <2>1, FewerAt DEF Ahead
<1>3. CASE DExpire
  BY <1>2, <1>3 DEF DExpire, Off
<1>4. CASE Tick
  BY <1>2, <1>4, AheadType DEF Tick, Elapse, Off
<1> QED BY <1>1, <1>3, <1>4 DEF Timers

\* main(), the work queue and the timers keep a device that is left alone on
\* its way to power off, and have no way to put it off for ever.
THEOREM CourseKept == Spec => StaysOnCourse
<1>1. ASSUME TypeOK, Next, OnCourse
      PROVE  \/ power' = "off" \/ ~NoEvents'
             \/ /\ OnCourse'
                /\ Fewer(Ahead', Ahead) \/ \E b \in Buttons : SilentEdge(b)
  <2>1. CASE Wake \/ App
    BY <1>1, <2>1 DEF OnCourse, Wake, App, AppInit, AppFault
  <2>2. ASSUME NEW b \in Buttons, Interrupt(b) PROVE ~NoEvents'
    BY <1>1, <2>2, SubmitContains, WorksFacts DEF Interrupt, NoEvents, InFlight, TypeOK
  <2>3. ASSUME NEW b \in Buttons, SilentEdge(b) PROVE OnCourse'
    BY <1>1, <2>3 DEF SilentEdge, OnCourse, NoEvents, InFlight, queueVars, clockVars
  <2> QED BY <1>1, <2>1, <2>2, <2>3, CourseQueue, CourseMain, CourseTimers
          DEF Next, Environment
<1> QED BY <1>1, TypeCorrect, PTL DEF Spec, StaysOnCourse
=============================================================================

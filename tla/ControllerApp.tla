--------------------------- MODULE ControllerApp ---------------------------
(***************************************************************************)
(* The controller's application thread dclk_app (main.c): every 500 ms it  *)
(* reads the shot clock, notifies the connected display, redraws the LCD   *)
(* and sounds the buzzer (Interface.c).  It has the lowest priority: the   *)
(* button handlers, the timer interrupts and main()'s use of the LCD       *)
(* during boot all come between its steps.                                 *)
(*                                                                         *)
(* The handlers of start and stop run to their end before the thread goes  *)
(* on, so each is one action here; ControllerClock has their steps.        *)
(***************************************************************************)
EXTENDS Integers, Sequences, Descent

CONSTANTS ClockReset,      \* CLOCK_RESET_VALUE in ticks
          Second,          \* 1000 ms in ticks
          Sync,            \* SYNC_INTERVAL in ticks
          Buzz,            \* how long the buzzer sounds, in ticks
          DashAt,          \* the first clock that takes two digits (10), and
                           \* the last: CLOCK_RESET_VALUE is 10000 ms
          BuzzBelow,       \* the buzzer sounds below this many seconds (3)
          ConnChars,       \* what the LCD can say about the connection
          Fields,          \* the values the display may subscribe to
          Spill,           \* locals the sprintf into dis_status may clear
          DisplayMayFail,  \* may the LCD driver report errors?
          MaxLag           \* ticks one turn of the thread may straddle

ASSUME AppAssumption ==
    /\ {ClockReset, Second, Sync, Buzz, DashAt} \subseteq Nat \ {0}
    /\ BuzzBelow \in Nat /\ MaxLag \in Nat
    /\ ClockReset <= DashAt * Second
    /\ {"0", "P"} \subseteq ConnChars /\ "nul" \notin ConnChars
    /\ Fields \subseteq {"clock", "state"}
    /\ Spill \subseteq {"d_state", "d_clock"}
    /\ DisplayMayFail \in BOOLEAN

VARIABLES
    clock_state, clock_value, d_timer,  \* see ControllerClock
    conn,              \* num_conn as a digit, or "P" while pairing
    subscribed,        \* the notifications the display has enabled
    sent,              \* the values last notified
    pc, nap, lag,      \* where the thread is; ticks left to sleep; straddled
    d_state, d_clock, dis_status,        \* locals of dclk_app
    dis,               \* dis_clock, dis_state and dis_conn_status
    fb, panel,         \* the LCD's frame buffer and what it shows
    missed,            \* (history) an LCD error has been logged since a text
                       \* was last written
    lcd,               \* where main() is in display_init
    pwm, buzz_timer,
    power

clockVars == <<clock_state, clock_value, d_timer>>
linkVars  == <<conn, subscribed, sent>>
localVars == <<d_state, d_clock, dis_status>>
lcdVars   == <<dis, fb, panel, missed>>
buzzVars  == <<pwm, buzz_timer>>
vars == <<clockVars, linkVars, pc, nap, lag, localVars, lcdVars, lcd, buzzVars,
          power>>

Off == -1
Chars == ConnChars \cup {"nul"}
Seconds == 0..DashAt
None == -1

-----------------------------------------------------------------------------
(* What can be on the LCD: pictures are tuples.  A text of main.c's format  *)
(* is "mixed" if characters of a longer picture are still visible behind it.*)

Blank   == <<"blank">>
Splash  == <<"splash">>
OffText == <<"off">>

\* Mutant: 10 is drawn with its two digits.
WideTen(c) == c >= DashAt

\* The clock takes two characters, except that 10 is drawn as one dash.
Wide(c) == c >= DashAt /\ c # DashAt

Text(v) == <<"text", v.clock, v.state, v.conn, "clean">>
Mixed(v) == [Text(v) EXCEPT ![5] = "mixed"]

\* cfb_print(str, 0, 0): characters the new text does not reach stay.
Printed(v, old) ==
    IF \/ old = Splash
       \/ old[1] = "text" /\ (old[5] = "mixed" \/ (Wide(old[2]) /\ ~Wide(v.clock)))
    THEN Mixed(v) ELSE Text(v)

-----------------------------------------------------------------------------
Remaining(t) == IF t = Off THEN 0 ELSE t
\* Mutant: a stopped timer counts too.
ElapseAlways(t) == t - 1

Elapse(t) == IF t = Off THEN Off ELSE t - 1

\* ROUND_UP(ms, 1000) / 1000
InSeconds(t) == (t + Second - 1) \div Second

Boot == /\ clock_state = 0 /\ clock_value = 0 /\ d_timer = Off
        /\ conn = "0" /\ subscribed = {} /\ sent = [clock |-> None, state |-> None]
        /\ pc = "state" /\ nap = 0 /\ lag = 0
        /\ d_state = 0 /\ d_clock = 0 /\ dis_status = "nul"
        /\ dis = [clock |-> 0, state |-> 2, conn |-> "nul"]
        /\ fb = Blank /\ lcd = "print" /\ missed = FALSE
        /\ pwm = "off" /\ buzz_timer = Off
        /\ power = "on"

Init == Boot /\ panel = Blank

\* Power on again; the LCD shows its last picture until it is written to.
Wake == /\ power = "off"
        /\ clock_state' = 0 /\ clock_value' = 0 /\ d_timer' = Off
        /\ conn' = "0" /\ subscribed' = {}
        /\ sent' = [clock |-> None, state |-> None]
        /\ pc' = "state" /\ nap' = 0 /\ lag' = 0
        /\ d_state' = 0 /\ d_clock' = 0 /\ dis_status' = "nul"
        /\ dis' = [clock |-> 0, state |-> 2, conn |-> "nul"]
        /\ fb' = Blank /\ lcd' = "print" /\ missed' = FALSE
        /\ pwm' = "off" /\ buzz_timer' = Off
        /\ power' = "on"
        /\ UNCHANGED panel

-----------------------------------------------------------------------------
(* Handlers and interrupts that come between the thread's steps *)

AppVars == <<linkVars, pc, nap, lag, localVars, lcdVars, lcd, buzzVars, power>>

StartPushed == /\ power = "on"
               /\ clock_state' = 0 /\ d_timer' = ClockReset
               /\ UNCHANGED <<clock_value, AppVars>>

\* The shot expires between the two statements of start_cb.
StartRacesExpiry == /\ power = "on" /\ d_timer = 0
                    /\ clock_state' = 2 /\ d_timer' = ClockReset
                    /\ UNCHANGED <<clock_value, AppVars>>

StopPushed == /\ power = "on"
              /\ clock_value' = Remaining(d_timer)
              /\ d_timer' = Off /\ clock_state' = 1
              /\ UNCHANGED AppVars

DExpire == /\ power = "on" /\ d_timer = 0
           /\ d_timer' = Off /\ clock_state' = 2
           /\ UNCHANGED <<clock_value, AppVars>>

\* Pairing, connections and the display's subscriptions: module DclkService.
LinkChanges == /\ power = "on"
               /\ conn' \in ConnChars
               /\ subscribed' \in SUBSET Fields
               /\ conn' = "0" => subscribed' = {}
               /\ UNCHANGED <<clockVars, sent, pc, nap, lag, localVars, lcdVars,
                              lcd, buzzVars, power>>

\* Mutant: stop_buzz leaves the PWM on.
StopBuzzNot == /\ power = "on" /\ buzz_timer = 0
               /\ buzz_timer' = Off
               /\ UNCHANGED <<clockVars, linkVars, pc, nap, lag, localVars,
                              lcdVars, lcd, pwm, power>>

\* stop_buzz
StopBuzz == /\ power = "on" /\ buzz_timer = 0
            /\ buzz_timer' = Off /\ pwm' = "off"
            /\ UNCHANGED <<clockVars, linkVars, pc, nap, lag, localVars,
                           lcdVars, lcd, power>>

\* display_init has returned, with an error or without; interface_init returns
\* 0 in both cases and main() goes on.
Returned == lcd \in {"done", "failed"}

\* The sleep timer: poweroff() calls interface_off(), which prints to the
\* frame buffer only.  It never fires while a shot runs (NoPowerOffMidShot).
PowerOff == /\ power = "on" /\ d_timer = Off /\ Returned
            /\ fb' = OffText
            /\ power' = "off"
            /\ UNCHANGED <<clockVars, linkVars, pc, nap, lag, localVars, dis,
                           panel, missed, lcd, buzzVars>>

ThreadBusy == pc # "nap" \/ nap = 0

Tick == /\ power = "on" /\ Returned
        /\ d_timer # 0 /\ buzz_timer # 0
        /\ ThreadBusy => lag < MaxLag
        /\ lag' = IF ThreadBusy THEN lag + 1 ELSE 0
        /\ nap' = IF nap = 0 THEN 0 ELSE nap - 1
        /\ d_timer' = Elapse(d_timer) /\ buzz_timer' = Elapse(buzz_timer)
        /\ UNCHANGED <<clock_state, clock_value, linkVars, pc, localVars,
                       lcdVars, lcd, pwm, power>>

-----------------------------------------------------------------------------
(* display_init, in main(): it waits for the bus in each of its two writes *)

MainVars == <<clockVars, linkVars, pc, nap, lag, localVars, dis, missed, buzzVars,
              power>>

MainSplash == /\ power = "on" /\ lcd = "print"
              /\ fb' = Splash /\ lcd' = "flush"
              /\ UNCHANGED <<panel, MainVars>>

\* cfb_framebuffer_clear(display, true)
MainClear == /\ power = "on" /\ lcd = "flush"
             /\ panel' = fb
             /\ fb' = Blank /\ lcd' = "clear"
             /\ UNCHANGED MainVars

MainCleared == /\ power = "on" /\ lcd = "clear"
               /\ panel' = fb /\ lcd' = "done"
               /\ UNCHANGED <<fb, MainVars>>

\* Any call reports an error and display_init returns: before or after it has
\* printed the splash, or after a failed write.  Nothing clears the splash then.
MainFails == /\ DisplayMayFail
             /\ power = "on" /\ lcd \in {"print", "flush", "clear"}
             /\ fb' = fb \/ (lcd = "print" /\ fb' = Splash)
             /\ lcd' = "failed"
             /\ UNCHANGED <<panel, MainVars>>

-----------------------------------------------------------------------------
(* dclk_app; it runs while main() waits for the bus or sleeps *)

At(l) == power = "on" /\ lcd # "print" /\ pc = l

ReadState == /\ At("state")
             /\ d_state' = clock_state
             /\ pc' = "clock"
             /\ UNCHANGED <<clockVars, linkVars, nap, lag, d_clock, dis_status,
                            lcdVars, lcd, buzzVars, power>>

\* What the thread makes of a clock in state s.
Shown(s) == InSeconds(IF s # 1 THEN Remaining(d_timer) ELSE clock_value)

ReadClock == /\ At("clock")
             /\ d_clock' = Shown(d_state)
             /\ pc' = "status"
             /\ UNCHANGED <<clockVars, linkVars, nap, lag, d_state, dis_status,
                            lcdVars, lcd, buzzVars, power>>

\* dclk_get_status and dis_status.  sprintf writes a digit and a NUL into the
\* one char: what the NUL hits depends on the layout of the stack.
ReadStatus == /\ At("status")
              /\ dis_status' = conn
              /\ \/ UNCHANGED <<d_state, d_clock>>
                 \/ /\ conn # "P" /\ "d_state" \in Spill
                    /\ d_state' = 0 /\ UNCHANGED d_clock
                 \/ /\ conn # "P" /\ "d_clock" \in Spill
                    /\ d_clock' = 0 /\ UNCHANGED d_state
              /\ pc' = "notify_clock"
              /\ UNCHANGED <<clockVars, linkVars, nap, lag, lcdVars, lcd,
                             buzzVars, power>>

Notify(field, value) ==
    /\ sent' = IF field \in subscribed THEN [sent EXCEPT ![field] = value] ELSE sent
    /\ UNCHANGED <<clockVars, conn, subscribed, nap, lag, localVars, lcdVars,
                   lcd, buzzVars, power>>

SendClock == At("notify_clock") /\ Notify("clock", d_clock) /\ pc' = "notify_state"
\* Mutant: the state is notified only when the LCD has to change as well.
SendStateOnChange == /\ At("notify_state") /\ pc' = "update"
                     /\ IF d_state # dis.state THEN Notify("state", d_state)
                        ELSE UNCHANGED <<clockVars, linkVars, nap, lag, localVars,
                                         lcdVars, lcd, buzzVars, power>>

SendState == At("notify_state") /\ Notify("state", d_state) /\ pc' = "update"

Locals == [clock |-> d_clock, state |-> d_state, conn |-> dis_status]

Sleep == pc' = "nap" /\ nap' = Sync

\* Mutant: only the clock is compared.
UpdateSameClock == /\ At("update") /\ dis.clock = d_clock
                   /\ Sleep
                   /\ UNCHANGED <<clockVars, linkVars, lag, localVars, lcdVars,
                                  lcd, buzzVars, power>>

\* interface_update: the cache is set before anything is drawn.
UpdateUnchanged == /\ At("update") /\ dis = Locals
                   /\ Sleep
                   /\ UNCHANGED <<clockVars, linkVars, lag, localVars, lcdVars,
                                  lcd, buzzVars, power>>

\* Mutant: the cache is set after the text is made of it.
UpdatePrintsOld == /\ At("update") /\ dis # Locals
                   /\ dis' = Locals
                   /\ fb' = Printed(dis, fb)
                   /\ pc' = "finalize"
                   /\ UNCHANGED <<clockVars, linkVars, nap, lag, localVars,
                                  panel, missed, lcd, buzzVars, power>>

UpdatePrints == /\ At("update") /\ dis # Locals
                /\ dis' = Locals
                /\ fb' = Printed(Locals, fb)
                /\ pc' = "finalize"
                /\ UNCHANGED <<clockVars, linkVars, nap, lag, localVars, panel,
                               missed, lcd, buzzVars, power>>

UpdateFails == /\ DisplayMayFail
               /\ At("update") /\ dis # Locals
               /\ dis' = Locals /\ missed' = TRUE
               /\ Sleep
               /\ UNCHANGED <<clockVars, linkVars, lag, localVars, fb, panel,
                              lcd, buzzVars, power>>

Finalize == /\ At("finalize")
            /\ panel' = fb /\ missed' = FALSE
            /\ IF dis.clock < BuzzBelow THEN pc' = "buzz" /\ UNCHANGED nap
                                        ELSE Sleep
            /\ UNCHANGED <<clockVars, linkVars, lag, localVars, dis, fb, lcd,
                           buzzVars, power>>

FinalizeFails == /\ DisplayMayFail
                 /\ At("finalize")
                 /\ missed' = TRUE
                 /\ Sleep
                 /\ UNCHANGED <<clockVars, linkVars, lag, localVars, dis, fb,
                                panel, lcd, buzzVars, power>>

\* buzz
BuzzOn == /\ At("buzz")
          /\ pwm' = "on" /\ pc' = "buzz_arm"
          /\ UNCHANGED <<clockVars, linkVars, nap, lag, localVars, lcdVars, lcd,
                         buzz_timer, power>>

BuzzArm == /\ At("buzz_arm")
           /\ buzz_timer' = Buzz
           /\ Sleep
           /\ UNCHANGED <<clockVars, linkVars, lag, localVars, lcdVars, lcd,
                          pwm, power>>

\* k_sleep is over.
WakeUp == /\ At("nap") /\ nap = 0
          /\ pc' = "state"
          /\ UNCHANGED <<clockVars, linkVars, nap, lag, localVars, lcdVars, lcd,
                         buzzVars, power>>

-----------------------------------------------------------------------------
Thread == \/ ReadState \/ ReadClock \/ ReadStatus \/ SendClock \/ SendState
          \/ UpdateUnchanged \/ UpdatePrints \/ UpdateFails
          \/ Finalize \/ FinalizeFails \/ BuzzOn \/ BuzzArm \/ WakeUp
Main == MainSplash \/ MainClear \/ MainCleared \/ MainFails
Events == StartPushed \/ StartRacesExpiry \/ StopPushed \/ LinkChanges
Timers == DExpire \/ StopBuzz \/ PowerOff \/ Tick

Next == Thread \/ Main \/ Events \/ Timers \/ Wake

Spec == Init /\ [][Next]_vars

\* Timers fire, and the thread and main() get the processor.  The presses
\* and the sleep timer are under no obligation.
Fairness == /\ WF_vars(Thread) /\ WF_vars(Main)
            /\ WF_vars(DExpire) /\ WF_vars(StopBuzz) /\ WF_vars(Tick)

FairSpec == Spec /\ Fairness

-----------------------------------------------------------------------------
(* Properties *)

Pictures == {Blank, Splash, OffText}
            \cup ({"text"} \X Seconds \X (0..2) \X Chars \X {"clean", "mixed"})

TypeOK ==
    /\ clock_state \in 0..2 /\ clock_value \in 0..ClockReset
    /\ d_timer \in 0..ClockReset \cup {Off}
    /\ conn \in ConnChars /\ subscribed \subseteq Fields
    /\ sent \in [clock : Seconds \cup {None}, state : 0..2 \cup {None}]
    /\ pc \in {"state", "clock", "status", "notify_clock", "notify_state",
               "update", "finalize", "buzz", "buzz_arm", "nap"}
    /\ nap \in 0..Sync /\ lag \in 0..MaxLag
    /\ d_state \in 0..2 /\ d_clock \in Seconds /\ dis_status \in Chars
    /\ dis \in [clock : Seconds, state : 0..2, conn : Chars]
    /\ fb \in Pictures /\ panel \in Pictures
    /\ lcd \in {"print", "flush", "clear", "done", "failed"}
    /\ missed \in BOOLEAN
    /\ pwm \in {"on", "off"} /\ buzz_timer \in 0..Buzz \cup {Off}
    /\ power \in {"on", "off"}

\* The buzzer never sounds without a timer that will silence it, except in
\* the instant in which buzz() is about to start that timer.
BuzzerWillStop == pwm = "on" => buzz_timer # Off \/ pc = "buzz_arm"

\* After a display_init without errors no text on the LCD has remains of an
\* earlier picture behind it, although nothing is ever cleared again and writes
\* fail: the one clock that would need a third width is drawn with a dash.
\* (After an error of display_init "DCLK Start" may stay behind the text.)
LcdClean == lcd = "done" /\ power = "on" /\ panel[1] = "text" => panel[5] = "clean"

\* The cache is set before the text is drawn and written, and main() clears the
\* LCD in between; all the same, between its turns the LCD shows the cached
\* values, unless an error has been logged since it was last written.  It may be
\* blank, when the text was drawn into the picture main() was about to clear,
\* and have remains behind the text after an error of display_init.
LcdShowsCache ==
    pc = "nap" /\ power = "on" /\ Returned /\ ~missed =>
        panel \in {Text(dis), Blank} \/ (lcd = "failed" /\ panel = Mixed(dis))

\* What a turn would draw of the clock as it is now.
Current == [clock |-> Shown(clock_state), state |-> clock_state, conn |-> conn]

\* Once nobody touches a stopped or paused clock any more, the LCD comes to
\* show it and stays so (or is still blank from the boot).
Settled == clock_state # 0 /\ d_timer = Off /\ conn = "0" /\ power = "on"
SettledIsShown == <>[]Settled => <>[](panel \in {Text(Current), Blank})

\* A display that stays subscribed is told of the end of the shot.
ExpiryIsSent ==
    (clock_state = 2 /\ d_timer = Off)
        ~> (power = "off" \/ clock_state # 2 \/ "state" \notin subscribed
            \/ sent.state = 2)

(* How far the thread is from having caught up with the clock *)

\* The steps of the turns until a text is on the LCD.
ToGo == CASE pc = "buzz" -> 10 [] pc = "buzz_arm" -> 9 [] pc = "nap" -> 8
          [] pc = "state" -> 7 [] pc = "clock" -> 6 [] pc = "status" -> 5
          [] pc = "notify_clock" -> 4 [] pc = "notify_state" -> 3
          [] pc = "update" -> 2 [] OTHER -> 1
MainLeft == CASE lcd = "print" -> 3 [] lcd = "flush" -> 2 [] lcd = "clear" -> 1
              [] OTHER -> 0

\* What is ahead of it, if late says whether it takes one turn more.
Ahead(late) == <<MainLeft, IF late THEN 1 ELSE 0, ToGo, nap, MaxLag - lag + buzz_timer + 1>>

\* The turn under way has read something else, so it takes the next.
OutOfDate == \/ pc = "clock" /\ d_state # clock_state
             \/ pc = "status" /\ <<d_state, d_clock>> # <<clock_state, Current.clock>>
             \/ pc \in {"notify_clock", "notify_state", "update"} /\ Locals # Current
             \/ pc = "finalize" /\ dis # Current
UpToDate == ~OutOfDate /\ pc # "finalize" /\ dis = Current

\* The LCD catches up with a clock that stands: every step brings the thread
\* nearer to it whatever turn it is in, once there it stays, and what it then
\* believes is shown is shown.
CatchesUp ==
    [][Settled /\ Settled' /\ UNCHANGED Current =>
          /\ UpToDate => UpToDate' /\ (lcd = "done" => panel \in {Text(Current), Blank})
          /\ UpToDate' \/ Events \/ Fewer(Ahead(OutOfDate)', Ahead(OutOfDate))]_vars

\* The end of a shot that the subscribed display has not been told of.
Awaited == /\ power = "on" /\ clock_state = 2 /\ d_timer = Off
           /\ "state" \in subscribed /\ sent.state # 2
TooLate == \/ pc \in {"clock", "status", "notify_clock", "notify_state"} /\ d_state # 2
           \/ pc \in {"update", "finalize"}

\* It is told in this turn or the next: every step of the thread, of main() and
\* of the timers brings that nearer.
GetsSent ==
    [][Awaited => ~Awaited' \/ LinkChanges \/ Fewer(Ahead(TooLate)', Ahead(TooLate))]_vars
=============================================================================

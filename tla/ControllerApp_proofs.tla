------------------------ MODULE ControllerApp_proofs ------------------------
(***************************************************************************)
(* Proofs about ControllerApp, for any times in which a full shot is no    *)
(* longer than DashAt seconds, any layout of the stack, and an LCD that    *)
(* may fail.                                                               *)
(***************************************************************************)
EXTENDS ControllerApp, Descent_proofs, TLAPS

USE AppAssumption

-----------------------------------------------------------------------------
(* ROUND_UP(ms, 1000) / 1000 *)

LEMMA Division ==
    ASSUME NEW a \in Nat, NEW s \in Nat \ {0}
    PROVE  a \div s \in Int /\ s * (a \div s) <= a /\ a < s * (a \div s) + s
OBVIOUS

LEMMA TimesMonotone ==
    ASSUME NEW s \in Nat \ {0}, NEW x \in Int, NEW y \in Int, x >= y + 1
    PROVE  s * x >= s * y + s
OBVIOUS

LEMMA QuotientBound ==
    ASSUME NEW a \in Nat, NEW s \in Nat \ {0}, NEW d \in Nat, a < d * s + s
    PROVE  a \div s \in 0..d
<1> DEFINE q == a \div s
<1>1. q \in Int /\ s * q <= a /\ a < s * q + s
  BY Division
<1> HIDE DEF q
<1>2. q <= d
  <2> SUFFICES ASSUME q >= d + 1 PROVE FALSE
    BY <1>1
  <2>1. s * q >= s * d + s /\ s * d = d * s
    BY <1>1, TimesMonotone
  <2> QED BY <2>1, <1>1
<1>3. q >= 0
  <2> SUFFICES ASSUME -1 >= q PROVE FALSE
    BY <1>1
  <2>1. s * 0 >= s * q + s /\ s * 0 = 0
    BY <1>1, TimesMonotone
  <2> QED BY <2>1, <1>1
<1> QED BY <1>1, <1>2, <1>3 DEF q

\* What is left of a shot is at most DashAt seconds.
LEMMA SecondsBound ==
    ASSUME NEW t \in 0..ClockReset
    PROVE  InSeconds(t) \in Seconds
<1>1. DashAt \in Nat /\ Second \in Nat \ {0} /\ ClockReset <= DashAt * Second
      /\ DashAt * Second \in Int /\ ClockReset \in Nat
  OBVIOUS
<1>2. t + Second - 1 \in Nat /\ t + Second - 1 < DashAt * Second + Second
  BY <1>1
<1> QED BY <1>1, <1>2, QuotientBound DEF InSeconds, Seconds

\* So no clock takes two characters.
LEMMA NeverWide == ASSUME NEW c \in Seconds PROVE ~Wide(c)
BY DEF Wide, Seconds

-----------------------------------------------------------------------------
(* Type correctness *)

LEMMA CharFacts == {"0", "P", "nul"} \subseteq Chars /\ ConnChars \subseteq Chars
BY DEF Chars

LEMMA PictureFacts ==
    /\ Blank \in Pictures /\ Splash \in Pictures /\ OffText \in Pictures
    /\ Blank # Splash /\ OffText # Splash
    /\ Blank[1] # "text" /\ OffText[1] # "text"
BY DEF Pictures, Blank, Splash, OffText

Values == [clock : Seconds, state : 0..2, conn : Chars]

LEMMA TextFacts ==
    ASSUME NEW v \in Values
    PROVE  /\ Text(v) \in Pictures /\ Text(v)[5] = "clean" /\ Text(v) # Splash
           /\ Mixed(v) \in Pictures /\ Mixed(v)[1] = "text" /\ Mixed(v)[5] = "mixed"
BY DEF Text, Mixed, Pictures, Splash, Values

\* A picture without remains of another.
CleanPicture(p) == p # Splash /\ (p[1] = "text" => p[5] = "clean")

\* Printed over such a picture a text is clean.
LEMMA PrintedFacts ==
    ASSUME NEW v \in Values, NEW old \in Pictures
    PROVE  /\ Printed(v, old) \in Pictures
           /\ Printed(v, old) \in {Text(v), Mixed(v)}
           /\ CleanPicture(old) => Printed(v, old) = Text(v)
<1>1. Printed(v, old) \in {Mixed(v), Text(v)}
  BY DEF Printed
<1>2. ASSUME CleanPicture(old) PROVE Printed(v, old) = Text(v)
  <2>1. old # Splash /\ (old[1] = "text" => old[5] # "mixed")
    BY <1>2 DEF CleanPicture
  <2>2. ASSUME old[1] = "text" PROVE ~Wide(old[2])
    <3>1. old[2] \in Seconds
      BY <1>2, <2>2 DEF Pictures, Blank, Splash, OffText
    <3> QED BY <3>1, NeverWide
  <2> QED BY <2>1, <2>2 DEF Printed
<1> QED BY <1>1, <1>2, TextFacts

LEMMA InitType == Init => TypeOK
<1>1. Init => missed \in BOOLEAN
  BY DEF Init, Boot
<1> QED BY <1>1, CharFacts, PictureFacts DEF Init, Boot, TypeOK, Seconds, Off, None

LEMMA WakeType == TypeOK /\ Wake => TypeOK'
<1>1. Wake => missed' \in BOOLEAN
  BY DEF Wake
<1> QED BY <1>1, CharFacts, PictureFacts DEF Wake, TypeOK, Seconds, Off, None

LEMMA ElapseType ==
    ASSUME NEW n \in Nat, NEW t \in 0..n \cup {Off}, t # 0
    PROVE  Elapse(t) \in 0..n \cup {Off}
BY DEF Elapse, Off

LEMMA TimersType == TypeOK /\ Timers => TypeOK'
<1> SUFFICES ASSUME TypeOK, Timers PROVE TypeOK'
  OBVIOUS
<1>1. CASE DExpire
  BY <1>1 DEF DExpire, TypeOK, AppVars, linkVars, localVars, lcdVars, buzzVars
<1>2. CASE StopBuzz
  BY <1>2 DEF StopBuzz, TypeOK, clockVars, linkVars, localVars, lcdVars
<1>3. CASE PowerOff
  BY <1>3, PictureFacts DEF PowerOff, TypeOK, clockVars, linkVars, localVars, buzzVars
<1>4. CASE Tick
  <2>1. d_timer' \in 0..ClockReset \cup {Off} /\ buzz_timer' \in 0..Buzz \cup {Off}
    BY <1>4, ElapseType DEF Tick, TypeOK
  <2>2. nap' \in 0..Sync
    BY <1>4 DEF Tick, TypeOK
  <2>3. lag' \in 0..MaxLag
    BY <1>4 DEF Tick, TypeOK
  <2> QED BY <1>4, <2>1, <2>2, <2>3
          DEF Tick, TypeOK, linkVars, localVars, lcdVars
<1> QED BY <1>1, <1>2, <1>3, <1>4 DEF Timers

LEMMA MainType == TypeOK /\ Main => TypeOK'
BY PictureFacts DEF Main, MainSplash, MainClear, MainCleared, MainFails, TypeOK,
   MainVars, clockVars, linkVars, localVars, buzzVars

LEMMA RemainingType ==
    ASSUME NEW t \in 0..ClockReset \cup {Off}
    PROVE  Remaining(t) \in 0..ClockReset
BY DEF Remaining, Off

LEMMA EventsType == TypeOK /\ Events => TypeOK'
<1> SUFFICES ASSUME TypeOK, Events PROVE TypeOK'
  OBVIOUS
<1>1. CASE StartPushed \/ StartRacesExpiry
  <2>1. d_timer' \in 0..ClockReset \cup {Off} /\ clock_state' \in 0..2
    BY <1>1 DEF StartPushed, StartRacesExpiry
  <2> QED BY <1>1, <2>1 DEF StartPushed, StartRacesExpiry, TypeOK, AppVars, linkVars,
             localVars, lcdVars, buzzVars
<1>2. CASE StopPushed
  <2>1. clock_value' \in 0..ClockReset
    BY <1>2, RemainingType DEF StopPushed, TypeOK
  <2> QED BY <1>2, <2>1 DEF StopPushed, TypeOK, AppVars, linkVars, localVars, lcdVars,
          buzzVars
<1>3. CASE LinkChanges
  BY <1>3 DEF LinkChanges, TypeOK, clockVars, localVars, lcdVars, buzzVars
<1> QED BY <1>1, <1>2, <1>3 DEF Events

LEMMA LocalsType == TypeOK => Locals \in Values
BY DEF TypeOK, Locals, Values

LEMMA ThreadType == TypeOK /\ Thread => TypeOK'
<1> SUFFICES ASSUME TypeOK, Thread PROVE TypeOK'
  OBVIOUS
<1> USE DEF At
<1>1. CASE ReadState
  BY <1>1 DEF ReadState, TypeOK, clockVars, linkVars, lcdVars, buzzVars
<1>2. CASE ReadClock
  <2>1. Shown(d_state) \in Seconds
    BY RemainingType, SecondsBound DEF Shown, TypeOK
  <2> QED BY <1>2, <2>1 DEF ReadClock, TypeOK, clockVars, linkVars, lcdVars, buzzVars
<1>3. CASE ReadStatus
  BY <1>3, CharFacts DEF ReadStatus, TypeOK, Seconds, clockVars, linkVars, lcdVars, buzzVars
<1>4. CASE SendClock \/ SendState
  BY <1>4 DEF SendClock, SendState, Notify, TypeOK, clockVars, localVars, lcdVars, buzzVars
<1>5. CASE UpdateUnchanged
  BY <1>5 DEF UpdateUnchanged, Sleep, TypeOK, clockVars, linkVars, localVars, lcdVars,
     buzzVars
<1>6. CASE UpdatePrints
  <2>1. Locals \in Values /\ Printed(Locals, fb) \in Pictures
    BY LocalsType, PrintedFacts DEF TypeOK
  <2> QED BY <1>6, <2>1 DEF UpdatePrints, TypeOK, Values, clockVars, linkVars, localVars,
             buzzVars
<1>7. CASE UpdateFails
  BY <1>7, LocalsType DEF UpdateFails, Sleep, TypeOK, Values, clockVars, linkVars,
     localVars, buzzVars
<1>8. CASE Finalize
  <2>1. missed' \in BOOLEAN
    BY <1>8 DEF Finalize
  <2> QED BY <1>8, <2>1 DEF Finalize, Sleep, TypeOK, clockVars, linkVars, localVars, buzzVars
<1>9. CASE FinalizeFails
  BY <1>9 DEF FinalizeFails, Sleep, TypeOK, clockVars, linkVars, localVars, lcdVars,
     buzzVars
<1>10. CASE BuzzOn
  BY <1>10 DEF BuzzOn, TypeOK, clockVars, linkVars, localVars, lcdVars
<1>11. CASE BuzzArm
  BY <1>11 DEF BuzzArm, Sleep, TypeOK, clockVars, linkVars, localVars, lcdVars
<1>12. CASE WakeUp
  BY <1>12 DEF WakeUp, TypeOK, clockVars, linkVars, localVars, lcdVars, buzzVars
<1> QED BY <1>1, <1>2, <1>3, <1>4, <1>5, <1>6, <1>7, <1>8, <1>9, <1>10, <1>11, <1>12
        DEF Thread

LEMMA NextType == TypeOK /\ [Next]_vars => TypeOK'
<1>1. TypeOK /\ UNCHANGED vars => TypeOK'
  BY DEF TypeOK, vars, clockVars, linkVars, localVars, lcdVars, buzzVars
<1> QED BY <1>1, ThreadType, MainType, EventsType, TimersType, WakeType DEF Next

LEMMA SpecType == Spec => []TypeOK
BY InitType, NextType, PTL DEF Spec

-----------------------------------------------------------------------------
(* The buzzer *)

\* BuzzerWillStop holds the timer to be armed, so the step that stops it is
\* the one that silences the buzzer, and time alone does not stop it.
LEMMA BuzzerStep == TypeOK /\ BuzzerWillStop /\ [Next]_vars => BuzzerWillStop'
<1> SUFFICES ASSUME TypeOK, BuzzerWillStop, [Next]_vars PROVE BuzzerWillStop'
  OBVIOUS
<1> USE DEF BuzzerWillStop, At
<1>1. CASE UNCHANGED <<pwm, buzz_timer, pc>>
  BY <1>1
<1>2. CASE UNCHANGED <<pwm, buzz_timer>> /\ pc # "buzz_arm"
  BY <1>2
<1>3. CASE Thread
  <2>1. CASE BuzzOn
    BY <2>1 DEF BuzzOn
  <2>2. CASE BuzzArm
    <3>1. buzz_timer' # Off
      BY <2>2 DEF BuzzArm, Off
    <3> QED BY <3>1
  <2>3. ASSUME ~BuzzOn, ~BuzzArm
        PROVE  UNCHANGED <<pwm, buzz_timer>> /\ pc # "buzz_arm"
    BY <1>3, <2>3 DEF Thread, ReadState, ReadClock, ReadStatus, SendClock, SendState, Notify,
       UpdateUnchanged, UpdatePrints, UpdateFails, Finalize, FinalizeFails, WakeUp, buzzVars
  <2> QED BY <1>2, <2>1, <2>2, <2>3
<1>4. CASE Timers
  <2>1. CASE DExpire \/ PowerOff
    BY <1>1, <2>1 DEF DExpire, PowerOff, AppVars, buzzVars
  <2>2. CASE StopBuzz
    BY <2>2 DEF StopBuzz
  <2>3. CASE Tick
    <3>1. pwm' = pwm /\ pc' = pc /\ (buzz_timer # Off => buzz_timer' # Off)
      BY <2>3 DEF Tick, TypeOK, Elapse, Off
    <3> QED BY <3>1
  <2> QED BY <1>4, <2>1, <2>2, <2>3 DEF Timers
<1>5. CASE Main \/ Events
  BY <1>1, <1>5 DEF Main, MainSplash, MainClear, MainCleared, MainFails, MainVars, Events, StartPushed,
     StartRacesExpiry, StopPushed, LinkChanges, AppVars, buzzVars
<1>6. CASE Wake
  BY <1>6 DEF Wake
<1>7. CASE UNCHANGED vars
  BY <1>1, <1>7 DEF vars, buzzVars
<1> QED BY <1>3, <1>4, <1>5, <1>6, <1>7 DEF Next

-----------------------------------------------------------------------------
(* Pictures *)

\* Once main() has cleared the frame buffer nothing but clean texts get into
\* it, and once the blank picture has been written, onto the LCD.
CleanInv ==
    power = "on" => /\ lcd \in {"clear", "done"} => CleanPicture(fb)
                    /\ lcd = "done" => CleanPicture(panel)

LEMMA CleanStep == TypeOK /\ CleanInv /\ [Next]_vars => CleanInv'
<1> SUFFICES ASSUME TypeOK, CleanInv, [Next]_vars PROVE CleanInv'
  OBVIOUS
<1> USE DEF At
<1>1. CASE UNCHANGED <<fb, panel, lcd, power>>
  BY <1>1 DEF CleanInv, CleanPicture
<1>2. CASE Thread
  <2>1. CASE UpdatePrints
    <3>1. Locals \in Values /\ Text(Locals) # Splash /\ Text(Locals)[5] = "clean"
      BY LocalsType, TextFacts
    <3>2. CleanPicture(fb) => CleanPicture(fb')
      BY <2>1, <3>1, PrintedFacts DEF UpdatePrints, TypeOK, CleanPicture
    <3> QED BY <2>1, <3>2 DEF UpdatePrints, CleanInv, CleanPicture
  <2>2. CASE Finalize
    BY <2>2 DEF Finalize, CleanInv, CleanPicture
  <2>3. ASSUME ~UpdatePrints, ~Finalize
        PROVE  UNCHANGED <<fb, panel, lcd, power>>
    BY <1>2, <2>3 DEF Thread, ReadState, ReadClock, ReadStatus, SendClock, SendState, Notify,
       UpdateUnchanged, UpdateFails, FinalizeFails, BuzzOn, BuzzArm, WakeUp, lcdVars
  <2> QED BY <1>1, <2>1, <2>2, <2>3
<1>3. CASE Main
  BY <1>3, PictureFacts DEF Main, MainSplash, MainClear, MainCleared, MainFails, MainVars, CleanInv,
     CleanPicture
<1>4. CASE Events \/ Timers
  <2>1. CASE PowerOff
    BY <2>1 DEF PowerOff, CleanInv
  <2> QED BY <1>1, <1>4, <2>1 DEF Events, Timers, StartPushed, StartRacesExpiry, StopPushed,
          LinkChanges, DExpire, StopBuzz, Tick, AppVars, lcdVars
<1>5. CASE Wake
  BY <1>5 DEF Wake, CleanInv
<1>6. CASE UNCHANGED vars
  BY <1>1, <1>6 DEF vars, lcdVars
<1> QED BY <1>2, <1>3, <1>4, <1>5, <1>6 DEF Next

\* What may have become of the text of the cached values in the frame buffer or
\* on the LCD.
Drawn(p) == p \in {Text(dis), Mixed(dis), Blank}

\* The frame buffer holds the cached text from the moment it has been drawn, and
\* the LCD once the turn has written it, but for main()'s clearing and until an
\* error.  That a text has been cached at all shows in the character of the
\* connection.
CacheInv ==
    power = "on" =>
        /\ lcd = "print" \/ pc \in {"state", "clock", "status"} \/ dis_status # "nul"
        /\ dis.conn = "nul" => pc \in {"state", "clock", "status", "notify_clock",
                                      "notify_state", "update"}
        /\ lcd = "print" => dis.conn = "nul" /\ pc = "state"
        /\ (lcd \in {"clear", "done"} \/ dis.conn # "nul")
           /\ (pc = "finalize" \/ ~missed) => Drawn(fb)
        /\ (lcd = "done" \/ dis.conn # "nul") /\ pc # "finalize" /\ ~missed => Drawn(panel)

LEMMA CacheStep == TypeOK /\ CacheInv /\ [Next]_vars => CacheInv'
<1> SUFFICES ASSUME TypeOK, CacheInv, [Next]_vars PROVE CacheInv'
  OBVIOUS
<1> USE DEF At
<1>1. ASSUME UNCHANGED <<lcdVars, lcd, power, pc, dis_status>> PROVE CacheInv'
  BY <1>1 DEF CacheInv, Drawn, Text, Mixed, lcdVars
<1>2. CASE Thread
  <2>0. power = "on" /\ lcd # "print" /\ UNCHANGED <<lcd, power>>
    BY <1>2 DEF Thread, ReadState, ReadClock, ReadStatus, SendClock, SendState, Notify,
       UpdateUnchanged, UpdatePrints, UpdateFails, Finalize, FinalizeFails, BuzzOn, BuzzArm,
       WakeUp
  <2>1. CASE UpdatePrints
    <3>1. fb' \in {Text(dis'), Mixed(dis')}
      BY <2>1, LocalsType, PrintedFacts DEF UpdatePrints, TypeOK
    <3>2. /\ dis'.conn = dis_status /\ pc = "update" /\ pc' = "finalize"
          /\ UNCHANGED <<missed, localVars>>
      BY <2>1 DEF UpdatePrints, Locals
    <3> QED BY <2>0, <3>1, <3>2 DEF CacheInv, Drawn, Text, Mixed, localVars
  <2>2. CASE UpdateFails
    <3>1. /\ dis'.conn = dis_status /\ pc = "update" /\ pc' = "nap" /\ missed' = TRUE
          /\ UNCHANGED localVars
      BY <2>2 DEF UpdateFails, Locals, Sleep
    <3> QED BY <2>0, <3>1 DEF CacheInv, localVars
  <2>3. CASE Finalize
    <3>1. /\ pc = "finalize" /\ pc' \in {"buzz", "nap"} /\ missed' = FALSE
          /\ panel' = fb /\ UNCHANGED <<dis, fb, localVars>>
      BY <2>3 DEF Finalize, Sleep
    <3> QED BY <2>0, <3>1 DEF CacheInv, Drawn, Text, Mixed, localVars
  <2>4. CASE FinalizeFails
    <3>1. /\ pc = "finalize" /\ pc' = "nap" /\ missed' = TRUE
          /\ UNCHANGED <<dis, localVars>>
      BY <2>4 DEF FinalizeFails, Sleep
    <3> QED BY <2>0, <3>1 DEF CacheInv, localVars
  <2>5. CASE UpdateUnchanged
    <3>1. /\ pc = "update" /\ pc' = "nap" /\ dis.conn = dis_status
          /\ UNCHANGED <<localVars, lcdVars>>
      BY <2>5 DEF UpdateUnchanged, Sleep, Locals
    <3> QED BY <2>0, <3>1 DEF CacheInv, Drawn, Text, Mixed, localVars, lcdVars
  <2>6. CASE ReadStatus
    <3>1. /\ pc = "status" /\ pc' = "notify_clock" /\ dis_status' \in ConnChars
          /\ UNCHANGED lcdVars
      BY <2>6 DEF ReadStatus, TypeOK
    <3> QED BY <2>0, <3>1 DEF CacheInv, Drawn, Text, Mixed, lcdVars
  <2>7. CASE ReadState \/ ReadClock \/ SendClock \/ SendState \/ BuzzOn \/ BuzzArm \/ WakeUp
    <3>1. UNCHANGED <<lcdVars, dis_status>>
      BY <2>7 DEF ReadState, ReadClock, SendClock, SendState, Notify, BuzzOn, BuzzArm, WakeUp,
         localVars
    <3>2. \/ pc' \in {"clock", "status"} /\ pc \in {"state", "clock"}
          \/ pc' \in {"notify_state", "update"} /\ pc \in {"notify_clock", "notify_state"}
          \/ pc' \in {"buzz_arm", "nap", "state"} /\ pc \in {"buzz", "buzz_arm", "nap"}
      BY <2>7 DEF ReadState, ReadClock, SendClock, SendState, BuzzOn, BuzzArm, WakeUp, Sleep
    <3> QED BY <2>0, <3>1, <3>2 DEF CacheInv, Drawn, Text, Mixed, lcdVars
  <2> QED BY <1>2, <2>1, <2>2, <2>3, <2>4, <2>5, <2>6, <2>7 DEF Thread
<1>3. CASE Main
  BY <1>3 DEF Main, MainSplash, MainClear, MainCleared, MainFails, MainVars, CacheInv,
     Drawn, Text, Mixed, localVars
<1>4. CASE Events \/ Timers
  <2>1. CASE PowerOff
    BY <2>1 DEF PowerOff, CacheInv
  <2> QED BY <1>1, <1>4, <2>1 DEF Events, Timers, StartPushed, StartRacesExpiry, StopPushed,
          LinkChanges, DExpire, StopBuzz, Tick, AppVars, lcdVars, localVars
<1>5. CASE Wake
  BY <1>5 DEF Wake, CacheInv
<1>6. CASE UNCHANGED vars
  BY <1>1, <1>6 DEF vars, lcdVars, localVars
<1> QED BY <1>2, <1>3, <1>4, <1>5, <1>6 DEF Next

LEMMA InitCache == Init => CacheInv
BY DEF Init, Boot, CacheInv

LEMMA SpecCache == Spec => []CacheInv
BY InitCache, CacheStep, SpecType, PTL DEF Spec

\* Where the LCD works no error is logged.
NoErrors == lcd # "failed" /\ ~missed

LEMMA SpecNoErrors == ASSUME DisplayMayFail = FALSE PROVE Spec => []NoErrors
<1>1. Init => NoErrors
  BY DEF Init, Boot, NoErrors
<1>2. ASSUME NoErrors, [Next]_vars PROVE NoErrors'
  <2>1. CASE Thread
    BY <1>2, <2>1 DEF Thread, ReadState, ReadClock, ReadStatus, SendClock, SendState, Notify,
       UpdateUnchanged, UpdatePrints, UpdateFails, Finalize, FinalizeFails, BuzzOn, BuzzArm,
       WakeUp, lcdVars, NoErrors
  <2>2. CASE Main \/ Wake
    BY <1>2, <2>2 DEF Main, MainSplash, MainClear, MainCleared, MainFails, MainVars, Wake,
       NoErrors
  <2>3. CASE Events \/ Timers
    BY <1>2, <2>3 DEF Events, Timers, StartPushed, StartRacesExpiry, StopPushed, LinkChanges,
       DExpire, StopBuzz, PowerOff, Tick, AppVars, lcdVars, NoErrors
  <2>4. CASE UNCHANGED vars
    BY <1>2, <2>4 DEF vars, lcdVars, NoErrors
  <2> QED BY <1>2, <2>1, <2>2, <2>3, <2>4 DEF Next
<1> QED BY <1>1, <1>2, PTL DEF Spec

-----------------------------------------------------------------------------
(* The theorems *)

\* Every state is well typed: no text needs the room of a clock above DashAt.
THEOREM TypeCorrect == Spec => []TypeOK
BY SpecType

\* Whenever the buzzer sounds its timer is going to silence it, however turns,
\* presses and the timer's interrupt meet.
THEOREM BuzzerStops == Spec => []BuzzerWillStop
<1>1. Init => BuzzerWillStop
  BY DEF Init, Boot, BuzzerWillStop
<1> QED BY <1>1, BuzzerStep, SpecType, PTL DEF Spec

LEMMA SpecClean == Spec => []CleanInv
<1>1. Init => CleanInv
  BY DEF Init, Boot, CleanInv
<1> QED BY <1>1, CleanStep, SpecType, PTL DEF Spec

\* Once display_init has succeeded no text on the LCD has remains of another
\* behind it, whichever of the later writes fail.
THEOREM LcdStaysClean == Spec => []LcdClean
<1>1. CleanInv => LcdClean
  BY DEF CleanInv, CleanPicture, LcdClean
<1> QED BY <1>1, SpecClean, PTL

\* Between turns the LCD shows the cached values or is blank, whatever fails, but
\* from an error until the next text is written; only an error of display_init
\* leaves remains behind them.
THEOREM LcdShowsValues == Spec => []LcdShowsCache
<1>1. TypeOK /\ CleanInv /\ CacheInv => LcdShowsCache
  <2> SUFFICES ASSUME TypeOK, CleanInv, CacheInv,
                      pc = "nap", power = "on", Returned, ~missed
               PROVE  panel \in {Text(dis), Blank} \/ (lcd = "failed" /\ panel = Mixed(dis))
    BY DEF LcdShowsCache
  <2>1. Drawn(panel)
    BY DEF CacheInv
  <2>2. lcd = "done" => panel # Mixed(dis)
    BY TextFacts DEF CleanInv, CleanPicture, TypeOK, Values
  <2> QED BY <2>1, <2>2 DEF Drawn, Returned
<1> QED BY <1>1, SpecType, SpecClean, SpecCache, PTL

-----------------------------------------------------------------------------
(* Catching up with the clock *)

\* main() goes on, or a timer counts or fires, or a text comes nearer: in each
\* case less is ahead.
LEMMA AheadFewer ==
    ASSUME NEW late, NEW lateNext,
           \/ MainLeft' < MainLeft
           \/ /\ MainLeft' = MainLeft
              /\ \/ ~lateNext /\ late
                 \/ /\ lateNext <=> late
                    /\ \/ ToGo' < ToGo
                       \/ ToGo' = ToGo /\ nap' < nap
                       \/ ToGo' = ToGo /\ nap' = nap
                          /\ MaxLag - lag' + buzz_timer' + 1 < MaxLag - lag + buzz_timer + 1
    PROVE  Fewer(<<MainLeft', IF lateNext THEN 1 ELSE 0, ToGo', nap',
                   MaxLag - lag' + buzz_timer' + 1>>, Ahead(late))
<1>1. ~lateNext /\ late => (IF lateNext THEN 1 ELSE 0) < (IF late THEN 1 ELSE 0)
  OBVIOUS
<1>2. (lateNext <=> late) => (IF lateNext THEN 1 ELSE 0) = (IF late THEN 1 ELSE 0)
  OBVIOUS
<1> QED BY <1>1, <1>2, FewerAt DEF Ahead

LEMMA MainNearer ==
    ASSUME Main
    PROVE  /\ MainLeft' < MainLeft
           /\ UNCHANGED <<clockVars, linkVars, pc, localVars, dis, power>>
BY DEF Main, MainSplash, MainClear, MainCleared, MainFails, MainLeft, MainVars

LEMMA TimersNearer ==
    ASSUME TypeOK, Timers, d_timer = Off, power' = "on"
    PROVE  /\ UNCHANGED <<clockVars, linkVars, pc, localVars, dis, lcd, power>>
           /\ UNCHANGED <<MainLeft, ToGo>>
           /\ \/ nap' < nap
              \/ /\ nap' = nap
                 /\ MaxLag - lag' + buzz_timer' + 1 < MaxLag - lag + buzz_timer + 1
<1> USE DEF clockVars, linkVars, localVars, lcdVars
<1>1. /\ nap \in Int /\ lag \in Int /\ MaxLag \in Int /\ nap >= 0
      /\ buzz_timer \in Int /\ buzz_timer >= Off
  BY DEF TypeOK, Off
<1>2. ~DExpire /\ ~PowerOff
  BY DEF DExpire, PowerOff, Off
<1>3. CASE StopBuzz
  BY <1>1, <1>3 DEF StopBuzz, Off, MainLeft, ToGo
<1>4. CASE Tick
  <2>1. /\ UNCHANGED <<clock_state, clock_value, linkVars, pc, localVars, dis, lcd, power>>
        /\ d_timer' = d_timer
    BY <1>4 DEF Tick, Elapse
  <2>2. buzz_timer' <= buzz_timer /\ buzz_timer' \in Int
    BY <1>1, <1>4 DEF Tick, Elapse, Off
  <2>3. CASE nap = 0
    BY <1>1, <1>4, <2>1, <2>2, <2>3 DEF Tick, ThreadBusy, MainLeft, ToGo
  <2>4. CASE nap # 0
    BY <1>1, <1>4, <2>1, <2>4 DEF Tick, MainLeft, ToGo
  <2> QED BY <2>3, <2>4
<1> QED BY <1>2, <1>3, <1>4 DEF Timers

\* What a step of the thread does to its place in the turn.
LEMMA ThreadTurns ==
    ASSUME Thread
    PROVE  /\ UNCHANGED <<clockVars, conn, subscribed, lcd, power, MainLeft>>
           /\ \/ /\ pc \notin {"update", "finalize"} /\ ToGo' < ToGo
              \/ pc = "update" /\ pc' \in {"finalize", "nap"}
              \/ pc = "finalize" /\ pc' \in {"buzz", "nap"}
<1> USE DEF At, Sleep, Notify, clockVars, linkVars, localVars, lcdVars, buzzVars
<1>1. UNCHANGED <<clockVars, conn, subscribed, lcd, power>>
  BY DEF Thread, ReadState, ReadClock, ReadStatus, SendClock, SendState, UpdateUnchanged,
     UpdatePrints, UpdateFails, Finalize, FinalizeFails, BuzzOn, BuzzArm, WakeUp
<1>2. MainLeft' = MainLeft
  BY <1>1 DEF MainLeft
<1>3. \/ pc = "state" /\ pc' = "clock"
      \/ pc = "clock" /\ pc' = "status"
      \/ pc = "status" /\ pc' = "notify_clock"
      \/ pc = "notify_clock" /\ pc' = "notify_state"
      \/ pc = "notify_state" /\ pc' = "update"
      \/ pc = "update" /\ pc' \in {"finalize", "nap"}
      \/ pc = "finalize" /\ pc' \in {"buzz", "nap"}
      \/ pc = "buzz" /\ pc' = "buzz_arm"
      \/ pc = "buzz_arm" /\ pc' = "nap"
      \/ pc = "nap" /\ pc' = "state"
  BY DEF Thread, ReadState, ReadClock, ReadStatus, SendClock, SendState, UpdateUnchanged,
     UpdatePrints, UpdateFails, Finalize, FinalizeFails, BuzzOn, BuzzArm, WakeUp
<1> QED BY <1>1, <1>2, <1>3 DEF ToGo

\* A turn reads the clock as it is, unless something has been read before.
LEMMA TurnCatchesUp ==
    ASSUME TypeOK, Spill = {}, Thread, UNCHANGED Current
    PROVE  /\ UpToDate => UpToDate'
           /\ \/ UpToDate'
              \/ ~OutOfDate' /\ OutOfDate
              \/ (OutOfDate' <=> OutOfDate) /\ ToGo' < ToGo
<1> USE DEF At, Sleep, Notify, clockVars, linkVars, localVars, lcdVars, buzzVars
<1>0. /\ Current.state = clock_state /\ Current.clock = Shown(clock_state)
      /\ Current.conn = conn /\ clock_state' = clock_state
  BY ThreadTurns DEF Current
<1>1. CASE pc \in {"buzz", "buzz_arm", "nap"}
  <2>1. pc' \in {"buzz_arm", "nap", "state"} /\ dis' = dis
    BY <1>1 DEF Thread, ReadState, ReadClock, ReadStatus, SendClock, SendState,
       UpdateUnchanged, UpdatePrints, UpdateFails, Finalize, FinalizeFails, BuzzOn,
       BuzzArm, WakeUp
  <2> QED BY <1>1, <2>1, ThreadTurns DEF UpToDate, OutOfDate
<1>2. CASE ReadState
  <2>1. pc = "state" /\ pc' = "clock" /\ d_state' = clock_state /\ dis' = dis
    BY <1>2 DEF ReadState
  <2> QED BY <1>0, <2>1, ThreadTurns DEF UpToDate, OutOfDate
<1>3. CASE ReadClock
  <2>1. /\ pc = "clock" /\ pc' = "status" /\ d_state' = d_state /\ d_clock' = Shown(d_state)
        /\ dis' = dis
    BY <1>3 DEF ReadClock
  <2>2. OutOfDate' => OutOfDate
    BY <1>0, <2>1 DEF OutOfDate
  <2> QED BY <2>1, <2>2, ThreadTurns DEF UpToDate
<1>4. CASE ReadStatus
  <2>1. /\ pc = "status" /\ pc' = "notify_clock" /\ UNCHANGED <<d_state, d_clock, dis>>
        /\ dis_status' = conn
    BY <1>4 DEF ReadStatus
  <2>2. Locals' = [clock |-> d_clock, state |-> d_state, conn |-> conn]
    BY <2>1 DEF Locals
  <2>3. <<d_state, d_clock>> = <<clock_state, Current.clock>> => Locals' = Current'
    BY <1>0, <2>2 DEF Current
  <2>4. OutOfDate' => OutOfDate
    BY <2>1, <2>3 DEF OutOfDate
  <2> QED BY <2>1, <2>4, ThreadTurns DEF UpToDate
<1>5. CASE SendClock \/ SendState
  <2>1. /\ pc \in {"notify_clock", "notify_state"} /\ pc' \in {"notify_state", "update"}
        /\ dis' = dis /\ Locals' = Locals
    BY <1>5 DEF SendClock, SendState, Locals
  <2>2. OutOfDate' <=> OutOfDate
    BY <2>1 DEF OutOfDate
  <2> QED BY <2>1, <2>2, ThreadTurns DEF UpToDate
<1>6. CASE UpdateUnchanged
  <2>1. pc = "update" /\ pc' = "nap" /\ dis' = dis /\ dis = Locals
    BY <1>6 DEF UpdateUnchanged
  <2> QED BY <2>1 DEF UpToDate, OutOfDate
<1>7. CASE UpdatePrints
  <2>1. pc = "update" /\ pc' = "finalize" /\ dis' = Locals /\ dis # Locals
    BY <1>7 DEF UpdatePrints
  <2>2. OutOfDate' <=> OutOfDate
    BY <2>1 DEF OutOfDate
  <2>3. ~UpToDate
    BY <2>1 DEF UpToDate, OutOfDate
  <2> QED BY <2>1, <2>2, <2>3 DEF ToGo
<1>8. CASE UpdateFails
  <2>1. pc = "update" /\ pc' = "nap" /\ dis' = Locals /\ dis # Locals
    BY <1>8 DEF UpdateFails
  <2> QED BY <2>1 DEF UpToDate, OutOfDate
<1>9. CASE Finalize \/ FinalizeFails
  <2>1. pc = "finalize" /\ pc' \in {"buzz", "nap"} /\ dis' = dis
    BY <1>9 DEF Finalize, FinalizeFails
  <2> QED BY <2>1 DEF UpToDate, OutOfDate
<1> QED BY <1>1, <1>2, <1>3, <1>4, <1>5, <1>6, <1>7, <1>8, <1>9
        DEF Thread, BuzzOn, BuzzArm, WakeUp

\* The thread, main() and the timers catch up with a clock that stands, where
\* the compiler does not let sprintf clear a local.
THEOREM ThreadCatchesUp ==
    ASSUME DisplayMayFail = FALSE, Spill = {} PROVE Spec => CatchesUp
<1>1. ASSUME TypeOK, CleanInv, CacheInv, NoErrors, Next, Settled, Settled', UNCHANGED Current
      PROVE  /\ UpToDate => UpToDate' /\ (lcd = "done" => panel \in {Text(Current), Blank})
             /\ UpToDate' \/ Events \/ Fewer(Ahead(OutOfDate)', Ahead(OutOfDate))
  <2>1. UpToDate /\ lcd = "done" => panel \in {Text(Current), Blank}
    <3> SUFFICES ASSUME UpToDate, lcd = "done" PROVE panel \in {Text(Current), Blank}
      OBVIOUS
    <3>1. pc # "finalize" /\ dis = Current /\ power = "on" /\ ~missed
      BY <1>1 DEF UpToDate, Settled, NoErrors
    <3>2. Drawn(panel)
      BY <1>1, <3>1 DEF CacheInv
    <3>3. panel # Mixed(dis)
      BY <1>1, <3>1, TextFacts DEF CleanInv, CleanPicture, TypeOK, Values
    <3> QED BY <3>1, <3>2, <3>3 DEF Drawn
  <2>2. ASSUME UNCHANGED <<pc, clock_state, localVars, dis>>
        PROVE  (OutOfDate' <=> OutOfDate) /\ (UpToDate => UpToDate')
    BY <1>1, <2>2 DEF OutOfDate, UpToDate, Locals, localVars
  <2>3. CASE Thread
    BY <1>1, <2>1, <2>3, TurnCatchesUp, ThreadTurns, AheadFewer DEF Ahead
  <2>4. CASE Main
    BY <1>1, <2>1, <2>2, <2>4, MainNearer, AheadFewer DEF Ahead, clockVars
  <2>5. CASE Timers
    BY <1>1, <2>1, <2>2, <2>5, TimersNearer, AheadFewer DEF Ahead, clockVars, Settled
  <2>6. CASE Events
    <3>1. UNCHANGED <<pc, localVars, dis>>
      BY <2>6 DEF Events, StartPushed, StartRacesExpiry, StopPushed, LinkChanges, AppVars,
         lcdVars
    <3>2. clock_state' = clock_state
      BY <1>1 DEF Current
    <3> QED BY <2>1, <2>2, <2>6, <3>1, <3>2
  <2>7. CASE Wake
    BY <1>1, <2>7 DEF Wake, Settled
  <2> QED BY <1>1, <2>3, <2>4, <2>5, <2>6, <2>7 DEF Next
<1>2. Spec => []NoErrors
  BY SpecNoErrors
<1> QED BY <1>1, <1>2, SpecType, SpecClean, SpecCache, PTL DEF Spec, CatchesUp

\* And the end of a shot gets to the display that is subscribed, with a failing
\* LCD too.
THEOREM EndGetsSent == ASSUME "d_state" \notin Spill PROVE Spec => GetsSent
<1>1. ASSUME TypeOK, Next, Awaited, Awaited', ~LinkChanges
      PROVE  Fewer(Ahead(TooLate)', Ahead(TooLate))
  <2>1. ASSUME UNCHANGED <<pc, localVars>> PROVE TooLate' <=> TooLate
    BY <2>1 DEF TooLate, localVars
  <2>2. CASE Thread
    <3>1. CASE ReadState
      BY <1>1, <2>2, <3>1, ThreadTurns, AheadFewer
         DEF Ahead, ReadState, At, Awaited, TooLate
    <3>2. CASE ReadClock \/ ReadStatus \/ SendClock
      <4>1. pc \in {"clock", "status", "notify_clock"} /\ d_state' = d_state
            /\ pc' \in {"status", "notify_clock", "notify_state"}
        BY <3>2 DEF ReadClock, ReadStatus, SendClock, Notify, At, localVars
      <4>2. TooLate' <=> TooLate
        BY <4>1 DEF TooLate
      <4> QED BY <2>2, <4>1, <4>2, ThreadTurns, AheadFewer DEF Ahead
    <3>3. CASE SendState
      <4>1. pc = "notify_state" /\ pc' = "update" /\ (d_state = 2 => sent'.state = 2)
        BY <1>1, <3>3 DEF SendState, Notify, At, Awaited, TypeOK
      <4>2. TooLate /\ TooLate'
        BY <1>1, <4>1 DEF TooLate, Awaited
      <4> QED BY <2>2, <4>1, <4>2, ThreadTurns, AheadFewer DEF Ahead
    <3>4. CASE pc \in {"update", "finalize"}
      BY <2>2, <3>4, ThreadTurns, AheadFewer DEF Ahead, TooLate, ToGo
    <3>5. CASE BuzzOn \/ BuzzArm \/ WakeUp
      BY <2>2, <3>5, ThreadTurns, AheadFewer
         DEF Ahead, TooLate, BuzzOn, BuzzArm, WakeUp, At, Sleep
    <3> QED BY <2>2, <3>1, <3>2, <3>3, <3>4, <3>5
            DEF Thread, UpdateUnchanged, UpdatePrints, UpdateFails, Finalize, FinalizeFails, At
  <2>3. CASE Main
    BY <2>1, <2>3, MainNearer, AheadFewer DEF Ahead
  <2>4. CASE Timers
    BY <1>1, <2>1, <2>4, TimersNearer, AheadFewer DEF Ahead, Awaited
  <2>5. CASE Events
    BY <1>1, <2>5 DEF Events, StartPushed, StartRacesExpiry, StopPushed, Awaited, Off
  <2>6. CASE Wake
    BY <1>1, <2>6 DEF Wake, Awaited
  <2> QED BY <1>1, <2>2, <2>3, <2>4, <2>5, <2>6 DEF Next
<1> QED BY <1>1, SpecType, PTL DEF Spec, GetsSent
=============================================================================

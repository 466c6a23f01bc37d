------------------------------ MODULE Countdown -----------------------------
(* The two users of a decrementing Timer32: the watchdog                      *)
(* (peripherals/watchdog.ts) and SysTick (peripherals/ppb.ts), each with one  *)
(* alarm, "zero".                                                             *)
EXTENDS Timer32

CONSTANTS Loads,       \* values written to LOAD and to SYST_RVR
          SysTickTop,  \* 0xffffff
          Resets       \* the embedder's onWatchdogTrigger resets the chip; the default one logs

CountdownConstants == TimerConstants /\ Loads \subseteq Nat /\ SysTickTop \in 0 .. Wrap - 1

VARIABLES wd, tick

countdownVars == <<wd, tick>>

FreshWatchdog ==
    [enable |-> FALSE, tickEnable |-> TRUE, reason |-> "none", timer |-> Stopped("Decrement", FALSE)]

onWatchdogTrigger(reason) == IF Resets THEN [FreshWatchdog EXCEPT !.reason = reason] ELSE [wd EXCEPT !.reason = reason]

\* CTRL and TICK end alike: the timer and its alarm run when both are enabled.
gated(w, enable, tickEnable) ==
    LET on == enable /\ tickEnable
    IN  [w EXCEPT !.enable = enable, !.tickEnable = tickEnable,
                  !.timer = setArmed(setEnable(w.timer, on), "zero", on)]

WriteCtrl == \E enable, trigger \in BOOLEAN :
    LET w == IF trigger THEN onWatchdogTrigger("FORCE") ELSE wd
    IN  wd' = gated(w, enable, w.tickEnable) /\ UNCHANGED tick
WriteTick == \E tickEnable \in BOOLEAN : wd' = gated(wd, wd.enable, tickEnable) /\ UNCHANGED tick
WriteLoad == \E value \in Loads : wd' = [wd EXCEPT !.timer = set(wd.timer, value)] /\ UNCHANGED tick

\* The alarm's callback, and handleAlarm's rescheduling.
Bite ==
    /\ expired(wd.timer, "zero")
    /\ wd' = [onWatchdogTrigger("TIMER") EXCEPT !.timer = again(IF Resets THEN @ ELSE taken(@, "zero"), "zero")]
    /\ UNCHANGED tick

FreshTick ==
    [reload |-> SysTickTop, intEnable |-> FALSE, countFlag |-> FALSE, pending |-> FALSE,
     timer |-> set(setEnable([Stopped("Decrement", TRUE) EXCEPT !.top = SysTickTop], FALSE), SysTickTop)]

WriteSystCsr == \E intEnable, enable \in BOOLEAN :
    tick' = [tick EXCEPT !.intEnable = intEnable, !.timer = setEnable(tick.timer, enable)] /\ UNCHANGED wd
ReadSystCsr == tick.countFlag /\ tick' = [tick EXCEPT !.countFlag = FALSE] /\ UNCHANGED wd
WriteCvr == tick' = [tick EXCEPT !.timer = set(tick.timer, 0)] /\ UNCHANGED wd
WriteRvr == \E value \in Loads : tick' = [tick EXCEPT !.reload = value] /\ UNCHANGED wd
\* The core enters the SysTick exception.
TakeSysTick == tick.pending /\ tick' = [tick EXCEPT !.pending = FALSE] /\ UNCHANGED wd

systickAlarm ==
    LET t == set(taken(tick.timer, "zero"), tick.reload)
    IN  /\ expired(tick.timer, "zero")
        /\ tick' = [tick EXCEPT !.countFlag = TRUE, !.pending = @ \/ tick.intEnable, !.timer = again(t, "zero")]
        /\ UNCHANGED wd

TimePasses ==
    /\ mayPass(wd.timer) /\ mayPass(tick.timer)
    /\ wd.timer.on \/ tick.timer.on
    /\ wd' = [wd EXCEPT !.timer = pass(@)] /\ tick' = [tick EXCEPT !.timer = pass(@)]

CountdownInit == wd = FreshWatchdog /\ tick = FreshTick
WatchdogWrites == WriteCtrl \/ WriteTick \/ WriteLoad
SysTickWrites == WriteSystCsr \/ ReadSystCsr \/ WriteCvr \/ WriteRvr \/ TakeSysTick
CountdownNext == WatchdogWrites \/ SysTickWrites \/ Bite \/ systickAlarm \/ TimePasses
\* The emulator's loop advances the clock, and the clock calls what is due.
CountdownFairness == WF_countdownVars(TimePasses \/ Bite \/ systickAlarm)
CountdownSpec == CountdownInit /\ [][CountdownNext]_countdownVars /\ CountdownFairness

\* Both alarms lead to the moment their counter is 0, through every enable,
\* disable and reload in between (Timer32PeriodicAlarm.schedule).
CountdownAims == Aims(wd.timer) /\ Aims(tick.timer)

\* A watchdog left running and no longer fed bites.
Bites == []<>(~wd.timer.on) \/ []<><<Bite>>_countdownVars \/ []<><<WriteLoad>>_countdownVars
=============================================================================

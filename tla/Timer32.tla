------------------------------- MODULE Timer32 ------------------------------
(* utils/timer32.ts: a counter computed from the clock, and the periodic      *)
(* alarms set on it.  A timer is a record:                                    *)
(*   base, ran   its value when last written, and the time since              *)
(*   top, mode, on, zeroDiv                                                   *)
(*   target, armed, due   per alarm; due is the time to its call              *)
(* Time is in units of 1/Sub of a tick, so that writes fall between ticks.    *)
EXTENDS Integers

CONSTANTS Alarms,   \* the alarms set on one timer
          Sub,      \* units of time in a tick
          Wrap,     \* 2^32 in the code
          Never     \* the due time of an alarm that is not scheduled

TimerConstants == Sub \in Nat \ {0} /\ Wrap \in Nat \ {0} /\ Never \notin Int

ASSUME TimerAssumption == TimerConstants

NoTop == Wrap - 1
TimerModes == {"Increment", "Decrement", "ZigZag"}

Period(t) == IF t.mode = "ZigZag" THEN 2 * t.top ELSE t.top + 1

\* Math.round rounds a half up.
rawCounter(t) ==
    LET span == Period(t) * Sub
        ahead == IF t.mode = "Decrement" THEN span - (t.ran % span) ELSE t.ran
        rounded == (2 * (t.base * Sub + ahead) + Sub) \div (2 * Sub)
    IN  IF ~t.on THEN t.base ELSE IF t.top = NoTop THEN rounded ELSE rounded % Period(t)

counter(t) ==
    LET raw == rawCounter(t)
    IN  (IF t.mode = "ZigZag" /\ raw > t.top THEN 2 * t.top - raw ELSE raw) % Wrap

\* Timer32PeriodicAlarm.schedule
schedule(t, a) ==
    LET straight == t.target[a] - rawCounter(t)
        folded == IF t.mode # "ZigZag" \/ straight >= 0 THEN straight
                  ELSE IF straight < -t.top THEN straight + 2 * t.top
                  ELSE 2 * t.top - t.target[a] - rawCounter(t)
        next == IF t.top # NoTop /\ folded <= 0 THEN folded + t.top + 1 ELSE folded
        cycles == IF t.mode = "Decrement" THEN t.top + 1 - next ELSE next
    IN  IF t.top # NoTop /\ t.target[a] > t.top THEN Never ELSE (cycles % Wrap) * Sub

dueOf(t, a) == IF t.armed[a] /\ t.on THEN schedule(t, a) ELSE Never
updated(t) == [t EXCEPT !.due = [a \in Alarms |-> dueOf(t, a)]]

\* Mistake: the alarms keep the time they had for the old count.
setQuietly(t, value) == [t EXCEPT !.base = value, !.ran = 0]

set(t, value) == updated([t EXCEPT !.base = value, !.ran = 0])
reset(t) == set(t, 0)
setTop(t, top) == LET c == counter(t) IN set([t EXCEPT !.top = top], IF c <= top THEN c ELSE 0)
setMode(t, mode) == IF mode = t.mode THEN t ELSE set([t EXCEPT !.mode = mode], counter(t))
\* The setter of the prescaler: whether the timer runs is taken from the old value.
setPrescaler(t, zero) ==
    updated([t EXCEPT !.base = counter(t), !.ran = 0, !.on = ~t.zeroDiv, !.zeroDiv = zero])
setEnable(t, on) ==
    IF on = t.on THEN t
    ELSE updated([t EXCEPT !.on = on, !.base = IF on THEN t.base ELSE counter(t), !.ran = 0])
setTarget(t, a, value) ==
    LET new == [t EXCEPT !.target[a] = value]
    IN  IF value = t.target[a] \/ ~(t.armed[a] /\ t.on) THEN new
        ELSE [new EXCEPT !.due[a] = schedule(new, a)]
\* Mistake: an alarm that is armed while the timer runs waits for the timer's next change.
setArmedUnscheduled(t, a, armed) == [t EXCEPT !.armed[a] = armed, !.due[a] = IF armed THEN @ ELSE Never]

setArmed(t, a, armed) ==
    LET new == [t EXCEPT !.armed[a] = armed]
    IN  IF armed = t.armed[a] THEN t ELSE [new EXCEPT !.due[a] = dueOf(new, a)]
\* What handleAlarm does after the callback.
again(t, a) == IF t.armed[a] /\ t.on THEN [t EXCEPT !.due[a] = schedule(t, a)] ELSE t
expired(t, a) == t.due[a] = 0
taken(t, a) == [t EXCEPT !.due[a] = Never]

\* One unit of time, which passes when no alarm is due.
mayPass(t) == \A a \in Alarms : ~expired(t, a)
pass(t) ==
    IF ~t.on THEN t
    ELSE [t EXCEPT !.ran = (t.ran + 1) % ((IF t.top = NoTop THEN Wrap ELSE Period(t)) * Sub),
                   !.due = [a \in Alarms |-> IF t.due[a] = Never THEN Never ELSE t.due[a] - 1]]

Stopped(mode, armed) ==
    [base |-> 0, ran |-> 0, top |-> NoTop, mode |-> mode, on |-> FALSE, zeroDiv |-> FALSE,
     target |-> [a \in Alarms |-> 0], armed |-> [a \in Alarms |-> armed],
     due |-> [a \in Alarms |-> Never]]

\* The exact place of the counter, in units.
place(t) == IF t.mode = "Decrement" THEN t.base * Sub - t.ran ELSE t.base * Sub + t.ran
Cycle(t) == (IF t.top = NoTop THEN Wrap ELSE t.top + 1) * Sub
\* Every alarm is scheduled for the next time the counter reaches its target,
\* to within the half tick that the counter is rounded by.
Aims(t) ==
    t.on /\ t.mode # "ZigZag" => \A a \in Alarms :
        LET past == (IF t.mode = "Decrement" THEN place(t) - t.due[a] ELSE place(t) + t.due[a]) - t.target[a] * Sub
        IN  /\ t.armed[a] => (t.due[a] # Never <=> (t.top = NoTop \/ t.target[a] <= t.top))
            /\ t.due[a] # Never => (2 * past + Sub) % (2 * Cycle(t)) \in 0..2 * Sub
=============================================================================

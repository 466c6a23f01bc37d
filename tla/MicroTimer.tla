----------------------------- MODULE MicroTimer -----------------------------
(* peripherals/timer.ts: the 64-bit microsecond timer with its alarms, read   *)
(* by the code of two cores.  Time is in halves of a microsecond, since an    *)
(* instruction falls anywhere in one.                                         *)
EXTENDS Integers

CONSTANTS Alarm,    \* the alarms 0..3
          Half,     \* 2^32 in the code: the values of a half of the counter
          Horizon   \* bound on the time modelled

\* A half of the counter has a value at least.
MicroConstants == Half \in Nat \ {0}

VARIABLES now,    \* clock.nanos
          timer,  \* armed, target, due, intRaw, intEnable, intForce, latched, irq
          reader  \* [Readers -> where a reader is, what it has read and since when]

microVars == <<now, timer, reader>>

Low == (now \div 2) % Half
High == (now \div 2) \div Half
Off == -1

checkInterrupts(t) == [t EXCEPT !.irq = (t.intRaw \cap t.intEnable) \cup t.intForce]

\* The difference is a fraction of which >>> keeps the integer part, toward 0.
Truncated(n) == IF n >= 0 THEN n \div 2 ELSE -((-n) \div 2)
deltaMicros(value) == Truncated(2 * value - now) % Half

WriteAlarm == \E a \in Alarm, value \in 0..Half - 1 :
    /\ timer' = [timer EXCEPT !.armed = @ \cup {a}, !.target[a] = value, !.due[a] = now + 2 * deltaMicros(value)]
    /\ UNCHANGED <<now, reader>>

\* Mistake: the alarm of the clock is not cancelled.
disarmAlarmOnly(t, a) == [t EXCEPT !.armed = @ \ {a}]

disarmAlarm(t, a) == [t EXCEPT !.armed = @ \ {a}, !.due[a] = Off]

WriteArmed == \E a \in Alarm :
    timer' = disarmAlarm(timer, a) /\ UNCHANGED <<now, reader>>

WriteInterrupts ==
    /\ \E a \in Alarm : timer' \in {checkInterrupts(t) : t \in
           {[timer EXCEPT !.intRaw = @ \ {a}]} \cup
           {[timer EXCEPT !.intEnable = enabled] : enabled \in SUBSET Alarm} \cup
           {[timer EXCEPT !.intForce = forced] : forced \in {{}, {a}}}}
    /\ UNCHANGED <<now, reader>>

\* The clock takes the alarm off its list and calls back.
fireAlarm(a) ==
    /\ timer.due[a] = now
    /\ timer' = checkInterrupts(disarmAlarm([timer EXCEPT !.due[a] = Off, !.intRaw = @ \cup {a}], a))
    /\ UNCHANGED <<now, reader>>

TimePasses ==
    /\ now < Horizon /\ \A a \in Alarm : timer.due[a] # now
    /\ now' = now + 1 /\ UNCHANGED <<timer, reader>>

\* The firmware's two ways to read 64 bits: "raw", TIMERAWH, TIMERAWL and
\* TIMERAWH again until the high half is the same twice; and "latched", TIMELR,
\* which latches the high half, then TIMEHR.
Idle == [at |-> "start", low |-> 0, high |-> 0, since |-> 0]
Read(r, at, low, high) ==
    /\ reader' = [reader EXCEPT ![r] = [at |-> at, low |-> low, high |-> high, since |-> IF @.at = "start" THEN now \div 2 ELSE @.since]]
    /\ UNCHANGED now

ReadRaw ==
    LET r == reader["raw"]
    IN  /\ CASE r.at = "start" -> Read("raw", "low", 0, High)
              [] r.at = "low" -> Read("raw", "high", Low, r.high)
              [] r.at = "high" -> Read("raw", IF High = r.high THEN "done" ELSE "low", r.low, High)
              [] r.at = "done" -> reader' = [reader EXCEPT !["raw"] = Idle] /\ UNCHANGED now
        /\ UNCHANGED timer

\* Mistake: TIMEHR is the high half as it is now.
ReadUnlatched ==
    LET r == reader["latched"]
    IN  CASE r.at = "start" -> Read("latched", "high", Low, 0) /\ UNCHANGED timer
          [] r.at = "high" -> Read("latched", "done", r.low, High) /\ UNCHANGED timer
          [] r.at = "done" -> reader' = [reader EXCEPT !["latched"] = Idle] /\ UNCHANGED <<now, timer>>

ReadLatched ==
    LET r == reader["latched"]
    IN  CASE r.at = "start" -> Read("latched", "high", Low, 0) /\ timer' = [timer EXCEPT !.latched = High]
          [] r.at = "high" -> Read("latched", "done", r.low, timer.latched) /\ UNCHANGED timer
          [] r.at = "done" -> reader' = [reader EXCEPT !["latched"] = Idle] /\ UNCHANGED <<now, timer>>

MicroInit ==
    /\ now = 0 /\ reader = [r \in {"raw", "latched"} |-> Idle]
    /\ timer = [armed |-> {}, target |-> [a \in Alarm |-> 0], due |-> [a \in Alarm |-> Off], latched |-> 0,
                intRaw |-> {}, intEnable |-> {}, intForce |-> {}, irq |-> {}]
MicroNext ==
    \/ WriteAlarm \/ WriteArmed \/ WriteInterrupts \/ \E a \in Alarm : fireAlarm(a)
    \/ TimePasses \/ ReadRaw \/ ReadLatched
MicroSpec == MicroInit /\ [][MicroNext]_microVars

\* How long ago the low half of the counter was at the target of an alarm.
Since(a) == (now - 2 * timer.target[a]) % (2 * Half)

\* An alarm that fires is armed, and its target is less than a microsecond away: one that
\* was disarmed or moved in between does not fire at its old time.  An alarm that is armed
\* fires before its target is left behind: one whose target is past when it is written
\* waits for the counter to come round (timer.ts).
FiresOnTime == [][\A a \in Alarm :
    /\ fireAlarm(a) => a \in timer.armed /\ Since(a) \in {0, 1, 2 * Half - 1}
    /\ TimePasses /\ a \in timer.armed => Since(a) # 1]_microVars

\* A 64-bit time put together from its halves is one the clock had while it was
\* read, a carry into the high half in between included (timer.ts TIMELR).
TimeReadTrue == \A r \in DOMAIN reader :
    reader[r].at = "done" => reader[r].high * Half + reader[r].low \in reader[r].since..now \div 2
=============================================================================

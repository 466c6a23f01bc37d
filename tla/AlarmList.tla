----------------------------- MODULE AlarmList ------------------------------
(***************************************************************************)
(* The singly linked list inside SimulationClock                           *)
(* (src/clock/simulation-clock.ts): nextAlarm, ClockAlarm.next and the two *)
(* walks that splice an alarm in and out.  next is left as it was when an  *)
(* alarm is unlinked or fires, so a stale pointer is in the model too.     *)
(***************************************************************************)
EXTENDS Integers, Sequences, FiniteSets

CONSTANTS
    Alarm, None, Deltas, TickDeltas, MaxNanos  \* as in SimClock

VARIABLES
    nextAlarm,    \* the head of the list
    next,         \* ClockAlarm.next
    nanos,        \* ClockAlarm.nanos
    scheduled,    \* ClockAlarm.scheduled
    nanosCounter, \* the time the clock shows
    targetNanos,  \* where the tick in progress ends
    running       \* the alarm whose callback is on the stack

list == <<nextAlarm, next, nanos, scheduled>>
vars == <<nextAlarm, next, nanos, scheduled, nanosCounter, targetNanos, running>>

Init ==
    /\ nextAlarm = None
    /\ next = [a \in Alarm |-> None]
    /\ nanos = [a \in Alarm |-> 0]
    /\ scheduled = [a \in Alarm |-> FALSE]
    /\ nanosCounter = 0
    /\ targetNanos = None
    /\ running = None

-----------------------------------------------------------------------------
(* The walk along the list, as far as one item more than there are alarms. *)

Steps == 1 .. Cardinality(Alarm) + 1

Walk(head, nxt) ==
    LET item[i \in Steps] ==
            IF i = 1 THEN head
            ELSE IF item[i - 1] = None THEN None ELSE nxt[item[i - 1]]
    IN  item

Chain(head, nxt) ==
    LET item == Walk(head, nxt)
    IN  SubSeq(item, 1, Cardinality({i \in Steps : item[i] # None}))

\* What splicing leaves: the head, and the next pointer of every alarm.
List(head, nxt) == [head |-> head, next |-> nxt]

\* Mistake: the items behind the one taken out are lost with it.
unlinkAlarmAndTail(l, a) ==
    LET c == Chain(l.head, l.next)
        at == {i \in DOMAIN c : c[i] = a}
    IN  IF at = {} THEN l
        ELSE IF 1 \in at THEN List(None, l.next)
        ELSE List(l.head, [l.next EXCEPT ![c[(CHOOSE i \in at : TRUE) - 1]] = None])

unlinkAlarm(l, a) ==
    LET c == Chain(l.head, l.next)
        at == {i \in DOMAIN c : c[i] = a}
    IN  IF at = {} THEN l
        ELSE IF 1 \in at THEN List(l.next[a], l.next)
        ELSE List(l.head,
                  [l.next EXCEPT ![c[(CHOOSE i \in at : TRUE) - 1]] = l.next[a]])

linkAlarm(l, due, a) ==
    LET c == Chain(l.head, l.next)
        \* the items the walk passes: all due before alarm a
        passed == {i \in DOMAIN c : \A j \in 1 .. i : due[c[j]] < due[a]}
        lastItem == c[Cardinality(passed)]
    IN  IF passed = {} THEN List(a, [l.next EXCEPT ![a] = l.head])
        ELSE List(l.head, [l.next EXCEPT ![lastItem] = a, ![a] = l.next[lastItem]])

-----------------------------------------------------------------------------

CallerRuns == targetNanos = None \/ running # None

IsList(l) == nextAlarm' = l.head /\ next' = l.next

\* Mistake: an alarm that is still linked is not unlinked first.
scheduleWithoutCancel(a, delta) ==
    /\ CallerRuns
    /\ nanos' = [nanos EXCEPT ![a] = nanosCounter + delta]
    /\ IsList(linkAlarm(List(nextAlarm, next), nanos', a))
    /\ scheduled' = [scheduled EXCEPT ![a] = TRUE]
    /\ UNCHANGED <<nanosCounter, targetNanos, running>>

schedule(a, delta) ==
    /\ CallerRuns
    /\ nanos' = [nanos EXCEPT ![a] = nanosCounter + delta]
    /\ LET l == List(nextAlarm, next)
       IN  IsList(linkAlarm(IF scheduled[a] THEN unlinkAlarm(l, a) ELSE l, nanos', a))
    /\ scheduled' = [scheduled EXCEPT ![a] = TRUE]
    /\ UNCHANGED <<nanosCounter, targetNanos, running>>

cancel(a) ==
    /\ CallerRuns
    /\ IsList(unlinkAlarm(List(nextAlarm, next), a))
    /\ scheduled' = [scheduled EXCEPT ![a] = FALSE]
    /\ UNCHANGED <<nanos, nanosCounter, targetNanos, running>>

nanosToNextAlarm == IF nextAlarm = None THEN 0 ELSE nanos[nextAlarm] - nanosCounter

StartTick(delta) ==
    /\ targetNanos = None
    /\ nanosCounter + delta <= MaxNanos
    /\ targetNanos' = nanosCounter + delta
    /\ UNCHANGED <<list, nanosCounter, running>>

Tick == \E delta \in TickDeltas \cup {nanosToNextAlarm} : StartTick(delta)

HeadIsDue == nextAlarm # None /\ nanos[nextAlarm] <= targetNanos

FireAlarm ==
    /\ targetNanos # None /\ running = None
    /\ HeadIsDue
    /\ nextAlarm' = next[nextAlarm]
    /\ nanosCounter' = nanos[nextAlarm]
    /\ running' = nextAlarm
    /\ UNCHANGED <<next, nanos, scheduled, targetNanos>>

CallbackReturns ==
    /\ running # None
    /\ running' = None
    /\ UNCHANGED <<list, nanosCounter, targetNanos>>

TickDone ==
    /\ targetNanos # None /\ running = None
    /\ ~HeadIsDue
    /\ nanosCounter' = targetNanos
    /\ targetNanos' = None
    /\ UNCHANGED <<list, running>>

Next ==
    \/ \E a \in Alarm, delta \in Deltas : schedule(a, delta)
    \/ \E a \in Alarm : cancel(a)
    \/ Tick
    \/ FireAlarm
    \/ CallbackReturns
    \/ TickDone

Spec == Init /\ [][Next]_vars

-----------------------------------------------------------------------------
(* Properties. *)

\* The walks of linkAlarm and unlinkAlarm end: whatever stale next pointers the
\* unlinked and fired alarms keep, none leads back into the list.
WalksEnd == Walk(nextAlarm, next)[Cardinality(Alarm) + 1] = None

\* Read along its pointers the list is SimClock's queue, and splicing it does
\* what SimClock's operations on the queue do.
Queue == INSTANCE SimClock WITH queue <- Chain(nextAlarm, next)

ImplementsQueue == Queue!Spec
=============================================================================

------------------------------ MODULE SimClock ------------------------------
(***************************************************************************)
(* SimulationClock and ClockAlarm (src/clock/simulation-clock.ts): the     *)
(* discrete-event clock every timed peripheral hangs its alarms on.        *)
(*                                                                         *)
(* tick() is not atomic for its callers: it runs alarm callbacks, and a    *)
(* callback may schedule or cancel any alarm, its own included, before     *)
(* tick() looks at the queue again.  Each callback is therefore a span of  *)
(* steps (FireAlarm .. CallbackReturns) inside the span of a tick          *)
(* (Tick .. TickDone).  The linked list is the sequence of its alarms;     *)
(* AlarmList refines it to the pointers.                                   *)
(***************************************************************************)
EXTENDS Integers, Sequences, SequencesExt

CONSTANTS
    Alarm,      \* the alarms created on the clock
    None,       \* no alarm is running / no tick is in progress
    Deltas,     \* delays the callers of schedule() pass
    TickDeltas, \* how far the emulator's steps advance the clock
    MaxNanos    \* bound: no tick starts that would end later than this

ASSUME AlarmAssumption == IsFiniteSet(Alarm)
ASSUME NoneAssumption == None \notin Alarm /\ None \notin Nat
ASSUME DeltasAssumption == Deltas \subseteq Nat /\ TickDeltas \subseteq Nat
ASSUME MaxNanosAssumption == MaxNanos \in Nat

VARIABLES
    nanosCounter, \* the time the clock shows
    queue,        \* the pending alarms, the next one first
    nanos,        \* the deadline each alarm was last linked with
    scheduled,    \* ClockAlarm.scheduled
    targetNanos,  \* where the tick in progress ends
    running       \* the alarm whose callback is on the stack

vars == <<nanosCounter, queue, nanos, scheduled, targetNanos, running>>

Init ==
    /\ nanosCounter = 0
    /\ queue = <<>>
    /\ nanos = [a \in Alarm |-> 0]
    /\ scheduled = [a \in Alarm |-> FALSE]
    /\ targetNanos = None
    /\ running = None

-----------------------------------------------------------------------------
(* Queue surgery. *)

\* The queue without alarm a; the queue itself when a is not in it.
unlinkAlarm(q, a) ==
    IF \E i \in 1 .. Len(q) : q[i] = a
    THEN RemoveAt(q, CHOOSE i \in 1 .. Len(q) : q[i] = a)
    ELSE q

\* The walk stops at the first alarm due no earlier than t: an alarm is linked
\* in front of the alarms that share its deadline.
IsLinkPosition(q, due, t, i) ==
    /\ i \in 1 .. Len(q) + 1
    /\ \A j \in 1 .. i - 1 : due[q[j]] < t
    /\ i <= Len(q) => due[q[i]] >= t

linkAlarm(q, due, a, t) ==
    InsertAt(q, CHOOSE i \in 1 .. Len(q) + 1 : IsLinkPosition(q, due, t, i), a)

-----------------------------------------------------------------------------
(* What code outside a tick, or a running callback, does with an alarm. *)

CallerRuns == targetNanos = None \/ running # None

\* Mistake: an alarm that is still pending is not unlinked first.
scheduleWithoutCancel(a, delta) ==
    /\ CallerRuns
    /\ queue' = linkAlarm(queue, nanos, a, nanosCounter + delta)
    /\ nanos' = [nanos EXCEPT ![a] = nanosCounter + delta]
    /\ scheduled' = [scheduled EXCEPT ![a] = TRUE]
    /\ UNCHANGED <<nanosCounter, targetNanos, running>>

schedule(a, delta) ==
    /\ CallerRuns
    /\ LET rest == IF scheduled[a] THEN unlinkAlarm(queue, a) ELSE queue
           due  == nanosCounter + delta
       IN  /\ queue' = linkAlarm(rest, nanos, a, due)
           /\ nanos' = [nanos EXCEPT ![a] = due]
    /\ scheduled' = [scheduled EXCEPT ![a] = TRUE]
    /\ UNCHANGED <<nanosCounter, targetNanos, running>>

\* Mistake: cancelling clears the flag and leaves the alarm in the list.
cancelFlagOnly(a) ==
    /\ CallerRuns
    /\ scheduled' = [scheduled EXCEPT ![a] = FALSE]
    /\ UNCHANGED <<nanosCounter, queue, nanos, targetNanos, running>>

cancel(a) ==
    /\ CallerRuns
    /\ queue' = unlinkAlarm(queue, a)
    /\ scheduled' = [scheduled EXCEPT ![a] = FALSE]
    /\ UNCHANGED <<nanosCounter, nanos, targetNanos, running>>

-----------------------------------------------------------------------------
(* tick(deltaNanos), one step per turn of its loop. *)

nanosToNextAlarm == IF queue = <<>> THEN 0 ELSE nanos[Head(queue)] - nanosCounter

StartTick(delta) ==
    /\ targetNanos = None
    /\ nanosCounter + delta <= MaxNanos
    /\ targetNanos' = nanosCounter + delta
    /\ UNCHANGED <<nanosCounter, queue, nanos, scheduled, running>>

\* A step of the emulator, or its skip to the next alarm while the core waits.
Tick == \E delta \in TickDeltas \cup {nanosToNextAlarm} : StartTick(delta)

HeadIsDue == queue # <<>> /\ nanos[Head(queue)] <= targetNanos

\* Mistake: the alarm that fires is not taken off the list.
FireAlarmLeavesIt ==
    /\ targetNanos # None /\ running = None
    /\ HeadIsDue
    /\ nanosCounter' = nanos[Head(queue)]
    /\ running' = Head(queue)
    /\ UNCHANGED <<queue, nanos, scheduled, targetNanos>>

FireAlarm ==
    /\ targetNanos # None /\ running = None
    /\ HeadIsDue
    /\ queue' = Tail(queue)
    /\ nanosCounter' = nanos[Head(queue)]
    /\ running' = Head(queue)
    /\ UNCHANGED <<nanos, scheduled, targetNanos>>

CallbackReturns ==
    /\ running # None
    /\ running' = None
    /\ UNCHANGED <<nanosCounter, queue, nanos, scheduled, targetNanos>>

TickDone ==
    /\ targetNanos # None /\ running = None
    /\ ~HeadIsDue
    /\ nanosCounter' = targetNanos
    /\ targetNanos' = None
    /\ UNCHANGED <<queue, nanos, scheduled, running>>

-----------------------------------------------------------------------------

Next ==
    \/ \E a \in Alarm, delta \in Deltas : schedule(a, delta)
    \/ \E a \in Alarm : cancel(a)
    \/ Tick
    \/ FireAlarm
    \/ CallbackReturns
    \/ TickDone

Spec == Init /\ [][Next]_vars

\* tick() is a loop on the only thread: it keeps running, and a callback returns.
Fairness ==
    /\ WF_vars(FireAlarm)
    /\ WF_vars(CallbackReturns)
    /\ WF_vars(TickDone)

FairSpec == Spec /\ Fairness

-----------------------------------------------------------------------------
(* Properties. *)

InQueue(a) == \E i \in 1 .. Len(queue) : queue[i] = a

\* The clock's variables have the shape the fields of SimulationClock have.
TypeOK ==
    /\ nanosCounter \in Nat
    /\ queue \in Seq(Alarm)
    /\ nanos \in [Alarm -> Nat]
    /\ scheduled \in [Alarm -> BOOLEAN]
    /\ targetNanos \in Nat \cup {None}
    /\ running \in Alarm \cup {None}

\* However callbacks reschedule and cancel, an alarm is linked at most once and
\* the flag schedule() relies on to unlink it first is never wrong about that:
\* linking an alarm twice would tie the linked list into a cycle.
LinkedOnce ==
    /\ \A i, j \in 1 .. Len(queue) : queue[i] = queue[j] => i = j
    /\ \A i \in 1 .. Len(queue) : scheduled[queue[i]]

\* The queue stays in deadline order, so the early exit of tick()'s loop at the
\* first alarm that is not due skips no alarm that is.
QueueInOrder ==
    \A i, j \in 1 .. Len(queue) : i < j => nanos[queue[i]] <= nanos[queue[j]]

\* No pending alarm's deadline has already passed, and a tick never overshoots.
NothingOverdue ==
    /\ \A i \in 1 .. Len(queue) : nanos[queue[i]] >= nanosCounter
    /\ targetNanos # None => nanosCounter <= targetNanos

\* The queue tick() walks is sound: linked once, in order, nothing overdue.
QueueSound == LinkedOnce /\ QueueInOrder /\ NothingOverdue

\* The clock never shows an earlier time than it did, although tick() sets it
\* back to each alarm's deadline in turn.
TimeNeverRunsBack == [][nanosCounter' >= nanosCounter]_vars

\* tick() returns, once its callbacks stop scheduling alarms at zero delay: an
\* alarm due at once is run by the tick in progress, and one that reschedules
\* itself so keeps the loop going for ever.
ZeroDelay == running # None /\ \E a \in Alarm : schedule(a, 0)

TickReturns ==
    <>[][~ZeroDelay]_vars => ((targetNanos # None) ~> (targetNanos = None))

\* Every alarm fires at its deadline, in deadline order, once, unless cancelled.
PendingDeadline == [a \in Alarm |-> IF InQueue(a) THEN nanos[a] ELSE None]

Promise == INSTANCE AlarmClock WITH
    now <- nanosCounter, deadline <- PendingDeadline, NoDeadline <- None

ImplementsAlarmClock == Promise!Spec
=============================================================================

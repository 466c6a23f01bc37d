----------------------------- MODULE MCSimClock -----------------------------
(* Model-checking instance of SimClock and of AlarmList, each with three alarms  *)
(* over a few nanoseconds: a behaviour is one of the queue or one of the list.   *)
EXTENDS SimClock

VARIABLES
    form, \* "queue" or "list"
    nextAlarm, next, listNanos, listScheduled, listCounter, listTarget, listRunning

MCDeltas == 0 .. 2      \* due at once, before, at and after the end of a tick
MCTickDeltas == {0, 1, 3}

Pointers == INSTANCE AlarmList WITH
    nanos <- listNanos, scheduled <- listScheduled, nanosCounter <- listCounter,
    targetNanos <- listTarget, running <- listRunning

listVars == <<nextAlarm, next, listNanos, listScheduled, listCounter, listTarget, listRunning>>

MCInit == form \in {"queue", "list"} /\ Init /\ Pointers!Init

MCNext ==
    /\ \/ form = "queue" /\ Next /\ UNCHANGED listVars
       \/ form = "list" /\ Pointers!Next /\ UNCHANGED vars
    /\ UNCHANGED form

\* The queue that is not worked with has nothing due.
MCSpec == MCInit /\ [][MCNext]_<<form, vars, listVars>> /\ Fairness

\* No walk along the list runs in a circle (simulation-clock.ts).
WalksEnd == Pointers!WalksEnd

\* The list is the queue of SimClock, step by step (simulation-clock.ts).
ImplementsQueue == Pointers!ImplementsQueue
=============================================================================

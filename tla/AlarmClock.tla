----------------------------- MODULE AlarmClock -----------------------------
(***************************************************************************)
(* What the emulator's clock promises to the peripherals that hold alarms: *)
(* an alarm that is scheduled and not cancelled runs exactly once, at its  *)
(* deadline, after every alarm with an earlier deadline, and time never    *)
(* passes a pending deadline.  How the pending alarms are kept is left to  *)
(* the implementation (SimClock).                                          *)
(***************************************************************************)
EXTENDS Integers

CONSTANTS
    Alarm,      \* the alarms created on the clock
    NoDeadline  \* the deadline of an alarm that is not pending: no number

VARIABLES
    now,        \* the time the clock shows
    deadline    \* when each pending alarm is due

vars == <<now, deadline>>

Pending == {a \in Alarm : deadline[a] # NoDeadline}

Init ==
    /\ now = 0
    /\ deadline = [a \in Alarm |-> NoDeadline]

\* A new deadline, whatever it is, replaces the old one: an alarm is pending at
\* most once.
Schedule(a) ==
    /\ deadline'[a] \in Nat
    /\ deadline'[a] >= now
    /\ deadline' = [deadline EXCEPT ![a] = deadline'[a]]
    /\ UNCHANGED now

Cancel(a) ==
    /\ deadline' = [deadline EXCEPT ![a] = NoDeadline]
    /\ UNCHANGED now

\* An alarm runs at its own deadline and no other is due before it.
Fire(a) ==
    /\ a \in Pending
    /\ \A b \in Pending : deadline[a] <= deadline[b]
    /\ now' = deadline[a]
    /\ deadline' = [deadline EXCEPT ![a] = NoDeadline]

\* Time moves on only when nothing is left to run on the way.
Advance ==
    /\ now' \in Nat
    /\ now' >= now
    /\ \A a \in Pending : deadline[a] > now'
    /\ UNCHANGED deadline

Next ==
    \/ \E a \in Alarm : Schedule(a) \/ Cancel(a) \/ Fire(a)
    \/ Advance

Spec == Init /\ [][Next]_vars
=============================================================================

------------------------------ MODULE DmaJobs -------------------------------
(***************************************************************************)
(* What firmware is promised of a DMA channel: a trigger of a channel at   *)
(* rest begins a job, a trigger of a busy one is ignored, each transfer    *)
(* takes one unit off the job, and the interrupt is raised when the last   *)
(* unit has been moved and not before.                                     *)
(***************************************************************************)
EXTENDS Integers

CONSTANT Channel

VARIABLES
    left,    \* how many units of its job each channel has yet to move
    endless, \* the job does not count its units
    raised   \* the channels with an interrupt to acknowledge

vars == <<left, endless, raised>>

Init ==
    /\ left = [c \in Channel |-> 0]
    /\ endless = [c \in Channel |-> FALSE]
    /\ raised = {}

\* Only a channel that has nothing left to move gets a job.
KeepsOrBegins(c) == left[c] = 0 \/ left'[c] = left[c]

\* Firmware's triggers.  A null trigger raises an interrupt and begins nothing.
Trigger ==
    /\ \A c \in Channel : KeepsOrBegins(c)
    /\ raised \subseteq raised'

\* A transfer that is not the last of its job.  The word it moves may trigger
\* other channels.
Unit(c) ==
    /\ left[c] > 0
    /\ left'[c] > 0
    /\ left'[c] = IF endless'[c] THEN left[c] ELSE left[c] - 1
    /\ \A d \in Channel \ {c} : KeepsOrBegins(d)
    /\ raised \subseteq raised'
    /\ c \in raised' => c \in raised

\* The last one, or the only one of a channel triggered with a count of 0.  It
\* may chain to another channel, or begin the channel's next job.
LastUnit(c) ==
    /\ left[c] <= 1
    /\ \A d \in Channel \ {c} : KeepsOrBegins(d)
    /\ raised \subseteq raised'

Abort ==
    /\ \A c \in Channel : left'[c] \in {0, left[c]}
    /\ UNCHANGED raised

Acknowledge == raised' \subseteq raised /\ UNCHANGED left

Next ==
    /\ left' \in [Channel -> Nat]
    /\ endless' \in [Channel -> BOOLEAN]
    /\ \/ Trigger
       \/ \E c \in Channel : Unit(c) \/ LastUnit(c)
       \/ Abort
       \/ Acknowledge

Spec == Init /\ [][Next]_vars
=============================================================================

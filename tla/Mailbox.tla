------------------------------ MODULE Mailbox -------------------------------
(***************************************************************************)
(* What the two cores are promised of the SIO FIFOs: a bounded queue in    *)
(* each direction.  A word is taken once and in the order it was sent; a   *)
(* word that finds the queue full and a read that finds it empty are lost, *)
(* and the core that lost it can see so until it clears the flag.          *)
(***************************************************************************)
EXTENDS Integers, Sequences

CONSTANTS
    Core,      \* the cores
    Peer,      \* the core at the other end
    Depth,     \* how many words a queue holds
    Word

VARIABLES
    inbox,     \* the words on their way to each core
    overflow,  \* the core has lost a word it sent
    underflow  \* the core has read from an empty inbox

vars == <<inbox, overflow, underflow>>

Init ==
    /\ inbox = [c \in Core |-> <<>>]
    /\ overflow = [c \in Core |-> FALSE]
    /\ underflow = [c \in Core |-> FALSE]

Send(c, w) ==
    \/ /\ Len(inbox[Peer[c]]) < Depth
       /\ inbox' = [inbox EXCEPT ![Peer[c]] = Append(@, w)]
       /\ UNCHANGED <<overflow, underflow>>
    \/ /\ Len(inbox[Peer[c]]) = Depth
       /\ overflow' = [overflow EXCEPT ![c] = TRUE]
       /\ UNCHANGED <<inbox, underflow>>

Take(c) ==
    \/ /\ inbox[c] # <<>>
       /\ inbox' = [inbox EXCEPT ![c] = Tail(@)]
       /\ UNCHANGED <<overflow, underflow>>
    \/ /\ inbox[c] = <<>>
       /\ underflow' = [underflow EXCEPT ![c] = TRUE]
       /\ UNCHANGED <<inbox, overflow>>

\* Only the core itself clears its flags, and clears nothing else.
Clear(c) ==
    /\ overflow' \in {overflow, [overflow EXCEPT ![c] = FALSE]}
    /\ underflow' \in {underflow, [underflow EXCEPT ![c] = FALSE]}
    /\ UNCHANGED inbox

Next == \E c \in Core : Take(c) \/ Clear(c) \/ \E w \in Word : Send(c, w)

Spec == Init /\ [][Next]_vars
=============================================================================

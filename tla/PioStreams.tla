----------------------------- MODULE PioStreams ------------------------------
(***************************************************************************)
(* What firmware is promised of the FIFOs of a PIO machine: words written  *)
(* are loaded into OSR in the order they were written, and words handed    *)
(* over from ISR are read in the order they were handed over; none twice,  *)
(* and none is lost but for the reasons named here.                        *)
(***************************************************************************)
EXTENDS Naturals, Sequences

CONSTANTS
    Machine, \* the machines
    Word,    \* what they are sent, 0 among it
    Depth    \* how much a FIFO holds

VARIABLES
    sent,  \* [m |-> the words on their way to machine m]
    osr,   \* [m |-> the word it has loaded]
    isr,   \* [m |-> the word it is about to hand over]
    handed \* [m |-> the words on their way from it, one beyond Depth while it stalls]

vars == <<sent, osr, isr, handed>>

Init ==
    /\ sent = [m \in Machine |-> <<>>]
    /\ osr = [m \in Machine |-> 0]
    /\ isr = [m \in Machine |-> 0]
    /\ handed = [m \in Machine |-> <<>>]

Only(m, f) == \A n \in Machine \ {m} : f'[n] = f[n]

\* A word is written; a machine that stalls on it loads it at once.
Write(m) ==
    /\ Only(m, sent) /\ Only(m, osr)
    /\ \E w \in Word :
          \/ /\ Len(sent[m]) < Depth
             /\ sent'[m] = Append(sent[m], w) /\ osr'[m] = osr[m]
          \/ sent[m] = <<>> /\ sent'[m] = <<>> /\ osr'[m] = w
    /\ UNCHANGED <<isr, handed>>

\* The machine loads a word, or, if there is none and it will not wait, 0.
Load(m) ==
    /\ Only(m, sent) /\ Only(m, osr)
    /\ \/ /\ sent[m] # <<>>
          /\ osr'[m] = Head(sent[m]) /\ sent'[m] = Tail(sent[m])
       \/ sent[m] = <<>> /\ sent'[m] = <<>> /\ osr'[m] = 0
    /\ UNCHANGED <<isr, handed>>

\* It shifts its word into ISR.
Shift(m) == Only(m, isr) /\ isr'[m] = osr[m] /\ UNCHANGED <<sent, osr, handed>>

\* It hands over the word of ISR, or its own that it shifts in by
\* the same instruction, and loses it only if the FIFO is full and it will not wait.
HandOver(m) ==
    /\ Only(m, isr) /\ Only(m, handed)
    /\ isr'[m] = 0
    /\ \/ Len(handed[m]) >= Depth /\ handed'[m] = handed[m]
       \/ /\ Len(handed[m]) <= Depth
          /\ \E w \in {isr[m], osr[m]} : handed'[m] = Append(handed[m], w)
    /\ UNCHANGED <<sent, osr>>

\* A word is read.
Read(m) ==
    /\ handed[m] # <<>>
    /\ Only(m, handed)
    /\ handed'[m] = Tail(handed[m])
    /\ UNCHANGED <<sent, osr, isr>>

\* A restart empties ISR, and forgets the word that the machine stalls on.
Restart ==
    /\ \A m \in Machine :
          \/ isr'[m] = isr[m] /\ handed'[m] = handed[m]
          \/ /\ isr'[m] = 0
             /\ handed'[m] = IF Len(handed[m]) <= Depth THEN handed[m]
                             ELSE SubSeq(handed[m], 1, Depth)
    /\ UNCHANGED <<sent, osr>>

Next ==
    \/ \E m \in Machine : Write(m) \/ Load(m) \/ Shift(m) \/ HandOver(m) \/ Read(m)
    \/ Restart

Spec == Init /\ [][Next]_vars
=============================================================================

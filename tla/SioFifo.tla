------------------------------ MODULE SioFifo -------------------------------
(***************************************************************************)
(* The inter-core FIFO registers of RPSIOCore (src/sio-core.ts): two       *)
(* cross-wired rings, the sticky WOF and ROE latches of each core and the  *)
(* level of each core's SIO_IRQ_FIFO.  A register access is one step of    *)
(* the core (or of the DMA, on the core's behalf) that makes it; the cores *)
(* access the registers in any order.                                      *)
(***************************************************************************)
EXTENDS Integers, Sequences

CONSTANTS
    Depth,  \* length of the buffer
    Word    \* what it holds; 0, a Uint32Array's initial value, among it

ASSUME DepthAssumption == Depth \in Nat \ {0}
ASSUME WordAssumption == 0 \in Word

-----------------------------------------------------------------------------
(* The ring buffer of src/utils/fifo.ts.  A ring is a value; its owner holds *)
(* it in a variable.                                                         *)

Ring == [buffer : [0 .. Depth - 1 -> Word], start : 0 .. Depth - 1, used : 0 .. Depth]

NewFifo == [buffer |-> [i \in 0 .. Depth - 1 |-> 0], start |-> 0, used |-> 0]

empty(f) == f.used = 0
full(f) == f.used = Depth

push(f, w) ==
    IF full(f) THEN f
    ELSE [f EXCEPT !.buffer[(f.start + f.used) % Depth] = w, !.used = @ + 1]

\* pull() returns peek(f) and leaves the ring pull(f) behind.
peek(f) == IF empty(f) THEN 0 ELSE f.buffer[f.start]

\* Mistake: the read position stays where it was.
pullInPlace(f) == IF empty(f) THEN f ELSE [f EXCEPT !.used = @ - 1]

pull(f) ==
    IF empty(f) THEN f
    ELSE [f EXCEPT !.start = (@ + 1) % Depth, !.used = @ - 1]

\* The words in the order they were pushed.
items(f) == [i \in 1 .. f.used |-> f.buffer[(f.start + i - 1) % Depth]]

-----------------------------------------------------------------------------
(* The registers. *)

Core == {0, 1}
Other == [c \in Core |-> 1 - c]

VARIABLES
    rxFIFO,  \* the ring each core reads; the other core's txFIFO
    WOF,     \* the core wrote to a full FIFO
    ROE,     \* the core read from an empty FIFO
    irq      \* the level SIO last gave the core's SIO_IRQ_FIFO

fifoVars == <<rxFIFO, WOF, ROE, irq>>

FifoInit ==
    /\ rxFIFO = [c \in Core |-> NewFifo]
    /\ WOF = [c \in Core |-> FALSE]
    /\ ROE = [c \in Core |-> FALSE]
    /\ irq = [c \in Core |-> FALSE]

-----------------------------------------------------------------------------
(* FIFO_ST as core c reads it. *)

VLD(c) == ~empty(rxFIFO[c])
RDY(c) == ~full(rxFIFO[Other[c]])

\* Core c reads FIFO_RD and gets peek(rxFIFO[c]).
ReadRD(c) ==
    \/ /\ VLD(c)
       /\ rxFIFO' = [rxFIFO EXCEPT ![c] = pull(@)]
       /\ UNCHANGED <<WOF, ROE, irq>>
    \/ /\ ~VLD(c)
       /\ ROE' = [ROE EXCEPT ![c] = TRUE]
       /\ irq' = [irq EXCEPT ![c] = TRUE]
       /\ UNCHANGED <<rxFIFO, WOF>>

WriteWR(c, w) ==
    \/ /\ RDY(c)
       /\ rxFIFO' = [rxFIFO EXCEPT ![Other[c]] = push(@, w)]
       /\ irq' = [irq EXCEPT ![Other[c]] = TRUE]
       /\ UNCHANGED <<WOF, ROE>>
    \/ /\ ~RDY(c)
       /\ WOF' = [WOF EXCEPT ![c] = TRUE]
       /\ irq' = [irq EXCEPT ![c] = TRUE]
       /\ UNCHANGED <<rxFIFO, ROE>>

\* Mistake: the interrupt is dropped although words are left to read.
WriteSTWithUnread(c, clearWOF, clearROE) ==
    /\ WOF' = [WOF EXCEPT ![c] = @ /\ ~clearWOF]
    /\ ROE' = [ROE EXCEPT ![c] = @ /\ ~clearROE]
    /\ irq' = [irq EXCEPT ![c] = @ /\ (WOF'[c] \/ ROE'[c])]
    /\ UNCHANGED rxFIFO

\* Core c writes FIFO_ST with the WOF and the ROE bit set or not.
WriteST(c, clearWOF, clearROE) ==
    /\ WOF' = [WOF EXCEPT ![c] = @ /\ ~clearWOF]
    /\ ROE' = [ROE EXCEPT ![c] = @ /\ ~clearROE]
    /\ irq' = [irq EXCEPT ![c] = @ /\ (WOF'[c] \/ ROE'[c] \/ VLD(c))]
    /\ UNCHANGED rxFIFO

FifoNext ==
    \E c \in Core :
        \/ ReadRD(c)
        \/ \E w \in Word : WriteWR(c, w)
        \/ \E clearWOF, clearROE \in BOOLEAN : WriteST(c, clearWOF, clearROE)

FifoSpec == FifoInit /\ [][FifoNext]_fifoVars

-----------------------------------------------------------------------------
(* Properties. *)

\* The rings stay within their buffers; the latches and levels are Booleans.
FifoTypeOK ==
    /\ rxFIFO \in [Core -> Ring]
    /\ WOF \in [Core -> BOOLEAN]
    /\ ROE \in [Core -> BOOLEAN]
    /\ irq \in [Core -> BOOLEAN]

\* A core that has a word to read, or a lost word to hear of, has its interrupt
\* asserted, however its clearing of FIFO_ST races the other core's next word.
IrqWhileUnread == \A c \in Core : VLD(c) \/ WOF[c] \/ ROE[c] => irq[c]

\* Wrapped round their buffers as they are, the rings are the two queues the
\* cores are promised, and the latches record exactly the words lost.
Queues == INSTANCE Mailbox WITH
    Peer <- Other,
    inbox <- [c \in Core |-> items(rxFIFO[c])],
    overflow <- WOF, underflow <- ROE

ImplementsMailbox == Queues!Spec
=============================================================================

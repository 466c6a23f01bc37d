------------------------------- MODULE MCDma --------------------------------
(* Model-checking instances of Dma: two channels. *)
EXTENDS Dma, TLC

CONSTANTS c0, c1

To(where, req, next, irqQuiet) ==
    [dest |-> where, treq |-> req, chainTo |-> next, quiet |-> irqQuiet]

\* Each to the FIFO and on to the other; c0 also as the control channel of c1.
MCConfig ==
    (c0 :> {To(TxFifo, "fifo", c1, FALSE), To(c1, "permanent", c0, FALSE)})
    @@ (c1 :> {To(TxFifo, "fifo", c0, FALSE), To(Memory, "timer", c0, TRUE)})

Value(n, m) == [count |-> n, mode |-> m]

MCCounts ==
    (c0 :> {Value(0, 0), Value(2, 0), Value(1, ENDLESS)})
    @@ (c1 :> {Value(0, 0), Value(2, 0), Value(1, SELF)})
MCBlock == {Value(0, 0), Value(2, 0)}

\* The same without the timer, every job of two units.
MCPaced == [c \in Channel |-> {f \in MCConfig[c] : f.treq # "timer"}]
MCTwo == [c \in Channel |-> {Value(2, 0)}]
=============================================================================

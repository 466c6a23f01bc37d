------------------------------- MODULE MCPio --------------------------------
(* Model-checking instances of Pio: two machines, programs of a few instructions. *)
EXTENDS Pio, TLC

Jmp(to, cond) == [op |-> "jmp", to |-> to, cond |-> cond, delay |-> 0]
WaitFor(source, polarity, flag) ==
    [op |-> "wait", source |-> source, polarity |-> polarity, flag |-> flag,
     rel |-> FALSE, delay |-> 0]
In(units) == [op |-> "in", units |-> units, delay |-> 0]
Out(units) == [op |-> "out", units |-> units, delay |-> 0]
Push(block, ifFull) == [op |-> "push", block |-> block, ifFull |-> ifFull, delay |-> 0]
Pull(block, ifEmpty) == [op |-> "pull", block |-> block, ifEmpty |-> ifEmpty, delay |-> 0]
Irq(clear, waits, flag, rel) ==
    [op |-> "irq", clear |-> clear, wait |-> waits, flag |-> flag, rel |-> rel, delay |-> 0]
After(i, delay) == [i EXCEPT !.delay = delay]

\* The rest of the memory is 0, which is a jump to 0.
Memory(instrs) ==
    [a \in 0 .. 31 |-> IF a < Len(instrs) THEN instrs[a + 1] ELSE Jmp(0, "always")]

Settings(bottom, top, autopush, autopull, threshold) ==
    [wrapBottom |-> bottom, wrapTop |-> top, autopush |-> autopush, autopull |-> autopull,
     pushThreshold |-> threshold, pullThreshold |-> threshold]

On(machines) == [enabled |-> machines, restarted |-> {}]
Feed(first, second) == (0 :> first) @@ (1 :> second)
Restarted(machines) == [enabled |-> {0, 1}, restarted |-> machines]

\* Machine 0 passes words on and raises a flag for each; machine 1 answers each with
\* a word of its own, if there is room.
Handshake ==
    [instructions |-> Memory(<<Pull(TRUE, FALSE), In(2), Irq(FALSE, TRUE, 0, FALSE),
                               WaitFor("irq", TRUE, 0), After(Push(FALSE, FALSE), 1)>>),
     sm |-> (0 :> Settings(0, 2, TRUE, FALSE, 2)) @@ (1 :> Settings(3, 4, FALSE, FALSE, 2)),
     fed |-> Feed({1}, {}), flags |-> {0}, ctrl |-> {Restarted({0}), Restarted({1})},
     forced |-> {}]

\* Autopull by parts of a word and a pin; two machines on one flag, and a flag each.
Parts ==
    [instructions |-> Memory(<<Out(1), Out(2), Jmp(0, "osre"), WaitFor("pin", TRUE, 0),
                               WaitFor("irq", TRUE, 1), Irq(FALSE, FALSE, 1, TRUE)>>),
     sm |-> (0 :> Settings(0, 4, FALSE, TRUE, 2)) @@ (1 :> Settings(4, 5, FALSE, FALSE, 2)),
     fed |-> Feed({0, 1}, {}), flags |-> {1}, ctrl |-> {On({0}), On({})},
     forced |-> {Pull(FALSE, FALSE), Irq(FALSE, FALSE, 1, FALSE)}]

\* Half words in, pushed when whole; a flag that must go down.
Wholes ==
    [instructions |-> Memory(<<Pull(FALSE, TRUE), In(1), Push(TRUE, TRUE),
                               Jmp(0, "data"), WaitFor("irq", FALSE, 1)>>),
     sm |-> (0 :> Settings(4, 4, FALSE, FALSE, 2)) @@ (1 :> Settings(0, 3, TRUE, TRUE, 2)),
     fed |-> Feed({}, {0, 1}), flags |-> {1}, ctrl |-> {Restarted({1})},
     forced |-> {Irq(FALSE, TRUE, 1, FALSE)}]

MCPrograms == {Handshake, Parts, Wholes}
MCSources == {{<<"irq", 0>>, <<"rxnempty", 0>>, <<"txnfull", 1>>}}
=============================================================================

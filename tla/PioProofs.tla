----------------------------- MODULE PioProofs ------------------------------
(* Theorems about Pio, for any number of machines, FIFOs of any depth and any *)
(* programs that firmware may load.  Each operator of Pio takes the block p   *)
(* in the middle of a step to the block q after it; the lemmas say what of p  *)
(* is left in q.                                                              *)
EXTENDS Pio, SequenceTheorems, FiniteSetTheorems, WellFoundedInduction, TLAPS

USE SizeAssumption

-----------------------------------------------------------------------------
(* The inductive invariant. *)

Channel ==
    [pc : 0 .. 31, wait : Waits, delay : Nat, enabled : BOOLEAN,
     isr : Word, isrCount : 0 .. Full, osr : Word, osrCount : 0 .. Full,
     tx : Seq(Word), rx : Seq(Word)]

Block ==
    [machines : [Machine -> Channel], irq : SUBSET (0 .. 7),
     txStall : SUBSET Machine, rxStall : SUBSET Machine,
     fdebug : SUBSET ({"tx", "rx"} \X Machine),
     inte : Sources \cup {{}}, line : BOOLEAN,
     dreqTx : SUBSET Machine, dreqRx : SUBSET Machine, pin : BOOLEAN]

Bounded(p) ==
    \A n \in Machine : Len(p.machines[n].tx) <= Depth /\ Len(p.machines[n].rx) <= Depth

DreqsTrue(p) ==
    /\ p.dreqTx = {n \in Machine : Len(p.machines[n].tx) < Depth}
    /\ p.dreqRx = {n \in Machine : p.machines[n].rx # <<>>}

\* A machine stalls on a FIFO that is empty or full, and FDEBUG says so.
StallsOnFIFO(p, n) ==
    /\ p.machines[n].wait.type \in {"tx", "out"} =>
          p.machines[n].tx = <<>> /\ n \in p.txStall /\ <<"tx", n>> \in p.fdebug
    /\ p.machines[n].wait.type = "rx" =>
          Len(p.machines[n].rx) = Depth /\ n \in p.rxStall /\ <<"rx", n>> \in p.fdebug

\* A machine waits for a flag that is down.
StallsOnFlag(p, n) ==
    p.machines[n].wait.type = "irq" /\ p.machines[n].wait.polarity = TRUE =>
        p.machines[n].wait.index \notin p.irq

\* What holds in the middle of a step, while flags come and go, as well.
Consistent(p) == p \in Block /\ Bounded(p) /\ DreqsTrue(p) /\ \A n \in Machine : StallsOnFIFO(p, n)

LineUp(p) == intRaw(p) \cap p.inte # {} => p.line = TRUE

Sound(p) == Consistent(p) /\ LineUp(p) /\ \A n \in Machine : StallsOnFlag(p, n)

Inv == program \in Programs /\ Sound(pio)

-----------------------------------------------------------------------------
(* The ways to wait. *)

LEMMA WaitTypes ==
    ASSUME NEW w \in Waits
    PROVE  /\ w.type \in {"none", "irq", "pin", "rx", "tx", "out"}
           /\ w.type = "none" <=> w = Running
           /\ w.type = "irq" => w.polarity \in BOOLEAN /\ w.index \in 0 .. 7
           /\ w.type = "irq" => w = [type |-> "irq", polarity |-> w.polarity, index |-> w.index]
           /\ w.type = "rx" => w.index \in Word
           /\ w.type = "out" => w.index \in 1 .. Full
<1>1. CASE w = Running
  BY <1>1 DEF Running
<1>2. CASE w \in [type : {"irq"}, polarity : BOOLEAN, index : 0 .. 7]
  BY <1>2 DEF Running
<1>3. CASE w \in [type : {"pin"}, polarity : BOOLEAN, index : {0}]
  BY <1>3 DEF Running
<1>4. CASE w \in [type : {"rx"}, polarity : {FALSE}, index : Word]
  BY <1>4 DEF Running
<1>5. CASE w \in [type : {"tx"}, polarity : {FALSE}, index : {0}]
  BY <1>5 DEF Running
<1>6. CASE w \in [type : {"out"}, polarity : {FALSE}, index : 1 .. Full]
  BY <1>6 DEF Running
<1> QED BY <1>1, <1>2, <1>3, <1>4, <1>5, <1>6 DEF Waits

LEMMA WaitsMade ==
    /\ Running \in Waits
    /\ \A b \in BOOLEAN : \A f \in 0 .. 7 : [type |-> "irq", polarity |-> b, index |-> f] \in Waits
    /\ \A b \in BOOLEAN : [type |-> "pin", polarity |-> b, index |-> 0] \in Waits
    /\ \A w \in Word : [type |-> "rx", polarity |-> FALSE, index |-> w] \in Waits
    /\ [type |-> "tx", polarity |-> FALSE, index |-> 0] \in Waits
    /\ \A u \in 1 .. Full : [type |-> "out", polarity |-> FALSE, index |-> u] \in Waits
BY DEF Waits, Running

-----------------------------------------------------------------------------
(* Parts of a step: what they change of the block. *)

Elsewhere(p, q, m) == \A n \in Machine \ {m} : q.machines[n] = p.machines[n]

\* q is p with channel ch for machine m.
Sets(p, q, m, ch) ==
    /\ q \in Block
    /\ q.machines = [p.machines EXCEPT ![m] = ch]
    /\ q.irq = p.irq /\ q.txStall = p.txStall /\ q.rxStall = p.rxStall
    /\ q.fdebug = p.fdebug /\ q.inte = p.inte /\ q.line = p.line
    /\ q.dreqTx = p.dreqTx /\ q.dreqRx = p.dreqRx /\ q.pin = p.pin

LEMMA SetsChannel ==
    ASSUME NEW p \in Block, NEW m \in Machine, NEW ch \in Channel
    PROVE  Sets(p, [p EXCEPT !.machines[m] = ch], m, ch)
BY DEF Block, Sets

LEMMA CheckInterruptsFacts ==
    ASSUME NEW p \in Block
    PROVE  LET q == checkInterrupts(p)
           IN  /\ q \in Block /\ q.machines = p.machines
               /\ q.irq = p.irq /\ q.txStall = p.txStall /\ q.rxStall = p.rxStall
               /\ q.fdebug = p.fdebug /\ q.inte = p.inte
               /\ q.dreqTx = p.dreqTx /\ q.dreqRx = p.dreqRx /\ q.pin = p.pin
               /\ LineUp(q)
<1> DEFINE q == checkInterrupts(p)
<1>1. /\ q \in Block /\ q.machines = p.machines
      /\ q.irq = p.irq /\ q.txStall = p.txStall /\ q.rxStall = p.rxStall
      /\ q.fdebug = p.fdebug /\ q.inte = p.inte
      /\ q.dreqTx = p.dreqTx /\ q.dreqRx = p.dreqRx /\ q.pin = p.pin
      /\ q.line = (intRaw(p) \cap p.inte # {})
  BY DEF checkInterrupts, Block
<1>2. intRaw(q) = intRaw(p)
  BY <1>1 DEF intRaw
<1> QED BY <1>1, <1>2 DEF LineUp

\* A block whose machine m got another channel: the FIFOs' DREQs are told of it, and
\* machine m stalls for cause.
LEMMA ConsistentPut ==
    ASSUME NEW p, Consistent(p), NEW q \in Block, NEW m \in Machine, NEW ch \in Channel,
           q.machines = [p.machines EXCEPT ![m] = ch],
           Len(ch.tx) <= Depth, Len(ch.rx) <= Depth,
           p.txStall \ {m} \subseteq q.txStall, p.rxStall \ {m} \subseteq q.rxStall,
           p.fdebug \subseteq q.fdebug,
           \/ ch.tx = p.machines[m].tx /\ q.dreqTx = p.dreqTx
           \/ q.dreqTx = IF Len(ch.tx) = Depth THEN p.dreqTx \ {m} ELSE p.dreqTx \cup {m},
           \/ ch.rx = p.machines[m].rx /\ q.dreqRx = p.dreqRx
           \/ q.dreqRx = IF ch.rx = <<>> THEN p.dreqRx \ {m} ELSE p.dreqRx \cup {m},
           StallsOnFIFO(q, m)
    PROVE  Consistent(q)
<1>1. /\ p.machines \in [Machine -> Channel] /\ q.machines[m] = ch
      /\ \A n \in Machine \ {m} : q.machines[n] = p.machines[n]
  BY DEF Consistent, Block
<1>2. Bounded(q)
  BY <1>1 DEF Consistent, Bounded
<1>3. DreqsTrue(q)
  <2>1. Len(ch.tx) \in Nat
    BY DEF Channel
  <2>2. q.dreqTx = {n \in Machine : Len(q.machines[n].tx) < Depth}
    BY <1>1, <2>1 DEF Consistent, DreqsTrue
  <2>3. q.dreqRx = {n \in Machine : q.machines[n].rx # <<>>}
    BY <1>1 DEF Consistent, DreqsTrue
  <2> QED BY <2>2, <2>3 DEF DreqsTrue
<1>4. \A n \in Machine : StallsOnFIFO(q, n)
  <2> SUFFICES ASSUME NEW n \in Machine, n # m PROVE StallsOnFIFO(q, n)
    OBVIOUS
  <2>1. StallsOnFIFO(p, n) /\ q.machines[n] = p.machines[n]
    BY <1>1 DEF Consistent
  <2> QED BY <2>1 DEF StallsOnFIFO
<1> QED BY <1>2, <1>3, <1>4 DEF Consistent

\* The interrupt line stays up as long as no new cause comes.
LEMMA LineKept ==
    ASSUME NEW p, NEW q, DreqsTrue(p), DreqsTrue(q), LineUp(p), q.irq \subseteq p.irq,
           q.dreqTx \subseteq p.dreqTx, q.dreqRx \subseteq p.dreqRx,
           q.line = p.line, q.inte = p.inte
    PROVE  LineUp(q)
<1>1. intRaw(q) \subseteq intRaw(p)
  BY DEF DreqsTrue, intRaw
<1> QED BY <1>1 DEF LineUp

\* A machine that waits for a flag goes on waiting for it, or runs.
LEMMA FlagKept ==
    ASSUME NEW p, NEW q, NEW n, StallsOnFlag(p, n), q.irq \subseteq p.irq,
           q.machines[n].wait = p.machines[n].wait \/ q.machines[n].wait = Running
    PROVE  StallsOnFlag(q, n)
BY DEF StallsOnFlag, Running

-----------------------------------------------------------------------------
(* The words in a block, and what a step does to those of one machine. *)

Handed(p, n) ==
    p.machines[n].rx \o IF p.machines[n].wait.type = "rx" THEN <<p.machines[n].wait.index>>
                        ELSE <<>>

Still(p, q, n) ==
    /\ q.machines[n].tx = p.machines[n].tx /\ q.machines[n].osr = p.machines[n].osr
    /\ q.machines[n].isr = p.machines[n].isr /\ Handed(q, n) = Handed(p, n)

Loads(p, q, n) ==
    /\ \/ /\ p.machines[n].tx # <<>>
          /\ q.machines[n].osr = Head(p.machines[n].tx)
          /\ q.machines[n].tx = Tail(p.machines[n].tx)
       \/ p.machines[n].tx = <<>> /\ q.machines[n].tx = <<>> /\ q.machines[n].osr = 0
    /\ q.machines[n].isr = p.machines[n].isr /\ Handed(q, n) = Handed(p, n)

Shifts(p, q, n) ==
    /\ q.machines[n].isr = p.machines[n].osr
    /\ q.machines[n].tx = p.machines[n].tx /\ q.machines[n].osr = p.machines[n].osr
    /\ Handed(q, n) = Handed(p, n)

HandsOver(p, q, n) ==
    /\ q.machines[n].isr = 0
    /\ \/ Len(Handed(p, n)) >= Depth /\ Handed(q, n) = Handed(p, n)
       \/ /\ Len(Handed(p, n)) <= Depth
          /\ \E w \in {p.machines[n].isr, p.machines[n].osr} :
                Handed(q, n) = Append(Handed(p, n), w)
    /\ q.machines[n].tx = p.machines[n].tx /\ q.machines[n].osr = p.machines[n].osr

Moves(p, q, n) == Still(p, q, n) \/ Loads(p, q, n) \/ Shifts(p, q, n) \/ HandsOver(p, q, n)

\* Of the machines that wait for a flag to go up, at most one is woken.
OneWoken(p, q) ==
    \A f \in 0 .. 7 : \A n, o \in Machine :
        Awaits(p, n, f) /\ ~Awaits(q, n, f) /\ Awaits(p, o, f) /\ ~Awaits(q, o, f) => n = o

\* q is p except that machines which waited for a flag or a pin may run, and have
\* cleared their flags.
Released(p, q) ==
    /\ q \in Block
    /\ q.irq \subseteq p.irq /\ q.txStall = p.txStall /\ q.rxStall = p.rxStall
    /\ q.fdebug = p.fdebug /\ q.inte = p.inte /\ q.line = p.line
    /\ q.dreqTx = p.dreqTx /\ q.dreqRx = p.dreqRx /\ q.pin = p.pin
    /\ \A n \in Machine :
          /\ q.machines[n].tx = p.machines[n].tx /\ q.machines[n].rx = p.machines[n].rx
          /\ q.machines[n].osr = p.machines[n].osr /\ q.machines[n].isr = p.machines[n].isr
          /\ \/ q.machines[n].wait = p.machines[n].wait
             \/ q.machines[n].wait = Running /\ p.machines[n].wait.type \in {"irq", "pin"}

LEMMA ReleasedFacts ==
    ASSUME NEW p, NEW q, Consistent(p), Released(p, q)
    PROVE  /\ Consistent(q) /\ (LineUp(p) => LineUp(q))
           /\ \A n \in Machine : Still(p, q, n) /\ (StallsOnFlag(p, n) => StallsOnFlag(q, n))
<1>1. Bounded(q) /\ DreqsTrue(q)
  BY DEF Consistent, Bounded, DreqsTrue, Released
<1>2. \A n \in Machine : StallsOnFIFO(q, n)
  <2> SUFFICES ASSUME NEW n \in Machine PROVE StallsOnFIFO(q, n)
    OBVIOUS
  <2>1. StallsOnFIFO(p, n)
    BY DEF Consistent
  <2>2. CASE q.machines[n].wait = p.machines[n].wait
    BY <2>1, <2>2 DEF StallsOnFIFO, Released
  <2>3. CASE q.machines[n].wait = Running
    BY <2>3 DEF StallsOnFIFO, Running
  <2> QED BY <2>2, <2>3 DEF Released
<1>3. Consistent(q)
  BY <1>1, <1>2 DEF Consistent, Released
<1>4. LineUp(p) => LineUp(q)
  BY <1>1, LineKept DEF Consistent, Released
<1>5. \A n \in Machine : Still(p, q, n) /\ (StallsOnFlag(p, n) => StallsOnFlag(q, n))
  <2> SUFFICES ASSUME NEW n \in Machine
               PROVE  Still(p, q, n) /\ (StallsOnFlag(p, n) => StallsOnFlag(q, n))
    OBVIOUS
  <2>1. StallsOnFlag(p, n) => StallsOnFlag(q, n)
    BY FlagKept DEF Released
  <2>2. Handed(q, n) = Handed(p, n)
    <3>1. q.machines[n].rx = p.machines[n].rx
      BY DEF Released
    <3>2. CASE q.machines[n].wait = p.machines[n].wait
      BY <3>1, <3>2 DEF Handed
    <3>3. CASE q.machines[n].wait = Running /\ p.machines[n].wait.type \in {"irq", "pin"}
      <4>1. q.machines[n].wait.type # "rx" /\ p.machines[n].wait.type # "rx"
        BY <3>3 DEF Running
      <4> QED BY <3>1, <4>1 DEF Handed
    <3> QED BY <3>2, <3>3 DEF Released
  <2> QED BY <2>1, <2>2 DEF Still, Released
<1> QED BY <1>3, <1>4, <1>5

LEMMA ReleasedAgain ==
    ASSUME NEW p, NEW q, NEW r, Released(p, q), Released(q, r)
    PROVE  Released(p, r)
BY DEF Released, Running

-----------------------------------------------------------------------------
(* Looking whether what is waited for has come about. *)

LEMMA NextPCFacts ==
    ASSUME program \in Programs, NEW p \in Block, NEW m \in Machine
    PROVE  \E a \in 0 .. 31 :
              Sets(p, nextPC(p, m), m, [p.machines[m] EXCEPT !.pc = a])
<1> DEFINE a == IF p.machines[m].pc = program.sm[m].wrapTop THEN program.sm[m].wrapBottom
                ELSE (p.machines[m].pc + 1) % 32
<1>1. p.machines[m] \in Channel /\ p.machines[m].pc \in 0 .. 31
  BY DEF Block, Channel
<1>2. program.sm[m].wrapBottom \in 0 .. 31
  BY ProgramAssumption
<1>3. (p.machines[m].pc + 1) % 32 \in 0 .. 31
  BY <1>1
<1>4. a \in 0 .. 31
  BY <1>2, <1>3
<1>5. nextPC(p, m) = [p EXCEPT !.machines[m].pc = a]
  BY <1>1 DEF nextPC, Block
<1> HIDE DEF a
<1>6. Sets(p, nextPC(p, m), m, [p.machines[m] EXCEPT !.pc = a])
  <2>1. [p.machines[m] EXCEPT !.pc = a] \in Channel
    BY <1>1, <1>4 DEF Channel
  <2>2. nextPC(p, m) = [p EXCEPT !.machines[m] = [p.machines[m] EXCEPT !.pc = a]]
    BY <1>1, <1>5 DEF Block
  <2> QED BY <2>1, <2>2, SetsChannel
<1> QED BY <1>4, <1>6

\* What a look at the condition does: nothing, or machine m runs.
Looked(p, q, m) ==
    /\ Released(p, q) /\ StallsOnFlag(q, m)
    /\ \A n \in Machine \ {m} : q.machines[n] = p.machines[n]
    /\ \A f \in 0 .. 7 : Awaits(p, m, f) /\ ~Awaits(q, m, f) => f \in p.irq /\ f \notin q.irq

LEMMA CheckWaitFacts ==
    ASSUME program \in Programs, NEW p, Consistent(p), NEW m \in Machine
    PROVE  Looked(p, checkWait(p, m), m)
<1> DEFINE w == p.machines[m].wait
<1>1. p \in Block /\ p.machines[m] \in Channel /\ w \in Waits /\ StallsOnFIFO(p, m)
  BY DEF Consistent, Block, Channel
<1>2. w.type \in {"none", "irq", "pin", "rx", "tx", "out"} /\ (w.type = "none" <=> w = Running)
  BY <1>1, WaitTypes
<1>3. Len(p.machines[m].rx) = Depth => ~(Len(p.machines[m].rx) < Depth)
  OBVIOUS
<1>4. Satisfied(p, m) => w.type \in {"irq", "pin"}
  BY <1>1, <1>2, <1>3 DEF Satisfied, StallsOnFIFO
<1>5. CASE ~Satisfied(p, m)
  <2>1. checkWait(p, m) = p
    BY <1>5 DEF checkWait
  <2>2. Released(p, p)
    BY <1>1 DEF Released
  <2>3. w.type = "irq" => ((w.index \in p.irq) # w.polarity)
    BY <1>5 DEF Satisfied
  <2>4. StallsOnFlag(p, m)
    BY <2>3 DEF StallsOnFlag
  <2> QED BY <2>1, <2>2, <2>4 DEF Looked
<1>6. CASE Satisfied(p, m)
  <2> DEFINE r == completed(p, m)
             s == [r EXCEPT !.machines[m].wait = Running]
             gone == IF w.type = "irq" THEN {w.index} ELSE {}
  <2>1. r = [p EXCEPT !.irq = @ \ gone]
    <3>1. CASE w.type = "irq"
      BY <1>1, <3>1 DEF completed, Block
    <3>2. CASE w.type = "pin"
      BY <1>1, <3>2 DEF completed, Block
    <3> QED BY <1>4, <1>6, <3>1, <3>2
  <2>2. /\ r \in Block /\ r.machines = p.machines /\ r.irq = p.irq \ gone
        /\ r.txStall = p.txStall /\ r.rxStall = p.rxStall
        /\ r.fdebug = p.fdebug /\ r.inte = p.inte /\ r.line = p.line
        /\ r.dreqTx = p.dreqTx /\ r.dreqRx = p.dreqRx /\ r.pin = p.pin
    BY <1>1, <2>1 DEF Block
  <2>3. Sets(r, s, m, [p.machines[m] EXCEPT !.wait = Running])
    BY <1>1, <2>2, WaitsMade, ZenonT(30) DEF Sets, Block, Channel
  <2>4. PICK a \in 0 .. 31 : Sets(s, nextPC(s, m), m, [s.machines[m] EXCEPT !.pc = a])
    BY <2>3, NextPCFacts DEF Sets
  <2>5. checkWait(p, m) = nextPC(s, m)
    BY <1>6 DEF checkWait
  <2> DEFINE q == nextPC(s, m)
  <2>6. /\ q \in Block /\ q.irq = p.irq \ gone
        /\ q.txStall = p.txStall /\ q.rxStall = p.rxStall
        /\ q.fdebug = p.fdebug /\ q.inte = p.inte /\ q.line = p.line
        /\ q.dreqTx = p.dreqTx /\ q.dreqRx = p.dreqRx /\ q.pin = p.pin
    BY <2>2, <2>3, <2>4 DEF Sets
  <2>7. \A n \in Machine \ {m} : q.machines[n] = p.machines[n]
    BY <1>1, <2>2, <2>3, <2>4 DEF Sets, Block
  <2> HIDE DEF q, r, s, gone
  <2>8. /\ q.machines[m].wait = Running
        /\ q.machines[m].tx = p.machines[m].tx /\ q.machines[m].rx = p.machines[m].rx
        /\ q.machines[m].osr = p.machines[m].osr /\ q.machines[m].isr = p.machines[m].isr
    <3>1. s.machines[m] = [p.machines[m] EXCEPT !.wait = Running]
      BY <1>1, <2>2, <2>3 DEF Sets, Block
    <3>2. q.machines[m] = [s.machines[m] EXCEPT !.pc = a]
      BY <2>3, <2>4 DEF Sets, Block, q
    <3> QED BY <1>1, <3>1, <3>2 DEF Channel
  <2>9. Released(p, q)
    BY <1>4, <1>6, <2>6, <2>7, <2>8 DEF Released
  <2>10. StallsOnFlag(q, m)
    BY <2>8 DEF StallsOnFlag, Running
  <2>11. ASSUME NEW f \in 0 .. 7, Awaits(p, m, f) PROVE f \in p.irq /\ f \notin q.irq
    <3>1. w.type = "irq" /\ w.polarity = TRUE /\ w.index = f
      BY <2>11 DEF Awaits
    <3>2. f \in p.irq
      BY <1>6, <3>1 DEF Satisfied
    <3> QED BY <2>6, <3>1, <3>2 DEF gone
  <2> QED BY <2>5, <2>7, <2>9, <2>10, <2>11 DEF Looked, q
<1> QED BY <1>5, <1>6

-----------------------------------------------------------------------------
(* Telling the machines in turn. *)

\* The block after each turn, as a function of the machine whose turn it was.
Turns(g, p, S, k) ==
    g = [m \in -1 .. k |->
            IF m = -1 THEN p ELSE IF m \in S THEN checkWait(g[m - 1], m) ELSE g[m - 1]]

LEMMA LeastNumber ==
    ASSUME NEW T \in SUBSET Nat, T # {}
    PROVE  \E n \in T : \A m \in T : n <= m
<1> DEFINE Less == {ss \in Nat \X Nat : ss[1] < ss[2]}
<1>1. IsWellFoundedOn(Less, Nat)
  BY NatLessThanWellFounded DEF OpToRel
<1>2. \A n, m \in Nat : <<m, n>> \notin Less => n <= m
  OBVIOUS
<1> HIDE DEF Less
<1>3. PICK n \in T : \A m \in T : <<m, n>> \notin Less
  BY <1>1, WFMin, Zenon
<1> QED BY <1>2, <1>3

\* The definition of told by recursion defines something.
LEMMA TurnsExist ==
    ASSUME NEW p, NEW S, NEW k \in Nat
    PROVE  \E g : Turns(g, p, S, k - 1)
<1> DEFINE Without == {n \in Nat : ~\E g : Turns(g, p, S, n - 1)}
<1> SUFFICES ASSUME Without # {} PROVE FALSE
  OBVIOUS
<1>1. PICK n \in Without : \A m \in Without : n <= m
  <2>1. Without \in SUBSET Nat
    OBVIOUS
  <2> HIDE DEF Without
  <2> QED BY <2>1, LeastNumber
<1>2. CASE n = 0
  <2>1. Turns([m \in -1 .. -1 |-> p], p, S, -1)
    BY DEF Turns
  <2> QED BY <1>1, <1>2, <2>1
<1>3. CASE n # 0
  <2>1. n - 1 \in Nat /\ n - 1 \notin Without
    BY <1>1, <1>3
  <2>2. PICK g : Turns(g, p, S, n - 2)
    BY <2>1
  <2> DEFINE last == IF n - 1 \in S THEN checkWait(g[n - 2], n - 1) ELSE g[n - 2]
             h == [m \in -1 .. n - 1 |-> IF m = n - 1 THEN last ELSE g[m]]
  <2>3. \A m \in -1 .. n - 1 :
            h[m] = IF m = -1 THEN p ELSE IF m \in S THEN checkWait(h[m - 1], m) ELSE h[m - 1]
    <3> SUFFICES ASSUME NEW m \in -1 .. n - 1
                 PROVE  h[m] = IF m = -1 THEN p
                               ELSE IF m \in S THEN checkWait(h[m - 1], m) ELSE h[m - 1]
      OBVIOUS
    <3>1. CASE m = n - 1
      <4>1. m # -1 /\ m - 1 = n - 2 /\ m - 1 \in -1 .. n - 1 /\ m - 1 # n - 1
        BY <1>1, <1>3, <3>1
      <4>2. h[m] = last /\ h[m - 1] = g[n - 2]
        BY <3>1, <4>1
      <4> HIDE DEF h
      <4> QED BY <3>1, <4>1, <4>2
    <3>2. CASE m # n - 1
      <4>1. m \in -1 .. n - 2
        BY <1>1, <3>2
      <4>2. g[m] = IF m = -1 THEN p ELSE IF m \in S THEN checkWait(g[m - 1], m) ELSE g[m - 1]
        BY <2>2, <4>1 DEF Turns
      <4>3. h[m] = g[m]
        BY <3>2
      <4>4. m # -1 => h[m - 1] = g[m - 1]
        BY <1>1, <4>1
      <4> HIDE DEF h
      <4> QED BY <4>2, <4>3, <4>4
    <3> QED BY <3>1, <3>2
  <2>4. Turns(h, p, S, n - 1)
    <3>1. h = [m \in -1 .. n - 1 |-> h[m]]
      OBVIOUS
    <3> HIDE DEF h
    <3> QED BY <2>3, <3>1 DEF Turns
  <2> QED BY <1>1, <2>4
<1> QED BY <1>2, <1>3

LEMMA ToldTurns ==
    ASSUME NEW p, NEW S
    PROVE  \E g : Turns(g, p, S, N - 1) /\ told(p, S) = g[N - 1]
<1> DEFINE g == CHOOSE h : Turns(h, p, S, N - 1)
<1>1. told(p, S) = g[N - 1]
  BY DEF told, Turns
<1>2. Turns(g, p, S, N - 1)
  BY TurnsExist
<1> QED BY <1>1, <1>2

\* r is what the machines of S among the first k leave of p.
Turned(p, r, S, k) ==
    /\ Released(p, r)
    /\ \A n \in Machine : n >= k \/ n \notin S => r.machines[n] = p.machines[n]
    /\ \A n \in Machine : n < k /\ n \in S => StallsOnFlag(r, n)
    /\ \A f \in 0 .. 7 : \A n \in Machine : Awaits(p, n, f) /\ ~Awaits(r, n, f) => f \notin r.irq
    /\ OneWoken(p, r)

LEMMA Machines == \A n \in Machine : n \in Nat /\ n < N
BY DEF Machine

LEMMA TurnedOnce ==
    ASSUME program \in Programs, NEW p, Consistent(p), NEW S, NEW k \in Machine,
           NEW r, Turned(p, r, S, k)
    PROVE  Turned(p, IF k \in S THEN checkWait(r, k) ELSE r, S, k + 1)
<1>1. CASE k \notin S
  <2>1. \A n \in Machine : n \in S => (n < k + 1 <=> n < k)
    BY <1>1, Machines
  <2>2. \A n \in Machine : n >= k + 1 => n >= k
    BY Machines
  <2> QED BY <1>1, <2>1, <2>2 DEF Turned
<1>2. CASE k \in S
  <2> DEFINE q == checkWait(r, k)
  <2>1. Consistent(r)
    BY ReleasedFacts DEF Turned
  <2>2. Looked(r, q, k)
    BY <2>1, CheckWaitFacts
  <2> HIDE DEF q
  <2>3. Released(p, q)
    BY <2>2, ReleasedAgain DEF Looked, Turned
  <2>4. \A n \in Machine : n >= k + 1 \/ n \notin S => q.machines[n] = p.machines[n]
    BY <1>2, <2>2, Machines DEF Looked, Turned
  <2>5. ASSUME NEW n \in Machine, n < k + 1, n \in S PROVE StallsOnFlag(q, n)
    <3>1. CASE n = k
      BY <2>2, <3>1 DEF Looked
    <3>2. CASE n # k
      <4>1. n < k
        BY <2>5, <3>2, Machines
      <4>2. StallsOnFlag(r, n) /\ q.machines[n] = r.machines[n]
        BY <2>2, <2>5, <3>2, <4>1 DEF Turned, Looked
      <4>3. q.irq \subseteq r.irq
        BY <2>2 DEF Looked, Released
      <4> QED BY <4>2, <4>3 DEF StallsOnFlag
    <3> QED BY <3>1, <3>2
  <2>6. \A n \in Machine \ {k} : \A f \in 0 .. 7 : Awaits(q, n, f) <=> Awaits(r, n, f)
    BY <2>2 DEF Looked, Awaits
  <2>7. \A f \in 0 .. 7 : Awaits(r, k, f) <=> Awaits(p, k, f)
    <3>1. r.machines[k] = p.machines[k]
      BY Machines DEF Turned
    <3> QED BY <3>1 DEF Awaits
  <2>8. \A f \in 0 .. 7 : Awaits(p, k, f) /\ ~Awaits(q, k, f) => f \in r.irq /\ f \notin q.irq
    BY <2>2, <2>7 DEF Looked
  <2>9. \A f \in 0 .. 7 : \A n \in Machine \ {k} :
            Awaits(p, n, f) /\ ~Awaits(q, n, f) => f \notin r.irq /\ f \notin q.irq
    <3>1. q.irq \subseteq r.irq
      BY <2>2 DEF Looked, Released
    <3> QED BY <2>6, <3>1 DEF Turned
  <2>10. OneWoken(p, q)
    <3> SUFFICES ASSUME NEW f \in 0 .. 7, NEW n \in Machine, NEW o \in Machine,
                        Awaits(p, n, f), ~Awaits(q, n, f), Awaits(p, o, f), ~Awaits(q, o, f)
                 PROVE  n = o
      BY DEF OneWoken
    <3>1. CASE n # k /\ o # k
      BY <2>6, <3>1 DEF Turned, OneWoken
    <3>2. CASE n = k /\ o # k
      BY <2>8, <2>9, <3>2
    <3>3. CASE n # k /\ o = k
      BY <2>8, <2>9, <3>3
    <3> QED BY <3>1, <3>2, <3>3
  <2>11. \A f \in 0 .. 7 : \A n \in Machine : Awaits(p, n, f) /\ ~Awaits(q, n, f) => f \notin q.irq
    BY <2>8, <2>9
  <2>12. Turned(p, q, S, k + 1)
    BY <2>3, <2>4, <2>5, <2>10, <2>11 DEF Turned
  <2> QED BY <1>2, <2>12 DEF q
<1> QED BY <1>1, <1>2

LEMMA ToldFacts ==
    ASSUME program \in Programs, NEW p, Consistent(p), NEW S \in SUBSET Machine
    PROVE  LET q == told(p, S)
           IN  /\ Released(p, q) /\ OneWoken(p, q)
               /\ \A n \in S : StallsOnFlag(q, n)
               /\ \A n \in Machine \ S : q.machines[n] = p.machines[n]
<1>1. PICK g : Turns(g, p, S, N - 1) /\ told(p, S) = g[N - 1]
  BY ToldTurns
<1>2. g[-1] = p
  BY <1>1 DEF Turns
<1>3. \A k \in Machine : g[k] = IF k \in S THEN checkWait(g[k - 1], k) ELSE g[k - 1]
  BY <1>1 DEF Turns, Machine
<1> DEFINE Wrong == {k \in Nat : k <= N /\ ~Turned(p, g[k - 1], S, k)}
<1>4. Wrong = {}
  <2> SUFFICES ASSUME Wrong # {} PROVE FALSE
    OBVIOUS
  <2>1. PICK k \in Wrong : \A m \in Wrong : k <= m
    <3>1. Wrong \in SUBSET Nat
      OBVIOUS
    <3> HIDE DEF Wrong
    <3> QED BY <3>1, LeastNumber
  <2>2. CASE k = 0
    <3>1. Released(p, p)
      BY DEF Released, Consistent
    <3>2. Turned(p, p, S, 0)
      BY <3>1 DEF Turned, OneWoken, Machine
    <3> QED BY <1>2, <2>1, <2>2, <3>2
  <2>3. CASE k # 0
    <3>1. k - 1 \in Machine /\ k - 1 \in Nat /\ k - 1 <= N /\ k - 1 \notin Wrong
      BY <2>1, <2>3 DEF Machine
    <3>2. Turned(p, g[k - 1 - 1], S, k - 1)
      BY <3>1
    <3>3. Turned(p, g[k - 1], S, k - 1 + 1)
      BY <1>3, <3>1, <3>2, TurnedOnce
    <3>4. k - 1 + 1 = k
      BY <2>1
    <3> QED BY <2>1, <3>3, <3>4
  <2> QED BY <2>2, <2>3
<1>5. Turned(p, told(p, S), S, N)
  <2>1. N \in Nat /\ N <= N
    OBVIOUS
  <2> QED BY <1>1, <1>4, <2>1
<1>6. \A n \in Machine : n < N
  BY DEF Machine
<1> QED BY <1>5, <1>6 DEF Turned

LEMMA IrqUpdatedFacts ==
    ASSUME program \in Programs, NEW p, Consistent(p)
    PROVE  LET q == irqUpdated(p)
           IN  /\ Sound(q) /\ OneWoken(p, q)
               /\ q.irq \subseteq p.irq
               /\ \A n \in Machine :
                     /\ Still(p, q, n)
                     /\ q.machines[n].wait = p.machines[n].wait \/ q.machines[n].wait = Running
<1> DEFINE r == told(p, Machine)
           q == checkInterrupts(r)
<1>1. /\ Released(p, r) /\ OneWoken(p, r)
      /\ \A n \in Machine : StallsOnFlag(r, n)
  BY ToldFacts
<1> HIDE DEF r
<1>2. Consistent(r) /\ \A n \in Machine : Still(p, r, n)
  BY <1>1, ReleasedFacts
<1>3. /\ q \in Block /\ q.machines = r.machines
      /\ q.irq = r.irq /\ q.txStall = r.txStall /\ q.rxStall = r.rxStall
      /\ q.fdebug = r.fdebug /\ q.inte = r.inte
      /\ q.dreqTx = r.dreqTx /\ q.dreqRx = r.dreqRx /\ q.pin = r.pin
      /\ LineUp(q)
  BY <1>2, CheckInterruptsFacts DEF Consistent
<1>4. irqUpdated(p) = q
  BY DEF irqUpdated, r
<1> HIDE DEF q
<1>5. Consistent(q)
  BY <1>2, <1>3 DEF Consistent, Bounded, DreqsTrue, StallsOnFIFO
<1>6. \A n \in Machine : StallsOnFlag(q, n)
  BY <1>1, <1>3 DEF StallsOnFlag
<1>7. \A n \in Machine : Still(p, q, n)
  BY <1>2, <1>3, ZenonT(30) DEF Still, Handed
<1>8. OneWoken(p, q)
  <2>1. \A n \in Machine : \A f \in 0 .. 7 : Awaits(q, n, f) <=> Awaits(r, n, f)
    BY <1>3 DEF Awaits
  <2> QED BY <1>1, <2>1 DEF OneWoken
<1>9. q.irq \subseteq p.irq
  BY <1>1, <1>3 DEF Released
<1>10. \A n \in Machine :
          q.machines[n].wait = p.machines[n].wait \/ q.machines[n].wait = Running
  BY <1>1, <1>3 DEF Released
<1> QED BY <1>3, <1>4, <1>5, <1>6, <1>7, <1>8, <1>9, <1>10 DEF Sound

-----------------------------------------------------------------------------
(* Parts of instructions. *)

LEMMA SetsFacts ==
    ASSUME NEW p, Consistent(p), NEW q, NEW m \in Machine, NEW ch \in Channel, Sets(p, q, m, ch),
           ch.tx = p.machines[m].tx, ch.rx = p.machines[m].rx,
           ch.wait = p.machines[m].wait \/ ch.wait.type \in {"none", "irq", "pin"}
    PROVE  /\ Consistent(q) /\ (LineUp(p) => LineUp(q))
           /\ q.machines[m] = ch /\ q.irq = p.irq
           /\ Elsewhere(p, q, m)
<1>1. /\ p.machines \in [Machine -> Channel] /\ q.machines = [p.machines EXCEPT ![m] = ch]
      /\ q \in Block
  BY DEF Consistent, Block, Sets
<1>2. q.machines[m] = ch /\ Elsewhere(p, q, m)
  BY <1>1 DEF Elsewhere
<1>3. Len(ch.tx) <= Depth /\ Len(ch.rx) <= Depth
  BY DEF Consistent, Bounded
<1>4. StallsOnFIFO(q, m)
  <2>1. StallsOnFIFO(p, m)
    BY DEF Consistent
  <2> QED BY <1>2, <2>1 DEF StallsOnFIFO, Sets
<1>5. Consistent(q)
  BY <1>1, <1>3, <1>4, ConsistentPut DEF Sets
<1>6. LineUp(p) => LineUp(q)
  BY <1>5, LineKept DEF Consistent, Sets
<1> QED BY <1>2, <1>5, <1>6 DEF Sets

LEMMA WaitSets ==
    ASSUME NEW p \in Block, NEW m \in Machine, NEW type, NEW polarity, NEW index,
           [type |-> type, polarity |-> polarity, index |-> index] \in Waits
    PROVE  LET ch == [p.machines[m] EXCEPT
                        !.wait = [type |-> type, polarity |-> polarity, index |-> index]]
           IN  ch \in Channel /\ Sets(p, wait(p, m, type, polarity, index), m, ch)
<1> DEFINE w == [type |-> type, polarity |-> polarity, index |-> index]
           ch == [p.machines[m] EXCEPT !.wait = w]
<1>1. wait(p, m, type, polarity, index) = [p EXCEPT !.machines[m].wait = w]
  BY DEF wait
<1>2. w \in Waits
  OBVIOUS
<1> HIDE DEF w
<1>3. ch \in Channel
  <2>1. p.machines[m] \in Channel
    BY DEF Block
  <2> QED BY <1>2, <2>1 DEF Channel
<1>4. [p EXCEPT !.machines[m].wait = w] = [p EXCEPT !.machines[m] = ch]
  BY DEF Block
<1> HIDE DEF ch
<1>5. Sets(p, wait(p, m, type, polarity, index), m, ch)
  BY <1>1, <1>3, <1>4, SetsChannel
<1> QED BY <1>3, <1>5 DEF ch, w

LEMMA RxStallsFacts ==
    ASSUME NEW p, Consistent(p), NEW m \in Machine
    PROVE  LET q == rxStalls(p, m)
           IN  /\ Consistent(q) /\ (LineUp(p) => LineUp(q))
               /\ q.machines = p.machines /\ q.irq = p.irq
               /\ m \in q.rxStall /\ <<"rx", m>> \in q.fdebug
<1> DEFINE q == rxStalls(p, m)
           stalled == p.rxStall \cup {m}
           shown == p.fdebug \cup {<<"rx", n>> : n \in stalled}
<1>1. p \in Block /\ stalled \in SUBSET Machine /\ shown \in SUBSET ({"tx", "rx"} \X Machine)
  BY DEF Consistent, Block
<1>2. q = [p EXCEPT !.rxStall = stalled, !.fdebug = shown]
  BY <1>1 DEF rxStalls, Block
<1>3. m \in stalled /\ <<"rx", m>> \in shown /\ p.rxStall \subseteq stalled /\ p.fdebug \subseteq shown
  OBVIOUS
<1> HIDE DEF q, stalled, shown
<1>4. /\ q \in Block /\ q.machines = p.machines /\ q.irq = p.irq
      /\ q.txStall = p.txStall /\ q.rxStall = stalled /\ q.fdebug = shown
      /\ q.inte = p.inte /\ q.line = p.line
      /\ q.dreqTx = p.dreqTx /\ q.dreqRx = p.dreqRx /\ q.pin = p.pin
  BY <1>1, <1>2 DEF Block
<1>5. Consistent(q)
  BY <1>4, <1>3 DEF Consistent, Bounded, DreqsTrue, StallsOnFIFO
<1>6. LineUp(p) => LineUp(q)
  BY <1>4, <1>5, LineKept DEF Consistent
<1> QED BY <1>4, <1>5, <1>6, <1>3 DEF q

LEMMA TxStallsFacts ==
    ASSUME NEW p, Consistent(p), NEW m \in Machine
    PROVE  LET q == txStalls(p, m)
           IN  /\ Consistent(q) /\ (LineUp(p) => LineUp(q))
               /\ q.machines = p.machines /\ q.irq = p.irq
               /\ m \in q.txStall /\ <<"tx", m>> \in q.fdebug
<1> DEFINE q == txStalls(p, m)
           stalled == p.txStall \cup {m}
           shown == p.fdebug \cup {<<"tx", n>> : n \in stalled}
<1>1. p \in Block /\ stalled \in SUBSET Machine /\ shown \in SUBSET ({"tx", "rx"} \X Machine)
  BY DEF Consistent, Block
<1>2. q = [p EXCEPT !.txStall = stalled, !.fdebug = shown]
  BY <1>1 DEF txStalls, Block
<1>3. m \in stalled /\ <<"tx", m>> \in shown /\ p.txStall \subseteq stalled /\ p.fdebug \subseteq shown
  OBVIOUS
<1> HIDE DEF q, stalled, shown
<1>4. /\ q \in Block /\ q.machines = p.machines /\ q.irq = p.irq
      /\ q.rxStall = p.rxStall /\ q.txStall = stalled /\ q.fdebug = shown
      /\ q.inte = p.inte /\ q.line = p.line
      /\ q.dreqTx = p.dreqTx /\ q.dreqRx = p.dreqRx /\ q.pin = p.pin
  BY <1>1, <1>2 DEF Block
<1>5. Consistent(q)
  BY <1>4, <1>3 DEF Consistent, Bounded, DreqsTrue, StallsOnFIFO
<1>6. LineUp(p) => LineUp(q)
  BY <1>4, <1>5, LineKept DEF Consistent
<1> QED BY <1>4, <1>5, <1>6, <1>3 DEF q

\* What a step of machine m leaves alone.
Sides(p, q, m) ==
    /\ q \in Block /\ Elsewhere(p, q, m)
    /\ q.irq = p.irq /\ q.txStall = p.txStall /\ q.rxStall = p.rxStall
    /\ q.fdebug = p.fdebug /\ q.inte = p.inte /\ q.pin = p.pin

LEMMA ConsistentElsewhere ==
    ASSUME NEW p, Consistent(p), NEW q \in Block, NEW m \in Machine, Elsewhere(p, q, m),
           Len(q.machines[m].tx) <= Depth, Len(q.machines[m].rx) <= Depth,
           p.txStall \ {m} \subseteq q.txStall, p.rxStall \ {m} \subseteq q.rxStall,
           p.fdebug \subseteq q.fdebug,
           \/ q.machines[m].tx = p.machines[m].tx /\ q.dreqTx = p.dreqTx
           \/ q.dreqTx = IF Len(q.machines[m].tx) = Depth THEN p.dreqTx \ {m}
                         ELSE p.dreqTx \cup {m},
           \/ q.machines[m].rx = p.machines[m].rx /\ q.dreqRx = p.dreqRx
           \/ q.dreqRx = IF q.machines[m].rx = <<>> THEN p.dreqRx \ {m} ELSE p.dreqRx \cup {m},
           StallsOnFIFO(q, m)
    PROVE  Consistent(q)
<1> DEFINE ch == q.machines[m]
<1>1. ch \in Channel /\ q.machines = [p.machines EXCEPT ![m] = ch]
  BY DEF Consistent, Block, Elsewhere
<1> QED BY <1>1, ConsistentPut

\* A word is moved from the FIFO to OSR.
Pulled(p, q, m) ==
    /\ Sides(p, q, m) /\ LineUp(q)
    /\ q.machines[m].osr = Head(p.machines[m].tx) /\ q.machines[m].tx = Tail(p.machines[m].tx)
    /\ q.machines[m].isr = p.machines[m].isr /\ q.machines[m].rx = p.machines[m].rx
    /\ q.machines[m].wait = p.machines[m].wait
    /\ Len(q.machines[m].tx) = Len(p.machines[m].tx) - 1
    /\ q.dreqTx = IF Len(q.machines[m].tx) = Depth THEN p.dreqTx \ {m} ELSE p.dreqTx \cup {m}
    /\ q.dreqRx = p.dreqRx

LEMMA PullWordPulls ==
    ASSUME NEW p \in Block, NEW m \in Machine, p.machines[m].tx # <<>>
    PROVE  Pulled(p, pullWord(p, m), m)
<1> DEFINE tx == p.machines[m].tx
           ch == [p.machines[m] EXCEPT !.osr = Head(p.machines[m].tx), !.tx = Tail(@)]
           r == [p EXCEPT !.machines[m].osr = Head(p.machines[m].tx), !.machines[m].tx = Tail(@)]
           s == updateDMATx(r, m)
           q == checkInterrupts(s)
<1>1. p.machines[m] \in Channel /\ tx \in Seq(Word) /\ tx # <<>>
  BY DEF Block, Channel
<1>2. Head(tx) \in Word /\ Tail(tx) \in Seq(Word) /\ Len(Tail(tx)) = Len(tx) - 1
  BY <1>1
<1>3. ch \in Channel
  BY <1>1, <1>2 DEF Channel
<1>4. r = [p EXCEPT !.machines[m] = ch]
  BY <1>1 DEF Block
<1>5. Sets(p, r, m, ch)
  BY <1>1, <1>3, <1>4, SetsChannel
<1>6. pullWord(p, m) = q
  BY DEF pullWord
<1>7. /\ ch.tx = Tail(tx) /\ ch.rx = p.machines[m].rx /\ ch.wait = p.machines[m].wait
      /\ ch.osr = Head(tx) /\ ch.isr = p.machines[m].isr
  BY <1>1 DEF Channel
<1> HIDE DEF ch, r
<1>8. r.machines[m] = ch /\ Elsewhere(p, r, m)
  BY <1>1, <1>5 DEF Sets, Block, Elsewhere
<1>9. /\ s \in Block /\ s.machines = r.machines
      /\ s.irq = r.irq /\ s.txStall = r.txStall /\ s.rxStall = r.rxStall
      /\ s.fdebug = r.fdebug /\ s.inte = r.inte
      /\ s.dreqTx = (IF Len(ch.tx) = Depth THEN r.dreqTx \ {m} ELSE r.dreqTx \cup {m})
      /\ s.dreqRx = r.dreqRx /\ s.pin = r.pin
  BY <1>5, <1>8 DEF updateDMATx, Sets, Block
<1> HIDE DEF s
<1>10. /\ q \in Block /\ q.machines = s.machines
       /\ q.irq = s.irq /\ q.txStall = s.txStall /\ q.rxStall = s.rxStall
       /\ q.fdebug = s.fdebug /\ q.inte = s.inte
       /\ q.dreqTx = s.dreqTx /\ q.dreqRx = s.dreqRx /\ q.pin = s.pin /\ LineUp(q)
  BY <1>9, CheckInterruptsFacts
<1> HIDE DEF q
<1>11. q.machines[m] = ch /\ Elsewhere(p, q, m)
  BY <1>8, <1>9, <1>10 DEF Elsewhere
<1>12. Sides(p, q, m)
  BY <1>5, <1>9, <1>10, <1>11 DEF Sides, Sets
<1>13. q.dreqRx = p.dreqRx
       /\ q.dreqTx = IF Len(ch.tx) = Depth THEN p.dreqTx \ {m} ELSE p.dreqTx \cup {m}
  BY <1>5, <1>9, <1>10 DEF Sets
<1> QED BY <1>2, <1>6, <1>7, <1>10, <1>11, <1>12, <1>13 DEF Pulled

LEMMA PullWordFacts ==
    ASSUME NEW p, Consistent(p), NEW m \in Machine, p.machines[m].tx # <<>>
    PROVE  LET q == pullWord(p, m)
           IN  /\ Consistent(q) /\ LineUp(q) /\ q.irq = p.irq /\ Elsewhere(p, q, m)
               /\ q.machines[m].osr = Head(p.machines[m].tx)
               /\ q.machines[m].tx = Tail(p.machines[m].tx)
               /\ q.machines[m].isr = p.machines[m].isr /\ q.machines[m].rx = p.machines[m].rx
               /\ q.machines[m].wait = p.machines[m].wait
<1> DEFINE q == pullWord(p, m)
<1>1. /\ p \in Block /\ StallsOnFIFO(p, m)
      /\ Len(p.machines[m].tx) \in Nat
      /\ Len(p.machines[m].tx) <= Depth /\ Len(p.machines[m].rx) <= Depth
  BY SMTT(20) DEF Consistent, Bounded, Block, Channel
<1>2. Pulled(p, q, m)
  BY <1>1, PullWordPulls
<1> HIDE DEF q
<1>3. StallsOnFIFO(q, m)
  BY <1>1, <1>2 DEF StallsOnFIFO, Pulled, Sides
<1>4. Len(q.machines[m].tx) <= Depth /\ Len(q.machines[m].rx) <= Depth
  BY <1>1, <1>2 DEF Pulled
<1>5. Consistent(q)
  BY <1>2, <1>3, <1>4, ConsistentElsewhere DEF Pulled, Sides
<1> QED BY <1>2, <1>5 DEF Pulled, Sides, q

\* A word is moved to the FIFO that firmware reads.
Pushed(p, q, m, w) ==
    /\ Sides(p, q, m) /\ LineUp(q)
    /\ q.machines[m].rx = Append(p.machines[m].rx, w)
    /\ q.machines[m].tx = p.machines[m].tx /\ q.machines[m].osr = p.machines[m].osr
    /\ q.machines[m].isr = p.machines[m].isr /\ q.machines[m].wait = p.machines[m].wait
    /\ Len(q.machines[m].rx) = Len(p.machines[m].rx) + 1
    /\ q.dreqRx = IF q.machines[m].rx = <<>> THEN p.dreqRx \ {m} ELSE p.dreqRx \cup {m}
    /\ q.dreqTx = p.dreqTx

LEMMA PushWordPushes ==
    ASSUME NEW p \in Block, NEW m \in Machine, NEW w \in Word
    PROVE  Pushed(p, pushWord(p, m, w), m, w)
<1> DEFINE rx == p.machines[m].rx
           ch == [p.machines[m] EXCEPT !.rx = Append(@, w)]
           r == [p EXCEPT !.machines[m].rx = Append(@, w)]
           s == updateDMARx(r, m)
           q == checkInterrupts(s)
<1>1. p.machines[m] \in Channel /\ rx \in Seq(Word)
  BY DEF Block, Channel
<1>2. /\ Append(rx, w) \in Seq(Word) /\ Len(Append(rx, w)) = Len(rx) + 1
  BY <1>1, AppendProperties
<1>3. ch \in Channel
  BY <1>1, <1>2 DEF Channel
<1>4. r = [p EXCEPT !.machines[m] = ch]
  BY <1>1 DEF Block
<1>5. Sets(p, r, m, ch)
  BY <1>1, <1>3, <1>4, SetsChannel
<1>6. pushWord(p, m, w) = q
  BY DEF pushWord
<1>7. /\ ch.rx = Append(rx, w) /\ ch.tx = p.machines[m].tx /\ ch.wait = p.machines[m].wait
      /\ ch.osr = p.machines[m].osr /\ ch.isr = p.machines[m].isr
  BY <1>1 DEF Channel
<1> HIDE DEF ch, r
<1>8. r.machines[m] = ch /\ Elsewhere(p, r, m)
  BY <1>1, <1>5 DEF Sets, Block, Elsewhere
<1>9. /\ s \in Block /\ s.machines = r.machines
      /\ s.irq = r.irq /\ s.txStall = r.txStall /\ s.rxStall = r.rxStall
      /\ s.fdebug = r.fdebug /\ s.inte = r.inte
      /\ s.dreqRx = (IF ch.rx = <<>> THEN r.dreqRx \ {m} ELSE r.dreqRx \cup {m})
      /\ s.dreqTx = r.dreqTx /\ s.pin = r.pin
  BY <1>5, <1>8 DEF updateDMARx, Sets, Block
<1> HIDE DEF s
<1>10. /\ q \in Block /\ q.machines = s.machines
       /\ q.irq = s.irq /\ q.txStall = s.txStall /\ q.rxStall = s.rxStall
       /\ q.fdebug = s.fdebug /\ q.inte = s.inte
       /\ q.dreqTx = s.dreqTx /\ q.dreqRx = s.dreqRx /\ q.pin = s.pin /\ LineUp(q)
  BY <1>9, CheckInterruptsFacts
<1> HIDE DEF q
<1>11. q.machines[m] = ch /\ Elsewhere(p, q, m)
  BY <1>8, <1>9, <1>10 DEF Elsewhere
<1>12. Sides(p, q, m)
  BY <1>5, <1>9, <1>10, <1>11 DEF Sides, Sets
<1>13. q.dreqTx = p.dreqTx
       /\ q.dreqRx = IF ch.rx = <<>> THEN p.dreqRx \ {m} ELSE p.dreqRx \cup {m}
  BY <1>5, <1>9, <1>10 DEF Sets
<1> QED BY <1>2, <1>6, <1>7, <1>10, <1>11, <1>12, <1>13 DEF Pushed

LEMMA PushWordFacts ==
    ASSUME NEW p, Consistent(p), NEW m \in Machine, Len(p.machines[m].rx) < Depth, NEW w \in Word
    PROVE  LET q == pushWord(p, m, w)
           IN  /\ Consistent(q) /\ LineUp(q) /\ q.irq = p.irq /\ Elsewhere(p, q, m)
               /\ q.machines[m].rx = Append(p.machines[m].rx, w)
               /\ q.machines[m].tx = p.machines[m].tx /\ q.machines[m].osr = p.machines[m].osr
               /\ q.machines[m].wait = p.machines[m].wait
<1> DEFINE q == pushWord(p, m, w)
<1>1. /\ p \in Block /\ StallsOnFIFO(p, m)
      /\ Len(p.machines[m].rx) \in Nat /\ Len(p.machines[m].tx) <= Depth
  BY SMTT(20) DEF Consistent, Bounded, Block, Channel
<1>2. Pushed(p, q, m, w)
  BY <1>1, PushWordPushes
<1> HIDE DEF q
<1>3. StallsOnFIFO(q, m)
  BY <1>1, <1>2 DEF StallsOnFIFO, Pushed, Sides
<1>4. Len(q.machines[m].tx) <= Depth /\ Len(q.machines[m].rx) <= Depth
  BY <1>1, <1>2 DEF Pushed
<1>5. Consistent(q)
  BY <1>2, <1>3, <1>4, ConsistentElsewhere DEF Pushed, Sides
<1> QED BY <1>2, <1>5 DEF Pushed, Sides, q

-----------------------------------------------------------------------------
(* Instructions, of a machine that runs or that may not stall. *)

\* What machine m's instruction makes of a block: the others go on, what m waits for
\* is still to come if it waited before, and one of its words may have moved.
Executed(p, q, m) ==
    /\ Consistent(q) /\ LineUp(q)
    /\ \A n \in Machine \ {m} : StallsOnFlag(q, n) /\ Still(p, q, n)
    /\ p.machines[m].wait = Running \/ StallsOnFlag(q, m)
    /\ Moves(p, q, m)
    /\ OneWoken(p, q)

\* An instruction that concerns machine m alone.
LEMMA OwnInstruction ==
    ASSUME NEW p, Sound(p), NEW q, Consistent(q), LineUp(q), q.irq = p.irq, NEW m \in Machine,
           Elsewhere(p, q, m),
           Moves(p, q, m),
           p.machines[m].wait = Running \/ q.machines[m].wait = p.machines[m].wait
    PROVE  Executed(p, q, m)
<1>1. \A n \in Machine \ {m} : StallsOnFlag(q, n)
  BY DEF Sound, StallsOnFlag, Elsewhere
<1>2. \A n \in Machine \ {m} : Still(p, q, n)
  BY DEF Still, Handed, Elsewhere
<1>3. p.machines[m].wait = Running \/ StallsOnFlag(q, m)
  BY DEF Sound, StallsOnFlag
<1>4. \A n \in Machine \ {m} : \A f \in 0 .. 7 : Awaits(q, n, f) <=> Awaits(p, n, f)
  BY DEF Awaits, Elsewhere
<1>5. OneWoken(p, q)
  BY <1>4 DEF OneWoken
<1> QED BY <1>1, <1>2, <1>3, <1>5 DEF Executed

LEMMA HandedFacts ==
    ASSUME NEW p, Consistent(p), NEW m \in Machine
    PROVE  /\ p.machines[m].wait.type # "rx" =>
                /\ Handed(p, m) = p.machines[m].rx
                /\ Len(Handed(p, m)) = Len(p.machines[m].rx)
           /\ p.machines[m].wait.type = "rx" =>
                /\ Handed(p, m) = Append(p.machines[m].rx, p.machines[m].wait.index)
                /\ Len(p.machines[m].rx) = Depth
                /\ Len(Handed(p, m)) = Depth + 1
<1>1. p.machines[m] \in Channel /\ p.machines[m].rx \in Seq(Word) /\ p.machines[m].wait \in Waits
  BY DEF Consistent, Block, Channel
<1>2. CASE p.machines[m].wait.type # "rx"
  BY <1>1, <1>2, ConcatEmptySeq DEF Handed
<1>3. CASE p.machines[m].wait.type = "rx"
  <2> DEFINE w == p.machines[m].wait.index
  <2>1. w \in Word
    BY <1>1, <1>3, WaitTypes
  <2>2. Handed(p, m) = p.machines[m].rx \o <<w>>
    BY <1>3 DEF Handed
  <2> HIDE DEF w
  <2>3. p.machines[m].rx \o <<w>> = Append(p.machines[m].rx, w)
    BY <1>1, <2>1, SMTT(20)
  <2>4. Len(p.machines[m].rx) = Depth
    BY <1>3 DEF Consistent, StallsOnFIFO
  <2>5. Len(Append(p.machines[m].rx, w)) = Len(p.machines[m].rx) + 1
    BY <1>1, <2>1
  <2> QED BY <1>3, <2>2, <2>3, <2>4, <2>5 DEF w
<1> QED BY <1>2, <1>3

LEMMA ISREmptied ==
    ASSUME NEW p, Consistent(p), LineUp(p), NEW m \in Machine
    PROVE  LET q == [p EXCEPT !.machines[m].isr = 0, !.machines[m].isrCount = 0]
           IN  /\ Consistent(q) /\ LineUp(q) /\ q.irq = p.irq
               /\ Elsewhere(p, q, m)
               /\ q.machines[m].isr = 0
               /\ q.machines[m].tx = p.machines[m].tx /\ q.machines[m].osr = p.machines[m].osr
               /\ q.machines[m].rx = p.machines[m].rx /\ q.machines[m].wait = p.machines[m].wait
<1> DEFINE q == [p EXCEPT !.machines[m].isr = 0, !.machines[m].isrCount = 0]
<1>1. p \in Block /\ p.machines[m] \in Channel
  BY DEF Consistent, Block
<1>2. PICK ch \in Channel : ch = [p.machines[m] EXCEPT !.isr = 0, !.isrCount = 0]
  <2>1. 0 \in Word /\ 0 \in 0 .. Full
    OBVIOUS
  <2> QED BY <1>1, <2>1 DEF Channel
<1>3. /\ ch.isr = 0 /\ ch.tx = p.machines[m].tx /\ ch.osr = p.machines[m].osr
      /\ ch.rx = p.machines[m].rx /\ ch.wait = p.machines[m].wait
  BY <1>1, <1>2 DEF Channel
<1>4. q = [p EXCEPT !.machines[m] = ch]
  BY <1>1, <1>2 DEF Block
<1> HIDE DEF q
<1>5. Sets(p, q, m, ch)
  BY <1>1, <1>4, SetsChannel
<1>6. /\ Consistent(q) /\ (LineUp(p) => LineUp(q)) /\ q.machines[m] = ch /\ q.irq = p.irq
      /\ Elsewhere(p, q, m)
  BY <1>3, <1>5, SetsFacts
<1> QED BY <1>3, <1>6 DEF q

\* PUSH hands over ISR, or loses it only where it may.
LEMMA PushFacts ==
    ASSUME NEW p, Sound(p), NEW m \in Machine, NEW block \in BOOLEAN,
           p.machines[m].wait = Running \/ block = FALSE
    PROVE  LET q == push(p, m, block)
           IN  /\ Consistent(q) /\ LineUp(q) /\ q.irq = p.irq
               /\ Elsewhere(p, q, m)
               /\ q.machines[m].isr = 0
               /\ q.machines[m].tx = p.machines[m].tx /\ q.machines[m].osr = p.machines[m].osr
               /\ \/ Len(Handed(p, m)) >= Depth /\ Handed(q, m) = Handed(p, m)
                  \/ /\ Len(Handed(p, m)) <= Depth
                     /\ Handed(q, m) = Append(Handed(p, m), p.machines[m].isr)
               /\ p.machines[m].wait = Running \/ q.machines[m].wait = p.machines[m].wait
<1> DEFINE ch == p.machines[m]
           word == ch.isr
           s == IF Len(ch.rx) < Depth THEN pushWord(p, m, word)
                ELSE IF block THEN wait(rxStalls(p, m), m, "rx", FALSE, word)
                ELSE rxStalls(p, m)
           q == [s EXCEPT !.machines[m].isr = 0, !.machines[m].isrCount = 0]
<1>1. /\ Consistent(p) /\ LineUp(p) /\ p \in Block /\ ch \in Channel /\ word \in Word
      /\ ch.rx \in Seq(Word) /\ Len(ch.rx) \in Nat /\ Len(ch.rx) <= Depth
      /\ p.machines \in [Machine -> Channel]
  <2>1. Consistent(p) /\ LineUp(p) /\ p \in Block
    BY DEF Sound, Consistent
  <2>2. p.machines \in [Machine -> Channel] /\ ch \in Channel
    BY <2>1 DEF Block
  <2>3. Len(ch.rx) <= Depth
    BY <2>1 DEF Consistent, Bounded
  <2> HIDE DEF ch
  <2>4. word \in Word /\ ch.rx \in Seq(Word)
    BY <2>2 DEF Channel
  <2> QED BY <2>1, <2>2, <2>3, <2>4
<1>2. push(p, m, block) = q
  BY DEF push
<1> HIDE DEF ch, q
\* What is left to do once the word is handed over, put aside or lost.
<1>3. ASSUME Consistent(s), LineUp(s), s.irq = p.irq, Elsewhere(p, s, m),
             s.machines[m].tx = ch.tx, s.machines[m].osr = ch.osr,
             ch.wait = Running \/ s.machines[m].wait = ch.wait
      PROVE  /\ Consistent(q) /\ LineUp(q) /\ q.irq = p.irq
             /\ Elsewhere(p, q, m)
             /\ q.machines[m].isr = 0
             /\ q.machines[m].tx = ch.tx /\ q.machines[m].osr = ch.osr
             /\ ch.wait = Running \/ q.machines[m].wait = ch.wait
             /\ q.machines[m].rx = s.machines[m].rx /\ q.machines[m].wait = s.machines[m].wait
  <2> HIDE DEF s
  <2>1. /\ Consistent(q) /\ LineUp(q) /\ q.irq = s.irq
        /\ Elsewhere(s, q, m)
        /\ q.machines[m].isr = 0
        /\ q.machines[m].tx = s.machines[m].tx /\ q.machines[m].osr = s.machines[m].osr
        /\ q.machines[m].rx = s.machines[m].rx /\ q.machines[m].wait = s.machines[m].wait
    BY <1>3, ISREmptied DEF q
  <2>2. Elsewhere(p, q, m)
    BY <1>3, <2>1 DEF Elsewhere
  <2> QED BY <1>3, <2>1, <2>2
<1>4. CASE Len(ch.rx) < Depth
  <2>1. s = pushWord(p, m, word)
    BY <1>4
  <2>2. /\ Consistent(s) /\ LineUp(s) /\ s.irq = p.irq /\ Elsewhere(p, s, m)
        /\ s.machines[m].rx = Append(ch.rx, word) /\ s.machines[m].wait = ch.wait
        /\ s.machines[m].tx = ch.tx /\ s.machines[m].osr = ch.osr
    BY <1>1, <1>4, <2>1, PushWordFacts, SMTT(20) DEF ch
  <2>3. /\ Consistent(q) /\ LineUp(q) /\ q.irq = p.irq /\ Elsewhere(p, q, m)
        /\ q.machines[m].isr = 0
        /\ q.machines[m].tx = ch.tx /\ q.machines[m].osr = ch.osr
        /\ q.machines[m].rx = Append(ch.rx, word) /\ q.machines[m].wait = ch.wait
    BY <1>3, <2>2
  <2>4. ch.wait.type # "rx"
    BY <1>1, <1>4, HandedFacts DEF ch
  <2>5. Handed(p, m) = ch.rx /\ Handed(q, m) = Append(ch.rx, word)
    BY <1>1, <2>3, <2>4, HandedFacts, SMTT(20) DEF ch
  <2> QED BY <1>1, <1>2, <2>3, <2>5 DEF ch
<1>5. CASE ~(Len(ch.rx) < Depth) /\ block = TRUE
  <2> DEFINE r == rxStalls(p, m)
             w == [type |-> "rx", polarity |-> FALSE, index |-> word]
             sh == [r.machines[m] EXCEPT !.wait = w]
  <2>1. /\ Consistent(r) /\ LineUp(r) /\ r.machines = p.machines /\ r.irq = p.irq
        /\ m \in r.rxStall /\ <<"rx", m>> \in r.fdebug
    BY <1>1, RxStallsFacts
  <2>2. w \in Waits
    BY <1>1, WaitsMade
  <2>3. s = wait(r, m, "rx", FALSE, word)
    BY <1>5
  <2> HIDE DEF r, s
  <2>4. sh \in Channel /\ Sets(r, s, m, sh)
    BY <2>1, <2>2, <2>3, WaitSets DEF Consistent
  <2>5. /\ sh.tx = ch.tx /\ sh.osr = ch.osr /\ sh.rx = ch.rx /\ sh.wait.type = "rx"
        /\ sh.wait.index = word
    BY <1>1, <2>1 DEF Channel, ch
  <2> HIDE DEF sh, w
  <2>6. s.machines[m] = sh /\ Elsewhere(p, s, m)
    <3>1. s.machines = [p.machines EXCEPT ![m] = sh]
      BY <2>1, <2>4 DEF Sets
    <3> QED BY <1>1, <3>1 DEF Elsewhere
  <2>7. Len(ch.rx) = Depth
    BY <1>1, <1>5
  <2>8. StallsOnFIFO(s, m)
    BY <2>1, <2>4, <2>5, <2>6, <2>7 DEF StallsOnFIFO, Sets
  <2>9. Len(sh.tx) <= Depth /\ Len(sh.rx) <= Depth
    BY <1>1, <2>5 DEF Consistent, Bounded, ch
  <2>10. Consistent(s)
    BY <2>1, <2>4, <2>5, <2>8, <2>9, ConsistentPut DEF Sets, ch
  <2>11. LineUp(s)
    BY <2>1, <2>4, <2>10, LineKept DEF Sets, Consistent
  <2>12. ch.wait = Running /\ s.irq = p.irq
    BY <1>5, <2>1, <2>4 DEF ch, Sets
  <2>13. /\ Consistent(q) /\ LineUp(q) /\ q.irq = p.irq /\ Elsewhere(p, q, m)
         /\ q.machines[m].isr = 0
         /\ q.machines[m].tx = ch.tx /\ q.machines[m].osr = ch.osr
         /\ q.machines[m].rx = ch.rx
         /\ q.machines[m].wait.type = "rx" /\ q.machines[m].wait.index = word
    BY <1>3, <2>5, <2>6, <2>10, <2>11, <2>12
  <2>14. Handed(p, m) = ch.rx /\ Len(Handed(p, m)) = Depth
    BY <1>1, <2>7, <2>12, HandedFacts DEF ch, Running
  <2>15. Handed(q, m) = Append(ch.rx, word)
    BY <2>13, HandedFacts
  <2> QED BY <1>2, <2>12, <2>13, <2>14, <2>15 DEF ch
<1>6. CASE ~(Len(ch.rx) < Depth) /\ block = FALSE
  <2>1. s = rxStalls(p, m)
    BY <1>6
  <2>2. Consistent(s) /\ LineUp(s) /\ s.machines = p.machines /\ s.irq = p.irq
    BY <1>1, <2>1, RxStallsFacts, ZenonT(30)
  <2>3. Elsewhere(p, s, m)
    BY <2>2 DEF Elsewhere
  <2>4. /\ Consistent(q) /\ LineUp(q) /\ q.irq = p.irq /\ Elsewhere(p, q, m)
        /\ q.machines[m].isr = 0
        /\ q.machines[m].tx = ch.tx /\ q.machines[m].osr = ch.osr
        /\ q.machines[m].rx = ch.rx /\ q.machines[m].wait = ch.wait
    BY <1>3, <2>2, <2>3 DEF ch
  <2>5. Handed(q, m) = Handed(p, m)
    BY <2>4 DEF Handed, ch
  <2>6. Len(Handed(p, m)) >= Depth
    BY <1>1, <1>6, HandedFacts DEF ch
  <2> QED BY <1>2, <2>4, <2>5, <2>6 DEF ch
<1> QED BY <1>4, <1>5, <1>6

-----------------------------------------------------------------------------
(* What instructions do beside moving a word. *)

\* q is p but for machine m's program counter, delay and shift counts.
Idles(p, q, m) ==
    /\ Consistent(q) /\ LineUp(q) /\ q.irq = p.irq /\ Elsewhere(p, q, m)
    /\ q.machines[m].tx = p.machines[m].tx /\ q.machines[m].rx = p.machines[m].rx
    /\ q.machines[m].osr = p.machines[m].osr /\ q.machines[m].isr = p.machines[m].isr
    /\ q.machines[m].wait = p.machines[m].wait

LEMMA IdleChannel ==
    ASSUME NEW p, Consistent(p), LineUp(p), NEW m \in Machine, NEW ch \in Channel,
           ch.tx = p.machines[m].tx, ch.rx = p.machines[m].rx, ch.wait = p.machines[m].wait
    PROVE  LET q == [p EXCEPT !.machines[m] = ch]
           IN  /\ Consistent(q) /\ LineUp(q) /\ q.irq = p.irq /\ Elsewhere(p, q, m)
               /\ q.machines[m] = ch
<1> DEFINE q == [p EXCEPT !.machines[m] = ch]
<1>1. Sets(p, q, m, ch)
  BY SetsChannel DEF Consistent
<1> HIDE DEF q
<1>2. /\ Consistent(q) /\ (LineUp(p) => LineUp(q)) /\ q.machines[m] = ch /\ q.irq = p.irq
      /\ Elsewhere(p, q, m)
  BY <1>1, SetsFacts
<1> QED BY <1>2 DEF q

LEMMA DelayIdles ==
    ASSUME NEW p, Consistent(p), LineUp(p), NEW m \in Machine, NEW d \in Nat
    PROVE  Idles(p, [p EXCEPT !.machines[m].delay = d], m)
<1>1. p \in Block /\ p.machines[m] \in Channel
  BY DEF Consistent, Block
<1>2. PICK ch \in Channel : ch = [p.machines[m] EXCEPT !.delay = d]
  BY <1>1 DEF Channel
<1>3. /\ ch.tx = p.machines[m].tx /\ ch.rx = p.machines[m].rx
      /\ ch.osr = p.machines[m].osr /\ ch.isr = p.machines[m].isr
      /\ ch.wait = p.machines[m].wait
  BY <1>1, <1>2 DEF Channel
<1>4. [p EXCEPT !.machines[m].delay = d] = [p EXCEPT !.machines[m] = ch]
  BY <1>1, <1>2 DEF Block
<1> QED BY <1>3, <1>4, IdleChannel DEF Idles

LEMMA OsrCountIdles ==
    ASSUME NEW p, Consistent(p), LineUp(p), NEW m \in Machine, NEW c \in 0 .. Full
    PROVE  Idles(p, [p EXCEPT !.machines[m].osrCount = c], m)
<1>1. p \in Block /\ p.machines[m] \in Channel
  BY DEF Consistent, Block
<1>2. PICK ch \in Channel : ch = [p.machines[m] EXCEPT !.osrCount = c]
  BY <1>1 DEF Channel
<1>3. /\ ch.tx = p.machines[m].tx /\ ch.rx = p.machines[m].rx
      /\ ch.osr = p.machines[m].osr /\ ch.isr = p.machines[m].isr
      /\ ch.wait = p.machines[m].wait
  BY <1>1, <1>2 DEF Channel
<1>4. [p EXCEPT !.machines[m].osrCount = c] = [p EXCEPT !.machines[m] = ch]
  BY <1>1, <1>2 DEF Block
<1> QED BY <1>3, <1>4, IdleChannel DEF Idles

LEMMA PcIdles ==
    ASSUME NEW p, Consistent(p), LineUp(p), NEW m \in Machine, NEW a \in 0 .. 31
    PROVE  Idles(p, [p EXCEPT !.machines[m].pc = a], m)
<1>1. p \in Block /\ p.machines[m] \in Channel
  BY DEF Consistent, Block
<1>2. PICK ch \in Channel : ch = [p.machines[m] EXCEPT !.pc = a]
  BY <1>1 DEF Channel
<1>3. /\ ch.tx = p.machines[m].tx /\ ch.rx = p.machines[m].rx
      /\ ch.osr = p.machines[m].osr /\ ch.isr = p.machines[m].isr
      /\ ch.wait = p.machines[m].wait
  BY <1>1, <1>2 DEF Channel
<1>4. [p EXCEPT !.machines[m].pc = a] = [p EXCEPT !.machines[m] = ch]
  BY <1>1, <1>2 DEF Block
<1> QED BY <1>3, <1>4, IdleChannel DEF Idles

LEMMA NextPCIdles ==
    ASSUME program \in Programs, NEW p, Consistent(p), LineUp(p), NEW m \in Machine
    PROVE  Idles(p, nextPC(p, m), m)
<1> DEFINE a == IF p.machines[m].pc = program.sm[m].wrapTop THEN program.sm[m].wrapBottom
                ELSE (p.machines[m].pc + 1) % 32
<1>1. p \in Block /\ p.machines[m].pc \in 0 .. 31
  BY DEF Consistent, Block, Channel
<1>2. program.sm[m].wrapBottom \in 0 .. 31
  BY ProgramAssumption
<1>3. (p.machines[m].pc + 1) % 32 \in 0 .. 31
  BY <1>1
<1>4. a \in 0 .. 31
  BY <1>2, <1>3
<1>5. nextPC(p, m) = [p EXCEPT !.machines[m].pc = a]
  BY <1>1 DEF nextPC, Block
<1> HIDE DEF a
<1>6. Idles(p, [p EXCEPT !.machines[m].pc = a], m)
  BY <1>4, PcIdles
<1> QED BY <1>5, <1>6

LEMMA OutIdles ==
    ASSUME NEW p, Consistent(p), LineUp(p), NEW m \in Machine, NEW units \in 1 .. Full
    PROVE  Idles(p, outInstruction(p, m, units), m)
<1> DEFINE c == IF p.machines[m].osrCount + units > Full THEN Full
                ELSE p.machines[m].osrCount + units
<1>1. p \in Block /\ p.machines[m].osrCount \in 0 .. Full
  BY DEF Consistent, Block, Channel
<1>2. c \in 0 .. Full
  BY <1>1
<1>3. outInstruction(p, m, units) = [p EXCEPT !.machines[m].osrCount = c]
  BY <1>1 DEF outInstruction, Block
<1> HIDE DEF c
<1> QED BY <1>2, <1>3, OsrCountIdles

LEMMA IdlesFacts ==
    ASSUME NEW p, NEW q, NEW m, Idles(p, q, m)
    PROVE  Still(p, q, m) /\ Handed(q, m) = Handed(p, m)
BY DEF Idles, Still, Handed

WaitsFor(p, q, m, w) == q = [p EXCEPT !.machines[m].wait = w]

\* A machine is about to wait for a flag or a pin.
LEMMA WaitFacts ==
    ASSUME NEW p, Consistent(p), LineUp(p), NEW m \in Machine, p.machines[m].wait = Running,
           NEW w \in Waits, w.type \in {"irq", "pin"}, NEW q, WaitsFor(p, q, m, w)
    PROVE  /\ Consistent(q) /\ LineUp(q) /\ q.irq = p.irq /\ Elsewhere(p, q, m)
           /\ Still(p, q, m)
           /\ q.machines[m].wait = w
<1> DEFINE ch == [p.machines[m] EXCEPT !.wait = w]
<1>1. p \in Block /\ p.machines[m] \in Channel
  BY DEF Consistent, Block
<1>2. ch \in Channel
  BY <1>1 DEF Channel
<1>3. q = [p EXCEPT !.machines[m] = ch]
  BY <1>1 DEF WaitsFor, Block
<1>4. /\ ch.tx = p.machines[m].tx /\ ch.rx = p.machines[m].rx
      /\ ch.osr = p.machines[m].osr /\ ch.isr = p.machines[m].isr
      /\ ch.wait = w
  BY <1>1 DEF Channel
<1> HIDE DEF ch
<1>5. Sets(p, q, m, ch)
  BY <1>1, <1>2, <1>3, SetsChannel
<1>6. /\ Consistent(q) /\ (LineUp(p) => LineUp(q)) /\ q.machines[m] = ch /\ q.irq = p.irq
      /\ Elsewhere(p, q, m)
  BY <1>2, <1>4, <1>5, SetsFacts
<1>7. Handed(q, m) = Handed(p, m)
  <2>1. q.machines[m].wait.type # "rx" /\ p.machines[m].wait.type # "rx"
    BY <1>4, <1>6 DEF Running
  <2> QED BY <1>4, <1>6, <2>1 DEF Handed
<1>8. Still(p, q, m)
  BY <1>4, <1>6, <1>7 DEF Still
<1> QED BY <1>4, <1>6, <1>8

\* A machine that runs stalls on the empty FIFO.
LEMMA StallOnTx ==
    ASSUME NEW p, Consistent(p), LineUp(p), NEW m \in Machine, p.machines[m].wait = Running,
           p.machines[m].tx = <<>>, NEW w \in Waits, w.type \in {"tx", "out"},
           NEW q, WaitsFor(txStalls(p, m), q, m, w)
    PROVE  /\ Consistent(q) /\ LineUp(q) /\ q.irq = p.irq /\ Elsewhere(p, q, m)
           /\ Still(p, q, m)
           /\ q.machines[m].wait = w
<1> DEFINE r == txStalls(p, m)
           ch == [r.machines[m] EXCEPT !.wait = w]
<1>1. /\ Consistent(r) /\ LineUp(r) /\ r.machines = p.machines /\ r.irq = p.irq
      /\ m \in r.txStall /\ <<"tx", m>> \in r.fdebug
  BY TxStallsFacts
<1> HIDE DEF r
<1>2. ch \in Channel /\ Sets(r, q, m, ch)
  <2>1. r \in Block /\ r.machines[m] \in Channel
    BY <1>1 DEF Consistent, Block
  <2>2. ch \in Channel
    BY <2>1 DEF Channel
  <2>3. q = [r EXCEPT !.machines[m] = ch]
    BY <2>1 DEF WaitsFor, Block, r
  <2> HIDE DEF ch
  <2> QED BY <2>1, <2>2, <2>3, SetsChannel
<1>3. /\ ch.tx = p.machines[m].tx /\ ch.rx = p.machines[m].rx
      /\ ch.osr = p.machines[m].osr /\ ch.isr = p.machines[m].isr
      /\ ch.wait = w
  BY <1>1 DEF Consistent, Block, Channel
<1> HIDE DEF ch
<1>5. p.machines \in [Machine -> Channel]
  BY DEF Consistent, Block
<1>6. q.machines = [p.machines EXCEPT ![m] = ch] /\ q.irq = p.irq
  BY <1>1, <1>2 DEF Sets
<1>7. q.machines[m] = ch /\ Elsewhere(p, q, m)
  BY <1>5, <1>6 DEF Elsewhere
<1>8. StallsOnFIFO(q, m)
  BY <1>1, <1>2, <1>3, <1>7 DEF StallsOnFIFO, Sets
<1>9. Len(ch.tx) <= Depth /\ Len(ch.rx) <= Depth
  BY <1>3 DEF Consistent, Bounded
<1>10. Consistent(q)
  BY <1>1, <1>2, <1>3, <1>8, <1>9, ConsistentPut DEF Sets
<1>11. LineUp(q)
  BY <1>1, <1>2, <1>10, LineKept DEF Sets, Consistent
<1>12. Handed(q, m) = Handed(p, m)
  <2>1. q.machines[m].wait.type # "rx" /\ p.machines[m].wait.type # "rx"
    BY <1>3, <1>7 DEF Running
  <2> QED BY <1>3, <1>7, <2>1 DEF Handed
<1>13. Still(p, q, m)
  BY <1>3, <1>7, <1>12 DEF Still
<1> QED BY <1>3, <1>6, <1>7, <1>10, <1>11, <1>13

-----------------------------------------------------------------------------
(* The instructions one by one. *)

LEMMA StillAgain ==
    ASSUME NEW p, NEW q, NEW r, NEW n, Still(p, q, n), Still(q, r, n)
    PROVE  Still(p, r, n)
BY DEF Still

LEMMA ElsewhereAgain ==
    ASSUME NEW p, NEW q, NEW r, NEW m, Elsewhere(p, q, m), Elsewhere(q, r, m)
    PROVE  Elsewhere(p, r, m)
BY DEF Elsewhere

LEMMA PushExecuted ==
    ASSUME NEW p, Sound(p), NEW m \in Machine, NEW block \in BOOLEAN,
           p.machines[m].wait = Running \/ block = FALSE
    PROVE  Executed(p, push(p, m, block), m)
<1> DEFINE q == push(p, m, block)
<1>1. /\ Consistent(q) /\ LineUp(q) /\ q.irq = p.irq
      /\ Elsewhere(p, q, m)
      /\ q.machines[m].isr = 0
      /\ q.machines[m].tx = p.machines[m].tx /\ q.machines[m].osr = p.machines[m].osr
      /\ \/ Len(Handed(p, m)) >= Depth /\ Handed(q, m) = Handed(p, m)
         \/ /\ Len(Handed(p, m)) <= Depth
            /\ Handed(q, m) = Append(Handed(p, m), p.machines[m].isr)
      /\ p.machines[m].wait = Running \/ q.machines[m].wait = p.machines[m].wait
  BY PushFacts
<1> HIDE DEF q
<1>2. HandsOver(p, q, m)
  BY <1>1 DEF HandsOver
<1>3. Executed(p, q, m)
  BY <1>1, <1>2, OwnInstruction DEF Moves
<1> QED BY <1>3 DEF q

LEMMA PullExecuted ==
    ASSUME NEW p, Sound(p), NEW m \in Machine, NEW block \in BOOLEAN,
           p.machines[m].wait = Running \/ block = FALSE
    PROVE  Executed(p, pull(p, m, block), m)
<1> DEFINE s == IF p.machines[m].tx # <<>> THEN pullWord(p, m)
                ELSE IF block THEN wait(txStalls(p, m), m, "tx", FALSE, 0)
                ELSE [txStalls(p, m) EXCEPT !.machines[m].osr = 0]
           q == [s EXCEPT !.machines[m].osrCount = 0]
<1>1. Consistent(p) /\ LineUp(p)
  BY DEF Sound
<1>2. pull(p, m, block) = q
  BY DEF pull
<1> HIDE DEF q
<1>3. ASSUME Consistent(s), LineUp(s), s.irq = p.irq, Elsewhere(p, s, m), Moves(p, s, m),
             p.machines[m].wait = Running \/ s.machines[m].wait = p.machines[m].wait
      PROVE  Executed(p, q, m)
  <2> HIDE DEF s
  <2>1. 0 \in 0 .. Full
    OBVIOUS
  <2>2. Idles(s, q, m)
    BY <1>3, <2>1, OsrCountIdles DEF q
  <2>3. Elsewhere(p, q, m)
    BY <1>3, <2>2, ElsewhereAgain DEF Idles
  <2>4. Moves(p, q, m)
    BY <1>3, <2>2, IdlesFacts, SMTT(20) DEF Moves, Still, Loads, Shifts, HandsOver, Idles
  <2>5. p.machines[m].wait = Running \/ q.machines[m].wait = p.machines[m].wait
    BY <1>3, <2>2 DEF Idles
  <2>6. Consistent(q) /\ LineUp(q) /\ q.irq = p.irq
    BY <1>3, <2>2 DEF Idles
  <2> QED BY <2>3, <2>4, <2>5, <2>6, OwnInstruction
<1>4. CASE p.machines[m].tx # <<>>
  <2>1. s = pullWord(p, m)
    BY <1>4
  <2> HIDE DEF s
  <2>2. /\ Consistent(s) /\ LineUp(s) /\ s.irq = p.irq /\ Elsewhere(p, s, m)
        /\ s.machines[m].osr = Head(p.machines[m].tx)
        /\ s.machines[m].tx = Tail(p.machines[m].tx)
        /\ s.machines[m].isr = p.machines[m].isr /\ s.machines[m].rx = p.machines[m].rx
        /\ s.machines[m].wait = p.machines[m].wait
    BY <1>1, <1>4, <2>1, PullWordFacts
  <2>3. Loads(p, s, m)
    BY <1>4, <2>2 DEF Loads, Handed
  <2> QED BY <1>2, <1>3, <2>2, <2>3 DEF Moves
<1>5. CASE p.machines[m].tx = <<>> /\ block = TRUE
  <2>1. s = wait(txStalls(p, m), m, "tx", FALSE, 0)
    BY <1>5
  <2>2. p.machines[m].wait = Running
    BY <1>5
  <2>3. PICK w \in Waits : w = [type |-> "tx", polarity |-> FALSE, index |-> 0]
    BY WaitsMade
  <2>4. WaitsFor(txStalls(p, m), s, m, w)
    BY <2>1, <2>3 DEF wait, WaitsFor
  <2>5. w.type \in {"tx", "out"}
    BY <2>3
  <2> HIDE DEF s
  <2>6. /\ Consistent(s) /\ LineUp(s) /\ s.irq = p.irq /\ Elsewhere(p, s, m)
        /\ Still(p, s, m)
    BY <1>1, <1>5, <2>2, <2>4, <2>5, StallOnTx
  <2> QED BY <1>2, <1>3, <2>2, <2>6 DEF Moves
<1>6. CASE p.machines[m].tx = <<>> /\ block = FALSE
  <2> DEFINE r == txStalls(p, m)
  <2>1. s = [r EXCEPT !.machines[m].osr = 0]
    BY <1>6
  <2>2. Consistent(r) /\ LineUp(r) /\ r.machines = p.machines /\ r.irq = p.irq
    BY <1>1, TxStallsFacts
  <2> HIDE DEF r, s
  <2>3. r \in Block /\ r.machines[m] \in Channel /\ 0 \in Word
    BY <2>2 DEF Consistent, Block
  <2>4. PICK ch \in Channel : ch = [r.machines[m] EXCEPT !.osr = 0]
    BY <2>3 DEF Channel
  <2>5. /\ ch.tx = r.machines[m].tx /\ ch.rx = r.machines[m].rx
        /\ ch.osr = 0 /\ ch.isr = r.machines[m].isr /\ ch.wait = r.machines[m].wait
    BY <2>3, <2>4 DEF Channel
  <2>6. s = [r EXCEPT !.machines[m] = ch]
    BY <2>1, <2>3, <2>4 DEF Block
  <2>7. /\ Consistent(s) /\ LineUp(s) /\ s.irq = r.irq /\ Elsewhere(r, s, m)
        /\ s.machines[m] = ch
    BY <2>2, <2>5, <2>6, IdleChannel
  <2>8. Elsewhere(p, s, m)
    BY <2>2, <2>7 DEF Elsewhere
  <2>9. Loads(p, s, m)
    BY <1>6, <2>2, <2>5, <2>7 DEF Loads, Handed
  <2> QED BY <1>2, <1>3, <2>2, <2>5, <2>7, <2>8, <2>9 DEF Moves
<1> QED BY <1>4, <1>5, <1>6

LEMMA InExecuted ==
    ASSUME program \in Programs, NEW p, Sound(p), NEW m \in Machine, NEW i,
           i.units \in 1 .. Full,
           p.machines[m].wait = Running \/ program.sm[m].autopush = FALSE
    PROVE  Executed(p, inInstruction(p, m, i), m)
<1> DEFINE count == p.machines[m].isrCount + i.units
           c == IF count > Full THEN Full ELSE count
           s == [p EXCEPT !.machines[m].isr = p.machines[m].osr, !.machines[m].isrCount = c]
<1>1. /\ Consistent(p) /\ LineUp(p) /\ p \in Block /\ p.machines[m] \in Channel
      /\ p.machines[m].isrCount \in 0 .. Full /\ p.machines[m].osr \in Word
  BY DEF Sound, Consistent, Block, Channel
<1>2. c \in 0 .. Full
  BY <1>1
<1>3. inInstruction(p, m, i) = IF program.sm[m].autopush /\ Pushes(s, m) THEN push(s, m, TRUE) ELSE s
  BY DEF inInstruction
<1> HIDE DEF c
<1>4. PICK ch \in Channel : ch = [p.machines[m] EXCEPT !.isr = p.machines[m].osr, !.isrCount = c]
  BY <1>1, <1>2 DEF Channel
<1>5. /\ ch.tx = p.machines[m].tx /\ ch.rx = p.machines[m].rx
      /\ ch.osr = p.machines[m].osr /\ ch.isr = p.machines[m].osr
      /\ ch.wait = p.machines[m].wait
  BY <1>1, <1>4 DEF Channel
<1>6. s = [p EXCEPT !.machines[m] = ch]
  BY <1>1, <1>4 DEF Block
<1> HIDE DEF s
<1>7. /\ Consistent(s) /\ LineUp(s) /\ s.irq = p.irq /\ Elsewhere(p, s, m)
      /\ s.machines[m] = ch
  BY <1>1, <1>5, <1>6, IdleChannel
<1>8. Handed(s, m) = Handed(p, m)
  BY <1>5, <1>7 DEF Handed
<1>9. Shifts(p, s, m)
  BY <1>5, <1>7, <1>8 DEF Shifts
<1>10. CASE ~(program.sm[m].autopush /\ Pushes(s, m))
  <2>1. inInstruction(p, m, i) = s
    BY <1>3, <1>10
  <2> QED BY <1>5, <1>7, <1>9, <2>1, OwnInstruction DEF Moves
<1>11. CASE program.sm[m].autopush /\ Pushes(s, m)
  <2> DEFINE q == push(s, m, TRUE)
  <2>1. inInstruction(p, m, i) = q
    BY <1>3, <1>11
  <2>2. p.machines[m].wait = Running /\ s.machines[m].wait = Running
    BY <1>5, <1>7, <1>11
  <2>3. Sound(s)
    <3>1. \A n \in Machine \ {m} : StallsOnFlag(s, n)
      BY <1>7 DEF Sound, StallsOnFlag, Elsewhere
    <3>2. StallsOnFlag(s, m)
      BY <2>2 DEF StallsOnFlag, Running
    <3> QED BY <1>7, <3>1, <3>2 DEF Sound
  <2>4. /\ Consistent(q) /\ LineUp(q) /\ q.irq = s.irq
        /\ Elsewhere(s, q, m)
        /\ q.machines[m].isr = 0
        /\ q.machines[m].tx = s.machines[m].tx /\ q.machines[m].osr = s.machines[m].osr
        /\ \/ Len(Handed(s, m)) >= Depth /\ Handed(q, m) = Handed(s, m)
           \/ /\ Len(Handed(s, m)) <= Depth
              /\ Handed(q, m) = Append(Handed(s, m), s.machines[m].isr)
    BY <2>2, <2>3, PushFacts
  <2> HIDE DEF q
  <2>5. HandsOver(p, q, m)
    BY <1>5, <1>7, <1>8, <2>4 DEF HandsOver
  <2>6. Elsewhere(p, q, m)
    BY <1>7, <2>4, ElsewhereAgain
  <2>7. Executed(p, q, m)
    BY <1>7, <2>2, <2>4, <2>5, <2>6, OwnInstruction DEF Moves
  <2> QED BY <2>1, <2>7
<1> QED BY <1>10, <1>11

LEMMA ThenIdles ==
    ASSUME NEW p, NEW q, NEW r, NEW m, Elsewhere(p, q, m), Moves(p, q, m), q.irq = p.irq,
           Idles(q, r, m)
    PROVE  /\ Consistent(r) /\ LineUp(r) /\ r.irq = p.irq /\ Elsewhere(p, r, m) /\ Moves(p, r, m)
           /\ r.machines[m].wait = q.machines[m].wait
<1>1. Elsewhere(p, r, m)
  BY ElsewhereAgain DEF Idles
<1>2. Moves(p, r, m)
  BY IdlesFacts DEF Moves, Still, Loads, Shifts, HandsOver, Idles
<1> QED BY <1>1, <1>2 DEF Idles

LEMMA OutExecuted ==
    ASSUME program \in Programs, NEW p, Sound(p), NEW m \in Machine, NEW i,
           i.units \in 1 .. Full,
           p.machines[m].wait = Running \/ program.sm[m].autopull = FALSE
    PROVE  Executed(p, out(p, m, i), m)
<1> DEFINE emptied == [p EXCEPT !.machines[m].osrCount = 0]
           q == IF ~(program.sm[m].autopull /\ Pulls(p, m)) THEN p
                ELSE IF p.machines[m].tx # <<>> THEN pullWord(emptied, m)
                ELSE wait(txStalls(emptied, m), m, "out", FALSE, i.units)
           r == IF q.machines[m].wait # Running THEN q ELSE outInstruction(q, m, i.units)
<1>1. Consistent(p) /\ LineUp(p)
  BY DEF Sound
<1>2. out(p, m, i) = r
  BY DEF out
<1>3. Idles(p, emptied, m)
  <2>1. 0 \in 0 .. Full
    OBVIOUS
  <2> QED BY <1>1, <2>1, OsrCountIdles
<1> HIDE DEF emptied
<1>4. ASSUME Consistent(q), LineUp(q), q.irq = p.irq, Elsewhere(p, q, m), Moves(p, q, m),
             p.machines[m].wait = Running \/ q.machines[m].wait = p.machines[m].wait
      PROVE  Executed(p, r, m)
  <2> HIDE DEF q
  <2>1. CASE q.machines[m].wait # Running
    <3>1. r = q
      BY <2>1
    <3> QED BY <1>4, <3>1, OwnInstruction
  <2>2. CASE q.machines[m].wait = Running
    <3>1. r = outInstruction(q, m, i.units)
      BY <2>2
    <3> HIDE DEF r
    <3>2. Idles(q, r, m)
      BY <1>4, <3>1, OutIdles
    <3>3. /\ Consistent(r) /\ LineUp(r) /\ r.irq = p.irq /\ Elsewhere(p, r, m) /\ Moves(p, r, m)
          /\ r.machines[m].wait = q.machines[m].wait
      BY <1>4, <3>2, ThenIdles
    <3> QED BY <1>4, <3>3, OwnInstruction
  <2> QED BY <2>1, <2>2
<1> HIDE DEF r
<1>5. CASE ~(program.sm[m].autopull /\ Pulls(p, m))
  <2>1. q = p
    BY <1>5
  <2>2. Elsewhere(p, p, m) /\ Still(p, p, m)
    BY DEF Elsewhere, Still
  <2> QED BY <1>1, <1>2, <1>4, <2>1, <2>2 DEF Moves
<1>6. CASE program.sm[m].autopull /\ Pulls(p, m) /\ p.machines[m].tx # <<>>
  <2>1. q = pullWord(emptied, m)
    BY <1>6
  <2> HIDE DEF q
  <2>2. /\ Consistent(q) /\ LineUp(q) /\ q.irq = emptied.irq /\ Elsewhere(emptied, q, m)
        /\ q.machines[m].osr = Head(emptied.machines[m].tx)
        /\ q.machines[m].tx = Tail(emptied.machines[m].tx)
        /\ q.machines[m].isr = emptied.machines[m].isr /\ q.machines[m].rx = emptied.machines[m].rx
        /\ q.machines[m].wait = emptied.machines[m].wait
    BY <1>3, <1>6, <2>1, PullWordFacts DEF Idles
  <2>3. Loads(p, q, m)
    BY <1>3, <1>6, <2>2 DEF Loads, Handed, Idles
  <2>4. Elsewhere(p, q, m)
    BY <1>3, <2>2, ElsewhereAgain DEF Idles
  <2>5. q.irq = p.irq /\ q.machines[m].wait = p.machines[m].wait
    BY <1>3, <2>2 DEF Idles
  <2> QED BY <1>2, <1>4, <2>2, <2>3, <2>4, <2>5 DEF Moves
<1>7. CASE program.sm[m].autopull /\ Pulls(p, m) /\ p.machines[m].tx = <<>>
  <2>1. q = wait(txStalls(emptied, m), m, "out", FALSE, i.units)
    BY <1>7
  <2>2. p.machines[m].wait = Running
    BY <1>7
  <2>3. PICK w \in Waits : w = [type |-> "out", polarity |-> FALSE, index |-> i.units]
    BY WaitsMade
  <2>4. WaitsFor(txStalls(emptied, m), q, m, w)
    BY <2>1, <2>3 DEF wait, WaitsFor
  <2>5. w.type \in {"tx", "out"}
    BY <2>3
  <2> HIDE DEF q
  <2>6. /\ Consistent(emptied) /\ LineUp(emptied) /\ emptied.machines[m].wait = Running
        /\ emptied.machines[m].tx = <<>>
    BY <1>3, <1>7, <2>2 DEF Idles
  <2>7. /\ Consistent(q) /\ LineUp(q) /\ q.irq = emptied.irq /\ Elsewhere(emptied, q, m)
        /\ Still(emptied, q, m)
    BY <2>4, <2>5, <2>6, StallOnTx
  <2>8. Still(p, q, m)
    BY <1>3, <2>7, IdlesFacts, StillAgain
  <2>9. Elsewhere(p, q, m)
    BY <1>3, <2>7, ElsewhereAgain DEF Idles
  <2>10. q.irq = p.irq
    BY <1>3, <2>7 DEF Idles
  <2> QED BY <1>2, <1>4, <2>2, <2>7, <2>8, <2>9, <2>10 DEF Moves
<1> QED BY <1>5, <1>6, <1>7

LEMMA WaitExecuted ==
    ASSUME NEW p, Sound(p), NEW m \in Machine, p.machines[m].wait = Running,
           NEW w \in Waits, w.type \in {"irq", "pin"}, NEW q, WaitsFor(p, q, m, w)
    PROVE  Executed(p, q, m)
<1>1. /\ Consistent(q) /\ LineUp(q) /\ q.irq = p.irq /\ Elsewhere(p, q, m)
      /\ Still(p, q, m)
  BY WaitFacts DEF Sound
<1> QED BY <1>1, OwnInstruction DEF Moves

\* Flags are written, and the machines told of it.
LEMMA FlagsWritten ==
    ASSUME program \in Programs, NEW p, Consistent(p), NEW flags \in SUBSET (0 .. 7)
    PROVE  LET q == irqUpdated([p EXCEPT !.irq = flags])
           IN  /\ Sound(q) /\ OneWoken(p, q)
               /\ \A n \in Machine :
                     /\ Still(p, q, n)
                     /\ q.machines[n].wait = p.machines[n].wait \/ q.machines[n].wait = Running
<1> DEFINE r == [p EXCEPT !.irq = flags]
           q == irqUpdated(r)
<1>1. p \in Block
  BY DEF Consistent
<1>2. /\ r \in Block /\ r.machines = p.machines
      /\ r.txStall = p.txStall /\ r.rxStall = p.rxStall /\ r.fdebug = p.fdebug
      /\ r.dreqTx = p.dreqTx /\ r.dreqRx = p.dreqRx
  BY <1>1 DEF Block
<1> HIDE DEF r
<1>3. Consistent(r)
  BY <1>2 DEF Consistent, Bounded, DreqsTrue, StallsOnFIFO
<1>4. /\ Sound(q) /\ OneWoken(r, q)
      /\ \A n \in Machine :
            /\ Still(r, q, n)
            /\ q.machines[n].wait = r.machines[n].wait \/ q.machines[n].wait = Running
  BY <1>3, IrqUpdatedFacts
<1> HIDE DEF q
<1>5. OneWoken(p, q)
  <2>1. \A n \in Machine : \A f \in 0 .. 7 : Awaits(r, n, f) <=> Awaits(p, n, f)
    BY <1>2 DEF Awaits
  <2> QED BY <1>4, <2>1 DEF OneWoken
<1>6. \A n \in Machine : Still(p, q, n)
  BY <1>2, <1>4, ZenonT(30) DEF Still, Handed
<1> QED BY <1>2, <1>4, <1>5, <1>6 DEF q, r

LEMMA InstructionFacts ==
    ASSUME NEW i \in Instruction
    PROVE  /\ i.op \in {"jmp", "wait", "in", "out", "push", "pull", "irq"} /\ i.delay \in 0 .. 31
           /\ i.op = "jmp" => i.to \in 0 .. 31
           /\ i.op = "wait" => /\ i.source \in {"irq", "pin"} /\ i.polarity \in BOOLEAN
                               /\ i.flag \in 0 .. 7 /\ i.rel \in BOOLEAN
           /\ i.op = "in" => i.units \in 1 .. Full
           /\ i.op = "out" => i.units \in 1 .. Full
           /\ i.op = "push" => i.block \in BOOLEAN
           /\ i.op = "pull" => i.block \in BOOLEAN
           /\ i.op = "irq" => /\ i.clear \in BOOLEAN /\ i.wait \in BOOLEAN
                              /\ i.flag \in 0 .. 7 /\ i.rel \in BOOLEAN
<1>1. CASE i \in [op : {"jmp"}, to : 0 .. 31, cond : STRING, delay : 0 .. 31]
  BY <1>1
<1>2. CASE i \in [op : {"wait"}, source : {"irq", "pin"}, polarity : BOOLEAN, flag : 0 .. 7,
                  rel : BOOLEAN, delay : 0 .. 31]
  BY <1>2
<1>3. CASE i \in [op : {"in", "out"}, units : 1 .. Full, delay : 0 .. 31]
  BY <1>3
<1>4. CASE i \in [op : {"push"}, block : BOOLEAN, ifFull : BOOLEAN, delay : 0 .. 31]
  BY <1>4
<1>5. CASE i \in [op : {"pull"}, block : BOOLEAN, ifEmpty : BOOLEAN, delay : 0 .. 31]
  BY <1>5
<1>6. CASE i \in [op : {"irq"}, clear : BOOLEAN, wait : BOOLEAN, flag : 0 .. 7, rel : BOOLEAN,
                  delay : 0 .. 31]
  BY <1>6
<1> QED BY <1>1, <1>2, <1>3, <1>4, <1>5, <1>6 DEF Instruction

LEMMA IrqIndexFacts ==
    ASSUME NEW i, i.flag \in 0 .. 7, NEW m \in Machine
    PROVE  irqIndex(i, m) \in 0 .. 7
<1>1. m \in Nat
  BY Machines
<1>2. (i.flag + m) % 4 \in 0 .. 3
  BY <1>1
<1>3. i.flag \div 4 \in 0 .. 1
  OBVIOUS
<1> QED BY <1>2, <1>3 DEF irqIndex

LEMMA IrqExecuted ==
    ASSUME program \in Programs, NEW p, Sound(p), NEW m \in Machine, NEW i \in Instruction,
           i.op = "irq", p.machines[m].wait = Running \/ ~MayStall(i, program.sm[m])
    PROVE  Executed(p, irqInstruction(p, m, i), m)
<1> DEFINE f == irqIndex(i, m)
           up == irqUpdated([p EXCEPT !.irq = p.irq \cup {f}])
           down == irqUpdated([p EXCEPT !.irq = p.irq \ {f}])
<1>1. Consistent(p) /\ p \in Block /\ p.irq \in SUBSET (0 .. 7)
  BY DEF Sound, Consistent, Block
<1>9. /\ i.clear \in BOOLEAN /\ i.wait \in BOOLEAN /\ f \in 0 .. 7
      /\ p.machines[m].wait = Running \/ ~i.wait
  BY InstructionFacts, IrqIndexFacts DEF MayStall
<1>2. irqInstruction(p, m, i) =
        CASE i.clear -> down
          [] ~i.clear /\ i.wait -> wait(up, m, "irq", FALSE, f)
          [] OTHER -> up
  BY DEF irqInstruction
<1>3. ASSUME NEW q, Sound(q), OneWoken(p, q), \A n \in Machine : Still(p, q, n)
      PROVE  Executed(p, q, m)
  BY <1>3 DEF Executed, Sound, Moves
<1>4. /\ Sound(up) /\ OneWoken(p, up)
      /\ \A n \in Machine :
            /\ Still(p, up, n)
            /\ up.machines[n].wait = p.machines[n].wait \/ up.machines[n].wait = Running
  <2>1. p.irq \cup {f} \in SUBSET (0 .. 7)
    BY <1>9, <1>1
  <2> HIDE DEF f
  <2> QED BY <1>1, <2>1, FlagsWritten
<1>5. Sound(down) /\ OneWoken(p, down) /\ \A n \in Machine : Still(p, down, n)
  <2>1. p.irq \ {f} \in SUBSET (0 .. 7)
    BY <1>9, <1>1
  <2> HIDE DEF f
  <2> QED BY <1>1, <2>1, FlagsWritten
<1> HIDE DEF up, down
<1>6. CASE i.clear
  BY <1>9, <1>2, <1>3, <1>5, <1>6
<1>7. CASE ~i.clear /\ ~i.wait
  BY <1>9, <1>2, <1>3, <1>4, <1>7
<1>8. CASE ~i.clear /\ i.wait
  <2> DEFINE q == wait(up, m, "irq", FALSE, f)
  <2>1. irqInstruction(p, m, i) = q
    BY <1>2, <1>8
  <2>2. PICK w \in Waits : w = [type |-> "irq", polarity |-> FALSE, index |-> f]
    BY <1>9, WaitsMade
  <2>3. WaitsFor(up, q, m, w)
    BY <2>2 DEF wait, WaitsFor
  <2>4. w.type \in {"irq", "pin"} /\ w.polarity = FALSE
    BY <2>2
  <2> HIDE DEF q, f
  <2>5. p.machines[m].wait = Running /\ up.machines[m].wait = Running
    BY <1>9, <1>4, <1>8
  <2>6. /\ Consistent(q) /\ LineUp(q) /\ q.irq = up.irq /\ Elsewhere(up, q, m)
        /\ Still(up, q, m)
    BY <1>4, <2>3, <2>4, <2>5, WaitFacts DEF Sound
  <2>7. \A n \in Machine \ {m} : StallsOnFlag(q, n)
    BY <1>4, <2>6 DEF Sound, StallsOnFlag, Elsewhere
  <2>8. \A n \in Machine \ {m} : Still(p, q, n)
    <3>1. \A n \in Machine \ {m} : Still(up, q, n)
      BY <2>6 DEF Still, Handed, Elsewhere
    <3> QED BY <1>4, <3>1, StillAgain
  <2>9. Still(p, q, m)
    BY <1>4, <2>6, StillAgain
  <2>10. OneWoken(p, q)
    <3>1. \A n \in Machine \ {m} : \A e \in 0 .. 7 : Awaits(q, n, e) <=> Awaits(up, n, e)
      BY <2>6 DEF Awaits, Elsewhere
    <3>2. \A e \in 0 .. 7 : ~Awaits(p, m, e)
      BY <2>5 DEF Awaits, Running
    <3> QED BY <1>4, <3>1, <3>2 DEF OneWoken
  <2> QED BY <2>1, <2>5, <2>6, <2>7, <2>8, <2>9, <2>10 DEF Executed, Moves
<1> QED BY <1>6, <1>7, <1>8

\* Any instruction, of a machine that runs or that may not stall on it.
LEMMA ExecuteFacts ==
    ASSUME program \in Programs, NEW p, Sound(p), NEW m \in Machine, NEW i \in Instruction,
           NEW taken, p.machines[m].wait = Running \/ ~MayStall(i, program.sm[m])
    PROVE  Executed(p, execute(p, m, i, taken), m)
<1> DEFINE q == execute(p, m, i, taken)
<1>1. Consistent(p) /\ LineUp(p) /\ program.sm[m].autopush \in BOOLEAN
      /\ program.sm[m].autopull \in BOOLEAN
  BY ProgramAssumption DEF Sound
<1>2. ASSUME NEW r, Idles(p, r, m)
      PROVE  Executed(p, r, m)
  <2>1. Moves(p, r, m)
    BY <1>2, IdlesFacts DEF Moves
  <2> QED BY <1>2, <2>1, OwnInstruction DEF Idles
<1>3. Executed(p, p, m)
  <2>1. Idles(p, p, m)
    BY <1>1 DEF Idles, Elsewhere
  <2> QED BY <1>2, <2>1
<1>4. CASE Jumps(p, m, i, taken)
  <2>1. i.to \in 0 .. 31
    BY <1>4, InstructionFacts DEF Jumps
  <2> DEFINE r == [p EXCEPT !.machines[m].pc = i.to]
  <2>2. q = r
    BY <1>4 DEF execute, Jumps
  <2>3. Idles(p, r, m)
    BY <1>1, <2>1, PcIdles
  <2> HIDE DEF r
  <2> QED BY <1>2, <2>2, <2>3
<1>5. CASE ~Jumps(p, m, i, taken) /\ i.op = "jmp"
  BY <1>3, <1>5 DEF execute
<1>6. CASE i.op = "wait"
  <2> DEFINE index == IF i.source = "irq" THEN irqIndex(i, m) ELSE 0
  <2>1. q = wait(p, m, i.source, i.polarity, index)
    BY <1>6 DEF execute, Jumps
  <2>2. /\ i.source \in {"irq", "pin"} /\ i.polarity \in BOOLEAN /\ index \in 0 .. 7
        /\ i.source = "pin" => index = 0
    BY <1>6, InstructionFacts, IrqIndexFacts
  <2> HIDE DEF index
  <2>3. PICK w \in Waits : w = [type |-> i.source, polarity |-> i.polarity, index |-> index]
    BY <2>2, WaitsMade
  <2>4. WaitsFor(p, q, m, w)
    BY <2>1, <2>3 DEF wait, WaitsFor
  <2>5. w.type \in {"irq", "pin"}
    BY <2>2, <2>3
  <2>6. p.machines[m].wait = Running
    BY <1>6 DEF MayStall
  <2> HIDE DEF q
  <2>7. Executed(p, q, m)
    BY <2>4, <2>5, <2>6, WaitExecuted
  <2> QED BY <2>7 DEF q
<1>7. CASE i.op = "in"
  <2>1. q = inInstruction(p, m, i)
    BY <1>7 DEF execute, Jumps
  <2>2. p.machines[m].wait = Running \/ program.sm[m].autopush = FALSE
    BY <1>1, <1>7 DEF MayStall
  <2>3. i.units \in 1 .. Full
    BY <1>7, InstructionFacts
  <2>4. Executed(p, inInstruction(p, m, i), m)
    BY <2>2, <2>3, InExecuted
  <2> QED BY <2>1, <2>4
<1>8. CASE i.op = "out"
  <2>1. q = out(p, m, i)
    BY <1>8 DEF execute, Jumps
  <2>2. p.machines[m].wait = Running \/ program.sm[m].autopull = FALSE
    BY <1>1, <1>8 DEF MayStall
  <2>3. i.units \in 1 .. Full
    BY <1>8, InstructionFacts
  <2>4. Executed(p, out(p, m, i), m)
    BY <2>2, <2>3, OutExecuted
  <2> QED BY <2>1, <2>4
<1>9. CASE i.op = "push"
  <2>1. q = p \/ q = push(p, m, i.block)
    BY <1>9 DEF execute, Jumps
  <2>2. i.block \in BOOLEAN
    BY <1>9, InstructionFacts
  <2>3. p.machines[m].wait = Running \/ i.block = FALSE
    BY <1>9, <2>2 DEF MayStall
  <2>4. Executed(p, push(p, m, i.block), m)
    BY <2>2, <2>3, PushExecuted
  <2> QED BY <1>3, <2>1, <2>4
<1>10. CASE i.op = "pull"
  <2>1. q = p \/ q = pull(p, m, i.block)
    BY <1>10 DEF execute, Jumps
  <2>2. i.block \in BOOLEAN
    BY <1>10, InstructionFacts
  <2>3. p.machines[m].wait = Running \/ i.block = FALSE
    BY <1>10, <2>2 DEF MayStall
  <2>4. Executed(p, pull(p, m, i.block), m)
    BY <2>2, <2>3, PullExecuted
  <2> QED BY <1>3, <2>1, <2>4
<1>11. CASE i.op = "irq"
  <2>1. q = irqInstruction(p, m, i)
    BY <1>11 DEF execute, Jumps
  <2>2. Executed(p, irqInstruction(p, m, i), m)
    BY <1>11, IrqExecuted
  <2> QED BY <2>1, <2>2
<1> QED BY <1>4, <1>5, <1>6, <1>7, <1>8, <1>9, <1>10, <1>11, InstructionFacts

-----------------------------------------------------------------------------
(* Clocks. *)

\* What a step of machine m makes of a block.
Done(p, q, m) ==
    /\ Sound(q) /\ OneWoken(p, q)
    /\ Moves(p, q, m)
    /\ \A n \in Machine \ {m} : Still(p, q, n)

LEMMA ThenStill ==
    ASSUME NEW p, NEW q, NEW r, NEW m, Moves(p, q, m), Still(q, r, m)
    PROVE  Moves(p, r, m)
BY DEF Moves, Still, Loads, Shifts, HandsOver

LEMMA StillThen ==
    ASSUME NEW p, NEW q, NEW r, NEW m, Still(p, q, m), Moves(q, r, m)
    PROVE  Moves(p, r, m)
BY DEF Moves, Still, Loads, Shifts, HandsOver

\* The machine that looks whether it may go on after its own instruction.
LEMMA LookedAfter ==
    ASSUME program \in Programs, NEW p, NEW q, NEW m \in Machine, Executed(p, q, m)
    PROVE  Done(p, checkWait(q, m), m)
<1> DEFINE r == checkWait(q, m)
<1>1. Looked(q, r, m)
  BY CheckWaitFacts DEF Executed
<1> HIDE DEF r
<1>2. /\ Consistent(r) /\ LineUp(r)
      /\ \A n \in Machine : Still(q, r, n) /\ (StallsOnFlag(q, n) => StallsOnFlag(r, n))
  BY <1>1, ReleasedFacts DEF Looked, Executed
<1>3. Sound(r)
  BY <1>1, <1>2 DEF Sound, Looked, Executed
<1>4. Moves(p, r, m)
  BY <1>2, ThenStill DEF Executed
<1>5. \A n \in Machine \ {m} : Still(p, r, n)
  <2>1. \A n \in Machine \ {m} : Still(p, q, n)
    BY DEF Executed
  <2> QED BY <1>2, <2>1, StillAgain
<1>6. OneWoken(p, r)
  <2>1. \A n \in Machine \ {m} : \A f \in 0 .. 7 : Awaits(r, n, f) <=> Awaits(q, n, f)
    BY <1>1 DEF Looked, Awaits
  <2>2. ASSUME NEW f \in 0 .. 7, Awaits(p, m, f), Awaits(q, m, f) PROVE Awaits(r, m, f)
    <3>1. StallsOnFlag(q, m)
      BY <2>2 DEF Executed, Awaits, Running
    <3>2. f \notin q.irq
      BY <2>2, <3>1 DEF StallsOnFlag, Awaits
    <3> QED BY <1>1, <2>2, <3>2 DEF Looked
  <2>3. \A n \in Machine : \A f \in 0 .. 7 : Awaits(p, n, f) /\ ~Awaits(r, n, f) => ~Awaits(q, n, f)
    BY <2>1, <2>2
  <2> QED BY <2>3 DEF Executed, OneWoken
<1> QED BY <1>3, <1>4, <1>5, <1>6 DEF Done, r

\* The machine that goes on.
LEMMA IdlesAfter ==
    ASSUME NEW p, NEW q, NEW r, NEW m \in Machine, p.machines[m].wait = Running,
           Executed(p, q, m), q.machines[m].wait = Running, Idles(q, r, m)
    PROVE  Executed(p, r, m) /\ Done(p, r, m)
<1>1. \A n \in Machine \ {m} : StallsOnFlag(r, n)
  BY DEF Executed, StallsOnFlag, Idles, Elsewhere
<1>2. StallsOnFlag(r, m)
  BY DEF StallsOnFlag, Idles, Running
<1>3. Moves(p, r, m)
  BY IdlesFacts, ThenStill DEF Executed
<1>4. \A n \in Machine \ {m} : Still(p, r, n)
  <2>1. \A n \in Machine \ {m} : Still(p, q, n)
    BY DEF Executed
  <2>2. \A n \in Machine \ {m} : Still(q, r, n)
    BY DEF Still, Handed, Idles, Elsewhere
  <2> QED BY <2>1, <2>2, StillAgain
<1>5. OneWoken(p, r)
  <2>1. \A n \in Machine \ {m} : \A f \in 0 .. 7 : Awaits(r, n, f) <=> Awaits(q, n, f)
    BY DEF Awaits, Idles, Elsewhere
  <2>2. \A f \in 0 .. 7 : ~Awaits(p, m, f)
    BY DEF Awaits, Running
  <2> QED BY <2>1, <2>2 DEF Executed, OneWoken
<1> QED BY <1>1, <1>2, <1>3, <1>4, <1>5 DEF Executed, Done, Sound, Idles

LEMMA NextFacts ==
    ASSUME program \in Programs, NEW p, Sound(p), NEW m \in Machine, p.machines[m].wait = Running,
           NEW taken
    PROVE  Done(p, next(p, m, taken), m)
<1> DEFINE i == program.instructions[p.machines[m].pc]
           q == execute(p, m, i, taken)
           r == IF Jumps(p, m, i, taken) THEN q ELSE nextPC(q, m)
           s == [r EXCEPT !.machines[m].delay = i.delay]
<1>1. i \in Instruction
  <2>1. p.machines[m].pc \in 0 .. 31
    BY DEF Sound, Consistent, Block, Channel
  <2> QED BY <2>1, ProgramAssumption
<1>2. next(p, m, taken) = IF q.machines[m].wait # Running THEN checkWait(q, m) ELSE s
  BY DEF next
<1> HIDE DEF i
<1>3. Executed(p, q, m)
  BY <1>1, ExecuteFacts
<1> HIDE DEF q
<1>4. CASE q.machines[m].wait # Running
  BY <1>2, <1>3, <1>4, LookedAfter
<1>5. CASE q.machines[m].wait = Running
  <2>1. Consistent(q) /\ LineUp(q)
    BY <1>3 DEF Executed
  <2>2. Idles(q, r, m)
    <3>1. Idles(q, q, m)
      BY <2>1 DEF Idles, Elsewhere
    <3>2. Idles(q, nextPC(q, m), m)
      BY <2>1, NextPCIdles
    <3> QED BY <3>1, <3>2
  <2> HIDE DEF r
  <2>3. Executed(p, r, m) /\ r.machines[m].wait = Running
    BY <1>3, <1>5, <2>2, IdlesAfter DEF Idles
  <2>4. Idles(r, s, m)
    <3>1. i.delay \in Nat
      BY <1>1, InstructionFacts
    <3> QED BY <2>2, <3>1, DelayIdles DEF Idles
  <2> HIDE DEF s
  <2>5. Done(p, s, m)
    BY <2>3, <2>4, IdlesAfter
  <2> QED BY <1>2, <1>5, <2>5
<1> QED BY <1>4, <1>5

LEMMA StepFacts ==
    ASSUME program \in Programs, NEW p, Sound(p), NEW m \in Machine, NEW taken
    PROVE  Done(p, step(p, m, taken), m)
<1> DEFINE q == checkWait(p, m)
           r == next(q, m, taken)
<1>1. /\ Consistent(p) /\ LineUp(p) /\ p.machines[m].delay \in Nat
      /\ \A n \in Machine : StallsOnFlag(p, n)
  BY DEF Sound, Consistent, Block, Channel
<1>2. CASE p.machines[m].delay > 0
  <2> DEFINE d == p.machines[m].delay - 1
             s == [p EXCEPT !.machines[m].delay = d]
  <2>1. step(p, m, taken) = s
    BY <1>1, <1>2 DEF step, Sound, Consistent, Block
  <2>2. d \in Nat
    BY <1>1, <1>2
  <2> HIDE DEF d
  <2>3. Idles(p, s, m)
    BY <1>1, <2>2, DelayIdles
  <2> HIDE DEF s
  <2>4. Moves(p, s, m)
    BY <2>3, IdlesFacts DEF Moves
  <2>5. Executed(p, s, m)
    BY <2>3, <2>4, OwnInstruction DEF Idles
  <2>6. StallsOnFlag(s, m)
    BY <1>1, <2>3 DEF StallsOnFlag, Idles
  <2> QED BY <2>1, <2>4, <2>5, <2>6 DEF Done, Executed, Sound
<1>3. Looked(p, q, m)
  BY <1>1, CheckWaitFacts
<1>4. step(p, m, taken) = CASE p.machines[m].delay > 0 -> [p EXCEPT !.machines[m].delay = @ - 1]
                            [] p.machines[m].delay = 0 /\ q.machines[m].wait # Running -> q
                            [] OTHER -> r
  BY DEF step
<1> HIDE DEF q
<1>5. Sound(q) /\ \A n \in Machine : Still(p, q, n)
  BY <1>1, <1>3, ReleasedFacts DEF Looked, Sound
<1>6. \A n \in Machine : \A f \in 0 .. 7 : Awaits(p, n, f) => Awaits(q, n, f)
  <2>1. \A n \in Machine \ {m} : \A f \in 0 .. 7 : Awaits(p, n, f) => Awaits(q, n, f)
    BY <1>3 DEF Looked, Awaits
  <2>2. \A f \in 0 .. 7 : Awaits(p, m, f) => f \notin p.irq
    BY <1>1 DEF StallsOnFlag, Awaits
  <2> QED BY <1>3, <2>1, <2>2 DEF Looked
<1>7. CASE p.machines[m].delay = 0 /\ q.machines[m].wait # Running
  <2>1. step(p, m, taken) = q
    BY <1>4, <1>7
  <2>2. OneWoken(p, q)
    BY <1>6 DEF OneWoken
  <2> QED BY <1>5, <2>1, <2>2 DEF Done, Moves
<1>8. CASE p.machines[m].delay = 0 /\ q.machines[m].wait = Running
  <2>1. step(p, m, taken) = r
    BY <1>4, <1>8
  <2>2. Done(q, r, m)
    BY <1>5, <1>8, NextFacts
  <2> HIDE DEF r
  <2>3. OneWoken(p, r)
    BY <1>6, <2>2 DEF Done, OneWoken
  <2>4. Moves(p, r, m)
    BY <1>5, <2>2, StillThen DEF Done
  <2>5. \A n \in Machine \ {m} : Still(p, r, n)
    BY <1>5, <2>2, StillAgain DEF Done
  <2> QED BY <2>1, <2>2, <2>3, <2>4, <2>5 DEF Done
<1> QED BY <1>1, <1>2, <1>7, <1>8

-----------------------------------------------------------------------------
(* Firmware at the FIFOs. *)

\* q is p but for machine m's program counter, shift counts and what it waits for.
Tunes(p, q, m) ==
    /\ Sides(p, q, m)
    /\ q.machines[m].tx = p.machines[m].tx /\ q.machines[m].rx = p.machines[m].rx
    /\ q.machines[m].osr = p.machines[m].osr /\ q.machines[m].isr = p.machines[m].isr
    /\ q.line = p.line /\ q.dreqTx = p.dreqTx /\ q.dreqRx = p.dreqRx

LEMMA TunesAgain ==
    ASSUME NEW p, NEW q, NEW r, NEW m, Tunes(p, q, m), Tunes(q, r, m)
    PROVE  Tunes(p, r, m)
<1>1. Elsewhere(p, r, m)
  BY ElsewhereAgain DEF Tunes, Sides
<1> QED BY <1>1 DEF Tunes, Sides

LEMMA TunesLine ==
    ASSUME NEW p, NEW q, NEW m \in Machine, LineUp(p), Tunes(p, q, m)
    PROVE  LineUp(q)
<1>1. \A n \in Machine : /\ q.machines[n].tx = p.machines[n].tx
                         /\ q.machines[n].rx = p.machines[n].rx
  BY DEF Tunes, Sides, Elsewhere
<1>2. intRaw(q) = intRaw(p)
  BY <1>1 DEF intRaw, Tunes, Sides
<1> QED BY <1>2 DEF LineUp, Tunes, Sides

LEMMA SetsTunes ==
    ASSUME NEW p \in Block, NEW q, NEW m \in Machine, NEW ch \in Channel, Sets(p, q, m, ch),
           ch.tx = p.machines[m].tx, ch.rx = p.machines[m].rx,
           ch.osr = p.machines[m].osr, ch.isr = p.machines[m].isr
    PROVE  Tunes(p, q, m) /\ q.machines[m] = ch
<1>1. q.machines[m] = ch /\ Elsewhere(p, q, m)
  BY DEF Sets, Block, Elsewhere
<1> QED BY <1>1 DEF Tunes, Sides, Sets

LEMMA RunningTunes ==
    ASSUME NEW p \in Block, NEW m \in Machine
    PROVE  LET q == [p EXCEPT !.machines[m].wait = Running]
           IN  Tunes(p, q, m) /\ q.machines[m].wait = Running
<1> DEFINE q == [p EXCEPT !.machines[m].wait = Running]
<1>1. p.machines[m] \in Channel
  BY DEF Block
<1>2. PICK ch \in Channel : ch = [p.machines[m] EXCEPT !.wait = Running]
  BY <1>1, WaitsMade DEF Channel
<1>3. /\ ch.tx = p.machines[m].tx /\ ch.rx = p.machines[m].rx
      /\ ch.osr = p.machines[m].osr /\ ch.isr = p.machines[m].isr
      /\ ch.wait = Running
  BY <1>1, <1>2 DEF Channel
<1>4. q = [p EXCEPT !.machines[m] = ch]
  BY <1>2 DEF Block
<1> HIDE DEF q
<1>5. Sets(p, q, m, ch)
  BY <1>4, SetsChannel
<1>6. Tunes(p, q, m) /\ q.machines[m].wait = Running
  BY <1>3, <1>5, SetsTunes
<1> QED BY <1>6 DEF q

LEMMA NextPCTunes ==
    ASSUME program \in Programs, NEW p \in Block, NEW m \in Machine
    PROVE  LET q == nextPC(p, m)
           IN  Tunes(p, q, m) /\ q.machines[m].wait = p.machines[m].wait
<1> DEFINE q == nextPC(p, m)
<1>1. PICK a \in 0 .. 31 : Sets(p, q, m, [p.machines[m] EXCEPT !.pc = a])
  BY NextPCFacts
<1> HIDE DEF q
<1>2. p.machines[m] \in Channel
  BY DEF Block
<1>3. PICK ch \in Channel : ch = [p.machines[m] EXCEPT !.pc = a]
  BY <1>2 DEF Channel
<1>4. /\ ch.tx = p.machines[m].tx /\ ch.rx = p.machines[m].rx
      /\ ch.osr = p.machines[m].osr /\ ch.isr = p.machines[m].isr
      /\ ch.wait = p.machines[m].wait
  BY <1>2, <1>3 DEF Channel
<1>5. Sets(p, q, m, ch)
  BY <1>1, <1>3
<1> QED BY <1>4, <1>5, SetsTunes DEF q

LEMMA OutTunes ==
    ASSUME NEW p \in Block, NEW m \in Machine, NEW units \in 1 .. Full
    PROVE  Tunes(p, outInstruction(p, m, units), m)
<1> DEFINE c == IF p.machines[m].osrCount + units > Full THEN Full
                ELSE p.machines[m].osrCount + units
           q == outInstruction(p, m, units)
<1>1. p.machines[m] \in Channel /\ p.machines[m].osrCount \in 0 .. Full
  BY DEF Block, Channel
<1>2. c \in 0 .. Full
  BY <1>1
<1>3. q = [p EXCEPT !.machines[m].osrCount = c]
  BY <1>1 DEF outInstruction, Block
<1> HIDE DEF c, q
<1>4. PICK ch \in Channel : ch = [p.machines[m] EXCEPT !.osrCount = c]
  BY <1>1, <1>2 DEF Channel
<1>5. /\ ch.tx = p.machines[m].tx /\ ch.rx = p.machines[m].rx
      /\ ch.osr = p.machines[m].osr /\ ch.isr = p.machines[m].isr
  BY <1>1, <1>4 DEF Channel
<1>6. q = [p EXCEPT !.machines[m] = ch]
  BY <1>3, <1>4 DEF Block
<1>7. Sets(p, q, m, ch)
  BY <1>6, SetsChannel
<1> QED BY <1>5, <1>7, SetsTunes DEF q

\* The machine goes on once what was left of its instruction is done.
LEMMA GoesOn ==
    ASSUME program \in Programs, NEW p, NEW m \in Machine, Satisfied(p, m),
           NEW r \in Block, Tunes(r, completed(p, m), m)
    PROVE  LET q == checkWait(p, m)
           IN  Tunes(r, q, m) /\ q.machines[m].wait = Running
<1> DEFINE s == completed(p, m)
           t == [s EXCEPT !.machines[m].wait = Running]
           q == nextPC(t, m)
<1>1. checkWait(p, m) = q
  BY DEF checkWait
<1>2. s \in Block
  BY DEF Tunes, Sides
<1> HIDE DEF s
<1>3. Tunes(s, t, m) /\ t.machines[m].wait = Running
  BY <1>2, RunningTunes
<1> HIDE DEF t
<1>4. Tunes(t, q, m) /\ q.machines[m].wait = t.machines[m].wait
  <2>1. t \in Block
    BY <1>3 DEF Tunes, Sides
  <2> QED BY <2>1, NextPCTunes
<1> HIDE DEF q
<1>5. Tunes(r, q, m)
  BY <1>3, <1>4, TunesAgain DEF s
<1> QED BY <1>1, <1>3, <1>4, <1>5

LEMMA TunesSelf ==
    ASSUME NEW p \in Block, NEW m
    PROVE  Tunes(p, p, m)
BY DEF Tunes, Sides, Elsewhere

\* Firmware has written a word, and machine m has not looked yet.
Written(p, q, m, w) ==
    /\ q \in Block /\ Elsewhere(p, q, m)
    /\ q.machines[m].tx = Append(p.machines[m].tx, w)
    /\ Len(q.machines[m].tx) = Len(p.machines[m].tx) + 1
    /\ q.machines[m].rx = p.machines[m].rx /\ q.machines[m].wait = p.machines[m].wait
    /\ q.machines[m].osr = p.machines[m].osr /\ q.machines[m].isr = p.machines[m].isr
    /\ q.irq = p.irq /\ q.txStall = p.txStall \ {m} /\ q.rxStall = p.rxStall
    /\ q.fdebug = p.fdebug /\ q.inte = p.inte /\ q.line = p.line /\ q.pin = p.pin
    /\ q.dreqTx = IF Len(q.machines[m].tx) = Depth THEN p.dreqTx \ {m} ELSE p.dreqTx \cup {m}
    /\ q.dreqRx = p.dreqRx

LEMMA WriteWrites ==
    ASSUME NEW p \in Block, NEW m \in Machine, NEW w \in Word
    PROVE  Written(p, updateDMATx([p EXCEPT !.machines[m].tx = Append(@, w),
                                            !.txStall = @ \ {m}], m), m, w)
<1> DEFINE tx == p.machines[m].tx
           r == [p EXCEPT !.machines[m].tx = Append(@, w), !.txStall = @ \ {m}]
           q == updateDMATx(r, m)
<1>1. p.machines[m] \in Channel /\ p.machines \in [Machine -> Channel] /\ tx \in Seq(Word)
  BY DEF Block, Channel
<1>2. Append(tx, w) \in Seq(Word) /\ Len(Append(tx, w)) = Len(tx) + 1
  BY <1>1, AppendProperties
<1>3. PICK ch \in Channel : ch = [p.machines[m] EXCEPT !.tx = Append(@, w)]
  BY <1>1, <1>2 DEF Channel
<1>4. /\ ch.tx = Append(tx, w) /\ ch.rx = p.machines[m].rx /\ ch.wait = p.machines[m].wait
      /\ ch.osr = p.machines[m].osr /\ ch.isr = p.machines[m].isr
  BY <1>1, <1>3 DEF Channel
<1>5. PICK machines \in [Machine -> Channel] : machines = [p.machines EXCEPT ![m] = ch]
  BY <1>1
<1>6. r = [p EXCEPT !.machines = machines, !.txStall = p.txStall \ {m}]
  BY <1>1, <1>3, <1>5 DEF Block
<1> HIDE DEF r
<1>7. /\ r \in Block /\ r.machines = machines
      /\ r.irq = p.irq /\ r.txStall = p.txStall \ {m} /\ r.rxStall = p.rxStall
      /\ r.fdebug = p.fdebug /\ r.inte = p.inte /\ r.line = p.line /\ r.pin = p.pin
      /\ r.dreqTx = p.dreqTx /\ r.dreqRx = p.dreqRx
  BY <1>6 DEF Block
<1>8. machines[m] = ch /\ \A n \in Machine \ {m} : machines[n] = p.machines[n]
  BY <1>1, <1>5
<1>9. /\ q \in Block /\ q.machines = r.machines
      /\ q.irq = r.irq /\ q.txStall = r.txStall /\ q.rxStall = r.rxStall
      /\ q.fdebug = r.fdebug /\ q.inte = r.inte /\ q.line = r.line
      /\ q.dreqTx = (IF Len(ch.tx) = Depth THEN r.dreqTx \ {m} ELSE r.dreqTx \cup {m})
      /\ q.dreqRx = r.dreqRx /\ q.pin = r.pin
  BY <1>7, <1>8 DEF updateDMATx, Block
<1> HIDE DEF q
<1>10. Written(p, q, m, w)
  BY <1>2, <1>4, <1>7, <1>8, <1>9 DEF Written, Elsewhere
<1> QED BY <1>10 DEF q, r

\* Firmware has read a word, and machine m has not looked yet.
Read(p, q, m) ==
    /\ q \in Block /\ Elsewhere(p, q, m)
    /\ q.machines[m].rx = Tail(p.machines[m].rx)
    /\ Len(q.machines[m].rx) = Len(p.machines[m].rx) - 1
    /\ q.machines[m].tx = p.machines[m].tx /\ q.machines[m].wait = p.machines[m].wait
    /\ q.machines[m].osr = p.machines[m].osr /\ q.machines[m].isr = p.machines[m].isr
    /\ q.irq = p.irq /\ q.txStall = p.txStall /\ q.rxStall = p.rxStall \ {m}
    /\ q.fdebug = p.fdebug /\ q.inte = p.inte /\ q.line = p.line /\ q.pin = p.pin
    /\ q.dreqRx = IF q.machines[m].rx = <<>> THEN p.dreqRx \ {m} ELSE p.dreqRx \cup {m}
    /\ q.dreqTx = p.dreqTx

LEMMA ReadReads ==
    ASSUME NEW p \in Block, NEW m \in Machine, p.machines[m].rx # <<>>
    PROVE  Read(p, updateDMARx([p EXCEPT !.machines[m].rx = Tail(@),
                                         !.rxStall = @ \ {m}], m), m)
<1> DEFINE rx == p.machines[m].rx
           r == [p EXCEPT !.machines[m].rx = Tail(@), !.rxStall = @ \ {m}]
           q == updateDMARx(r, m)
<1>1. p.machines[m] \in Channel /\ p.machines \in [Machine -> Channel] /\ rx \in Seq(Word)
  BY DEF Block, Channel
<1>2. Tail(rx) \in Seq(Word) /\ Len(Tail(rx)) = Len(rx) - 1
  BY <1>1
<1>3. PICK ch \in Channel : ch = [p.machines[m] EXCEPT !.rx = Tail(@)]
  BY <1>1, <1>2 DEF Channel
<1>4. /\ ch.rx = Tail(rx) /\ ch.tx = p.machines[m].tx /\ ch.wait = p.machines[m].wait
      /\ ch.osr = p.machines[m].osr /\ ch.isr = p.machines[m].isr
  BY <1>1, <1>3 DEF Channel
<1>5. PICK machines \in [Machine -> Channel] : machines = [p.machines EXCEPT ![m] = ch]
  BY <1>1
<1>6. r = [p EXCEPT !.machines = machines, !.rxStall = p.rxStall \ {m}]
  BY <1>1, <1>3, <1>5 DEF Block
<1> HIDE DEF r
<1>7. /\ r \in Block /\ r.machines = machines
      /\ r.irq = p.irq /\ r.txStall = p.txStall /\ r.rxStall = p.rxStall \ {m}
      /\ r.fdebug = p.fdebug /\ r.inte = p.inte /\ r.line = p.line /\ r.pin = p.pin
      /\ r.dreqTx = p.dreqTx /\ r.dreqRx = p.dreqRx
  BY <1>6 DEF Block
<1>8. machines[m] = ch /\ \A n \in Machine \ {m} : machines[n] = p.machines[n]
  BY <1>1, <1>5
<1>9. /\ q \in Block /\ q.machines = r.machines
      /\ q.irq = r.irq /\ q.txStall = r.txStall /\ q.rxStall = r.rxStall
      /\ q.fdebug = r.fdebug /\ q.inte = r.inte /\ q.line = r.line
      /\ q.dreqRx = (IF ch.rx = <<>> THEN r.dreqRx \ {m} ELSE r.dreqRx \cup {m})
      /\ q.dreqTx = r.dreqTx /\ q.pin = r.pin
  BY <1>7, <1>8 DEF updateDMARx, Block
<1> HIDE DEF q
<1>10. Read(p, q, m)
  BY <1>2, <1>4, <1>7, <1>8, <1>9 DEF Read, Elsewhere
<1> QED BY <1>10 DEF q, r

LEMMA ChecksAgain ==
    ASSUME NEW p, Sound(p)
    PROVE  LET q == checkInterrupts(p) IN Sound(q) /\ q.machines = p.machines
<1> DEFINE q == checkInterrupts(p)
<1>1. /\ q \in Block /\ q.machines = p.machines
      /\ q.irq = p.irq /\ q.txStall = p.txStall /\ q.rxStall = p.rxStall
      /\ q.fdebug = p.fdebug
      /\ q.dreqTx = p.dreqTx /\ q.dreqRx = p.dreqRx
      /\ LineUp(q)
  BY CheckInterruptsFacts DEF Sound, Consistent
<1> HIDE DEF q
<1>2. Consistent(q)
  BY <1>1 DEF Sound, Consistent, Bounded, DreqsTrue, StallsOnFIFO
<1>3. Sound(q)
  BY <1>1, <1>2 DEF Sound, StallsOnFlag
<1> QED BY <1>1, <1>3 DEF q

\* A look at the condition when nothing that machine m stalls on a FIFO for has come.
LEMMA LooksInVain ==
    ASSUME program \in Programs, NEW p, NEW m \in Machine, Sound(p)
    PROVE  LET q == checkWait(p, m)
           IN  /\ Sound(q) /\ \A n \in Machine : Still(p, q, n)
               /\ \A n \in Machine : \A f \in 0 .. 7 : Awaits(p, n, f) => Awaits(q, n, f)
<1> DEFINE q == checkWait(p, m)
<1>1. Consistent(p) /\ LineUp(p) /\ \A n \in Machine : StallsOnFlag(p, n)
  BY DEF Sound
<1>2. Looked(p, q, m)
  BY <1>1, CheckWaitFacts
<1> HIDE DEF q
<1>3. Sound(q) /\ \A n \in Machine : Still(p, q, n)
  BY <1>1, <1>2, ReleasedFacts DEF Looked, Sound
<1>4. \A n \in Machine \ {m} : \A f \in 0 .. 7 : Awaits(p, n, f) => Awaits(q, n, f)
  BY <1>2 DEF Looked, Awaits
<1>5. \A f \in 0 .. 7 : Awaits(p, m, f) => f \notin p.irq
  BY <1>1 DEF StallsOnFlag, Awaits
<1>6. \A f \in 0 .. 7 : Awaits(p, m, f) => Awaits(q, m, f)
  BY <1>2, <1>5 DEF Looked
<1> QED BY <1>3, <1>4, <1>6 DEF q

WritesWord(p, q, m, w) ==
    /\ \/ /\ Len(p.machines[m].tx) < Depth
          /\ q.machines[m].tx = Append(p.machines[m].tx, w)
          /\ q.machines[m].osr = p.machines[m].osr
       \/ p.machines[m].tx = <<>> /\ q.machines[m].tx = <<>> /\ q.machines[m].osr = w
    /\ q.machines[m].isr = p.machines[m].isr /\ Handed(q, m) = Handed(p, m)

\* q is p after firmware wrote w to machine m, or found its FIFO full.
Wrote(p, q, m, w) ==
    /\ Sound(q) /\ OneWoken(p, q)
    /\ Still(p, q, m) \/ WritesWord(p, q, m, w)
    /\ \A n \in Machine \ {m} : Still(p, q, n)

\* Machine m stalls on something else.
LEMMA WriteUnawaited ==
    ASSUME program \in Programs, NEW p, Sound(p), NEW m \in Machine, NEW w \in Word,
           Len(p.machines[m].tx) < Depth, p.machines[m].wait.type \notin {"tx", "out"},
           NEW r, Written(p, r, m, w)
    PROVE  Wrote(p, checkWait(r, m), m, w)
<1> DEFINE q == checkWait(r, m)
<1>1. /\ Consistent(p) /\ LineUp(p) /\ StallsOnFIFO(p, m) /\ p \in Block
      /\ Len(p.machines[m].tx) \in Nat /\ Len(p.machines[m].rx) <= Depth
  <2>1. /\ Consistent(p) /\ LineUp(p) /\ StallsOnFIFO(p, m) /\ p \in Block
        /\ Len(p.machines[m].rx) <= Depth
    BY DEF Sound, Consistent, Bounded
  <2>2. p.machines[m] \in Channel
    BY <2>1 DEF Block
  <2> QED BY <2>1, <2>2 DEF Channel
<1>2. StallsOnFIFO(r, m)
  BY <1>1 DEF StallsOnFIFO, Written
<1>3. Len(r.machines[m].tx) <= Depth /\ Len(r.machines[m].rx) <= Depth
  BY <1>1 DEF Written
<1>4. Consistent(r)
  BY <1>1, <1>2, <1>3, ConsistentElsewhere DEF Written
<1>5. LineUp(r)
  <2>1. m \in p.dreqTx
    BY <1>1 DEF Consistent, DreqsTrue
  <2>2. r.dreqTx \subseteq p.dreqTx
    BY <2>1 DEF Written
  <2> QED BY <1>1, <1>4, <2>2, LineKept DEF Written, Consistent
<1>6. \A n \in Machine : r.machines[n].wait = p.machines[n].wait
  BY DEF Written, Elsewhere
<1>7. Sound(r)
  <2>1. \A n \in Machine : StallsOnFlag(r, n)
    BY <1>6 DEF Sound, StallsOnFlag, Written
  <2> QED BY <1>4, <1>5, <2>1 DEF Sound
<1>8. /\ Sound(q) /\ \A n \in Machine : Still(r, q, n)
      /\ \A n \in Machine : \A f \in 0 .. 7 : Awaits(r, n, f) => Awaits(q, n, f)
  BY <1>7, LooksInVain
<1> HIDE DEF q
<1>9. OneWoken(p, q)
  <2>1. \A n \in Machine : \A f \in 0 .. 7 : Awaits(p, n, f) => Awaits(r, n, f)
    BY <1>6 DEF Awaits
  <2>2. \A n \in Machine : \A f \in 0 .. 7 : Awaits(p, n, f) => Awaits(q, n, f)
    BY <1>8, <2>1
  <2> QED BY <2>2 DEF OneWoken
<1>10. Handed(r, m) = Handed(p, m)
  BY DEF Handed, Written
<1>11. WritesWord(p, q, m, w)
  BY <1>8, <1>10 DEF WritesWord, Still, Written
<1>12. \A n \in Machine \ {m} : Still(p, q, n)
  <2>1. \A n \in Machine \ {m} : Still(p, r, n)
    BY DEF Still, Handed, Written, Elsewhere
  <2> QED BY <1>8, <2>1, StillAgain
<1> QED BY <1>8, <1>9, <1>11, <1>12 DEF Wrote, q

\* Machine m stalls on the word.
LEMMA WriteAwaited ==
    ASSUME program \in Programs, NEW p, Sound(p), NEW m \in Machine, NEW w \in Word,
           p.machines[m].wait.type \in {"tx", "out"}, NEW r, Written(p, r, m, w)
    PROVE  Wrote(p, checkWait(r, m), m, w)
<1> DEFINE q == checkWait(r, m)
           a == pullWord(r, m)
<1>1. /\ Consistent(p) /\ p \in Block /\ p.machines[m].tx = <<>>
      /\ Len(p.machines[m].rx) <= Depth /\ p.machines[m].wait \in Waits
      /\ r \in Block /\ Elsewhere(p, r, m)
  BY DEF Sound, Consistent, Bounded, StallsOnFIFO, Block, Channel, Written
<1>2. /\ r.machines[m].tx = <<w>> /\ r.machines[m].tx # <<>>
      /\ Head(r.machines[m].tx) = w /\ Tail(r.machines[m].tx) = <<>>
      /\ Len(r.machines[m].tx) = 1
  BY <1>1 DEF Written
<1>3. Pulled(r, a, m)
  BY <1>1, <1>2, PullWordPulls
<1>4. a \in Block
  BY <1>3 DEF Pulled, Sides
<1>5. r.machines[m].wait = p.machines[m].wait
  BY DEF Written
<1>6. Tunes(a, completed(r, m), m)
  <2>1. CASE p.machines[m].wait.type = "tx"
    <3>1. completed(r, m) = a
      BY <1>5, <2>1 DEF completed
    <3> QED BY <1>4, <3>1, TunesSelf
  <2>2. CASE p.machines[m].wait.type = "out"
    <3>1. completed(r, m) = outInstruction(a, m, p.machines[m].wait.index)
      BY <1>5, <2>2 DEF completed
    <3>2. p.machines[m].wait.index \in 1 .. Full
      BY <1>1, <2>2, WaitTypes
    <3> HIDE DEF a
    <3> QED BY <1>4, <3>1, <3>2, OutTunes
  <2> QED BY <2>1, <2>2
<1>7. Satisfied(r, m)
  BY <1>2, <1>5 DEF Satisfied
<1> HIDE DEF a
<1>8. Tunes(a, q, m) /\ q.machines[m].wait = Running
  BY <1>4, <1>6, <1>7, GoesOn
<1> HIDE DEF q
<1>9. /\ q.machines[m].tx = <<>> /\ q.machines[m].osr = w
      /\ q.machines[m].isr = p.machines[m].isr /\ q.machines[m].rx = p.machines[m].rx
  BY <1>2, <1>3, <1>8 DEF Tunes, Pulled, Written
<1>10. Elsewhere(p, q, m)
  BY <1>1, <1>3, <1>8, ElsewhereAgain DEF Tunes, Pulled, Sides
<1>11. Consistent(q)
  <2>1. q.dreqTx = p.dreqTx \cup {m} /\ q.dreqRx = p.dreqRx
    <3>1. q.dreqTx = IF Len(a.machines[m].tx) = Depth THEN r.dreqTx \ {m} ELSE r.dreqTx \cup {m}
      BY <1>3, <1>8 DEF Tunes, Pulled
    <3>2. Len(a.machines[m].tx) = 0
      BY <1>2, <1>3 DEF Pulled
    <3>3. q.dreqTx = r.dreqTx \cup {m}
      BY <3>1, <3>2
    <3>4. r.dreqTx = p.dreqTx \ {m} \/ r.dreqTx = p.dreqTx \cup {m}
      BY DEF Written
    <3>5. q.dreqRx = p.dreqRx
      BY <1>3, <1>8 DEF Tunes, Pulled, Written
    <3> QED BY <3>3, <3>4, <3>5
  <2>2. StallsOnFIFO(q, m)
    BY <1>8 DEF StallsOnFIFO, Running
  <2>3. /\ p.txStall \ {m} \subseteq q.txStall /\ p.rxStall \ {m} \subseteq q.rxStall
        /\ p.fdebug \subseteq q.fdebug /\ q \in Block
    BY <1>3, <1>8 DEF Tunes, Pulled, Sides, Written
  <2>4. Len(q.machines[m].tx) = 0 /\ Len(q.machines[m].tx) <= Depth
        /\ Len(q.machines[m].rx) <= Depth
    BY <1>1, <1>9
  <2>5. q.dreqTx = IF Len(q.machines[m].tx) = Depth THEN p.dreqTx \ {m} ELSE p.dreqTx \cup {m}
    BY <2>1, <2>4
  <2> QED BY <1>1, <1>9, <1>10, <2>1, <2>2, <2>3, <2>4, <2>5, ConsistentElsewhere
<1>12. LineUp(q)
  BY <1>3, <1>8, TunesLine DEF Pulled
<1>13. q.irq = p.irq
  BY <1>3, <1>8 DEF Tunes, Pulled, Sides, Written
<1>14. Sound(q)
  <2>1. \A n \in Machine \ {m} : StallsOnFlag(q, n)
    BY <1>10, <1>13 DEF Sound, StallsOnFlag, Elsewhere
  <2>2. StallsOnFlag(q, m)
    BY <1>8 DEF StallsOnFlag, Running
  <2> QED BY <1>11, <1>12, <2>1, <2>2 DEF Sound
<1>15. OneWoken(p, q)
  <2>1. \A n \in Machine \ {m} : \A f \in 0 .. 7 : Awaits(p, n, f) => Awaits(q, n, f)
    BY <1>10 DEF Awaits, Elsewhere
  <2> QED BY <2>1 DEF OneWoken
<1>16. Handed(q, m) = Handed(p, m)
  <2>1. q.machines[m].wait.type # "rx" /\ p.machines[m].wait.type # "rx"
    BY <1>8 DEF Running
  <2> QED BY <1>9, <2>1 DEF Handed
<1>17. WritesWord(p, q, m, w)
  BY <1>1, <1>9, <1>16 DEF WritesWord
<1>18. \A n \in Machine \ {m} : Still(p, q, n)
  BY <1>10 DEF Still, Handed, Elsewhere
<1> QED BY <1>14, <1>15, <1>17, <1>18 DEF Wrote, q

LEMMA WriteFacts ==
    ASSUME program \in Programs, NEW p, Sound(p), NEW m \in Machine, NEW w \in Word
    PROVE  Wrote(p, writeFIFO(p, m, w), m, w)
<1> DEFINE r == updateDMATx([p EXCEPT !.machines[m].tx = Append(@, w),
                                      !.txStall = @ \ {m}], m)
           s == checkWait(r, m)
           q == IF Len(s.machines[m].tx) = Depth THEN checkInterrupts(s) ELSE s
<1>1. Len(p.machines[m].tx) \in Nat /\ Len(p.machines[m].tx) <= Depth /\ p \in Block
  BY SMTT(20) DEF Sound, Consistent, Bounded, Block, Channel
<1>2. CASE Len(p.machines[m].tx) = Depth
  <2>1. writeFIFO(p, m, w) = p
    BY <1>2 DEF writeFIFO
  <2> QED BY <2>1 DEF Wrote, OneWoken, Still
<1>3. CASE Len(p.machines[m].tx) < Depth
  <2>1. writeFIFO(p, m, w) = q
    BY <1>1, <1>3 DEF writeFIFO
  <2>2. Written(p, r, m, w)
    BY <1>1, WriteWrites
  <2> HIDE DEF r
  <2>3. Wrote(p, s, m, w)
    BY <1>3, <2>2, WriteUnawaited, WriteAwaited
  <2> HIDE DEF s
  <2>4. Sound(q) /\ q.machines = s.machines
    BY <2>3, ChecksAgain DEF Wrote
  <2> HIDE DEF q
  <2>5. OneWoken(p, q)
    <3>1. \A n \in Machine : \A f \in 0 .. 7 : Awaits(q, n, f) <=> Awaits(s, n, f)
      BY <2>4 DEF Awaits
    <3> QED BY <2>3, <3>1 DEF OneWoken, Wrote
  <2>6. \A n \in Machine : Handed(q, n) = Handed(s, n)
    BY <2>4 DEF Handed
  <2>7. Still(p, q, m) \/ WritesWord(p, q, m, w)
    BY <2>3, <2>4, <2>6 DEF Wrote, Still, WritesWord
  <2>8. \A n \in Machine \ {m} : Still(p, q, n)
    BY <2>3, <2>4, <2>6 DEF Wrote, Still
  <2> QED BY <2>1, <2>4, <2>5, <2>7, <2>8 DEF Wrote
<1> QED BY <1>1, <1>2, <1>3

ReadsWord(p, q, m) ==
    /\ Handed(p, m) # <<>> /\ Handed(q, m) = Tail(Handed(p, m))
    /\ q.machines[m].tx = p.machines[m].tx /\ q.machines[m].osr = p.machines[m].osr
    /\ q.machines[m].isr = p.machines[m].isr

\* q is p after firmware read a word of machine m, or found none.
HasRead(p, q, m) ==
    /\ Sound(q) /\ OneWoken(p, q)
    /\ Still(p, q, m) \/ ReadsWord(p, q, m)
    /\ \A n \in Machine \ {m} : Still(p, q, n)

\* Machine m stalls on something else.
LEMMA ReadUnawaited ==
    ASSUME program \in Programs, NEW p, Sound(p), NEW m \in Machine,
           p.machines[m].rx # <<>>, p.machines[m].wait.type # "rx",
           NEW r, Read(p, r, m)
    PROVE  HasRead(p, checkWait(r, m), m)
<1> DEFINE q == checkWait(r, m)
<1>1. /\ Consistent(p) /\ LineUp(p) /\ StallsOnFIFO(p, m) /\ p \in Block
      /\ Len(p.machines[m].tx) <= Depth /\ Len(p.machines[m].rx) <= Depth
  BY DEF Sound, Consistent, Bounded
<1>2. StallsOnFIFO(r, m)
  BY <1>1 DEF StallsOnFIFO, Read
<1>3. Len(r.machines[m].tx) <= Depth /\ Len(r.machines[m].rx) <= Depth
  <2>1. p.machines[m].rx \in Seq(Word)
    BY <1>1 DEF Block, Channel
  <2>2. Len(p.machines[m].rx) \in Nat
    BY <2>1
  <2> QED BY <1>1, <2>2 DEF Read
<1>4. Consistent(r)
  BY <1>1, <1>2, <1>3, ConsistentElsewhere DEF Read
<1>5. LineUp(r)
  <2>1. m \in p.dreqRx
    BY <1>1 DEF Consistent, DreqsTrue
  <2>2. r.dreqRx \subseteq p.dreqRx
    BY <2>1 DEF Read
  <2> QED BY <1>1, <1>4, <2>2, LineKept DEF Read, Consistent
<1>6. \A n \in Machine : r.machines[n].wait = p.machines[n].wait
  BY DEF Read, Elsewhere
<1>7. Sound(r)
  <2>1. \A n \in Machine : StallsOnFlag(r, n)
    BY <1>6 DEF Sound, StallsOnFlag, Read
  <2> QED BY <1>4, <1>5, <2>1 DEF Sound
<1>8. /\ Sound(q) /\ \A n \in Machine : Still(r, q, n)
      /\ \A n \in Machine : \A f \in 0 .. 7 : Awaits(r, n, f) => Awaits(q, n, f)
  BY <1>7, LooksInVain
<1> HIDE DEF q
<1>9. OneWoken(p, q)
  <2>1. \A n \in Machine : \A f \in 0 .. 7 : Awaits(p, n, f) => Awaits(r, n, f)
    BY <1>6 DEF Awaits
  <2>2. \A n \in Machine : \A f \in 0 .. 7 : Awaits(p, n, f) => Awaits(q, n, f)
    BY <1>8, <2>1
  <2> QED BY <2>2 DEF OneWoken
<1>10. Handed(p, m) = p.machines[m].rx /\ Handed(r, m) = Tail(p.machines[m].rx)
  <2>1. r.machines[m].wait.type # "rx" /\ r.machines[m].rx = Tail(p.machines[m].rx)
    BY DEF Read
  <2> QED BY <1>1, <1>4, <2>1, HandedFacts
<1>11. ReadsWord(p, q, m)
  BY <1>8, <1>10 DEF ReadsWord, Still, Read
<1>12. \A n \in Machine \ {m} : Still(p, q, n)
  <2>1. \A n \in Machine \ {m} : Still(p, r, n)
    BY DEF Still, Handed, Read, Elsewhere
  <2> QED BY <1>8, <2>1, StillAgain
<1> QED BY <1>8, <1>9, <1>11, <1>12 DEF HasRead, q

\* Machine m stalls on the room.
LEMMA ReadAwaited ==
    ASSUME program \in Programs, NEW p, Sound(p), NEW m \in Machine,
           p.machines[m].rx # <<>>, p.machines[m].wait.type = "rx",
           NEW r, Read(p, r, m)
    PROVE  HasRead(p, checkWait(r, m), m)
<1> DEFINE q == checkWait(r, m)
           w == p.machines[m].wait.index
           a == pushWord(r, m, w)
<1>1. /\ Consistent(p) /\ p \in Block
      /\ Len(p.machines[m].tx) <= Depth /\ Len(p.machines[m].rx) = Depth
      /\ p.machines[m].wait \in Waits /\ p.machines[m].rx \in Seq(Word)
      /\ r \in Block /\ Elsewhere(p, r, m)
  <2>1. /\ Consistent(p) /\ p \in Block /\ Len(p.machines[m].tx) <= Depth
        /\ Len(p.machines[m].rx) = Depth
    BY DEF Sound, Consistent, Bounded, StallsOnFIFO
  <2>2. p.machines[m] \in Channel
    BY <2>1 DEF Block
  <2> QED BY <2>1, <2>2 DEF Channel, Read
<1>19. Len(r.machines[m].rx) = Depth - 1
  BY <1>1 DEF Read
<1>2. w \in Word
  BY <1>1, WaitTypes
<1>3. Pushed(r, a, m, w)
  BY <1>1, <1>2, PushWordPushes
<1>4. a \in Block
  BY <1>3 DEF Pushed, Sides
<1>5. r.machines[m].wait = p.machines[m].wait
  BY DEF Read
<1>6. Tunes(a, completed(r, m), m)
  <2>1. completed(r, m) = a
    BY <1>5 DEF completed
  <2> QED BY <1>4, <2>1, TunesSelf
<1>7. Satisfied(r, m)
  <2>1. Len(r.machines[m].rx) < Depth
    BY <1>19, <1>1
  <2> QED BY <1>5, <2>1 DEF Satisfied
<1> HIDE DEF a, w
<1>8. Tunes(a, q, m) /\ q.machines[m].wait = Running
  BY <1>4, <1>6, <1>7, GoesOn
<1> HIDE DEF q
<1>9. /\ q.machines[m].rx = Append(Tail(p.machines[m].rx), w)
      /\ q.machines[m].rx # <<>> /\ Len(q.machines[m].rx) = Depth
      /\ q.machines[m].tx = p.machines[m].tx /\ q.machines[m].osr = p.machines[m].osr
      /\ q.machines[m].isr = p.machines[m].isr
  <2>1. q.machines[m].rx = Append(Tail(p.machines[m].rx), w)
    BY <1>3, <1>8 DEF Tunes, Pushed, Read
  <2>2. Len(q.machines[m].rx) = Depth
    <3>1. q.machines[m].rx = a.machines[m].rx
      BY <1>8 DEF Tunes
    <3>2. Len(a.machines[m].rx) = Len(r.machines[m].rx) + 1
      BY <1>3 DEF Pushed
    <3> QED BY <1>19, <3>1, <3>2
  <2>3. q.machines[m].rx # <<>>
    BY <2>2
  <2>4. /\ q.machines[m].tx = p.machines[m].tx /\ q.machines[m].osr = p.machines[m].osr
        /\ q.machines[m].isr = p.machines[m].isr
    BY <1>3, <1>8 DEF Tunes, Pushed, Read
  <2> QED BY <2>1, <2>2, <2>3, <2>4
<1>10. Elsewhere(p, q, m)
  BY <1>1, <1>3, <1>8, ElsewhereAgain DEF Tunes, Pushed, Sides
<1>11. Consistent(q)
  <2>1. q.dreqRx = p.dreqRx \cup {m} /\ q.dreqTx = p.dreqTx
    <3>1. q.dreqRx = IF a.machines[m].rx = <<>> THEN r.dreqRx \ {m} ELSE r.dreqRx \cup {m}
      BY <1>3, <1>8 DEF Tunes, Pushed
    <3>2. a.machines[m].rx # <<>>
      BY <1>8, <1>9 DEF Tunes
    <3>3. q.dreqRx = r.dreqRx \cup {m}
      BY <3>1, <3>2
    <3>4. r.dreqRx = p.dreqRx \ {m} \/ r.dreqRx = p.dreqRx \cup {m}
      BY DEF Read
    <3>5. q.dreqTx = p.dreqTx
      BY <1>3, <1>8 DEF Tunes, Pushed, Read
    <3> QED BY <3>3, <3>4, <3>5
  <2>2. StallsOnFIFO(q, m)
    BY <1>8 DEF StallsOnFIFO, Running
  <2>3. /\ p.txStall \ {m} \subseteq q.txStall /\ p.rxStall \ {m} \subseteq q.rxStall
        /\ p.fdebug \subseteq q.fdebug /\ q \in Block
    BY <1>3, <1>8 DEF Tunes, Pushed, Sides, Read
  <2>4. Len(q.machines[m].tx) <= Depth /\ Len(q.machines[m].rx) <= Depth
    BY <1>1, <1>9
  <2>5. q.dreqRx = IF q.machines[m].rx = <<>> THEN p.dreqRx \ {m} ELSE p.dreqRx \cup {m}
    BY <1>9, <2>1
  <2> QED BY <1>1, <1>9, <1>10, <2>1, <2>2, <2>3, <2>4, <2>5, ConsistentElsewhere
<1>12. LineUp(q)
  BY <1>3, <1>8, TunesLine DEF Pushed
<1>13. q.irq = p.irq
  BY <1>3, <1>8 DEF Tunes, Pushed, Sides, Read
<1>14. Sound(q)
  <2>1. \A n \in Machine \ {m} : StallsOnFlag(q, n)
    BY <1>10, <1>13 DEF Sound, StallsOnFlag, Elsewhere
  <2>2. StallsOnFlag(q, m)
    BY <1>8 DEF StallsOnFlag, Running
  <2> QED BY <1>11, <1>12, <2>1, <2>2 DEF Sound
<1>15. OneWoken(p, q)
  <2>1. \A n \in Machine \ {m} : \A f \in 0 .. 7 : Awaits(p, n, f) => Awaits(q, n, f)
    BY <1>10 DEF Awaits, Elsewhere
  <2> QED BY <2>1 DEF OneWoken
<1>16. Handed(p, m) = Append(p.machines[m].rx, w) /\ Handed(q, m) = q.machines[m].rx
  <2>1. q.machines[m].wait.type # "rx"
    BY <1>8 DEF Running
  <2> QED BY <1>1, <1>11, <2>1, HandedFacts DEF w
<1>17. ReadsWord(p, q, m)
  <2>1. Tail(Append(p.machines[m].rx, w)) = Append(Tail(p.machines[m].rx), w)
    BY <1>1, HeadTailAppend
  <2>2. Append(p.machines[m].rx, w) # <<>>
    BY <1>1, <1>2, AppendProperties
  <2> QED BY <1>9, <1>16, <2>1, <2>2 DEF ReadsWord
<1>18. \A n \in Machine \ {m} : Still(p, q, n)
  BY <1>10 DEF Still, Handed, Elsewhere
<1> QED BY <1>14, <1>15, <1>17, <1>18 DEF HasRead, q

LEMMA ReadFacts ==
    ASSUME program \in Programs, NEW p, Sound(p), NEW m \in Machine
    PROVE  HasRead(p, readFIFO(p, m), m)
<1> DEFINE r == updateDMARx([p EXCEPT !.machines[m].rx = Tail(@),
                                      !.rxStall = @ \ {m}], m)
           s == checkWait(r, m)
           q == IF s.machines[m].rx = <<>> THEN checkInterrupts(s) ELSE s
<1>1. p \in Block
  BY DEF Sound, Consistent
<1>2. CASE p.machines[m].rx = <<>>
  <2>1. readFIFO(p, m) = p
    BY <1>2 DEF readFIFO
  <2> QED BY <2>1 DEF HasRead, OneWoken, Still
<1>3. CASE p.machines[m].rx # <<>>
  <2>1. readFIFO(p, m) = q
    BY <1>3 DEF readFIFO
  <2>2. Read(p, r, m)
    BY <1>1, <1>3, ReadReads
  <2> HIDE DEF r
  <2>3. HasRead(p, s, m)
    BY <1>3, <2>2, ReadUnawaited, ReadAwaited
  <2> HIDE DEF s
  <2>4. Sound(q) /\ q.machines = s.machines
    BY <2>3, ChecksAgain DEF HasRead
  <2> HIDE DEF q
  <2>5. OneWoken(p, q)
    <3>1. \A n \in Machine : \A f \in 0 .. 7 : Awaits(q, n, f) <=> Awaits(s, n, f)
      BY <2>4 DEF Awaits
    <3> QED BY <2>3, <3>1 DEF OneWoken, HasRead
  <2>6. \A n \in Machine : Handed(q, n) = Handed(s, n)
    BY <2>4 DEF Handed
  <2>7. Still(p, q, m) \/ ReadsWord(p, q, m)
    BY <2>3, <2>4, <2>6 DEF HasRead, Still, ReadsWord
  <2>8. \A n \in Machine \ {m} : Still(p, q, n)
    BY <2>3, <2>4, <2>6 DEF HasRead, Still
  <2> QED BY <2>1, <2>4, <2>5, <2>7, <2>8 DEF HasRead
<1> QED BY <1>2, <1>3

-----------------------------------------------------------------------------
(* Firmware at the other registers, and the pin. *)

\* No word moves, and no two machines are woken by a flag.
Quiet(p, q) == Sound(q) /\ OneWoken(p, q) /\ \A n \in Machine : Still(p, q, n)

LEMMA MachinesKept ==
    ASSUME NEW p, NEW q, Sound(q), q.machines = p.machines
    PROVE  Quiet(p, q)
<1>1. OneWoken(p, q)
  BY DEF OneWoken, Awaits
<1>2. \A n \in Machine : Still(p, q, n)
  BY DEF Still, Handed
<1> QED BY <1>1, <1>2 DEF Quiet

LEMMA DebugQuiet ==
    ASSUME Inv, WriteFDEBUG
    PROVE  Quiet(pio, pio')
<1> DEFINE shown == {<<"tx", m>> : m \in pio.txStall} \cup {<<"rx", m>> : m \in pio.rxStall}
<1>1. Consistent(pio) /\ LineUp(pio) /\ pio \in Block
  BY DEF Inv, Sound, Consistent
<1>2. shown \in SUBSET ({"tx", "rx"} \X Machine)
  BY <1>1 DEF Block
<1>3. /\ \A n \in pio.txStall : <<"tx", n>> \in shown
      /\ \A n \in pio.rxStall : <<"rx", n>> \in shown
  OBVIOUS
<1>4. pio' = [pio EXCEPT !.fdebug = shown]
  BY DEF WriteFDEBUG
<1> HIDE DEF shown
<1>5. /\ pio' \in Block /\ pio'.machines = pio.machines
      /\ pio'.irq = pio.irq /\ pio'.txStall = pio.txStall /\ pio'.rxStall = pio.rxStall
      /\ pio'.fdebug = shown /\ pio'.inte = pio.inte /\ pio'.line = pio.line
      /\ pio'.dreqTx = pio.dreqTx /\ pio'.dreqRx = pio.dreqRx
  BY <1>1, <1>2, <1>4 DEF Block
<1>6. \A n \in Machine : StallsOnFIFO(pio, n) => StallsOnFIFO(pio', n)
  BY <1>3, <1>5 DEF StallsOnFIFO
<1>7. Consistent(pio')
  BY <1>1, <1>5, <1>6 DEF Consistent, Bounded, DreqsTrue
<1>8. LineUp(pio')
  BY <1>1, <1>5 DEF LineUp, intRaw
<1>9. \A n \in Machine : StallsOnFlag(pio', n)
  BY <1>5 DEF Inv, Sound, StallsOnFlag
<1>10. Sound(pio')
  BY <1>7, <1>8, <1>9 DEF Sound
<1> QED BY <1>5, <1>10, MachinesKept

LEMMA IRQQuiet ==
    ASSUME Inv, NEW cleared \in SUBSET (0 .. 7), NEW forced \in SUBSET (0 .. 7),
           WriteIRQ(cleared, forced)
    PROVE  Quiet(pio, pio')
<1> DEFINE flags == (pio.irq \ cleared) \cup forced
           q == irqUpdated([pio EXCEPT !.irq = flags])
<1>1. Consistent(pio) /\ flags \in SUBSET (0 .. 7)
  BY DEF Inv, Sound, Consistent, Block
<1>2. pio' = q
  BY DEF WriteIRQ
<1> HIDE DEF flags
<1>3. Sound(q) /\ OneWoken(pio, q) /\ \A n \in Machine : Still(pio, q, n)
  BY <1>1, FlagsWritten DEF Inv
<1> QED BY <1>2, <1>3 DEF Quiet

LEMMA INTEQuiet ==
    ASSUME Inv, NEW enabled \in Sources, WriteINTE(enabled)
    PROVE  Quiet(pio, pio')
<1> DEFINE r == [pio EXCEPT !.inte = enabled]
           q == checkInterrupts(r)
<1>1. Consistent(pio) /\ pio \in Block
  BY DEF Inv, Sound, Consistent
<1>2. /\ r \in Block /\ r.machines = pio.machines
      /\ r.irq = pio.irq /\ r.txStall = pio.txStall /\ r.rxStall = pio.rxStall
      /\ r.fdebug = pio.fdebug /\ r.dreqTx = pio.dreqTx /\ r.dreqRx = pio.dreqRx
  BY <1>1 DEF Block
<1> HIDE DEF r
<1>3. /\ q \in Block /\ q.machines = pio.machines
      /\ q.irq = pio.irq /\ q.txStall = pio.txStall /\ q.rxStall = pio.rxStall
      /\ q.fdebug = pio.fdebug /\ q.dreqTx = pio.dreqTx /\ q.dreqRx = pio.dreqRx
      /\ LineUp(q)
  BY <1>2, CheckInterruptsFacts
<1> HIDE DEF q
<1>4. Consistent(q)
  BY <1>1, <1>3 DEF Consistent, Bounded, DreqsTrue, StallsOnFIFO
<1>5. \A n \in Machine : StallsOnFlag(q, n)
  BY <1>3 DEF Inv, Sound, StallsOnFlag
<1>6. Quiet(pio, q)
  BY <1>3, <1>4, <1>5, MachinesKept DEF Sound
<1> QED BY <1>6 DEF WriteINTE, q, r

LEMMA PinQuiet ==
    ASSUME Inv, NEW value \in BOOLEAN, SetPin(value)
    PROVE  Quiet(pio, pio')
<1> DEFINE waiting == {m \in Machine : /\ pio.machines[m].enabled
                                       /\ pio.machines[m].wait.type = "pin"}
           r == [pio EXCEPT !.pin = value]
           q == told(r, waiting)
<1>1. Consistent(pio) /\ LineUp(pio) /\ pio \in Block
  BY DEF Inv, Sound, Consistent
<1>2. /\ r \in Block /\ r.machines = pio.machines
      /\ r.irq = pio.irq /\ r.txStall = pio.txStall /\ r.rxStall = pio.rxStall
      /\ r.fdebug = pio.fdebug /\ r.inte = pio.inte /\ r.line = pio.line
      /\ r.dreqTx = pio.dreqTx /\ r.dreqRx = pio.dreqRx
  BY <1>1 DEF Block
<1> HIDE DEF r
<1>3. Consistent(r) /\ LineUp(r)
  <2>1. Consistent(r)
    BY <1>1, <1>2 DEF Consistent, Bounded, DreqsTrue, StallsOnFIFO
  <2>2. LineUp(r)
    BY <1>1, <1>2 DEF LineUp, intRaw
  <2> QED BY <2>1, <2>2
<1>4. \A n \in Machine : StallsOnFlag(r, n)
  BY <1>2 DEF Inv, Sound, StallsOnFlag
<1>5. waiting \in SUBSET Machine
  OBVIOUS
<1> HIDE DEF waiting
<1>6. Released(r, q) /\ OneWoken(r, q)
  BY <1>3, <1>5, ToldFacts DEF Inv
<1> HIDE DEF q
<1>7. Sound(q) /\ \A n \in Machine : Still(r, q, n)
  BY <1>3, <1>4, <1>6, ReleasedFacts DEF Sound
<1>8. OneWoken(pio, q)
  <2>1. \A n \in Machine : \A f \in 0 .. 7 : Awaits(r, n, f) <=> Awaits(pio, n, f)
    BY <1>2 DEF Awaits
  <2> QED BY <1>6, <2>1 DEF OneWoken
<1>9. \A n \in Machine : Still(pio, q, n)
  BY <1>2, <1>7, ZenonT(30) DEF Still, Handed
<1>10. pio' = q
  BY DEF SetPin, q, r, waiting
<1> QED BY <1>7, <1>8, <1>9, <1>10 DEF Quiet

\* Machines go on, or lose the word in ISR and the one they stall on.
Restarts(p, q) ==
    \A n \in Machine :
        /\ q.machines[n].tx = p.machines[n].tx /\ q.machines[n].osr = p.machines[n].osr
        /\ \/ q.machines[n].isr = p.machines[n].isr /\ Handed(q, n) = Handed(p, n)
           \/ q.machines[n].isr = 0 /\ Handed(q, n) = p.machines[n].rx

LEMMA CTRLFacts ==
    ASSUME Inv, NEW enabled, NEW restarted, WriteCTRL(enabled, restarted)
    PROVE  Sound(pio') /\ Restarts(pio, pio')
<1> DEFINE Made(m) == LET ch == [pio.machines[m] EXCEPT !.enabled = (m \in enabled)]
                      IN  IF m \in restarted THEN restart(ch) ELSE ch
           machines == [m \in Machine |-> Made(m)]
<1>1. Consistent(pio) /\ LineUp(pio) /\ pio \in Block /\ pio.machines \in [Machine -> Channel]
  BY DEF Inv, Sound, Consistent, Block
<1>2. pio' = [pio EXCEPT !.machines = machines]
  BY DEF WriteCTRL
<1>3. ASSUME NEW m \in Machine
      PROVE  /\ Made(m) \in Channel
             /\ Made(m).tx = pio.machines[m].tx /\ Made(m).rx = pio.machines[m].rx
             /\ Made(m).osr = pio.machines[m].osr
             /\ \/ Made(m).wait = Running /\ Made(m).isr = 0
                \/ /\ Made(m).wait = pio.machines[m].wait
                   /\ Made(m).isr = pio.machines[m].isr
  <2> DEFINE ch == [pio.machines[m] EXCEPT !.enabled = (m \in enabled)]
  <2>1. pio.machines[m] \in Channel
    BY <1>1
  <2>2. /\ ch \in Channel
        /\ ch.tx = pio.machines[m].tx /\ ch.rx = pio.machines[m].rx
        /\ ch.osr = pio.machines[m].osr /\ ch.isr = pio.machines[m].isr
        /\ ch.wait = pio.machines[m].wait
    <3> DEFINE on == m \in enabled
    <3>1. on \in BOOLEAN
      OBVIOUS
    <3>2. ch = [pio.machines[m] EXCEPT !.enabled = on]
      OBVIOUS
    <3> HIDE DEF ch, on
    <3> QED BY <2>1, <3>1, <3>2 DEF Channel
  <2> HIDE DEF ch
  <2>3. CASE m \in restarted
    <3>1. Made(m) = restart(ch)
      BY <2>3 DEF ch
    <3>2. restart(ch) = [ch EXCEPT !.isr = 0, !.isrCount = 0, !.osrCount = Full,
                                   !.wait = Running, !.delay = 0]
      BY DEF restart
    <3>3. 0 \in Word /\ 0 \in 0 .. Full /\ Full \in 0 .. Full /\ 0 \in Nat /\ Running \in Waits
      BY WaitsMade
    <3>4. /\ restart(ch) \in Channel
          /\ restart(ch).tx = ch.tx /\ restart(ch).rx = ch.rx /\ restart(ch).osr = ch.osr
          /\ restart(ch).wait = Running /\ restart(ch).isr = 0
      BY <2>2, <3>2, <3>3 DEF Channel
    <3> HIDE DEF Made
    <3> QED BY <2>2, <3>1, <3>4
  <2>4. CASE m \notin restarted
    <3>1. Made(m) = ch
      BY <2>4 DEF ch
    <3> HIDE DEF Made
    <3> QED BY <2>2, <3>1
  <2> QED BY <2>3, <2>4
<1> HIDE DEF Made
<1>4. machines \in [Machine -> Channel]
  BY <1>3
<1>5. /\ pio' \in Block /\ \A n \in Machine : pio'.machines[n] = Made(n)
      /\ pio'.irq = pio.irq /\ pio'.txStall = pio.txStall /\ pio'.rxStall = pio.rxStall
      /\ pio'.fdebug = pio.fdebug /\ pio'.inte = pio.inte /\ pio'.line = pio.line
      /\ pio'.dreqTx = pio.dreqTx /\ pio'.dreqRx = pio.dreqRx
  BY <1>1, <1>2, <1>4 DEF Block
<1> HIDE DEF machines
<1>6. \A n \in Machine :
          /\ pio'.machines[n].tx = pio.machines[n].tx /\ pio'.machines[n].rx = pio.machines[n].rx
          /\ pio'.machines[n].osr = pio.machines[n].osr
          /\ \/ pio'.machines[n].wait = Running /\ pio'.machines[n].isr = 0
             \/ /\ pio'.machines[n].wait = pio.machines[n].wait
                /\ pio'.machines[n].isr = pio.machines[n].isr
  BY <1>3, <1>5
<1>7. Bounded(pio') /\ DreqsTrue(pio')
  BY <1>1, <1>5, <1>6 DEF Consistent, Bounded, DreqsTrue
<1>8. \A n \in Machine : StallsOnFIFO(pio', n)
  <2> SUFFICES ASSUME NEW n \in Machine PROVE StallsOnFIFO(pio', n)
    OBVIOUS
  <2>1. StallsOnFIFO(pio, n)
    BY <1>1 DEF Consistent
  <2>2. CASE pio'.machines[n].wait = Running
    BY <2>2 DEF StallsOnFIFO, Running
  <2>3. CASE pio'.machines[n].wait = pio.machines[n].wait
    BY <1>5, <1>6, <2>1, <2>3 DEF StallsOnFIFO
  <2> QED BY <1>6, <2>2, <2>3
<1>9. Consistent(pio')
  BY <1>5, <1>7, <1>8 DEF Consistent
<1>10. LineUp(pio')
  BY <1>1, <1>5, <1>9, LineKept DEF Consistent
<1>11. \A n \in Machine : StallsOnFlag(pio', n)
  BY <1>5, <1>6, FlagKept DEF Inv, Sound
<1>12. Restarts(pio, pio')
  <2> SUFFICES ASSUME NEW n \in Machine
               PROVE  \/ pio'.machines[n].isr = pio.machines[n].isr
                         /\ Handed(pio', n) = Handed(pio, n)
                      \/ pio'.machines[n].isr = 0 /\ Handed(pio', n) = pio.machines[n].rx
    BY <1>6 DEF Restarts
  <2>1. CASE pio'.machines[n].wait = Running /\ pio'.machines[n].isr = 0
    <3>1. pio'.machines[n].wait.type # "rx"
      BY <2>1 DEF Running
    <3>2. Handed(pio', n) = pio'.machines[n].rx
      BY <1>9, <3>1, HandedFacts
    <3> QED BY <1>6, <2>1, <3>2
  <2>2. CASE /\ pio'.machines[n].wait = pio.machines[n].wait
             /\ pio'.machines[n].isr = pio.machines[n].isr
    BY <1>6, <2>2 DEF Handed
  <2> QED BY <1>6, <2>1, <2>2
<1> QED BY <1>9, <1>10, <1>11, <1>12 DEF Sound

-----------------------------------------------------------------------------
(* The steps. *)

LEMMA ClockDone ==
    ASSUME Inv, NEW m \in Machine, Clock(m)
    PROVE  Done(pio, pio', m)
BY StepFacts DEF Inv, Clock

LEMMA INSTRDone ==
    ASSUME Inv, NEW m \in Machine, NEW i \in program.forced, WriteINSTR(m, i)
    PROVE  Done(pio, pio', m)
<1>1. PICK taken \in BOOLEAN : pio' = executeInstruction(pio, m, i, taken)
  BY DEF WriteINSTR
<1>2. i \in Instruction /\ (pio.machines[m].wait = Running \/ ~MayStall(i, program.sm[m]))
  BY ProgramAssumption DEF Inv, WriteINSTR
<1>3. Executed(pio, execute(pio, m, i, taken), m)
  BY <1>2, ExecuteFacts DEF Inv
<1> QED BY <1>1, <1>3, LookedAfter DEF Inv, executeInstruction

LEMMA TXFWrote ==
    ASSUME Inv, NEW m \in Machine, NEW w \in program.fed[m], WriteTXF(m, w)
    PROVE  w \in Word /\ Wrote(pio, pio', m, w)
<1>1. w \in Word
  BY ProgramAssumption DEF Inv
<1> QED BY <1>1, WriteFacts DEF Inv, WriteTXF

LEMMA RXFRead ==
    ASSUME Inv, NEW m \in Machine, ReadRXF(m)
    PROVE  HasRead(pio, pio', m)
BY ReadFacts DEF Inv, ReadRXF

\* The steps, by what they do to the words.
LEMMA NextKinds ==
    ASSUME Inv, Next
    PROVE  /\ program' = program
           /\ \/ \E m \in Machine : Done(pio, pio', m)
              \/ \E m \in Machine : \E w \in Word : Wrote(pio, pio', m, w)
              \/ \E m \in Machine : HasRead(pio, pio', m)
              \/ Quiet(pio, pio')
              \/ /\ \E c \in program.ctrl : WriteCTRL(c.enabled, c.restarted)
                 /\ Sound(pio') /\ Restarts(pio, pio')
<1>1. ASSUME NEW m \in Machine, Clock(m)
      PROVE  program' = program /\ Done(pio, pio', m)
  BY <1>1, ClockDone DEF Clock
<1>2. ASSUME NEW m \in Machine, ReadRXF(m)
      PROVE  program' = program /\ HasRead(pio, pio', m)
  BY <1>2, RXFRead DEF ReadRXF
<1>3. ASSUME NEW m \in Machine, NEW w \in program.fed[m], WriteTXF(m, w)
      PROVE  program' = program /\ w \in Word /\ Wrote(pio, pio', m, w)
  BY <1>3, TXFWrote DEF WriteTXF
<1>4. ASSUME NEW m \in Machine, NEW i \in program.forced, WriteINSTR(m, i)
      PROVE  program' = program /\ Done(pio, pio', m)
  BY <1>4, INSTRDone DEF WriteINSTR
<1>5. ASSUME NEW c \in program.ctrl, WriteCTRL(c.enabled, c.restarted)
      PROVE  program' = program /\ Sound(pio') /\ Restarts(pio, pio')
  BY <1>5, CTRLFacts DEF WriteCTRL
<1>6. ASSUME WriteFDEBUG
      PROVE  program' = program /\ Quiet(pio, pio')
  BY <1>6, DebugQuiet DEF WriteFDEBUG
<1>7. ASSUME NEW f \in program.flags, WriteIRQ({f}, {}) \/ WriteIRQ({}, {f})
      PROVE  program' = program /\ Quiet(pio, pio')
  <2>1. {f} \in SUBSET (0 .. 7) /\ {} \in SUBSET (0 .. 7)
    BY ProgramAssumption DEF Inv
  <2>2. Quiet(pio, pio')
    BY <1>7, <2>1, IRQQuiet
  <2> QED BY <1>7, <2>2 DEF WriteIRQ
<1>8. ASSUME NEW enabled \in Sources, WriteINTE(enabled)
      PROVE  program' = program /\ Quiet(pio, pio')
  BY <1>8, INTEQuiet DEF WriteINTE
<1>9. ASSUME NEW value \in BOOLEAN, SetPin(value)
      PROVE  program' = program /\ Quiet(pio, pio')
  BY <1>9, PinQuiet DEF SetPin
<1> QED BY <1>1, <1>2, <1>3, <1>4, <1>5, <1>6, <1>7, <1>8, <1>9 DEF Next

LEMMA InitInv == Init => Inv
<1> SUFFICES ASSUME Init PROVE Inv
  OBVIOUS
<1>1. program \in Programs
  BY DEF Init
<1>2. \A m \in Machine : AtRestart(m, program) \in Channel
  <2> SUFFICES ASSUME NEW m \in Machine PROVE AtRestart(m, program) \in Channel
    OBVIOUS
  <2>1. program.sm[m].wrapBottom \in 0 .. 31
    BY <1>1, ProgramAssumption
  <2>2. Running \in Waits /\ 0 \in Word /\ <<>> \in Seq(Word) /\ Full \in 0 .. Full /\ 0 \in 0 .. Full
    BY WaitsMade
  <2> QED BY <2>1, <2>2 DEF AtRestart, Channel
<1>3. [m \in Machine |-> AtRestart(m, program)] \in [Machine -> Channel]
  BY <1>2
<1>4. \A m \in Machine : pio.machines[m] = AtRestart(m, program)
  BY DEF Init
<1>5. \A m \in Machine : /\ pio.machines[m].tx = <<>> /\ pio.machines[m].rx = <<>>
                         /\ pio.machines[m].wait = Running
  <2> SUFFICES ASSUME NEW m \in Machine
               PROVE  /\ pio.machines[m].tx = <<>> /\ pio.machines[m].rx = <<>>
                      /\ pio.machines[m].wait = Running
    OBVIOUS
  <2>1. pio.machines[m] = AtRestart(m, program)
    BY <1>4
  <2> QED BY <2>1 DEF AtRestart
<1>6. /\ pio.irq = {} /\ pio.txStall = {} /\ pio.rxStall = {} /\ pio.inte = {}
      /\ pio.dreqTx = Machine /\ pio.dreqRx = {}
  BY DEF Init
<1>7. pio \in Block
  BY <1>3 DEF Init, Block
<1>8. Bounded(pio) /\ DreqsTrue(pio)
  BY <1>5, <1>6 DEF Bounded, DreqsTrue
<1>9. \A m \in Machine : StallsOnFIFO(pio, m) /\ StallsOnFlag(pio, m)
  BY <1>5 DEF StallsOnFIFO, StallsOnFlag, Running
<1>10. LineUp(pio)
  BY <1>6 DEF LineUp
<1> QED BY <1>1, <1>7, <1>8, <1>9, <1>10 DEF Inv, Sound, Consistent

LEMMA StepInv == Inv /\ [Next]_vars => Inv'
<1> SUFFICES ASSUME Inv, [Next]_vars PROVE Inv'
  OBVIOUS
<1>1. CASE Next
  BY <1>1, NextKinds DEF Inv, Done, Wrote, HasRead, Quiet
<1>2. CASE UNCHANGED vars
  <2>1. pio' = pio /\ program' = program
    BY <1>2 DEF vars
  <2> QED BY <2>1 DEF Inv
<1> QED BY <1>1, <1>2

\* Everything below holds because the invariant does.
LEMMA InvHolds == Spec => []Inv
BY InitInv, StepInv, PTL DEF Spec

-----------------------------------------------------------------------------
(* What the invariant says of the properties that are checked. *)

LEMMA InvSound == Inv => MachinesSound
<1> SUFFICES ASSUME Inv PROVE MachinesSound
  OBVIOUS
<1>1. /\ program \in Programs /\ pio \in Block /\ Bounded(pio)
      /\ \A m \in Machine : StallsOnFIFO(pio, m) /\ StallsOnFlag(pio, m)
  BY DEF Inv, Sound, Consistent
<1>2. \A m \in Machine : pio.machines[m] \in Channel
  BY <1>1 DEF Block
<1>3. TypeOK
  BY <1>1, <1>2 DEF TypeOK, Block, Channel, Bounded
<1>4. ASSUME NEW m \in Machine, pio.machines[m].wait.type = "irq", pio.machines[m].wait.polarity
      PROVE  pio.machines[m].wait.index \notin pio.irq
  <2>1. pio.machines[m].wait \in Waits
    BY <1>2 DEF Channel
  <2>2. pio.machines[m].wait.polarity = TRUE
    BY <1>4, <2>1, WaitTypes
  <2> QED BY <1>1, <1>4, <2>2 DEF StallsOnFlag
<1>5. StalledForCause
  BY <1>1, <1>4 DEF StalledForCause, StallsOnFIFO
<1> QED BY <1>3, <1>5 DEF MachinesSound

LEMMA InvAnnounced == Inv => SourcesAnnounced
BY DEF Inv, Sound, Consistent, DreqsTrue, LineUp, SourcesAnnounced

\* The registers and FIFOs of the block stay in range, and no machine stalls on a word,
\* a room or a flag that is there.
THEOREM MachinesStaySound == Spec => []MachinesSound
BY InvHolds, InvSound, PTL

\* The DREQs are always those of the FIFOs, and an interrupt that is enabled and has a
\* cause is up.
THEOREM SourcesStayAnnounced == Spec => []SourcesAnnounced
BY InvHolds, InvAnnounced, PTL

LEMMA WokenFew ==
    ASSUME NEW p, NEW q, OneWoken(p, q), NEW f \in 0 .. 7
    PROVE  Cardinality({m \in Machine : Awaits(p, m, f) /\ ~Awaits(q, m, f)}) <= 1
<1> DEFINE woken == {m \in Machine : Awaits(p, m, f) /\ ~Awaits(q, m, f)}
<1>1. \A n, o \in woken : n = o
  BY DEF OneWoken
<1>2. CASE woken = {}
  <2>1. Cardinality({}) = 0
    BY FS_EmptySet
  <2> QED BY <1>2, <2>1
<1>3. CASE woken # {}
  <2>1. PICK n : n \in woken
    BY <1>3
  <2>2. woken = {n}
    <3> HIDE DEF woken
    <3> QED BY <1>1, <2>1
  <2>3. Cardinality({n}) = 1
    BY FS_Singleton
  <2> QED BY <2>2, <2>3
<1> QED BY <1>2, <1>3

\* A flag that goes up wakes one of the machines that wait for it, whatever instruction,
\* register write or release of another machine raised it.
THEOREM FlagsWakeOne == Spec => FlagWakesOne
<1>1. ASSUME Inv, Next
      PROVE  \/ \E c \in program.ctrl : WriteCTRL(c.enabled, c.restarted)
             \/ \A f \in 0 .. 7 :
                   Cardinality({m \in Machine : Awaits(pio, m, f) /\ ~Awaits(pio', m, f)}) <= 1
  <2>1. \/ \E c \in program.ctrl : WriteCTRL(c.enabled, c.restarted)
        \/ OneWoken(pio, pio')
    BY <1>1, NextKinds DEF Done, Wrote, HasRead, Quiet
  <2> QED BY <2>1, WokenFew
<1> QED BY <1>1, InvHolds, PTL DEF Spec, FlagWakesOne

-----------------------------------------------------------------------------
(* The block keeps what PioStreams promises. *)

LEMMA StreamsMapped ==
    \A n \in Machine : /\ pio.machines[n].rx \o Stalled(n) = Handed(pio, n)
                       /\ (pio.machines[n].rx \o Stalled(n))' = Handed(pio', n)
BY DEF Stalled, Handed

\* The words of a machine stay.
LEMMA StreamsStill ==
    ASSUME NEW n \in Machine, Still(pio, pio', n)
    PROVE  /\ pio'.machines[n].tx = pio.machines[n].tx
           /\ pio'.machines[n].osr = pio.machines[n].osr
           /\ pio'.machines[n].isr = pio.machines[n].isr
           /\ (pio.machines[n].rx \o Stalled(n))' = pio.machines[n].rx \o Stalled(n)
BY StreamsMapped DEF Still

LEMMA StreamsQuiet ==
    ASSUME \A n \in Machine : Still(pio, pio', n)
    PROVE  UNCHANGED Streams!vars
BY StreamsStill DEF Streams!vars

\* A step of machine m that moves one of its words.
LEMMA StreamsMove ==
    ASSUME NEW m \in Machine, \A n \in Machine \ {m} : Still(pio, pio', n), Moves(pio, pio', m)
    PROVE  Streams!Next \/ UNCHANGED Streams!vars
<1> DEFINE Others == \A n \in Machine \ {m} :
               /\ pio'.machines[n].tx = pio.machines[n].tx
               /\ pio'.machines[n].osr = pio.machines[n].osr
               /\ pio'.machines[n].isr = pio.machines[n].isr
               /\ (pio.machines[n].rx \o Stalled(n))' = pio.machines[n].rx \o Stalled(n)
<1>1. Others
  BY StreamsStill
<1>2. /\ pio.machines[m].rx \o Stalled(m) = Handed(pio, m)
      /\ (pio.machines[m].rx \o Stalled(m))' = Handed(pio', m)
  BY StreamsMapped
<1>3. CASE Still(pio, pio', m)
  BY <1>3, StreamsQuiet
<1>4. CASE Loads(pio, pio', m)
  <2>1. Streams!Load(m)
    BY <1>1, <1>2, <1>4 DEF Loads, Streams!Load, Streams!Only
  <2> QED BY <2>1 DEF Streams!Next
<1>5. CASE Shifts(pio, pio', m)
  <2>1. Streams!Shift(m)
    BY <1>1, <1>2, <1>5 DEF Shifts, Streams!Shift, Streams!Only
  <2> QED BY <2>1 DEF Streams!Next
<1>6. CASE HandsOver(pio, pio', m)
  <2>1. Streams!HandOver(m)
    BY <1>1, <1>2, <1>6 DEF HandsOver, Streams!HandOver, Streams!Only
  <2> QED BY <2>1 DEF Streams!Next
<1> QED BY <1>3, <1>4, <1>5, <1>6 DEF Moves

LEMMA StreamsWrite ==
    ASSUME NEW m \in Machine, NEW w \in Word, Wrote(pio, pio', m, w)
    PROVE  Streams!Next \/ UNCHANGED Streams!vars
<1>1. CASE Still(pio, pio', m)
  BY <1>1, StreamsQuiet DEF Wrote
<1>2. CASE WritesWord(pio, pio', m, w)
  <2>1. \A n \in Machine \ {m} : Still(pio, pio', n)
    BY DEF Wrote
  <2>2. /\ pio.machines[m].rx \o Stalled(m) = Handed(pio, m)
        /\ (pio.machines[m].rx \o Stalled(m))' = Handed(pio', m)
    BY StreamsMapped
  <2>3. Streams!Write(m)
    BY <1>2, <2>1, <2>2, StreamsStill DEF WritesWord, Streams!Write, Streams!Only
  <2> QED BY <2>3 DEF Streams!Next
<1> QED BY <1>1, <1>2 DEF Wrote

LEMMA StreamsRead ==
    ASSUME NEW m \in Machine, HasRead(pio, pio', m)
    PROVE  Streams!Next \/ UNCHANGED Streams!vars
<1>1. CASE Still(pio, pio', m)
  BY <1>1, StreamsQuiet DEF HasRead
<1>2. CASE ReadsWord(pio, pio', m)
  <2>1. \A n \in Machine \ {m} : Still(pio, pio', n)
    BY DEF HasRead
  <2>2. /\ pio.machines[m].rx \o Stalled(m) = Handed(pio, m)
        /\ (pio.machines[m].rx \o Stalled(m))' = Handed(pio', m)
    BY StreamsMapped
  <2>3. Streams!Read(m)
    BY <1>2, <2>1, <2>2, StreamsStill DEF ReadsWord, Streams!Read, Streams!Only
  <2> QED BY <2>3 DEF Streams!Next
<1> QED BY <1>1, <1>2 DEF HasRead

\* What is left of the words of a machine that is restarted while it stalls.
LEMMA HandedWithin ==
    ASSUME NEW p, Consistent(p), NEW m \in Machine
    PROVE  p.machines[m].rx = IF Len(Handed(p, m)) <= Depth THEN Handed(p, m)
                              ELSE SubSeq(Handed(p, m), 1, Depth)
<1> DEFINE rx == p.machines[m].rx
<1>1. p.machines[m] \in Channel /\ rx \in Seq(Word) /\ Len(rx) <= Depth
      /\ p.machines[m].wait \in Waits
  BY DEF Consistent, Bounded, Block, Channel
<1>2. CASE p.machines[m].wait.type # "rx"
  BY <1>1, <1>2, HandedFacts
<1>3. CASE p.machines[m].wait.type = "rx"
  <2> DEFINE w == p.machines[m].wait.index
  <2>1. /\ Handed(p, m) = Append(rx, w) /\ Len(rx) = Depth
        /\ Len(Handed(p, m)) = Depth + 1 /\ w \in Word
    BY <1>1, <1>3, HandedFacts, WaitTypes
  <2> HIDE DEF w, rx
  <2>2. SubSeq(Append(rx, w), 1, Depth) = rx
    BY <1>1, <2>1
  <2>3. ~(Len(Handed(p, m)) <= Depth)
    BY <2>1
  <2> QED BY <2>1, <2>2, <2>3 DEF rx
<1> QED BY <1>2, <1>3

LEMMA StreamsRestart ==
    ASSUME Inv, Restarts(pio, pio')
    PROVE  Streams!Restart
<1>1. \A m \in Machine :
          pio.machines[m].rx = IF Len(Handed(pio, m)) <= Depth THEN Handed(pio, m)
                               ELSE SubSeq(Handed(pio, m), 1, Depth)
  BY HandedWithin DEF Inv, Sound
<1>2. \A m \in Machine :
          LET handed == pio.machines[m].rx \o Stalled(m)
          IN  \/ pio'.machines[m].isr = pio.machines[m].isr /\ handed' = handed
              \/ /\ pio'.machines[m].isr = 0
                 /\ handed' = IF Len(handed) <= Depth THEN handed ELSE SubSeq(handed, 1, Depth)
  BY <1>1, StreamsMapped DEF Restarts
<1>3. \A m \in Machine : /\ pio'.machines[m].tx = pio.machines[m].tx
                         /\ pio'.machines[m].osr = pio.machines[m].osr
  BY DEF Restarts
<1> QED BY <1>2, <1>3 DEF Streams!Restart

\* The words go through the FIFOs in order and once, for any programs, any number of
\* machines and any depth: whatever stalls, autopush and autopull, forced instructions,
\* flags and restarts come between.
THEOREM KeepsStreams == Spec => ImplementsStreams
<1>1. Init => Streams!Init
  BY DEF Init, Streams!Init, AtRestart, Stalled, Running
<1>2. Inv /\ [Next]_vars => [Streams!Next]_(Streams!vars)
  <2> SUFFICES ASSUME Inv, [Next]_vars
               PROVE  Streams!Next \/ UNCHANGED Streams!vars
    OBVIOUS
  <2>1. CASE \E m \in Machine : Done(pio, pio', m)
    BY <2>1, StreamsMove DEF Done
  <2>2. CASE \E m \in Machine : \E w \in Word : Wrote(pio, pio', m, w)
    BY <2>2, StreamsWrite
  <2>3. CASE \E m \in Machine : HasRead(pio, pio', m)
    BY <2>3, StreamsRead
  <2>4. CASE Quiet(pio, pio')
    BY <2>4, StreamsQuiet DEF Quiet
  <2>5. CASE Restarts(pio, pio')
    BY <2>5, StreamsRestart DEF Streams!Next
  <2>6. CASE UNCHANGED vars
    BY <2>6 DEF vars, Streams!vars, Stalled
  <2> QED BY <2>1, <2>2, <2>3, <2>4, <2>5, <2>6, NextKinds
<1> QED BY <1>1, <1>2, InvHolds, PTL DEF Spec, ImplementsStreams, Streams!Spec
=============================================================================

-------------------------------- MODULE Pio ---------------------------------
(***************************************************************************)
(* A PIO block (src/peripherals/pio.ts): machines that run programs from   *)
(* one instruction memory, stall on their FIFOs, on IRQ flags and on pins, *)
(* and are released by firmware, by each other and by the pins.            *)
(*                                                                         *)
(* The chip steps every machine each cycle, enabled or not; how often a    *)
(* machine's divider lets it take a clock is left open, so a clock of any  *)
(* machine may come next.  A word is moved whole: shift counts are in      *)
(* units, Full of them to a word, and ISR holds what was shifted in last.  *)
(***************************************************************************)
EXTENDS Integers, Sequences, FiniteSets

CONSTANTS
    N,        \* how many machines
    Word,     \* what firmware sends; 0 among it
    Depth,    \* how much a FIFO holds
    Full,     \* the units of a word
    Programs, \* what firmware runs, see program and ProgramAssumption
    Sources   \* the settings of IRQ0_INTE it uses

Machine == 0 .. N - 1

ASSUME SizeAssumption ==
    /\ N \in Nat \ {0} /\ Depth \in Nat \ {0} /\ Full \in Nat \ {0}
    /\ 0 \in Word

\* The instructions that are modelled, as they are decoded.
Instruction ==
    [op : {"jmp"}, to : 0 .. 31, cond : STRING, delay : 0 .. 31]
    \cup [op : {"wait"}, source : {"irq", "pin"}, polarity : BOOLEAN, flag : 0 .. 7,
          rel : BOOLEAN, delay : 0 .. 31]
    \cup [op : {"in", "out"}, units : 1 .. Full, delay : 0 .. 31]
    \cup [op : {"push"}, block : BOOLEAN, ifFull : BOOLEAN, delay : 0 .. 31]
    \cup [op : {"pull"}, block : BOOLEAN, ifEmpty : BOOLEAN, delay : 0 .. 31]
    \cup [op : {"irq"}, clear : BOOLEAN, wait : BOOLEAN, flag : 0 .. 7, rel : BOOLEAN,
          delay : 0 .. 31]

\* Those that a machine with settings sm may stall on.
MayStall(i, sm) ==
    \/ i.op = "wait"
    \/ i.op = "in" /\ sm.autopush
    \/ i.op = "out" /\ sm.autopull
    \/ i.op \in {"push", "pull"} /\ i.block
    \/ i.op = "irq" /\ i.wait

\* What firmware does is legal.
ASSUME ProgramAssumption ==
    \A prog \in Programs :
        /\ prog.instructions \in [0 .. 31 -> Instruction]
        /\ prog.sm \in [Machine -> [wrapBottom : 0 .. 31, wrapTop : 0 .. 31,
                                    autopush : BOOLEAN, autopull : BOOLEAN,
                                    pushThreshold : 1 .. Full, pullThreshold : 1 .. Full]]
        /\ prog.fed \in [Machine -> SUBSET Word]
        /\ prog.flags \subseteq 0 .. 7
        /\ prog.ctrl \subseteq [enabled : SUBSET Machine, restarted : SUBSET Machine]
        /\ prog.forced \subseteq Instruction

VARIABLES
    pio,     \* RPPIO: its machines, flags and stall bits, the input pin that they
             \* wait for, and what the chip was told: the interrupt line and DREQs
    program  \* the one of Programs that firmware has loaded: its instructions and the
             \* settings sm of the machines, and what firmware does beside it: the
             \* words it feeds each through TXF, the flags it writes, what it writes to
             \* CTRL, the instructions forced through SMx_INSTR

vars == <<pio, program>>

Running == [type |-> "none"]

AtRestart(m, prog) ==
    [pc |-> prog.sm[m].wrapBottom, wait |-> Running, delay |-> 0, enabled |-> FALSE,
     isr |-> 0, isrCount |-> 0, osr |-> 0, osrCount |-> Full, tx |-> <<>>, rx |-> <<>>]

Init ==
    /\ program \in Programs
    /\ pio = [machines |-> [m \in Machine |-> AtRestart(m, program)],
              irq |-> {}, txStall |-> {}, rxStall |-> {}, fdebug |-> {},
              inte |-> {}, line |-> FALSE, dreqTx |-> Machine, dreqRx |-> {},
              pin |-> FALSE]

-----------------------------------------------------------------------------
(* What the block tells the chip.  p is the block in the middle of a step. *)

intRaw(p) ==
    {<<"irq", f>> : f \in p.irq \cap 0 .. 3}
    \cup {<<"txnfull", m>> : m \in {n \in Machine : Len(p.machines[n].tx) < Depth}}
    \cup {<<"rxnempty", m>> : m \in {n \in Machine : p.machines[n].rx # <<>>}}

checkInterrupts(p) == [p EXCEPT !.line = (intRaw(p) \cap p.inte # {})]

updateDMATx(p, m) ==
    [p EXCEPT !.dreqTx = IF Len(p.machines[m].tx) = Depth THEN @ \ {m} ELSE @ \cup {m}]

updateDMARx(p, m) ==
    [p EXCEPT !.dreqRx = IF p.machines[m].rx = <<>> THEN @ \ {m} ELSE @ \cup {m}]

-----------------------------------------------------------------------------
(* Parts of instructions. *)

\* Mistake: the DMA is not told of the room.
pullWordUnannounced(p, m) ==
    checkInterrupts([p EXCEPT !.machines[m].osr = Head(p.machines[m].tx),
                              !.machines[m].tx = Tail(@)])

pullWord(p, m) ==
    LET q == [p EXCEPT !.machines[m].osr = Head(p.machines[m].tx),
                       !.machines[m].tx = Tail(@)]
    IN  checkInterrupts(updateDMATx(q, m))

pushWord(p, m, w) ==
    LET q == [p EXCEPT !.machines[m].rx = Append(@, w)]
    IN  checkInterrupts(updateDMARx(q, m))

txStalls(p, m) ==
    LET stalled == p.txStall \cup {m}
    IN  [p EXCEPT !.txStall = stalled, !.fdebug = @ \cup {<<"tx", n>> : n \in stalled}]

rxStalls(p, m) ==
    LET stalled == p.rxStall \cup {m}
    IN  [p EXCEPT !.rxStall = stalled, !.fdebug = @ \cup {<<"rx", n>> : n \in stalled}]

wait(p, m, type, polarity, index) ==
    [p EXCEPT !.machines[m].wait = [type |-> type, polarity |-> polarity, index |-> index]]

nextPC(p, m) ==
    [p EXCEPT !.machines[m].pc =
        IF @ = program.sm[m].wrapTop THEN program.sm[m].wrapBottom
        ELSE (@ + 1) % 32]

outInstruction(p, m, units) ==
    [p EXCEPT !.machines[m].osrCount = IF @ + units > Full THEN Full ELSE @ + units]

\* The condition that a machine stalls on has come about.
Satisfied(p, m) ==
    LET w == p.machines[m].wait
    IN  CASE w.type = "irq" -> (w.index \in p.irq) = w.polarity
          [] w.type = "pin" -> p.pin = w.polarity
          [] w.type = "rx" -> Len(p.machines[m].rx) < Depth
          [] w.type \in {"tx", "out"} -> p.machines[m].tx # <<>>
          [] OTHER -> FALSE

\* Mistake: a flag that released a machine stays up.
completedFlagStays(p, m) ==
    LET w == p.machines[m].wait
    IN  CASE w.type = "rx" -> pushWord(p, m, w.index)
          [] w.type = "tx" -> pullWord(p, m)
          [] w.type = "out" -> outInstruction(pullWord(p, m), m, w.index)
          [] OTHER -> p

\* What is left of the instruction that stalled.
completed(p, m) ==
    LET w == p.machines[m].wait
    IN  CASE w.type = "irq" -> [p EXCEPT !.irq = @ \ {w.index}]
          [] w.type = "rx" -> pushWord(p, m, w.index)
          [] w.type = "tx" -> pullWord(p, m)
          [] w.type = "out" -> outInstruction(pullWord(p, m), m, w.index)
          [] OTHER -> p

checkWait(p, m) ==
    IF Satisfied(p, m)
    THEN nextPC([completed(p, m) EXCEPT !.machines[m].wait = Running], m)
    ELSE p

\* Some machines look in turn, and each sees what those before it left.
told(p, machines) ==
    LET after[m \in -1 .. N - 1] ==
            IF m = -1 THEN p
            ELSE IF m \in machines THEN checkWait(after[m - 1], m) ELSE after[m - 1]
    IN  after[N - 1]

irqUpdated(p) == checkInterrupts(told(p, Machine))

-----------------------------------------------------------------------------
(* Instructions. *)

irqIndex(i, m) == IF i.rel THEN (4 * (i.flag \div 4)) + ((i.flag + m) % 4) ELSE i.flag

\* Mistake: what is pushed is looked up when there is room.
pushLate(p, m, block) ==
    LET q == IF Len(p.machines[m].rx) < Depth THEN pushWord(p, m, p.machines[m].isr)
             ELSE IF block THEN wait(rxStalls(p, m), m, "rx", FALSE, 0)
             ELSE rxStalls(p, m)
    IN  [q EXCEPT !.machines[m].isr = 0, !.machines[m].isrCount = 0]

\* PUSH, and the end of an IN with autopush.
push(p, m, block) ==
    LET word == p.machines[m].isr
        q == IF Len(p.machines[m].rx) < Depth THEN pushWord(p, m, word)
             ELSE IF block THEN wait(rxStalls(p, m), m, "rx", FALSE, word)
             ELSE rxStalls(p, m)
    IN  [q EXCEPT !.machines[m].isr = 0, !.machines[m].isrCount = 0]

Pushes(p, m) == p.machines[m].isrCount >= program.sm[m].pushThreshold
Pulls(p, m) == p.machines[m].osrCount >= program.sm[m].pullThreshold

\* Of the sources of IN, OSR: the one whose words come from firmware.
inInstruction(p, m, i) ==
    LET count == p.machines[m].isrCount + i.units
        q == [p EXCEPT !.machines[m].isr = p.machines[m].osr,
                       !.machines[m].isrCount = IF count > Full THEN Full ELSE count]
    IN  IF program.sm[m].autopush /\ Pushes(q, m) THEN push(q, m, TRUE) ELSE q

pull(p, m, block) ==
    LET q == IF p.machines[m].tx # <<>> THEN pullWord(p, m)
             ELSE IF block THEN wait(txStalls(p, m), m, "tx", FALSE, 0)
             ELSE [txStalls(p, m) EXCEPT !.machines[m].osr = 0]
    IN  [q EXCEPT !.machines[m].osrCount = 0]

out(p, m, i) ==
    LET emptied == [p EXCEPT !.machines[m].osrCount = 0]
        q == IF ~(program.sm[m].autopull /\ Pulls(p, m)) THEN p
             ELSE IF p.machines[m].tx # <<>> THEN pullWord(emptied, m)
             ELSE wait(txStalls(emptied, m), m, "out", FALSE, i.units)
    IN  IF q.machines[m].wait # Running THEN q ELSE outInstruction(q, m, i.units)

irqInstruction(p, m, i) ==
    LET f == irqIndex(i, m)
        q == irqUpdated([p EXCEPT !.irq = @ \cup {f}])
    IN  CASE i.clear -> irqUpdated([p EXCEPT !.irq = @ \ {f}])
          [] ~i.clear /\ i.wait -> wait(q, m, "irq", FALSE, f)
          [] OTHER -> q

\* A jump on a register or a pin may go either way.
Jumps(p, m, i, taken) ==
    /\ i.op = "jmp"
    /\ CASE i.cond = "always" -> TRUE
         [] i.cond = "osre" -> ~Pulls(p, m)
         [] OTHER -> taken

execute(p, m, i, taken) ==
    CASE Jumps(p, m, i, taken) -> [p EXCEPT !.machines[m].pc = i.to]
      [] i.op = "wait" ->
            wait(p, m, i.source, i.polarity, IF i.source = "irq" THEN irqIndex(i, m) ELSE 0)
      [] i.op = "in" -> inInstruction(p, m, i)
      [] i.op = "out" -> out(p, m, i)
      [] i.op = "push" ->
            IF i.ifFull /\ program.sm[m].autopush /\ ~Pushes(p, m) THEN p ELSE push(p, m, i.block)
      [] i.op = "pull" ->
            IF i.ifEmpty /\ program.sm[m].autopull /\ ~Pulls(p, m) THEN p ELSE pull(p, m, i.block)
      [] i.op = "irq" -> irqInstruction(p, m, i)
      [] OTHER -> p

\* An instruction that stalls may be released at once; its delay is not owed.
executeInstruction(p, m, i, taken) == checkWait(execute(p, m, i, taken), m)

\* The next instruction of the program.
next(p, m, taken) ==
    LET i == program.instructions[p.machines[m].pc]
        q == execute(p, m, i, taken)
    IN  IF q.machines[m].wait # Running THEN checkWait(q, m)
        ELSE [(IF Jumps(p, m, i, taken) THEN q ELSE nextPC(q, m))
                 EXCEPT !.machines[m].delay = i.delay]

\* A clock of machine m.
step(p, m, taken) ==
    LET q == checkWait(p, m)
    IN  CASE p.machines[m].delay > 0 -> [p EXCEPT !.machines[m].delay = @ - 1]
          [] p.machines[m].delay = 0 /\ q.machines[m].wait # Running -> q
          [] OTHER -> next(q, m, taken)

-----------------------------------------------------------------------------
(* Register accesses. *)

\* Mistake: a machine that waits for the word is not looked at.
writeFIFOUnseen(p, m, w) ==
    IF Len(p.machines[m].tx) = Depth THEN p
    ELSE LET q == updateDMATx([p EXCEPT !.machines[m].tx = Append(@, w),
                                        !.txStall = @ \ {m}], m)
         IN  IF Len(q.machines[m].tx) = Depth THEN checkInterrupts(q) ELSE q

writeFIFO(p, m, w) ==
    IF Len(p.machines[m].tx) = Depth THEN p
    ELSE LET written == updateDMATx([p EXCEPT !.machines[m].tx = Append(@, w),
                                              !.txStall = @ \ {m}], m)
             q == checkWait(written, m)
         IN  IF Len(q.machines[m].tx) = Depth THEN checkInterrupts(q) ELSE q

readFIFO(p, m) ==
    IF p.machines[m].rx = <<>> THEN p
    ELSE LET read == updateDMARx([p EXCEPT !.machines[m].rx = Tail(@),
                                           !.rxStall = @ \ {m}], m)
             q == checkWait(read, m)
         IN  IF q.machines[m].rx = <<>> THEN checkInterrupts(q) ELSE q

restart(ch) ==
    [ch EXCEPT !.isr = 0, !.isrCount = 0, !.osrCount = Full, !.wait = Running, !.delay = 0]

Clock(m) ==
    /\ \E taken \in BOOLEAN : pio' = step(pio, m, taken)
    /\ UNCHANGED program

WriteTXF(m, w) == pio' = writeFIFO(pio, m, w) /\ UNCHANGED program

ReadRXF(m) == pio' = readFIFO(pio, m) /\ UNCHANGED program

\* Firmware forces an instruction that may stall only on a machine that runs: what a
\* machine already waits for would be forgotten.
WriteINSTR(m, i) ==
    /\ pio.machines[m].wait = Running \/ ~MayStall(i, program.sm[m])
    /\ \E taken \in BOOLEAN : pio' = executeInstruction(pio, m, i, taken)
    /\ UNCHANGED program

WriteCTRL(enabled, restarted) ==
    /\ pio' = [pio EXCEPT !.machines = [m \in Machine |->
                  LET ch == [pio.machines[m] EXCEPT !.enabled = (m \in enabled)]
                  IN  IF m \in restarted THEN restart(ch) ELSE ch]]
    /\ UNCHANGED program

\* FDEBUG: a stall that is still on stays.
WriteFDEBUG ==
    /\ pio' = [pio EXCEPT !.fdebug = {<<"tx", m>> : m \in pio.txStall}
                                     \cup {<<"rx", m>> : m \in pio.rxStall}]
    /\ UNCHANGED program

\* IRQ and IRQ_FORCE.
WriteIRQ(cleared, forced) ==
    /\ pio' = irqUpdated([pio EXCEPT !.irq = (@ \ cleared) \cup forced])
    /\ UNCHANGED program

WriteINTE(enabled) ==
    /\ pio' = checkInterrupts([pio EXCEPT !.inte = enabled])
    /\ UNCHANGED program

\* The pin changes; the machines that are enabled and wait for it are told.
SetPin(value) ==
    LET waiting == {m \in Machine : /\ pio.machines[m].enabled
                                    /\ pio.machines[m].wait.type = "pin"}
    IN  pio' = told([pio EXCEPT !.pin = value], waiting) /\ UNCHANGED program

Next ==
    \/ \E m \in Machine : Clock(m) \/ ReadRXF(m)
    \/ \E m \in Machine : \E w \in program.fed[m] : WriteTXF(m, w)
    \/ \E m \in Machine : \E i \in program.forced : WriteINSTR(m, i)
    \/ \E c \in program.ctrl : WriteCTRL(c.enabled, c.restarted)
    \/ WriteFDEBUG
    \/ \E f \in program.flags : WriteIRQ({f}, {}) \/ WriteIRQ({}, {f})
    \/ \E enabled \in Sources : WriteINTE(enabled)
    \/ \E value \in BOOLEAN : SetPin(value)

Spec == Init /\ [][Next]_vars

-----------------------------------------------------------------------------
(* Properties. *)

Waits ==
    {Running}
    \cup [type : {"irq"}, polarity : BOOLEAN, index : 0 .. 7]
    \cup [type : {"pin"}, polarity : BOOLEAN, index : {0}]
    \cup [type : {"rx"}, polarity : {FALSE}, index : Word]
    \cup [type : {"tx"}, polarity : {FALSE}, index : {0}]
    \cup [type : {"out"}, polarity : {FALSE}, index : 1 .. Full]

\* The types of the block's state; FIFOs and shift counts within their bounds.
TypeOK ==
    /\ program \in Programs
    /\ \A m \in Machine :
          LET ch == pio.machines[m]
          IN  /\ ch.pc \in 0 .. 31 /\ ch.delay \in Nat /\ ch.enabled \in BOOLEAN
              /\ ch.wait \in Waits
              /\ ch.isr \in Word /\ ch.osr \in Word
              /\ ch.isrCount \in 0 .. Full /\ ch.osrCount \in 0 .. Full
              /\ ch.tx \in Seq(Word) /\ Len(ch.tx) <= Depth
              /\ ch.rx \in Seq(Word) /\ Len(ch.rx) <= Depth
    /\ pio.irq \subseteq 0 .. 7
    /\ pio.txStall \subseteq Machine /\ pio.rxStall \subseteq Machine
    /\ pio.fdebug \subseteq {"tx", "rx"} \X Machine
    /\ pio.inte \in Sources \cup {{}}
    /\ pio.line \in BOOLEAN /\ pio.pin \in BOOLEAN
    /\ pio.dreqTx \subseteq Machine /\ pio.dreqRx \subseteq Machine

\* Whoever comes first, the machine that stalls or the word, the room or the flag it
\* stalls on, the two meet at once; and FDEBUG shows a stall until it is over.
StalledForCause ==
    \A m \in Machine :
        LET ch == pio.machines[m]
        IN  /\ ch.wait.type \in {"tx", "out"} =>
                  ch.tx = <<>> /\ m \in pio.txStall /\ <<"tx", m>> \in pio.fdebug
            /\ ch.wait.type = "rx" =>
                  Len(ch.rx) = Depth /\ m \in pio.rxStall /\ <<"rx", m>> \in pio.fdebug
            /\ ch.wait.type = "irq" /\ ch.wait.polarity => ch.wait.index \notin pio.irq

\* The registers and FIFOs stay in range, and no machine stalls on what is there.
MachinesSound == TypeOK /\ StalledForCause

\* Whatever released a machine or moved a word, the DREQs are those of the FIFOs and
\* an interrupt that is enabled and has a cause is up.
SourcesAnnounced ==
    /\ pio.dreqTx = {m \in Machine : Len(pio.machines[m].tx) < Depth}
    /\ pio.dreqRx = {m \in Machine : pio.machines[m].rx # <<>>}
    /\ intRaw(pio) \cap pio.inte # {} => pio.line

\* A flag that goes up releases one of the machines that wait for it, and the others
\* wait for the next: a handshake is not answered twice.
Awaits(p, m, f) == p.machines[m].wait = [type |-> "irq", polarity |-> TRUE, index |-> f]

FlagWakesOne ==
    [][\/ \E c \in program.ctrl : WriteCTRL(c.enabled, c.restarted)
       \/ \A f \in 0 .. 7 :
             Cardinality({m \in Machine : Awaits(pio, m, f) /\ ~Awaits(pio', m, f)}) <= 1
      ]_vars

\* The words go through the FIFOs in order and once, however stalls, autopush and
\* autopull, forced instructions and restarts come between.
Stalled(m) ==
    IF pio.machines[m].wait.type = "rx" THEN <<pio.machines[m].wait.index>> ELSE <<>>

Streams == INSTANCE PioStreams WITH
    sent <- [m \in Machine |-> pio.machines[m].tx],
    osr <- [m \in Machine |-> pio.machines[m].osr],
    isr <- [m \in Machine |-> pio.machines[m].isr],
    handed <- [m \in Machine |-> pio.machines[m].rx \o Stalled(m)]

ImplementsStreams == Streams!Spec
=============================================================================

------------------------------- MODULE Xh3irq -------------------------------
(***************************************************************************)
(* External interrupts of a Hazard3 core (src/riscv/cpu.ts): the Xh3irq    *)
(* arrays, MEINEXT and MEICONTEXT, the trap at the start of an             *)
(* instruction, mret and wfi, driven by devices that raise and lower their *)
(* lines and by firmware that runs the SDK's isr_riscv_machine_external    *)
(* (demo/riscv_timer/hello_timer.dis), which nests.                        *)
(*                                                                         *)
(* executeInstruction looks for interrupts and then runs one instruction;  *)
(* checked says that the first half is done.  Devices move between calls.  *)
(***************************************************************************)
EXTENDS Integers, Sequences, FiniteSets, TLC, SequencesExt

CONSTANTS
    Irq,       \* the interrupt numbers in use
    Prio,      \* the priorities firmware gives them
    Forceable, \* those it may force with MEIFA
    NOIRQ,
    MaskedWfi  \* firmware may also execute wfi with MSTATUS.MIE clear

ASSUME IrqAssumption == Irq \subseteq 0 .. 511 /\ Forceable \subseteq Irq /\ NOIRQ \notin Irq
ASSUME PrioAssumption == Prio \subseteq 0 .. 15 /\ 0 \in Prio

VARIABLES
    meiea, meipa, meifa, \* the enabled, pending and forced interrupts
    meipra,              \* the priority of each
    meicand,             \* the candidates: [irq_number, priority], best first
    meinext,             \* MEINEXT: an interrupt, or NOIRQ
    meicontext,          \* MEICONTEXT: the preemption levels, MRETEIRQ, IRQ/NOIRQ
    meie,                \* MIE.MEIE
    mie, mpie,           \* MSTATUS.MIE and MPIE
    mepc,                \* MEPC
    interruptsUpdated,   \* look for interrupts at the next instruction
    waiting,             \* the core sleeps in wfi
    checked,             \* executeInstruction is past checkForInterrupts
    pc,                  \* where the firmware is
    stack,               \* the frames of the handlers begun, outermost first
    line                 \* the interrupts whose device holds its line up

xh3irqVars == <<meiea, meipa, meifa, meipra, meicand, meinext>>
mstatusVars == <<mie, mpie, mepc>>
vars == <<xh3irqVars, meicontext, meie, mstatusVars, interruptsUpdated, waiting,
          checked, pc, stack, line>>

Init ==
    /\ meiea = {} /\ meipa = {} /\ meifa = {}
    /\ meipra = [i \in Irq |-> 0]
    /\ meicand = <<>>
    /\ meinext = NOIRQ
    /\ meicontext = [preempt |-> 0, ppreempt |-> 0, pppreempt |-> 0,
                     mreteirq |-> FALSE, irq |-> NOIRQ]
    /\ meie = FALSE
    /\ mie = FALSE /\ mpie = FALSE /\ mepc = "main"
    /\ interruptsUpdated = FALSE
    /\ waiting = FALSE
    /\ checked = FALSE
    /\ pc = "main"
    /\ stack = <<>>
    /\ line = {}

-----------------------------------------------------------------------------
(* The arrays. *)

IsSoft(i) == i >= 46   \* no device drives these: firmware forces them

Before(c, d) ==
    \/ c.priority > d.priority
    \/ c.priority = d.priority /\ c.irq_number < d.irq_number

\* What updateMEINEXT makes of the candidates, primed like what it reads.
updateMEINEXT ==
    meinext' = IF meicand' # <<>> /\ meicand'[1].priority >= meicontext'.ppreempt
               THEN meicand'[1].irq_number
               ELSE NOIRQ

\* What Array.prototype.filter makes of s: what is not dropped, in the order it is in.
filter(s, dropped) ==
    LET kept == {k \in DOMAIN s : s[k].irq_number \notin dropped}
    IN  {[j \in 1 .. Cardinality(kept) |-> s[at[j]]] :
            at \in {f \in [1 .. Cardinality(kept) -> kept] :
                       \A j, k \in 1 .. Cardinality(kept) : j < k => f[j] < f[k]}}

\* What Array.prototype.sort makes of s: a rearrangement in which no candidate comes
\* before a better one.
sort(s) ==
    {t \in {[j \in 1 .. Len(s) |-> s[p[j]]] : p \in Bijection(1 .. Len(s), 1 .. Len(s))} :
        \A j, k \in 1 .. Len(s) : j < k => ~Before(t[k], t[j])}

\* Mistake: a candidate is pushed and the array not sorted.
setInterruptsUnsorted(lower, raise) ==
    LET dropped == lower \cap meipa
        added == {i \in raise \cap meiea' : i \notin meipa \ dropped}
        Candidate(i) == [irq_number |-> i, priority |-> meipra'[i]]
    IN  /\ meipa' = (meipa \ dropped) \cup added
        /\ \E kept \in filter(meicand, dropped) :
              meicand' = kept \o SetToSeq({Candidate(i) : i \in added})
        /\ IF dropped \cup added # {} THEN updateMEINEXT ELSE UNCHANGED meinext
        /\ interruptsUpdated' = (interruptsUpdated \/ added # {})

\* Mistake: nobody is told of the new candidate.
setInterruptsUnseen(lower, raise) ==
    LET dropped == lower \cap meipa
        added == {i \in raise \cap meiea' : i \notin meipa \ dropped}
        Candidate(i) == [irq_number |-> i, priority |-> meipra'[i]]
    IN  /\ meipa' = (meipa \ dropped) \cup added
        /\ \E kept \in filter(meicand, dropped) :
              meicand' \in sort(kept \o SetToSeq({Candidate(i) : i \in added}))
        /\ IF dropped \cup added # {} THEN updateMEINEXT ELSE UNCHANGED meinext
        /\ UNCHANGED interruptsUpdated

\* setInterrupt(i, false) for each i in lower, then setInterrupt(i, true) for
\* each i in raise, with meiea and meipra as they are in the next state.
setInterrupts(lower, raise) ==
    LET dropped == lower \cap meipa
        added == {i \in raise \cap meiea' : i \notin meipa \ dropped}
        Candidate(i) == [irq_number |-> i, priority |-> meipra'[i]]
    IN  /\ meipa' = (meipa \ dropped) \cup added
        /\ \E kept \in filter(meicand, dropped) :
              meicand' \in sort(kept \o SetToSeq({Candidate(i) : i \in added}))
        /\ IF dropped \cup added # {} THEN updateMEINEXT ELSE UNCHANGED meinext
        /\ interruptsUpdated' = (interruptsUpdated \/ added # {})

-----------------------------------------------------------------------------
(* The devices. *)

Raise(i) ==
    /\ ~checked /\ ~IsSoft(i)
    /\ line' = line \cup {i}
    /\ UNCHANGED <<meiea, meipra, meicontext>>
    /\ setInterrupts({}, {i})
    /\ UNCHANGED <<meifa, meie, mstatusVars, waiting, checked, pc, stack>>

Lower(i) ==
    /\ ~checked /\ i \in line
    /\ line' = line \ {i}
    /\ UNCHANGED <<meiea, meipra, meicontext>>
    /\ setInterrupts({i}, {})
    /\ UNCHANGED <<meifa, meie, mstatusVars, waiting, checked, pc, stack>>

-----------------------------------------------------------------------------
(* executeInstruction, first half: checkForInterrupts. *)

updateMEICONTEXT_priority_save ==
    meicontext' = [meicontext EXCEPT
        !.pppreempt = meicontext.ppreempt,
        !.ppreempt = meicontext.preempt % 16,
        !.preempt = meipra[meinext] + 1,
        !.mreteirq = TRUE]

\* trapEntry, of an interrupt (with the frame the handler is about to fill) and
\* of an exception.
trapEntry(isInterrupt) ==
    /\ mepc' = pc
    /\ mpie' = mie
    /\ mie' = FALSE
    /\ IF isInterrupt
       THEN /\ pc' = "save"
            /\ stack' = Append(stack, [level |-> meipra[meinext] + 1, mepc |-> "main",
                                       mpie |-> FALSE, context |-> meicontext,
                                       irq |-> NOIRQ])
       ELSE /\ pc' = "exception"
            /\ meicontext' = [meicontext EXCEPT !.mreteirq = FALSE]
            /\ UNCHANGED stack

\* The interrupt MEINEXT shows may run over what is running.
Preempts == meinext # NOIRQ /\ meipra[meinext] >= meicontext.preempt

checkForInterrupts ==
    /\ ~checked
    /\ interruptsUpdated' = FALSE
    /\ LET taken == interruptsUpdated /\ meie /\ Preempts
       IN  /\ IF taken /\ mie
              THEN updateMEICONTEXT_priority_save /\ trapEntry(TRUE)
              ELSE UNCHANGED <<meicontext, mstatusVars, pc, stack>>
           /\ waiting' = (waiting /\ ~taken)
    /\ checked' = ~waiting'
    /\ UNCHANGED <<xh3irqVars, meie, line>>

-----------------------------------------------------------------------------
(* executeInstruction, second half: the instructions of the main program. *)

\* The interrupts that share a CSR write with i, in MEIPRA and in MEIFA.
Window(i, width) == {j \in Irq : j \div width = i \div width}

\* MEIEA: setInterruptEnabled, which finds an interrupt that pends (or leaves it so).
SetEnabled(i) ==
    /\ meiea' = meiea \cup {i}
    /\ UNCHANGED <<meipra, meicontext>>
    /\ IF i \in meipa \ meiea
       THEN /\ meicand' \in sort(Append(meicand, [irq_number |-> i, priority |-> meipra[i]]))
            /\ updateMEINEXT
            /\ interruptsUpdated' = TRUE
       ELSE UNCHANGED <<meicand, meinext, interruptsUpdated>>
    /\ UNCHANGED <<meipa, meifa, meie, mstatusVars, waiting, pc, stack>>

SetDisabled(i) ==
    /\ meiea' = meiea \ {i}
    /\ UNCHANGED <<meipra, meicontext>>
    /\ IF i \in meipa \cap meiea
       THEN /\ meicand' \in filter(meicand, {i})
            /\ updateMEINEXT
       ELSE UNCHANGED <<meicand, meinext>>
    /\ UNCHANGED <<meipa, meifa, meie, mstatusVars, interruptsUpdated, waiting, pc, stack>>

\* MEIPRA: whatever pends in the window is taken out and put back.
SetPriority(i, p) ==
    /\ meipra' = [meipra EXCEPT ![i] = p]
    /\ UNCHANGED <<meiea, meicontext>>
    /\ setInterrupts(Window(i, 4), Window(i, 4) \cap meipa)
    /\ UNCHANGED <<meifa, meie, mstatusVars, waiting, pc, stack>>

\* MEIFA: force i, or stop forcing it.
SetForced(i, forced) ==
    /\ meifa' = IF forced THEN meifa \cup {i} ELSE meifa \ {i}
    /\ UNCHANGED <<meiea, meipra, meicontext>>
    /\ setInterrupts({j \in Window(i, 16) : IsSoft(j) /\ j \notin meifa'},
                     Window(i, 16) \cap meifa')
    /\ UNCHANGED <<meie, mstatusVars, waiting, pc, stack>>

SetMeie(value) ==
    /\ meie' = value
    /\ interruptsUpdated' = (interruptsUpdated \/ (value /\ ~meie))
    /\ UNCHANGED <<xh3irqVars, meicontext, mstatusVars, waiting, pc, stack>>

SetMie(value) ==
    /\ mie' = value
    /\ interruptsUpdated' = (interruptsUpdated \/ (value /\ ~mie))
    /\ UNCHANGED <<mpie, mepc>>

Wfi ==
    /\ mie \/ MaskedWfi
    /\ waiting' = TRUE
    /\ UNCHANGED <<xh3irqVars, meicontext, meie, mstatusVars, interruptsUpdated, pc, stack>>

Ecall ==
    /\ trapEntry(FALSE)
    /\ UNCHANGED <<xh3irqVars, meie, interruptsUpdated, waiting>>

Main ==
    /\ pc = "main"
    /\ \/ \E i \in Irq : SetEnabled(i) \/ SetDisabled(i)
       \/ \E i \in Irq, p \in Prio : SetPriority(i, p)
       \/ \E i \in Forceable, forced \in BOOLEAN : SetForced(i, forced)
       \/ \E value \in BOOLEAN : SetMeie(value)
       \/ \E value \in BOOLEAN :
             SetMie(value) /\ UNCHANGED <<xh3irqVars, meicontext, meie, waiting, pc, stack>>
       \/ Wfi
       \/ Ecall
    /\ UNCHANGED line

-----------------------------------------------------------------------------
(* isr_riscv_machine_external, and the return from any trap. *)

Frame == stack[Len(stack)]
goto(label) == pc' = label

Save ==
    /\ pc = "save"
    /\ stack' = [stack EXCEPT ![Len(stack)].mepc = mepc, ![Len(stack)].mpie = mpie]
    /\ goto("saveContext")
    /\ UNCHANGED <<xh3irqVars, meicontext, meie, mstatusVars, interruptsUpdated,
                   waiting, line>>

\* csrrsi meicontext: the write of what was read brings MEINEXT up to date.
SaveContext ==
    /\ pc = "saveContext"
    /\ stack' = [stack EXCEPT ![Len(stack)].context = meicontext]
    /\ UNCHANGED <<meiea, meipa, meifa, meipra, meicand, meicontext>>
    /\ updateMEINEXT
    /\ interruptsUpdated' = TRUE
    /\ goto("getIrq")
    /\ UNCHANGED <<meie, mstatusVars, waiting, line>>

\* The read of MEINEXT stops forcing what it shows; of a soft interrupt, all there is.
ReadMEINEXT ==
    LET read == IF meinext = NOIRQ THEN {} ELSE {meinext}
    IN  /\ meifa' = meifa \ read
        /\ LET dropped == {i \in read \cap meifa \cap meipa : IsSoft(i)}
           IN  /\ meipa' = meipa \ dropped
               /\ meicand' \in filter(meicand, dropped)
        /\ UNCHANGED <<meiea, meipra>>

\* csrrsi meinext, UPDATE: the read, updateMEICONTEXT_update and updateMEINEXT.
\* MEICONTEXT gets what MEINEXT shows after the read.
GetIrq ==
    /\ pc = "getIrq"
    /\ ReadMEINEXT
    /\ LET top == IF meicand' # <<>> /\ meicand'[1].priority >= meicontext.ppreempt
                  THEN meicand'[1].irq_number ELSE NOIRQ
           shown == IF meicand' = meicand THEN meinext ELSE top
       IN  meicontext' = [meicontext EXCEPT !.irq = shown]
    /\ updateMEINEXT
    /\ interruptsUpdated' = TRUE
    /\ stack' = [stack EXCEPT ![Len(stack)].irq = meinext]
    /\ goto(IF meinext = NOIRQ THEN "restore" ELSE "dispatch")
    /\ UNCHANGED <<meie, mstatusVars, waiting, line>>

Dispatch ==
    /\ pc = "dispatch"
    /\ SetMie(TRUE)
    /\ goto("body")
    /\ UNCHANGED <<xh3irqVars, meicontext, meie, waiting, stack, line>>

\* The interrupt's own handler may meet an exception on the way.
BodyTraps == pc = "body" /\ Ecall /\ UNCHANGED line

\* By its end, its device has been seen to.
BodyEnds ==
    /\ pc = "body"
    /\ line' = line \ {Frame.irq}
    /\ UNCHANGED <<meiea, meipra, meicontext>>
    /\ setInterrupts({i \in {Frame.irq} : ~IsSoft(i)}, {})
    /\ goto("disable")
    /\ UNCHANGED <<meifa, meie, mstatusVars, waiting, stack>>

Disable ==
    /\ pc = "disable"
    /\ SetMie(FALSE)
    /\ goto("getIrq")
    /\ UNCHANGED <<xh3irqVars, meicontext, meie, waiting, stack, line>>

Restore ==
    /\ pc = "restore"
    /\ mepc' = Frame.mepc
    /\ mpie' = Frame.mpie
    /\ UNCHANGED mie
    /\ goto("restoreContext")
    /\ UNCHANGED <<xh3irqVars, meicontext, meie, interruptsUpdated, waiting, stack, line>>

RestoreContext ==
    /\ pc = "restoreContext"
    /\ meicontext' = Frame.context
    /\ UNCHANGED <<meiea, meipa, meifa, meipra, meicand>>
    /\ updateMEINEXT
    /\ interruptsUpdated' = TRUE
    /\ goto("check")
    /\ UNCHANGED <<meie, mstatusVars, waiting, stack, line>>

\* A last look before leaving: csrr meinext.
Check ==
    /\ pc = "check"
    /\ ReadMEINEXT
    /\ UNCHANGED meicontext
    /\ IF meicand' = meicand THEN UNCHANGED meinext ELSE updateMEINEXT
    /\ goto(IF meinext = NOIRQ THEN "mret" ELSE "saveContext")
    /\ UNCHANGED <<meie, mstatusVars, interruptsUpdated, waiting, stack, line>>

\* Mistake: PREEMPT is restored, PPREEMPT is cleared.
priority_restoreOneLevel ==
    meicontext' = IF ~meicontext.mreteirq THEN meicontext
                  ELSE [preempt |-> meicontext.ppreempt,
                        ppreempt |-> 0,
                        pppreempt |-> 0,
                        mreteirq |-> FALSE,
                        irq |-> IF meicontext.irq = NOIRQ THEN 0 ELSE meicontext.irq]

updateMEICONTEXT_priority_restore ==
    meicontext' = IF ~meicontext.mreteirq THEN meicontext
                  ELSE [preempt |-> meicontext.ppreempt,
                        ppreempt |-> meicontext.pppreempt,
                        pppreempt |-> 0,
                        mreteirq |-> FALSE,
                        irq |-> IF meicontext.irq = NOIRQ THEN 0 ELSE meicontext.irq]

\* Mistake: mret does not look for what waited for the handler to end.
MretUnseen ==
    /\ pc \in {"mret", "exception"}
    /\ mie' = mpie
    /\ mpie' = TRUE
    /\ goto(mepc)
    /\ stack' = IF pc = "mret" THEN Front(stack) ELSE stack
    /\ updateMEICONTEXT_priority_restore
    /\ UNCHANGED interruptsUpdated
    /\ UNCHANGED <<xh3irqVars, meie, mepc, waiting, line>>

Mret ==
    /\ pc \in {"mret", "exception"}
    /\ mie' = mpie
    /\ mpie' = TRUE
    /\ goto(mepc)
    /\ stack' = IF pc = "mret" THEN Front(stack) ELSE stack
    /\ updateMEICONTEXT_priority_restore
    /\ interruptsUpdated' = TRUE
    /\ UNCHANGED <<xh3irqVars, meie, mepc, waiting, line>>

Instruction ==
    /\ checked
    /\ \/ Main \/ Save \/ SaveContext \/ GetIrq \/ Dispatch \/ BodyTraps \/ BodyEnds
       \/ Disable \/ Restore \/ RestoreContext \/ Check \/ Mret
    /\ checked' = FALSE

Next ==
    \/ \E i \in Irq : Raise(i) \/ Lower(i)
    \/ checkForInterrupts
    \/ Instruction

Spec == Init /\ [][Next]_vars

\* The core is stepped for ever, and a handler's body does not trap for ever.
Fairness ==
    /\ WF_vars(checkForInterrupts)
    /\ WF_vars(Instruction)
    /\ SF_vars(Instruction /\ BodyEnds)

FairSpec == Spec /\ Fairness

-----------------------------------------------------------------------------
(* Properties. *)

Locations == {"main", "save", "saveContext", "getIrq", "dispatch", "body", "disable",
              "restore", "restoreContext", "check", "mret", "exception"}

Contexts == [preempt : 0 .. 16, ppreempt : 0 .. 15, pppreempt : 0 .. 15,
             mreteirq : BOOLEAN, irq : Irq \cup {0, NOIRQ}]

Frames == [level : 1 .. 16, mepc : Locations, mpie : BOOLEAN, context : Contexts,
           irq : Irq \cup {NOIRQ}]

\* The types of the variables.  MSTATUS.MIE is clear in the parts of the handler
\* that are not to be interrupted.
TypeOK ==
    /\ meiea \subseteq Irq /\ meipa \subseteq Irq /\ meifa \subseteq Irq
    /\ meipra \in [Irq -> Prio]
    /\ meicand \in Seq([irq_number : Irq, priority : Prio])
    /\ meinext \in Irq \cup {NOIRQ}
    /\ meicontext \in Contexts
    /\ meie \in BOOLEAN /\ mie \in BOOLEAN /\ mpie \in BOOLEAN
    /\ mepc \in Locations /\ pc \in Locations
    /\ interruptsUpdated \in BOOLEAN /\ waiting \in BOOLEAN /\ checked \in BOOLEAN
    /\ stack \in Seq(Frames)
    /\ line \subseteq Irq
    /\ mie => pc \in {"main", "body", "disable"}

\* The candidates are the interrupts both enabled and pending, once each, with the
\* priorities they have now, the best first.
CandidatesExact ==
    /\ {meicand[k].irq_number : k \in DOMAIN meicand} = meiea \cap meipa
    /\ \A k \in DOMAIN meicand : meicand[k].priority = meipra[meicand[k].irq_number]
    /\ \A j, k \in DOMAIN meicand : j < k => Before(meicand[j], meicand[k])

\* The level of the k-th handler on the stack, and below the first: none.
Level(k) == IF k < 1 THEN 0 ELSE stack[k].level

\* PREEMPT and PPREEMPT are the levels of the handler that runs and of the one it
\* interrupted, whatever traps and returns there were on the way here.
PreemptFollowsNesting ==
    /\ meicontext.preempt = Level(Len(stack))
    /\ meicontext.ppreempt = Level(Len(stack) - 1)

\* A handler interrupts only what has a lower level, and serves no interrupt that
\* would not have been let in over the handler below it.
NestingClimbs ==
    \A k \in 2 .. Len(stack) :
        /\ stack[k - 1].level < stack[k].level
        /\ stack[k].irq # NOIRQ => meipra[stack[k].irq] >= stack[k - 1].level

\* While a device's handler runs, MEICONTEXT names its interrupt, nested ones and
\* exceptions on the way notwithstanding.
ContextNamesIrq ==
    pc = "body" /\ ~IsSoft(Frame.irq) => meicontext.irq = Frame.irq

\* The levels, the handlers and the context that MEICONTEXT holds agree.
NestingSound == TypeOK /\ PreemptFollowsNesting /\ NestingClimbs /\ ContextNamesIrq

\* An enabled interrupt that may preempt what runs.
Deliverable ==
    /\ meie /\ meicand # <<>>
    /\ meicand[1].priority >= meicontext.preempt

\* No interrupt that is to be taken now waits for something else to happen first:
\* the next instruction looks for it.
DeliverableIsSeen == ~checked /\ mie /\ Deliverable => interruptsUpdated

\* wfi ends when an enabled interrupt pends.
PendingWakes == (waiting /\ Deliverable) ~> (~waiting \/ ~Deliverable)

Quiet == <>[][\A i \in Irq : ~Raise(i)]_vars

\* When the devices come to rest, handlers end.
HandlersEnd == Quiet => (stack # <<>> ~> stack = <<>>)

\* When the devices come to rest and the main program leaves interrupts on, none
\* stays a candidate.
AllServed ==
    /\ Quiet
    /\ <>[](meie /\ (pc = "main" => mie))
    => []<>(meicand = <<>>)

\* Once the devices rest, handlers come to an end and leave nothing unserved.
HandlersSettle == HandlersEnd /\ AllServed
=============================================================================

------------------------------ MODULE CortexM0 ------------------------------
(* cortex-m0-core.ts and peripherals/ppb.ts: the state of the Cortex-M0+     *)
(* core of the RP2040, its exceptions and its NVIC.  A handler is a function *)
(* on the record x of the core, the RAM included; exceptions are named by    *)
(* their numbers, an interrupt i by 16 + i.                                  *)
EXTENDS Words, Sequences

CONSTANTS Irq, MaxHardwareIrq
\* Interrupts above MaxHardwareIrq have no line and are cleared on entry.

NMI == 2
SVCALL == 11
PENDSV == 14
SYSTICK == 15
LowestPriority == 4
SP == 13
LR == 14
PC == 15

Add(w, n) == W(U(w) + n)
FromTop(p) == {WordBits - 1 - p}     \* the p-th bit from the top
Has(w, bits) == bits \subseteq w

\* RAM by words; what is not RAM is the private bus (PPB) or a device.
WordOf(a) == U(a \ {0, 1})
Offset(a) == (U(a) % 4) * ByteBits
readWord(x, a, bytes) == Low(Right(x.ram[WordOf(a)], Offset(a)), bytes * ByteBits)
writeWord(x, a, v, bytes) ==
    [x EXCEPT !.ram[WordOf(a)] = (@ \ (Offset(a)..Offset(a) + bytes * ByteBits - 1)) \cup Shift(Low(v, bytes * ByteBits), Offset(a))]
Set(x, r, v) == [x EXCEPT !.regs[r] = v]
setSP(x, v) == Set(x, SP, v \ {0, 1})

\* The flags at the top of the status word, the exception number at its foot.
Flags == <<"N", "Z", "C", "V">>
FlagBits(flags) == UNION {FromTop(p - 1) : p \in {p \in 1..4 : Flags[p] \in flags}}
FlagsOf(w) == {Flags[p] : p \in {p \in 1..4 : Has(w, FromTop(p - 1))}}
AlignBit == 6   \* bit 9 in a word of 32
\* Mistake: the flags are not stacked.
xPSRFlagless(x) == W(x.IPSR)
xPSR(x) == FlagBits(x.flags) \cup W(x.IPSR)
StatusNumber(w) == U(Low(w, 6))

switchStack(x, stack) ==
    IF x.SPSEL = stack THEN x
    ELSE [setSP(x, x.bankedSP) EXCEPT !.bankedSP = x.regs[SP], !.SPSEL = stack]
stackPointer(x, stack) == IF x.SPSEL = stack THEN x.regs[SP] ELSE x.bankedSP
setStackPointer(x, stack, v) == IF x.SPSEL = stack THEN setSP(x, v) ELSE [x EXCEPT !.bankedSP = v]

-----------------------------------------------------------------------------
\* Exceptions; active, which the code does not keep, lists those entered and
\* not left, the latest first.
Saved == <<0, 1, 2, 3, 12, LR>>
FrameSize == 32

exceptionEntry(x, n) ==
    LET stack == IF x.SPSEL = "process" /\ x.mode = "thread" THEN "process" ELSE "main"
        sp == stackPointer(x, stack)
        framePtr == Add(sp, -FrameSize) \ {2}
        status == (xPSR(x) \ {AlignBit}) \cup (IF 2 \in sp THEN {AlignBit} ELSE {})
        Slot(k) == IF k <= 6 THEN x.regs[Saved[k]] ELSE IF k = 7 THEN x.regs[PC] \ {0} ELSE status
        stored[k \in 0..8] == IF k = 0 THEN setStackPointer(x, stack, framePtr)
                              ELSE LET before == stored[k - 1] IN writeWord(before, Add(framePtr, 4 * (k - 1)), Slot(k), 4)
        code == IF x.mode = "handler" THEN 1 ELSE IF x.SPSEL = "main" THEN 9 ELSE 13
        entered == switchStack([Set(stored[8], LR, W(code - 16)) EXCEPT !.mode = "handler", !.IPSR = n], "main")
    IN  [Set(entered, PC, readWord(entered, Add(x.VTOR, 4 * n), 4)) EXCEPT
            !.eventRegistered = TRUE, !.active = <<n>> \o @]

exceptionReturn(x, code) ==
    LET stack == IF code = 13 THEN "process" ELSE "main"
        framePtr == stackPointer(x, stack)
        mode == CASE code = 1 -> "handler" [] code \in {9, 13} -> "thread" [] OTHER -> x.mode
        switched == [IF code \in {1, 9, 13} THEN switchStack(x, stack) ELSE x EXCEPT !.mode = mode]
        Slot(k) == readWord(x, Add(framePtr, 4 * k), 4)
        loaded == [switched EXCEPT !.regs =
                      [r \in DOMAIN @ |-> IF r = PC THEN Slot(6)
                                          ELSE IF \E k \in 1..6 : Saved[k] = r
                                               THEN Slot((CHOOSE k \in 1..6 : Saved[k] = r) - 1) ELSE @[r]]]
        psr == Slot(7)
        align == IF AlignBit \in psr THEN {2} ELSE {}
        popped == IF code \notin {1, 9, 13} THEN loaded
                  ELSE setStackPointer(loaded, stack, Add(stackPointer(loaded, stack), FrameSize) \cup align)
    IN  [popped EXCEPT !.flags = FlagsOf(psr), !.IPSR = IF mode = "thread" /\ x.nPRIV THEN 0 ELSE StatusNumber(psr),
                       !.interruptsUpdated = TRUE, !.eventRegistered = TRUE, !.active = Tail(@)]

exceptionPriority(x, n) ==
    CASE n \in 1..3 -> n - 4
      [] n \in DOMAIN x.shpr -> x.shpr[n]
      [] n >= 16 -> x.priority[n - 16]
      [] OTHER -> LowestPriority

\* Mistake: the handler that runs does not count.
currentPriorityMasked(x) == IF x.PM THEN 0 ELSE LowestPriority
currentPriority(x) ==
    LET active == exceptionPriority(x, x.IPSR) IN
    IF x.waiting THEN IF x.PM THEN active ELSE LowestPriority
    ELSE IF x.PM THEN Min({active, 0}) ELSE active

\* The lowest number among the most urgent ones.
Waiting(x) == (x.exceptions \ {NMI}) \cup {16 + i : i \in x.pending \cap x.enabled}
Urgent(x) ==
    IF NMI \in x.exceptions THEN {NMI}
    ELSE {n \in Waiting(x) : /\ exceptionPriority(x, n) < currentPriority(x)
                             /\ \A m \in Waiting(x) : exceptionPriority(x, m) >= exceptionPriority(x, n)}

checkForInterrupts(x) ==
    IF Urgent(x) = {} THEN [x EXCEPT !.interruptsUpdated = FALSE]
    ELSE LET n == Min(Urgent(x))
             cleared == [x EXCEPT !.exceptions = @ \ {n}, !.waiting = FALSE,
                                  !.pending = IF n > 16 + MaxHardwareIrq THEN @ \ {n - 16} ELSE @]
         IN  exceptionEntry(cleared, n)

setInterrupt(x, irq, value) ==
    IF ~value THEN [x EXCEPT !.pending = @ \ {irq}]
    ELSE IF irq \in x.pending THEN x
    ELSE LET raised == [x EXCEPT !.pending = @ \cup {irq}, !.interruptsUpdated = TRUE]
         IN  IF x.waiting THEN checkForInterrupts(raised) ELSE raised

BXWritePC(x, a) ==
    IF x.mode = "handler" /\ \A p \in 0..3 : Has(a, FromTop(p)) THEN exceptionReturn(x, U(Low(a, 4)))
    ELSE Set(x, PC, a \ {0})

-----------------------------------------------------------------------------
\* Special registers, by their numbers.
readSpecialRegister(x, sysm) ==
    CASE sysm = 0 -> FlagBits(x.flags)
      [] sysm = 3 -> xPSR(x)
      [] sysm = 5 -> W(x.IPSR)
      [] sysm = 8 -> stackPointer(x, "main")
      [] sysm = 9 -> stackPointer(x, "process")
      [] sysm = 16 -> IF x.PM THEN {0} ELSE {}
      [] sysm = 20 -> (IF x.SPSEL = "process" THEN {1} ELSE {}) \cup (IF x.nPRIV THEN {0} ELSE {})
      [] OTHER -> {}

writeSpecialRegister(x, sysm, v) ==
    CASE sysm = 0 -> [x EXCEPT !.flags = FlagsOf(v)]
      [] sysm = 3 -> [x EXCEPT !.flags = FlagsOf(v), !.IPSR = StatusNumber(v)]
      [] sysm = 5 -> [x EXCEPT !.IPSR = U(v)]
      [] sysm = 8 -> setStackPointer(x, "main", v)
      [] sysm = 9 -> setStackPointer(x, "process", v)
      [] sysm = 16 -> [x EXCEPT !.PM = 0 \in v, !.interruptsUpdated = TRUE]
      [] sysm = 20 -> LET set == [x EXCEPT !.nPRIV = 0 \in v]
                      IN  IF x.mode = "handler" THEN set ELSE switchStack(set, IF 1 \in v THEN "process" ELSE "main")
      [] OTHER -> x

\* The registers of the PPB, by their offsets; IPR0 holds four interrupts.
ICSR == \hd04
VTORAddress == \hd08
SHPR2 == \hd1c
SHPR3 == \hd20
ISPR == \h200
ICPR == \h280
ISER == \h100
ICER == \h180
IPR0 == \h400
PPBRegisters == {ICSR, VTORAddress, SHPR2, SHPR3, ISPR, ICPR, ISER, ICER, IPR0}

TopTwo(v, byte) == U(Right(Byte(v, byte), ByteBits - 2))
Interrupts(v) == v \cap Irq
Notice(x) == [x EXCEPT !.interruptsUpdated = TRUE]
\* ICSR: set bits 31, 28 and 26, clear bits 27 and 25.
pend(x, v) ==
    LET set == {n \in {NMI, PENDSV, SYSTICK} : Has(v, FromTop(CASE n = NMI -> 0 [] n = PENDSV -> 3 [] n = SYSTICK -> 5))}
        clear == {n \in {PENDSV, SYSTICK} : Has(v, FromTop(IF n = PENDSV THEN 4 ELSE 6))}
    IN  [x EXCEPT !.exceptions = (@ \cup set) \ clear, !.interruptsUpdated = @ \/ set # {}]

ppbWrite(x, offset, v) ==
    CASE offset = ICSR -> pend(x, v)
      [] offset = VTORAddress -> [x EXCEPT !.VTOR = v]
      [] offset = SHPR2 -> [x EXCEPT !.shpr[SVCALL] = TopTwo(v, 3)]
      [] offset = SHPR3 -> [x EXCEPT !.shpr[PENDSV] = TopTwo(v, 2), !.shpr[SYSTICK] = TopTwo(v, 3)]
      [] offset = ISPR -> Notice([x EXCEPT !.pending = @ \cup Interrupts(v)])
      [] offset = ICPR -> [x EXCEPT !.pending = @ \ {i \in Interrupts(v) : i >= MaxHardwareIrq}]
      [] offset = ISER -> Notice([x EXCEPT !.enabled = @ \cup Interrupts(v)])
      [] offset = ICER -> [x EXCEPT !.enabled = @ \ v]
      [] offset = IPR0 -> Notice([x EXCEPT !.priority = [i \in Irq |-> IF i < 4 THEN TopTwo(v, i) ELSE @[i]]])

ppbRead(x, offset) ==
    CASE offset \in {ISPR, ICPR} -> x.pending
      [] offset \in {ISER, ICER} -> x.enabled
      [] offset = IPR0 -> UNION {Left(W(x.priority[i]), (i + 1) * ByteBits - 2) : i \in Irq \cap 0..3}
      [] offset = VTORAddress -> x.VTOR
=============================================================================

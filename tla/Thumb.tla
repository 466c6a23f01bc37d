-------------------------------- MODULE Thumb --------------------------------
(* cortex-m0-core.ts: executeInstruction, the Thumb instructions, and the    *)
(* loop of simulator.ts around it with interrupts raised between any two     *)
(* instructions.  Memory is that of rp2040.ts.                               *)
EXTENDS CortexM0

CONSTANTS Halfwords(_), Device
\* Halfwords(name): a program, by address.  Device: an external
\* peripheral whose one register lowers the interrupt lines written to it.

VARIABLES m0, requests
\* The core, with the name of its program; the requests still to come.

thumbVars == <<m0, requests>>

load(x, a, bytes) == IF WordOf(a) \in DOMAIN x.ram THEN readWord(x, a, bytes) ELSE ppbRead(x, U(a))
store(x, a, v, bytes) ==
    IF WordOf(a) \in DOMAIN x.ram THEN writeWord(x, a, v, bytes)
    ELSE IF U(a) = Device THEN [x EXCEPT !.pending = @ \ v]
    ELSE ppbWrite(x, U(a), v)

\* addUpdateFlags and substractUpdateFlags: the second operand may be 2^32.
Sign(w) == WordBits - 1 \in w
NZ(v, flags) == (flags \ {"N", "Z"}) \cup (IF Sign(v) THEN {"N"} ELSE {}) \cup (IF v = {} THEN {"Z"} ELSE {})
CV(carry, overflow) == (IF carry THEN {"C"} ELSE {}) \cup (IF overflow THEN {"V"} ELSE {})
Carry(flags, carry) == (flags \ {"C"}) \cup CV(carry, FALSE)
Result(v, flags) == [v |-> v, flags |-> NZ(v, flags)]
addUpdateFlags(m, n) ==
    LET v == W(m + n) IN Result(v, CV(m + n >= 2^WordBits, S(v) # S(W(m)) + S(W(n))))
substractUpdateFlags(m, n) ==
    LET v == W(m - n) IN
    Result(v, CV(m >= n, Sign(v) # Sign(W(m)) /\ Sign(v) = Sign(W(n))))

\* Shifts by n: a shift count in JavaScript is taken modulo the width.
Bit(v, n) == n % WordBits \in v
ShiftLeft(v, n, flags) ==
    Result(IF n >= WordBits THEN {} ELSE Left(v, n), IF n = 0 THEN flags ELSE Carry(flags, Bit(v, WordBits - n)))
ShiftRight(v, n, flags) ==
    Result(IF n >= WordBits THEN {} ELSE Right(v, n), Carry(flags, n <= WordBits /\ Bit(v, n - 1)))
ShiftSigned(v, n, flags) ==
    LET by == Min({n, WordBits}) IN
    Result(Arithmetic(v, Min({n, WordBits})), Carry(flags, Bit(v, by - 1)))
Rotate(v, n, flags) ==
    LET w == RotateRight(v, n % WordBits) IN Result(w, Carry(flags, Sign(w)))

\* The sixteen operations of one register on another, by bits 9 to 6.
DataProcessing(k, d, m, flags) ==
    LET c == IF "C" \in flags THEN 1 ELSE 0 IN
    CASE k \in {0, 8} -> Result(d \cap m, flags)
      [] k = 1 -> Result(Xor(d, m), flags)
      [] k = 2 -> ShiftLeft(d, U(m) % 256, flags)
      [] k = 3 -> ShiftRight(d, U(m) % 256, flags)
      [] k = 4 -> ShiftSigned(d, U(m) % 256, flags)
      [] k = 5 -> addUpdateFlags(U(m), U(d) + c)
      [] k = 6 -> substractUpdateFlags(U(d), U(m) + 1 - c)
      [] k = 7 -> Rotate(d, U(m) % 256, flags)
      [] k = 9 -> substractUpdateFlags(0, U(m))
      [] k = 10 -> substractUpdateFlags(U(d), U(m))
      [] k = 11 -> addUpdateFlags(U(d), U(m))
      [] k = 12 -> Result(d \cup m, flags)
      [] k = 13 -> Result(W(S(d) * S(m)), flags)
      [] k = 14 -> Result(d \ m, flags)
      [] k = 15 -> Result(Not(m), flags)
Comparing == {8, 10, 11}

checkCondition(cond, flags) ==
    LET F(flag) == flag \in flags
        result == CASE cond \div 2 = 0 -> F("Z")
                    [] cond \div 2 = 1 -> F("C")
                    [] cond \div 2 = 2 -> F("N")
                    [] cond \div 2 = 3 -> F("V")
                    [] cond \div 2 = 4 -> F("C") /\ ~F("Z")
                    [] cond \div 2 = 5 -> F("N") = F("V")
                    [] cond \div 2 = 6 -> F("N") = F("V") /\ ~F("Z")
                    [] OTHER -> TRUE
    IN  result # (cond % 2 = 1 /\ cond # 15)

Swap(v, order) == UNION {Shift(Byte(v, order[k]), (k - 1) * ByteBits) : k \in 1..4}

\* Registers stored to or loaded from rising addresses.
Listed(bits, top) == {r \in 0..top : (bits \div 2^r) % 2 = 1}
ListedAt(list, r, a) == Add(a, 4 * Cardinality({q \in list : q < r}))
storeAll(x, list, a) ==
    [x EXCEPT !.ram = [k \in DOMAIN @ |->
        LET into == {r \in list : U(ListedAt(list, r, a)) = k} IN
        IF into = {} THEN @[k] ELSE LET r == Min(into) IN x.regs[IF r = 8 THEN LR ELSE r]]]
loadAll(x, list, a) == [x EXCEPT !.regs = [r \in DOMAIN @ |-> IF r \in list THEN load(x, ListedAt(list, r, a), 4) ELSE @[r]]]
After(list, a) == Add(a, 4 * Cardinality(list))

Stop(x) == [x EXCEPT !.stopped = TRUE]     \* onBreak
Svc(x) == Notice([x EXCEPT !.exceptions = @ \cup {SVCALL}])
WaitForEvent(x) == IF x.eventRegistered THEN [x EXCEPT !.eventRegistered = FALSE] ELSE [x EXCEPT !.waiting = TRUE]

\* One instruction: op is the halfword, op2 the one that follows, here the
\* address of op; x.regs[PC] is past it already.
Operand(op, low, bits) == (op \div 2^low) % 2^bits
Flagged(x, k, result) == [Set(x, k, result.v) EXCEPT !.flags = result.flags]
LiteralAt(op, here) == Add(Add(here, 4) \ {0, 1}, Operand(op, 0, 8) * 4)
OnStack(x, op) == Add(x.regs[SP], Operand(op, 0, 8) * 4)
Index(x, op, scale) == Add(x.regs[Operand(op, 3, 3)], Operand(op, 6, 5) * scale)
Sum(x, op) == Add(x.regs[Operand(op, 3, 3)], U(x.regs[Operand(op, 6, 3)]))

\* ADD in its forms, and ADR.
IsAdd(op) ==
    \/ op \div 2^9 \in {\b0001100, \b0001110} \/ op \div 2^8 = \b01000100
    \/ op \div 2^11 \in {\b00110, \b10100, \b10101} \/ op \div 2^7 = \b101100000
executeAdd(x, op, here) ==
    LET d == Operand(op, 0, 3)  n == Operand(op, 3, 3)  m == Operand(op, 6, 3)  r == Operand(op, 8, 3)
        hd == Operand(op, 7, 1) * 8 + d
        R(k) == IF k = PC THEN Add(here, 4) ELSE x.regs[k]
        sum == Add(R(hd), U(R(Operand(op, 3, 4))))
    IN  CASE op \div 2^9 = \b0001100 -> Flagged(x, d, addUpdateFlags(U(R(n)), U(R(m))))
          [] op \div 2^9 = \b0001110 -> Flagged(x, d, addUpdateFlags(U(R(n)), m))
          [] op \div 2^11 = \b00110 -> Flagged(x, r, addUpdateFlags(U(R(r)), Operand(op, 0, 8)))
          [] op \div 2^8 = \b01000100 -> Set(x, hd, sum \ (IF hd = PC THEN {0} ELSE IF hd = SP THEN {0, 1} ELSE {}))
          [] op \div 2^11 = \b10100 -> Set(x, r, LiteralAt(op, here))
          [] op \div 2^11 = \b10101 -> Set(x, r, OnStack(x, op))
          [] op \div 2^7 = \b101100000 -> setSP(x, Add(R(SP), Operand(op, 0, 7) * 4))

\* LDR, LDRB, LDRH, LDRSB, LDRSH.
IsLoad(op) ==
    \/ op \div 2^9 \in \b0101011..\b0101111
    \/ op \div 2^11 \in {\b01001, \b01101, \b01111, \b10001, \b10011}
executeLoad(x, op, here) ==
    LET k == IF op \div 2^11 \in {\b01001, \b10011} THEN Operand(op, 8, 3) ELSE Operand(op, 0, 3)
        Word(a) == load(x, a, 4)  Half(a) == load(x, a, 2)  One(a) == load(x, a, 1)
    IN  Set(x, k,
          CASE op \div 2^11 = \b01001 -> Word(LiteralAt(op, here))
            [] op \div 2^11 = \b01101 -> Word(Index(x, op, 4))
            [] op \div 2^11 = \b01111 -> One(Index(x, op, 1))
            [] op \div 2^11 = \b10001 -> Half(Index(x, op, 2))
            [] op \div 2^11 = \b10011 -> Word(OnStack(x, op))
            [] op \div 2^9 = \b0101011 -> Extend(One(Sum(x, op)), ByteBits)
            [] op \div 2^9 = \b0101100 -> Word(Sum(x, op))
            [] op \div 2^9 = \b0101101 -> Half(Sum(x, op))
            [] op \div 2^9 = \b0101110 -> One(Sum(x, op))
            [] op \div 2^9 = \b0101111 -> Extend(Half(Sum(x, op)), 2 * ByteBits))

\* STR, STRB, STRH.
IsStore(op) ==
    \/ op \div 2^9 \in \b0101000..\b0101010
    \/ op \div 2^11 \in {\b01100, \b01110, \b10000, \b10010}
executeStore(x, op) ==
    LET Put(a, bytes) == store(x, a, x.regs[Operand(op, 0, 3)], bytes)
    IN  CASE op \div 2^9 = \b0101000 -> Put(Sum(x, op), 4)
          [] op \div 2^9 = \b0101001 -> Put(Sum(x, op), 2)
          [] op \div 2^9 = \b0101010 -> Put(Sum(x, op), 1)
          [] op \div 2^11 = \b01100 -> Put(Index(x, op, 4), 4)
          [] op \div 2^11 = \b01110 -> Put(Index(x, op, 1), 1)
          [] op \div 2^11 = \b10000 -> Put(Index(x, op, 2), 2)
          [] op \div 2^11 = \b10010 -> store(x, OnStack(x, op), x.regs[Operand(op, 8, 3)], 4)

\* B, BL, BLX and BX.
IsBranch(op, op2) ==
    \/ op \div 2^12 = \b1101 /\ Operand(op, 9, 3) # 7
    \/ op \div 2^11 = \b11100
    \/ op \div 2^11 = \b11110 /\ Operand(op2, 14, 2) = 3 /\ Operand(op2, 12, 1) = 1
    \/ op \div 2^8 = \b01000111 /\ Operand(op, 0, 3) = 0
executeBranch(x, op, op2, here) ==
    LET pc4 == Add(here, 4)
        Jump(offset) == Set(x, PC, Add(pc4, offset))
        target == x.regs[Operand(op, 3, 4)]
        s == Operand(op, 10, 1)
        I(j) == IF s = j THEN 1 ELSE 0
        imm32 == I(Operand(op2, 13, 1)) * 2^23 + I(Operand(op2, 11, 1)) * 2^22 + Operand(op, 0, 10) * 2^12
                 + Operand(op2, 0, 11) * 2 - s * 2^24
    IN  CASE op \div 2^12 = \b1101 ->
                IF checkCondition(Operand(op, 8, 4), x.flags) THEN Jump(2 * (Operand(op, 0, 7) - 128 * Operand(op, 7, 1))) ELSE x
          [] op \div 2^11 = \b11100 -> Jump(2 * (Operand(op, 0, 10) - 1024 * s))
          [] op \div 2^11 = \b11110 -> [Jump(imm32) EXCEPT !.regs[LR] = pc4 \cup {0}]
          [] op \div 2^7 = \b010001110 -> BXWritePC(x, target)
          [] op \div 2^7 = \b010001111 ->
                LET linked == Set(x, LR, x.regs[PC] \cup {0})
                IN  Set(linked, PC, linked.regs[Operand(op, 3, 4)] \ {0})

\* SUB (sp) and SUBS.
IsSub(op) ==
    \/ op \div 2^9 \in {\b0001101, \b0001111} \/ op \div 2^11 = \b00111 \/ op \div 2^7 = \b101100001
executeSub(x, op) ==
    LET d == Operand(op, 0, 3)  n == x.regs[Operand(op, 3, 3)]  m == Operand(op, 6, 3)  r == Operand(op, 8, 3)
    IN  CASE op \div 2^7 = \b101100001 -> setSP(x, Add(x.regs[SP], -Operand(op, 0, 7) * 4))
          [] op \div 2^9 = \b0001111 -> Flagged(x, d, substractUpdateFlags(U(n), m))
          [] op \div 2^11 = \b00111 -> Flagged(x, r, substractUpdateFlags(U(x.regs[r]), Operand(op, 0, 8)))
          [] op \div 2^9 = \b0001101 -> Flagged(x, d, substractUpdateFlags(U(n), U(x.regs[m])))

\* MOV, MOVS, MRS and MSR; the wide ones move on past their second half.
IsMove(op, op2) ==
    \/ op \div 2^8 = \b01000110 \/ op \div 2^11 = \b00100
    \/ op = \b1111001111101111 /\ Operand(op2, 12, 4) = \b1000
    \/ op \div 2^4 = \b111100111000 /\ Operand(op2, 8, 8) = \b10001000
executeMove(x, op, op2, here) ==
    LET pc4 == Add(here, 4)
        SYSm == Operand(op2, 0, 8)
        d == Operand(op, 7, 1) * 8 + Operand(op, 0, 3)  m == Operand(op, 3, 4)
        value == IF m = PC THEN pc4 ELSE x.regs[m]
    IN  CASE op \div 2^8 = \b01000110 -> Set(x, d, value \ (IF d = PC THEN {0} ELSE IF d = SP THEN {0, 1} ELSE {}))
          [] op \div 2^11 = \b00100 -> Flagged(x, Operand(op, 8, 3), Result(W(Operand(op, 0, 8)), x.flags))
          [] op = \b1111001111101111 -> Set(Set(x, PC, pc4), Operand(op2, 8, 4), readSpecialRegister(x, SYSm))
          [] op \div 2^4 = \b111100111000 -> Set(writeSpecialRegister(x, SYSm, x.regs[Operand(op, 0, 4)]), PC, pc4)

\* CPSID, CPSIE, and the barriers, which only take their time.
IsMasking(op, op2) ==
    \/ op \in {\hb672, \hb662}
    \/ op = \b1111001110111111 /\ Operand(op2, 4, 12) \in {\h8f4, \h8f5, \h8f6}
executeMasking(x, op, here) ==
    CASE op = \hb672 -> [x EXCEPT !.PM = TRUE]
      [] op = 46690 -> Notice([x EXCEPT !.PM = FALSE])
      [] op = \b1111001110111111 -> Set(x, PC, Add(here, 4))

\* SXTB, SXTH, UXTB and UXTH.
IsExtend(op) == op \div 2^8 = \b10110010
executeExtend(x, op) ==
    LET v == x.regs[Operand(op, 3, 3)]
        half == 2 * ByteBits
    IN  Set(x, Operand(op, 0, 3),
          CASE Operand(op, 6, 2) = 0 -> Extend(v, half)
            [] Operand(op, 6, 2) = 1 -> Extend(v, ByteBits)
            [] Operand(op, 6, 2) = 2 -> Low(v, half)
            [] Operand(op, 6, 2) = 3 -> Low(v, ByteBits))

executeOne(y, op, op2) ==
    LET P(n) == op \div 2^n
        F(low, bits) == Operand(op, low, bits)
        F2(low, bits) == Operand(op2, low, bits)
        here == y.regs[PC]
        x == Set(y, PC, Add(here, 2))
        x2 == Set(y, PC, Add(here, 4))
        d == F(0, 3)  n == F(3, 3)  m == F(6, 3)  r == F(8, 3)
        R(k) == x.regs[k]
        hd == F(7, 1) * 8 + d  hm == F(3, 4)
        list == Listed(op, 7)
        WriteBack(z) == IF r \in list THEN z ELSE Set(z, r, After(list, R(r)))
        half == 2 * ByteBits
    IN
    CASE IsAdd(op) -> executeAdd(x, op, here)
      [] IsLoad(op) -> executeLoad(x, op, here)
      [] IsStore(op) -> executeStore(x, op)
      [] IsBranch(op, op2) -> executeBranch(x, op, op2, here)
      [] IsSub(op) -> executeSub(x, op)
      [] IsMove(op, op2) -> executeMove(x, op, op2, here)
      [] IsMasking(op, op2) -> executeMasking(x, op, here)
      [] IsExtend(op) -> executeExtend(x, op)
      [] P(11) = \b00000 -> Flagged(x, d, ShiftLeft(R(n), F(6, 5), x.flags))
      [] P(11) = \b00001 -> Flagged(x, d, ShiftRight(R(n), IF F(6, 5) = 0 THEN WordBits ELSE F(6, 5), x.flags))
      [] P(11) = \b00010 -> Flagged(x, d, ShiftSigned(R(n), IF F(6, 5) = 0 THEN WordBits ELSE F(6, 5), x.flags))
      [] P(11) = \b00101 -> [x EXCEPT !.flags = substractUpdateFlags(U(R(r)), F(0, 8)).flags]
      [] P(8) = \b01000101 -> [x EXCEPT !.flags = substractUpdateFlags(U(R(hd)), U(R(hm))).flags]
      [] P(10) = \b010000 ->
            LET k == F(6, 4)
                result == DataProcessing(k, R(d), R(n), x.flags)
            IN  IF k \in Comparing THEN [x EXCEPT !.flags = result.flags] ELSE Flagged(x, d, result)
      [] P(6) = \b1011101000 -> Set(x, d, Swap(R(n), <<3, 2, 1, 0>>))
      [] P(6) = \b1011101001 -> Set(x, d, Swap(R(n), <<1, 0, 3, 2>>))
      [] P(6) = \b1011101011 -> Set(x, d, Extend(Swap(R(n), <<1, 0, 3, 2>>), half))
      [] P(9) = \b1011010 ->
            LET pushed == Listed(op, 8)
                a == Add(R(SP), -4 * Cardinality(pushed))
            IN  setSP(storeAll(x, pushed, a), a)
      [] P(9) = \b1011110 ->
            LET z == loadAll(x, list, R(SP))
                a == After(list, R(SP))
            IN  IF F(8, 1) = 0 THEN setSP(z, a) ELSE BXWritePC(setSP(z, Add(a, 4)), load(x, a, 4))
      [] P(11) = \b11000 -> WriteBack(storeAll(x, list, R(r)))
      [] P(11) = \b11001 -> WriteBack(loadAll(x, list, R(r)))
      [] P(8) \in {\hbe, \hde} -> Stop(x)    \* BKPT, UDF
      [] P(8) = \hdf -> Svc(x)
      [] op \in {\hbf00, \hbf10, \hbf40} -> x               \* NOP, YIELD, SEV
      [] op = \hbf20 -> WaitForEvent(x)
      [] op = \hbf30 -> [x EXCEPT !.waiting = TRUE]       \* WFI
      [] P(4) = \b111101111111 /\ F2(12, 4) = \b1010 -> Stop(x2)

Halfword(x, a) == IF U(a) \in DOMAIN Halfwords(x.name) THEN Halfwords(x.name)[U(a)] ELSE 0
executeThumb(x) ==
    LET y == IF x.interruptsUpdated THEN checkForInterrupts(x) ELSE x
        pc == y.regs[PC] \ {0}
    IN  executeOne(Set(y, PC, pc), Halfword(y, pc), Halfword(y, Add(pc, 2)))

-----------------------------------------------------------------------------
\* Simulator.execute: no instruction is executed while the core waits.
Execute ==
    /\ ~m0.stopped /\ ~m0.waiting
    /\ m0' = executeThumb(m0)
    /\ UNCHANGED requests

Request(source) == requests[source] > 0 /\ requests' = [requests EXCEPT ![source] = @ - 1]

Interrupt(irq) ==
    /\ Request(16 + irq) /\ irq \notin m0.pending
    /\ m0' = setInterrupt(m0, irq, TRUE)

\* The callback of the SysTick alarm.
SysTick ==
    /\ Request(SYSTICK)
    /\ m0' = Notice([m0 EXCEPT !.exceptions = @ \cup {SYSTICK}])

ThumbNext == Execute \/ (\E irq \in 0..MaxHardwareIrq : Interrupt(irq)) \/ SysTick
=============================================================================

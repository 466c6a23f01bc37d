------------------------------ MODULE Rv32Core ------------------------------
(* riscv/cpu.ts: the instructions of the Hazard3 cores, executed from a      *)
(* program text over shared RAM by the harts in any order of steps           *)
(* (rp2350.ts).  Traps, CSRs and wfi are in Xh3irq, h3.block in Core1Launch. *)
(* A handler is a function on the record of a hart, its RAM included.        *)
EXTENDS Rv32Formats, Sequences, FiniteSets

CONSTANTS Hart, RamSize, Starts
\* Starts: the initial [text, regs, harts]; harts is the set that runs the text,
\* which is [name, code], the code being the words by address.

VARIABLES text, core, ram

rv32Vars == <<text, core, ram>>

NoAddress == All \cup {WordBits}    \* no word: nothing is reserved
Number(b) == IF b THEN {0} ELSE {}

\* RegisterSet.
getRegister(x, r) == IF r = 0 THEN {} ELSE x.regs[r]
setRegister(x, r, v) == IF r = 0 THEN x ELSE [x EXCEPT !.regs[r] = v]

\* chip.readUint*, writeUint*: little-endian RAM of bytes.
read(x, a, bytes) == UNION {Shift(x.ram[U(a) + k], k * ByteBits) : k \in 0..bytes - 1}
write(x, a, v, bytes) ==
    [x EXCEPT !.ram = [k \in DOMAIN @ |-> IF k - U(a) \in 0..bytes - 1 THEN Byte(v, k - U(a)) ELSE @[k]]]

\* OP: register with register.
Magnitude(n) == IF n < 0 THEN -n ELSE n
Truncated(n, d) ==
    LET q == Magnitude(n) \div Magnitude(d) IN IF (n < 0) = (d < 0) THEN q ELSE -q
Least == {WordBits - 1}
Divide(a, b) ==
    IF b = {} THEN All
    ELSE IF a = Least /\ b = All THEN Least
    ELSE W(Truncated(S(a), S(b)))
\* Mistake: the remainder of the magnitudes.
RemainderUnsigned(a, b) == IF b = {} THEN a ELSE W(Magnitude(S(a)) % Magnitude(S(b)))
Remainder(a, b) == IF b = {} THEN a ELSE W(S(a) - S(b) * Truncated(S(a), S(b)))
High(product) == W(product \div 2^WordBits)

OpAdd(f3, f7, a, b) ==
    LET n == U(b) % WordBits IN
    CASE f3 = 0 /\ f7 = 0 -> W(U(a) + U(b))
      [] f3 = 0 /\ f7 = 32 -> W(U(a) - U(b))
      [] f3 = 0 /\ f7 = 1 -> W(U(a) * U(b))
      [] f3 = 1 /\ f7 = 0 -> Left(a, n)
      [] f3 = 1 /\ f7 = 1 -> High(S(a) * S(b))
      [] f3 = 1 /\ f7 = 20 -> a \cup {n}
      [] f3 = 1 /\ f7 = 36 -> a \ {n}
      [] f3 = 1 /\ f7 = 48 -> RotateLeft(a, n)
      [] f3 = 1 /\ f7 = 52 -> Xor(a, {n})
      [] f3 = 2 /\ f7 = 0 -> Number(S(a) < S(b))
      [] f3 = 2 /\ f7 = 1 -> High(S(a) * U(b))
      [] f3 = 3 /\ f7 = 0 -> Number(U(a) < U(b))
      [] f3 = 3 /\ f7 = 1 -> High(U(a) * U(b))
      [] f3 = 2 /\ f7 = 16 -> W(U(Left(a, 1)) + U(b))

OpLogic(f3, f7, a, b) ==
    LET n == U(b) % WordBits IN
    CASE f3 \in {4, 6} /\ f7 = 16 -> W(U(Left(a, f3 \div 2)) + U(b))
      [] f3 = 4 /\ f7 = 0 -> Xor(a, b)
      [] f3 = 4 /\ f7 = 1 -> Divide(a, b)
      [] f3 = 4 /\ f7 = 4 -> Low(a, 2 * ByteBits) \cup Left(b, 2 * ByteBits)
      [] f3 = 4 /\ f7 = 5 -> IF S(a) < S(b) THEN a ELSE b
      [] f3 = 4 /\ f7 = 32 -> Xor(Not(a), b)
      [] f3 = 5 /\ f7 = 0 -> Right(a, n)
      [] f3 = 5 /\ f7 = 1 -> IF b = {} THEN All ELSE W(U(a) \div U(b))
      [] f3 = 5 /\ f7 = 5 -> IF U(a) < U(b) THEN a ELSE b
      [] f3 = 5 /\ f7 = 32 -> Arithmetic(a, n)
      [] f3 = 5 /\ f7 = 36 -> Number(n \in a)
      [] f3 = 5 /\ f7 = 48 -> RotateRight(a, n)
      [] f3 = 6 /\ f7 = 0 -> a \cup b
      [] f3 = 6 /\ f7 = 1 -> Remainder(a, b)
      [] f3 = 6 /\ f7 = 5 -> IF S(a) > S(b) THEN a ELSE b
      [] f3 = 6 /\ f7 = 32 -> a \cup Not(b)
      [] f3 = 7 /\ f7 = 0 -> a \cap b
      [] f3 = 7 /\ f7 = 1 -> IF b = {} THEN a ELSE W(U(a) % U(b))
      [] f3 = 7 /\ f7 = 4 -> Low(a, ByteBits) \cup Left(Low(b, ByteBits), ByteBits)
      [] f3 = 7 /\ f7 = 5 -> IF U(a) > U(b) THEN a ELSE b
      [] f3 = 7 /\ f7 = 32 -> a \ b

Op(f3, f7, a, b) == IF f3 < 4 THEN OpAdd(f3, f7, a, b) ELSE OpLogic(f3, f7, a, b)

\* OP-IMM: register with the sign-extended immediate, or with the shift count.
Unary(code, a) ==
    CASE code = 0 -> W(IF a = {} THEN WordBits ELSE WordBits - 1 - Max(a))
      [] code = 1 -> W(IF a = {} THEN WordBits ELSE Min(a))
      [] code = 2 -> W(Cardinality(a))
      [] code = 4 -> Extend(a, ByteBits)
      [] code = 5 -> Extend(a, 2 * ByteBits)

OpImm(f3, w, a) ==
    LET value == immI(w) \cap All
        n == rs2(w) % WordBits
        f7 == func7(w)
    IN  CASE f3 \in {0, 2, 3, 4, 6, 7} -> Op(f3, 0, a, value)
          [] f3 = 1 /\ f7 \in {0, 20, 36, 52} -> Op(1, f7, a, W(n))
          [] f3 = 1 /\ f7 = 48 -> Unary(rs2(w), a)
          [] f3 = 5 /\ f7 \in {0, 32, 36, 48} -> Op(5, f7, a, W(n))
          [] f3 = 5 /\ f7 = 52 -> UNION {Shift(Byte(a, k), (3 - k) * ByteBits) : k \in 0..3}
          [] f3 = 5 /\ f7 = 20 -> UNION {k * ByteBits .. (k + 1) * ByteBits - 1 : k \in {k \in 0..3 : Byte(a, k) # {}}}

Load(x, f3, a) ==
    CASE f3 = 0 -> Extend(read(x, a, 1), ByteBits)
      [] f3 = 1 -> Extend(read(x, a, 2), 2 * ByteBits)
      [] f3 = 2 -> read(x, a, 4)
      [] f3 = 4 -> read(x, a, 1)
      [] f3 = 5 -> read(x, a, 2)

\* AMO: lr.w, sc.w and the read-modify-writes.
loadReserved(x, d, a) == setRegister([x EXCEPT !.reservation = a], d, read(x, a, 4))
storeConditional(x, d, a, b) ==
    LET success == x.reservation = a
        stored == IF success THEN write(x, a, b, 4) ELSE x
    IN  setRegister([stored EXCEPT !.reservation = NoAddress], d, Number(~success))
Amo(f5, a, b) ==
    CASE f5 = 0 -> W(U(a) + U(b)) [] f5 = 1 -> b [] f5 = 4 -> Xor(a, b) [] f5 = 8 -> a \cup b
      [] f5 = 12 -> a \cap b
      [] f5 = 16 -> IF S(a) < S(b) THEN a ELSE b [] f5 = 20 -> IF S(a) > S(b) THEN a ELSE b
      [] f5 = 24 -> IF U(a) < U(b) THEN a ELSE b [] f5 = 28 -> IF U(a) > U(b) THEN a ELSE b
amo(x, f5, d, a, b) ==
    LET orig == read(x, a, 4)
        done == write(setRegister(x, d, orig), a, Amo(f5, orig, b), 4)
    IN  [done EXCEPT !.reservation = IF @ = a THEN NoAddress ELSE @]
Atomic(x, f5, d, a, b) ==
    CASE f5 = 2 -> loadReserved(x, d, a)
      [] f5 = 3 -> storeConditional(x, d, a, b)
      [] OTHER -> amo(x, f5, d, a, b)

Taken(f3, a, b) ==
    CASE f3 = 0 -> a = b [] f3 = 1 -> a # b
      [] f3 = 4 -> S(a) < S(b) [] f3 = 5 -> S(a) >= S(b)
      [] f3 = 6 -> U(a) < U(b) [] f3 = 7 -> U(a) >= U(b)

\* h3.bextm and h3.bextmi.
extractBits(w, a, b) ==
    LET n == IF func3(w) = 0 THEN U(b) % WordBits ELSE rs2(w) % WordBits
    IN  Low(Right(a, n), 1 + Value(getRange(w, 28, 26)))

\* step: x.next is where the hart goes on, the next instruction unless one jumps.
Displaced(a, value) == W(U(a) + U(value \cap All))
storeByWidth(x, f3, a, b) == write(x, a, b, 2^f3)
jalr(x, w, a) == [setRegister(x, rd(w), W(x.next)) EXCEPT !.next = U(Displaced(a, immI(w)) \ {0})]
jal(x, w) == [setRegister(x, rd(w), W(x.next)) EXCEPT !.next = x.pc + Signed(immJ(w))]
lui(x, w) == setRegister(x, rd(w), immU(w) \cap All)
auipc(x, w) == setRegister(x, rd(w), W(x.pc + U(immU(w) \cap All)))

step(x, w) ==
    LET a == getRegister(x, rs1(w))
        b == getRegister(x, rs2(w))
        op == opcode(w)
    IN  CASE op = 51 -> setRegister(x, rd(w), Op(func3(w), func7(w), a, b))
          [] op = 19 -> setRegister(x, rd(w), OpImm(func3(w), w, a))
          [] op = 3 -> setRegister(x, rd(w), Load(x, func3(w), Displaced(a, immI(w))))
          [] op = 35 -> storeByWidth(x, func3(w), Displaced(a, immS(w)), b)
          [] op = 47 -> Atomic(x, func7(w) \div 4, rd(w), a, b)
          [] op = 99 -> IF Taken(func3(w), a, b) THEN [x EXCEPT !.next = x.pc + Signed(immB(w))] ELSE x
          [] op = 103 -> jalr(x, w, a)
          [] op = 111 -> jal(x, w)
          [] op = 55 -> lui(x, w)
          [] op = 23 -> auipc(x, w)
          [] op = 15 -> x
          [] op = 11 -> setRegister(x, rd(w), extractBits(w, a, b))

\* cm.push and cm.popret store and load ra and the saved registers, last first.
xreg_list(rlist) ==
    LET all == <<27, 26, 25, 24, 23, 22, 21, 20, 19, 18, 9, 8, 1>>
    IN  IF rlist = 15 THEN all ELSE SubSeq(all, 17 - rlist, 13)
stack_adj(w) ==
    LET rlist == Field(w, 7, 4)
    IN  (IF rlist = 15 THEN 64 ELSE 16 * (rlist \div 4)) + Value(Place(w, 3, 2, 4))
Move(x, w, top, Each(_, _, _)) ==
    LET regs == xreg_list(Field(w, 7, 4))
        done[n \in 0..Len(regs)] == IF n = 0 THEN x ELSE Each(done[n - 1], regs[n], W(top - 4 * n))
    IN  done[Len(regs)]
push(x, w) ==
    LET sp == U(getRegister(x, 2))
        Store(y, r, a) == write(y, a, getRegister(y, r), 4)
    IN  setRegister(Move(x, w, sp, Store), 2, W(sp - stack_adj(w)))
popret(x, w) ==
    LET sp == U(getRegister(x, 2))
        Fetch(y, r, a) == setRegister(y, r, read(y, a, 4))
    IN  setRegister(Move(x, w, sp + stack_adj(w), Fetch), 2, W(sp + stack_adj(w)))

Compressed(w) == ~ ({0, 1} \subseteq w)
Group(w) == Field(w, 15, 8)
IsPush(w) == Field(w, 1, 0) = 2 /\ Group(w) = 184
IsPopret(w) == Field(w, 1, 0) = 2 /\ Group(w) = 190

\* fetchInstruction and step.
executeInstruction(x, w) ==
    CASE ~Compressed(w) -> step([x EXCEPT !.next = x.pc + 4], w)
      [] Compressed(w) /\ IsPush(w) -> step(push([x EXCEPT !.next = x.pc + 2], w), cnop_to_addi)
      [] Compressed(w) /\ IsPopret(w) -> step(popret([x EXCEPT !.next = x.pc + 2], w), enc_itype({}, 1, 0, 0, 103))
      [] OTHER -> step([x EXCEPT !.next = x.pc + 2], decompress_rv32c_inst(w))

-----------------------------------------------------------------------------
Rv32Init ==
    /\ \E s \in Starts :
        /\ text = s.text
        /\ core = [h \in Hart |-> [pc |-> IF h \in s.harts THEN 0 ELSE -1, regs |-> s.regs, reservation |-> NoAddress]]
    /\ ram = [k \in 0..RamSize - 1 |-> {}]

Halted(h) == core[h].pc \notin DOMAIN text.code

Leaves(h, x) ==
    /\ core' = [core EXCEPT ![h] = [pc |-> x.next, regs |-> x.regs, reservation |-> x.reservation]]
    /\ ram' = x.ram
    /\ UNCHANGED text
Step(h) ==
    LET c == core[h]
        before == [pc |-> c.pc, next |-> c.pc, regs |-> c.regs, reservation |-> c.reservation, ram |-> ram]
    IN  ~Halted(h) /\ Leaves(h, executeInstruction(before, text.code[c.pc]))

Rv32Next == \E h \in Hart : Step(h)

Rv32Spec == Rv32Init /\ [][Rv32Next]_rv32Vars
=============================================================================

---------------------------- MODULE Rv32Programs ----------------------------
(* The three translators of RISC-V code side by side, the assembler, the     *)
(* decompressor and the decoder of the core, with Compress as the reference: *)
(* the halfword of a compressed instruction as the RISC-V manual lays its    *)
(* fields out.  Then programs for Rv32Core and what they must leave in the   *)
(* registers: x1 and x2 are the operands, x3 and up the results.             *)
EXTENDS Rv32Core, SequencesExt, TLC

CONSTANTS Lines, Compresseds
\* Lines to assemble, and compressed instructions [op, d, s, imm].

VARIABLES source, words
\* What is translated, and the words its translations give.

encodingVars == <<source, words>>

\* [base: funct3 and quadrant; fields: where d and s go; imm: <<bit, immediate bit>>]
Scatter(layout, imm) == {p[1] : p \in {p \in layout : p[2] \in imm}}
From(top, bits) == {<<top + 1 - k, bits[k]>> : k \in 1..Len(bits)}
CI(high, bits) == From(12, <<high>>) \cup From(6, bits)
Format(funct3, quadrant, dAt, sAt, layout) ==
    [base |-> Shift(Code(funct3), 13) \cup Code(quadrant), d |-> dAt, s |-> sAt, imm |-> layout]
Full == 0..4
Short == 0..2
No == [at |-> 0, bits |-> {}]
Wide(position) == [at |-> position, bits |-> Full]
Narrow(position) == [at |-> position, bits |-> Short]
CL == From(12, <<5, 4, 3>>) \cup From(6, <<2, 6>>)
CB == From(12, <<8, 4, 3>>) \cup From(6, <<7, 6, 2, 1, 5>>)
CJ == From(12, <<11, 4, 9, 8, 10, 6, 7, 3, 2, 1, 5>>)

With(bits, format) == [format EXCEPT !.base = @ \cup bits]
CA == Format(4, 1, Narrow(7), Narrow(2), {})
CR == Format(4, 2, Wide(7), No, {})
Zcb(bits, layout) == With(bits, Format(4, 0, Narrow(2), Narrow(7), layout))

Manual ==
    [caddi4spn |-> Format(0, 0, Narrow(2), No, From(12, <<5, 4, 9, 8, 7, 6, 2, 3>>)),
     clw |-> Format(2, 0, Narrow(2), Narrow(7), CL),
     csw |-> Format(6, 0, Narrow(2), Narrow(7), CL),
     caddi |-> Format(0, 1, Wide(7), No, CI(5, <<4, 3, 2, 1, 0>>)),
     cjal |-> Format(1, 1, No, No, CJ),
     cli |-> Format(2, 1, Wide(7), No, CI(5, <<4, 3, 2, 1, 0>>)),
     caddi16sp |-> Format(3, 1, Wide(7), No, CI(9, <<4, 6, 8, 7, 5>>)),
     clui |-> Format(3, 1, Wide(7), No, CI(17, <<16, 15, 14, 13, 12>>)),
     csrli |-> Format(4, 1, Narrow(7), No, CI(5, <<4, 3, 2, 1, 0>>)),
     cj |-> Format(5, 1, No, No, CJ),
     cbeqz |-> Format(6, 1, No, Narrow(7), CB),
     cbnez |-> Format(7, 1, No, Narrow(7), CB),
     cslli |-> Format(0, 2, Wide(7), No, CI(5, <<4, 3, 2, 1, 0>>)),
     clwsp |-> Format(2, 2, Wide(7), No, CI(5, <<4, 3, 2, 7, 6>>)),
     cmv |-> Format(4, 2, Wide(7), Wide(2), {}),
     cswsp |-> Format(6, 2, Wide(2), No, From(12, <<5, 4, 3, 2, 7, 6>>)),
     candi |-> With({11}, Format(4, 1, Narrow(7), No, CI(5, <<4, 3, 2, 1, 0>>))),
     csub |-> With({11, 10}, CA), cxor |-> With({11, 10, 5}, CA), cor |-> With({11, 10, 6}, CA),
     cand |-> With({11, 10, 6, 5}, CA),
     cjr |-> CR, cjalr |-> With({12}, CR), cadd |-> With({12}, Format(4, 2, Wide(7), Wide(2), {})),
     clbu |-> Zcb({}, From(6, <<0, 1>>)), clhu |-> Zcb({10}, From(5, <<1>>)), clh |-> Zcb({10, 6}, From(5, <<1>>)),
     csb |-> Zcb({11}, From(6, <<0, 1>>)), csh |-> Zcb({11, 10}, From(5, <<1>>))]

Compress(c) ==
    LET f == Manual[c.op] IN
    f.base \cup Shift(Code(c.d) \cap f.d.bits, f.d.at) \cup Shift(Code(c.s) \cap f.s.bits, f.s.at)
    \cup Scatter(f.imm, SignedCode(c.imm))

\* What the manual says it expands to.
Line(op, d, r1, r2, imm) == [op |-> op, rd |-> d, rs1 |-> r1, rs2 |-> r2, imm |-> imm]
Pairs == [csub |-> "sub", cxor |-> "xor", cor |-> "or", cand |-> "and", cadd |-> "add"]
Loads == [clbu |-> "lbu", clhu |-> "lhu", clh |-> "lh"]
Stores == [csb |-> "sb", csh |-> "sh"]
Expansion(c) ==
    CASE c.op = "caddi4spn" -> Line("addi", c.d, 2, 0, c.imm)
      [] c.op = "clw" -> Line("lw", c.d, c.s, 0, c.imm)
      [] c.op = "csw" -> Line("sw", 0, c.s, c.d, c.imm)
      [] c.op = "caddi" -> Line("addi", c.d, c.d, 0, c.imm)
      [] c.op = "cjal" -> Line("jal", 1, 0, 0, c.imm)
      [] c.op = "cli" -> Line("addi", c.d, 0, 0, c.imm)
      [] c.op = "caddi16sp" -> Line("addi", 2, 2, 0, c.imm)
      [] c.op = "clui" -> Line("lui", c.d, 0, 0, c.imm)
      [] c.op = "csrli" -> Line("srli", c.d, c.d, 0, c.imm)
      [] c.op = "cj" -> Line("jal", 0, 0, 0, c.imm)
      [] c.op = "cbeqz" -> Line("beq", 0, c.s, 0, c.imm)
      [] c.op = "cbnez" -> Line("bne", 0, c.s, 0, c.imm)
      [] c.op = "cslli" -> Line("slli", c.d, c.d, 0, c.imm)
      [] c.op = "clwsp" -> Line("lw", c.d, 2, 0, c.imm)
      [] c.op = "cmv" -> Line("add", c.d, 0, c.s, 0)
      [] c.op = "cswsp" -> Line("sw", 0, 2, c.d, c.imm)
      [] c.op = "candi" -> Line("andi", c.d, c.d, 0, c.imm)
      [] c.op \in DOMAIN Pairs -> Line(Pairs[c.op], c.d, c.d, c.s, 0)
      [] c.op = "cjr" -> Line("jalr", 0, c.d, 0, 0)
      [] c.op = "cjalr" -> Line("jalr", 1, c.d, 0, 0)
      [] c.op \in DOMAIN Loads -> Line(Loads[c.op], c.d, c.s, 0, c.imm)
      [] c.op \in DOMAIN Stores -> Line(Stores[c.op], 0, c.s, c.d, c.imm)

EncodingInit ==
    /\ source \in [kind : {"line"}, code : Lines] \cup [kind : {"compressed"}, code : Compresseds]
    /\ words = <<>>

Assemble ==
    /\ source.kind = "line" /\ words = <<>>
    /\ words' = <<assembleLine(source.code)>>
    /\ UNCHANGED source

Decompress ==
    /\ source.kind = "compressed" /\ words = <<>>
    /\ words' = <<decompress_rv32c_inst(Compress(source.code)), assembleLine(Expansion(source.code))>>
    /\ UNCHANGED source

EncodingNext == Assemble \/ Decompress

\* The core reads back from an assembled word the operation and the operands of
\* its line, for every immediate the format can hold (assembler.ts, instruction.ts).
ReadsBack ==
    source.kind = "line" /\ words # <<>> =>
        LET w == words[1] base == instructionTable[source.code.op] IN
        /\ ReadBack(source.code, w) = source.code
        /\ opcode(w) = base.opcode
        /\ base.type \notin {"U", "J"} => func3(w) = base.func3
        /\ base.type \in {"R", "Shamt"} => func7(w) = base.func7

\* A compressed instruction expands to the word the assembler makes of its
\* expansion: the two encoders, written apart, agree (rv32c.ts, instruction.ts).
ExpandsAsManual == source.kind = "compressed" /\ words # <<>> => words[1] = words[2]

-----------------------------------------------------------------------------
\* Lines of a program: one for the assembler, a format with its fields (for what
\* the assembler does not know), a compressed instruction, a halfword.
AsmLine(op, d, a, b, n) == <<"line", [op |-> op, rd |-> d, rs1 |-> a, rs2 |-> b, imm |-> n]>>
Asm(op, d, a, b) == AsmLine(op, d, a, b, 0)
AsmImm(op, d, a, n) == AsmLine(op, d, a, 0, n)
AsmTo(op, a, b, n) == AsmLine(op, 0, a, b, n)
RawLine(op, f3, f7, d, a, b) == <<"format", <<R(op, f3, f7), d, a, b>> >>
Raw(f7, f3, d, a, b) == RawLine(51, f3, f7, d, a, b)
RawImm(f7, f3, d, a, n) == RawLine(19, f3, f7, d, a, n)
RawAmo(f5, d, a, b) == RawLine(47, 2, 4 * f5, d, a, b)
RawBits(f3, d, a, b, size) == RawLine(11, f3, 2 * size, d, a, b)
CompressedLine(op, d, offset) == <<"compressed", [op |-> op, d |-> d, s |-> 0, imm |-> offset]>>
HalfwordLine(n) == <<"halfword", n>>

WordOfLine(kind, l) ==
    CASE kind = "line" -> assembleLine(l)
      [] kind = "format" -> Construct(l[1], l[2], l[3], l[4])
      [] kind = "compressed" -> Compress(l)
      [] kind = "halfword" -> Code(l)

\* Words laid out one after the other.
Size(w) == IF Compressed(w) THEN 2 ELSE 4
Layout(lines) ==
    LET ws == [n \in 1..Len(lines) |-> WordOfLine(lines[n][1], lines[n][2])]
        After(before, w) == [pc |-> before.pc + Size(w), text |-> before.text @@ (before.pc :> w)]
    IN  FoldLeft(After, [pc |-> 0, text |-> <<>>], ws).text

Compare(op) == <<AsmImm("slli", 3, 3, 1), AsmTo(op, 1, 2, 8), AsmImm("addi", 3, 3, 1)>>

Calculations ==
    [division |-> <<Raw(1, 4, 3, 1, 2), Raw(1, 6, 4, 1, 2), Raw(1, 0, 5, 3, 2), Asm("add", 5, 5, 4)>>,
     udivision |-> <<Raw(1, 5, 3, 1, 2), Raw(1, 7, 4, 1, 2), Raw(1, 0, 5, 3, 2), Asm("add", 5, 5, 4)>>,
     product |-> <<Raw(1, 0, 3, 1, 2), Raw(1, 1, 4, 1, 2), Raw(1, 2, 5, 1, 2), Raw(1, 3, 6, 1, 2)>>,
     shifts |-> <<Asm("sll", 3, 1, 2), Asm("srl", 4, 1, 2), Asm("sra", 5, 1, 2)>>,
     rotation |-> <<Raw(48, 1, 3, 1, 2), Raw(48, 5, 4, 3, 2), RawImm(48, 5, 5, 1, 3), RawImm(48, 5, 6, 5, WordBits - 3)>>,
     order |-> <<Asm("slt", 3, 1, 2), Asm("sltu", 4, 1, 2), Raw(5, 4, 5, 1, 2), Raw(5, 6, 6, 1, 2),
                 Raw(5, 5, 7, 1, 2), Raw(5, 7, 8, 1, 2)>>,
     bits |-> <<Raw(20, 1, 3, 1, 2), Raw(36, 5, 4, 3, 2), Raw(36, 1, 5, 1, 2), Raw(36, 5, 6, 5, 2),
                Raw(52, 1, 7, 1, 2), Raw(52, 1, 8, 7, 2)>>,
     logic |-> <<Asm("and", 3, 1, 2), Raw(32, 7, 4, 1, 2), Asm("or", 5, 3, 4), Asm("xor", 6, 1, 2),
                 Raw(32, 4, 7, 1, 2), Asm("xor", 8, 6, 7), Raw(32, 6, 9, 2, 1)>>,
     bytes |-> <<RawImm(52, 5, 3, 1, 24), RawImm(52, 5, 4, 3, 24), RawImm(20, 5, 5, 1, 7), Raw(4, 7, 6, 1, 2),
                 Raw(4, 4, 7, 1, 2), RawImm(48, 1, 8, 1, 4), RawImm(48, 1, 9, 1, 5)>>,
     counts |-> <<RawImm(48, 1, 3, 1, 0), RawImm(48, 1, 4, 1, 1), RawImm(48, 1, 5, 1, 2)>>,
     scaled |-> <<Raw(16, 2, 3, 1, 2), Raw(16, 4, 4, 1, 2), Raw(16, 6, 5, 1, 2), Asm("sub", 6, 5, 2)>>,
     immediates |-> <<AsmImm("xori", 3, 1, -1), AsmImm("addi", 3, 3, 1), Asm("add", 3, 3, 1), AsmImm("sltiu", 4, 1, -1),
                      AsmImm("slti", 5, 1, -3), AsmImm("andi", 6, 1, 15), AsmImm("ori", 7, 1, -16),
                      AsmImm("srai", 8, 1, 2), AsmImm("srli", 9, 1, 2)>>,
     extraction |-> <<RawBits(0, 3, 1, 2, 2), RawBits(4, 4, 1, 3, 1)>>,
     branches |-> Compare("beq") \o Compare("bne") \o Compare("blt") \o Compare("bge") \o Compare("bltu") \o Compare("bgeu"),
     memory |-> <<AsmTo("sw", 0, 1, 8), AsmTo("sh", 0, 2, 10), AsmTo("sb", 0, 2, 9), AsmImm("lw", 3, 0, 8),
                  AsmImm("lb", 4, 0, 10), AsmImm("lbu", 5, 0, 9), AsmImm("lh", 6, 0, 10), AsmImm("lhu", 7, 0, 8)>>,
     swap |-> <<AsmTo("sw", 0, 1, 8), AsmImm("addi", 4, 0, 8), RawAmo(0, 3, 4, 2), RawAmo(20, 5, 4, 1), RawAmo(24, 6, 4, 2),
                RawAmo(12, 7, 4, 1), RawAmo(1, 8, 4, 2), AsmImm("lw", 9, 0, 8)>>]

\* A routine that saves ra, x8 and x9, clobbers them and calls a leaf, called
\* twice; x3 counts what was passed on the way.
Calls ==
    <<AsmImm("jal", 1, 0, 18), AsmImm("addi", 3, 3, 1), CompressedLine("cjal", 0, 10),
      AsmImm("addi", 3, 3, 1), AsmImm("jal", 0, 0, 24),
      HalfwordLine(47202), AsmImm("addi", 8, 0, 1), AsmImm("addi", 9, 0, 2),
      CompressedLine("cjal", 0, 8), AsmImm("addi", 3, 3, 2), HalfwordLine(48738),
      CompressedLine("cjr", 1, 0)>>

\* x10 points at a word, x11 is 1.  A counter behind a lock; a counter by lr/sc.
Lock ==
    <<RawAmo(1, 3, 10, 11), AsmTo("bne", 3, 0, -4), AsmImm("lw", 4, 0, 12), AsmImm("addi", 4, 4, 1),
      AsmTo("sw", 0, 4, 12), RawAmo(1, 0, 10, 0)>>
Reserve == <<RawAmo(2, 3, 10, 0), AsmImm("addi", 3, 3, 1), RawAmo(3, 4, 10, 3), AsmTo("bne", 4, 0, -12)>>

Text(name, lines) == [name |-> name, code |-> Layout(lines)]

-----------------------------------------------------------------------------
\* What the registers x must hold at the end.
Law(p, x) ==
    LET a == x[1] b == x[2] n == U(b) % WordBits
        Minus(v) == W(U(v) - U(b))
    IN
    CASE p = "division" ->
            /\ x[5] = a
            /\ b # {} => /\ Magnitude(S(x[4])) < Magnitude(S(b))
                         /\ x[4] # {} => (S(x[4]) < 0) = (S(a) < 0)
      [] p = "udivision" -> x[5] = a /\ (b # {} => U(x[4]) < U(b))
      [] p = "product" ->
            /\ S(x[4]) * 2^WordBits + U(x[3]) = S(a) * S(b)
            /\ S(x[5]) * 2^WordBits + U(x[3]) = S(a) * U(b)
            /\ U(x[6]) * 2^WordBits + U(x[3]) = U(a) * U(b)
      [] p = "shifts" -> x[3] = W(U(a) * 2^n) /\ U(x[4]) = U(a) \div 2^n /\ S(x[5]) = S(a) \div 2^n
      [] p = "rotation" -> x[4] = a /\ x[6] = a /\ x[3] = {(i + n) % WordBits : i \in a}
      [] p = "order" ->
            /\ x[3] = Number(S(a) < S(b)) /\ x[4] = Number(U(a) < U(b))
            /\ {x[5], x[6]} = {a, b} /\ S(x[5]) <= S(x[6])
            /\ {x[7], x[8]} = {a, b} /\ U(x[7]) <= U(x[8])
      [] p = "bits" -> x[4] = {0} /\ x[6] = {} /\ x[8] = a /\ {x[3], x[5]} = {a, x[7]}
      [] p = "logic" -> x[5] = a /\ x[8] = All /\ U(x[3]) + U(x[3]) + U(x[6]) = U(a) + U(b) /\ x[9] = Not(x[4])
      [] p = "bytes" ->
            /\ x[4] = a /\ \A k \in 0..3 : Byte(x[3], k) = Byte(a, 3 - k) /\ (Byte(x[5], k) = {}) = (Byte(a, k) = {})
            /\ U(x[6]) = U(Byte(a, 0)) + 2^ByteBits * U(Byte(b, 0))
            /\ x[7] = W(U(Low(a, 2 * ByteBits)) + 2^(2 * ByteBits) * U(b))
            /\ \E k \in -1..1 : S(x[8]) = U(Byte(a, 0)) + k * 2^ByteBits /\ S(x[8]) \in -(2^(ByteBits - 1))..2^(ByteBits - 1) - 1
      [] p = "counts" ->
            IF a = {} THEN U(x[3]) = WordBits /\ U(x[4]) = WordBits /\ U(x[5]) = 0
            ELSE /\ U(a) \in 2^(WordBits - 1 - U(x[3]))..2^(WordBits - U(x[3])) - 1
                 /\ U(a) % 2^U(x[4]) = 0 /\ (U(a) \div 2^U(x[4])) % 2 = 1
      [] p = "scaled" -> Minus(x[3]) = W(2 * U(a)) /\ Minus(x[4]) = W(4 * U(a)) /\ x[6] = W(8 * U(a))
      [] p = "immediates" ->
            /\ x[3] = {} /\ x[4] = Number(U(a) < 2^WordBits - 1) /\ x[5] = Number(S(a) < -3)
            /\ U(x[6]) = U(a) % 16 /\ x[7] = W(U(x[6]) - 16)
            /\ S(x[8]) = S(a) \div 4 /\ U(x[9]) = U(a) \div 4
      [] p = "extraction" -> U(x[3]) = (U(a) \div 2^n) % 8 /\ U(x[4]) = (U(a) \div 8) % 4
      [] p = "branches" ->
            U(x[3]) = (IF a = b THEN 16 ELSE 32) + (IF S(a) < S(b) THEN 4 ELSE 8) + (IF U(a) < U(b) THEN 1 ELSE 2)
      [] p = "memory" ->
            /\ x[3] = Low(a, ByteBits) \cup Left(Byte(b, 0), ByteBits) \cup Left(b, 2 * ByteBits)
            /\ x[4] = Extend(b, ByteBits) /\ x[5] = Byte(b, 0) /\ x[6] = Extend(b, 2 * ByteBits)
            /\ x[7] = Low(a, ByteBits) \cup Left(Byte(b, 0), ByteBits)
      [] p = "swap" ->
            LET sum == W(U(a) + U(b)) IN
            /\ x[3] = a /\ x[5] = sum /\ S(x[6]) >= S(a) /\ S(x[6]) >= S(sum)
            /\ U(x[7]) <= U(x[6]) /\ U(x[7]) <= U(b) /\ x[8] = x[7] \cap a /\ x[9] = b
      [] p = "calls" -> x[3] = W(6) /\ x[2] = W(40) /\ x[8] = W(77) /\ x[9] = W(99)
      [] OTHER -> TRUE

\* What counters read when every hart has ended.
Counted(name, address) ==
    text.name = name /\ (\A h \in Hart : Halted(h)) =>
        read([ram |-> ram], W(address), 4) = W(Cardinality({h \in Hart : core[h].pc # -1}))

\* A program that has ended left what its instructions say, from the text of the
\* assembler to the registers: quotient and remainder make the dividend again,
\* the halves of a product the product, a shifted word the multiple, cm.popret
\* what cm.push saved; and two harts behind a lock of amoswap count to two
\* (riscv/cpu.ts, rv32c.ts).
ProgramsCompute ==
    /\ \A h \in Hart : core[h].pc # -1 /\ Halted(h) => Law(text.name, core[h].regs)
    /\ Counted("lock", 12)

\* A counter incremented by lr.w and sc.w counts every hart's increment
\* (riscv/cpu.ts, executeOp AMO).
CountsAll == Counted("reserve", 8)
=============================================================================

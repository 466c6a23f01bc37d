---------------------------- MODULE Rv32Formats -----------------------------
(* riscv/Assembler: a line of assembly becomes a 32-bit word (assembler.ts), *)
(* whose fields the core reads back (instruction.ts).  A line is a record    *)
(* of the parsed tokens: op, rd, rs1, rs2, imm.                              *)
EXTENDS Words

R(opcode, func3, func7) == [type |-> "R", opcode |-> opcode, func3 |-> func3, func7 |-> func7]
I(opcode, func3) == [type |-> "I", opcode |-> opcode, func3 |-> func3, func7 |-> 0]
Shamt(func3, func7) == [type |-> "Shamt", opcode |-> 19, func3 |-> func3, func7 |-> func7]
Other(type, opcode, func3) == [type |-> type, opcode |-> opcode, func3 |-> func3, func7 |-> 0]

instructionTable ==
    [lui |-> Other("U", 55, 0), auipc |-> Other("U", 23, 0),
     jal |-> Other("J", 111, 0), jalr |-> I(103, 0),
     beq |-> Other("B", 99, 0), bne |-> Other("B", 99, 1), blt |-> Other("B", 99, 4),
     bge |-> Other("B", 99, 5), bltu |-> Other("B", 99, 6), bgeu |-> Other("B", 99, 7),
     lb |-> I(3, 0), lh |-> I(3, 1), lw |-> I(3, 2), lbu |-> I(3, 4), lhu |-> I(3, 5),
     sb |-> Other("S", 35, 0), sh |-> Other("S", 35, 1), sw |-> Other("S", 35, 2),
     addi |-> I(19, 0), slti |-> I(19, 2), sltiu |-> I(19, 3), xori |-> I(19, 4),
     ori |-> I(19, 6), andi |-> I(19, 7),
     slli |-> Shamt(1, 0), srli |-> Shamt(5, 0), srai |-> Shamt(5, 32),
     add |-> R(51, 0, 0), sub |-> R(51, 0, 32), sll |-> R(51, 1, 0), slt |-> R(51, 2, 0),
     sltu |-> R(51, 3, 0), xor |-> R(51, 4, 0), srl |-> R(51, 5, 0), sra |-> R(51, 5, 32),
     or |-> R(51, 6, 0), and |-> R(51, 7, 0)]

\* The setters of a field and of each format's immediate.
Put(w, n, upper, lower) == setRange(w, Code(n), upper, lower)
setImmI(w, imm) == setRange(w, imm, 31, 20)
setImmS(w, imm) == setRange(setRange(w, getRange(imm, 4, 0), 11, 7), getRange(imm, 11, 5), 31, 25)
setImmB(w, imm) ==
    LET imm5 == Shift(getRange(imm, 4, 1), 1) \cup getRange(imm, 11, 11)
        imm7 == Shift(getRange(imm, 12, 12), 6) \cup getRange(imm, 10, 5)
    IN  setRange(setRange(w, imm5, 11, 7), imm7, 31, 25)
setImmU(w, imm) == setRange(w, getRange(imm, 31, 12), 31, 12)
setImmJ(w, imm) ==
    setRange(w, getRange(imm, 19, 12) \cup Shift(getRange(imm, 11, 11), 8)
                \cup Shift(getRange(imm, 10, 1), 9) \cup Shift(getRange(imm, 20, 20), 19), 31, 12)

\* Instruction's constructor, and the immediate set by the subclass.
Construct(base, rd, rs1, rs2) ==
    Put(Put(Put(Put(Put(Put({}, base.opcode, 6, 0), rd, 11, 7), rs1, 19, 15), rs2, 24, 20),
            base.func3, 14, 12), base.func7, 31, 25)

assembled(base, line, imm) ==
    CASE base.type = "R" -> Construct(base, line.rd, line.rs1, line.rs2)
      [] base.type = "I" -> setImmI(Construct(base, line.rd, line.rs1, 0), imm)
      [] base.type = "Shamt" -> Put(Construct(base, line.rd, line.rs1, 0), line.imm, 24, 20)
      [] base.type = "S" -> setImmS(Construct(base, 0, line.rs1, line.rs2), imm)
      [] base.type = "B" -> setImmB(Construct(base, 0, line.rs1, line.rs2), imm)
      [] base.type = "U" -> setImmU(Construct(base, line.rd, 0, 0), imm)
      [] base.type = "J" -> setImmJ(Construct(base, line.rd, 0, 0), imm)
assembleLine(line) == assembled(instructionTable[line.op], line, SignedCode(line.imm))

\* The getters.
opcode(w) == Value(getRange(w, 6, 0))
rd(w) == Value(getRange(w, 11, 7))
func3(w) == Value(getRange(w, 14, 12))
rs1(w) == Value(getRange(w, 19, 15))
rs2(w) == Value(getRange(w, 24, 20))
func7(w) == Value(getRange(w, 31, 25))
immI(w) == signExtend(getRange(w, 31, 20), 12)
immS(w) == signExtend(getRange(w, 11, 7) \cup Shift(getRange(w, 31, 25), 5), 12)
\* Mistake: bit 11 of the offset is left where it is stored.
immBStored(w) == signExtend(getRange(w, 11, 7) \cup Shift(getRange(w, 30, 25), 5) \cup Shift(getRange(w, 31, 31), 12), 13)
immB(w) ==
    LET imm5 == getRange(w, 11, 7)
        imm7 == getRange(w, 31, 25)
    IN  signExtend(Shift(getRange(imm5, 4, 1), 1) \cup Shift(getRange(imm5, 0, 0), 11)
                   \cup Shift(getRange(imm7, 5, 0), 5) \cup Shift(getRange(imm7, 6, 6), 12), 13)
immU(w) == Shift(getRange(w, 31, 12), 12)
immJ(w) ==
    LET field == getRange(w, 31, 12)
    IN  signExtend(Shift(getRange(field, 18, 9), 1) \cup Shift(getRange(field, 8, 8), 11)
                   \cup Shift(getRange(field, 7, 0), 12) \cup Shift(getRange(field, 19, 19), 20), 21)

Immediate(type, w) ==
    CASE type = "I" -> immI(w) [] type = "S" -> immS(w) [] type = "B" -> immB(w)
      [] type = "U" -> immU(w) [] type = "J" -> immJ(w) [] type = "Shamt" -> Code(rs2(w)) [] OTHER -> {}

\* What the core reads from a word, as a line; operands the format lacks are 0.
ReadBack(line, w) ==
    LET type == instructionTable[line.op].type IN
    [op |-> line.op, imm |-> Signed(Immediate(type, w)),
     rd |-> IF type \in {"S", "B"} THEN 0 ELSE rd(w),
     rs1 |-> IF type \in {"U", "J"} THEN 0 ELSE rs1(w),
     rs2 |-> IF type \in {"R", "S", "B"} THEN rs2(w) ELSE 0]

-----------------------------------------------------------------------------
(* riscv/rv32c.ts: decompression of a 16-bit instruction into the 32-bit one *)
(* it stands for.  cm.push and cm.popret, which act on the core on the way,  *)
(* are in Rv32Core.                                                          *)

\* dec_*: fields of the halfword.  Place: bits upper..lower moved to position to.
Place(w, upper, lower, to) == Shift(getRange(w, upper, lower), to)
Field(w, upper, lower) == Value(getRange(w, upper, lower))
dec_rd(w) == Field(w, 11, 7)
dec_rs2(w) == Field(w, 6, 2)
dec_rs1_short(w) == 8 + Field(w, 9, 7)
dec_rs2_short(w) == 8 + Field(w, 4, 2)

sign_extend(x, position) == IF position \in x THEN x \cup (position..31) ELSE x

dec_ci_imm(w) == Place(w, 12, 12, 5) \cup Place(w, 6, 2, 0)
dec_addi16sp_imm(w) ==
    sign_extend(Place(w, 12, 12, 9) \cup Place(w, 4, 3, 7) \cup Place(w, 5, 5, 6)
                \cup Place(w, 2, 2, 5) \cup Place(w, 6, 6, 4), 9)
dec_lui_imm(w) == sign_extend(Place(w, 12, 12, 17) \cup Place(w, 6, 2, 12), 17)
dec_clwsp_imm(w) == Place(w, 12, 12, 5) \cup Place(w, 6, 4, 2) \cup Place(w, 3, 2, 6)
dec_css_imm(w) == Place(w, 8, 7, 6) \cup Place(w, 12, 9, 2)
dec_ciw_imm(w) ==
    Place(w, 10, 7, 6) \cup Place(w, 12, 11, 4) \cup Place(w, 5, 5, 3) \cup Place(w, 6, 6, 2)
dec_clw_csw_imm(w) == Place(w, 5, 5, 6) \cup Place(w, 12, 10, 3) \cup Place(w, 6, 6, 2)
dec_branch_imm(w) ==
    sign_extend(Place(w, 12, 12, 8) \cup Place(w, 6, 5, 6) \cup Place(w, 2, 2, 5)
                \cup Place(w, 11, 10, 3) \cup Place(w, 4, 3, 1), 8)
dec_cj_imm(w) ==
    sign_extend(Place(w, 12, 12, 11) \cup Place(w, 8, 8, 10) \cup Place(w, 10, 9, 8) \cup Place(w, 6, 6, 7)
                \cup Place(w, 7, 7, 6) \cup Place(w, 2, 2, 5) \cup Place(w, 11, 11, 4) \cup Place(w, 5, 3, 1), 11)

\* enc_*: the 32-bit word.
At(n, position) == Shift(Code(n), position)
enc_rtype(f7, r2, r1, f3, d, op) == At(f7, 25) \cup At(r2, 20) \cup At(r1, 15) \cup At(f3, 12) \cup At(d, 7) \cup Code(op)
enc_itype(value, r1, f3, d, op) ==
    (Shift(value, 20) \cap Bits) \cup At(r1, 15) \cup At(f3, 12) \cup At(d, 7) \cup Code(op)
enc_stype(value, r2, r1, f3, op) ==
    Place(value, 11, 5, 25) \cup At(r2, 20) \cup At(r1, 15) \cup At(f3, 12) \cup Place(value, 4, 0, 7) \cup Code(op)
enc_btype(value, r2, r1, f3, op) ==
    Place(value, 12, 12, 31) \cup Place(value, 10, 5, 25) \cup At(r2, 20) \cup At(r1, 15)
    \cup At(f3, 12) \cup Place(value, 4, 1, 8) \cup Place(value, 11, 11, 7) \cup Code(op)
enc_utype(value, d, op) == value \cup At(d, 7) \cup Code(op)
enc_jtype(value, d, op) ==
    Place(value, 20, 20, 31) \cup Place(value, 10, 1, 21) \cup Place(value, 11, 11, 20)
    \cup Place(value, 19, 12, 12) \cup At(d, 7) \cup Code(op)

Unsupported == {}    \* the decompressor throws

\* Quadrant 0: addresses from the stack pointer and loads and stores of the short registers.
caddi4spn_to_addi(w) == enc_itype(dec_ciw_imm(w), 2, 0, dec_rs2_short(w), 19)
clw_to_lw(w) == enc_itype(dec_clw_csw_imm(w), dec_rs1_short(w), 2, dec_rs2_short(w), 3)
csw_to_sw(w) == enc_stype(dec_clw_csw_imm(w), dec_rs2_short(w), dec_rs1_short(w), 2, 35)
zcb_100_00(w) ==
    LET sub == Field(w, 12, 10)
        uimm_b == Place(w, 5, 5, 1) \cup Place(w, 6, 6, 0)
        uimm_h == Place(w, 5, 5, 1)
        load(value, f3) == enc_itype(value, dec_rs1_short(w), f3, dec_rs2_short(w), 3)
    IN  CASE sub = 0 -> load(uimm_b, 4)
          [] sub = 1 -> load(uimm_h, IF 6 \in w THEN 1 ELSE 5)
          [] sub = 2 -> enc_stype(uimm_b, dec_rs2_short(w), dec_rs1_short(w), 0, 35)
          [] sub = 3 -> enc_stype(uimm_h, dec_rs2_short(w), dec_rs1_short(w), 1, 35)
          [] OTHER -> Unsupported

\* Quadrant 1: immediates, jumps and branches.
cnop_to_addi == enc_itype({}, 0, 0, 0, 19)
caddi_to_addi(w) ==
    LET nzimm == sign_extend(dec_ci_imm(w), 5)
    IN  IF nzimm = {} THEN cnop_to_addi ELSE enc_itype(nzimm, dec_rd(w), 0, dec_rd(w), 19)
cjal_to_jal(w) == enc_jtype(dec_cj_imm(w), 1, 111)
cli_to_addi(w) ==
    IF dec_rd(w) = 0 THEN cnop_to_addi ELSE enc_itype(sign_extend(dec_ci_imm(w), 5), 0, 0, dec_rd(w), 19)
caddi16sp_to_addi(w) == enc_itype(dec_addi16sp_imm(w), 2, 0, 2, 19)
clui_to_lui(w) == IF dec_rd(w) = 0 THEN cnop_to_addi ELSE enc_utype(dec_lui_imm(w), dec_rd(w), 55)
cj_to_jal(w) == enc_jtype(dec_cj_imm(w), 0, 111)
cbeqz_to_beq(w) == enc_btype(dec_branch_imm(w), 0, dec_rs1_short(w), 0, 99)
cbenz_to_bne(w) == enc_btype(dec_branch_imm(w), 0, dec_rs1_short(w), 1, 99)

\* Its shifts, c.andi and the register-register operations of the short registers.
shamt(w) == Value(dec_ci_imm(w))
csrli_to_srli(w) == enc_rtype(0, shamt(w), dec_rs1_short(w), 5, dec_rs1_short(w), 19)
csrai_to_srai(w) == enc_rtype(32, shamt(w), dec_rs1_short(w), 5, dec_rs1_short(w), 19)
candi_to_andi(w) == enc_itype(sign_extend(dec_ci_imm(w), 5), dec_rs1_short(w), 7, dec_rs1_short(w), 19)
csub_to_sub(w) == enc_rtype(32, dec_rs2_short(w), dec_rs1_short(w), 0, dec_rs1_short(w), 51)
cxor_to_xor(w) == enc_rtype(0, dec_rs2_short(w), dec_rs1_short(w), 4, dec_rs1_short(w), 51)
cor_to_or(w) == enc_rtype(0, dec_rs2_short(w), dec_rs1_short(w), 6, dec_rs1_short(w), 51)
cand_to_and(w) == enc_rtype(0, dec_rs2_short(w), dec_rs1_short(w), 7, dec_rs1_short(w), 51)

\* Quadrant 2: c.slli, the stack pointer's loads and stores, moves and jumps.
cslli_to_slli(w) == IF dec_rd(w) = 0 THEN cnop_to_addi ELSE enc_rtype(0, shamt(w), dec_rd(w), 1, dec_rd(w), 19)
clwsp_to_lw(w) == enc_itype(dec_clwsp_imm(w), 2, 2, dec_rd(w), 3)
cswsp_to_sw(w) == enc_stype(dec_css_imm(w), dec_rs2(w), 2, 2, 35)
cjr_to_jalr(w) == enc_itype({}, dec_rd(w), 0, 0, 103)
cjalr_to_jalr(w) == enc_itype({}, dec_rd(w), 0, 1, 103)
cebreak_to_ebreak == enc_itype({0}, 0, 0, 0, 115)
cmv_to_add(w) == IF dec_rd(w) = 0 THEN cnop_to_addi ELSE enc_rtype(0, dec_rs2(w), 0, 0, dec_rd(w), 51)
cadd_to_add(w) == IF dec_rd(w) = 0 THEN cnop_to_addi ELSE enc_rtype(0, dec_rs2(w), dec_rd(w), 0, dec_rd(w), 51)

\* The decoders that look at more of the halfword than its quadrant.
parse_100_01(w) ==
    LET d == dec_rs1_short(w)
        r2 == dec_rs2_short(w)
        funct2 == Field(w, 11, 10)
        funct == 4 * Field(w, 12, 12) + Field(w, 6, 5)
        unary == Field(w, 4, 2)
    IN  CASE funct2 = 0 -> csrli_to_srli(w)
          [] funct2 = 1 -> csrai_to_srai(w)
          [] funct2 = 2 -> candi_to_andi(w)
          [] funct2 = 3 /\ funct = 0 -> csub_to_sub(w)
          [] funct2 = 3 /\ funct = 1 -> cxor_to_xor(w)
          [] funct2 = 3 /\ funct = 2 -> cor_to_or(w)
          [] funct2 = 3 /\ funct = 3 -> cand_to_and(w)
          [] funct2 = 3 /\ funct = 6 -> enc_rtype(1, r2, d, 0, d, 51)
          [] funct2 = 3 /\ funct = 7 /\ unary = 0 -> enc_itype(Code(255), d, 7, d, 19)
          [] funct2 = 3 /\ funct = 7 /\ unary = 1 -> enc_itype(Code(1540), d, 1, d, 19)
          [] funct2 = 3 /\ funct = 7 /\ unary = 2 -> enc_rtype(4, 0, d, 4, d, 51)
          [] funct2 = 3 /\ funct = 7 /\ unary = 3 -> enc_itype(Code(1541), d, 1, d, 19)
          [] funct2 = 3 /\ funct = 7 /\ unary = 5 -> enc_itype(Bits, d, 4, d, 19)
          [] OTHER -> Unsupported

parse_011_01(w) == IF dec_rd(w) = 2 THEN caddi16sp_to_addi(w) ELSE clui_to_lui(w)

parse_100_10(w) ==
    CASE 12 \notin w /\ dec_rs2(w) = 0 -> cjr_to_jalr(w)
      [] 12 \notin w /\ dec_rs2(w) # 0 -> cmv_to_add(w)
      [] 12 \in w /\ dec_rs2(w) = 0 /\ dec_rd(w) = 0 -> cebreak_to_ebreak
      [] 12 \in w /\ dec_rs2(w) = 0 /\ dec_rd(w) # 0 -> cjalr_to_jalr(w)
      [] 12 \in w /\ dec_rs2(w) # 0 -> cadd_to_add(w)

decompress_rv32c_inst(w) ==
    LET index == 8 * Field(w, 1, 0) + Field(w, 15, 13)
    IN  CASE index = 0 -> caddi4spn_to_addi(w)
          [] index = 2 -> clw_to_lw(w)
          [] index = 4 -> zcb_100_00(w)
          [] index = 6 -> csw_to_sw(w)
          [] index = 8 -> caddi_to_addi(w)
          [] index = 9 -> cjal_to_jal(w)
          [] index = 10 -> cli_to_addi(w)
          [] index = 11 -> parse_011_01(w)
          [] index = 12 -> parse_100_01(w)
          [] index = 13 -> cj_to_jal(w)
          [] index = 14 -> cbeqz_to_beq(w)
          [] index = 15 -> cbenz_to_bne(w)
          [] index = 16 -> cslli_to_slli(w)
          [] index = 18 -> clwsp_to_lw(w)
          [] index = 20 -> parse_100_10(w)
          [] index = 22 -> cswsp_to_sw(w)
          [] OTHER -> Unsupported
=============================================================================

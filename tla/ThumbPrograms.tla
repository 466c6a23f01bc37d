---------------------------- MODULE ThumbPrograms ----------------------------
(* Programs for the Cortex-M0+ and what they must leave: r0 and r1 are the   *)
(* operands, r2 and up the results.  Interrupts may come between any two     *)
(* instructions of those that enable them; no result may depend on it.       *)
EXTENDS Thumb, Sequences

CONSTANT ThumbStarts
\* [name, a, b: the program and its operands; stack, top: the stack the thread
\* starts on and its top; requests: how often each source asks for an interrupt]

-----------------------------------------------------------------------------
(* utils/assembler.ts: the encoders of Thumb instructions.  Each opcode*     *)
(* function is a prefix over fields of its operands; an operand too large    *)
(* for its field is cut.  A line is the encoder's name and its arguments.    *)

Part(n, low, bits) == (n \div 2^low) % 2^bits

\* Where the operands of the two- and three-operand encodings go.
Two == [ANDS |-> \b0100000000, EORS |-> \b0100000001, LSLSreg |-> \b0100000010, LSRSreg |-> \b0100000011,
        ASRSreg |-> \b0100000100, ADCS |-> \b0100000101, SBCS |-> \b0100000110, ROR |-> \b0100000111,
        TST |-> \b0100001000, RSBS |-> \b0100001001, CMPregT1 |-> \b0100001010, CMN |-> \b0100001011,
        ORRS |-> \b0100001100, MULS |-> \b0100001101, BICS |-> \b0100001110, MVNS |-> \b0100001111,
        SXTH |-> \b1011001000, SXTB |-> \b1011001001, UXTH |-> \b1011001010, UXTB |-> \b1011001011,
        REV |-> \b1011101000, REV16 |-> \b1011101001, REVSH |-> \b1011101011, MOVSreg |-> \b000000000]
Three == [ADDSreg |-> \b0001100, SUBSreg |-> \b0001101, ADDS1 |-> \b0001110, SUBS1 |-> \b0001111,
          STRreg |-> \b0101000, STRHreg |-> \b0101001, STRBreg |-> \b0101010, LDRSB |-> \b0101011,
          LDRreg |-> \b0101100, LDRHreg |-> \b0101101, LDRBreg |-> \b0101110, LDRSH |-> \b0101111]
Five == [LSLSimm |-> \b00000, LSRS |-> \b00001, ASRS |-> \b00010, STR |-> \b01100, LDRimm |-> \b01101,
         STRB |-> \b01110, LDRB |-> \b01111, STRH |-> \b10000, LDRH |-> \b10001]
Eight == [MOVS |-> \b00100, CMPimm |-> \b00101, ADDS2 |-> \b00110, SUBS2 |-> \b00111, LDRlit |-> \b01001,
          STRsp |-> \b10010, LDRsp |-> \b10011, ADR |-> \b10100, ADDspPlusImm |-> \b10101,
          STMIA |-> \b11000, LDMIA |-> \b11001]
HighForms == [ADDreg |-> \b01000100, CMPregT2 |-> \b01000101, MOV |-> \b01000110, BX |-> \b01000111, BLX |-> \b01000111]
SPadjust == [ADDsp2 |-> \b101100000, SUBsp |-> \b101100001]
Plain == [NOP |-> \b1011111100000000, YIELD |-> \b1011111100010000, WFI |-> \b1011111100110000]
Lists == [PUSH |-> \b1011010, POP |-> \b1011110]
Trap == [SVC |-> \b11011111, UDF |-> \b11011110]
Barrier == [DMBSY |-> 36688, DSBSY |-> 36687, ISBSY |-> 36719]

Scale(op) == CASE op \in {"STR", "LDRimm", "LDRlit", "STRsp", "LDRsp", "ADR", "ADDspPlusImm"} -> 2
               [] op \in {"STRH", "LDRH"} -> 1
               [] OTHER -> 0
\* LDRH keeps four bits of its immediate.
FiveBits(op) == IF op = "LDRH" THEN 4 ELSE 5

\* The ninth bit of a backward offset falls on the condition.
opcodeBT1(cond, imm8) ==
    LET clash == IF Part(imm8, 9, 1) = 1 /\ cond % 2 = 0 THEN 1 ELSE 0
    IN  <<\b1101 * 2^12 + (cond + clash) * 2^8 + Part(imm8, 1, 8)>>
opcodeBL(imm) ==
    LET s == IF imm < 0 THEN 1 ELSE 0
        j(bit) == IF Part(imm, bit, 1) = s THEN 1 ELSE 0
    IN  <<\b11110 * 2^11 + s * 2^10 + Part(imm, 12, 10), \b1101 * 2^12 + j(23) * 2^13 + j(22) * 2^11 + Part(imm, 1, 11)>>
opcodeMRS(rd, specReg) == <<\b1111001111101111, 2^15 + rd * 2^8 + specReg>>
opcodeMSR(specReg, rn) == <<\b111100111000 * 2^4 + rn, \b10001000 * 2^8 + specReg>>
opcodeUDF2(imm16) == <<\b111101111111 * 2^4 + Part(imm16, 12, 4), \b1010 * 2^12 + Part(imm16, 0, 12)>>

assemble(line) ==
    LET op == line[1] a == line[2] b == line[3] c == line[4] IN
    CASE op = "MULS" -> <<Two.MULS * 2^6 + a * 2^3 + b>>
      [] op \in DOMAIN Two \ {"MULS"} -> <<Two[op] * 2^6 + b * 2^3 + a>>
      [] op \in DOMAIN Three -> <<Three[op] * 2^9 + Part(c, 0, 3) * 2^6 + b * 2^3 + a>>
      [] op \in DOMAIN Five -> <<Five[op] * 2^11 + Part(c, Scale(op), FiveBits(op)) * 2^6 + b * 2^3 + a>>
      [] op \in DOMAIN Eight -> <<Eight[op] * 2^11 + a * 2^8 + Part(b, Scale(op), 8)>>
      [] op \in {"ADDreg", "CMPregT2", "MOV"} -> <<HighForms[op] * 2^8 + (a \div 8) * 2^7 + b * 2^3 + (a % 8)>>
      [] op = "BX" -> <<HighForms.BX * 2^8 + a * 2^3>>
      [] op = "BLX" -> <<HighForms.BLX * 2^8 + 2^7 + a * 2^3>>
      [] op \in DOMAIN SPadjust -> <<SPadjust[op] * 2^7 + Part(a, 2, 7)>>
      [] op \in DOMAIN Lists -> <<Lists[op] * 2^9 + a * 2^8 + b>>
      [] op \in DOMAIN Trap -> <<Trap[op] * 2^8 + Part(a, 0, 8)>>
      [] op \in DOMAIN Plain -> <<Plain[op]>>
      [] op \in DOMAIN Barrier -> <<\b1111001110111111, Barrier[op]>>
      [] op = "BT1" -> opcodeBT1(a, b)
      [] op = "BT2" -> <<\b11100 * 2^11 + Part(a, 1, 11)>>
      [] op = "BL" -> opcodeBL(a)
      [] op = "MRS" -> opcodeMRS(a, b)
      [] op = "MSR" -> opcodeMSR(a, b)
      [] op = "UDF2" -> opcodeUDF2(a)

-----------------------------------------------------------------------------
(* The programs. *)

\* Memory: code, handlers of 32 bytes, the vector table with literals in the
\* place of the vectors nothing uses, data, the two stacks.
CodeBase == 3392
HandlerBase == 3584
Vectors == 3776
DataBase == Vectors + 80
ProcessTop == 3936
MainTop == 4064
Exceptions == {SVCALL, PENDSV, SYSTICK} \cup {16 + i : i \in Irq}
HandlerOf(n) == HandlerBase + 32 * (CASE n >= 16 -> n - 16 [] n = SYSTICK -> 3 [] n = SVCALL -> 4 [] n = PENDSV -> 5)
Literal == [device |-> 0, data |-> 4, iser |-> 8, ipr |-> 12, icsr |-> 16, priorities |-> 20, pend |-> 24, shpr |-> 28, shprs |-> 32,
            ispr |-> 36]
Literals == [device |-> Device, data |-> DataBase, iser |-> ISER, ipr |-> IPR0, icsr |-> ICSR, priorities |-> 258,
             pend |-> 256, shpr |-> SHPR3, shprs |-> 2432, ispr |-> ISPR]

Ins(op, a, b, c) == <<op, a, b, c>>
Lit(r, name) == Ins("LIT", r, Vectors + Literal[name], 0)
Done == Ins("UDF", 0, 0, 0)

\* Lines laid out from an address; LIT reads a literal by its address.
Resolve(line, pc) ==
    IF line[1] = "LIT" THEN Ins("LDRlit", line[2], line[3] - (4 * (pc \div 4) + 4), 0) ELSE line
Lay(lines, base) ==
    LET laid[n \in 0..Len(lines)] ==
            IF n = 0 THEN <<>> ELSE LET before == laid[n - 1] IN before \o assemble(Resolve(lines[n], base + 2 * Len(before)))
        ws == laid[Len(lines)]
    IN  [a \in {base + 2 * k : k \in 0..Len(ws) - 1} |-> ws[1 + (a - base) \div 2]]

\* A handler acknowledges its interrupt, counts it and overwrites what the core
\* saves; SVC pends PendSV and interrupt 2.
Counting(k) == <<Lit(0, "data"), Ins("LDRimm", 1, 0, 4 * k), Ins("ADDS2", 1, 1, 0), Ins("STR", 1, 0, 4 * k)>>
Clobber == <<Ins("MOVS", 2, 129, 0), Ins("MVNS", 3, 2, 0), Ins("MOV", 12, 3, 0), Ins("CMN", 2, 3, 0)>>
Handler(n) ==
    IF n >= 16
    THEN <<Ins("PUSH", 1, 16, 0), Lit(0, "device"), Ins("MOVS", 4, 2^(n - 16), 0), Ins("STR", 4, 0, 0)>>
         \o Counting(n - 16) \o Clobber \o <<Ins("POP", 1, 16, 0)>>
    ELSE IF n = SVCALL
    THEN <<Lit(0, "icsr"), Lit(1, "pend"), Ins("STR", 1, 0, 0), Lit(0, "ispr"), Ins("MOVS", 1, 4, 0), Ins("STR", 1, 0, 0)>>
         \o Clobber \o <<Ins("BX", LR, 0, 0)>>
    ELSE Counting(n - 11) \o Clobber \o <<Ins("BX", LR, 0, 0)>>
Handlers == [a \in UNION {DOMAIN Lay(Handler(n), HandlerOf(n)) : n \in Exceptions} |->
                LET n == CHOOSE n \in Exceptions : a \in HandlerOf(n)..HandlerOf(n) + 31 IN Lay(Handler(n), HandlerOf(n))[a]]

\* r2 doubles for each condition, and takes one more where it does not hold.
Conditions == <<0, 2, 8, 10, 12, 4>>
Tests ==
    LET tests[k \in 0..Len(Conditions)] ==
            IF k = 0 THEN <<>>
            ELSE LET before == tests[k - 1]
                 IN  before \o <<Ins("ADDreg", 2, 2, 0), Ins("BT1", Conditions[k], 0, 0), Ins("ADDreg", 2, 3, 0)>>
    IN  tests[Len(Conditions)]
Carries(r) == <<Ins("MOVS", r, 0, 0), Ins("ADCS", r, r, 0)>>
Enable == <<Lit(2, "ipr"), Lit(3, "priorities"), Ins("STR", 3, 2, 0), Lit(2, "shpr"), Lit(3, "shprs"), Ins("STR", 3, 2, 0),
            Lit(2, "iser"), Ins("MOVS", 3, 7, 0), Ins("STR", 3, 2, 0)>>
Double == <<Ins("PUSH", 1, 3, 0), Ins("ADDSreg", 0, 0, 0), Ins("ADCS", 1, 1, 0), Ins("MOV", 12, 0, 0), Ins("MOV", 2, 12, 0),
            Ins("MOV", 3, 1, 0), Ins("POP", 1, 3, 0)>>

ThumbTexts ==
    [compare |-> <<Ins("MOVS", 2, 0, 0), Ins("MOVS", 3, 1, 0), Ins("CMPregT1", 0, 1, 0)>> \o Tests,
     wide |-> <<Ins("ADDSreg", 2, 0, 1), Ins("MOV", 3, 1, 0), Ins("ADCS", 3, 0, 0), Ins("MOVSreg", 4, 2, 0), Ins("MOV", 5, 3, 0),
                Ins("SUBSreg", 4, 4, 0), Ins("SBCS", 5, 1, 0)>>,
     wider |-> <<Ins("MOVS", 2, 0, 0), Ins("MOVS", 3, 1, 0), Ins("MOV", 4, 1, 0), Ins("CMPregT2", 0, 1, 0), Ins("SBCS", 4, 0, 0)>> \o Tests,
     shifts |-> <<Ins("MOV", 2, 0, 0), Ins("LSLSreg", 2, 1, 0)>> \o Carries(5) \o <<Ins("MOV", 3, 0, 0), Ins("LSRSreg", 3, 1, 0)>>
                \o Carries(6) \o <<Ins("MOV", 4, 0, 0), Ins("ASRSreg", 4, 1, 0)>> \o Carries(7),
     constant |-> <<Ins("LSLSimm", 2, 0, 3)>> \o Carries(5) \o <<Ins("LSRS", 3, 0, 3)>> \o Carries(6)
                  \o <<Ins("ASRS", 4, 0, 3), Ins("MOV", 7, 0, 0), Ins("ROR", 7, 1, 0)>>,
     logic |-> <<Ins("MOV", 2, 0, 0), Ins("ANDS", 2, 1, 0), Ins("MOV", 3, 0, 0), Ins("BICS", 3, 1, 0), Ins("ORRS", 3, 2, 0),
                 Ins("MOV", 4, 0, 0), Ins("EORS", 4, 1, 0), Ins("RSBS", 5, 0, 0), Ins("MVNS", 6, 0, 0), Ins("ADDS1", 6, 6, 1),
                 Ins("MOV", 7, 0, 0), Ins("MULS", 1, 7, 0)>>,
     bytes |-> <<Ins("SXTB", 2, 0, 0), Ins("UXTB", 3, 0, 0), Ins("SXTH", 4, 0, 0), Ins("REV", 5, 0, 0), Ins("REV16", 6, 5, 0),
                 Ins("REVSH", 7, 5, 0), Ins("UXTH", 1, 0, 0)>>,
     memory |-> <<Lit(7, "data"), Ins("STR", 0, 7, 0), Ins("STRB", 1, 7, 1), Ins("LDRimm", 2, 7, 0), Ins("LDRB", 3, 7, 1), Ins("STRH", 1, 7, 2),
                  Ins("LDRH", 4, 7, 2), Ins("MOVS", 6, 2, 0), Ins("LDRSH", 5, 7, 6), Ins("LDRHreg", 6, 7, 6), Ins("LDRimm", 0, 7, 0)>>,
     indexed |-> <<Lit(7, "data"), Ins("MOVS", 6, 4, 0), Ins("STRreg", 0, 7, 6), Ins("STRHreg", 1, 7, 6), Ins("LDRreg", 2, 7, 6),
                   Ins("MOVS", 5, 1, 0), Ins("STRBreg", 0, 7, 5), Ins("LDRBreg", 3, 7, 5), Ins("LDRSB", 4, 7, 5)>>,
     stack |-> <<Ins("SUBsp", 8, 0, 0), Ins("STRsp", 0, 4, 0), Ins("LDRsp", 2, 4, 0), Ins("ADDspPlusImm", 7, 0, 0), Ins("ADDsp2", 8, 0, 0),
                 Ins("MOV", 5, 7, 0), Ins("STMIA", 5, 3, 0), Ins("LDMIA", 7, 24, 0), Ins("SUBSreg", 5, 5, 7), Ins("MOV", 6, SP, 0)>>,
     calls |-> <<Ins("BL", 14, 0, 0), Ins("ADR", 4, 8, 0), Ins("ADDS2", 4, 3, 0), Ins("BLX", 4, 0, 0), Ins("CMPimm", 0, 0, 0), Done,
                 Ins("NOP", 0, 0, 0), Ins("NOP", 0, 0, 0)>> \o Double,
     bank |-> <<Ins("MRS", 2, 20, 0), Ins("MOVS", 3, 2, 0), Ins("EORS", 3, 2, 0), Ins("MOV", 4, SP, 0), Ins("MSR", 20, 3, 0), Ins("PUSH", 0, 3, 0),
                Ins("MRS", 5, 20, 0), Ins("MSR", 20, 2, 0), Ins("MOV", 6, SP, 0), Ins("MSR", 20, 3, 0), Ins("MOVS", 0, 0, 0), Ins("MOVS", 1, 0, 0),
                Ins("POP", 0, 3, 0), Ins("MSR", 20, 2, 0)>>,
     busy |-> Enable \o <<Ins("ADDSreg", 2, 0, 1), Ins("ADCS", 0, 1, 0), Ins("MOV", 12, 0, 0), Ins("PUSH", 0, 6, 0), Ins("SVC", 0, 0, 0),
                Ins("SUBSreg", 1, 1, 2), Ins("SBCS", 2, 0, 0), Ins("POP", 0, 24, 0), Ins("MOV", 5, 12, 0), Ins("MOV", 6, SP, 0)>>,
     idle |-> Enable \o <<Lit(4, "data"), Ins("WFI", 0, 0, 0), Ins("LDRimm", 2, 4, 0), Ins("LDRimm", 3, 4, 4), Ins("ADDSreg", 2, 2, 3),
                Ins("CMPimm", 2, 2, 0), Ins("BT1", 1, -14, 0)>>]

Texts == [name \in DOMAIN ThumbTexts |-> LET main == Lay(ThumbTexts[name] \o <<Done>>, CodeBase) IN
            [a \in DOMAIN main \cup DOMAIN Handlers |-> IF a \in DOMAIN main THEN main[a] ELSE Handlers[a]]]

-----------------------------------------------------------------------------
Ram == [a \in {a \in Vectors..MainTop - 1 : a % 4 = 0} |->
    LET vectors == {n \in Exceptions : Vectors + 4 * n = a}
        names == {name \in DOMAIN Literal : Vectors + Literal[name] = a}
    IN  IF vectors # {} THEN W(HandlerOf(CHOOSE n \in vectors : TRUE))
        ELSE IF names # {} THEN W(Literals[CHOOSE name \in names : TRUE]) ELSE {}]

Started(s) ==
    LET main == IF s.stack = "main" THEN s.top ELSE MainTop
        regs == [r \in 0..15 |-> CASE r = 0 -> W(s.a) [] r = 1 -> W(s.b) [] r = SP -> W(s.top) [] r = PC -> W(CodeBase) [] OTHER -> {}]
    IN  [name |-> s.name, start |-> s, ram |-> Ram, regs |-> regs, SPSEL |-> s.stack, nPRIV |-> FALSE, mode |-> "thread",
         bankedSP |-> W(IF s.stack = "main" THEN ProcessTop ELSE MainTop), flags |-> {}, PM |-> FALSE, IPSR |-> 0,
         pending |-> {}, enabled |-> {}, exceptions |-> {}, priority |-> [i \in Irq |-> 0],
         shpr |-> [n \in {SVCALL, PENDSV, SYSTICK} |-> 0], interruptsUpdated |-> FALSE, waiting |-> FALSE,
         eventRegistered |-> FALSE, VTOR |-> W(Vectors), stopped |-> FALSE, active |-> <<>>]

ThumbInit == \E s \in ThumbStarts : m0 = Started(s) /\ requests = s.requests

ThumbSpec == ThumbInit /\ [][ThumbNext]_thumbVars

-----------------------------------------------------------------------------
\* The bit of a condition in the answers of Tests.
Holds(answers, k) == (U(answers) \div 2^(Len(Conditions) - k)) % 2 = 0
Counter(k) == U(readWord(m0, W(DataBase + 4 * k), 4))
Served(source, outstanding) == m0.start.requests[source] - requests[source] - (IF outstanding THEN 1 ELSE 0)

ThumbLaw(p, x) ==
    LET a == W(m0.start.a) b == W(m0.start.b) n == U(b) % 256
        c(wide) == IF wide >= 2^WordBits THEN 1 ELSE 0
        Word(low, high) == U(low) + 2^WordBits * U(high)
    IN
    CASE p = "compare" ->
            /\ Holds(x[2], 1) = (a = b) /\ Holds(x[2], 2) = (U(a) >= U(b)) /\ Holds(x[2], 3) = (U(a) > U(b))
            /\ Holds(x[2], 4) = (S(a) >= S(b)) /\ Holds(x[2], 5) = (S(a) > S(b))
      [] p = "wide" -> Word(x[2], x[3]) = ((U(a) + U(b)) * (2^WordBits + 1)) % 2^(2 * WordBits) /\ x[4] = b /\ x[5] = a
      [] p = "wider" ->
            /\ Holds(x[2], 2) = (Word(a, b) >= Word(b, a))
            \* The overflow of SBCS is wrong where its operand and the borrow make the sign.
            /\ (S(a) = 2^(WordBits - 1) - 1 /\ U(a) < U(b)) \/ Holds(x[2], 4) = (<<S(b), U(a)>> = <<S(a), U(b)>> \/ S(b) > S(a) \/ (a = b))
      [] p = "shifts" ->
            n \in 1..WordBits => /\ U(x[2]) = (U(a) * 2^n) % 2^WordBits /\ U(x[5]) = (U(a) \div 2^(WordBits - n)) % 2
                                 /\ U(x[3]) = U(a) \div 2^n /\ U(x[6]) = (U(a) \div 2^(n - 1)) % 2
                                 /\ S(x[4]) = S(a) \div 2^n /\ U(x[7]) = (U(a) \div 2^(n - 1)) % 2
      [] p = "constant" ->
            /\ U(x[2]) + 2^WordBits * U(x[5]) = (U(a) * 8) % 2^(WordBits + 1)
            /\ U(x[3]) = U(a) \div 8 /\ U(x[6]) = (U(a) \div 4) % 2 /\ S(x[4]) = S(a) \div 8
            /\ x[7] = {(i - n) % WordBits : i \in a}
      [] p = "logic" ->
            /\ x[3] = a /\ U(x[4]) + 2 * U(x[2]) = U(a) + U(b) /\ x[5] = W(-S(a)) /\ x[6] = x[5]
            /\ x[7] = W(U(a) * U(b))
      [] p = "bytes" ->
            /\ x[2] = Extend(a, ByteBits) /\ U(x[3]) = U(a) % 2^ByteBits /\ x[4] = Extend(a, 2 * ByteBits)
            /\ \A k \in 0..3 : Byte(x[5], k) = Byte(a, 3 - k)
            /\ x[6] = RotateLeft(a, WordBits \div 2) /\ x[7] = Arithmetic(a, WordBits \div 2) /\ x[1] = Low(a, 2 * ByteBits)
      [] p = "memory" ->
            /\ x[2] = (a \ Left(Byte(All, 0), ByteBits)) \cup Left(Byte(b, 0), ByteBits) /\ x[3] = Byte(b, 0)
            /\ x[4] = Low(b, 2 * ByteBits) /\ x[5] = Extend(b, 2 * ByteBits) /\ x[6] = x[4]
            /\ x[0] = Low(x[2], 2 * ByteBits) \cup Left(b, 2 * ByteBits)
      [] p = "indexed" ->
            /\ x[2] = (a \ Low(All, 2 * ByteBits)) \cup Low(b, 2 * ByteBits)
            /\ x[3] = Byte(a, 0) /\ x[4] = Extend(a, ByteBits)
      [] p = "stack" -> x[2] = a /\ x[3] = a /\ x[4] = b /\ x[5] = {} /\ U(x[6]) = m0.start.top
      [] p = "calls" -> x[0] = a /\ x[1] = b /\ x[2] = W(2 * U(a)) /\ x[3] = W(2 * U(b) + c(2 * U(a)))
      [] p = "bank" -> x[0] = a /\ x[1] = b /\ U(x[4]) = m0.start.top /\ x[6] = x[4] /\ x[5] = Xor(x[2], {1})
      [] p = "busy" ->
            LET sum == U(a) + U(b)
                less == IF U(b) >= sum % 2^WordBits THEN 0 ELSE 1
            IN  /\ x[3] = b /\ x[4] = W(sum) /\ x[5] = W(sum + c(sum)) /\ x[1] = W(-U(a))
                /\ x[2] = W(U(x[4]) - U(x[5]) - less) /\ U(x[6]) = m0.start.top
                /\ \A i \in 0..MaxHardwareIrq : Counter(i) = Served(16 + i, i \in m0.pending)
                /\ 2 \notin m0.pending => Counter(2) = 1
                /\ PENDSV \notin m0.exceptions => Counter(3) = 1
                /\ Counter(4) = Served(SYSTICK, SYSTICK \in m0.exceptions)
      [] p = "idle" -> x[2] = W(2)

\* A program that has ended left what its instructions say, whatever the
\* operands, the stack it ran on and the instructions it was interrupted at; the
\* handlers ran once for each request (cortex-m0-core.ts, utils/assembler.ts).
ThumbComputes == m0.stopped => ThumbLaw(m0.name, m0.regs)

\* A handler is interrupted by a more urgent one only, and the core knows which
\* handler it is in (exceptionEntry, exceptionReturn, checkForInterrupts).
NestingRises ==
    /\ m0.IPSR = (IF m0.active = <<>> THEN 0 ELSE Head(m0.active))
    /\ (m0.mode = "thread") = (m0.active = <<>>)
    /\ \A k \in 1..Len(m0.active) - 1 : exceptionPriority(m0, m0.active[k]) < exceptionPriority(m0, m0.active[k + 1])

\* No interrupt that may be taken is left without a check to come: the flag that
\* asks for one is down, and the core asleep, only when there is none.
NoneForgotten ==
    /\ ~m0.interruptsUpdated => Urgent(m0) = {}
    /\ m0.waiting => \A n \in Urgent(m0) : n < 16
=============================================================================

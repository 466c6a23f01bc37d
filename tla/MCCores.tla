------------------------------ MODULE MCCores -------------------------------
EXTENDS Rv32Programs, ThumbPrograms
Operands(type) ==
    CASE type \in {"I", "S"} -> {-2048, -1, 0, 5, 1365, 2047} [] type = "Shamt" -> {0, 1, 21, 31}
      [] type = "B" -> {-4096, -2, 0, 8, 2730, 4094} [] type = "J" -> {-1048576, -2, 4, 699050, 1048574}
      [] type = "U" -> {-536870912, -4096, 0, 4096, 305418240} [] type = "R" -> {0}
Registers == {0, 1, 21, 31}
Used(type) == [d |-> IF type \in {"S", "B"} THEN {0} ELSE Registers,
   s |-> IF type \in {"U", "J"} THEN {0} ELSE Registers, t |-> IF type \in {"R", "S", "B"} THEN Registers ELSE {0}]
MCLines == UNION {LET t == instructionTable[op].type IN
   {Line(op, d, r1, r2, n) : d \in Used(t).d, r1 \in Used(t).s, r2 \in Used(t).t, n \in Operands(t)} : op \in DOMAIN instructionTable}
C(op, ds, ss, imms) == [op : {op}, d : ds, s : ss, imm : imms]
Multiples(n, low, high) == {k * n : k \in low..high}
MCCompresseds ==
  C("caddi4spn", {8, 13}, {0}, Multiples(4, 1, 255)) \cup C("clw", {9, 14}, {8, 15}, Multiples(4, 0, 31))
  \cup C("csw", {9, 14}, {8, 15}, Multiples(4, 0, 31)) \cup C("caddi", {1, 21}, {0}, (-32..31) \ {0})
  \cup C("cjal", {0}, {0}, Multiples(2, -1024, 1023)) \cup C("cli", {1, 21}, {0}, -32..31)
  \cup C("caddi16sp", {2}, {0}, Multiples(16, -32, 31) \ {0}) \cup C("clui", {1, 21}, {0}, Multiples(4096, -32, 31) \ {0})
  \cup C("csrli", {8, 13}, {0}, 1..31) \cup C("cj", {0}, {0}, Multiples(2, -1024, 1023))
  \cup C("cbeqz", {0}, {8, 15}, Multiples(2, -128, 127)) \cup C("cbnez", {0}, {8, 15}, Multiples(2, -128, 127))
  \cup C("cslli", {1, 21}, {0}, 1..31) \cup C("clwsp", {1, 21}, {0}, Multiples(4, 0, 63))
  \cup C("cmv", {1, 21}, {2, 31}, {0}) \cup C("cswsp", {0, 21}, {0}, Multiples(4, 0, 63))
  \cup C("candi", {8, 13}, {0}, -32..31)
  \cup UNION {C(op, {8, 13}, {9, 15}, {0}) : op \in {"csub", "cxor", "cor", "cand", "cadd"}}
  \cup C("cjr", {1, 21}, {0}, {0}) \cup C("cjalr", {1, 21}, {0}, {0})
  \cup UNION {C(op, {8, 13}, {9, 15}, 0..3) : op \in {"clbu", "csb"}}
  \cup UNION {C(op, {8, 13}, {9, 15}, {0, 2}) : op \in {"clhu", "clh", "csh"}}

Corners == {0, 1, 2, 5, 77, 2046, 2047, 2048, 4095}
Regs(a, b) == [r \in 1..11 |-> IF r = 1 THEN W(a) ELSE IF r = 2 THEN W(b) ELSE IF r = 8 THEN W(77)
                 ELSE IF r = 9 THEN W(99) ELSE IF r = 10 THEN W(8) ELSE IF r = 11 THEN W(1) ELSE {}]
Starting(t, regs, harts) == [text : {t}, regs : regs, harts : harts]
MCStarts ==
  UNION {Starting(Text(p, Calculations[p]), {Regs(a, b) : a \in Corners, b \in Corners}, {{0}}) : p \in DOMAIN Calculations}
  \cup Starting(Text("calls", Calls), {Regs(0, 40)}, {{0}}) \cup Starting(Text("lock", Lock), {Regs(0, 0)}, {{0}, {0, 1}})
  \cup Starting(Text("reserve", Reserve), {Regs(0, 0)}, {{0}})
MCReserve == Starting(Text("reserve", Reserve), {Regs(0, 0)}, {{0, 1}})

MCHalfwords(name) == Texts[name]
Quiet == [from \in {15, 16, 17} |-> 0]
Lines01 == [Quiet EXCEPT ![16] = 1, ![17] = 1]
Ticking == [Quiet EXCEPT ![15] = 1, ![16] = 1]
Begin(names, as, bs, stacks, tops, requested) ==
   [name : names, a : as, b : bs, stack : stacks, top : tops, requests : requested]
MCThumbStarts == Begin(DOMAIN Texts \ {"busy", "idle"}, Corners, Corners, {"main"}, {MainTop}, {Quiet})
  \cup Begin({"stack", "bank"}, {5}, {77}, {"process"}, {ProcessTop, ProcessTop - 4}, {Quiet})
  \cup Begin({"busy", "idle"}, {4090}, {77}, {"main"}, {MainTop}, {Lines01})
  \cup Begin({"busy"}, {4090}, {77}, {"process"}, {ProcessTop - 4}, {Ticking})

\* One of the three at a time, the others at rest.
NoRv32 == /\ text = Text("none", <<>>) /\ ram = <<>>
          /\ core = [h \in Hart |-> [pc |-> -1, regs |-> Regs(0, 0), reservation |-> NoAddress]]
NoEncoding == source = [kind |-> "none"] /\ words = <<>>
NoThumb == requests = Quiet /\ m0 = Started([name |-> "none", a |-> 0, b |-> 0, stack |-> "main", top |-> MainTop, requests |-> Quiet])
MCInit == (Rv32Init /\ NoEncoding /\ NoThumb) \/ (EncodingInit /\ NoRv32 /\ NoThumb) \/ (ThumbInit /\ NoRv32 /\ NoEncoding)
MCNext ==
  \/ Rv32Next /\ UNCHANGED <<encodingVars, thumbVars>>
  \/ EncodingNext /\ UNCHANGED <<rv32Vars, thumbVars>>
  \/ m0.name # "none" /\ ThumbNext /\ UNCHANGED <<rv32Vars, encodingVars>>
MCSpec == MCInit /\ [][MCNext]_<<rv32Vars, encodingVars, thumbVars>>

\* The assembler's words read back, and every compressed instruction expands to
\* what the manual gives for it (instruction.ts, rv32c.ts).
EncodingsExact == ReadsBack /\ ExpandsAsManual

\* Handlers nest by rising priority and no request is forgotten (cortex-m0-core.ts).
InterruptsSound == NestingRises /\ NoneForgotten
=============================================================================

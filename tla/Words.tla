------------------------------- MODULE Words --------------------------------
(* Machine words as the sets of the positions of their one bits, which keeps *)
(* a 32-bit word within TLC's integers.  getRange to signExtend are          *)
(* riscv/binaryFunctions.ts; the rest is the 32-bit arithmetic of JavaScript *)
(* scaled to a register of WordBits bits.                                    *)
EXTENDS Integers, FiniteSetsExt

CONSTANT WordBits   \* the width of a register: 32 in the code, a bound here

ASSUME WordBitsAssumption == WordBits % 4 = 0 /\ WordBits \in 4..28

Bits == 0..31
All == 0..WordBits - 1

Value(w) == MapThenSumSet(LAMBDA i : 2^i, w)
Code(n) == {i \in 0..29 : (n \div 2^i) % 2 = 1}
\* A sign-extended 32-bit word whose value is small.
Signed(w) == IF 31 \in w THEN -1 - Value(Bits \ w) ELSE Value(w)
SignedCode(n) == IF n < 0 THEN Bits \ Code(-1 - n) ELSE Code(n)

U(w) == Value(w)
S(w) == IF WordBits - 1 \in w THEN U(w) - 2^WordBits ELSE U(w)
W(n) == {i \in All : (n \div 2^i) % 2 = 1}

Shift(w, n) == {i + n : i \in w}
getRange(w, upper, lower) == {i - lower : i \in w \cap (lower..upper)}
\* The masks keep the lowest and the highest bit of the field.
setRange(w, value, upper, lower) ==
    (w \ (lower + 1 .. upper - 1)) \cup (Shift(value, lower) \cap Bits)
signExtend(w, width) == IF width - 1 \in w THEN setRange(w, Bits, 31, width - 1) ELSE w

Left(a, n) == Shift(a, n) \cap All
Right(a, n) == {i - n : i \in a \cap (n..WordBits - 1)}
Arithmetic(a, n) == Right(a, n) \cup (IF WordBits - 1 \in a THEN WordBits - n .. WordBits - 1 ELSE {})
\* The two halves of a rotation; a shift count is taken modulo the width.
RotateLeft(a, n) == Left(a, n) \cup Right(a, (WordBits - n) % WordBits)
RotateRight(a, n) == Right(a, n) \cup Left(a, (WordBits - n) % WordBits)
Xor(a, b) == (a \ b) \cup (b \ a)
Not(a) == All \ a

\* A byte is a quarter of a word.
ByteBits == WordBits \div 4
Low(a, bits) == a \cap (0..bits - 1)
Extend(a, bits) == IF bits - 1 \in a THEN Low(a, bits) \cup (bits..WordBits - 1) ELSE Low(a, bits)
Byte(a, n) == Low(Right(a, n * ByteBits), ByteBits)
=============================================================================

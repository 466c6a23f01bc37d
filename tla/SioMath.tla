------------------------------- MODULE SioMath ------------------------------
(* The SIO's arithmetic: an interpolator (interpolator.ts) and the divider    *)
(* (sio-core.ts, sio.ts), the divider used by a program that an interrupt     *)
(* handler may interrupt to divide too.  Words are those of Words.tla.        *)
EXTENDS Words, Sequences, TLC

CONSTANTS Settings,  \* the interpolators tried, as records
          Dividends  \* the numbers divided

VARIABLES interp,    \* the settings and registers of an interpolator, its results
          divider    \* registers, the divisions in progress and what was read

sioMathVars == <<interp, divider>>

Add(a, b) == W((U(a) + U(b)) % 2^WordBits)
Number(w, signed) == IF signed THEN S(w) ELSE U(w)
\* A number of any size, as the 32-bit operators of JavaScript see it.
ToWord(n) == W(n % 2^WordBits)
AlphaBits == WordBits \div 4
Magnitude(n) == IF n < 0 THEN -n ELSE n

(* ------------------------------ the interpolator -------------------------- *)
\* A lane's setting: shift, lsb, msb, signed, cross, crossResult, addRaw; the
\* interpolator's: blend (interpolator 0) or clamp (interpolator 1), force.
Input(r, lane) == IF r.lane[lane].cross THEN r.accum[1 - lane] ELSE r.accum[lane]
Masked(r, lane) ==
    LET c == r.lane[lane]
        u == Right(Input(r, lane), c.shift) \cap (c.lsb..c.msb)
    IN  IF c.signed /\ c.msb \in u THEN u \cup (c.msb..WordBits - 1) ELSE u
Overflow(r, lane) == Right(Input(r, lane), r.lane[lane].shift) \ (0..r.lane[lane].msb) # {}

Clamped(r) ==
    LET n(w) == Number(w, r.lane[0].signed)
        m == Masked(r, 0)
    IN  IF n(m) < n(r.base[0]) THEN r.base[0] ELSE IF n(m) > n(r.base[1]) THEN r.base[1] ELSE m
Alpha(r) == Masked(r, 1) \cap (0..AlphaBits - 1)
Blended(r) ==
    LET n(w) == Number(w, r.lane[1].signed)
    IN  ToWord(n(r.base[0]) + (U(Alpha(r)) * (n(r.base[1]) - n(r.base[0]))) \div 2^AlphaBits)
Forced(r, w) == w \cup {i + WordBits - 4 : i \in r.force}

update(r) ==
    LET sum(lane) == Add(r.base[lane], IF r.lane[lane].addRaw THEN Input(r, lane) ELSE Masked(r, lane))
    IN  [r EXCEPT !.result = [lane \in 0..2 |->
             CASE lane = 0 /\ r.mode = "blend" -> Alpha(r)
               [] lane = 0 /\ r.mode = "clamp" -> Forced(r, Clamped(r))
               [] lane = 1 /\ r.mode = "blend" -> Forced(r, Blended(r))
               [] lane = 2 -> Add(Add(r.base[2], Masked(r, 0)), IF r.mode = "blend" THEN {} ELSE Masked(r, 1))
               [] OTHER -> Forced(r, sum(lane))],
           !.overflow = [lane \in 0..1 |-> Overflow(r, lane)]]

\* A POP register is read.
writeback(r) ==
    update([r EXCEPT !.accum = [lane \in 0..1 |->
        IF r.lane[lane].crossResult THEN r.result[1 - lane] ELSE r.result[lane]]])

Pop == interp.pops < 2 /\ interp' = [writeback(interp) EXCEPT !.pops = @ + 1] /\ UNCHANGED divider
\* BASE_1AND0: the halves, extended as the lanes are signed.
setBase01 == \E w \in {{}, 0..WordBits - 1, {0, WordBits \div 2 - 1}, {WordBits \div 2, WordBits - 1}} :
    LET half == WordBits \div 2
        extended(lane) == IF interp.lane[lane].signed THEN Extend(Right(w, lane * half), half) ELSE Low(Right(w, lane * half), half)
        base0 == IF interp.mode = "blend" /\ interp.lane[1].signed # interp.lane[0].signed
                 THEN (IF interp.lane[1].signed THEN Extend(w, half) ELSE Low(w, half)) ELSE extended(0)
    IN  /\ interp.pops = 0
        /\ interp' = update([interp EXCEPT !.base = (0 :> base0) @@ (1 :> extended(1)) @@ @, !.pops = 2])
        /\ UNCHANGED divider

(* --------------------------------- the divider ---------------------------- *)
\* Mistake: rounding down, as Math.floor does.
TruncateDown(n, d) == IF d < 0 THEN (-n) \div (-d) ELSE n \div d

Truncate(n, d) == IF (n < 0) # (d < 0) THEN -(Magnitude(n) \div Magnitude(d)) ELSE Magnitude(n) \div Magnitude(d)

updateHardwareDivider(v, signed) ==
    LET n == Number(v.dividend, signed)
        d == Number(v.divisor, signed)
    IN  IF v.divisor = {}
        THEN [v EXCEPT !.quotient = IF U(v.dividend) > 0 THEN All ELSE {0}, !.remainder = v.dividend]
        ELSE [v EXCEPT !.quotient = ToWord(Truncate(n, d)), !.remainder = ToWord(n - d * Truncate(n, d))]
writeDividend(v, w, signed) == updateHardwareDivider([v EXCEPT !.dividend = w], signed)
writeDivisor(v, w, signed) == updateHardwareDivider([v EXCEPT !.divisor = w], signed)
writeRemainder(v, w) == [v EXCEPT !.remainder = w]
writeQuotient(v, w) == [v EXCEPT !.quotient = w]

\* The program divides, signed or not, and reads both results.
Divide ==
    /\ \E n \in Dividends, signed \in BOOLEAN :
          \/ divider.at = "idle" /\ divider' = [writeDividend(divider, W(n), signed) EXCEPT !.at = "divisor", !.signed = signed, !.asked = <<W(n)>>]
          \/ divider.at = "divisor" /\ signed = divider.signed /\ divider' = [writeDivisor(divider, W(n), signed) EXCEPT !.at = "remainder", !.asked = Append(@, W(n))]
          \/ divider.at = "remainder" /\ divider' = [divider EXCEPT !.at = "quotient", !.read = <<divider.remainder>>]
          \/ divider.at = "quotient" /\ divider' = [divider EXCEPT !.at = "done", !.read = Append(@, divider.quotient)]
          \/ divider.at = "done" /\ divider' = [divider EXCEPT !.at = "idle", !.read = <<>>, !.asked = <<>>]
    /\ UNCHANGED interp

\* A handler saves the four registers, divides and writes them back in the order
\* of the firmware's library: operands first, then the results.
Handler ==
    /\ \E n, d \in Dividends, signed \in BOOLEAN :
          LET used == writeDivisor(writeDividend(divider, W(n), signed), W(d), signed)
              back == writeDivisor(writeDividend(used, divider.dividend, FALSE), divider.divisor, FALSE)
          IN  divider' = writeQuotient(writeRemainder(back, divider.remainder), divider.quotient)
    /\ UNCHANGED interp

FreshDivider ==
    [dividend |-> {}, divisor |-> {0}, quotient |-> {}, remainder |-> {}, at |-> "idle", signed |-> FALSE,
     asked |-> <<>>, read |-> <<>>]
SioMathInit == interp \in {update(r) : r \in Settings} /\ divider = FreshDivider
SioMathNext == Pop \/ setBase01 \/ Divide \/ Handler
SioMathSpec == SioMathInit /\ [][SioMathNext]_sioMathVars

\* Dividend = quotient * divisor + remainder, rounded toward zero, also for a
\* division that a handler's divisions interrupted.  By zero: all ones and the
\* dividend.  (sio-core.ts takes a negative dividend over zero for a positive
\* one, and 0 / 0 for a negative one.)
DividerExact == divider.at = "done" =>
    LET n == Number(divider.asked[1], divider.signed)
        d == Number(divider.asked[2], divider.signed)
        r == Number(divider.read[1], divider.signed)
        q == Number(divider.read[2], divider.signed)
    IN  IF d # 0 THEN (q * d + r - n) % 2^WordBits = 0 /\ Magnitude(r) < Magnitude(d) /\ r * n >= 0
        ELSE r = n /\ (n > 0 => divider.read[2] = All)

\* A lane's field is the arithmetic one; a clamped result is the nearest number
\* between the bases; a blend lies between them, at the first for no alpha.
InterpolatorExact ==
    LET n(w, lane) == Number(w, interp.lane[lane].signed)
        Between(w, lane) == n(interp.base[0], lane) <= n(interp.base[1], lane) /\ interp.force = {} =>
                                n(w, lane) \in n(interp.base[0], lane)..n(interp.base[1], lane)
        field(lane) == LET c == interp.lane[lane] IN
            (((U(Input(interp, lane)) \div 2^c.shift) % 2^(c.msb + 1)) \div 2^c.lsb) * 2^c.lsb
    IN  /\ \A lane \in 0..1 :
              LET c == interp.lane[lane]
                  f == field(lane)
              IN  S(Masked(interp, lane)) = S(ToWord(IF c.signed /\ f >= 2^c.msb THEN f - 2^(c.msb + 1) ELSE f))
        /\ interp.mode = "clamp" => Between(interp.result[0], 0)
        /\ interp.mode = "blend" => Between(interp.result[1], 1) /\ (interp.result[0] = {} /\ interp.force = {} => interp.result[1] = interp.base[0])
=============================================================================

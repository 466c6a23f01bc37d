--------------------------------- MODULE Pwm --------------------------------
(* peripherals/pwm.ts: slices in free-running mode, their double-buffered     *)
(* compare and wrap values and the output A (B has the same code).  The       *)
(* alarms of a slice are "A", at the compare value, and "bottom", at 0.       *)
EXTENDS Timer32

CONSTANTS Slices, Tops, Compares, ResetTop

\* Phase-correct slices divide by twice their wrap value, so it is not 0.
ASSUME PwmAssumption ==
    /\ Alarms = {"A", "bottom"} /\ Compares \subseteq Nat
    /\ ResetTop \in 1 .. Wrap - 2 /\ Tops \subseteq 1 .. Wrap - 2

VARIABLE slice   \* [Slices -> registers, timer and output]

pwmVars == slice

\* After reset(): the wrap value is buffered, the timer has none yet.
FreshSlice ==
    [en |-> FALSE, ph |-> FALSE, inv |-> FALSE, cc |-> 0, ccUpdated |-> TRUE,
     top |-> ResetTop, topUpdated |-> TRUE, out |-> FALSE, intRaw |-> FALSE,
     timer |-> Stopped("Increment", TRUE), clean |-> FALSE]

updateDoubleBuffered(s) ==
    LET compared == IF s.ccUpdated THEN setTarget(s.timer, "A", s.cc) ELSE s.timer
    IN  [s EXCEPT !.timer = IF s.topUpdated THEN setTop(compared, s.top) ELSE compared,
                  !.ccUpdated = FALSE, !.topUpdated = FALSE]

setA(s, value) == [s EXCEPT !.out = (value # s.inv)]

wrap(s) ==
    LET loaded == [updateDoubleBuffered([s EXCEPT !.intRaw = TRUE]) EXCEPT !.clean = ~s.ph]
    IN  IF s.ph THEN loaded ELSE setA(loaded, loaded.timer.target["A"] > 0)

updateEnable(s) == [s EXCEPT !.timer = setEnable(s.timer, s.en)]

writeEn(s, en) ==
    LET loaded == IF en /\ ~s.en THEN updateDoubleBuffered(s) ELSE s
    IN  updateEnable([loaded EXCEPT !.en = en, !.clean = FALSE])

writeCSR(s, en, ph, inv) ==
    LET enabled == writeEn([s EXCEPT !.ph = ph, !.inv = inv], en)
    IN  [enabled EXCEPT !.timer = setMode(@, IF ph THEN "ZigZag" ELSE "Increment")]

writeDIV(s) == [s EXCEPT !.timer = setPrescaler(s.timer, FALSE), !.clean = FALSE]
writeCTR(s, value) == [s EXCEPT !.timer = set(s.timer, value), !.clean = FALSE]
\* Mistake: the compare value is not buffered.
writeCCAtOnce(s, value) == [s EXCEPT !.cc = value, !.timer = setTarget(@, "A", value)]

writeCC(s, value) == [s EXCEPT !.cc = value, !.ccUpdated = TRUE]
writeTOP(s, value) == [s EXCEPT !.top = value, !.topUpdated = TRUE]

Write(s, new) == slice' = [slice EXCEPT ![s] = new]

WriteCSR == \E s \in Slices, en, ph, inv \in BOOLEAN :
    /\ ph => en \/ slice[s].timer.top # NoTop   \* phase correct only with a wrap value
    /\ Write(s, writeCSR(slice[s], en, ph, inv))
WriteDIV == \E s \in Slices : Write(s, writeDIV(slice[s]))
WriteCTR == \E s \in Slices, value \in Compares : Write(s, writeCTR(slice[s], value))
WriteCC == \E s \in Slices, value \in Compares : value # slice[s].cc /\ Write(s, writeCC(slice[s], value))
WriteTOP == \E s \in Slices, value \in Tops : value # slice[s].top /\ Write(s, writeTOP(slice[s], value))
ClearINTR == \E s \in Slices : slice[s].intRaw /\ Write(s, [slice[s] EXCEPT !.intRaw = FALSE])

\* EN aliases the enable bit of every slice.
WriteEN == \E chosen \in SUBSET Slices :
    slice' = [s \in Slices |-> writeEn(slice[s], s \in chosen)]

Call(s, a) ==
    LET old == [slice[s] EXCEPT !.timer = taken(@, a)]
        called == IF a = "bottom" THEN wrap(old) ELSE setA(old, FALSE)
    IN  /\ expired(slice[s].timer, a)
        /\ slice' = [slice EXCEPT ![s] = [called EXCEPT !.timer = again(@, a)]]

Pass ==
    /\ \A s \in Slices : mayPass(slice[s].timer)
    /\ \E s \in Slices : slice[s].timer.on
    /\ slice' = [s \in Slices |-> [slice[s] EXCEPT !.timer = pass(@)]]

PwmInit == slice = [s \in Slices |-> FreshSlice]
PwmNext == WriteCSR \/ WriteDIV \/ WriteCTR \/ WriteCC \/ WriteTOP \/ WriteEN \/ ClearINTR \/ Pass
           \/ \E s \in Slices, a \in Alarms : Call(s, a)
PwmSpec == PwmInit /\ [][PwmNext]_pwmVars

\* A slice's alarms lead to the compare value and to the wrap, whatever was
\* written between two ticks (Timer32PeriodicAlarm.schedule).
PwmAims == \A s \in Slices : Aims(slice[s].timer)

\* From a wrap on, the output is up below the compare value and down from it
\* on, to within the half tick the counter is rounded by, and a compare or wrap
\* value takes effect at a wrap only.
DutyKept == \A s \in Slices :
    LET t == slice[s].timer
        at == 2 * (place(t) % Cycle(t))
        edge == 2 * t.target["A"] * Sub
        up == slice[s].out # slice[s].inv
    IN  slice[s].clean /\ t.on /\ mayPass(t) /\ at \in Sub..2 * Cycle(t) - Sub =>
        /\ at + Sub < edge => up
        /\ at >= edge + Sub => ~up

\* A slice's alarms lead to its compare value and its wrap, and the output has
\* the duty that was asked for (pwm.ts, timer32.ts).
PwmTrue == PwmAims /\ DutyKept
=============================================================================

------------------------------ MODULE MCDevices ------------------------------
(* Twelve small devices in one instance.  They do not touch one another, so a *)
(* behaviour works with one of them and leaves the others as after a reset.   *)
EXTENDS Pwm, Intercore, Gpio, MicroTimer, Serial, FiniteSets

CONSTANTS WordBits, Dividends

VARIABLES device,  \* the one that is worked with
          interp, divider

MCSender == [b \in Bell |-> b]
MCGuard == [c \in Core |-> 0]

MCMasks == {{}, {<<"edge", "low">>}, {<<"level", "high">>}}

ASSUME DevicesAssumption == MicroConstants /\ GpioConstants /\ SerialConstants

Words == INSTANCE Words
Lane(shift, field, signed, cross, addRaw) ==
    [shift |-> shift, lsb |-> field[1], msb |-> field[2], signed |-> signed,
     cross |-> cross, crossResult |-> cross, addRaw |-> addRaw]
Lanes0 == {Lane(s, f, signed, cross, raw) :
    s \in {0, 3, 7}, f \in {<<0, 7>>, <<2, 5>>, <<5, 2>>}, signed, cross, raw \in BOOLEAN}
Lanes1 == {Lane(0, <<0, 7>>, FALSE, FALSE, FALSE), Lane(1, <<1, 6>>, TRUE, TRUE, FALSE)}
Interpolator(l0, l1, mode, force, a, b) ==
    [lane |-> <<l0, l1>>, mode |-> mode, force |-> force, accum |-> <<Words!W(a), Words!W(170)>>,
     base |-> <<Words!W(b[1]), Words!W(b[2]), Words!W(9)>>, result |-> <<>>, overflow |-> <<>>, pops |-> 0]
FromZero(f) == [i \in 0..Len(f) - 1 |-> f[i + 1]]
MCSettings == {[r EXCEPT !.lane = FromZero(@), !.accum = FromZero(@), !.base = FromZero(@)] :
    r \in {Interpolator(l0, l1, mode, force, a, b) : l0 \in Lanes0, l1 \in Lanes1, mode \in {"plain", "blend", "clamp"},
           force \in {{}, {0}}, a \in {1, 93, 200}, b \in {<<3, 70>>, <<240, 20>>, <<5, 5>>}}}
A == INSTANCE SioMath WITH Settings <- MCSettings

\* Outputs are those of one pin; the second pin of the inputs is there for the
\* interrupt that the pins share.
N == "normal"
OutputsNext ==
    \/ Output /\ pin'[1] = pin[1]
    \/ \E func \in Functions, out, oe \in Overrides : WriteCtrl(0, func, out, oe, N, N)
    \/ \E pad \in Pads : WritePad(0, pad)
SecondPin == pin'[1].force = {} /\ pin'[1].enable # {<<"edge", "low">>}
InputsNext ==
    \/ Input \/ ClearEdges
    \/ WriteMasks /\ SecondPin
    \/ \E over, irqOver \in Overrides : WriteCtrl(0, "NULL", N, N, over, irqOver)
    \/ \E i \in Pin, pad \in {{"ie"}, {"down"}} : WritePad(i, pad)

Device == {"fifos", "intercore", "pwm", "alarms", "time", "spi", "uart", "adc", "outputs", "inputs", "interpolator", "divider"}
math == <<interp, divider>>
vars == <<device, fifoVars, intercoreVars, pwmVars, microVars, serialVars, gpioVars, math>>

SomeInterpolator == CHOOSE r \in MCSettings : TRUE
Init ==
    /\ device \in Device
    /\ FifoInit /\ IntercoreInit /\ PwmInit /\ MicroInit /\ SerialInit /\ GpioInit
    /\ divider = A!FreshDivider
    /\ interp \in IF device = "interpolator" THEN {A!update(r) : r \in MCSettings} ELSE {SomeInterpolator}

Next ==
    /\ \/ device = "intercore" /\ IntercoreNext /\ UNCHANGED <<fifoVars, pwmVars, microVars, serialVars, gpioVars, math>>
       \/ device = "fifos" /\ FifoNext /\ UNCHANGED <<intercoreVars, pwmVars, microVars, serialVars, gpioVars, math>>
       \/ device = "pwm" /\ PwmNext /\ UNCHANGED <<intercoreVars, fifoVars, microVars, serialVars, gpioVars, math>>
       \/ /\ \/ device = "alarms" /\ (WriteAlarm \/ WriteArmed \/ WriteInterrupts \/ (\E a \in Alarm : fireAlarm(a)) \/ TimePasses)
             \/ device = "time" /\ (TimePasses \/ ReadRaw \/ ReadLatched)
          /\ UNCHANGED <<intercoreVars, fifoVars, pwmVars, serialVars, gpioVars, math>>
       \/ /\ \/ device = "spi" /\ SpiNext
             \/ device = "uart" /\ UartNext
             \/ device = "adc" /\ AdcNext
          /\ UNCHANGED <<intercoreVars, fifoVars, pwmVars, microVars, gpioVars, math>>
       \/ /\ (device = "outputs" /\ OutputsNext) \/ (device = "inputs" /\ InputsNext)
          /\ UNCHANGED <<intercoreVars, fifoVars, pwmVars, microVars, serialVars, math>>
       \/ /\ \/ device = "interpolator" /\ (A!Pop \/ A!setBase01)
             \/ device = "divider" /\ (A!Divide \/ A!Handler)
          /\ UNCHANGED <<intercoreVars, fifoVars, pwmVars, microVars, serialVars, gpioVars>>
    /\ UNCHANGED device

Spec == Init /\ [][Next]_vars

\* Divisions and interpolations have the results of the arithmetic they stand for,
\* divisions that a handler's divisions interrupted too (sio-core.ts, interpolator.ts).
ArithmeticExact == A!DividerExact /\ (device = "interpolator" => A!InterpolatorExact)
=============================================================================

-------------------------------- MODULE Gpio --------------------------------
(* The pins (gpio-pin.ts), the bank of their controls and interrupts          *)
(* (peripherals/io.ts), their pads (peripherals/pads.ts) and the blocks that  *)
(* drive them (sio.ts, peripherals/pio.ts, the selection in rp2040.ts).       *)
EXTENDS FiniteSets

CONSTANTS Pin,
          Blocks,     \* the functions a pin may select, each with an output and an enable
          Overrides,  \* of the four of a control field
          Masks       \* interrupt masks the firmware uses

\* The overrides that a control field can hold.
AllOverrides == {"normal", "invert", "low", "high"}
GpioConstants == Overrides \subseteq AllOverrides

VARIABLES drive,    \* [Blocks -> the pins it sets high and those it outputs on]
          pin,      \* [Pin -> control, pad, input, interrupt status and the last value told]
          ioLine,   \* the interrupt IO_BANK0
          overridden   \* whether an interrupt override was written (ghost)

gpioVars == <<drive, pin, ioLine, overridden>>

applyOverride(value, override) ==
    CASE override = "normal" -> value [] override = "invert" -> ~value
      [] override = "low" -> FALSE [] override = "high" -> TRUE

Functions == Blocks \cup {"NULL"}
Pads == SUBSET {"up", "down", "ie"}
inputEnabled(p) == "ie" \in p.pad
inputValue(p) == applyOverride(p.raw /\ inputEnabled(p), p.inOver)
rawInterrupt(p) == (p.status \cap p.enable) \cup p.force # {}
irqValue(p) == applyOverride(rawInterrupt(p), p.irqOver)

outputEnable(d, p, i) == applyOverride(p.func \in Blocks /\ i \in d[p.func].oe, p.oeOver)
outputValue(d, p, i) == applyOverride(p.func \in Blocks /\ i \in d[p.func].out, p.outOver)
PinValue(d, p, i) ==
    IF outputEnable(d, p, i) THEN (IF outputValue(d, p, i) THEN "High" ELSE "Low")
    ELSE CASE {"up", "down"} \subseteq p.pad -> "InputBusKeeper" [] "down" \in p.pad -> "InputPullDown"
           [] "up" \in p.pad -> "InputPullUp" [] OTHER -> "Input"

checkForUpdates(d, p, i) == [p EXCEPT !.last = PinValue(d, p, i)]
updateIOInterrupt(pins) == \E i \in Pin : irqValue(pins[i])

setInputValue(p, value) ==
    LET seen == IF value /\ inputEnabled(p) THEN "high" ELSE "low"
    IN  [p EXCEPT !.raw = value,
                  !.status = (@ \cap {<<"edge", "high">>, <<"edge", "low">>}) \cup {<<"edge", seen>>, <<"level", seen>>}]

\* The line is computed again when the pin's interrupt changed.
Told(i, p) == IF irqValue(p) # irqValue(pin[i]) THEN updateIOInterrupt([pin EXCEPT ![i] = p]) ELSE ioLine

Input == \E i \in Pin, value \in BOOLEAN :
    LET p == setInputValue(pin[i], value)
    IN  pin' = [pin EXCEPT ![i] = p] /\ ioLine' = Told(i, p) /\ UNCHANGED <<drive, overridden>>

\* A write to a set, clear, toggle or plain register of the SIO, or by a state
\* machine of a PIO: the pins whose bits change are looked at.
Output == \E b \in Blocks, out, oe \in SUBSET Pin :
    LET d == [drive EXCEPT ![b] = [out |-> out, oe |-> oe]]
        changed == {i \in Pin : (i \in out) # (i \in drive[b].out) \/ (i \in oe) # (i \in drive[b].oe)}
    IN  /\ drive' = d
        /\ pin' = [i \in Pin |-> IF i \in changed THEN checkForUpdates(d, pin[i], i) ELSE pin[i]]
        /\ UNCHANGED <<ioLine, overridden>>

WriteCtrl(i, func, out, oe, in, irq) ==
    LET p == [pin[i] EXCEPT !.func = func, !.outOver = out, !.oeOver = oe, !.inOver = in, !.irqOver = irq]
    IN  /\ pin' = [pin EXCEPT ![i] = checkForUpdates(drive, p, i)]
        /\ overridden' = (overridden \/ irq # pin[i].irqOver)
        /\ UNCHANGED <<drive, ioLine>>

\* Mistake: the input enable of the pad is not applied to the input.
WritePadUnseen(i, pad) ==
    /\ pin' = [pin EXCEPT ![i] = checkForUpdates(drive, [@ EXCEPT !.pad = pad], i)]
    /\ ioLine' = Told(i, pin'[i]) /\ UNCHANGED <<drive, overridden>>

WritePad(i, pad) ==
    LET new == checkForUpdates(drive, [pin[i] EXCEPT !.pad = pad], i)
        p == IF inputEnabled(new) # inputEnabled(pin[i]) THEN setInputValue(new, new.raw) ELSE new
    IN  pin' = [pin EXCEPT ![i] = p] /\ ioLine' = Told(i, p) /\ UNCHANGED <<drive, overridden>>

ClearEdges == \E i \in Pin, which \in SUBSET {"high", "low"} :
    LET cleared == {<<"edge", w>> : w \in which} \cap pin[i].status
        pins == [pin EXCEPT ![i].status = @ \ cleared]
    IN  /\ pin' = pins /\ ioLine' = IF cleared = {} THEN ioLine ELSE updateIOInterrupt(pins)
        /\ UNCHANGED <<drive, overridden>>

\* INTE and INTF hold the masks of several pins.
WriteMasks == \E enable, force \in [Pin -> Masks] :
    LET pins == [i \in Pin |-> [pin[i] EXCEPT !.enable = enable[i], !.force = force[i]]]
    IN  /\ (\A i \in Pin : force[i] = pin[i].force) \/ (\A i \in Pin : enable[i] = pin[i].enable)
        /\ pin' = pins /\ ioLine' = IF pins = pin THEN ioLine ELSE updateIOInterrupt(pins)
        /\ UNCHANGED <<drive, overridden>>

FreshPin ==
    [func |-> "NULL", outOver |-> "normal", oeOver |-> "normal", inOver |-> "normal", irqOver |-> "normal",
     pad |-> {"down"}, raw |-> FALSE, status |-> {}, enable |-> {}, force |-> {}, last |-> "Input"]
GpioInit ==
    /\ drive = [b \in Blocks |-> [out |-> {}, oe |-> {}]] /\ pin = [i \in Pin |-> FreshPin]
    /\ ioLine = FALSE /\ overridden = FALSE
GpioNext ==
    \/ Input \/ Output \/ ClearEdges \/ WriteMasks
    \/ \E i \in Pin, func \in Functions, out, oe, in, irq \in Overrides : WriteCtrl(i, func, out, oe, in, irq)
    \/ \E i \in Pin, pad \in Pads : WritePad(i, pad)
GpioSpec == GpioInit /\ [][GpioNext]_gpioVars

\* The listeners of a pin were told its value, whichever of the block, the
\* control and the pad changed it; a new pin tells nothing until it is looked at.
ListenersTold == \A i \in Pin :
    pin[i].last = PinValue(drive, pin[i], i) \/ (pin[i].last = "Input" /\ PinValue(drive, pin[i], i) = "InputPullDown")

\* The levels follow the input through the pad, and the interrupt follows every
\* pin's status and masks, unless an interrupt override was ever written.
PinInterruptsTrue ==
    /\ \A i \in Pin : pin[i].status # {} =>
           (<<"level", IF pin[i].raw /\ inputEnabled(pin[i]) THEN "high" ELSE "low">> \in pin[i].status)
    /\ ~overridden => ioLine = updateIOInterrupt(pin)

\* What the chip is told of a pin and what a pin tells the chip.
PinsTrue == ListenersTold /\ PinInterruptsTrue
=============================================================================

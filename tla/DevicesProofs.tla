---------------------------- MODULE DevicesProofs -----------------------------
(* Theorems about the small devices.  Gpio: for any pins, blocks and masks,    *)
(* the listeners of a pin know its value and the shared interrupt is that of   *)
(* the pins.  MicroTimer: for halves of any size and a clock without bound, a  *)
(* time read in halves is a time of the reading, and alarms fire on time.      *)
(* Serial: for FIFOs of any depth, streams of any length and any number of     *)
(* answers inside onTransmit, nothing is lost and signals that are due are     *)
(* raised.  Pwm: for wrap and compare values of any size, written at any       *)
(* moment, the output of a slice has the duty that was asked for.              *)
EXTENDS Gpio, MicroTimer, Serial, Pwm, SequenceTheorems, WellFoundedInduction, TLAPS

-----------------------------------------------------------------------------
(* Gpio: types. *)

Events == {"edge", "level"} \X {"high", "low"}
Values == {"High", "Low", "InputBusKeeper", "InputPullDown", "InputPullUp", "Input"}
AllMasks == Masks \cup {{}}

PinType ==
    [func : Functions, outOver : AllOverrides, oeOver : AllOverrides, inOver : AllOverrides,
     irqOver : AllOverrides, pad : Pads, raw : BOOLEAN, status : SUBSET Events,
     enable : AllMasks, force : AllMasks, last : Values]

DriveType == [Blocks -> [out : SUBSET Pin, oe : SUBSET Pin]]

GpioTypeOK ==
    /\ drive \in DriveType /\ pin \in [Pin -> PinType]
    /\ ioLine \in BOOLEAN /\ overridden \in BOOLEAN

-----------------------------------------------------------------------------
(* A pin. *)

\* The listeners of a pin were told its value, or it is as new.
ToldOf(d, p, i) ==
    \/ p.last = PinValue(d, p, i)
    \/ p.last = "Input" /\ PinValue(d, p, i) = "InputPullDown"

\* The level of a pin whose input was ever looked at.
Seen(p) == IF p.raw /\ inputEnabled(p) THEN "high" ELSE "low"
LevelTrue(p) == p.status # {} => <<"level", Seen(p)>> \in p.status

PinGood(d, p, i) == p \in PinType /\ ToldOf(d, p, i) /\ LevelTrue(p)

LEMMA PinValueType == \A d, p, i : PinValue(d, p, i) \in Values
  BY DEF PinValue, Values

\* No block drives the pin differently.
SameDrive(d, e, i) ==
    \A b \in Blocks : (i \in d[b].oe <=> i \in e[b].oe) /\ (i \in d[b].out <=> i \in e[b].out)

\* The value of a pin depends on its control, its pad and the block it selects.
LEMMA PinValueSame ==
    ASSUME NEW d, NEW e, NEW p \in PinType, NEW i, SameDrive(d, e, i)
    PROVE  PinValue(d, p, i) = PinValue(e, p, i)
<1>1. outputEnable(d, p, i) <=> outputEnable(e, p, i)
  BY DEF outputEnable, applyOverride, PinType, AllOverrides, SameDrive
<1>2. outputValue(d, p, i) <=> outputValue(e, p, i)
  BY DEF outputValue, applyOverride, PinType, AllOverrides, SameDrive
<1> QED BY <1>1, <1>2 DEF PinValue

LEMMA ValueSame ==
    ASSUME NEW d, NEW p \in PinType, NEW q \in PinType, NEW i,
           p.func = q.func, p.outOver = q.outOver, p.oeOver = q.oeOver, p.pad = q.pad
    PROVE  PinValue(d, p, i) = PinValue(d, q, i)
  BY DEF PinValue, outputEnable, outputValue

LEMMA CheckFacts ==
    ASSUME NEW d, NEW p \in PinType, NEW i, LevelTrue(p)
    PROVE  LET t == checkForUpdates(d, p, i)
           IN  /\ PinGood(d, t, i)
               /\ t.raw = p.raw /\ t.pad = p.pad /\ t.status = p.status
               /\ t.enable = p.enable /\ t.force = p.force /\ t.irqOver = p.irqOver
<1> DEFINE v == PinValue(d, p, i)
           t == [p EXCEPT !.last = v]
<1>1. v \in Values
  BY PinValueType
<1> HIDE DEF v
<1>2. /\ t \in PinType /\ t.last = v
      /\ t.func = p.func /\ t.outOver = p.outOver /\ t.oeOver = p.oeOver /\ t.pad = p.pad
      /\ t.raw = p.raw /\ t.status = p.status
      /\ t.enable = p.enable /\ t.force = p.force /\ t.irqOver = p.irqOver
  BY <1>1 DEF PinType
<1> HIDE DEF t
<1>3. PinValue(d, t, i) = PinValue(d, p, i)
  BY <1>2, ValueSame
<1>4. LevelTrue(t)
  BY <1>2 DEF LevelTrue, Seen, inputEnabled
<1>5. checkForUpdates(d, p, i) = t
  BY DEF checkForUpdates, t, v
<1> QED BY <1>2, <1>3, <1>4, <1>5 DEF PinGood, ToldOf, v

LEMMA InputFacts ==
    ASSUME NEW d, NEW i, NEW p \in PinType, ToldOf(d, p, i), NEW value \in BOOLEAN
    PROVE  PinGood(d, setInputValue(p, value), i)
<1> DEFINE seen == IF value /\ inputEnabled(p) THEN "high" ELSE "low"
           status == (p.status \cap {<<"edge", "high">>, <<"edge", "low">>})
                     \cup {<<"edge", seen>>, <<"level", seen>>}
           t == [p EXCEPT !.raw = value, !.status = status]
<1>1. status \in SUBSET Events /\ <<"level", seen>> \in status
  BY DEF PinType, Events
<1>2. setInputValue(p, value) = t
  BY DEF setInputValue, PinType
<1>3. seen = IF value /\ inputEnabled(p) THEN "high" ELSE "low"
  OBVIOUS
<1> HIDE DEF seen, status
<1>4. /\ t \in PinType /\ t.raw = value /\ t.status = status /\ t.last = p.last
      /\ t.func = p.func /\ t.outOver = p.outOver /\ t.oeOver = p.oeOver /\ t.pad = p.pad
  BY <1>1 DEF PinType
<1> HIDE DEF t
<1>5. PinValue(d, t, i) = PinValue(d, p, i)
  BY <1>4, ValueSame
<1>6. ToldOf(d, t, i)
  BY <1>4, <1>5 DEF ToldOf
<1>7. LevelTrue(t)
  BY <1>1, <1>3, <1>4 DEF LevelTrue, Seen, inputEnabled
<1> QED BY <1>2, <1>4, <1>6, <1>7 DEF PinGood

-----------------------------------------------------------------------------
(* The shared interrupt. *)

LineTrue == overridden = FALSE => ioLine = updateIOInterrupt(pin)

\* The interrupt of a pin depends on its status, its masks and their override.
LEMMA IrqSame ==
    ASSUME NEW p, NEW q, p.status = q.status, p.enable = q.enable,
           p.force = q.force, p.irqOver = q.irqOver
    PROVE  irqValue(p) <=> irqValue(q)
  BY DEF irqValue, rawInterrupt

\* If no pin's interrupt changed, the shared one did not.
LEMMA LineSame ==
    ASSUME NEW f, NEW g, \A i \in Pin : irqValue(f[i]) <=> irqValue(g[i])
    PROVE  updateIOInterrupt(f) = updateIOInterrupt(g)
  BY DEF updateIOInterrupt

\* A pin is changed and the line computed again if its interrupt changed with it.
LEMMA LineTold ==
    ASSUME GpioTypeOK, LineTrue, NEW i \in Pin, NEW p \in PinType,
           pin' = [pin EXCEPT ![i] = p], ioLine' = Told(i, p), overridden' = overridden
    PROVE  LineTrue'
<1>1. pin \in [Pin -> PinType]
  BY DEF GpioTypeOK
<1>2. CASE irqValue(p) # irqValue(pin[i])
  BY <1>2 DEF Told, LineTrue
<1>3. CASE irqValue(p) = irqValue(pin[i])
  <2>1. \A j \in Pin : irqValue(pin[j]) <=> irqValue(pin'[j])
    BY <1>1, <1>3
  <2>2. updateIOInterrupt(pin) = updateIOInterrupt(pin')
    BY <2>1, LineSame
  <2>3. ioLine' = ioLine
    BY <1>3 DEF Told
  <2> QED BY <2>2, <2>3 DEF LineTrue
<1> QED BY <1>2, <1>3

LEMMA LineType == \A f : updateIOInterrupt(f) \in BOOLEAN
  BY DEF updateIOInterrupt

LEMMA ToldType == GpioTypeOK => \A i, p : Told(i, p) \in BOOLEAN
  BY LineType DEF Told, GpioTypeOK

-----------------------------------------------------------------------------
(* The steps of Gpio. *)

GpioInv ==
    /\ GpioTypeOK /\ LineTrue
    /\ \A i \in Pin : ToldOf(drive, pin[i], i) /\ LevelTrue(pin[i])

\* A step that changes one pin, and the line with it.
LEMMA OnePin ==
    ASSUME GpioInv, NEW i \in Pin, NEW p, PinGood(drive, p, i),
           pin' = [pin EXCEPT ![i] = p], drive' = drive
    PROVE  /\ pin' \in [Pin -> PinType]
           /\ \A j \in Pin : ToldOf(drive', pin'[j], j) /\ LevelTrue(pin'[j])
  BY DEF GpioInv, GpioTypeOK, PinGood

LEMMA InputStep == ASSUME GpioInv, Input PROVE GpioInv'
<1>1. PICK i \in Pin, value \in BOOLEAN :
          LET p == setInputValue(pin[i], value)
          IN  pin' = [pin EXCEPT ![i] = p] /\ ioLine' = Told(i, p) /\ UNCHANGED <<drive, overridden>>
  BY DEF Input
<1> DEFINE p == setInputValue(pin[i], value)
<1>2. PinGood(drive, p, i)
  BY InputFacts DEF GpioInv, GpioTypeOK
<1>3. /\ pin' = [pin EXCEPT ![i] = p] /\ ioLine' = Told(i, p)
      /\ drive' = drive /\ overridden' = overridden
  BY <1>1
<1> HIDE DEF p
<1>4. /\ pin' \in [Pin -> PinType]
      /\ \A j \in Pin : ToldOf(drive', pin'[j], j) /\ LevelTrue(pin'[j])
  BY <1>2, <1>3, OnePin
<1>5. LineTrue'
  BY <1>2, <1>3, LineTold DEF GpioInv, PinGood
<1>6. GpioTypeOK'
  BY <1>3, <1>4, ToldType DEF GpioInv, GpioTypeOK
<1> QED BY <1>4, <1>5, <1>6 DEF GpioInv

LEMMA WritePadStep ==
    ASSUME GpioInv, NEW i \in Pin, NEW pad \in Pads, WritePad(i, pad)
    PROVE  GpioInv'
<1> DEFINE old == pin[i]
           changed == [old EXCEPT !.pad = pad]
           new == checkForUpdates(drive, changed, i)
           p == IF inputEnabled(new) # inputEnabled(old) THEN setInputValue(new, new.raw) ELSE new
           same == [old EXCEPT !.last = new.last, !.pad = pad]
<1>1. old \in PinType /\ LevelTrue(old)
  BY DEF GpioInv, GpioTypeOK
<1>2. /\ pin' = [pin EXCEPT ![i] = p] /\ ioLine' = Told(i, p)
      /\ drive' = drive /\ overridden' = overridden
  BY DEF WritePad
<1> HIDE DEF old
<1>3. changed \in PinType /\ changed.raw = old.raw /\ changed.status = old.status
      /\ changed.pad = pad
  BY <1>1 DEF PinType
<1> HIDE DEF changed
<1> DEFINE v == PinValue(drive, changed, i)
<1>4. new = [changed EXCEPT !.last = v] /\ v \in Values
  BY PinValueType DEF checkForUpdates
<1> HIDE DEF new, v
<1>5. /\ new \in PinType /\ new.last = v /\ new.raw = old.raw /\ new.status = old.status
      /\ new.func = changed.func /\ new.outOver = changed.outOver
      /\ new.oeOver = changed.oeOver /\ new.pad = changed.pad
  BY <1>3, <1>4 DEF PinType
<1>6. ToldOf(drive, new, i)
  BY <1>3, <1>5, ValueSame DEF ToldOf, v
<1>7. PinGood(drive, p, i)
  <2>1. CASE inputEnabled(new) # inputEnabled(old)
    <3>1. new.raw \in BOOLEAN
      BY <1>5 DEF PinType
    <3> QED BY <1>5, <1>6, <2>1, <3>1, InputFacts
  <2>2. CASE inputEnabled(new) = inputEnabled(old)
    <3>1. LevelTrue(new)
      BY <1>1, <1>5, <2>2 DEF LevelTrue, Seen
    <3> QED BY <1>5, <1>6, <2>2, <3>1 DEF PinGood
  <2> QED BY <2>1, <2>2
<1> HIDE DEF p
<1>8. /\ pin' \in [Pin -> PinType]
      /\ \A j \in Pin : ToldOf(drive', pin'[j], j) /\ LevelTrue(pin'[j])
  BY <1>2, <1>7, OnePin
<1>9. LineTrue'
  BY <1>2, <1>7, LineTold DEF GpioInv, PinGood
<1>10. GpioTypeOK'
  BY <1>2, <1>8, ToldType DEF GpioInv, GpioTypeOK
<1> QED BY <1>8, <1>9, <1>10 DEF GpioInv

LEMMA WriteCtrlStep ==
    ASSUME GpioConstants, GpioInv, NEW i \in Pin, NEW func \in Functions, NEW out \in Overrides,
           NEW oe \in Overrides, NEW in \in Overrides, NEW irq \in Overrides,
           WriteCtrl(i, func, out, oe, in, irq)
    PROVE  GpioInv'
<1> DEFINE old == pin[i]
           changed == [old EXCEPT !.func = func, !.outOver = out, !.oeOver = oe,
                                  !.inOver = in, !.irqOver = irq]
           p == checkForUpdates(drive, changed, i)
<1>1. old \in PinType /\ LevelTrue(old) /\ old.irqOver \in AllOverrides
  BY DEF GpioInv, GpioTypeOK, PinType
<1>2. /\ pin' = [pin EXCEPT ![i] = p] /\ drive' = drive /\ ioLine' = ioLine
      /\ overridden' = (overridden \/ irq # pin[i].irqOver)
  BY DEF WriteCtrl
<1>3. overridden' \in BOOLEAN /\ (overridden' = FALSE => overridden = FALSE /\ irq = old.irqOver)
  BY <1>2 DEF GpioInv, GpioTypeOK
<1> HIDE DEF old
<1>4. /\ changed \in PinType /\ changed.raw = old.raw /\ changed.status = old.status
      /\ changed.pad = old.pad /\ changed.irqOver = irq
      /\ changed.enable = old.enable /\ changed.force = old.force
  BY <1>1 DEF PinType, GpioConstants
<1> HIDE DEF changed
<1>5. LevelTrue(changed)
  BY <1>1, <1>4 DEF LevelTrue, Seen, inputEnabled
<1>6. /\ PinGood(drive, p, i)
      /\ p.status = old.status /\ p.enable = old.enable /\ p.force = old.force
      /\ p.irqOver = irq
  BY <1>4, <1>5, CheckFacts
<1> HIDE DEF p
<1>7. /\ pin' \in [Pin -> PinType]
      /\ \A j \in Pin : ToldOf(drive', pin'[j], j) /\ LevelTrue(pin'[j])
  BY <1>2, <1>6, OnePin
<1>8. ASSUME overridden' = FALSE PROVE ioLine' = updateIOInterrupt(pin')
  <2>1. irqValue(p) <=> irqValue(old)
    BY <1>3, <1>6, <1>8, IrqSame
  <2>2. \A j \in Pin : irqValue(pin[j]) <=> irqValue(pin'[j])
    BY <1>2, <2>1 DEF GpioInv, GpioTypeOK, old
  <2>3. updateIOInterrupt(pin) = updateIOInterrupt(pin')
    BY <2>2, LineSame
  <2> QED BY <1>2, <1>3, <1>8, <2>3 DEF GpioInv, LineTrue
<1>9. GpioTypeOK'
  BY <1>2, <1>3, <1>7 DEF GpioInv, GpioTypeOK
<1> QED BY <1>7, <1>8, <1>9 DEF GpioInv, LineTrue

LEMMA OutputStep == ASSUME GpioInv, Output PROVE GpioInv'
<1>1. PICK b \in Blocks, out \in SUBSET Pin, oe \in SUBSET Pin :
        LET d == [drive EXCEPT ![b] = [out |-> out, oe |-> oe]]
            changed == {i \in Pin : (i \in out) # (i \in drive[b].out) \/ (i \in oe) # (i \in drive[b].oe)}
        IN  /\ drive' = d
            /\ pin' = [i \in Pin |-> IF i \in changed THEN checkForUpdates(d, pin[i], i) ELSE pin[i]]
            /\ UNCHANGED <<ioLine, overridden>>
  BY DEF Output
<1> DEFINE d == [drive EXCEPT ![b] = [out |-> out, oe |-> oe]]
           changed == {i \in Pin : (i \in out) # (i \in drive[b].out) \/ (i \in oe) # (i \in drive[b].oe)}
<1>2. /\ drive' = d /\ ioLine' = ioLine /\ overridden' = overridden
      /\ pin' = [i \in Pin |-> IF i \in changed THEN checkForUpdates(d, pin[i], i) ELSE pin[i]]
  BY <1>1
<1>3. drive' \in DriveType
  <2>1. [out |-> out, oe |-> oe] \in [out : SUBSET Pin, oe : SUBSET Pin]
    OBVIOUS
  <2> QED BY <1>2, <2>1 DEF GpioInv, GpioTypeOK, DriveType
<1>4. \A i \in Pin \ changed : SameDrive(drive, d, i)
  <2> SUFFICES ASSUME NEW i \in Pin, i \notin changed, NEW c \in Blocks
               PROVE  (i \in drive[c].oe <=> i \in d[c].oe) /\ (i \in drive[c].out <=> i \in d[c].out)
    BY DEF SameDrive
  <2>1. (i \in out <=> i \in drive[b].out) /\ (i \in oe <=> i \in drive[b].oe)
    OBVIOUS
  <2>2. CASE c = b
    <3>1. d[c].oe = oe /\ d[c].out = out
      BY <2>2 DEF GpioInv, GpioTypeOK, DriveType
    <3> QED BY <2>1, <2>2, <3>1
  <2>3. CASE c # b
    <3>1. d[c] = drive[c]
      BY <2>3 DEF GpioInv, GpioTypeOK, DriveType
    <3> QED BY <3>1
  <2> QED BY <2>2, <2>3
<1> HIDE DEF d, changed
<1>5. ASSUME NEW i \in Pin
      PROVE  /\ PinGood(d, pin'[i], i)
             /\ irqValue(pin[i]) <=> irqValue(pin'[i])
  <2>1. pin[i] \in PinType /\ LevelTrue(pin[i]) /\ ToldOf(drive, pin[i], i)
    BY DEF GpioInv, GpioTypeOK
  <2>2. CASE i \in changed
    <3> DEFINE t == checkForUpdates(d, pin[i], i)
    <3>1. pin'[i] = t
      BY <1>2, <2>2
    <3>2. /\ PinGood(d, t, i) /\ t.status = pin[i].status /\ t.enable = pin[i].enable
          /\ t.force = pin[i].force /\ t.irqOver = pin[i].irqOver
      BY <2>1, CheckFacts
    <3> HIDE DEF t
    <3> QED BY <3>1, <3>2, IrqSame
  <2>3. CASE i \notin changed
    <3>1. pin'[i] = pin[i]
      BY <1>2, <2>3
    <3>2. PinValue(drive, pin[i], i) = PinValue(d, pin[i], i)
      BY <1>4, <2>1, <2>3, PinValueSame
    <3> QED BY <2>1, <3>1, <3>2 DEF PinGood, ToldOf
  <2> QED BY <2>2, <2>3
<1>6. LineTrue'
  <2>1. updateIOInterrupt(pin) = updateIOInterrupt(pin')
    BY <1>5, LineSame
  <2> QED BY <1>2, <2>1 DEF GpioInv, LineTrue
<1>7. pin' \in [Pin -> PinType]
  <2>1. pin' = [i \in Pin |-> pin'[i]]
    BY <1>2
  <2> QED BY <1>5, <2>1 DEF PinGood
<1> QED BY <1>2, <1>3, <1>5, <1>6, <1>7 DEF GpioInv, GpioTypeOK, PinGood

LEMMA ClearEdgesStep == ASSUME GpioInv, ClearEdges PROVE GpioInv'
<1>1. PICK i \in Pin, which \in SUBSET {"high", "low"} :
        LET cleared == {<<"edge", w>> : w \in which} \cap pin[i].status
            pins == [pin EXCEPT ![i].status = @ \ cleared]
        IN  /\ pin' = pins /\ ioLine' = IF cleared = {} THEN ioLine ELSE updateIOInterrupt(pins)
            /\ UNCHANGED <<drive, overridden>>
  BY DEF ClearEdges
<1> DEFINE cleared == {<<"edge", w>> : w \in which} \cap pin[i].status
           old == pin[i]
           status == old.status \ cleared
           p == [old EXCEPT !.status = status]
<1>2. /\ pin' = [pin EXCEPT ![i] = p] /\ drive' = drive /\ overridden' = overridden
      /\ ioLine' = IF cleared = {} THEN ioLine ELSE updateIOInterrupt(pin')
  BY <1>1 DEF GpioInv, GpioTypeOK, PinType
<1>3. old \in PinType /\ LevelTrue(old) /\ ToldOf(drive, old, i)
  BY DEF GpioInv, GpioTypeOK
<1>4. /\ \A s : <<"level", s>> \notin cleared
      /\ status \in SUBSET Events /\ (cleared = {} => status = old.status)
  BY <1>3 DEF PinType
<1>5. pin[i] = old
  OBVIOUS
<1>6. status = old.status \ cleared
  OBVIOUS
<1> HIDE DEF old, cleared, status
<1>7. /\ p \in PinType /\ p.status = status /\ p.last = old.last /\ p.raw = old.raw
      /\ p.func = old.func /\ p.outOver = old.outOver /\ p.oeOver = old.oeOver
      /\ p.pad = old.pad /\ p.enable = old.enable /\ p.force = old.force
      /\ p.irqOver = old.irqOver
  BY <1>3, <1>4 DEF PinType
<1> HIDE DEF p
<1>8. PinGood(drive, p, i)
  <2>1. ToldOf(drive, p, i)
    BY <1>3, <1>7, ValueSame DEF ToldOf
  <2>2. LevelTrue(p)
    BY <1>3, <1>4, <1>6, <1>7 DEF LevelTrue, Seen, inputEnabled
  <2> QED BY <1>7, <2>1, <2>2 DEF PinGood
<1>9. /\ pin' \in [Pin -> PinType]
      /\ \A j \in Pin : ToldOf(drive', pin'[j], j) /\ LevelTrue(pin'[j])
  BY <1>2, <1>8, OnePin
<1>10. LineTrue'
  <2>1. CASE cleared # {}
    BY <1>2, <2>1 DEF LineTrue
  <2>2. CASE cleared = {}
    <3>1. irqValue(p) <=> irqValue(old)
      BY <1>4, <1>7, <2>2, IrqSame
    <3>2. \A j \in Pin : irqValue(pin[j]) <=> irqValue(pin'[j])
      BY <1>2, <1>5, <3>1 DEF GpioInv, GpioTypeOK
    <3>3. updateIOInterrupt(pin) = updateIOInterrupt(pin')
      BY <3>2, LineSame
    <3> QED BY <1>2, <2>2, <3>3 DEF GpioInv, LineTrue
  <2> QED BY <2>1, <2>2
<1>11. GpioTypeOK'
  BY <1>2, <1>9, LineType DEF GpioInv, GpioTypeOK
<1> QED BY <1>9, <1>10, <1>11 DEF GpioInv

LEMMA WriteMasksStep == ASSUME GpioInv, WriteMasks PROVE GpioInv'
<1>1. PICK enable \in [Pin -> Masks], force \in [Pin -> Masks] :
        LET pins == [i \in Pin |-> [pin[i] EXCEPT !.enable = enable[i], !.force = force[i]]]
        IN  /\ (\A i \in Pin : force[i] = pin[i].force) \/ (\A i \in Pin : enable[i] = pin[i].enable)
            /\ pin' = pins /\ ioLine' = IF pins = pin THEN ioLine ELSE updateIOInterrupt(pins)
            /\ UNCHANGED <<drive, overridden>>
  BY DEF WriteMasks
<1>2. /\ pin' = [i \in Pin |-> [pin[i] EXCEPT !.enable = enable[i], !.force = force[i]]]
      /\ drive' = drive /\ overridden' = overridden
      /\ ioLine' = IF pin' = pin THEN ioLine ELSE updateIOInterrupt(pin')
  BY <1>1
<1>3. ASSUME NEW i \in Pin
      PROVE  PinGood(drive, pin'[i], i)
  <2> DEFINE e == enable[i]
             f == force[i]
             old == pin[i]
             p == [old EXCEPT !.enable = e, !.force = f]
  <2>1. old \in PinType /\ LevelTrue(old) /\ ToldOf(drive, old, i)
    BY DEF GpioInv, GpioTypeOK
  <2>2. e \in AllMasks /\ f \in AllMasks /\ pin'[i] = p
    BY <1>2 DEF AllMasks
  <2> HIDE DEF e, f, old
  <2>3. /\ p \in PinType /\ p.status = old.status /\ p.last = old.last /\ p.raw = old.raw
        /\ p.func = old.func /\ p.outOver = old.outOver /\ p.oeOver = old.oeOver
        /\ p.pad = old.pad
    BY <2>1, <2>2 DEF PinType
  <2> HIDE DEF p
  <2>4. ToldOf(drive, p, i)
    BY <2>1, <2>3, ValueSame DEF ToldOf
  <2>5. LevelTrue(p)
    BY <2>1, <2>3 DEF LevelTrue, Seen, inputEnabled
  <2> QED BY <2>2, <2>3, <2>4, <2>5 DEF PinGood
<1>4. pin' \in [Pin -> PinType]
  <2>1. pin' = [i \in Pin |-> pin'[i]]
    BY <1>2
  <2> QED BY <1>3, <2>1 DEF PinGood
<1>5. LineTrue'
  <2>1. CASE pin' = pin
    BY <1>2, <2>1 DEF GpioInv, LineTrue
  <2>2. CASE pin' # pin
    BY <1>2, <2>2 DEF LineTrue
  <2> QED BY <2>1, <2>2
<1>6. GpioTypeOK'
  BY <1>2, <1>4, LineType DEF GpioInv, GpioTypeOK
<1> QED BY <1>2, <1>3, <1>5, <1>6 DEF GpioInv, PinGood

LEMMA GpioBegins == ASSUME GpioInit PROVE GpioInv
<1>1. FreshPin \in PinType
  BY DEF FreshPin, PinType, Functions, AllOverrides, Pads, AllMasks, Values
<1>2. pin = [i \in Pin |-> FreshPin] /\ drive = [b \in Blocks |-> [out |-> {}, oe |-> {}]]
      /\ ioLine = FALSE /\ overridden = FALSE
  BY DEF GpioInit
<1>3. GpioTypeOK
  <2>1. [out |-> {}, oe |-> {}] \in [out : SUBSET Pin, oe : SUBSET Pin]
    OBVIOUS
  <2> QED BY <1>1, <1>2, <2>1 DEF GpioTypeOK, DriveType
<1>4. LevelTrue(FreshPin)
  BY DEF LevelTrue, FreshPin
<1>5. irqValue(FreshPin) = FALSE
  BY DEF irqValue, rawInterrupt, applyOverride, FreshPin
<1>6. LineTrue
  BY <1>2, <1>5 DEF LineTrue, updateIOInterrupt
<1>7. \A i \in Pin : PinValue(drive, FreshPin, i) = "InputPullDown"
  BY <1>2 DEF PinValue, outputEnable, applyOverride, FreshPin
<1>8. \A i \in Pin : ToldOf(drive, pin[i], i) /\ LevelTrue(pin[i])
  BY <1>2, <1>4, <1>7 DEF ToldOf, FreshPin
<1> QED BY <1>3, <1>6, <1>8 DEF GpioInv

\* Whatever is written and put on a pin, its listeners were told its value (or it is as
\* new), the level of its status follows the input through the pad, and the shared
\* interrupt is computed again by all that changes it (gpio-pin.ts, io.ts, pads.ts).
THEOREM GpioInvHolds == ASSUME GpioConstants PROVE GpioSpec => []GpioInv
<1>1. GpioInit => GpioInv
  BY GpioBegins
<1>2. GpioInv /\ [GpioNext]_gpioVars => GpioInv'
  <2> SUFFICES ASSUME GpioInv, [GpioNext]_gpioVars PROVE GpioInv'
    OBVIOUS
  <2>1. CASE UNCHANGED gpioVars
    BY <2>1 DEF gpioVars, GpioInv, GpioTypeOK, LineTrue
  <2>2. CASE \E i \in Pin, func \in Functions, out, oe, in, irq \in Overrides :
                 WriteCtrl(i, func, out, oe, in, irq)
    BY <2>2, WriteCtrlStep
  <2>3. CASE \E i \in Pin, pad \in Pads : WritePad(i, pad)
    BY <2>3, WritePadStep
  <2> QED BY <2>1, <2>2, <2>3, InputStep, OutputStep, ClearEdgesStep, WriteMasksStep DEF GpioNext
<1> QED BY <1>1, <1>2, PTL DEF GpioSpec

\* What the listeners, the pins and the chip know of each other is true.
THEOREM PinsAlwaysTrue == ASSUME GpioConstants PROVE GpioSpec => []PinsTrue
<1>1. GpioInv => PinsTrue
  BY DEF GpioInv, GpioTypeOK, LineTrue, ToldOf, LevelTrue, Seen, PinsTrue, ListenersTold,
         PinInterruptsTrue
<1> QED BY <1>1, GpioInvHolds, PTL

-----------------------------------------------------------------------------
(* MicroTimer: arithmetic. *)

LEMMA DivMod ==
    ASSUME NEW n \in Int, NEW h \in Nat \ {0}
    PROVE  /\ n \div h \in Int /\ n % h \in 0 .. h - 1
           /\ n = h * (n \div h) + (n % h)
  OBVIOUS

LEMMA MulFar ==
    ASSUME NEW h \in Nat \ {0}, NEW z \in Int
    PROVE  (z >= 1 => h * z >= h) /\ (z <= -1 => h * z <= -h) /\ (z = 0 => h * z = 0)
           /\ h * z \in Int
  OBVIOUS

LEMMA ModUnique ==
    ASSUME NEW h \in Nat \ {0}, NEW k \in Int, NEW r \in 0 .. h - 1
    PROVE  (h * k + r) % h = r /\ (h * k + r) \div h = k
<1> DEFINE n == h * k + r
           q == n \div h
           s == n % h
<1>1. n \in Int /\ h * k \in Int
  OBVIOUS
<1>2. q \in Int /\ s \in 0 .. h - 1 /\ n = h * q + s
  BY <1>1, DivMod
<1> HIDE DEF q, s
<1>3. h * (k - q) = h * k - h * q
  BY <1>1, <1>2
<1>4. h * (k - q) = s - r
  BY <1>1, <1>2, <1>3
<1>5. k - q \in Int /\ s - r < h /\ s - r > -h
  BY <1>2
<1>6. k - q = 0
  BY <1>4, <1>5, MulFar
<1> QED BY <1>2, <1>4, <1>5, <1>6 DEF q, s

LEMMA DivMonotone ==
    ASSUME NEW h \in Nat \ {0}, NEW m \in Nat, NEW n \in Nat, m <= n
    PROVE  m \div h <= n \div h /\ m \div h \in Nat
<1>1. /\ m \div h \in Int /\ m % h \in 0 .. h - 1 /\ m = h * (m \div h) + (m % h)
      /\ n \div h \in Int /\ n % h \in 0 .. h - 1 /\ n = h * (n \div h) + (n % h)
  BY DivMod
<1> DEFINE p == m \div h
           q == n \div h
           s == m % h
           t == n % h
<1> HIDE DEF p, q, s, t
<1>2. p \in Int /\ q \in Int /\ s \in 0 .. h - 1 /\ t \in 0 .. h - 1
      /\ m = h * p + s /\ n = h * q + t
  BY <1>1 DEF p, q, s, t
<1>3. h * (p - q) = h * p - h * q /\ p - q \in Int
  BY <1>2
<1>4. h * (p - q) < h
  BY <1>2, <1>3
<1>5. ~(p - q >= 1)
  BY <1>3, <1>4, MulFar
<1>6. ~(p <= -1)
  BY <1>2, MulFar
<1> QED BY <1>2, <1>5, <1>6 DEF p, q

\* The alarm of a counter of h values that is to reach v is due less than a microsecond
\* from a time at which it is at v, from whatever half of a microsecond it is reckoned,
\* and the counter is not at v before that.
LEMMA DueFacts ==
    ASSUME NEW h \in Nat \ {0}, NEW v \in 0 .. h - 1, NEW w \in Nat
    PROVE  LET d == Truncated(2 * v - w) % h
           IN  /\ d \in Nat
               /\ \E k \in Int, e \in {-1, 0, 1} :
                     w + 2 * d = 2 * v + 2 * (h * k) + e /\ 2 * v + 2 * (h * k) - 2 * h + 1 < w
<1> DEFINE n == 2 * v - w
           x == Truncated(n)
           e == w + 2 * x - 2 * v
           d == x % h
           q == x \div h
<1>1. n \in Int /\ n <= 2 * h - 2
  OBVIOUS
<1>2. x \in Int /\ 2 * x - n \in {-1, 0, 1} /\ (2 * x - n = -1 => n >= 0)
  <2>1. CASE n >= 0
    <3>1. n \div 2 \in Int /\ n % 2 \in 0 .. 1 /\ n = 2 * (n \div 2) + (n % 2)
      BY <1>1, DivMod
    <3>2. x = n \div 2
      BY <2>1 DEF Truncated
    <3> HIDE DEF x
    <3> QED BY <1>1, <2>1, <3>1, <3>2
  <2>2. CASE ~(n >= 0)
    <3>1. (-n) \div 2 \in Int /\ (-n) % 2 \in 0 .. 1 /\ -n = 2 * ((-n) \div 2) + ((-n) % 2)
      BY <1>1, DivMod
    <3>2. x = -((-n) \div 2)
      BY <2>2 DEF Truncated
    <3> HIDE DEF x
    <3> QED BY <1>1, <3>1, <3>2
  <2> QED BY <2>1, <2>2
<1> HIDE DEF x
<1>3. d \in 0 .. h - 1 /\ q \in Int /\ x = h * q + d
  BY <1>2, DivMod
<1>4. e \in {-1, 0, 1} /\ e = 2 * x - n
  BY <1>2
<1>5. e = -1 => d = x /\ x <= h - 2
  <2> SUFFICES ASSUME e = -1 PROVE d = x /\ x <= h - 2
    OBVIOUS
  <2>1. x \in 0 .. h - 1 /\ x <= h - 2
    BY <1>1, <1>2, <1>4
  <2>2. h * 0 + x = x
    BY <2>1
  <2>3. (h * 0 + x) % h = x
    BY <2>1, ModUnique
  <2> QED BY <2>1, <2>2, <2>3
<1> HIDE DEF d, q, e, n
<1> DEFINE k == -q
<1>6. k \in Int /\ h * k = -(h * q) /\ h * q \in Int
  BY <1>3
<1> HIDE DEF k
<1>7. w + 2 * x - 2 * v = e
  BY DEF e
<1>8. w + 2 * d = 2 * v + 2 * (h * k) + e
  BY <1>2, <1>3, <1>6, <1>7
<1>9. 2 * d < 2 * h + e - 1
  BY <1>2, <1>3, <1>4, <1>5
<1>10. 2 * v + 2 * (h * k) - 2 * h + 1 < w
  BY <1>3, <1>4, <1>6, <1>8, <1>9
<1>11. /\ d \in Nat
       /\ \E l \in Int, f \in {-1, 0, 1} :
             w + 2 * d = 2 * v + 2 * (h * l) + f /\ 2 * v + 2 * (h * l) - 2 * h + 1 < w
  <2>1. d \in Nat
    BY <1>3
  <2> HIDE DEF d
  <2> QED BY <1>4, <1>6, <1>8, <1>10, <2>1
<1> QED BY <1>11 DEF d, x, n

-----------------------------------------------------------------------------
(* MicroTimer: the invariant. *)

Readers == {"raw", "latched"}
ReaderType == [at : {"start", "low", "high", "done"}, low : Nat, high : Nat, since : Nat]
TimerType ==
    [armed : SUBSET Alarm, target : [Alarm -> Nat], due : [Alarm -> Int], latched : Nat,
     intRaw : SUBSET Alarm, intEnable : SUBSET Alarm, intForce : SUBSET Alarm, irq : SUBSET Alarm]

MicroTypeOK ==
    /\ now \in Nat /\ timer \in TimerType /\ reader \in [Readers -> ReaderType]

\* The times of a reading so far.
Times(r) == r.since .. now \div 2

\* TIMERAWH was p's; then TIMERAWL was q's.
RawTrue(r) ==
    /\ r.at = "low" => \E p \in Times(r) : r.high = p \div Half
    /\ r.at = "high" => \E p, q \in Times(r) : p <= q /\ r.high = p \div Half /\ r.low = q % Half
    /\ r.at = "done" => r.high * Half + r.low \in Times(r)

\* TIMELR was p's, and so is what it latched.
LatchedTrue(r, latched) ==
    /\ r.at \in {"start", "high", "done"}
    /\ r.at = "high" => \E p \in Times(r) : latched = p \div Half /\ r.low = p % Half
    /\ r.at = "done" => r.high * Half + r.low \in Times(r)

\* An alarm that is armed is due the next time its target comes up; one that is not
\* armed is not due.
Aimed(due, target) ==
    /\ now <= due
    /\ \E k \in Int, e \in {-1, 0, 1} :
          /\ due = 2 * target + 2 * (Half * k) + e
          /\ 2 * target + 2 * (Half * k) - 2 * Half + 1 < now
AlarmTrue(t, a) == IF a \in t.armed THEN Aimed(t.due[a], t.target[a]) ELSE t.due[a] = Off

MicroInv ==
    /\ MicroTypeOK
    /\ RawTrue(reader["raw"]) /\ LatchedTrue(reader["latched"], timer.latched)
    /\ \A a \in Alarm : AlarmTrue(timer, a)

LEMMA NowHalves ==
    ASSUME MicroConstants, now \in Nat
    PROVE  /\ now \div 2 \in Nat /\ Low \in Nat /\ High \in Nat
           /\ Low = (now \div 2) % Half /\ High = (now \div 2) \div Half
<1>1. now \div 2 \in Nat
  BY DivMonotone
<1> DEFINE n == now \div 2
<1> HIDE DEF n
<1>2. n \in Nat => n % Half \in Nat /\ n \div Half \in Nat
  BY DivMod, DivMonotone DEF MicroConstants
<1> QED BY <1>1, <1>2 DEF Low, High, n

\* The half of a time and its rest make the time.
LEMMA Halves ==
    ASSUME MicroConstants, NEW n \in Nat
    PROVE  (n \div Half) * Half + (n % Half) = n
<1>1. /\ n \div Half \in Int /\ n % Half \in 0 .. Half - 1
      /\ n = Half * (n \div Half) + (n % Half)
  BY DivMod DEF MicroConstants
<1> DEFINE q == n \div Half
           r == n % Half
<1> HIDE DEF q, r
<1>2. q \in Int /\ r \in 0 .. Half - 1 /\ n = Half * q + r /\ Half \in Nat
  BY <1>1 DEF q, r, MicroConstants
<1>3. q * Half = Half * q
  BY <1>2
<1> QED BY <1>2, <1>3 DEF q, r

\* If the high half was the same before and after, it was so in between.
LEMMA HighBetween ==
    ASSUME MicroConstants, NEW p \in Nat, NEW q \in Nat, NEW s \in Nat, p <= q, q <= s,
           p \div Half = s \div Half
    PROVE  q \div Half = p \div Half
<1>1. p \div Half <= q \div Half /\ q \div Half <= s \div Half
      /\ p \div Half \in Nat /\ q \div Half \in Nat
  BY DivMonotone DEF MicroConstants
<1> QED BY <1>1

-----------------------------------------------------------------------------
(* MicroTimer: the steps. *)

\* A step of the timer that leaves what readers latched and the time.
LEMMA TimerStep ==
    ASSUME MicroInv, now' = now, reader' = reader, timer' \in TimerType,
           timer'.latched = timer.latched, \A a \in Alarm : AlarmTrue(timer', a)
    PROVE  MicroInv'
<1>1. \A a \in Alarm : AlarmTrue(timer, a)'
  BY DEF AlarmTrue, Aimed
<1> QED BY <1>1 DEF MicroInv, MicroTypeOK, RawTrue, LatchedTrue, Times

LEMMA WriteAlarmStep == ASSUME MicroConstants, MicroInv, WriteAlarm PROVE MicroInv'
<1>1. PICK a \in Alarm, value \in 0 .. Half - 1 :
          timer' = [timer EXCEPT !.armed = @ \cup {a}, !.target[a] = value,
                                 !.due[a] = now + 2 * deltaMicros(value)]
  BY DEF WriteAlarm
<1> DEFINE at == now + 2 * deltaMicros(value)
           armed == timer.armed \cup {a}
           target == [timer.target EXCEPT ![a] = value]
           due == [timer.due EXCEPT ![a] = at]
           t == [timer EXCEPT !.armed = armed, !.target = target, !.due = due]
<1>2. now \in Nat /\ timer \in TimerType /\ now' = now /\ reader' = reader /\ timer' = t
  BY <1>1 DEF MicroInv, MicroTypeOK, WriteAlarm
<1>3. value \in Nat /\ at \in Int /\ Aimed(at, value)
  <2>1. Half \in Nat \ {0}
    BY DEF MicroConstants
  <2> DEFINE d == Truncated(2 * value - now) % Half
  <2>2. /\ d \in Nat
        /\ \E k \in Int, e \in {-1, 0, 1} :
              /\ now + 2 * d = 2 * value + 2 * (Half * k) + e
              /\ 2 * value + 2 * (Half * k) - 2 * Half + 1 < now
    BY <1>2, <2>1, DueFacts
  <2>3. deltaMicros(value) = d
    BY DEF deltaMicros
  <2> HIDE DEF d
  <2>4. at = now + 2 * d /\ now <= at /\ at \in Int
    BY <1>2, <2>2, <2>3
  <2>5. value \in Nat
    BY <2>1
  <2> QED BY <2>2, <2>4, <2>5 DEF Aimed
<1> HIDE DEF at
<1>4. /\ armed \in SUBSET Alarm /\ target \in [Alarm -> Nat] /\ due \in [Alarm -> Int]
      /\ a \in armed /\ due[a] = at /\ target[a] = value
      /\ \A b \in Alarm : b # a => /\ due[b] = timer.due[b] /\ target[b] = timer.target[b]
                                   /\ b \in armed <=> b \in timer.armed
  BY <1>2, <1>3 DEF TimerType
<1> HIDE DEF armed, target, due
<1>5. /\ t \in TimerType /\ t.armed = armed /\ t.target = target /\ t.due = due
      /\ t.latched = timer.latched
  BY <1>2, <1>4 DEF TimerType
<1> HIDE DEF t
<1>6. ASSUME NEW b \in Alarm PROVE AlarmTrue(t, b)
  <2>1. CASE b = a
    BY <1>3, <1>4, <1>5, <2>1 DEF AlarmTrue
  <2>2. CASE b # a
    BY <1>4, <1>5, <2>2 DEF AlarmTrue, MicroInv
  <2> QED BY <2>1, <2>2
<1> QED BY <1>2, <1>5, <1>6, TimerStep

\* An alarm that is disarmed is not due, whether the clock has it on its list or has
\* just taken it off.
LEMMA DisarmFacts ==
    ASSUME NEW t \in TimerType, NEW a \in Alarm, \A b \in Alarm \ {a} : AlarmTrue(t, b)
    PROVE  LET u == disarmAlarm(t, a)
           IN  /\ u \in TimerType /\ u.latched = t.latched
               /\ \A b \in Alarm : AlarmTrue(u, b)
<1> DEFINE armed == t.armed \ {a}
           due == [t.due EXCEPT ![a] = Off]
           u == [t EXCEPT !.armed = armed, !.due = due]
<1>1. disarmAlarm(t, a) = u
  BY DEF disarmAlarm, TimerType
<1>2. /\ armed \in SUBSET Alarm /\ due \in [Alarm -> Int] /\ a \notin armed /\ due[a] = Off
      /\ \A b \in Alarm \ {a} : due[b] = t.due[b] /\ (b \in armed <=> b \in t.armed)
  BY DEF TimerType, Off
<1> HIDE DEF armed, due
<1>3. /\ u \in TimerType /\ u.armed = armed /\ u.due = due /\ u.target = t.target
      /\ u.latched = t.latched
  BY <1>2 DEF TimerType
<1> HIDE DEF u
<1>4. \A b \in Alarm : AlarmTrue(u, b)
  BY <1>2, <1>3 DEF AlarmTrue
<1> QED BY <1>1, <1>3, <1>4

\* The interrupts are computed from the raw ones.
LEMMA InterruptFacts ==
    ASSUME NEW t \in TimerType, \A b \in Alarm : AlarmTrue(t, b)
    PROVE  LET u == checkInterrupts(t)
           IN  /\ u \in TimerType /\ u.latched = t.latched
               /\ \A b \in Alarm : AlarmTrue(u, b)
<1> DEFINE irq == (t.intRaw \cap t.intEnable) \cup t.intForce
           u == [t EXCEPT !.irq = irq]
<1>1. irq \in SUBSET Alarm /\ checkInterrupts(t) = u
  BY DEF TimerType, checkInterrupts
<1> HIDE DEF irq
<1>2. /\ u \in TimerType /\ u.armed = t.armed /\ u.due = t.due /\ u.target = t.target
      /\ u.latched = t.latched
  BY <1>1 DEF TimerType
<1> HIDE DEF u
<1> QED BY <1>1, <1>2 DEF AlarmTrue

LEMMA WriteArmedStep == ASSUME MicroInv, WriteArmed PROVE MicroInv'
<1>1. PICK a \in Alarm : timer' = disarmAlarm(timer, a) /\ now' = now /\ reader' = reader
  BY DEF WriteArmed
<1>2. timer \in TimerType /\ \A b \in Alarm : AlarmTrue(timer, b)
  BY DEF MicroInv, MicroTypeOK
<1>3. /\ timer' \in TimerType /\ timer'.latched = timer.latched
      /\ \A b \in Alarm : AlarmTrue(timer', b)
  BY <1>1, <1>2, DisarmFacts
<1> QED BY <1>1, <1>3, TimerStep

LEMMA WriteInterruptsStep == ASSUME MicroInv, WriteInterrupts PROVE MicroInv'
<1>1. timer \in TimerType /\ \A b \in Alarm : AlarmTrue(timer, b)
  BY DEF MicroInv, MicroTypeOK
<1>2. PICK a \in Alarm : timer' \in {checkInterrupts(t) : t \in
           {[timer EXCEPT !.intRaw = @ \ {a}]} \cup
           {[timer EXCEPT !.intEnable = enabled] : enabled \in SUBSET Alarm} \cup
           {[timer EXCEPT !.intForce = forced] : forced \in {{}, {a}}}}
  BY DEF WriteInterrupts
<1>3. PICK t : /\ timer' = checkInterrupts(t)
               /\ \/ t = [timer EXCEPT !.intRaw = @ \ {a}]
                  \/ \E enabled \in SUBSET Alarm : t = [timer EXCEPT !.intEnable = enabled]
                  \/ \E forced \in {{}, {a}} : t = [timer EXCEPT !.intForce = forced]
  BY <1>2
<1>4. /\ t \in TimerType /\ t.armed = timer.armed /\ t.due = timer.due
      /\ t.target = timer.target /\ t.latched = timer.latched
  BY <1>1, <1>3 DEF TimerType
<1>5. \A b \in Alarm : AlarmTrue(t, b)
  BY <1>1, <1>4 DEF AlarmTrue
<1>6. /\ timer' \in TimerType /\ timer'.latched = timer.latched
      /\ \A b \in Alarm : AlarmTrue(timer', b)
  BY <1>3, <1>4, <1>5, InterruptFacts
<1>7. now' = now /\ reader' = reader
  BY DEF WriteInterrupts
<1> QED BY <1>6, <1>7, TimerStep

LEMMA FireStep == ASSUME MicroInv, NEW a \in Alarm, fireAlarm(a) PROVE MicroInv'
<1>1. timer \in TimerType /\ \A b \in Alarm : AlarmTrue(timer, b)
  BY DEF MicroInv, MicroTypeOK
<1> DEFINE due == [timer.due EXCEPT ![a] = Off]
           raw == timer.intRaw \cup {a}
           t == [timer EXCEPT !.due = due, !.intRaw = raw]
<1>2. timer' = checkInterrupts(disarmAlarm(t, a)) /\ now' = now /\ reader' = reader
  BY <1>1 DEF fireAlarm, TimerType
<1>3. /\ raw \in SUBSET Alarm /\ due \in [Alarm -> Int]
      /\ \A b \in Alarm \ {a} : due[b] = timer.due[b]
  BY <1>1 DEF TimerType, Off
<1> HIDE DEF due, raw
<1>4. /\ t \in TimerType /\ t.latched = timer.latched /\ t.armed = timer.armed /\ t.due = due
      /\ t.target = timer.target
  BY <1>1, <1>3 DEF TimerType
<1> HIDE DEF t
<1>5. \A b \in Alarm \ {a} : AlarmTrue(t, b)
  BY <1>1, <1>3, <1>4 DEF AlarmTrue
<1> DEFINE u == disarmAlarm(t, a)
<1>6. u \in TimerType /\ u.latched = t.latched /\ \A b \in Alarm : AlarmTrue(u, b)
  BY <1>4, <1>5, DisarmFacts
<1> HIDE DEF u
<1>7. timer' = checkInterrupts(u)
  BY <1>2 DEF u
<1>8. /\ timer' \in TimerType /\ timer'.latched = timer.latched
      /\ \A b \in Alarm : AlarmTrue(timer', b)
  BY <1>4, <1>6, <1>7, InterruptFacts
<1> QED BY <1>2, <1>8, TimerStep

LEMMA TimePassesStep == ASSUME MicroConstants, MicroInv, TimePasses PROVE MicroInv'
<1>1. now \in Nat /\ now' = now + 1 /\ timer' = timer /\ reader' = reader
  BY DEF MicroInv, MicroTypeOK, TimePasses
<1>2. now \div 2 <= (now + 1) \div 2 /\ now \div 2 \in Int /\ (now + 1) \div 2 \in Int
  BY <1>1, DivMonotone, DivMod
<1> DEFINE n == now \div 2
           m == now' \div 2
<1>3. n <= m /\ n \in Int /\ m \in Int
  BY <1>1, <1>2
<1>4. ASSUME NEW r \in ReaderType PROVE Times(r) \subseteq Times(r)'
  <2>1. r.since .. n \subseteq r.since .. m
    BY <1>3 DEF ReaderType
  <2> QED BY <1>1, <2>1 DEF Times
<1>5. reader["raw"] \in ReaderType /\ reader["latched"] \in ReaderType
  BY DEF MicroInv, MicroTypeOK, Readers
<1>6. RawTrue(reader["raw"])'
  <2>1. Times(reader["raw"]) \subseteq Times(reader["raw"])'
    BY <1>1, <1>4, <1>5 DEF Times
  <2> QED BY <1>1, <2>1 DEF MicroInv, RawTrue
<1>7. LatchedTrue(reader["latched"], timer.latched)'
  <2>1. Times(reader["latched"]) \subseteq Times(reader["latched"])'
    BY <1>1, <1>4, <1>5 DEF Times
  <2> QED BY <1>1, <2>1 DEF MicroInv, LatchedTrue
<1>8. ASSUME NEW a \in Alarm PROVE AlarmTrue(timer, a)'
  <2>1. AlarmTrue(timer, a) /\ timer.due[a] # now /\ timer.due[a] \in Int
        /\ timer.target[a] \in Nat /\ Half \in Nat
    BY DEF MicroInv, MicroTypeOK, TimerType, TimePasses, MicroConstants
  <2>2. CASE a \in timer.armed
    <3>1. PICK k \in Int, e \in {-1, 0, 1} :
              /\ timer.due[a] = 2 * timer.target[a] + 2 * (Half * k) + e
              /\ 2 * timer.target[a] + 2 * (Half * k) - 2 * Half + 1 < now
      BY <2>1, <2>2 DEF AlarmTrue, Aimed
    <3>2. now' <= timer.due[a]
      BY <1>1, <2>1, <2>2 DEF AlarmTrue, Aimed
    <3>3. Half * k \in Int
      BY <2>1
    <3>4. 2 * timer.target[a] + 2 * (Half * k) - 2 * Half + 1 < now'
      BY <1>1, <2>1, <3>1, <3>3
    <3> QED BY <1>1, <2>2, <3>1, <3>2, <3>4 DEF AlarmTrue, Aimed
  <2>3. CASE a \notin timer.armed
    BY <1>1, <2>1, <2>3 DEF AlarmTrue
  <2> QED BY <2>2, <2>3
<1>9. MicroTypeOK'
  BY <1>1 DEF MicroInv, MicroTypeOK
<1> QED BY <1>6, <1>7, <1>8, <1>9 DEF MicroInv

\* What a reader is after a read.
LEMMA ReadFacts ==
    ASSUME MicroConstants, MicroTypeOK, NEW r \in Readers, NEW at \in {"start", "low", "high", "done"},
           NEW low \in Nat, NEW high \in Nat, Read(r, at, low, high)
    PROVE  /\ now' = now /\ reader' \in [Readers -> ReaderType]
           /\ \A s \in Readers : s # r => reader'[s] = reader[s]
           /\ reader'[r].at = at /\ reader'[r].low = low /\ reader'[r].high = high
           /\ reader[r].at = "start" => Times(reader'[r]) = {now \div 2}
           /\ reader[r].at # "start" => Times(reader'[r]) = Times(reader[r])
           /\ now \div 2 \in Nat
<1> DEFINE since == IF reader[r].at = "start" THEN now \div 2 ELSE reader[r].since
           x == [at |-> at, low |-> low, high |-> high, since |-> since]
<1>1. now \in Nat /\ now \div 2 \in Nat /\ reader \in [Readers -> ReaderType]
  BY NowHalves DEF MicroTypeOK
<1>2. since \in Nat
  BY <1>1 DEF ReaderType
<1>3. reader' = [reader EXCEPT ![r] = x] /\ now' = now
  BY DEF Read
<1>4. /\ reader[r].at = "start" => since = now \div 2
      /\ reader[r].at # "start" => since = reader[r].since
  OBVIOUS
<1> HIDE DEF since
<1>5. x \in ReaderType /\ x.at = at /\ x.low = low /\ x.high = high /\ x.since = since
  BY <1>2 DEF ReaderType
<1> HIDE DEF x
<1>6. reader' \in [Readers -> ReaderType] /\ reader'[r] = x
      /\ \A s \in Readers : s # r => reader'[s] = reader[s]
  BY <1>1, <1>3, <1>5
<1>7. \A n \in Nat : n .. n = {n}
  OBVIOUS
<1> QED BY <1>1, <1>3, <1>4, <1>5, <1>6, <1>7 DEF Times

LEMMA IdleFacts ==
    ASSUME MicroTypeOK, NEW r \in Readers, reader' = [reader EXCEPT ![r] = Idle]
    PROVE  /\ reader' \in [Readers -> ReaderType] /\ reader'[r].at = "start"
           /\ \A s \in Readers : s # r => reader'[s] = reader[s]
<1>1. Idle \in ReaderType /\ Idle.at = "start"
  BY DEF Idle, ReaderType
<1> QED BY <1>1 DEF MicroTypeOK

LEMMA ReadRawStep == ASSUME MicroConstants, MicroInv, ReadRaw PROVE MicroInv'
<1> DEFINE r == reader["raw"]
           n == now \div 2
<1>1. MicroTypeOK /\ RawTrue(r) /\ LatchedTrue(reader["latched"], timer.latched)
      /\ "raw" \in Readers /\ "latched" \in Readers /\ r \in ReaderType
  BY DEF MicroInv, MicroTypeOK, Readers
<1>2. n \in Nat /\ Low = n % Half /\ High = n \div Half /\ Low \in Nat /\ High \in Nat
  BY <1>1, NowHalves DEF MicroTypeOK
<1>3. timer' = timer
  BY DEF ReadRaw
<1>4. SUFFICES now' = now /\ reader' \in [Readers -> ReaderType]
               /\ reader'["latched"] = reader["latched"] /\ RawTrue(reader'["raw"])
  BY <1>1, <1>3 DEF MicroInv, MicroTypeOK, RawTrue, LatchedTrue, Times, AlarmTrue, Aimed
<1>5. CASE r.at = "start"
  <2>1. Read("raw", "low", 0, High)
    BY <1>5 DEF ReadRaw
  <2>2. /\ now' = now /\ reader' \in [Readers -> ReaderType]
        /\ reader'["latched"] = reader["latched"]
        /\ reader'["raw"].at = "low" /\ reader'["raw"].high = High
        /\ Times(reader'["raw"]) = {n}
    BY <1>1, <1>2, <1>5, <2>1, ReadFacts, ZenonT(30)
  <2> QED BY <1>2, <2>2 DEF RawTrue
<1>6. CASE r.at = "low"
  <2>1. Read("raw", "high", Low, r.high)
    BY <1>6 DEF ReadRaw
  <2>2. r.high \in Nat /\ r.since \in Nat
    BY <1>1 DEF ReaderType
  <2>3. /\ now' = now /\ reader' \in [Readers -> ReaderType]
        /\ reader'["latched"] = reader["latched"]
        /\ reader'["raw"].at = "high" /\ reader'["raw"].low = Low
        /\ reader'["raw"].high = r.high /\ Times(reader'["raw"]) = Times(r)
    BY <1>1, <1>2, <1>6, <2>1, <2>2, ReadFacts
  <2>4. PICK p \in Times(r) : r.high = p \div Half
    BY <1>1, <1>6 DEF RawTrue
  <2>5. n \in Times(r) /\ p <= n
    BY <1>2, <2>2, <2>4 DEF Times
  <2> QED BY <1>2, <2>3, <2>4, <2>5 DEF RawTrue
<1>7. CASE r.at = "high"
  <2> DEFINE at == IF High = r.high THEN "done" ELSE "low"
  <2>1. Read("raw", at, r.low, High)
    BY <1>7 DEF ReadRaw
  <2>2. r.low \in Nat /\ r.since \in Nat /\ at \in {"start", "low", "high", "done"}
    BY <1>1 DEF ReaderType
  <2>3. (at = "done" <=> High = r.high) /\ at \in {"done", "low"}
    OBVIOUS
  <2> HIDE DEF at
  <2>4. /\ now' = now /\ reader' \in [Readers -> ReaderType]
        /\ reader'["latched"] = reader["latched"]
        /\ reader'["raw"].at = at /\ reader'["raw"].low = r.low
        /\ reader'["raw"].high = High /\ Times(reader'["raw"]) = Times(r)
    BY <1>1, <1>2, <1>7, <2>1, <2>2, ReadFacts
  <2>5. PICK p \in Times(r), q \in Times(r) : p <= q /\ r.high = p \div Half /\ r.low = q % Half
    BY <1>1, <1>7 DEF RawTrue
  <2>6. n \in Times(r) /\ p \in Nat /\ q \in Nat /\ q <= n
    BY <1>2, <2>2, <2>5 DEF Times
  <2>7. CASE at = "low"
    BY <1>2, <2>4, <2>6, <2>7 DEF RawTrue
  <2>8. CASE at = "done"
    <3>1. q \div Half = p \div Half
      BY <1>2, <2>3, <2>5, <2>6, <2>8, HighBetween
    <3>2. (q \div Half) * Half + (q % Half) = q
      BY <2>6, Halves
    <3>3. High * Half + r.low = q
      BY <2>3, <2>5, <2>8, <3>1, <3>2
    <3> QED BY <2>4, <2>5, <2>8, <3>3 DEF RawTrue
  <2> QED BY <2>3, <2>7, <2>8
<1>8. CASE r.at = "done"
  <2>1. reader' = [reader EXCEPT !["raw"] = Idle] /\ now' = now
    BY <1>8 DEF ReadRaw
  <2>2. /\ reader' \in [Readers -> ReaderType] /\ reader'["raw"].at = "start"
        /\ reader'["latched"] = reader["latched"]
    BY <1>1, <2>1, IdleFacts
  <2> QED BY <2>1, <2>2 DEF RawTrue
<1> QED BY <1>1, <1>5, <1>6, <1>7, <1>8 DEF ReaderType

LEMMA ReadLatchedStep == ASSUME MicroConstants, MicroInv, ReadLatched PROVE MicroInv'
<1> DEFINE r == reader["latched"]
           n == now \div 2
<1>1. MicroTypeOK /\ RawTrue(reader["raw"]) /\ LatchedTrue(r, timer.latched)
      /\ "raw" \in Readers /\ "latched" \in Readers /\ r \in ReaderType
      /\ timer \in TimerType /\ \A a \in Alarm : AlarmTrue(timer, a)
  BY DEF MicroInv, MicroTypeOK, Readers
<1>2. n \in Nat /\ Low = n % Half /\ High = n \div Half /\ Low \in Nat /\ High \in Nat
  BY <1>1, NowHalves DEF MicroTypeOK
<1>3. ASSUME now' = now, reader' \in [Readers -> ReaderType],
             reader'["raw"] = reader["raw"], timer' \in TimerType,
             timer'.armed = timer.armed, timer'.due = timer.due, timer'.target = timer.target,
             LatchedTrue(reader'["latched"], timer'.latched)
      PROVE  MicroInv'
  <2>1. \A a \in Alarm : AlarmTrue(timer, a)'
    BY <1>1, <1>3 DEF AlarmTrue, Aimed
  <2> QED BY <1>1, <1>3, <2>1 DEF MicroInv, MicroTypeOK, RawTrue, LatchedTrue, Times
<1>4. CASE r.at = "start"
  <2>1. Read("latched", "high", Low, 0) /\ timer' = [timer EXCEPT !.latched = High]
    BY <1>4 DEF ReadLatched
  <2>2. /\ now' = now /\ reader' \in [Readers -> ReaderType]
        /\ reader'["raw"] = reader["raw"]
        /\ reader'["latched"].at = "high" /\ reader'["latched"].low = Low
        /\ Times(reader'["latched"]) = {n}
    BY <1>1, <1>2, <1>4, <2>1, ReadFacts
  <2>3. /\ timer' \in TimerType /\ timer'.latched = High /\ timer'.armed = timer.armed
        /\ timer'.due = timer.due /\ timer'.target = timer.target
    BY <1>1, <1>2, <2>1 DEF TimerType
  <2>4. LatchedTrue(reader'["latched"], timer'.latched)
    BY <1>2, <2>2, <2>3 DEF LatchedTrue
  <2> QED BY <1>3, <2>2, <2>3, <2>4
<1>5. CASE r.at = "high"
  <2>1. Read("latched", "done", r.low, timer.latched) /\ timer' = timer
    BY <1>5 DEF ReadLatched
  <2>2. r.low \in Nat /\ timer.latched \in Nat /\ r.since \in Nat
    BY <1>1 DEF ReaderType, TimerType
  <2>3. /\ now' = now /\ reader' \in [Readers -> ReaderType]
        /\ reader'["raw"] = reader["raw"]
        /\ reader'["latched"].at = "done" /\ reader'["latched"].low = r.low
        /\ reader'["latched"].high = timer.latched /\ Times(reader'["latched"]) = Times(r)
    BY <1>1, <1>2, <1>5, <2>1, <2>2, ReadFacts
  <2>4. PICK p \in Times(r) : timer.latched = p \div Half /\ r.low = p % Half
    BY <1>1, <1>5 DEF LatchedTrue
  <2>5. p \in Nat
    BY <1>2, <2>2, <2>4 DEF Times
  <2>6. timer.latched * Half + r.low = p
    BY <2>4, <2>5, Halves
  <2>7. LatchedTrue(reader'["latched"], timer'.latched)
    BY <2>3, <2>4, <2>6 DEF LatchedTrue
  <2> QED BY <1>1, <1>3, <2>1, <2>3, <2>7
<1>6. CASE r.at = "done"
  <2>1. reader' = [reader EXCEPT !["latched"] = Idle] /\ now' = now /\ timer' = timer
    BY <1>6 DEF ReadLatched
  <2>2. /\ reader' \in [Readers -> ReaderType] /\ reader'["latched"].at = "start"
        /\ reader'["raw"] = reader["raw"]
    BY <1>1, <2>1, IdleFacts
  <2>3. LatchedTrue(reader'["latched"], timer'.latched)
    BY <2>2 DEF LatchedTrue
  <2> QED BY <1>1, <1>3, <2>1, <2>2, <2>3
<1> QED BY <1>1, <1>4, <1>5, <1>6 DEF LatchedTrue

LEMMA MicroBegins == ASSUME MicroInit PROVE MicroInv
<1>1. Idle \in ReaderType /\ Idle.at = "start"
  BY DEF Idle, ReaderType
<1>2. now = 0 /\ reader = [r \in Readers |-> Idle]
  BY DEF MicroInit, Readers
<1>3. timer \in TimerType /\ \A a \in Alarm : AlarmTrue(timer, a)
  BY DEF MicroInit, TimerType, Off, AlarmTrue
<1>4. reader["raw"] = Idle /\ reader["latched"] = Idle
  BY <1>2 DEF Readers
<1>5. MicroTypeOK
  BY <1>1, <1>2, <1>3 DEF MicroTypeOK
<1> QED BY <1>1, <1>3, <1>4, <1>5 DEF MicroInv, RawTrue, LatchedTrue

\* Wherever the clock is between the accesses of the readers, what they have read was
\* the time at moments of their reading, in their order; and just the alarms that are
\* armed are due, the next time their targets come up (timer.ts).
THEOREM MicroInvHolds == ASSUME MicroConstants PROVE MicroSpec => []MicroInv
<1>1. MicroInit => MicroInv
  BY MicroBegins
<1>2. MicroInv /\ [MicroNext]_microVars => MicroInv'
  <2> SUFFICES ASSUME MicroInv, [MicroNext]_microVars PROVE MicroInv'
    OBVIOUS
  <2>1. CASE UNCHANGED microVars
    BY <2>1 DEF microVars, MicroInv, MicroTypeOK, RawTrue, LatchedTrue, Times, AlarmTrue, Aimed
  <2> QED BY <2>1, WriteAlarmStep, WriteArmedStep, WriteInterruptsStep, FireStep,
             TimePassesStep, ReadRawStep, ReadLatchedStep DEF MicroNext
<1> QED BY <1>1, <1>2, PTL DEF MicroSpec

\* A 64-bit time put together from two halves is one the clock had while it was read,
\* for a half of any size: no carry goes unnoticed (timer.ts TIMERAWL, TIMELR).
THEOREM TimeAlwaysReadTrue == ASSUME MicroConstants PROVE MicroSpec => []TimeReadTrue
<1>1. MicroInv => TimeReadTrue
  <2> SUFFICES ASSUME MicroInv, NEW r \in DOMAIN reader, reader[r].at = "done"
               PROVE  reader[r].high * Half + reader[r].low \in reader[r].since .. now \div 2
    BY DEF TimeReadTrue
  <2>1. r \in {"raw", "latched"}
    BY DEF MicroInv, MicroTypeOK, Readers
  <2> QED BY <2>1 DEF MicroInv, RawTrue, LatchedTrue, Times
<1> QED BY <1>1, MicroInvHolds, PTL

\* What an alarm that is due the next time its target comes up says of the time since
\* then, for a counter that wraps: it is the time it is due, and until then it is not yet
\* past the target.
LEMMA SinceFacts ==
    ASSUME MicroConstants, NEW v \in Nat, NEW due \in Int, now \in Nat, Aimed(due, v)
    PROVE  /\ due = now => (now - 2 * v) % (2 * Half) \in {0, 1, 2 * Half - 1}
           /\ due # now => (now - 2 * v) % (2 * Half) # 1
<1> DEFINE m == 2 * Half
           y == now - 2 * v
<1>1. m \in Nat \ {0} /\ m >= 2 /\ y \in Int /\ Half \in Nat
  BY DEF MicroConstants
<1>2. PICK k \in Int, e \in {-1, 0, 1} :
          due = 2 * v + 2 * (Half * k) + e /\ 2 * v + 2 * (Half * k) - 2 * Half + 1 < now
  BY DEF Aimed
<1>3. m * k = 2 * (Half * k) /\ m * (k - 1) = m * k - m /\ m * k \in Int /\ k - 1 \in Int
  BY <1>1
<1>4. due - 2 * v = m * k + e /\ m * k - m + 1 < y /\ now <= due
  BY <1>1, <1>2, <1>3 DEF Aimed
<1>5. ASSUME due = now PROVE y % m \in {0, 1, m - 1}
  <2>1. y = m * k + e
    BY <1>4, <1>5
  <2> HIDE DEF m, y
  <2>2. CASE e \in {0, 1}
    <3>1. e \in 0 .. m - 1
      BY <1>1, <2>2
    <3>2. y % m = e
      BY <1>1, <2>1, <3>1, ModUnique
    <3> QED BY <2>2, <3>2
  <2>3. CASE e = -1
    <3>1. y = m * (k - 1) + (m - 1) /\ m - 1 \in 0 .. m - 1
      BY <1>1, <1>3, <2>1, <2>3
    <3>2. y % m = m - 1
      BY <1>1, <1>3, <3>1, ModUnique
    <3> QED BY <3>2
  <2> QED BY <2>2, <2>3
<1>6. ASSUME due # now, y % m = 1 PROVE FALSE
  <2> DEFINE j == y \div m
  <2>1. j \in Int /\ y = m * j + 1
    BY <1>1, <1>6, DivMod
  <2> HIDE DEF j
  <2>2. y < m * k + e
    BY <1>1, <1>4, <1>6
  <2> HIDE DEF m, y
  <2>3. m * (j - k) = m * j - m * k /\ j - k \in Int /\ m * j \in Int
    BY <1>1, <2>1
  <2>4. m * (j - k) < 0 /\ m * (j - k) > -m
    BY <1>1, <1>3, <1>4, <2>1, <2>2, <2>3
  <2> QED BY <1>1, <2>3, <2>4, MulFar
<1> QED BY <1>5, <1>6

\* An alarm that fires is armed, and less than a microsecond from its target; and one
\* that is armed fires before its target is left behind: however it was armed, moved
\* and disarmed, and for a counter of any width (timer.ts).
THEOREM AlarmsFireOnTime == ASSUME MicroConstants PROVE MicroSpec => FiresOnTime
<1> DEFINE OnTime(a) ==
              /\ fireAlarm(a) => a \in timer.armed /\ Since(a) \in {0, 1, 2 * Half - 1}
              /\ TimePasses /\ a \in timer.armed => Since(a) # 1
<1>1. MicroInv => \A a \in Alarm : OnTime(a)
  <2> SUFFICES ASSUME MicroInv, NEW a \in Alarm PROVE OnTime(a)
    OBVIOUS
  <2>1. /\ AlarmTrue(timer, a) /\ now \in Nat /\ timer.due[a] \in Int
        /\ timer.target[a] \in Nat
    BY DEF MicroInv, MicroTypeOK, TimerType
  <2>2. ASSUME fireAlarm(a) PROVE a \in timer.armed /\ Since(a) \in {0, 1, 2 * Half - 1}
    <3>1. timer.due[a] = now /\ now # Off
      BY <2>1, <2>2 DEF fireAlarm, Off
    <3>2. a \in timer.armed /\ Aimed(timer.due[a], timer.target[a])
      BY <2>1, <3>1 DEF AlarmTrue
    <3> QED BY <2>1, <3>1, <3>2, SinceFacts DEF Since
  <2>3. ASSUME TimePasses, a \in timer.armed PROVE Since(a) # 1
    <3>1. timer.due[a] # now /\ Aimed(timer.due[a], timer.target[a])
      BY <2>1, <2>3 DEF TimePasses, AlarmTrue
    <3> QED BY <2>1, <3>1, SinceFacts DEF Since
  <2> QED BY <2>2, <2>3
<1>2. MicroInv /\ [MicroNext]_microVars => [\A a \in Alarm : OnTime(a)]_microVars
  BY <1>1
<1> QED BY <1>2, MicroInvHolds, PTL DEF MicroSpec, FiresOnTime

-----------------------------------------------------------------------------
(* Serial: items that follow one another. *)

LEMMA Concatenated ==
    ASSUME NEW S, NEW f \in Seq(S), NEW g \in Seq(S)
    PROVE  /\ f \o g \in Seq(S) /\ Len(f \o g) = Len(f) + Len(g)
           /\ \A i \in 1 .. Len(f) : (f \o g)[i] = f[i]
           /\ \A i \in 1 .. Len(g) : (f \o g)[Len(f) + i] = g[i]
OBVIOUS

\* Two pieces follow one another when each does and the second goes on from the first.
LEMMA ConsecutivePieces ==
    ASSUME NEW f \in Seq(Nat), NEW g \in Seq(Nat), f # <<>>, g # <<>>
    PROVE  Consecutive(f \o g) <=>
               Consecutive(f) /\ Consecutive(g) /\ g[1] = f[Len(f)] + 1
<1> DEFINE h == f \o g
           n == Len(f)
           m == Len(g)
<1>1. /\ h \in Seq(Nat) /\ Len(h) = n + m /\ n \in Nat /\ m \in Nat /\ n >= 1 /\ m >= 1
      /\ \A i \in 1 .. n : h[i] = f[i]
      /\ \A i \in 1 .. m : h[n + i] = g[i]
  BY Concatenated
<1> HIDE DEF h, n, m
<1>2. ASSUME Consecutive(h)
      PROVE  Consecutive(f) /\ Consecutive(g) /\ g[1] = f[n] + 1
  <2>1. \A i \in 1 .. n - 1 : f[i + 1] = f[i] + 1
    <3> SUFFICES ASSUME NEW i \in 1 .. n - 1 PROVE f[i + 1] = f[i] + 1
      OBVIOUS
    <3>1. i \in 1 .. (n + m) - 1 /\ i \in 1 .. n /\ i + 1 \in 1 .. n
      BY <1>1
    <3>2. h[i + 1] = h[i] + 1
      BY <1>1, <1>2, <3>1 DEF Consecutive
    <3> QED BY <1>1, <3>1, <3>2
  <2>2. \A i \in 1 .. m - 1 : g[i + 1] = g[i] + 1
    <3> SUFFICES ASSUME NEW i \in 1 .. m - 1 PROVE g[i + 1] = g[i] + 1
      OBVIOUS
    <3>1. n + i \in 1 .. (n + m) - 1 /\ i \in 1 .. m /\ i + 1 \in 1 .. m /\ (n + i) + 1 = n + (i + 1)
      BY <1>1
    <3>2. h[(n + i) + 1] = h[n + i] + 1
      BY <1>1, <1>2, <3>1 DEF Consecutive
    <3> QED BY <1>1, <3>1, <3>2
  <2>3. g[1] = f[n] + 1
    <3>1. n \in 1 .. (n + m) - 1 /\ 1 \in 1 .. m /\ n \in 1 .. n
      BY <1>1
    <3>2. h[n + 1] = h[n] + 1
      BY <1>1, <1>2, <3>1 DEF Consecutive
    <3> QED BY <1>1, <3>1, <3>2
  <2> QED BY <2>1, <2>2, <2>3 DEF Consecutive, n, m
<1>3. ASSUME Consecutive(f), Consecutive(g), g[1] = f[n] + 1
      PROVE  Consecutive(h)
  <2> SUFFICES ASSUME NEW i \in 1 .. (n + m) - 1 PROVE h[i + 1] = h[i] + 1
    BY <1>1 DEF Consecutive
  <2>1. CASE i < n
    <3>1. i \in 1 .. n /\ i + 1 \in 1 .. n /\ i \in 1 .. n - 1
      BY <1>1, <2>1
    <3> QED BY <1>1, <1>3, <3>1 DEF Consecutive, n
  <2>2. CASE i = n
    <3>1. i \in 1 .. n /\ 1 \in 1 .. m
      BY <1>1, <2>2
    <3> QED BY <1>1, <1>3, <2>2, <3>1
  <2>3. CASE i > n
    <3>1. /\ i - n \in 1 .. m /\ (i - n) + 1 \in 1 .. m /\ i - n \in 1 .. m - 1
          /\ n + (i - n) = i /\ n + ((i - n) + 1) = i + 1
      BY <1>1, <2>3
    <3>2. g[(i - n) + 1] = g[i - n] + 1
      BY <1>3, <3>1 DEF Consecutive, m
    <3>3. h[n + (i - n)] = g[i - n] /\ h[n + ((i - n) + 1)] = g[(i - n) + 1]
      BY <1>1, <3>1
    <3> QED BY <3>1, <3>2, <3>3
  <2> QED BY <1>1, <2>1, <2>2, <2>3
<1> QED BY <1>2, <1>3 DEF h, n

LEMMA OneAlone == \A x \in Nat : Consecutive(<<x>>) /\ <<x>> \in Seq(Nat) /\ <<x>> # <<>>
BY DEF Consecutive

\* What comes next is sent; what comes first is taken.
LEMMA NextFollows ==
    ASSUME NEW f \in Seq(Nat), NEW t \in Seq(Nat), NEW n \in Nat, Consecutive((f \o t) \o <<n>>)
    PROVE  Consecutive((f \o Append(t, n)) \o <<n + 1>>)
<1> DEFINE g == (f \o t) \o <<n>>
<1>1. g \in Seq(Nat) /\ g # <<>> /\ g[Len(g)] = n
  OBVIOUS
<1>2. f \o Append(t, n) = g
  OBVIOUS
<1>3. <<n + 1>> \in Seq(Nat) /\ <<n + 1>> # <<>> /\ <<n + 1>>[1] = n + 1 /\ Consecutive(<<n + 1>>)
  BY OneAlone
<1>4. Consecutive(g)
  OBVIOUS
<1> HIDE DEF g
<1>5. Consecutive(g \o <<n + 1>>)
  BY <1>1, <1>3, <1>4, ConsecutivePieces
<1> QED BY <1>2, <1>5

\* It does not matter which of three pieces are joined first.
Associative(f, g, h) == (f \o g) \o h = f \o (g \o h)

LEMMA Associates == \A f, g, h \in Seq(Nat) : Associative(f, g, h)
BY DEF Associative

LEMMA Joined == \A f, g \in Seq(Nat) : f \o g \in Seq(Nat) /\ (g # <<>> => f \o g # <<>>)
OBVIOUS

FirstApart(f, g, h, t, l) ==
    /\ (((f \o g) \o h) \o t) \o l = f \o (((g \o h) \o t) \o l)
    /\ ((g \o h) \o t) \o l \in Seq(Nat) /\ ((g \o h) \o t) \o l # <<>>

LEMMA Regrouped ==
    \A f, g, h, t, l \in Seq(Nat) : l # <<>> => FirstApart(f, g, h, t, l)
<1> SUFFICES ASSUME NEW f \in Seq(Nat), NEW g \in Seq(Nat), NEW h \in Seq(Nat), NEW t \in Seq(Nat),
                    NEW l \in Seq(Nat), l # <<>>
             PROVE  FirstApart(f, g, h, t, l)
  OBVIOUS
<1>1. PICK gh \in Seq(Nat) : gh = g \o h
  BY Joined
<1>2. PICK ght \in Seq(Nat) : ght = gh \o t
  BY Joined
<1>3. Associative(f, g, h) /\ Associative(f, gh, t) /\ Associative(f, ght, l)
  BY Associates
<1>4. ght \o l \in Seq(Nat) /\ ght \o l # <<>>
  BY Joined
<1> QED BY <1>1, <1>2, <1>3, <1>4, Zenon DEF Associative, FirstApart

LEMMA Units ==
    /\ <<>> \o <<>> = <<>> /\ <<0>> \o <<>> = <<0>> /\ <<>> \o <<1>> = <<1>>
    /\ Consecutive(<<1>>) /\ Consecutive(<<0>> \o <<1>>) /\ 0 + 1 = 1
<1>1. <<1>> \in Seq(Nat) /\ \A t \in Seq(Nat) : <<>> \o t = t
  OBVIOUS
<1>2. <<>> \o <<>> = <<>>
  OBVIOUS
<1>3. <<0>> \o <<>> = <<0>>
  OBVIOUS
<1>4. Consecutive(<<1>>) /\ Consecutive(<<0>> \o <<1>>)
  <2>1. <<0>>[Len(<<0>>)] = 0 /\ <<1>>[1] = 0 + 1
    OBVIOUS
  <2> QED BY <2>1, OneAlone, ConsecutivePieces
<1>5. 0 + 1 = 1
  OBVIOUS
<1> QED BY <1>1, <1>2, <1>3, <1>4, <1>5, Zenon

LEMMA RestFollows ==
    ASSUME NEW x \in Nat, NEW g \in Seq(Nat), g # <<>>, Consecutive(<<x>> \o g)
    PROVE  Consecutive(g)
BY OneAlone, ConsecutivePieces

LEMMA HeadMoves ==
    ASSUME NEW S, NEW f \in Seq(S), NEW t \in Seq(S), t # <<>>
    PROVE  /\ (f \o <<>>) \o t = (f \o <<Head(t)>>) \o Tail(t)
           /\ <<>> \o t = <<Head(t)>> \o Tail(t)
           /\ <<Head(t)>> \o Tail(t) = t
OBVIOUS

-----------------------------------------------------------------------------
(* Serial: the SPI. *)

Byte == Nat \ {0}

SpiObjects ==
    [tx : Seq(Byte), rx : Seq(Byte), wire : Nat, raw : SUBSET {"TX", "RX", "ROR"},
     enable : SUBSET {"TX", "RX", "ROR"}, line : BOOLEAN, dreqTx : BOOLEAN, dreqRx : BOOLEAN,
     written : Nat, got : Nat, overrun : BOOLEAN]

\* The byte under way, if there is one.
OnWire(s) == IF s.wire = 0 THEN <<>> ELSE <<s.wire>>

SpiOut(s) == (OnWire(s) \o s.tx) \o <<s.written + 1>>
SpiAll(s) == (((<<s.got>> \o s.rx) \o OnWire(s)) \o s.tx) \o <<s.written + 1>>

SpiStreams(s) ==
    /\ Consecutive(SpiOut(s))
    /\ s.overrun = FALSE => Consecutive(SpiAll(s))

\* The line follows the interrupts, but for an overrun that comes alone.
SpiLine(s) ==
    /\ Status(s) \ {"ROR"} # {} => s.line = TRUE
    /\ s.line = TRUE => Status(s) # {}

SpiRequests(s) == s.dreqTx = Room(s.tx) /\ s.dreqRx = (s.rx # <<>>)

\* What holds in the middle of a transmission as well.
SpiGood(s) == s \in SpiObjects /\ SpiStreams(s) /\ SpiLine(s)

LEMMA Updated ==
    ASSUME NEW s, SpiGood(s)
    PROVE  /\ SpiGood(fifosUpdated(s)) /\ SpiRequests(fifosUpdated(s))
           /\ fifosUpdated(s).tx = s.tx /\ fifosUpdated(s).rx = s.rx
           /\ fifosUpdated(s).wire = s.wire
<1> DEFINE raw == (s.raw \ {"TX", "RX"}) \cup (IF 2 * Len(s.tx) <= FifoDepth THEN {"TX"} ELSE {})
                      \cup (IF 2 * Len(s.rx) >= FifoDepth THEN {"RX"} ELSE {})
           new == [s EXCEPT !.raw = raw]
           due == Status(new) # {}
           up == IF Status(new) # Status(s) THEN due ELSE s.line
           room == Room(s.tx)
           some == s.rx # <<>>
           q == [new EXCEPT !.line = up, !.dreqTx = room, !.dreqRx = some]
<1>1. s \in SpiObjects /\ raw \in SUBSET {"TX", "RX", "ROR"} /\ s.line \in BOOLEAN
  BY DEF SpiGood, SpiObjects
<1>2. due \in BOOLEAN /\ room \in BOOLEAN /\ some \in BOOLEAN
  BY DEF Room
<1>3. fifosUpdated(s) = [(IF Status(new) # Status(s) THEN [new EXCEPT !.line = due] ELSE new)
                             EXCEPT !.dreqTx = room, !.dreqRx = some]
  BY DEF fifosUpdated, interruptsChecked
<1>4. Status(new) = raw \cap s.enable
  BY <1>1 DEF Status, SpiObjects
<1> HIDE DEF raw, due, room, some
<1>5. up \in BOOLEAN
  BY <1>1, <1>2
<1>6. fifosUpdated(s) = q
  BY <1>1, <1>2, <1>3 DEF SpiObjects
<1> HIDE DEF up
<1>7. /\ q \in SpiObjects /\ q.tx = s.tx /\ q.rx = s.rx /\ q.wire = s.wire /\ q.raw = raw
      /\ q.enable = s.enable /\ q.line = up /\ q.dreqTx = room /\ q.dreqRx = some
      /\ q.written = s.written /\ q.got = s.got /\ q.overrun = s.overrun
  BY <1>1, <1>2, <1>5 DEF SpiObjects
<1>8. Status(q) = raw \cap s.enable
  BY <1>7 DEF Status
<1> HIDE DEF q
<1>9. SpiLine(q)
  <2>1. CASE Status(new) # Status(s)
    <3>1. q.line = (Status(q) # {})
      BY <1>4, <1>7, <1>8, <2>1 DEF up, due
    <3> QED BY <3>1 DEF SpiLine
  <2>2. CASE Status(new) = Status(s)
    <3>1. q.line = s.line /\ Status(q) = Status(s)
      BY <1>4, <1>7, <1>8, <2>2 DEF up
    <3> QED BY <3>1 DEF SpiGood, SpiLine
  <2> QED BY <2>1, <2>2
<1>10. SpiStreams(q)
  BY <1>7 DEF SpiGood, SpiStreams, SpiOut, SpiAll, OnWire
<1>11. SpiRequests(q)
  BY <1>7 DEF SpiRequests, room, some
<1> QED BY <1>6, <1>7, <1>9, <1>10, <1>11 DEF SpiGood

\* A byte goes onto the wire.
LEMMA PulledFacts ==
    ASSUME NEW s, SpiGood(s), s.wire = 0, s.tx # <<>>
    PROVE  /\ SpiGood(pulled(s)) /\ pulled(s).wire # 0 /\ pulled(s).tx = Tail(s.tx)
<1> DEFINE q == pulled(s)
<1>1. s \in SpiObjects /\ s.tx \in Seq(Byte) /\ s.rx \in Seq(Byte) /\ s.got \in Nat /\ s.written \in Nat
  BY DEF SpiGood, SpiObjects
<1>2. Head(s.tx) \in Byte /\ Tail(s.tx) \in Seq(Byte)
  BY <1>1, HeadTailProperties
<1>3. /\ q \in SpiObjects /\ q.tx = Tail(s.tx) /\ q.wire = Head(s.tx) /\ q.rx = s.rx
      /\ q.got = s.got /\ q.written = s.written /\ q.overrun = s.overrun
      /\ q.raw = s.raw /\ q.enable = s.enable /\ q.line = s.line
  BY <1>1, <1>2 DEF pulled, SpiObjects, Byte
<1> HIDE DEF q
<1>4. OnWire(s) = <<>> /\ OnWire(q) = <<Head(s.tx)>> /\ q.wire # 0
  BY <1>2, <1>3 DEF OnWire, Byte
<1>5. SpiOut(q) = SpiOut(s)
  BY <1>1, <1>3, <1>4, HeadMoves, ZenonT(30) DEF SpiOut
<1>6. SpiAll(q) = SpiAll(s)
  <2>1. <<s.got>> \o s.rx \in Seq(Nat) /\ s.tx \in Seq(Nat)
    BY <1>1 DEF Byte
  <2>2. ((<<s.got>> \o s.rx) \o <<>>) \o s.tx = ((<<s.got>> \o s.rx) \o <<Head(s.tx)>>) \o Tail(s.tx)
    BY <2>1, HeadMoves
  <2> QED BY <1>3, <1>4, <2>2 DEF SpiAll
<1>7. SpiStreams(q) /\ SpiLine(q)
  BY <1>3, <1>5, <1>6 DEF SpiGood, SpiStreams, SpiLine, Status
<1> QED BY <1>3, <1>4, <1>7 DEF SpiGood, q

\* The device answers with the byte it was sent, or finds the FIFO full.
LEMMA AnsweredFacts ==
    ASSUME NEW s, SpiGood(s), s.wire # 0
    PROVE  /\ SpiGood(answered(s)) /\ SpiRequests(answered(s))
           /\ answered(s).wire = 0 /\ answered(s).tx = s.tx
<1>1. /\ s \in SpiObjects /\ s.tx \in Seq(Byte) /\ s.rx \in Seq(Byte) /\ s.got \in Nat
      /\ s.written \in Nat /\ s.wire \in Byte /\ s.raw \in SUBSET {"TX", "RX", "ROR"}
  BY DEF SpiGood, SpiObjects, Byte
<1>2. OnWire(s) = <<s.wire>> /\ s.tx \in Seq(Nat) /\ <<s.got>> \o s.rx \in Seq(Nat)
  BY <1>1 DEF OnWire, Byte
<1>3. Consecutive((<<>> \o s.tx) \o <<s.written + 1>>)
  <2>1. Consecutive((<<s.wire>> \o s.tx) \o <<s.written + 1>>)
    BY <1>2 DEF SpiGood, SpiStreams, SpiOut
  <2>2. /\ (<<s.wire>> \o s.tx) \o <<s.written + 1>> = <<s.wire>> \o (s.tx \o <<s.written + 1>>)
        /\ s.tx \o <<s.written + 1>> \in Seq(Nat) /\ s.tx \o <<s.written + 1>> # <<>>
        /\ <<>> \o s.tx = s.tx /\ s.wire \in Nat
    <3>1. \A x, n \in Nat, t \in Seq(Nat) :
              /\ (<<x>> \o t) \o <<n>> = <<x>> \o (t \o <<n>>)
              /\ t \o <<n>> \in Seq(Nat) /\ t \o <<n>> # <<>> /\ <<>> \o t = t
      OBVIOUS
    <3>2. s.wire \in Nat /\ s.written + 1 \in Nat /\ s.tx \in Seq(Nat)
      BY <1>1, <1>2 DEF Byte
    <3> QED BY <3>1, <3>2
  <2> QED BY <2>1, <2>2, RestFollows
<1>4. CASE Room(s.rx)
  <2> DEFINE q == [s EXCEPT !.rx = Append(@, s.wire), !.wire = 0]
  <2>1. /\ q \in SpiObjects /\ q.tx = s.tx /\ q.wire = 0 /\ q.rx = Append(s.rx, s.wire)
        /\ q.got = s.got /\ q.written = s.written /\ q.overrun = s.overrun
        /\ q.raw = s.raw /\ q.enable = s.enable /\ q.line = s.line
    <3>1. PICK more \in Seq(Byte) : more = Append(s.rx, s.wire)
      <4>1. \A t \in Seq(Byte), w \in Byte : Append(t, w) \in Seq(Byte)
        OBVIOUS
      <4> QED BY <1>1, <4>1
    <3>2. q = [s EXCEPT !.rx = more, !.wire = 0]
      BY <3>1
    <3> HIDE DEF q
    <3> QED BY <1>1, <3>1, <3>2 DEF SpiObjects
  <2>2. answered(s) = fifosUpdated(q)
    BY <1>4 DEF answered
  <2> HIDE DEF q
  <2>3. OnWire(q) = <<>>
    BY <2>1 DEF OnWire
  <2>4. (<<s.got>> \o Append(s.rx, s.wire)) \o <<>> = (<<s.got>> \o s.rx) \o <<s.wire>>
    BY <1>1, SMTT(20)
  <2>5. SpiAll(q) = SpiAll(s)
    BY <1>2, <2>1, <2>3, <2>4 DEF SpiAll
  <2>6. SpiStreams(q) /\ SpiLine(q)
    BY <1>3, <2>1, <2>3, <2>5 DEF SpiGood, SpiStreams, SpiLine, Status, SpiOut
  <2>7. SpiGood(q)
    BY <2>1, <2>6 DEF SpiGood
  <2> QED BY <2>1, <2>2, <2>7, Updated
<1>5. CASE ~Room(s.rx)
  <2> DEFINE q == [s EXCEPT !.raw = @ \cup {"ROR"}, !.wire = 0, !.overrun = TRUE]
  <2>1. /\ q \in SpiObjects /\ q.tx = s.tx /\ q.wire = 0 /\ q.rx = s.rx
        /\ q.got = s.got /\ q.written = s.written /\ q.overrun = TRUE
        /\ q.raw = s.raw \cup {"ROR"} /\ q.enable = s.enable /\ q.line = s.line
    BY <1>1 DEF SpiObjects
  <2>2. answered(s) = fifosUpdated(q)
    BY <1>5 DEF answered
  <2> HIDE DEF q
  <2>3. OnWire(q) = <<>>
    BY <2>1 DEF OnWire
  <2>4. SpiStreams(q)
    BY <1>3, <2>1, <2>3 DEF SpiStreams, SpiOut
  <2>5. SpiLine(q)
    BY <2>1 DEF SpiGood, SpiLine, Status
  <2>6. SpiGood(q)
    BY <2>1, <2>4, <2>5 DEF SpiGood
  <2> QED BY <2>1, <2>2, <2>6, Updated
<1> QED BY <1>4, <1>5

\* Every non-empty set of naturals has a least element.
LEMMA LeastNumber ==
    ASSUME NEW T \in SUBSET Nat, T # {}
    PROVE  \E n \in T : \A m \in T : n <= m
<1> DEFINE Less == {ss \in Nat \X Nat : ss[1] < ss[2]}
<1>1. IsWellFoundedOn(Less, Nat)
  BY NatLessThanWellFounded DEF OpToRel
<1>2. \A n, m \in Nat : <<m, n>> \notin Less => n <= m
  OBVIOUS
<1> HIDE DEF Less
<1>3. PICK n \in T : \A m \in T : <<m, n>> \notin Less
  BY <1>1, WFMin, Zenon
<1>4. QED
  BY <1>2, <1>3

\* b holds what is left of s after each of the first n answers.
Answers(s, n, b) ==
    b = [i \in 0 .. n |-> IF i = 0 THEN s ELSE answered(pulled(b[i - 1]))]

LEMMA AnswersExist == \A s : \A n \in Nat : \E b : Answers(s, n, b)
<1> SUFFICES ASSUME NEW s PROVE \A n \in Nat : \E b : Answers(s, n, b)
  OBVIOUS
<1> DEFINE Bad == {n \in Nat : ~\E b : Answers(s, n, b)}
<1> SUFFICES ASSUME Bad # {} PROVE FALSE
  OBVIOUS
<1>1. PICK n \in Bad : \A m \in Bad : n <= m
  <2>1. Bad \in SUBSET Nat
    OBVIOUS
  <2> HIDE DEF Bad
  <2> QED BY <2>1, LeastNumber
<1>2. n \in Nat /\ ~\E b : Answers(s, n, b)
  OBVIOUS
<1>3. CASE n = 0
  <2> DEFINE b == [i \in 0 .. 0 |-> s]
  <2>1. Answers(s, n, b)
    BY <1>3 DEF Answers
  <2> QED BY <1>2, <2>1
<1>4. CASE n # 0
  <2>1. n - 1 \in Nat /\ n - 1 \notin Bad
    BY <1>1, <1>2, <1>4
  <2>2. PICK a : Answers(s, n - 1, a)
    BY <2>1
  <2> DEFINE b == [i \in 0 .. n |-> IF i = n THEN answered(pulled(a[n - 1])) ELSE a[i]]
  <2>3. \A i \in 0 .. n - 1 : a[i] = IF i = 0 THEN s ELSE answered(pulled(a[i - 1]))
    BY <2>2 DEF Answers
  <2>4. \A i \in 0 .. n : b[i] = IF i = 0 THEN s ELSE answered(pulled(b[i - 1]))
    <3> SUFFICES ASSUME NEW i \in 0 .. n
                 PROVE  b[i] = IF i = 0 THEN s ELSE answered(pulled(b[i - 1]))
      OBVIOUS
    <3>1. CASE i = n
      <4>1. b[i - 1] = a[n - 1]
        BY <1>2, <1>4, <3>1
      <4> QED BY <1>2, <1>4, <3>1, <4>1
    <3>2. CASE i # n
      <4>1. b[i] = a[i] /\ i \in 0 .. n - 1 /\ (i # 0 => b[i - 1] = a[i - 1])
        BY <1>2, <3>2
      <4> QED BY <2>3, <4>1
    <3> QED BY <3>1, <3>2
  <2>5. Answers(s, n, b)
    <3>1. b = [i \in 0 .. n |-> b[i]]
      OBVIOUS
    <3> HIDE DEF b
    <3> QED BY <2>4, <3>1 DEF Answers
  <2> QED BY <1>2, <2>5
<1> QED BY <1>3, <1>4

LEMMA AnsweredInTurn ==
    ASSUME NEW s, SpiGood(s), NEW k \in Nat, k = 0 \/ s.wire = 0, k <= Len(s.tx),
           NEW b, Answers(s, k, b)
    PROVE  /\ SpiGood(b[k]) /\ (s.wire = 0 => b[k].wire = 0)
           /\ b[0] = s /\ (k # 0 => SpiRequests(b[k]))
<1> DEFINE Fine(i) == /\ SpiGood(b[i]) /\ (s.wire = 0 => b[i].wire = 0)
                      /\ (i # 0 => SpiRequests(b[i])) /\ Len(b[i].tx) = Len(s.tx) - i
           Bad == {i \in 0 .. k : ~Fine(i)}
<1>1. \A i \in 0 .. k : b[i] = IF i = 0 THEN s ELSE answered(pulled(b[i - 1]))
  BY DEF Answers
<1>2. s.tx \in Seq(Byte)
  BY DEF SpiGood, SpiObjects
<1>3. b[0] = s /\ Fine(0)
  BY <1>1, <1>2
<1>4. Bad = {}
  <2> SUFFICES ASSUME Bad # {} PROVE FALSE
    OBVIOUS
  <2>1. PICK i \in Bad : \A j \in Bad : i <= j
    <3>1. Bad \in SUBSET Nat
      OBVIOUS
    <3> HIDE DEF Bad
    <3> QED BY <3>1, LeastNumber
  <2>2. i \in 0 .. k /\ ~Fine(i)
    OBVIOUS
  <2> HIDE DEF Fine
  <2>3. i # 0 /\ i - 1 \in 0 .. k /\ i - 1 \notin Bad
    BY <1>3, <2>1, <2>2
  <2>4. Fine(i - 1)
    BY <2>3
  <2> DEFINE c == b[i - 1]
  <2>5. b[i] = answered(pulled(c))
    BY <1>1, <2>2, <2>3
  <2>6. SpiGood(c) /\ c.wire = 0 /\ Len(c.tx) = Len(s.tx) - (i - 1) /\ c.tx \in Seq(Byte)
    BY <2>3, <2>4 DEF Fine, SpiGood, SpiObjects
  <2> HIDE DEF c
  <2>7. c.tx # <<>> /\ Len(Tail(c.tx)) = Len(s.tx) - i
    BY <1>2, <2>2, <2>3, <2>6, SMTT(20)
  <2>8. SpiGood(pulled(c)) /\ pulled(c).wire # 0 /\ pulled(c).tx = Tail(c.tx)
    BY <2>6, <2>7, PulledFacts
  <2>9. /\ SpiGood(b[i]) /\ SpiRequests(b[i]) /\ b[i].wire = 0 /\ b[i].tx = Tail(c.tx)
    BY <2>5, <2>8, AnsweredFacts
  <2> QED BY <2>2, <2>7, <2>9 DEF Fine
<1>5. Fine(k)
  BY <1>4
<1> QED BY <1>3, <1>5

\* The transmission that is begun, whatever the device answers at once.
LEMMA TransmitFacts ==
    ASSUME NEW s, SpiGood(s), NEW k \in AtOnce(s)
    PROVE  SpiGood(doTX(s, k)) /\ (SpiRequests(s) => SpiRequests(doTX(s, k)))
<1>1. s.tx \in Seq(Byte)
  BY DEF SpiGood, SpiObjects
<1>2. k \in Nat /\ (k = 0 \/ s.wire = 0) /\ k <= Len(s.tx)
  BY <1>1 DEF AtOnce
<1> DEFINE b == CHOOSE b : Answers(s, k, b)
           last == b[k]
<1>3. Answers(s, k, b)
  BY <1>2, AnswersExist
<1>4. doTX(s, k) = IF last.wire = 0 /\ last.tx # <<>> THEN fifosUpdated(pulled(last)) ELSE last
  BY DEF doTX, Answers
<1> HIDE DEF b
<1>5. /\ SpiGood(last) /\ b[0] = s /\ (k # 0 => SpiRequests(last))
  BY <1>2, <1>3, AnsweredInTurn
<1> HIDE DEF last
<1>6. CASE last.wire = 0 /\ last.tx # <<>>
  BY <1>4, <1>5, <1>6, PulledFacts, Updated
<1>7. CASE ~(last.wire = 0 /\ last.tx # <<>>)
  <2>1. SpiRequests(s) => SpiRequests(last)
    BY <1>5 DEF last
  <2> QED BY <1>4, <1>5, <1>7, <2>1
<1> QED BY <1>6, <1>7

LEMMA WriteDRStep ==
    ASSUME SpiGood(spi), WriteSSPDR
    PROVE  SpiGood(spi') /\ SpiRequests(spi')
<1> DEFINE s == [spi EXCEPT !.tx = Append(@, spi.written + 1), !.written = @ + 1]
<1>1. PICK k \in AtOnce(s) : spi' = fifosUpdated(doTX(s, k))
  BY DEF WriteSSPDR
<1>2. /\ spi \in SpiObjects /\ spi.tx \in Seq(Byte) /\ spi.rx \in Seq(Byte) /\ spi.got \in Nat
      /\ spi.written \in Nat /\ spi.wire \in Nat
  BY DEF SpiGood, SpiObjects
<1>3. PICK more \in Seq(Byte), n \in Nat :
          more = Append(spi.tx, spi.written + 1) /\ n = spi.written + 1
  <2>1. \A t \in Seq(Byte), w \in Nat : Append(t, w + 1) \in Seq(Byte) /\ w + 1 \in Nat
    BY DEF Byte
  <2> QED BY <1>2, <2>1
<1>4. s = [spi EXCEPT !.tx = more, !.written = n]
  BY <1>3
<1> HIDE DEF s
<1>5. /\ s \in SpiObjects /\ s.tx = more /\ s.written = n /\ s.rx = spi.rx /\ s.wire = spi.wire
      /\ s.got = spi.got /\ s.overrun = spi.overrun
      /\ s.raw = spi.raw /\ s.enable = spi.enable /\ s.line = spi.line
  BY <1>2, <1>3, <1>4 DEF SpiObjects
<1>6. OnWire(s) = OnWire(spi) /\ OnWire(spi) \in Seq(Nat) /\ spi.tx \in Seq(Nat)
      /\ (<<spi.got>> \o spi.rx) \o OnWire(spi) \in Seq(Nat)
  BY <1>2, <1>5 DEF OnWire, Byte
<1>7. Consecutive(SpiOut(s))
  BY <1>3, <1>5, <1>6, NextFollows DEF SpiGood, SpiStreams, SpiOut
<1>8. s.overrun = FALSE => Consecutive(SpiAll(s))
  BY <1>3, <1>5, <1>6, NextFollows DEF SpiGood, SpiStreams, SpiAll
<1>9. SpiGood(s)
  BY <1>5, <1>7, <1>8 DEF SpiGood, SpiStreams, SpiLine, Status
<1> QED BY <1>1, <1>9, TransmitFacts, Updated

LEMMA TransmitStep ==
    ASSUME SpiGood(spi), completeTransmit
    PROVE  SpiGood(spi') /\ SpiRequests(spi')
<1>1. PICK k \in AtOnce(answered(spi)) : spi' = doTX(answered(spi), k)
  BY DEF completeTransmit
<1>2. SpiGood(answered(spi)) /\ SpiRequests(answered(spi))
  BY AnsweredFacts DEF completeTransmit
<1> QED BY <1>1, <1>2, TransmitFacts

LEMMA ReadDRStep ==
    ASSUME SpiGood(spi), ReadSSPDR
    PROVE  SpiGood(spi') /\ SpiRequests(spi')
<1> DEFINE s == [spi EXCEPT !.rx = Tail(@), !.got = Head(spi.rx)]
<1>1. spi' = fifosUpdated(s) /\ spi.rx # <<>>
  BY DEF ReadSSPDR
<1>2. /\ spi \in SpiObjects /\ spi.tx \in Seq(Byte) /\ spi.rx \in Seq(Byte) /\ spi.got \in Nat
      /\ spi.written \in Nat /\ spi.wire \in Nat
  BY DEF SpiGood, SpiObjects
<1>3. Head(spi.rx) \in Byte /\ Head(spi.rx) \in Nat /\ Tail(spi.rx) \in Seq(Byte)
  BY <1>1, <1>2, HeadTailProperties DEF Byte
<1>4. /\ s \in SpiObjects /\ s.rx = Tail(spi.rx) /\ s.got = Head(spi.rx) /\ s.tx = spi.tx
      /\ s.written = spi.written /\ s.wire = spi.wire /\ s.overrun = spi.overrun
      /\ s.raw = spi.raw /\ s.enable = spi.enable /\ s.line = spi.line
  BY <1>2, <1>3 DEF SpiObjects
<1> HIDE DEF s
<1>5. OnWire(s) = OnWire(spi) /\ OnWire(spi) \in Seq(Nat) /\ spi.tx \in Seq(Nat) /\ spi.rx \in Seq(Nat)
  BY <1>2, <1>4 DEF OnWire, Byte
<1>6. SpiOut(s) = SpiOut(spi)
  BY <1>4, <1>5 DEF SpiOut
<1>7. s.overrun = FALSE => Consecutive(SpiAll(s))
  <2> SUFFICES ASSUME s.overrun = FALSE PROVE Consecutive(SpiAll(s))
    OBVIOUS
  <2>1. Consecutive(SpiAll(spi))
    BY <1>4 DEF SpiGood, SpiStreams
  <2>2. <<s.got>> \o s.rx = spi.rx
    BY <1>1, <1>4, <1>5, HeadMoves
  <2> DEFINE rest == ((spi.rx \o OnWire(spi)) \o spi.tx) \o <<spi.written + 1>>
  <2>3. SpiAll(s) = rest
    BY <1>4, <1>5, <2>2 DEF SpiAll
  <2>4. SpiAll(spi) = <<spi.got>> \o rest /\ rest \in Seq(Nat) /\ rest # <<>>
    <3> DEFINE one == <<spi.got>>
               last == <<spi.written + 1>>
               w == OnWire(spi)
    <3>1. one \in Seq(Nat) /\ last \in Seq(Nat) /\ last # <<>> /\ w \in Seq(Nat)
      BY <1>2, <1>5
    <3>2. SpiAll(spi) = (((one \o spi.rx) \o w) \o spi.tx) \o last
      BY DEF SpiAll
    <3>3. rest = ((spi.rx \o w) \o spi.tx) \o last
      OBVIOUS
    <3> HIDE DEF one, w, last, rest
    <3>4. FirstApart(one, spi.rx, w, spi.tx, last)
      BY <1>5, <3>1, Regrouped
    <3> QED BY <3>2, <3>3, <3>4, Zenon DEF one, FirstApart
  <2> HIDE DEF rest
  <2> QED BY <1>2, <2>1, <2>3, <2>4, RestFollows
<1>8. SpiGood(s)
  BY <1>4, <1>6, <1>7 DEF SpiGood, SpiStreams, SpiLine, Status
<1> QED BY <1>1, <1>8, Updated

LEMMA MaskStep ==
    ASSUME SpiGood(spi), SpiRequests(spi), WriteSSPIMSC \/ WriteSSPICR
    PROVE  SpiGood(spi') /\ SpiRequests(spi')
<1>1. PICK raw \in SUBSET {"TX", "RX", "ROR"}, enable \in SUBSET {"TX", "RX", "ROR"} :
          spi' = interruptsChecked([spi EXCEPT !.raw = raw, !.enable = enable])
  <2>1. spi \in SpiObjects /\ spi.raw \in SUBSET {"TX", "RX", "ROR"}
        /\ spi.enable \in SUBSET {"TX", "RX", "ROR"}
    BY DEF SpiGood, SpiObjects
  <2>2. CASE WriteSSPIMSC
    <3>1. PICK enable \in SUBSET {"TX", "RX", "ROR"} :
              spi' = interruptsChecked([spi EXCEPT !.enable = enable])
      BY <2>2 DEF WriteSSPIMSC
    <3>2. [spi EXCEPT !.enable = enable] = [spi EXCEPT !.raw = spi.raw, !.enable = enable]
      BY <2>1, <3>1 DEF SpiObjects
    <3> QED BY <2>1, <3>1, <3>2
  <2>3. CASE WriteSSPICR
    <3>1. spi' = interruptsChecked([spi EXCEPT !.raw = @ \ {"ROR"}])
      BY <2>3 DEF WriteSSPICR
    <3>2. [spi EXCEPT !.raw = @ \ {"ROR"}] = [spi EXCEPT !.raw = spi.raw \ {"ROR"}, !.enable = spi.enable]
      BY <2>1 DEF SpiObjects
    <3> QED BY <2>1, <3>1, <3>2
  <2> QED BY <2>2, <2>3
<1> DEFINE s == [spi EXCEPT !.raw = raw, !.enable = enable]
           due == Status(s) # {}
           q == [s EXCEPT !.line = due]
<1>2. spi \in SpiObjects /\ due \in BOOLEAN /\ spi' = q
  BY <1>1 DEF interruptsChecked, SpiGood
<1>3. Status(s) = raw \cap enable
  BY <1>2 DEF Status, SpiObjects
<1> HIDE DEF due
<1>4. /\ q \in SpiObjects /\ q.tx = spi.tx /\ q.rx = spi.rx /\ q.wire = spi.wire
      /\ q.raw = raw /\ q.enable = enable /\ q.line = due
      /\ q.dreqTx = spi.dreqTx /\ q.dreqRx = spi.dreqRx
      /\ q.written = spi.written /\ q.got = spi.got /\ q.overrun = spi.overrun
  BY <1>2 DEF SpiObjects
<1> HIDE DEF q
<1>5. SpiLine(q)
  BY <1>3, <1>4 DEF SpiLine, Status, due
<1>6. SpiStreams(q)
  BY <1>4 DEF SpiGood, SpiStreams, SpiOut, SpiAll, OnWire
<1>7. SpiRequests(q)
  BY <1>4 DEF SpiRequests
<1> QED BY <1>2, <1>4, <1>5, <1>6, <1>7 DEF SpiGood

-----------------------------------------------------------------------------
(* Serial: the receiver of the UART. *)

UartObjects ==
    [rx : Seq(Nat), raw : SUBSET {"TX", "RX"}, enable : SUBSET {"TX", "RX"}, line : BOOLEAN,
     fed : Nat, got : Nat, overrun : BOOLEAN, acknowledged : BOOLEAN]

UartAll(u) == (<<u.got>> \o u.rx) \o <<u.fed + 1>>

\* The line is up while the interrupt is raised, and it is raised while a byte waits
\* that was not acknowledged.
UartGood(u) ==
    /\ u \in UartObjects
    /\ u.overrun = FALSE => Consecutive(UartAll(u))
    /\ u.rx # <<>> /\ u.acknowledged = FALSE => "RX" \in u.raw
    /\ Status(u) # {} => u.line = TRUE

LEMMA ToldFacts ==
    ASSUME NEW u \in UartObjects, NEW raw \in SUBSET {"TX", "RX"}
    PROVE  LET v == received(u, raw)
           IN  /\ v \in UartObjects /\ v.raw = raw \cup {"TX"} /\ (Status(v) # {} => v.line = TRUE)
               /\ v.rx = u.rx /\ v.enable = u.enable /\ v.fed = u.fed /\ v.got = u.got
               /\ v.overrun = u.overrun /\ v.acknowledged = u.acknowledged
<1> DEFINE more == raw \cup {"TX"}
           s == [u EXCEPT !.raw = more]
           due == Status(s) # {}
           v == [s EXCEPT !.line = due]
<1>1. received(u, raw) = [[[u EXCEPT !.raw = raw] EXCEPT !.raw = @ \cup {"TX"}] EXCEPT
                             !.line = Status([[u EXCEPT !.raw = raw] EXCEPT !.raw = @ \cup {"TX"}]) # {}]
  BY DEF received, told, interruptsChecked
<1>2. [[u EXCEPT !.raw = raw] EXCEPT !.raw = @ \cup {"TX"}] = s
  BY DEF UartObjects
<1>3. received(u, raw) = v
  BY <1>1, <1>2
<1>4. due \in BOOLEAN /\ more \in SUBSET {"TX", "RX"} /\ Status(s) = more \cap u.enable
  BY DEF Status, UartObjects
<1> HIDE DEF due, more
<1>5. /\ v \in UartObjects /\ v.raw = more /\ v.line = due /\ v.rx = u.rx /\ v.enable = u.enable
      /\ v.fed = u.fed /\ v.got = u.got /\ v.overrun = u.overrun /\ v.acknowledged = u.acknowledged
  BY <1>4 DEF UartObjects
<1> HIDE DEF v
<1>6. Status(v) # {} => v.line = TRUE
  BY <1>4, <1>5 DEF Status, due
<1> QED BY <1>3, <1>5, <1>6 DEF more

LEMMA FeedStep ==
    ASSUME UartGood(uart), feedByte
    PROVE  UartGood(uart')
<1> DEFINE u == [uart EXCEPT !.fed = @ + 1, !.acknowledged = FALSE]
           v == IF Room(u.rx) THEN [u EXCEPT !.rx = Append(@, u.fed)] ELSE [u EXCEPT !.overrun = TRUE]
<1>1. uart' = received(v, u.raw \cup {"RX"})
  BY DEF feedByte
<1>2. uart \in UartObjects /\ uart.rx \in Seq(Nat) /\ uart.fed \in Nat /\ uart.got \in Nat
  BY DEF UartGood, UartObjects
<1>3. PICK more \in Seq(Nat), n \in Nat : more = Append(uart.rx, uart.fed + 1) /\ n = uart.fed + 1
  <2>1. \A t \in Seq(Nat), w \in Nat : Append(t, w + 1) \in Seq(Nat) /\ w + 1 \in Nat
    OBVIOUS
  <2> QED BY <1>2, <2>1
<1>4. u = [uart EXCEPT !.fed = n, !.acknowledged = FALSE] /\ u.rx = uart.rx /\ u.fed = n /\ u.raw = uart.raw
  BY <1>2, <1>3 DEF UartObjects
<1>5. v = IF Room(uart.rx) THEN [uart EXCEPT !.fed = n, !.acknowledged = FALSE, !.rx = more]
          ELSE [uart EXCEPT !.fed = n, !.acknowledged = FALSE, !.overrun = TRUE]
  BY <1>2, <1>3, <1>4 DEF UartObjects
<1>6. uart.raw \cup {"RX"} \in SUBSET {"TX", "RX"}
  BY <1>2 DEF UartObjects
<1> HIDE DEF u, v
<1>7. /\ v \in UartObjects /\ v.acknowledged = FALSE /\ v.fed = n /\ v.got = uart.got
      /\ v.overrun = FALSE => uart.overrun = FALSE /\ v.rx = more
  BY <1>2, <1>3, <1>5 DEF UartObjects
<1>8. v.overrun = FALSE => Consecutive(UartAll(v))
  <2> SUFFICES ASSUME v.overrun = FALSE PROVE Consecutive(UartAll(v))
    OBVIOUS
  <2>1. Consecutive((<<uart.got>> \o uart.rx) \o <<n>>)
    BY <1>3, <1>7 DEF UartGood, UartAll
  <2>2. <<uart.got>> \in Seq(Nat)
    BY <1>2
  <2>3. Consecutive((<<uart.got>> \o Append(uart.rx, n)) \o <<n + 1>>)
    BY <1>2, <2>1, <2>2, NextFollows
  <2> QED BY <1>3, <1>7, <2>3 DEF UartAll
<1>9. uart' = received(v, uart.raw \cup {"RX"})
  BY <1>1, <1>4
<1>10. /\ uart' \in UartObjects /\ uart'.raw = (uart.raw \cup {"RX"}) \cup {"TX"}
       /\ Status(uart') # {} => uart'.line = TRUE
       /\ uart'.rx = v.rx /\ uart'.fed = v.fed /\ uart'.got = v.got /\ uart'.overrun = v.overrun
  BY <1>6, <1>7, <1>9, ToldFacts
<1> QED BY <1>8, <1>10 DEF UartGood, UartAll

LEMMA ReadUartStep ==
    ASSUME UartGood(uart), ReadUARTDR
    PROVE  UartGood(uart')
<1> DEFINE u == [uart EXCEPT !.rx = Tail(@), !.got = Head(uart.rx), !.acknowledged = FALSE]
           raw == IF u.rx # <<>> THEN u.raw \cup {"RX"} ELSE u.raw \ {"RX"}
<1>1. uart' = received(u, raw) /\ uart.rx # <<>>
  BY DEF ReadUARTDR
<1>2. uart \in UartObjects /\ uart.rx \in Seq(Nat) /\ uart.fed \in Nat /\ uart.got \in Nat
  BY DEF UartGood, UartObjects
<1>3. Head(uart.rx) \in Nat /\ Tail(uart.rx) \in Seq(Nat)
  BY <1>1, <1>2, HeadTailProperties
<1>4. /\ u \in UartObjects /\ u.rx = Tail(uart.rx) /\ u.got = Head(uart.rx) /\ u.raw = uart.raw
      /\ u.acknowledged = FALSE /\ u.fed = uart.fed /\ u.overrun = uart.overrun
  BY <1>2, <1>3 DEF UartObjects
<1> HIDE DEF u
<1>5. raw \in SUBSET {"TX", "RX"} /\ (u.rx # <<>> => "RX" \in raw)
  BY <1>4 DEF UartObjects
<1>6. u.overrun = FALSE => Consecutive(UartAll(u))
  <2> SUFFICES ASSUME u.overrun = FALSE PROVE Consecutive(UartAll(u))
    OBVIOUS
  <2>1. Consecutive((<<uart.got>> \o uart.rx) \o <<uart.fed + 1>>)
    BY <1>4 DEF UartGood, UartAll
  <2>2. <<u.got>> \o u.rx = uart.rx
    BY <1>1, <1>2, <1>4, HeadMoves
  <2>3. \A g, n \in Nat, f \in Seq(Nat) :
            (<<g>> \o f) \o <<n>> = <<g>> \o (f \o <<n>>) /\ f \o <<n>> \in Seq(Nat) /\ f \o <<n>> # <<>>
    OBVIOUS
  <2>4. uart.fed + 1 \in Nat
    BY <1>2
  <2>5. Consecutive(uart.rx \o <<uart.fed + 1>>)
    BY <1>2, <2>1, <2>3, <2>4, RestFollows
  <2> QED BY <1>4, <2>2, <2>5 DEF UartAll
<1> HIDE DEF raw
<1>7. /\ uart' \in UartObjects /\ uart'.raw = raw \cup {"TX"}
      /\ Status(uart') # {} => uart'.line = TRUE
      /\ uart'.rx = u.rx /\ uart'.fed = u.fed /\ uart'.got = u.got /\ uart'.overrun = u.overrun
  BY <1>1, <1>4, <1>5, ToldFacts
<1> QED BY <1>5, <1>6, <1>7 DEF UartGood, UartAll

LEMMA UartMaskStep ==
    ASSUME UartGood(uart), WriteUARTIMSC \/ WriteUARTICR
    PROVE  UartGood(uart')
<1>1. uart \in UartObjects /\ uart.raw \in SUBSET {"TX", "RX"} /\ uart.acknowledged \in BOOLEAN
  BY DEF UartGood, UartObjects
<1>2. CASE WriteUARTIMSC
  <2>1. PICK mask \in SUBSET {"TX", "RX"} : uart' = told([uart EXCEPT !.enable = mask])
    BY <1>2 DEF WriteUARTIMSC
  <2> DEFINE u == [uart EXCEPT !.enable = mask]
  <2>2. /\ u \in UartObjects /\ u.raw = uart.raw /\ u.rx = uart.rx /\ u.fed = uart.fed
        /\ u.got = uart.got /\ u.overrun = uart.overrun /\ u.acknowledged = uart.acknowledged
        /\ [u EXCEPT !.raw = uart.raw] = u
    BY <1>1 DEF UartObjects
  <2> HIDE DEF u
  <2>3. uart' = received(u, uart.raw)
    BY <2>1, <2>2 DEF received, u
  <2>4. /\ uart' \in UartObjects /\ uart'.raw = uart.raw \cup {"TX"}
        /\ Status(uart') # {} => uart'.line = TRUE
        /\ uart'.rx = u.rx /\ uart'.fed = u.fed /\ uart'.got = u.got /\ uart'.overrun = u.overrun
        /\ uart'.acknowledged = u.acknowledged
    BY <1>1, <2>2, <2>3, ToldFacts
  <2> QED BY <2>2, <2>4 DEF UartGood, UartAll
<1>3. CASE WriteUARTICR
  <2>1. PICK cleared \in SUBSET {"TX", "RX"} :
            uart' = [received(uart, uart.raw \ cleared) EXCEPT !.acknowledged = @ \/ "RX" \in cleared]
    BY <1>3 DEF WriteUARTICR
  <2> DEFINE u == received(uart, uart.raw \ cleared)
             ack == u.acknowledged \/ "RX" \in cleared
  <2>2. /\ u \in UartObjects /\ u.raw = (uart.raw \ cleared) \cup {"TX"} /\ (Status(u) # {} => u.line = TRUE)
        /\ u.rx = uart.rx /\ u.fed = uart.fed /\ u.got = uart.got
        /\ u.overrun = uart.overrun /\ u.acknowledged = uart.acknowledged
    BY <1>1, ToldFacts
  <2> HIDE DEF u
  <2>3. ack \in BOOLEAN /\ uart' = [u EXCEPT !.acknowledged = ack]
    BY <2>1 DEF u
  <2>4. ack = FALSE => uart.acknowledged = FALSE /\ "RX" \notin cleared
    BY <1>1, <2>2
  <2> HIDE DEF ack
  <2>5. /\ uart' \in UartObjects /\ uart'.raw = u.raw /\ uart'.enable = u.enable /\ uart'.line = u.line
        /\ uart'.rx = uart.rx /\ uart'.fed = uart.fed /\ uart'.got = uart.got
        /\ uart'.overrun = uart.overrun /\ uart'.acknowledged = ack
    BY <2>2, <2>3 DEF UartObjects
  <2>6. uart'.rx # <<>> /\ uart'.acknowledged = FALSE => "RX" \in uart'.raw
    BY <2>2, <2>4, <2>5 DEF UartGood
  <2> QED BY <2>2, <2>5, <2>6 DEF UartGood, UartAll, Status
<1> QED BY <1>2, <1>3
-----------------------------------------------------------------------------
(* Serial: the ADC. *)

AdcObjects ==
    [fifo : Seq(Nat), fifoEn : BOOLEAN, dreqEn : BOOLEAN, thresh : Nat, over : BOOLEAN, under : BOOLEAN,
     inte : BOOLEAN, intf : BOOLEAN, line : BOOLEAN, dreq : BOOLEAN, busy : BOOLEAN, many : BOOLEAN,
     alarm : BOOLEAN, started : Nat, got : Nat, skipped : BOOLEAN]

\* The number of the sample that is measured now or, when none is, of the next one.
NextSample(a) == a.started + (IF a.busy THEN 0 ELSE 1)
AdcAll(a) == (<<a.got>> \o a.fifo) \o <<NextSample(a)>>

AdcGood(a) ==
    /\ a \in AdcObjects
    /\ a.skipped = FALSE => Consecutive(AdcAll(a))
    /\ adcStatus(a) => a.line = TRUE

\* A measurement may begin while none is going on.
LEMMA StartFacts ==
    ASSUME NEW a, AdcGood(a), a.busy = FALSE \/ a.skipped = TRUE
    PROVE  AdcGood(startADCRead(a))
<1> DEFINE b == startADCRead(a)
<1>0. a \in AdcObjects /\ a.started + 1 \in Nat
  BY DEF AdcGood, AdcObjects
<1>1. /\ b \in AdcObjects /\ b.busy = TRUE /\ b.started = a.started + 1 /\ b.fifo = a.fifo /\ b.got = a.got
      /\ b.skipped = a.skipped /\ b.inte = a.inte /\ b.intf = a.intf /\ b.thresh = a.thresh
      /\ b.line = a.line /\ a.skipped \in BOOLEAN /\ a.started \in Nat
  BY <1>0 DEF AdcObjects, startADCRead
<1> HIDE DEF b
<1>2. ASSUME b.skipped = FALSE PROVE Consecutive(AdcAll(b))
  <2>1. NextSample(b) = NextSample(a)
    BY <1>1, <1>2 DEF NextSample
  <2> QED BY <1>1, <1>2, <2>1 DEF AdcGood, AdcAll
<1>3. adcStatus(b) => b.line = TRUE
  BY <1>1 DEF AdcGood, adcStatus
<1> QED BY <1>1, <1>2, <1>3 DEF AdcGood, b

LEMMA CSStep ==
    ASSUME AdcGood(adc), WriteCS
    PROVE  AdcGood(adc')
<1>1. PICK many \in BOOLEAN :
          \/ adc.busy = FALSE /\ adc' = startADCRead([adc EXCEPT !.many = many])
          \/ adc' = [adc EXCEPT !.many = many]
  BY DEF WriteCS, AdcGood, AdcObjects
<1> DEFINE a == [adc EXCEPT !.many = many]
<1>2. /\ a \in AdcObjects /\ a.busy = adc.busy /\ a.started = adc.started /\ a.fifo = adc.fifo
      /\ a.got = adc.got /\ a.skipped = adc.skipped /\ a.inte = adc.inte /\ a.intf = adc.intf
      /\ a.thresh = adc.thresh /\ a.line = adc.line
  BY DEF AdcGood, AdcObjects
<1> HIDE DEF a
<1>3. AdcGood(a)
  BY <1>2 DEF AdcGood, AdcAll, NextSample, adcStatus
<1> QED BY <1>1, <1>2, <1>3, StartFacts DEF a

\* What becomes of a sample that was measured.
Kept(a) ==
    LET idle == [a EXCEPT !.busy = FALSE]
    IN  IF ~a.fifoEn THEN [idle EXCEPT !.skipped = TRUE]
        ELSE IF ~Room(a.fifo) THEN [idle EXCEPT !.over = TRUE, !.skipped = TRUE]
        ELSE adcInterrupts(updateDMA([idle EXCEPT !.fifo = Append(@, a.started)]))

LEMMA KeptFacts ==
    ASSUME NEW a, AdcGood(a), a.busy = TRUE
    PROVE  AdcGood(Kept(a)) /\ Kept(a).busy = FALSE
<1>1. a \in AdcObjects /\ a.fifo \in Seq(Nat) /\ a.started \in Nat /\ a.got \in Nat
  BY DEF AdcGood, AdcObjects
<1>2. CASE ~a.fifoEn \/ ~Room(a.fifo)
  <2>1. PICK over \in BOOLEAN : Kept(a) = [a EXCEPT !.busy = FALSE, !.over = over, !.skipped = TRUE]
    <3>1. CASE ~a.fifoEn
      <4>1. Kept(a) = [a EXCEPT !.busy = FALSE, !.skipped = TRUE]
        BY <3>1 DEF Kept
      <4>2. a.over \in BOOLEAN
            /\ [a EXCEPT !.busy = FALSE, !.skipped = TRUE] = [a EXCEPT !.busy = FALSE, !.over = a.over, !.skipped = TRUE]
        BY <1>1 DEF AdcObjects
      <4> QED BY <4>1, <4>2
    <3>2. CASE ~(~a.fifoEn)
      <4>1. Kept(a) = [a EXCEPT !.busy = FALSE, !.over = TRUE, !.skipped = TRUE]
        BY <1>2, <3>2 DEF Kept
      <4> QED BY <4>1
    <3> QED BY <3>1, <3>2
  <2> DEFINE b == Kept(a)
  <2>2. /\ b \in AdcObjects /\ b.busy = FALSE /\ b.skipped = TRUE /\ b.fifo = a.fifo /\ b.inte = a.inte
        /\ b.intf = a.intf /\ b.thresh = a.thresh /\ b.line = a.line
    BY <1>1, <2>1, ZenonT(30) DEF AdcObjects
  <2> HIDE DEF b
  <2>3. AdcGood(b)
    BY <2>2 DEF AdcGood, adcStatus
  <2> QED BY <2>2, <2>3 DEF b
<1>3. CASE ~(~a.fifoEn \/ ~Room(a.fifo))
  <2>1. PICK more \in Seq(Nat) : more = Append(a.fifo, a.started)
    <3>1. \A t \in Seq(Nat), w \in Nat : Append(t, w) \in Seq(Nat)
      OBVIOUS
    <3> QED BY <1>1, <3>1
  <2> DEFINE c == [a EXCEPT !.busy = FALSE, !.fifo = more]
             d == updateDMA(c)
             due == adcStatus(d)
             b == [d EXCEPT !.line = due]
  <2>2. Kept(a) = b
    <3>1. Kept(a) = adcInterrupts(updateDMA([[a EXCEPT !.busy = FALSE] EXCEPT !.fifo = Append(@, a.started)]))
      BY <1>3 DEF Kept
    <3>2. [[a EXCEPT !.busy = FALSE] EXCEPT !.fifo = Append(@, a.started)] = c
      BY <1>1, <2>1 DEF AdcObjects
    <3> QED BY <3>1, <3>2 DEF adcInterrupts
  <2>3. /\ c \in AdcObjects /\ c.busy = FALSE /\ c.fifo = more /\ c.skipped = a.skipped /\ c.started = a.started
        /\ c.got = a.got
    BY <1>1, <2>1 DEF AdcObjects
  <2> HIDE DEF c
  <2>4. /\ d \in AdcObjects /\ d.busy = FALSE /\ d.fifo = more /\ d.skipped = a.skipped /\ d.started = a.started
        /\ d.got = a.got
    <3> DEFINE asks == Len(c.fifo) >= c.thresh
    <3>1. asks \in BOOLEAN /\ d = IF c.dreqEn THEN [c EXCEPT !.dreq = asks] ELSE c
      BY DEF updateDMA
    <3> HIDE DEF asks, d
    <3> QED BY <2>3, <3>1 DEF AdcObjects
  <2> HIDE DEF d
  <2>5. due \in BOOLEAN
    BY <2>4 DEF adcStatus, AdcObjects
  <2>6. due = adcStatus(d)
    OBVIOUS
  <2> HIDE DEF due
  <2>7. /\ b \in AdcObjects /\ b.busy = FALSE /\ b.fifo = more /\ b.skipped = a.skipped /\ b.started = a.started
        /\ b.got = a.got /\ b.line = due /\ b.inte = d.inte /\ b.intf = d.intf /\ b.thresh = d.thresh
        /\ b.fifo = d.fifo
    BY <2>4, <2>5 DEF AdcObjects
  <2> HIDE DEF b
  <2>8. adcStatus(b) => b.line = TRUE
    BY <2>5, <2>6, <2>7 DEF adcStatus
  <2>9. ASSUME b.skipped = FALSE PROVE Consecutive(AdcAll(b))
    <3>1. Consecutive((<<a.got>> \o a.fifo) \o <<a.started + 0>>)
      BY <2>7, <2>9 DEF AdcGood, AdcAll, NextSample
    <3>2. a.started + 0 = a.started /\ <<a.got>> \in Seq(Nat)
      BY <1>1
    <3>3. Consecutive((<<a.got>> \o Append(a.fifo, a.started)) \o <<a.started + 1>>)
      BY <1>1, <3>1, <3>2, NextFollows
    <3> QED BY <2>1, <2>7, <3>3 DEF AdcAll, NextSample
  <2> QED BY <2>2, <2>7, <2>8, <2>9 DEF AdcGood
<1> QED BY <1>2, <1>3

LEMMA CompleteStep ==
    ASSUME AdcGood(adc), completeADCRead
    PROVE  AdcGood(adc')
<1>1. /\ adc.busy = TRUE
      /\ \/ adc' = Kept(adc) \/ adc' = [Kept(adc) EXCEPT !.alarm = TRUE] \/ adc' = startADCRead(Kept(adc))
  BY DEF completeADCRead, Kept, AdcGood, AdcObjects
<1>2. AdcGood(Kept(adc)) /\ Kept(adc).busy = FALSE
  BY <1>1, KeptFacts
<1> DEFINE a == Kept(adc)
           b == [a EXCEPT !.alarm = TRUE]
<1> HIDE DEF a
<1>3. AdcGood(b)
  <2>1. /\ b \in AdcObjects /\ b.busy = a.busy /\ b.started = a.started /\ b.fifo = a.fifo
        /\ b.got = a.got /\ b.skipped = a.skipped /\ b.inte = a.inte /\ b.intf = a.intf
        /\ b.thresh = a.thresh /\ b.line = a.line
    BY <1>2 DEF AdcGood, AdcObjects, a
  <2> HIDE DEF b
  <2> QED BY <1>2, <2>1 DEF AdcGood, AdcAll, NextSample, adcStatus, a
<1> QED BY <1>1, <1>2, <1>3, StartFacts DEF a

LEMMA AlarmStep ==
    ASSUME AdcGood(adc), multiShotAlarm
    PROVE  AdcGood(adc')
<1> DEFINE missed == adc.skipped \/ adc.busy
           a == [adc EXCEPT !.alarm = FALSE, !.skipped = missed]
<1>1. adc \in AdcObjects /\ missed \in BOOLEAN /\ (missed = FALSE => adc.busy = FALSE /\ adc.skipped = FALSE)
  BY DEF AdcGood, AdcObjects
<1>2. adc' = a \/ adc' = startADCRead(a)
  <2>1. /\ adc' = [IF adc.many THEN startADCRead(adc) ELSE adc EXCEPT !.alarm = FALSE, !.skipped = @ \/ adc.busy]
    BY DEF multiShotAlarm
  <2>2. CASE adc.many
    <3>1. adc' = [startADCRead(adc) EXCEPT !.alarm = FALSE, !.skipped = @ \/ adc.busy]
      BY <2>1, <2>2
    <3>2. adc' = [adc EXCEPT !.busy = TRUE, !.started = @ + 1, !.alarm = FALSE, !.skipped = missed]
      BY <1>1, <3>1 DEF startADCRead, AdcObjects
    <3> HIDE DEF missed
    <3>3. startADCRead(a) = [adc EXCEPT !.busy = TRUE, !.started = @ + 1, !.alarm = FALSE, !.skipped = missed]
      BY <1>1 DEF startADCRead, AdcObjects
    <3> QED BY <3>2, <3>3
  <2>3. CASE ~adc.many
    BY <1>1, <2>1, <2>3 DEF AdcObjects
  <2> QED BY <2>2, <2>3
<1> HIDE DEF missed
<1>3. /\ a \in AdcObjects /\ a.busy = adc.busy /\ a.started = adc.started /\ a.fifo = adc.fifo
      /\ a.got = adc.got /\ a.skipped = missed /\ a.inte = adc.inte /\ a.intf = adc.intf
      /\ a.thresh = adc.thresh /\ a.line = adc.line /\ adc.busy \in BOOLEAN
  BY <1>1 DEF AdcObjects
<1> HIDE DEF a
<1>4. AdcGood(a) /\ (a.busy = FALSE \/ a.skipped = TRUE)
  BY <1>1, <1>3 DEF AdcGood, AdcAll, NextSample, adcStatus
<1> QED BY <1>2, <1>4, StartFacts

LEMMA FIFOStep ==
    ASSUME AdcGood(adc), ReadFIFO
    PROVE  AdcGood(adc')
<1>1. adc \in AdcObjects /\ adc.fifo \in Seq(Nat) /\ adc.got \in Nat /\ adc.started \in Nat
  BY DEF AdcGood, AdcObjects
<1>2. CASE adc.fifo = <<>>
  <2>1. adc' = [adc EXCEPT !.under = TRUE]
    BY <1>2 DEF ReadFIFO
  <2>2. /\ adc' \in AdcObjects /\ adc'.busy = adc.busy /\ adc'.started = adc.started /\ adc'.fifo = adc.fifo
        /\ adc'.got = adc.got /\ adc'.skipped = adc.skipped /\ adc'.inte = adc.inte /\ adc'.intf = adc.intf
        /\ adc'.thresh = adc.thresh /\ adc'.line = adc.line
    BY <1>1, <2>1 DEF AdcObjects
  <2> QED BY <2>2 DEF AdcGood, AdcAll, NextSample, adcStatus
<1>3. CASE adc.fifo # <<>>
  <2>1. Head(adc.fifo) \in Nat /\ Tail(adc.fifo) \in Seq(Nat) /\ Len(Tail(adc.fifo)) < Len(adc.fifo)
    BY <1>1, <1>3, HeadTailProperties
  <2> DEFINE a == [adc EXCEPT !.fifo = Tail(@), !.got = Head(adc.fifo)]
             asks == Len(a.fifo) >= a.thresh
  <2>2. /\ a \in AdcObjects /\ a.busy = adc.busy /\ a.started = adc.started /\ a.fifo = Tail(adc.fifo)
        /\ a.got = Head(adc.fifo) /\ a.skipped = adc.skipped /\ a.inte = adc.inte /\ a.intf = adc.intf
        /\ a.thresh = adc.thresh /\ a.line = adc.line
    BY <1>1, <2>1 DEF AdcObjects
  <2>3. adc' = updateDMA(a)
    BY <1>3 DEF ReadFIFO
  <2> HIDE DEF a
  <2>4. asks \in BOOLEAN /\ adc' = IF a.dreqEn THEN [a EXCEPT !.dreq = asks] ELSE a
    BY <2>3 DEF updateDMA
  <2> HIDE DEF asks
  <2>5. /\ adc' \in AdcObjects /\ adc'.busy = adc.busy /\ adc'.started = adc.started /\ adc'.fifo = Tail(adc.fifo)
        /\ adc'.got = Head(adc.fifo) /\ adc'.skipped = adc.skipped /\ adc'.inte = adc.inte
        /\ adc'.intf = adc.intf /\ adc'.thresh = adc.thresh /\ adc'.line = adc.line
    BY <2>2, <2>4 DEF AdcObjects
  <2>6. adcStatus(adc') => adc'.line = TRUE
    <3>1. Len(adc'.fifo) \in Nat /\ Len(adc.fifo) \in Nat /\ adc.thresh \in Nat /\ Len(adc'.fifo) < Len(adc.fifo)
      BY <1>1, <2>1, <2>5 DEF AdcObjects
    <3>2. adcStatus(adc') => adcStatus(adc)
      BY <2>5, <3>1 DEF adcStatus
    <3> QED BY <2>5, <3>2 DEF AdcGood
  <2>7. ASSUME adc'.skipped = FALSE PROVE Consecutive(AdcAll(adc'))
    <3> DEFINE n == NextSample(adc)
    <3>1. Consecutive((<<adc.got>> \o adc.fifo) \o <<n>>) /\ n \in Nat /\ n = NextSample(adc')
      BY <1>1, <2>5, <2>7 DEF AdcGood, AdcAll, NextSample
    <3>2. <<adc'.got>> \o adc'.fifo = adc.fifo
      BY <1>1, <1>3, <2>5, HeadMoves
    <3>3. \A g, m \in Nat, f \in Seq(Nat) :
              (<<g>> \o f) \o <<m>> = <<g>> \o (f \o <<m>>) /\ f \o <<m>> \in Seq(Nat) /\ f \o <<m>> # <<>>
      OBVIOUS
    <3> HIDE DEF n
    <3>4. Consecutive(adc.fifo \o <<n>>)
      BY <1>1, <3>1, <3>3, RestFollows
    <3> QED BY <3>1, <3>2, <3>4 DEF AdcAll
  <2> QED BY <2>5, <2>6, <2>7 DEF AdcGood
<1> QED BY <1>2, <1>3

LEMMA SettingStep ==
    ASSUME SerialConstants, AdcGood(adc), WriteFCS \/ WriteINT
    PROVE  AdcGood(adc')
<1>1. PICK a : /\ a \in AdcObjects /\ a.busy = adc.busy /\ a.started = adc.started /\ a.fifo = adc.fifo
               /\ a.got = adc.got /\ a.skipped = adc.skipped /\ adc' = adcInterrupts(a)
  <2>1. CASE WriteFCS
    <3>1. PICK en \in BOOLEAN, dreq \in BOOLEAN, thresh \in 0 .. FifoDepth :
              adc' = adcInterrupts([adc EXCEPT !.fifoEn = en, !.dreqEn = dreq, !.thresh = thresh,
                                               !.over = FALSE, !.under = FALSE])
      BY <2>1 DEF WriteFCS
    <3>2. thresh \in Nat
      BY DEF SerialConstants
    <3> DEFINE a == [adc EXCEPT !.fifoEn = en, !.dreqEn = dreq, !.thresh = thresh,
                                !.over = FALSE, !.under = FALSE]
    <3>3. /\ a \in AdcObjects /\ a.busy = adc.busy /\ a.started = adc.started /\ a.fifo = adc.fifo
          /\ a.got = adc.got /\ a.skipped = adc.skipped
      BY <3>2, ZenonT(30) DEF AdcGood, AdcObjects
    <3> QED BY <3>1, <3>3
  <2>2. CASE WriteINT
    <3>1. PICK inte \in BOOLEAN, intf \in BOOLEAN :
              adc' = adcInterrupts([adc EXCEPT !.inte = inte, !.intf = intf])
      BY <2>2 DEF WriteINT
    <3> DEFINE a == [adc EXCEPT !.inte = inte, !.intf = intf]
    <3>2. /\ a \in AdcObjects /\ a.busy = adc.busy /\ a.started = adc.started /\ a.fifo = adc.fifo
          /\ a.got = adc.got /\ a.skipped = adc.skipped
      BY DEF AdcGood, AdcObjects
    <3> QED BY <3>1, <3>2
  <2> QED BY <2>1, <2>2
<1> DEFINE due == adcStatus(a)
<1>2. due \in BOOLEAN
  BY <1>1 DEF adcStatus, AdcObjects
<1>3. adc' = [a EXCEPT !.line = due]
  BY <1>1 DEF adcInterrupts
<1>4. due = adcStatus(a)
  OBVIOUS
<1> HIDE DEF due
<1>5. /\ adc' \in AdcObjects /\ adc'.busy = adc.busy /\ adc'.started = adc.started /\ adc'.fifo = adc.fifo
      /\ adc'.got = adc.got /\ adc'.skipped = adc.skipped /\ adc'.line = due /\ adc'.inte = a.inte
      /\ adc'.intf = a.intf /\ adc'.thresh = a.thresh /\ adc'.fifo = a.fifo
  BY <1>1, <1>2, <1>3 DEF AdcObjects
<1>6. adcStatus(adc') => adc'.line = TRUE
  BY <1>2, <1>4, <1>5 DEF adcStatus
<1> QED BY <1>5, <1>6 DEF AdcGood, AdcAll, NextSample

-----------------------------------------------------------------------------
(* Serial: the three together. *)

SerialInv == SpiGood(spi) /\ SpiRequests(spi) /\ UartGood(uart) /\ AdcGood(adc)

LEMMA SerialStarts ==
    ASSUME SerialConstants, SerialInit
    PROVE  SerialInv
<1>1. Consecutive(<<1>>) /\ Consecutive(<<0>> \o <<1>>)
  BY Units
<1>2. <<>> \in Seq(Nat) /\ <<>> \in Seq(Byte) /\ Len(<<>>) = 0
  OBVIOUS
<1>3. SpiGood(spi) /\ SpiRequests(spi)
  <2>1. spi \in SpiObjects
    BY <1>2 DEF SerialInit, SpiObjects
  <2>2. OnWire(spi) = <<>>
    BY DEF SerialInit, OnWire
  <2>3. SpiOut(spi) = <<1>> /\ SpiAll(spi) = <<0>> \o <<1>>
    <3>1. spi.tx = <<>> /\ spi.rx = <<>> /\ spi.written = 0 /\ spi.got = 0
      BY DEF SerialInit
    <3> QED BY Units, <2>2, <3>1, Zenon DEF SpiOut, SpiAll
  <2>4. SpiLine(spi)
    BY DEF SerialInit, SpiLine, Status
  <2>5. SpiRequests(spi)
    <3>1. spi.tx = <<>> /\ spi.rx = <<>> /\ spi.dreqTx = TRUE /\ spi.dreqRx = FALSE
      BY DEF SerialInit
    <3>2. Room(<<>>) = TRUE
      BY <1>2 DEF Room, SerialConstants
    <3> QED BY <3>1, <3>2 DEF SpiRequests
  <2> QED BY <1>1, <2>1, <2>3, <2>4, <2>5 DEF SpiGood, SpiStreams
<1>4. UartGood(uart)
  <2>1. uart \in UartObjects
    BY <1>2 DEF SerialInit, UartObjects
  <2>2. UartAll(uart) = <<0>> \o <<1>>
    <3>1. uart.rx = <<>> /\ uart.fed = 0 /\ uart.got = 0
      BY DEF SerialInit
    <3> QED BY Units, <3>1, Zenon DEF UartAll
  <2>3. uart.rx = <<>> /\ Status(uart) = {}
    BY DEF SerialInit, Status
  <2> QED BY <1>1, <2>1, <2>2, <2>3 DEF UartGood
<1>5. AdcGood(adc)
  <2>1. adc \in AdcObjects
    BY <1>2 DEF SerialInit, AdcObjects
  <2>2. AdcAll(adc) = <<0>> \o <<1>>
    <3>1. adc.fifo = <<>> /\ adc.got = 0 /\ NextSample(adc) = 0 + 1
      BY DEF SerialInit, NextSample
    <3> QED BY Units, <3>1, Zenon DEF AdcAll
  <2>3. ~adcStatus(adc)
    BY DEF SerialInit, adcStatus
  <2> QED BY <1>1, <2>1, <2>2, <2>3 DEF AdcGood
<1> QED BY <1>3, <1>4, <1>5 DEF SerialInv

LEMMA SerialKept ==
    ASSUME SerialConstants, SerialInv, [SerialNext]_serialVars
    PROVE  SerialInv'
<1>1. CASE SpiNext
  <2>1. SpiGood(spi') /\ SpiRequests(spi')
    BY <1>1, WriteDRStep, TransmitStep, ReadDRStep, MaskStep DEF SerialInv, SpiNext
  <2>2. uart' = uart /\ adc' = adc
    BY <1>1 DEF SpiNext, WriteSSPDR, completeTransmit, ReadSSPDR, WriteSSPIMSC, WriteSSPICR
  <2> QED BY <2>1, <2>2 DEF SerialInv
<1>2. CASE UartNext
  <2>1. UartGood(uart')
    BY <1>2, FeedStep, ReadUartStep, UartMaskStep DEF SerialInv, UartNext
  <2>2. spi' = spi /\ adc' = adc
    BY <1>2 DEF UartNext, feedByte, ReadUARTDR, WriteUARTIMSC, WriteUARTICR
  <2> QED BY <2>1, <2>2 DEF SerialInv
<1>3. CASE AdcNext
  <2>1. AdcGood(adc')
    BY <1>3, CSStep, CompleteStep, AlarmStep, FIFOStep, SettingStep DEF SerialInv, AdcNext
  <2>2. spi' = spi /\ uart' = uart
    BY <1>3 DEF AdcNext, WriteCS, completeADCRead, multiShotAlarm, ReadFIFO, WriteFCS, WriteINT
  <2> QED BY <2>1, <2>2 DEF SerialInv
<1>4. CASE UNCHANGED serialVars
  BY <1>4 DEF serialVars, SerialInv
<1> QED BY <1>1, <1>2, <1>3, <1>4 DEF SerialNext

LEMMA SerialHolds ==
    ASSUME SerialConstants
    PROVE  SerialSpec => []SerialInv
<1>1. SerialInit => SerialInv
  BY SerialStarts
<1>2. SerialInv /\ [SerialNext]_serialVars => SerialInv'
  BY SerialKept
<1> QED BY <1>1, <1>2, PTL DEF SerialSpec

\* What the FIFOs hold follows on from what was read and goes on to what comes next,
\* as StreamsIntact says: bytes and samples are neither lost nor reordered.
THEOREM StreamsAlwaysIntact ==
    ASSUME SerialConstants
    PROVE  SerialSpec => []StreamsIntact
<1>1. SerialInv => StreamsIntact
  <2> SUFFICES ASSUME SerialInv PROVE StreamsIntact
    OBVIOUS
  <2>1. /\ spi.overrun \in BOOLEAN /\ uart.overrun \in BOOLEAN /\ adc.skipped \in BOOLEAN
        /\ spi.tx \in Seq(Nat) /\ spi.rx \in Seq(Nat) /\ spi.wire \in Nat /\ spi.got \in Nat /\ spi.written \in Nat
        /\ uart.rx \in Seq(Nat) /\ uart.got \in Nat /\ uart.fed \in Nat
        /\ adc.fifo \in Seq(Nat) /\ adc.got \in Nat /\ adc.started \in Nat
    BY DEF SerialInv, SpiGood, UartGood, AdcGood, SpiObjects, UartObjects, AdcObjects, Byte
  <2> QED BY <2>1 DEF SerialInv, SpiGood, SpiStreams, SpiOut, SpiAll, OnWire, UartGood, UartAll,
                      AdcGood, AdcAll, NextSample, StreamsIntact
<1> QED BY <1>1, SerialHolds, PTL

\* An interrupt or a DMA request that is due is raised in every state.
THEOREM SignalsAlwaysRaised ==
    ASSUME SerialConstants
    PROVE  SerialSpec => []SignalsRaised
<1>1. SerialInv => SignalsRaised
  <2> SUFFICES ASSUME SerialInv PROVE SignalsRaised
    OBVIOUS
  <2>1. SpiLine(spi) /\ SpiRequests(spi) /\ spi.line \in BOOLEAN
    BY DEF SerialInv, SpiGood, SpiObjects
  <2>2. /\ uart.rx # <<>> /\ uart.acknowledged = FALSE => "RX" \in uart.raw
        /\ Status(uart) # {} => uart.line = TRUE
        /\ uart.acknowledged \in BOOLEAN
    BY DEF SerialInv, UartGood, UartObjects
  <2>3. uart.rx # <<>> /\ ~uart.acknowledged /\ "RX" \in uart.enable => uart.line
    BY <2>2 DEF Status
  <2>4. adcStatus(adc) => adc.line
    BY DEF SerialInv, AdcGood
  <2> QED BY <2>1, <2>3, <2>4 DEF SpiLine, SpiRequests, SignalsRaised
<1> QED BY <1>1, SerialHolds, PTL

-----------------------------------------------------------------------------
(* Pwm: division.                                                             *)

LEMMA Remainders ==
    ASSUME NEW x \in Int, NEW n \in Nat \ {0}
    PROVE  \E k, p, r \in Int :
               k = x \div n /\ p = k * n /\ x = p + r /\ r = x % n /\ r \in 0 .. n - 1
<1>1. x \div n \in Int /\ x = n * (x \div n) + (x % n) /\ x % n \in 0 .. n - 1
  OBVIOUS
<1>2. PICK k \in Int : k = x \div n
  BY <1>1
<1>3. PICK r \in Int : r = x % n
  BY <1>1
<1>4. PICK p \in Int : p = k * n
  OBVIOUS
<1>5. p = n * k
  BY <1>4
<1>6. x = p + r /\ r \in 0 .. n - 1
  BY <1>1, <1>2, <1>3, <1>5
<1> QED BY <1>2, <1>3, <1>4, <1>6

\* Multiples of n that are less than n apart are equal.
LEMMA MultiplesApart ==
    ASSUME NEW n \in Nat \ {0}, NEW j \in Int, NEW k \in Int, j * n - k * n < n, k * n - j * n < n
    PROVE  j = k
<1>1. PICK d \in Int : j = k + d
  <2>1. j = k + (j - k)
    OBVIOUS
  <2> QED BY <2>1
<1>2. PICK m, p, q \in Int : m = d * n /\ p = j * n /\ q = k * n
  OBVIOUS
<1>3. p = q + m
  <2>1. (k + d) * n = k * n + d * n
    OBVIOUS
  <2> QED BY <1>1, <1>2, <2>1
<1>4. d >= 1 => m >= n
  BY <1>2
<1>5. d <= -1 => m <= -n
  BY <1>2
<1>6. p - q < n /\ q - p < n
  BY <1>2
<1>7. d = 0
  BY <1>3, <1>4, <1>5, <1>6
<1> QED BY <1>1, <1>7

LEMMA RemainderIs ==
    ASSUME NEW n \in Nat \ {0}, NEW v \in 0 .. n - 1, NEW k \in Int
    PROVE  (v + k * n) % n = v
<1>1. PICK x, q \in Int : q = k * n /\ x = v + q
  <2>1. k * n \in Int
    OBVIOUS
  <2> QED BY <2>1
<1>2. PICK j, p, r \in Int : j = x \div n /\ p = j * n /\ x = p + r /\ r = x % n /\ r \in 0 .. n - 1
  BY Remainders
<1>3. j * n - k * n < n /\ k * n - j * n < n
  BY <1>1, <1>2
<1>4. j = k
  BY <1>3, MultiplesApart
<1>5. x % n = v
  BY <1>1, <1>2, <1>4
<1>6. v + k * n = x
  BY <1>1
<1> QED BY <1>5, <1>6, Zenon

(* A counter that increments.                                                 *)

TimerFields == {"base", "ran", "top", "mode", "on", "zeroDiv", "target", "armed", "due"}
IsTimer(t) ==
    /\ DOMAIN t = TimerFields /\ t = [f \in TimerFields |-> t[f]]
    /\ t.base \in Int /\ t.ran \in Nat /\ t.top \in 1 .. Wrap - 1
    /\ t.mode \in {"Increment", "ZigZag"} /\ t.on \in BOOLEAN /\ t.zeroDiv = FALSE
    /\ DOMAIN t.target = {"A", "bottom"} /\ t.target["A"] \in Nat /\ t.target["bottom"] = 0
    /\ t.armed = [a \in {"A", "bottom"} |-> TRUE]
    /\ DOMAIN t.due = {"A", "bottom"}
    /\ t.due["A"] \in Nat \cup {Never} /\ t.due["bottom"] \in Nat \cup {Never}

Free(t) == t.on /\ t.mode = "Increment"
Reached(t, a) == t.top = NoTop \/ t.target[a] <= t.top
Span(t) == (t.top + 1) * Sub

LEMMA PwmBounds ==
    /\ Sub \in Nat \ {0} /\ Wrap \in Nat \ {0} /\ Never \notin Int
    /\ Alarms = {"A", "bottom"} /\ Compares \subseteq Nat
    /\ ResetTop \in 1 .. Wrap - 2 /\ Tops \subseteq 1 .. Wrap - 2
BY TimerAssumption, PwmAssumption DEF TimerConstants

LEMMA SpanPositive ==
    ASSUME NEW t, IsTimer(t) PROVE Span(t) \in Nat \ {0} /\ Span(t) >= 2 * Sub
<1>1. PICK n \in Nat : n = t.top - 1 /\ t.top = n + 1
  <2>1. t.top - 1 \in Nat /\ t.top = (t.top - 1) + 1
    BY PwmBounds DEF IsTimer
  <2> QED BY <2>1
<1>2. (n + 2) * Sub = n * Sub + 2 * Sub /\ n * Sub \in Nat
  BY PwmBounds
<1> QED BY <1>1, <1>2, PwmBounds DEF Span

LEMMA PlaceIs ==
    ASSUME NEW t, IsTimer(t), t.mode = "Increment"
    PROVE  place(t) = t.base * Sub + t.ran /\ place(t) \in Int
<1>1. t.base * Sub \in Int
  BY PwmBounds DEF IsTimer
<1> QED BY <1>1 DEF IsTimer, place

\* The counter is the place, rounded, but for whole rounds.
Rounds(x, raw) == 2 * x + Sub - 2 * Sub * raw \in 0 .. 2 * Sub - 1

LEMMA RawCounter ==
    ASSUME NEW t, IsTimer(t), Free(t)
    PROVE  \E raw, k, p \in Int :
               /\ rawCounter(t) = raw /\ p = k * Span(t) /\ Rounds(place(t) + p, raw)
               /\ t.top # NoTop => raw \in 0 .. t.top
<1>1. PICK span \in Nat \ {0} : span = Span(t)
  BY SpanPositive
<1>2. PICK top \in Nat : top = t.top
  <2>1. t.top \in Nat
    BY PwmBounds DEF IsTimer
  <2> QED BY <2>1
<1>3. PICK at \in Int : at = place(t) /\ at = t.base * Sub + t.ran
  BY PlaceIs DEF Free
<1>4. PICK x \in Int : x = 2 * at + Sub
  BY PwmBounds
<1>5. PICK sub2 \in Nat \ {0} : sub2 = 2 * Sub
  BY PwmBounds
<1>6. PICK R, y, v \in Int : R = x \div sub2 /\ y = R * sub2 /\ x = y + v /\ v = x % sub2 /\ v \in 0 .. sub2 - 1
  BY Remainders
<1>7. rawCounter(t) = IF t.top = NoTop THEN R ELSE R % (top + 1)
  BY <1>2, <1>3, <1>4, <1>5, <1>6 DEF IsTimer, Free, rawCounter, Period
<1>8. CASE t.top = NoTop
  <2>1. Rounds(at + 0, R)
    <3>1. 2 * Sub * R = y
      BY <1>5, <1>6
    <3> QED BY <1>4, <1>5, <1>6, <3>1, PwmBounds DEF Rounds
  <2>2. 0 = 0 * span
    OBVIOUS
  <2> QED BY <1>1, <1>3, <1>7, <1>8, <2>1, <2>2
<1>9. CASE t.top # NoTop
  <2>1. PICK n \in Nat \ {0} : n = top + 1
    OBVIOUS
  <2>2. PICK j, q, raw \in Int : j = R \div n /\ q = j * n /\ R = q + raw /\ raw = R % n /\ raw \in 0 .. n - 1
    BY Remainders
  <2>3. PICK k, p \in Int : k = -j /\ p = -(Sub * q)
    <3>1. -j \in Int /\ -(Sub * q) \in Int
      BY PwmBounds
    <3> QED BY <3>1
  <2>4. p = k * span
    <3>1. -(Sub * (j * n)) = (-j) * (n * Sub)
      BY PwmBounds
    <3> QED BY <1>1, <1>2, <2>1, <2>2, <2>3, <3>1 DEF Span
  <2>5. y = 2 * (Sub * q) + 2 * Sub * raw
    <3>1. (q + raw) * (2 * Sub) = 2 * (Sub * q) + 2 * Sub * raw
      BY PwmBounds
    <3> QED BY <1>5, <1>6, <2>2, <3>1
  <2>6. Rounds(at + p, raw)
    <3>1. PICK w, z \in Int : w = Sub * q /\ z = 2 * Sub * raw
      <4>1. Sub * q \in Int /\ 2 * Sub * raw \in Int
        BY PwmBounds
      <4> QED BY <4>1
    <3>2. 2 * (at + p) + Sub - z = v
      BY <1>4, <1>6, <2>3, <2>5, <3>1, PwmBounds
    <3> QED BY <1>5, <1>6, <3>1, <3>2 DEF Rounds
  <2>7. rawCounter(t) = raw /\ raw \in 0 .. t.top
    BY <1>2, <1>7, <1>9, <2>1, <2>2
  <2> QED BY <1>1, <1>3, <2>4, <2>6, <2>7
<1> QED BY <1>8, <1>9

\* Two places within half a tick of zero and a whole number of ticks apart are one.
LEMMA HalfTick ==
    ASSUME NEW u \in Int, NEW v \in Int, NEW n \in Int, u - v = n * Sub,
           2 * u + Sub \in 0 .. 2 * Sub - 1, 2 * v + Sub \in 0 .. 2 * Sub - 1
    PROVE  n = 0
<1>1. PICK sub \in Nat \ {0} : sub = Sub
  BY PwmBounds
<1>2. PICK w \in Int : w = n * sub
  OBVIOUS
<1>3. w < sub /\ -w < sub
  BY <1>1, <1>2
<1>4. n * sub - 0 * sub < sub /\ 0 * sub - n * sub < sub
  BY <1>2, <1>3
<1> QED BY <1>4, MultiplesApart

LEMMA TargetInt == ASSUME NEW t, IsTimer(t), NEW a \in {"A", "bottom"} PROVE t.target[a] \in Nat
BY DEF IsTimer

\* At the call the counter is at its target, but for half a tick and whole rounds.
Hits(t, a, due) ==
    \E k, p \in Int :
        p = k * Span(t) /\ 2 * (place(t) + due - t.target[a] * Sub + p) + Sub \in 0 .. 2 * Sub - 1

\* What schedule gives is a number of ticks ahead, and hits.
LEMMA ScheduleFree ==
    ASSUME NEW t, IsTimer(t), Free(t), NEW a \in {"A", "bottom"}, Reached(t, a)
    PROVE  /\ Hits(t, a, schedule(t, a))
           /\ \E n \in Nat : schedule(t, a) = n * Sub /\ (t.top # NoTop => n \in 1 .. t.top + 1)
<1>1. PICK raw, k, p \in Int :
          /\ rawCounter(t) = raw /\ p = k * Span(t) /\ Rounds(place(t) + p, raw)
          /\ t.top # NoTop => raw \in 0 .. t.top
  BY RawCounter
<1>2. PICK top \in Nat : top = t.top /\ top < Wrap
  <2>1. t.top \in Nat /\ t.top < Wrap
    BY PwmBounds DEF IsTimer
  <2> QED BY <2>1
<1>3. PICK target \in Nat : target = t.target[a]
  BY TargetInt
<1>4. PICK span \in Nat \ {0} : span = Span(t)
  BY SpanPositive
<1>5. PICK n, m \in Int :
          /\ n \in Nat /\ schedule(t, a) = n * Sub /\ n = target - raw + m * (top + 1)
          /\ t.top # NoTop => n \in 1 .. top + 1
  <2>1. CASE top # NoTop
    <3>1. PICK n, m \in Int : m = (IF target - raw <= 0 THEN 1 ELSE 0) /\ n = target - raw + m * (top + 1)
      OBVIOUS
    <3>2. target <= top /\ raw \in 0 .. top
      BY <1>1, <1>2, <1>3, <2>1 DEF Reached
    <3>3. n \in 1 .. top + 1 /\ n = (IF target - raw <= 0 THEN target - raw + top + 1 ELSE target - raw)
      BY <3>1, <3>2
    <3>4. n < Wrap
      BY <1>2, <2>1, <3>3, PwmBounds DEF NoTop
    <3>5. schedule(t, a) = (n % Wrap) * Sub
      BY <1>1, <1>2, <1>3, <2>1, <3>2, <3>3 DEF Free, schedule
    <3>6. n % Wrap = n
      BY <3>3, <3>4, PwmBounds
    <3>7. n \in Nat /\ schedule(t, a) = n * Sub
      BY <3>3, <3>5, <3>6
    <3> QED BY <3>1, <3>3, <3>7, Zenon
  <2>2. CASE top = NoTop
    <3>1. PICK w \in Nat \ {0} : w = Wrap
      BY PwmBounds
    <3>2. PICK x \in Int : x = target - raw
      OBVIOUS
    <3>3. schedule(t, a) = (x % w) * Sub
      BY <1>1, <1>2, <1>3, <2>2, <3>1, <3>2 DEF Free, schedule
    <3>4. PICK j, q, r \in Int : j = x \div w /\ q = j * w /\ x = q + r /\ r = x % w /\ r \in 0 .. w - 1
      BY Remainders
    <3>5. top + 1 = w
      BY <2>2, <3>1, PwmBounds DEF NoTop
    <3>6. PICK m \in Int : m = -j
      OBVIOUS
    <3>7. m * w = -q
      BY <3>4, <3>6
    <3>8. r = target - raw + m * (top + 1)
      BY <3>2, <3>4, <3>5, <3>7
    <3>9. r \in Nat /\ schedule(t, a) = r * Sub
      BY <3>1, <3>3, <3>4
    <3>10. t.top = NoTop
      BY <1>2, <2>2
    <3> QED BY <3>8, <3>9, <3>10, Zenon
  <2> QED BY <2>1, <2>2
<1>6. PICK at \in Int : at = place(t)
  BY PlaceIs DEF Free
<1>7. PICK due, y, z \in Int : due = n * Sub /\ y = raw * Sub /\ z = target * Sub
  <2>1. n * Sub \in Int /\ raw * Sub \in Int /\ target * Sub \in Int
    BY PwmBounds
  <2> QED BY <2>1
<1>8. due = z - y + m * span
  <2>1. (target - raw + m * (top + 1)) * Sub = target * Sub - raw * Sub + m * ((top + 1) * Sub)
    BY PwmBounds
  <2> QED BY <1>2, <1>4, <1>5, <1>7, <2>1 DEF Span
<1>9. PICK q, mq \in Int : mq = m * span /\ q = p - mq
  OBVIOUS
<1>10. PICK i \in Int : i = k - m /\ q = i * span
  <2>1. (k - m) * span = k * span - m * span /\ k - m \in Int
    OBVIOUS
  <2> QED BY <1>1, <1>4, <1>9, <2>1
<1>11. 2 * Sub * raw = 2 * y
  BY <1>7, PwmBounds
<1>12. 2 * (at + due - z + q) + Sub \in 0 .. 2 * Sub - 1
  <2>1. PICK g \in Int : g = 2 * (at + p) + Sub - 2 * y
    BY PwmBounds
  <2>2. g \in 0 .. 2 * Sub - 1
    BY <1>1, <1>6, <1>11, <2>1 DEF Rounds
  <2>3. 2 * (at + due - z + q) + Sub = g
    BY <1>8, <1>9, <2>1, PwmBounds
  <2> QED BY <2>2, <2>3
<1>13. Hits(t, a, schedule(t, a))
  BY <1>3, <1>4, <1>5, <1>6, <1>7, <1>10, <1>12 DEF Hits
<1> QED BY <1>2, <1>5, <1>13

LEMMA ScheduleSkips ==
    ASSUME NEW t, IsTimer(t), NEW a \in {"A", "bottom"}, ~Reached(t, a) PROVE schedule(t, a) = Never
<1>1. t.target[a] \in Int /\ t.top \in Int
  BY TargetInt, PwmBounds DEF IsTimer
<1> QED BY <1>1 DEF Reached, schedule

LEMMA CountsInt ==
    ASSUME NEW t, IsTimer(t) PROVE rawCounter(t) \in Int /\ counter(t) \in Nat
<1>1. PICK base \in Int, ran \in Nat, top \in Nat \ {0} : base = t.base /\ ran = t.ran /\ top = t.top
  <2>1. t.base \in Int /\ t.ran \in Nat /\ t.top \in Nat \ {0}
    BY PwmBounds DEF IsTimer
  <2> QED BY <2>1
<1>2. PICK n \in Nat \ {0} : n = Period(t)
  <2>1. 2 * top \in Nat \ {0} /\ top + 1 \in Nat \ {0}
    OBVIOUS
  <2> QED BY <1>1, <2>1 DEF Period
<1>3. PICK x \in Int : x = 2 * (base * Sub + ran) + Sub
  BY PwmBounds
<1>4. PICK sub2 \in Nat \ {0} : sub2 = 2 * Sub
  BY PwmBounds
<1>5. PICK R \in Int : R = x \div sub2
  OBVIOUS
<1>6. rawCounter(t) = IF ~t.on THEN base ELSE IF t.top = NoTop THEN R ELSE R % n
  BY <1>1, <1>2, <1>3, <1>4, <1>5 DEF IsTimer, rawCounter
<1>7. R % n \in Int
  BY Remainders
<1>8. PICK raw \in Int : raw = rawCounter(t)
  BY <1>6, <1>7
<1>9. counter(t) = (IF t.mode = "ZigZag" /\ raw > top THEN 2 * top - raw ELSE raw) % Wrap
  BY <1>1, <1>8 DEF counter
<1>10. PICK v \in Int : v = IF t.mode = "ZigZag" /\ raw > top THEN 2 * top - raw ELSE raw
  OBVIOUS
<1>11. v % Wrap \in Nat
  BY PwmBounds
<1> QED BY <1>8, <1>9, <1>10, <1>11

LEMMA ScheduleAny ==
    ASSUME NEW t, IsTimer(t), NEW a \in {"A", "bottom"}
    PROVE  schedule(t, a) \in Nat \cup {Never} /\ (Reached(t, a) => schedule(t, a) \in Nat)
<1>1. PICK raw \in Int : raw = rawCounter(t)
  BY CountsInt
<1>2. PICK top \in Nat \ {0} : top = t.top
  BY PwmBounds DEF IsTimer
<1>3. PICK target \in Nat : target = t.target[a]
  BY TargetInt
<1>4. PICK folded \in Int : folded = IF t.mode # "ZigZag" \/ target - raw >= 0 THEN target - raw
                  ELSE IF target - raw < -top THEN target - raw + 2 * top
                  ELSE 2 * top - target - raw
  <2>1. target - raw \in Int /\ target - raw + 2 * top \in Int /\ 2 * top - target - raw \in Int
    OBVIOUS
  <2> QED BY <2>1, Zenon
<1>5. PICK next \in Int : next = IF t.top # NoTop /\ folded <= 0 THEN folded + top + 1 ELSE folded
  OBVIOUS
<1>6. schedule(t, a) = IF t.top # NoTop /\ target > top THEN Never ELSE (next % Wrap) * Sub
  BY <1>1, <1>2, <1>3, <1>4, <1>5 DEF schedule, IsTimer
<1>7. next % Wrap \in Nat
  BY PwmBounds
<1>8. (next % Wrap) * Sub \in Nat
  BY <1>7, PwmBounds
<1> QED BY <1>2, <1>3, <1>6, <1>8 DEF Reached

LEMMA BottomReached == ASSUME NEW t, IsTimer(t) PROVE Reached(t, "bottom")
BY PwmBounds DEF IsTimer, Reached

\* A whole number of ticks within half a tick of zero is none.
LEMMA HalfTickOff ==
    ASSUME NEW u \in Int, NEW n \in Int, u = n * Sub, 2 * u + Sub \in 0 .. 2 * Sub - 1
    PROVE  n = 0
<1>1. PICK v \in Int : v = 0
  OBVIOUS
<1>2. u - v = n * Sub /\ 2 * v + Sub \in 0 .. 2 * Sub - 1
  BY <1>1, PwmBounds
<1> QED BY <1>1, <1>2, HalfTick

LEMMA TopIs == ASSUME NEW t, IsTimer(t) PROVE t.top \in Nat \ {0} /\ t.top < Wrap
BY PwmBounds DEF IsTimer

\* The alarm at the bottom is called at it to the unit.
Exact(t, due) == \E k, p \in Int : p = k * Span(t) /\ place(t) + due = p

LEMMA BottomExact ==
    ASSUME NEW t, IsTimer(t), Free(t), NEW b \in Int, place(t) = b * Sub
    PROVE  Exact(t, schedule(t, "bottom"))
<1>1. Reached(t, "bottom") /\ t.target["bottom"] * Sub = 0
  <2>1. 0 * Sub = 0
    BY PwmBounds
  <2> QED BY <2>1, BottomReached DEF IsTimer
<1>2. PICK k, p \in Int :
          /\ p = k * Span(t)
          /\ 2 * (place(t) + schedule(t, "bottom") - t.target["bottom"] * Sub + p) + Sub \in 0 .. 2 * Sub - 1
  BY <1>1, ScheduleFree DEF Hits
<1>3. PICK n \in Nat : schedule(t, "bottom") = n * Sub
  BY <1>1, ScheduleFree
<1>4. PICK at, due \in Int : at = b * Sub /\ due = n * Sub
  <2>1. b * Sub \in Int /\ n * Sub \in Int
    BY PwmBounds
  <2> QED BY <2>1
<1>5. PICK x, m \in Int : x = b + n + m /\ m = k * (t.top + 1)
  <2>1. k * (t.top + 1) \in Int
    BY PwmBounds DEF IsTimer
  <2> QED BY <2>1
<1>6. x * Sub = at + due + p
  <2>1. PICK top \in Int : top = t.top
    BY PwmBounds DEF IsTimer
  <2>2. (b + n + k * (top + 1)) * Sub = b * Sub + n * Sub + k * ((top + 1) * Sub)
    BY PwmBounds
  <2> QED BY <1>2, <1>4, <1>5, <2>1, <2>2 DEF Span
<1>7. PICK u \in Int : u = at + due + p /\ 2 * u + Sub \in 0 .. 2 * Sub - 1
  <2>1. place(t) = at /\ schedule(t, "bottom") = due /\ at + due - 0 + p = at + due + p
    BY <1>3, <1>4
  <2>2. 2 * (at + due - 0 + p) + Sub \in 0 .. 2 * Sub - 1
    BY <1>1, <1>2, <2>1
  <2> QED BY <2>1, <2>2
<1>8. u = x * Sub
  BY <1>6, <1>7
<1>9. x = 0
  BY <1>7, <1>8, HalfTickOff
<1>10. at + due = -p
  BY <1>6, <1>9, PwmBounds
<1>11. PICK i, q \in Int : i = -k /\ q = -p
  OBVIOUS
<1>12. q = i * Span(t)
  <2>1. PICK span \in Int : span = Span(t)
    BY SpanPositive
  <2>2. (-k) * span = -(k * span)
    OBVIOUS
  <2> QED BY <1>2, <1>11, <2>1, <2>2
<1> QED BY <1>3, <1>4, <1>10, <1>11, <1>12 DEF Exact

\* Called at the bottom, the alarm comes back a round later.
LEMMA BottomAgain ==
    ASSUME NEW t, IsTimer(t), Free(t), t.top # NoTop, NEW k \in Int, place(t) = k * Span(t)
    PROVE  schedule(t, "bottom") = Span(t)
<1>1. PICK span \in Nat \ {0} : span = Span(t)
  BY SpanPositive
<1>2. PICK b \in Int : b = k * (t.top + 1) /\ place(t) = b * Sub
  <2>1. PICK top \in Int : top = t.top
    BY PwmBounds DEF IsTimer
  <2>2. (k * (top + 1)) * Sub = k * ((top + 1) * Sub)
    BY PwmBounds
  <2>3. k * (t.top + 1) \in Int
    BY <2>1
  <2> QED BY <2>1, <2>2, <2>3 DEF Span
<1>3. PICK j, q \in Int : q = j * Span(t) /\ place(t) + schedule(t, "bottom") = q
  BY <1>2, BottomExact DEF Exact
<1>4. PICK n \in Nat : schedule(t, "bottom") = n * Sub /\ n \in 1 .. t.top + 1
  BY BottomReached, ScheduleFree
<1>5. PICK due, p \in Int : due = n * Sub /\ p = k * span
  <2>1. n * Sub \in Int /\ k * span \in Int
    BY PwmBounds
  <2> QED BY <2>1
<1>6. due >= 1 /\ due <= span
  <2>1. PICK m \in Nat : m = t.top + 1 - n /\ t.top + 1 = n + m
    <3>1. PICK top \in Nat : top = t.top
      BY TopIs
    <3>2. n \in 1 .. top + 1
      BY <1>4, <3>1
    <3>3. top + 1 - n \in Nat /\ top + 1 = n + (top + 1 - n)
      BY <3>2
    <3> QED BY <3>1, <3>3
  <2>2. (n + m) * Sub = n * Sub + m * Sub /\ m * Sub >= 0 /\ n * Sub >= Sub
    BY <1>4, PwmBounds
  <2>3. span = due + m * Sub
    BY <1>1, <1>5, <2>1, <2>2 DEF Span
  <2> QED BY <1>5, <2>2, <2>3, PwmBounds
<1>7. p + due = q
  BY <1>1, <1>3, <1>4, <1>5
<1>8. PICK i \in Int : i = k + 1 /\ i * span = p + span
  BY <1>5
<1>9. j * span - i * span < span /\ i * span - j * span < span
  BY <1>1, <1>3, <1>6, <1>7, <1>8
<1>10. j = i
  BY <1>9, MultiplesApart
<1>11. q = p + span
  BY <1>1, <1>3, <1>8, <1>10
<1>12. due = span
  BY <1>7, <1>11
<1> QED BY <1>1, <1>4, <1>5, <1>12

\* Called at the target, the alarm comes back a round later.
LEMMA TargetAgain ==
    ASSUME NEW t, IsTimer(t), Free(t), t.top # NoTop, Reached(t, "A"), Hits(t, "A", 0)
    PROVE  schedule(t, "A") = Span(t)
<1>1. PICK span \in Nat \ {0} : span = Span(t)
  BY SpanPositive
<1>2. PICK k, p \in Int :
          p = k * Span(t) /\ 2 * (place(t) + 0 - t.target["A"] * Sub + p) + Sub \in 0 .. 2 * Sub - 1
  BY DEF Hits
<1>3. PICK j, q \in Int :
          q = j * Span(t) /\ 2 * (place(t) + schedule(t, "A") - t.target["A"] * Sub + q) + Sub \in 0 .. 2 * Sub - 1
  BY ScheduleFree DEF Hits
<1>4. PICK n \in Nat : schedule(t, "A") = n * Sub /\ n \in 1 .. t.top + 1
  BY ScheduleFree
<1>5. PICK at, w, due \in Int : at = place(t) /\ w = t.target["A"] * Sub /\ due = n * Sub
  <2>1. t.target["A"] * Sub \in Int /\ place(t) \in Int /\ n * Sub \in Int
    BY PlaceIs, TargetInt, PwmBounds DEF Free
  <2> QED BY <2>1
<1>6. due >= 1 /\ due <= span
  <2>1. PICK m \in Nat : m = t.top + 1 - n /\ t.top + 1 = n + m
    <3>1. PICK top \in Nat : top = t.top
      BY TopIs
    <3>2. n \in 1 .. top + 1
      BY <1>4, <3>1
    <3>3. top + 1 - n \in Nat /\ top + 1 = n + (top + 1 - n)
      BY <3>2
    <3> QED BY <3>1, <3>3
  <2>2. (n + m) * Sub = n * Sub + m * Sub /\ m * Sub >= 0 /\ n * Sub >= Sub
    BY <1>4, PwmBounds
  <2>3. span = due + m * Sub
    BY <1>1, <1>5, <2>1, <2>2 DEF Span
  <2> QED BY <1>5, <2>2, <2>3, PwmBounds
<1>7. PICK u, v \in Int : u = at + due - w + q /\ v = at + 0 - w + p
  OBVIOUS
<1>8. 2 * u + Sub \in 0 .. 2 * Sub - 1 /\ 2 * v + Sub \in 0 .. 2 * Sub - 1
  BY <1>2, <1>3, <1>4, <1>5, <1>7
<1>9. PICK i, x \in Int : i = j - k /\ x = n + (j - k) * (t.top + 1)
  <2>1. (j - k) * (t.top + 1) \in Int
    BY PwmBounds DEF IsTimer
  <2> QED BY <2>1
<1>10. x * Sub = due + q - p
  <2>1. PICK top \in Int : top = t.top
    BY PwmBounds DEF IsTimer
  <2>2. (n + (j - k) * (top + 1)) * Sub = n * Sub + j * ((top + 1) * Sub) - k * ((top + 1) * Sub)
    BY PwmBounds
  <2> QED BY <1>2, <1>3, <1>5, <1>9, <2>1, <2>2 DEF Span
<1>11. u - v = x * Sub
  BY <1>7, <1>10
<1>12. x = 0
  BY <1>8, <1>11, HalfTick
<1>13. due = p - q
  BY <1>10, <1>12, PwmBounds
<1>14. PICK l \in Int : l = k - j /\ l * span = due
  <2>1. (k - j) * span = k * span - j * span
    OBVIOUS
  <2> QED BY <1>1, <1>2, <1>3, <1>13, <2>1
<1>15. l * span - 1 * span < span /\ 1 * span - l * span < span
  BY <1>6, <1>14
<1>16. l = 1
  BY <1>15, MultiplesApart
<1>17. due = span
  BY <1>14, <1>16
<1> QED BY <1>1, <1>4, <1>5, <1>17

\* At the bottom the counter is 0.
LEMMA CounterAtBottom ==
    ASSUME NEW t, IsTimer(t), Free(t), NEW k \in Int, place(t) = k * Span(t)
    PROVE  counter(t) = 0
<1>1. PICK raw, j, p \in Int :
          /\ rawCounter(t) = raw /\ p = j * Span(t) /\ Rounds(place(t) + p, raw)
          /\ t.top # NoTop => raw \in 0 .. t.top
  BY RawCounter
<1>2. PICK span \in Nat \ {0}, n \in Nat \ {0} : span = Span(t) /\ n = t.top + 1 /\ span = n * Sub
  <2>1. Span(t) \in Nat \ {0} /\ t.top + 1 \in Nat \ {0}
    BY SpanPositive, TopIs
  <2> QED BY <2>1 DEF Span
<1>3. PICK i, q \in Int : i = k + j /\ q = i * n
  OBVIOUS
<1>4. q * Sub = place(t) + p
  <2>1. ((k + j) * n) * Sub = k * (n * Sub) + j * (n * Sub)
    BY PwmBounds
  <2> QED BY <1>1, <1>2, <1>3, <2>1
<1>5. PICK at, y \in Int : at = q * Sub /\ y = raw * Sub
  <2>1. q * Sub \in Int /\ raw * Sub \in Int
    BY PwmBounds
  <2> QED BY <2>1
<1>6. 2 * Sub * raw = 2 * y
  BY <1>5, PwmBounds
<1>7. 2 * (at - y) + Sub \in 0 .. 2 * Sub - 1
  <2>1. 2 * at + Sub - 2 * y \in 0 .. 2 * Sub - 1
    BY <1>1, <1>4, <1>5, <1>6 DEF Rounds
  <2> QED BY <2>1, PwmBounds
<1>8. PICK u, x \in Int : u = at - y /\ x = q - raw
  OBVIOUS
<1>9. u = x * Sub
  <2>1. (q - raw) * Sub = q * Sub - raw * Sub
    BY PwmBounds
  <2> QED BY <1>5, <1>8, <2>1
<1>10. 2 * u + Sub \in 0 .. 2 * Sub - 1
  BY <1>7, <1>8
<1>11. raw = q
  <2>1. x = 0
    BY <1>9, <1>10, HalfTickOff
  <2> QED BY <1>8, <2>1
<1>12. counter(t) = raw % Wrap
  BY <1>1 DEF counter, Free
<1>13. CASE t.top = NoTop
  <2>1. n = Wrap /\ 0 \in 0 .. n - 1
    <3>1. t.top + 1 = Wrap
      BY <1>13, PwmBounds DEF NoTop
    <3> QED BY <1>2, <3>1
  <2>2. (0 + i * n) % n = 0
    BY <2>1, RemainderIs
  <2>3. 0 + i * n = raw
    BY <1>3, <1>11
  <2> QED BY <1>12, <2>1, <2>2, <2>3
<1>14. CASE t.top # NoTop
  <2>1. raw \in 0 .. n - 1
    BY <1>1, <1>2, <1>14, TopIs
  <2>2. i * n - 0 * n < n /\ 0 * n - i * n < n
    BY <1>3, <1>11, <2>1
  <2>3. i = 0
    BY <2>2, MultiplesApart
  <2>4. raw = 0
    BY <1>3, <1>11, <2>3
  <2> QED BY <1>12, <2>4, PwmBounds
<1> QED BY <1>13, <1>14

\* The alarm at the compare value.
SoundA(t) ==
    /\ ~t.on => t.due["A"] = Never
    /\ Free(t) => IF Reached(t, "A")
                  THEN /\ t.due["A"] \in Nat /\ Hits(t, "A", t.due["A"])
                       /\ t.top # NoTop => t.due["A"] <= Span(t)
                  ELSE t.due["A"] = Never
\* The alarm at the bottom.
SoundB(t) ==
    /\ t.due["bottom"] = Never <=> ~t.on
    /\ Free(t) => Exact(t, t.due["bottom"])
Sound(t) == IsTimer(t) /\ SoundA(t) /\ SoundB(t)

SameTimer(u, t) ==
    /\ u.base = t.base /\ u.ran = t.ran /\ u.top = t.top /\ u.mode = t.mode /\ u.on = t.on
    /\ u.target = t.target /\ u.armed = t.armed

LEMMA SameFacts ==
    ASSUME NEW t, NEW u, SameTimer(u, t)
    PROVE  /\ place(u) = place(t) /\ Span(u) = Span(t) /\ (Free(u) <=> Free(t))
           /\ \A a : Reached(u, a) <=> Reached(t, a)
           /\ \A a, due : Hits(u, a, due) <=> Hits(t, a, due)
           /\ \A due : Exact(u, due) <=> Exact(t, due)
<1>1. place(u) = place(t) /\ Span(u) = Span(t) /\ (Free(u) <=> Free(t)) /\ u.target = t.target
  BY DEF SameTimer, place, Span, Free
<1>2. \A a : Reached(u, a) <=> Reached(t, a)
  BY DEF SameTimer, Reached
<1>3. \A a, due : Hits(u, a, due) <=> Hits(t, a, due)
  BY <1>1, Zenon DEF Hits
<1>4. \A due : Exact(u, due) <=> Exact(t, due)
  BY <1>1, Zenon DEF Exact
<1> QED BY <1>1, <1>2, <1>3, <1>4

LEMMA NeverNot == Never \notin Nat
BY PwmBounds

\* A new due time that schedule gives is sound.
LEMMA ScheduledA ==
    ASSUME NEW t, IsTimer(t), NEW u, SameTimer(u, t), u.due["A"] = IF t.on THEN schedule(t, "A") ELSE Never
    PROVE  SoundA(u)
<1>1. ~u.on => u.due["A"] = Never
  BY DEF SameTimer
<1>2. ASSUME Free(u), Reached(u, "A")
      PROVE  /\ u.due["A"] \in Nat /\ Hits(u, "A", u.due["A"])
             /\ u.top # NoTop => u.due["A"] <= Span(u)
  <2>1. Free(t) /\ Reached(t, "A") /\ u.due["A"] = schedule(t, "A") /\ u.top = t.top
    BY <1>2, SameFacts DEF Free, SameTimer
  <2>2. Hits(t, "A", schedule(t, "A")) /\ schedule(t, "A") \in Nat
    BY <2>1, ScheduleFree, ScheduleAny
  <2>3. ASSUME t.top # NoTop PROVE schedule(t, "A") <= Span(t)
    <3>1. PICK n \in Nat : schedule(t, "A") = n * Sub /\ n \in 1 .. t.top + 1
      BY <2>1, <2>3, ScheduleFree
    <3>2. PICK top \in Nat : top = t.top
      BY TopIs
    <3>3. PICK m \in Nat : top + 1 = n + m
      <4>1. top + 1 - n \in Nat /\ top + 1 = n + (top + 1 - n)
        BY <3>1, <3>2
      <4> QED BY <4>1
    <3>4. PICK x, y \in Nat : x = n * Sub /\ y = m * Sub
      <4>1. n * Sub \in Nat /\ m * Sub \in Nat
        BY PwmBounds
      <4> QED BY <4>1
    <3>5. (n + m) * Sub = n * Sub + m * Sub
      BY PwmBounds
    <3>6. Span(t) = x + y
      BY <3>2, <3>3, <3>4, <3>5 DEF Span
    <3> QED BY <3>1, <3>4, <3>6
  <2> QED BY <2>1, <2>2, <2>3, SameFacts
<1>3. ASSUME Free(u), ~Reached(u, "A") PROVE u.due["A"] = Never
  <2>1. Free(t) /\ ~Reached(t, "A") /\ u.due["A"] = schedule(t, "A")
    BY <1>3, SameFacts DEF Free
  <2> QED BY <2>1, ScheduleSkips
<1> QED BY <1>1, <1>2, <1>3 DEF SoundA

LEMMA ScheduledB ==
    ASSUME NEW t, IsTimer(t), NEW u, SameTimer(u, t), u.due["bottom"] = IF t.on THEN schedule(t, "bottom") ELSE Never,
           Free(t) => \E b \in Int : place(t) = b * Sub
    PROVE  SoundB(u)
<1>1. schedule(t, "bottom") # Never
  BY ScheduleAny, BottomReached, NeverNot
<1>2. u.due["bottom"] = Never <=> ~u.on
  BY <1>1 DEF SameTimer
<1>3. ASSUME Free(u) PROVE Exact(u, u.due["bottom"])
  <2>1. Free(t) /\ u.due["bottom"] = schedule(t, "bottom")
    BY <1>3, SameFacts DEF Free
  <2>2. PICK b \in Int : place(t) = b * Sub
    BY <2>1
  <2> QED BY <2>1, <2>2, BottomExact, SameFacts
<1> QED BY <1>2, <1>3 DEF SoundB

LEMMA UpdatedSound ==
    ASSUME NEW t, IsTimer(t), t.ran = 0
    PROVE  Sound(updated(t)) /\ SameTimer(updated(t), t)
<1> DEFINE u == updated(t)
<1>1. PICK d : d = [a \in Alarms |-> dueOf(t, a)]
  OBVIOUS
<1>2. u = [t EXCEPT !.due = d]
  BY <1>1 DEF updated
<1>3. \A a \in {"A", "bottom"} : dueOf(t, a) = IF t.on THEN schedule(t, a) ELSE Never
  BY DEF dueOf, IsTimer
<1>4. \A a \in {"A", "bottom"} : dueOf(t, a) \in Nat \cup {Never}
  BY <1>3, ScheduleAny
<1>5. /\ DOMAIN d = {"A", "bottom"} /\ d["A"] = dueOf(t, "A") /\ d["bottom"] = dueOf(t, "bottom")
      /\ d["A"] \in Nat \cup {Never} /\ d["bottom"] \in Nat \cup {Never}
  BY <1>1, <1>4, PwmBounds
<1>6. IsTimer(u)
  BY <1>2, <1>5 DEF IsTimer, TimerFields
<1>7. SameTimer(u, t) /\ u.due = d
  BY <1>2 DEF IsTimer, TimerFields, SameTimer
<1> HIDE DEF u
<1>8. SoundA(u)
  BY <1>3, <1>5, <1>7, ScheduledA
<1>9. Free(t) => \E b \in Int : place(t) = b * Sub
  <2>1. t.base \in Int /\ (Free(t) => place(t) = t.base * Sub + 0)
    BY PlaceIs DEF Free, IsTimer
  <2>2. t.base * Sub + 0 = t.base * Sub
    BY <2>1, PwmBounds
  <2> QED BY <2>1, <2>2
<1>10. SoundB(u)
  BY <1>3, <1>5, <1>7, <1>9, ScheduledB
<1> QED BY <1>6, <1>7, <1>8, <1>10 DEF Sound, u

LEMMA SetSound ==
    ASSUME NEW t, IsTimer(t), NEW value \in Int
    PROVE  /\ Sound(set(t, value)) /\ set(t, value).base = value /\ set(t, value).ran = 0
           /\ set(t, value).mode = t.mode /\ set(t, value).top = t.top /\ set(t, value).on = t.on
           /\ set(t, value).target = t.target
<1> DEFINE m == [t EXCEPT !.base = value, !.ran = 0]
<1>1. IsTimer(m) /\ m.on = t.on /\ m.mode = t.mode /\ m.top = t.top /\ m.target = t.target /\ m.base = value /\ m.ran = 0
  BY DEF IsTimer, TimerFields
<1>2. set(t, value) = updated(m)
  BY DEF set
<1> HIDE DEF m
<1> QED BY <1>1, <1>2, UpdatedSound DEF SameTimer

LEMMA SetTopSound ==
    ASSUME NEW t, IsTimer(t), NEW top \in 1 .. Wrap - 2
    PROVE  /\ Sound(setTop(t, top)) /\ setTop(t, top).top = top /\ setTop(t, top).ran = 0
           /\ setTop(t, top).base = (IF counter(t) <= top THEN counter(t) ELSE 0)
           /\ setTop(t, top).mode = t.mode /\ setTop(t, top).on = t.on /\ setTop(t, top).target = t.target
<1> DEFINE m == [t EXCEPT !.top = top]
<1>1. PICK value \in Int : value = IF counter(t) <= top THEN counter(t) ELSE 0
  <2>1. counter(t) \in Int /\ 0 \in Int
    BY CountsInt
  <2> QED BY <2>1
<1>2. top \in 1 .. Wrap - 1
  BY PwmBounds
<1>3. IsTimer(m) /\ m.on = t.on /\ m.mode = t.mode /\ m.top = top /\ m.target = t.target
  BY <1>2 DEF IsTimer, TimerFields
<1>4. setTop(t, top) = set(m, value)
  BY <1>1 DEF setTop
<1> HIDE DEF m
<1> QED BY <1>1, <1>3, <1>4, SetSound

LEMMA SetModeSound ==
    ASSUME NEW t, Sound(t), NEW mode \in {"Increment", "ZigZag"}
    PROVE  Sound(setMode(t, mode)) /\ setMode(t, mode).mode = mode /\ setMode(t, mode).top = t.top
<1>1. CASE mode = t.mode
  BY <1>1 DEF setMode
<1>2. CASE mode # t.mode
  <2> DEFINE m == [t EXCEPT !.mode = mode]
  <2>1. counter(t) \in Int
    BY CountsInt DEF Sound
  <2>2. IsTimer(m) /\ m.mode = mode /\ m.top = t.top
    BY DEF Sound, IsTimer, TimerFields
  <2>3. setMode(t, mode) = set(m, counter(t))
    BY <1>2 DEF setMode
  <2> HIDE DEF m
  <2> QED BY <2>1, <2>2, <2>3, SetSound
<1> QED BY <1>1, <1>2

LEMMA SetPrescalerSound ==
    ASSUME NEW t, Sound(t)
    PROVE  /\ Sound(setPrescaler(t, FALSE)) /\ setPrescaler(t, FALSE).mode = t.mode
           /\ setPrescaler(t, FALSE).top = t.top
<1> DEFINE m == [t EXCEPT !.base = counter(t), !.ran = 0, !.on = ~t.zeroDiv, !.zeroDiv = FALSE]
<1>1. counter(t) \in Int
  BY CountsInt DEF Sound
<1>2. IsTimer(m) /\ m.mode = t.mode /\ m.top = t.top /\ m.ran = 0
  BY <1>1 DEF Sound, IsTimer, TimerFields
<1>3. setPrescaler(t, FALSE) = updated(m)
  BY DEF setPrescaler
<1> HIDE DEF m
<1> QED BY <1>2, <1>3, UpdatedSound DEF SameTimer

LEMMA SetEnableSound ==
    ASSUME NEW t, Sound(t), NEW on \in BOOLEAN
    PROVE  Sound(setEnable(t, on)) /\ setEnable(t, on).mode = t.mode /\ setEnable(t, on).top = t.top
<1>1. CASE on = t.on
  BY <1>1 DEF setEnable
<1>2. CASE on # t.on
  <2> DEFINE m == [t EXCEPT !.on = on, !.base = IF on THEN t.base ELSE counter(t), !.ran = 0]
  <2>1. counter(t) \in Int
    BY CountsInt DEF Sound
  <2>2. IsTimer(m) /\ m.mode = t.mode /\ m.top = t.top /\ m.ran = 0
    BY <2>1 DEF Sound, IsTimer, TimerFields
  <2>3. setEnable(t, on) = updated(m)
    BY <1>2 DEF setEnable
  <2> HIDE DEF m
  <2> QED BY <2>2, <2>3, UpdatedSound DEF SameTimer
<1> QED BY <1>1, <1>2

\* A new compare value moves its own alarm only.
LEMMA SetTargetSound ==
    ASSUME NEW t, IsTimer(t), SoundA(t), NEW value \in Nat
    PROVE  LET u == setTarget(t, "A", value) IN
           /\ IsTimer(u) /\ SoundA(u) /\ u.target["A"] = value /\ u.due["bottom"] = t.due["bottom"]
           /\ u.base = t.base /\ u.ran = t.ran /\ u.top = t.top /\ u.mode = t.mode /\ u.on = t.on
<1> DEFINE m == [t EXCEPT !.target["A"] = value]
<1>1. /\ IsTimer(m) /\ m.target["A"] = value /\ m.due = t.due
      /\ m.base = t.base /\ m.ran = t.ran /\ m.top = t.top /\ m.mode = t.mode /\ m.on = t.on
  BY DEF IsTimer, TimerFields
<1>2. setTarget(t, "A", value) = IF value = t.target["A"] \/ ~t.on THEN m ELSE [m EXCEPT !.due["A"] = schedule(m, "A")]
  BY DEF setTarget, IsTimer
<1> HIDE DEF m
<1>4. CASE value = t.target["A"]
  <2>1. Span(m) = Span(t) /\ place(m) = place(t) /\ m.target["A"] = t.target["A"]
    BY <1>1, <1>4 DEF Span, place
  <2>2. Hits(m, "A", t.due["A"]) <=> Hits(t, "A", t.due["A"])
    BY <2>1, Zenon DEF Hits
  <2>3. SoundA(m)
    BY <1>1, <2>1, <2>2 DEF SoundA, Free, Reached
  <2> QED BY <1>1, <1>2, <1>4, <2>3
<1>5. CASE value # t.target["A"] /\ ~t.on
  <2>1. SoundA(m)
    BY <1>1, <1>5 DEF SoundA, Free
  <2> QED BY <1>1, <1>2, <1>5, <2>1
<1>6. CASE value # t.target["A"] /\ t.on
  <2> DEFINE u == [m EXCEPT !.due["A"] = schedule(m, "A")]
  <2>1. schedule(m, "A") \in Nat \cup {Never}
    BY <1>1, ScheduleAny
  <2>2. /\ IsTimer(u) /\ SameTimer(u, m) /\ u.due["A"] = schedule(m, "A") /\ u.due["bottom"] = m.due["bottom"]
    BY <1>1, <2>1 DEF IsTimer, TimerFields, SameTimer
  <2>3. setTarget(t, "A", value) = u
    BY <1>2, <1>6
  <2> HIDE DEF u
  <2>4. SoundA(u)
    BY <1>1, <1>6, <2>2, ScheduledA
  <2> QED BY <1>1, <2>2, <2>3, <2>4 DEF SameTimer
<1> QED BY <1>4, <1>5, <1>6

LEMMA TakenFacts ==
    ASSUME NEW t, IsTimer(t), NEW a \in {"A", "bottom"}
    PROVE  /\ IsTimer(taken(t, a)) /\ SameTimer(taken(t, a), t)
           /\ a = "A" => taken(t, a).due["bottom"] = t.due["bottom"]
           /\ a = "bottom" => taken(t, a).due["A"] = t.due["A"]
BY DEF IsTimer, TimerFields, taken, SameTimer

LEMMA AgainFacts ==
    ASSUME NEW t, IsTimer(t), t.on, NEW a \in {"A", "bottom"}
    PROVE  /\ IsTimer(again(t, a)) /\ SameTimer(again(t, a), t) /\ again(t, a).due[a] = schedule(t, a)
           /\ a = "A" => again(t, a).due["bottom"] = t.due["bottom"]
           /\ a = "bottom" => again(t, a).due["A"] = t.due["A"]
<1>1. PICK d : d = schedule(t, a)
  OBVIOUS
<1>2. again(t, a) = [t EXCEPT !.due[a] = d]
  BY <1>1 DEF again, IsTimer
<1>3. d \in Nat \cup {Never}
  BY <1>1, ScheduleAny
<1>4. CASE a = "A"
  <2> DEFINE w == [t EXCEPT !.due["A"] = d]
  <2>1. IsTimer(w) /\ SameTimer(w, t) /\ w.due["A"] = d /\ w.due["bottom"] = t.due["bottom"]
    BY <1>3 DEF IsTimer, TimerFields, SameTimer
  <2>2. again(t, a) = w
    BY <1>2, <1>4
  <2> QED BY <1>1, <1>4, <2>1, <2>2
<1>5. CASE a = "bottom"
  <2> DEFINE w == [t EXCEPT !.due["bottom"] = d]
  <2>1. IsTimer(w) /\ SameTimer(w, t) /\ w.due["A"] = t.due["A"] /\ w.due["bottom"] = d
    BY <1>3 DEF IsTimer, TimerFields, SameTimer
  <2>2. again(t, a) = w
    BY <1>2, <1>5
  <2> QED BY <1>1, <1>5, <2>1, <2>2
<1> QED BY <1>4, <1>5

SliceFields == {"en", "ph", "inv", "cc", "ccUpdated", "top", "topUpdated", "out", "intRaw", "timer", "clean"}
IsSlice(s) ==
    /\ DOMAIN s = SliceFields /\ s = [f \in SliceFields |-> s[f]]
    /\ s.en \in BOOLEAN /\ s.ph \in BOOLEAN /\ s.inv \in BOOLEAN /\ s.out \in BOOLEAN /\ s.clean \in BOOLEAN
    /\ s.cc \in Nat /\ s.ccUpdated \in BOOLEAN /\ s.top \in 1 .. Wrap - 2 /\ s.topUpdated \in BOOLEAN
    /\ s.intRaw \in BOOLEAN
    \* A timer that has no wrap value gets one when its slice is started.
    /\ s.timer.top = NoTop => s.topUpdated

AtBottom(t) == \E k, p \in Int : p = k * Span(t) /\ place(t) = p

LEMMA LoadedFacts ==
    ASSUME NEW s, IsSlice(s), IsTimer(s.timer), SoundA(s.timer)
    PROVE  LET u == updateDoubleBuffered(s) IN
           /\ IsSlice(u) /\ u.en = s.en /\ u.ph = s.ph /\ u.inv = s.inv /\ u.out = s.out /\ u.clean = s.clean
           /\ IsTimer(u.timer) /\ SoundA(u.timer) /\ u.timer.top # NoTop
           /\ u.timer.mode = s.timer.mode /\ u.timer.on = s.timer.on
           /\ SoundB(s.timer) => SoundB(u.timer)
           /\ Free(s.timer) /\ AtBottom(s.timer) => AtBottom(u.timer)
<1> DEFINE t == s.timer
           c == IF s.ccUpdated THEN setTarget(t, "A", s.cc) ELSE t
           v == IF s.topUpdated THEN setTop(c, s.top) ELSE c
           u == updateDoubleBuffered(s)
<1>1. /\ IsTimer(c) /\ SoundA(c) /\ c.due["bottom"] = t.due["bottom"]
      /\ c.base = t.base /\ c.ran = t.ran /\ c.top = t.top /\ c.mode = t.mode /\ c.on = t.on
  <2>1. s.cc \in Nat
    BY DEF IsSlice
  <2>2. CASE s.ccUpdated
    BY <2>1, <2>2, SetTargetSound
  <2>3. CASE ~s.ccUpdated
    BY <2>3
  <2> QED BY <2>2, <2>3
<1>2. u = [s EXCEPT !.timer = v, !.ccUpdated = FALSE, !.topUpdated = FALSE]
  BY DEF updateDoubleBuffered
<1> HIDE DEF c
<1>3. s.top \in 1 .. Wrap - 2 /\ s.top # NoTop
  BY PwmBounds DEF IsSlice, NoTop
<1>4. place(c) = place(t) /\ Span(c) = Span(t) /\ (Free(c) <=> Free(t))
  BY <1>1 DEF place, Span, Free
<1>5. SoundB(t) => SoundB(c)
  BY <1>1, <1>4, Zenon DEF SoundB, Exact
<1>6. /\ IsTimer(v) /\ SoundA(v) /\ v.top # NoTop /\ v.mode = t.mode /\ v.on = t.on
      /\ SoundB(t) => SoundB(v)
  <2>1. CASE s.topUpdated
    BY <1>1, <1>3, <2>1, SetTopSound DEF Sound
  <2>2. CASE ~s.topUpdated
    BY <1>1, <1>5, <2>2 DEF IsSlice
  <2> QED BY <2>1, <2>2
<1>7. ASSUME Free(t), AtBottom(t) PROVE AtBottom(v)
  <2>1. PICK k \in Int : place(t) = k * Span(t)
    BY <1>7 DEF AtBottom
  <2>2. CASE ~s.topUpdated
    BY <1>4, <1>7, <2>2 DEF AtBottom
  <2>3. CASE s.topUpdated
    <3>1. counter(c) = 0
      BY <1>1, <1>4, <1>7, <2>1, CounterAtBottom
    <3>2. v.base = 0 /\ v.ran = 0 /\ v.mode = "Increment"
      BY <1>1, <1>3, <1>7, <2>3, <3>1, SetTopSound DEF Free
    <3>3. place(v) = 0
      <4>1. place(v) = 0 * Sub + 0
        BY <3>2 DEF place
      <4> QED BY <4>1, PwmBounds
    <3>4. 0 = 0 * Span(v)
      <4>1. Span(v) \in Int
        BY <1>6, SpanPositive
      <4> QED BY <4>1
    <3> QED BY <3>3, <3>4 DEF AtBottom
  <2> QED BY <2>2, <2>3
<1> HIDE DEF v
<1>8. /\ IsSlice(u) /\ u.timer = v
      /\ u.en = s.en /\ u.ph = s.ph /\ u.inv = s.inv /\ u.out = s.out /\ u.clean = s.clean
  BY <1>2, <1>6 DEF IsSlice, SliceFields
<1> QED BY <1>6, <1>7, <1>8

-----------------------------------------------------------------------------
(* The output of a slice since the last wrap.                                 *)

Up(s) == s.out # s.inv
\* j calls of the compare alarm have been made since the wrap, or were due then.
Phase(s, j) ==
    LET t == s.timer
        span == Span(t)
        w == t.target["A"] * Sub
    IN  /\ 2 * (span - t.due["bottom"] + t.due["A"] - w - j * span) + Sub \in 0 .. 2 * Sub - 1
        /\ j = 0 => (Up(s) <=> t.target["A"] > 0)
        /\ j >= 1 => ~Up(s) /\ 2 * (span - t.due["bottom"] - w - (j - 1) * span) + Sub >= 0
Duty(s) ==
    LET t == s.timer
    IN  s.clean /\ t.on =>
            /\ ~s.ph /\ t.top # NoTop /\ t.due["bottom"] \in 0 .. Span(t)
            /\ t.target["A"] > t.top => Up(s)
            /\ t.target["A"] <= t.top => \E j \in 0 .. 2 : Phase(s, j)

ModeKept(s) == s.timer.mode = IF s.ph THEN "ZigZag" ELSE "Increment"
SliceGood(s) == IsSlice(s) /\ Sound(s.timer) /\ ModeKept(s) /\ Duty(s)

LEMMA EnFacts ==
    ASSUME NEW s, IsSlice(s), Sound(s.timer), NEW en \in BOOLEAN
    PROVE  LET u == writeEn(s, en) IN
           /\ IsSlice(u) /\ Sound(u.timer) /\ u.timer.mode = s.timer.mode
           /\ u.ph = s.ph /\ u.clean = FALSE
<1> DEFINE l == IF en /\ ~s.en THEN updateDoubleBuffered(s) ELSE s
           m == [l EXCEPT !.en = en, !.clean = FALSE]
<1>1. IsSlice(l) /\ Sound(l.timer) /\ l.timer.mode = s.timer.mode /\ l.ph = s.ph
  BY LoadedFacts DEF Sound
<1> HIDE DEF l
<1>2. IsSlice(m) /\ m.timer = l.timer /\ m.ph = s.ph /\ m.clean = FALSE /\ m.en = en
  BY <1>1 DEF IsSlice, SliceFields
<1> HIDE DEF m
<1>3. PICK v : v = setEnable(m.timer, m.en)
  OBVIOUS
<1>4. Sound(v) /\ v.mode = s.timer.mode /\ v.top = m.timer.top
  BY <1>1, <1>2, <1>3, SetEnableSound
<1>5. writeEn(s, en) = [m EXCEPT !.timer = v]
  BY <1>3 DEF writeEn, updateEnable, m, l
<1> DEFINE u == [m EXCEPT !.timer = v]
<1>6. IsSlice(u) /\ u.timer = v /\ u.ph = s.ph /\ u.clean = FALSE
  BY <1>2, <1>4 DEF IsSlice, SliceFields
<1> QED BY <1>4, <1>5, <1>6

LEMMA EnGood == ASSUME NEW s, SliceGood(s), NEW en \in BOOLEAN PROVE SliceGood(writeEn(s, en))
BY EnFacts DEF SliceGood, ModeKept, Duty

LEMMA CSRGood ==
    ASSUME NEW s, SliceGood(s), NEW en \in BOOLEAN, NEW ph \in BOOLEAN, NEW inv \in BOOLEAN
    PROVE  SliceGood(writeCSR(s, en, ph, inv))
<1> DEFINE m == [s EXCEPT !.ph = ph, !.inv = inv]
           e == writeEn(m, en)
           mode == IF ph THEN "ZigZag" ELSE "Increment"
<1>1. IsSlice(m) /\ m.timer = s.timer /\ m.ph = ph
  BY DEF SliceGood, IsSlice, SliceFields
<1>2. Sound(m.timer)
  BY <1>1 DEF SliceGood
<1> HIDE DEF m
<1>3. IsSlice(e) /\ Sound(e.timer) /\ e.ph = ph /\ e.clean = FALSE
  BY <1>1, <1>2, EnFacts
<1> HIDE DEF e
<1>4. PICK v : v = setMode(e.timer, mode)
  OBVIOUS
<1>5. Sound(v) /\ v.mode = mode /\ v.top = e.timer.top
  BY <1>3, <1>4, SetModeSound
<1>6. writeCSR(s, en, ph, inv) = [e EXCEPT !.timer = v]
  BY <1>4 DEF writeCSR, e, m
<1> DEFINE u == [e EXCEPT !.timer = v]
<1>7. IsSlice(u) /\ u.timer = v /\ u.ph = ph /\ u.clean = FALSE
  BY <1>3, <1>5 DEF IsSlice, SliceFields
<1>8. SliceGood(u)
  BY <1>5, <1>7 DEF SliceGood, ModeKept, Duty
<1> QED BY <1>6, <1>8

LEMMA DIVGood == ASSUME NEW s, SliceGood(s) PROVE SliceGood(writeDIV(s))
<1>1. PICK v : v = setPrescaler(s.timer, FALSE)
  OBVIOUS
<1>2. Sound(v) /\ v.mode = s.timer.mode /\ v.top = s.timer.top
  BY <1>1, SetPrescalerSound DEF SliceGood
<1> DEFINE u == [s EXCEPT !.timer = v, !.clean = FALSE]
<1>3. IsSlice(u) /\ u.timer = v /\ u.ph = s.ph /\ u.clean = FALSE
  BY <1>2 DEF SliceGood, IsSlice, SliceFields
<1>4. SliceGood(u)
  BY <1>2, <1>3 DEF SliceGood, ModeKept, Duty
<1> QED BY <1>1, <1>4 DEF writeDIV

LEMMA CTRGood == ASSUME NEW s, SliceGood(s), NEW value \in Nat PROVE SliceGood(writeCTR(s, value))
<1>1. PICK v : v = set(s.timer, value)
  OBVIOUS
<1>2. Sound(v) /\ v.mode = s.timer.mode /\ v.top = s.timer.top
  BY <1>1, SetSound DEF SliceGood, Sound
<1> DEFINE u == [s EXCEPT !.timer = v, !.clean = FALSE]
<1>3. IsSlice(u) /\ u.timer = v /\ u.ph = s.ph /\ u.clean = FALSE
  BY <1>2 DEF SliceGood, IsSlice, SliceFields
<1>4. SliceGood(u)
  BY <1>2, <1>3 DEF SliceGood, ModeKept, Duty
<1> QED BY <1>1, <1>4 DEF writeCTR

\* A new compare or wrap value waits for the next wrap.
LEMMA BufferedGood ==
    ASSUME NEW s, SliceGood(s), NEW u, IsSlice(u),
           u.timer = s.timer, u.ph = s.ph, u.inv = s.inv, u.out = s.out, u.clean = s.clean
    PROVE  SliceGood(u)
BY Zenon DEF SliceGood, ModeKept, Duty, Phase, Up

LEMMA CCGood == ASSUME NEW s, SliceGood(s), NEW value \in Nat PROVE SliceGood(writeCC(s, value))
<1> DEFINE u == [s EXCEPT !.cc = value, !.ccUpdated = TRUE]
<1>1. IsSlice(u) /\ u.timer = s.timer /\ u.ph = s.ph /\ u.inv = s.inv /\ u.out = s.out /\ u.clean = s.clean
  BY DEF SliceGood, IsSlice, SliceFields
<1> HIDE DEF u
<1>2. SliceGood(u)
  BY <1>1, BufferedGood
<1> QED BY <1>2 DEF writeCC, u

LEMMA TOPGood == ASSUME NEW s, SliceGood(s), NEW value \in 1 .. Wrap - 2 PROVE SliceGood(writeTOP(s, value))
<1> DEFINE u == [s EXCEPT !.top = value, !.topUpdated = TRUE]
<1>1. IsSlice(u) /\ u.timer = s.timer /\ u.ph = s.ph /\ u.inv = s.inv /\ u.out = s.out /\ u.clean = s.clean
  BY DEF SliceGood, IsSlice, SliceFields
<1> HIDE DEF u
<1>2. SliceGood(u)
  BY <1>1, BufferedGood
<1> QED BY <1>2 DEF writeTOP, u

LEMMA ClearGood == ASSUME NEW s, SliceGood(s) PROVE SliceGood([s EXCEPT !.intRaw = FALSE])
<1> DEFINE u == [s EXCEPT !.intRaw = FALSE]
<1>1. IsSlice(u) /\ u.timer = s.timer /\ u.ph = s.ph /\ u.inv = s.inv /\ u.out = s.out /\ u.clean = s.clean
  BY DEF SliceGood, IsSlice, SliceFields
<1> HIDE DEF u
<1>2. SliceGood(u)
  BY <1>1, BufferedGood
<1> QED BY <1>2 DEF u

\* The compare alarm of a timer that runs up to a wrap value is set if the counter reaches it.
LEMMA FreeFacts ==
    ASSUME NEW t, IsTimer(t), SoundA(t), Free(t), t.top # NoTop
    PROVE  /\ t.top \in Nat /\ t.target["A"] \in Nat /\ Span(t) \in Nat \ {0} /\ Span(t) >= 2 * Sub
           /\ IF t.target["A"] <= t.top
              THEN /\ t.due["A"] \in 0 .. Span(t) /\ Hits(t, "A", t.due["A"])
                   /\ t.target["A"] * Sub \in Nat /\ t.target["A"] * Sub <= Span(t) - Sub
              ELSE t.due["A"] = Never /\ t.target["A"] * Sub \in Nat /\ t.target["A"] * Sub >= Span(t)
<1>1. Span(t) \in Nat \ {0} /\ Span(t) >= 2 * Sub
  BY SpanPositive
<1>2. PICK top \in Nat, target \in Nat : top = t.top /\ target = t.target["A"]
  BY TopIs, TargetInt
<1>3. Reached(t, "A") <=> target <= top
  BY <1>2 DEF Reached
<1>4. CASE target <= top
  <2>1. t.due["A"] \in Nat /\ Hits(t, "A", t.due["A"]) /\ t.due["A"] <= Span(t)
    BY <1>3, <1>4 DEF SoundA
  <2>2. t.due["A"] \in 0 .. Span(t)
    BY <1>1, <2>1
  <2>3. PICK m \in Nat : top = target + m
    <3>1. top - target \in Nat /\ top = target + (top - target)
      BY <1>4
    <3> QED BY <3>1
  <2>4. (target + m + 1) * Sub = target * Sub + m * Sub + Sub /\ target * Sub \in Nat /\ m * Sub \in Nat
    BY PwmBounds
  <2>5. PICK x, y \in Nat : x = target * Sub /\ y = m * Sub
    BY <2>4
  <2>6. Span(t) = x + y + Sub
    BY <1>2, <2>3, <2>4, <2>5 DEF Span
  <2>7. x <= Span(t) - Sub
    BY <2>5, <2>6, PwmBounds
  <2> QED BY <1>1, <1>2, <1>4, <2>1, <2>2, <2>5, <2>7
<1>5. CASE ~(target <= top)
  <2>1. t.due["A"] = Never
    BY <1>3, <1>5 DEF SoundA
  <2>3. PICK m \in Nat : target = top + 1 + m
    <3>1. target - (top + 1) \in Nat /\ target = top + 1 + (target - (top + 1))
      BY <1>5
    <3> QED BY <3>1
  <2>4. (top + 1 + m) * Sub = (top + 1) * Sub + m * Sub /\ (top + 1) * Sub \in Nat /\ m * Sub \in Nat
    BY PwmBounds
  <2>5. PICK x, y \in Nat : x = (top + 1) * Sub /\ y = m * Sub
    BY <2>4
  <2>6. Span(t) = x /\ target * Sub = x + y
    BY <1>2, <2>3, <2>4, <2>5 DEF Span
  <2>7. target * Sub \in Nat /\ target * Sub >= Span(t)
    BY <2>5, <2>6
  <2> QED BY <1>1, <1>2, <1>5, <2>1, <2>7
<1> QED BY <1>4, <1>5

LEMMA CleanFacts ==
    ASSUME NEW s, SliceGood(s), s.clean, s.timer.on
    PROVE  LET t == s.timer IN Free(t) /\ t.top # NoTop /\ t.due["bottom"] \in 0 .. Span(t)
<1>1. ModeKept(s) /\ Duty(s)
  BY DEF SliceGood
<1> QED BY <1>1 DEF Duty, ModeKept, Free

-----------------------------------------------------------------------------
(* The call of the compare alarm.                                             *)

LEMMA CallAGood ==
    ASSUME NEW s, SliceGood(s), expired(s.timer, "A")
    PROVE  SliceGood([setA([s EXCEPT !.timer = taken(@, "A")], FALSE) EXCEPT !.timer = again(@, "A")])
<1> DEFINE t == s.timer
           g == taken(t, "A")
           v == again(g, "A")
           u == [s EXCEPT !.out = (FALSE # s.inv), !.timer = v]
<1>1. IsTimer(t) /\ SoundA(t) /\ SoundB(t) /\ t.due["A"] = 0 /\ IsSlice(s)
  BY DEF SliceGood, Sound, expired
<1>2. t.on
  BY <1>1, NeverNot DEF SoundA
<1>3. IsTimer(g) /\ SameTimer(g, t) /\ g.due["bottom"] = t.due["bottom"] /\ g.on
  BY <1>1, <1>2, TakenFacts DEF SameTimer
<1>4. IsTimer(v) /\ SameTimer(v, g) /\ v.due["A"] = schedule(g, "A") /\ v.due["bottom"] = t.due["bottom"]
  BY <1>3, AgainFacts
<1> HIDE DEF g, v
<1>5. SameTimer(v, t)
  BY <1>3, <1>4 DEF SameTimer
<1>6. SoundA(v)
  BY <1>3, <1>4, ScheduledA
<1>7. SoundB(v)
  BY <1>1, <1>4, <1>5, SameFacts DEF SoundB, SameTimer
<1>8. [setA([s EXCEPT !.timer = taken(@, "A")], FALSE) EXCEPT !.timer = again(@, "A")] = u
  BY <1>1 DEF setA, g, v, IsSlice, SliceFields
<1>9. /\ IsSlice(u) /\ u.timer = v /\ u.ph = s.ph /\ u.clean = s.clean /\ u.inv = s.inv /\ ~Up(u)
  <2>1. v.top = t.top
    BY <1>5 DEF SameTimer
  <2>2. (FALSE # s.inv) \in BOOLEAN /\ ~((FALSE # s.inv) # s.inv)
    BY <1>1 DEF IsSlice
  <2>3. u.out = (FALSE # s.inv) /\ u.timer = v /\ u.ph = s.ph /\ u.clean = s.clean /\ u.inv = s.inv
    BY <1>1 DEF IsSlice, SliceFields
  <2>4. IsSlice(u)
    BY <1>1, <2>1, <2>2 DEF IsSlice, SliceFields
  <2> QED BY <2>2, <2>3, <2>4 DEF Up
<1> HIDE DEF u
<1>10. ModeKept(u)
  BY <1>5, <1>9 DEF SliceGood, ModeKept, SameTimer
<1>11. Duty(u)
  <2> SUFFICES ASSUME u.clean, v.on
               PROVE  /\ ~u.ph /\ v.top # NoTop /\ v.due["bottom"] \in 0 .. Span(v)
                      /\ v.target["A"] > v.top => Up(u)
                      /\ v.target["A"] <= v.top => \E j \in 0 .. 2 : Phase(u, j)
    BY <1>9 DEF Duty
  <2>1. s.clean /\ Duty(s)
    BY <1>9 DEF SliceGood
  <2>2. /\ Free(t) /\ t.top # NoTop /\ t.top \in Nat /\ t.target["A"] \in Nat
        /\ Span(t) \in Nat \ {0} /\ Span(t) >= 2 * Sub /\ t.due["bottom"] \in 0 .. Span(t)
        /\ IF t.target["A"] <= t.top
           THEN /\ t.due["A"] \in 0 .. Span(t) /\ Hits(t, "A", t.due["A"])
                /\ t.target["A"] * Sub \in Nat /\ t.target["A"] * Sub <= Span(t) - Sub
           ELSE t.due["A"] = Never /\ t.target["A"] * Sub \in Nat /\ t.target["A"] * Sub >= Span(t)
    BY <1>1, <1>2, <2>1, CleanFacts, FreeFacts
  <2>3. t.target["A"] <= t.top
    BY <1>1, <2>2, NeverNot
  <2>4. Reached(g, "A") /\ Free(g) /\ g.top # NoTop /\ Hits(g, "A", 0) /\ Span(g) = Span(t)
    BY <1>1, <1>3, <2>2, <2>3, SameFacts DEF Reached, SameTimer
  <2>5. v.due["A"] = Span(t)
    BY <1>3, <1>4, <2>4, TargetAgain
  <2>6. PICK j \in 0 .. 2 : Phase(s, j)
    BY <1>2, <2>1, <2>3 DEF Duty
  <2>7. PICK span \in Nat \ {0}, w \in Nat, due \in Int :
            span = Span(t) /\ w = t.target["A"] * Sub /\ due = t.due["bottom"] /\ due \in 0 .. span /\ span >= 2 * Sub
    <3>1. t.due["bottom"] \in Int /\ t.target["A"] * Sub \in Nat
      BY <2>2, <2>3
    <3> QED BY <2>2, <3>1
  <2>8. /\ 2 * (span - due + 0 - w - j * span) + Sub \in 0 .. 2 * Sub - 1
        /\ j >= 1 => 2 * (span - due - w - (j - 1) * span) + Sub >= 0
    BY <1>1, <2>6, <2>7 DEF Phase
  <2>9. j # 2
    <3> SUFFICES ASSUME j = 2 PROVE FALSE
      OBVIOUS
    <3>1. j * span = 2 * span
      OBVIOUS
    <3>2. 2 * (span - due + 0 - w - 2 * span) + Sub >= 0
      BY <2>7, <2>8, <3>1, PwmBounds
    <3> QED BY <2>7, <3>2, PwmBounds
  <2>10. PICK i \in 0 .. 2 : i = j + 1 /\ i >= 1
    <3>1. j + 1 \in 0 .. 2 /\ j + 1 >= 1
      BY <2>9
    <3> QED BY <3>1
  <2>11. PICK js \in Int, ispan \in Int : js = j * span /\ ispan = i * span /\ ispan = js + span /\ (i - 1) * span = js
    <3>1. j * span \in Int /\ (j + 1) * span = j * span + span /\ j + 1 - 1 = j
      OBVIOUS
    <3> QED BY <2>10, <3>1
  <2>12. 2 * (span - due + 0 - w - js) + Sub \in 0 .. 2 * Sub - 1
    BY <2>8, <2>11
  <2>13. 2 * (span - due + span - w - i * span) + Sub \in 0 .. 2 * Sub - 1
    <3>1. span - due + span - w - i * span = span - due + 0 - w - js
      <4>2. due \in Int /\ span \in Int /\ w \in Int /\ js \in Int /\ ispan = js + span
        BY <2>7, <2>11
      <4>1. span - due + span - w - ispan = span - due + 0 - w - js
        BY <4>2
      <4> QED BY <2>11, <4>1
    <3> QED BY <2>12, <3>1
  <2>14. 2 * (span - due - w - (i - 1) * span) + Sub >= 0
    BY <2>7, <2>11, <2>12, PwmBounds
  <2>15. /\ Span(v) = span /\ v.due["A"] = span /\ v.due["bottom"] = due /\ v.target = t.target
         /\ v.target["A"] * Sub = w /\ v.top = t.top
    BY <1>4, <1>5, <2>5, <2>7, SameFacts DEF SameTimer
  <2>16. Phase(u, i)
    <3>1. 2 * (Span(v) - v.due["bottom"] + v.due["A"] - v.target["A"] * Sub - i * Span(v)) + Sub \in 0 .. 2 * Sub - 1
      BY <2>13, <2>15
    <3>2. 2 * (Span(v) - v.due["bottom"] - v.target["A"] * Sub - (i - 1) * Span(v)) + Sub >= 0
      BY <2>14, <2>15
    <3>3. i # 0
      BY <2>10
    <3> QED BY <1>9, <3>1, <3>2, <3>3, Zenon DEF Phase
  <2>17. ~(v.target["A"] > v.top)
    BY <2>2, <2>3, <2>15
  <2>18. ~u.ph
    BY <1>2, <1>9, <2>1 DEF Duty
  <2> QED BY <2>2, <2>7, <2>15, <2>16, <2>17, <2>18
<1> QED BY <1>4, <1>6, <1>7, <1>8, <1>9, <1>10, <1>11 DEF SliceGood, Sound

(* The call of the alarm at the bottom.                                       *)

\* From the bottom on, the compare alarm is due at the compare value of this
\* round, or was for this bottom itself.
LEMMA PhaseAtBottom ==
    ASSUME NEW s, IsTimer(s.timer), SoundA(s.timer), Free(s.timer), s.timer.top # NoTop,
           AtBottom(s.timer), s.timer.due["bottom"] = Span(s.timer),
           s.timer.target["A"] <= s.timer.top, Up(s) <=> s.timer.target["A"] > 0
    PROVE  \E j \in 0 .. 2 : Phase(s, j)
<1> DEFINE t == s.timer
<1>1. /\ t.target["A"] \in Nat /\ Span(t) \in Nat \ {0} /\ Span(t) >= 2 * Sub
      /\ t.due["A"] \in 0 .. Span(t) /\ Hits(t, "A", t.due["A"])
      /\ t.target["A"] * Sub \in Nat /\ t.target["A"] * Sub <= Span(t) - Sub
  BY FreeFacts
<1>2. PICK span \in Nat \ {0}, w \in Nat, due \in Int, target \in Nat :
          /\ span = Span(t) /\ w = t.target["A"] * Sub /\ due = t.due["A"] /\ target = t.target["A"]
          /\ span >= 2 * Sub /\ due \in 0 .. span /\ w <= span - Sub
  <2>1. t.due["A"] \in Int
    BY <1>1
  <2> QED BY <1>1, <2>1
<1>3. PICK k1, p1 \in Int : p1 = k1 * span /\ place(t) = p1
  BY <1>2 DEF AtBottom
<1>4. PICK k2, p2 \in Int : p2 = k2 * span /\ 2 * (place(t) + due - w + p2) + Sub \in 0 .. 2 * Sub - 1
  BY <1>1, <1>2 DEF Hits
<1>5. PICK j, q \in Int : j = -(k1 + k2) /\ q = j * span /\ q = -(p1 + p2)
  <2>1. (-(k1 + k2)) * span = -(k1 * span + k2 * span)
    OBVIOUS
  <2>2. -(k1 + k2) \in Int /\ p1 + p2 \in Int
    OBVIOUS
  <2> QED BY <1>3, <1>4, <2>1, <2>2
<1>6. 2 * (due - w - q) + Sub \in 0 .. 2 * Sub - 1
  <2>1. p1 + due - w + p2 = due - w - q
    BY <1>3, <1>4, <1>5
  <2> QED BY <1>3, <1>4, <2>1
<1>7. j < 2
  <2> SUFFICES ASSUME j >= 2 PROVE FALSE
    BY <1>5
  <2>1. q >= 2 * span
    BY <1>5
  <2>2. due - w - q <= -span
    BY <1>2, <1>5, <2>1
  <2> QED BY <1>2, <1>5, <1>6, <2>2, PwmBounds
<1>8. j > -1
  <2> SUFFICES ASSUME j <= -1 PROVE FALSE
    BY <1>5
  <2>1. q <= -span
    BY <1>5
  <2>2. due - w - q >= Sub
    BY <1>2, <1>5, <2>1, PwmBounds
  <2> QED BY <1>2, <1>5, <1>6, <2>2, PwmBounds
<1>9. CASE j = 0
  <2>1. q = 0 /\ 0 * span = 0
    BY <1>5, <1>9
  <2>2. 2 * (span - span + due - w - 0 * span) + Sub \in 0 .. 2 * Sub - 1
    <3>2. span \in Int /\ due \in Int /\ w \in Int /\ q \in Int /\ 0 * span = q
      BY <1>2, <1>5, <2>1
    <3>1. span - span + due - w - 0 * span = due - w - q
      BY <3>2
    <3> QED BY <1>6, <3>1
  <2>3. 2 * (Span(t) - t.due["bottom"] + t.due["A"] - t.target["A"] * Sub - 0 * Span(t)) + Sub \in 0 .. 2 * Sub - 1
    BY <1>2, <2>2
  <2>4. ~(0 >= 1)
    OBVIOUS
  <2>5. Phase(s, 0)
    BY <2>3, <2>4, Zenon DEF Phase
  <2> QED BY <2>5
<1>10. CASE j = 1
  <2>1. q = span /\ 1 * span = span /\ (1 - 1) * span = 0
    BY <1>5, <1>10
  <2>2. 2 * (span - span + due - w - 1 * span) + Sub \in 0 .. 2 * Sub - 1
    <3>2. span \in Int /\ due \in Int /\ w \in Int /\ q \in Int /\ 1 * span = q
      BY <1>2, <1>5, <2>1
    <3>1. span - span + due - w - 1 * span = due - w - q
      BY <3>2
    <3> QED BY <1>6, <3>1
  <2>3. target = 0
    <3> SUFFICES ASSUME target >= 1 PROVE FALSE
      BY <1>2
    <3>1. w >= Sub
      <4>1. target * Sub >= Sub
        BY PwmBounds
      <4> QED BY <1>2, <4>1
    <3>2. due - w - q <= -Sub
      BY <1>2, <2>1, <3>1, PwmBounds
    <3> QED BY <1>2, <1>5, <1>6, <3>2, PwmBounds
  <2>4. w = 0
    BY <1>2, <2>3, PwmBounds
  <2>5. ~Up(s)
    BY <1>2, <2>3
  <2>6. 2 * (span - span - w - (1 - 1) * span) + Sub >= 0
    BY <2>1, <2>4, PwmBounds
  <2>7. 2 * (Span(t) - t.due["bottom"] + t.due["A"] - t.target["A"] * Sub - 1 * Span(t)) + Sub \in 0 .. 2 * Sub - 1
    BY <1>2, <2>2
  <2>8. 2 * (Span(t) - t.due["bottom"] - t.target["A"] * Sub - (1 - 1) * Span(t)) + Sub >= 0
    BY <1>2, <2>6
  <2>9. 1 # 0
    OBVIOUS
  <2>10. Phase(s, 1)
    BY <2>5, <2>7, <2>8, <2>9, Zenon DEF Phase
  <2> QED BY <2>10
<1>11. j \in {0, 1}
  BY <1>5, <1>7, <1>8
<1> QED BY <1>9, <1>10, <1>11

LEMMA SameSoundA ==
    ASSUME NEW t, NEW u, SameTimer(u, t), u.due["A"] = t.due["A"], SoundA(t)
    PROVE  SoundA(u)
<1>1. Hits(u, "A", t.due["A"]) <=> Hits(t, "A", t.due["A"])
  BY SameFacts
<1>2. Span(u) = Span(t) /\ (Free(u) <=> Free(t)) /\ (Reached(u, "A") <=> Reached(t, "A"))
  BY SameFacts
<1>3. u.on = t.on /\ u.top = t.top
  BY DEF SameTimer
<1> QED BY <1>1, <1>2, <1>3 DEF SoundA

LEMMA CallBottomGood ==
    ASSUME NEW s, SliceGood(s), expired(s.timer, "bottom")
    PROVE  SliceGood([wrap([s EXCEPT !.timer = taken(@, "bottom")]) EXCEPT !.timer = again(@, "bottom")])
<1> DEFINE t == s.timer
           g == taken(t, "bottom")
           o == [s EXCEPT !.timer = g, !.intRaw = TRUE]
           l == updateDoubleBuffered(o)
           v == again(l.timer, "bottom")
<1>1. IsTimer(t) /\ SoundA(t) /\ SoundB(t) /\ t.due["bottom"] = 0 /\ IsSlice(s) /\ ModeKept(s)
  BY DEF SliceGood, Sound, expired
<1>2. t.on
  BY <1>1, NeverNot DEF SoundB
<1>3. IsTimer(g) /\ SameTimer(g, t) /\ g.due["A"] = t.due["A"]
  BY <1>1, TakenFacts
<1> HIDE DEF g
<1>4. SoundA(g) /\ g.on /\ g.mode = t.mode /\ g.top = t.top
  BY <1>1, <1>2, <1>3, SameSoundA DEF SameTimer
<1>5. Free(g) => AtBottom(g)
  <2> SUFFICES ASSUME Free(g) PROVE AtBottom(g)
    OBVIOUS
  <2>1. Free(t) /\ place(g) = place(t) /\ Span(g) = Span(t)
    BY <1>3, SameFacts
  <2>2. PICK k, p \in Int : p = k * Span(t) /\ place(t) + 0 = p
    BY <1>1, <2>1 DEF SoundB, Exact
  <2>3. place(t) \in Int
    BY <1>1, <2>1, PlaceIs DEF Free
  <2> QED BY <2>1, <2>2, <2>3 DEF AtBottom
<1>6. IsSlice(o) /\ o.timer = g /\ o.ph = s.ph /\ o.inv = s.inv
  BY <1>1, <1>4 DEF IsSlice, SliceFields
<1>7. o = [[s EXCEPT !.timer = taken(@, "bottom")] EXCEPT !.intRaw = TRUE]
  BY <1>1 DEF g, IsSlice, SliceFields
<1> HIDE DEF o
<1>8. /\ IsSlice(l) /\ l.ph = s.ph /\ l.inv = s.inv
      /\ IsTimer(l.timer) /\ SoundA(l.timer) /\ l.timer.top # NoTop
      /\ l.timer.mode = t.mode /\ l.timer.on
      /\ Free(g) /\ AtBottom(g) => AtBottom(l.timer)
  BY <1>3, <1>4, <1>6, LoadedFacts
<1>9. PICK positive \in BOOLEAN : positive = (l.timer.target["A"] > 0)
  <2>1. PICK target \in Nat : target = l.timer.target["A"]
    BY <1>8, TargetInt
  <2>2. (target > 0) \in BOOLEAN
    OBVIOUS
  <2> QED BY <2>1, <2>2
<1> DEFINE r == IF s.ph THEN [l EXCEPT !.clean = FALSE]
                ELSE [l EXCEPT !.clean = TRUE, !.out = (positive # l.inv)]
<1>10. wrap([s EXCEPT !.timer = taken(@, "bottom")]) = r
  <2>1. PICK e : e = [s EXCEPT !.timer = taken(@, "bottom")]
    OBVIOUS
  <2>2. e.ph = s.ph /\ o = [e EXCEPT !.intRaw = TRUE]
    BY <1>1, <1>7, <2>1 DEF IsSlice, SliceFields
  <2>3. PICK x : x = l
    OBVIOUS
  <2>4. IsSlice(x)
    BY <1>8, <2>3
  <2>5. wrap(e) = IF s.ph THEN [x EXCEPT !.clean = ~e.ph]
                  ELSE setA([x EXCEPT !.clean = ~e.ph], [x EXCEPT !.clean = ~e.ph].timer.target["A"] > 0)
    BY <2>2, <2>3 DEF wrap
  <2>6. s.ph \in BOOLEAN
    BY <1>1 DEF IsSlice
  <2>7. CASE s.ph
    BY <2>1, <2>2, <2>3, <2>5, <2>7
  <2>8. CASE ~s.ph
    <3>1. [x EXCEPT !.clean = TRUE].timer = x.timer /\ [x EXCEPT !.clean = TRUE].inv = x.inv
      BY <2>4 DEF IsSlice, SliceFields
    <3>2. wrap(e) = setA([x EXCEPT !.clean = TRUE], positive)
      BY <1>9, <2>2, <2>3, <2>5, <2>8, <3>1
    <3>3. setA([x EXCEPT !.clean = TRUE], positive) = [[x EXCEPT !.clean = TRUE] EXCEPT !.out = (positive # x.inv)]
      BY <3>1 DEF setA
    <3> QED BY <2>1, <2>3, <2>8, <3>2, <3>3
  <2> QED BY <2>6, <2>7, <2>8
<1> HIDE DEF l
<1>11. IsTimer(v) /\ SameTimer(v, l.timer) /\ v.due["bottom"] = schedule(l.timer, "bottom") /\ v.due["A"] = l.timer.due["A"]
  BY <1>8, AgainFacts
<1> HIDE DEF v
<1>12. SoundA(v) /\ v.top # NoTop /\ v.mode = t.mode /\ v.on /\ v.target = l.timer.target
  BY <1>8, <1>11, SameSoundA DEF SameTimer
<1>13. Free(v) => Free(l.timer) /\ AtBottom(l.timer)
  BY <1>4, <1>5, <1>8, <1>11, SameFacts DEF Free
<1>14. SoundB(v)
  <2>1. Free(l.timer) => \E b \in Int : place(l.timer) = b * Sub
    <3> SUFFICES ASSUME Free(l.timer) PROVE \E b \in Int : place(l.timer) = b * Sub
      OBVIOUS
    <3>1. PICK k \in Int : place(l.timer) = k * Span(l.timer)
      BY <1>11, <1>13, SameFacts DEF AtBottom
    <3>2. PICK top \in Int : top = l.timer.top
      BY <1>8, TopIs
    <3>3. k * (top + 1) \in Int /\ k * ((top + 1) * Sub) = (k * (top + 1)) * Sub
      BY PwmBounds
    <3> QED BY <3>1, <3>2, <3>3 DEF Span
  <2> QED BY <1>8, <1>11, <2>1, ScheduledB
<1> DEFINE u == [r EXCEPT !.timer = v]
<1>15. /\ IsSlice(u) /\ u.timer = v /\ u.ph = s.ph /\ u.inv = l.inv
       /\ u.clean => ~s.ph /\ u.out = (positive # l.inv)
  <2>1. CASE s.ph
    <3>1. r = [l EXCEPT !.clean = FALSE]
      BY <2>1
    <3> QED BY <1>8, <1>12, <2>1, <3>1 DEF IsSlice, SliceFields
  <2>2. CASE ~s.ph
    <3>1. PICK out \in BOOLEAN : out = (positive # l.inv)
      OBVIOUS
    <3>2. r = [l EXCEPT !.clean = TRUE, !.out = out]
      BY <2>2, <3>1
    <3> HIDE DEF r
    <3>3. IsSlice([r EXCEPT !.timer = v])
      BY <1>8, <1>12, <3>2 DEF IsSlice, SliceFields
    <3>4. LET x == [r EXCEPT !.timer = v] IN x.timer = v /\ x.ph = s.ph /\ x.inv = l.inv /\ x.out = out
      BY <1>8, <3>2 DEF IsSlice, SliceFields
    <3> QED BY <2>2, <3>1, <3>3, <3>4
  <2> QED BY <2>1, <2>2
<1>16. [wrap([s EXCEPT !.timer = taken(@, "bottom")]) EXCEPT !.timer = again(@, "bottom")] = u
  <2>1. r.timer = l.timer
    BY <1>8 DEF IsSlice, SliceFields
  <2> HIDE DEF r
  <2>2. [r EXCEPT !.timer = again(@, "bottom")] = [r EXCEPT !.timer = v]
    BY <2>1 DEF v
  <2> QED BY <1>10, <2>2
<1> HIDE DEF u
<1>17. ModeKept(u)
  BY <1>1, <1>12, <1>15 DEF ModeKept
<1>18. Duty(u)
  <2> SUFFICES ASSUME u.clean
               PROVE  /\ ~u.ph /\ v.top # NoTop /\ v.due["bottom"] \in 0 .. Span(v)
                      /\ v.target["A"] > v.top => Up(u)
                      /\ v.target["A"] <= v.top => \E j \in 0 .. 2 : Phase(u, j)
    BY <1>15 DEF Duty
  <2>1. Free(v) /\ ~u.ph
    BY <1>1, <1>12, <1>15 DEF ModeKept, Free
  <2>2. AtBottom(l.timer) /\ Free(l.timer)
    BY <1>13, <2>1
  <2>3. v.due["bottom"] = Span(v) /\ AtBottom(v)
    <3>1. PICK k \in Int : place(l.timer) = k * Span(l.timer)
      BY <2>2 DEF AtBottom
    <3>2. schedule(l.timer, "bottom") = Span(l.timer)
      BY <1>8, <2>2, <3>1, BottomAgain
    <3>3. place(v) = place(l.timer) /\ Span(v) = Span(l.timer)
      BY <1>11, SameFacts
    <3>4. AtBottom(v)
      BY <2>2, <3>3, Zenon DEF AtBottom
    <3> QED BY <1>11, <3>2, <3>3, <3>4
  <2>4. Up(u) <=> v.target["A"] > 0
    <3>1. l.inv \in BOOLEAN
      BY <1>8 DEF IsSlice
    <3>2. Up(u) <=> positive
      BY <1>15, <3>1 DEF Up
    <3> QED BY <1>9, <1>12, <3>2
  <2>5. v.top \in Nat /\ v.target["A"] \in Nat /\ Span(v) \in Nat
    BY <1>11, <1>12, <2>1, FreeFacts
  <2>6. v.target["A"] > v.top => v.target["A"] > 0
    BY <2>5
  <2>7. ASSUME v.target["A"] <= v.top PROVE \E j \in 0 .. 2 : Phase(u, j)
    BY <1>11, <1>12, <1>15, <2>1, <2>3, <2>4, <2>7, PhaseAtBottom
  <2>8. v.due["bottom"] \in 0 .. Span(v)
    BY <2>3, <2>5
  <2> QED BY <1>12, <2>1, <2>4, <2>6, <2>7, <2>8
<1> QED BY <1>11, <1>12, <1>14, <1>15, <1>16, <1>17, <1>18 DEF SliceGood, Sound

(* A unit of time.                                                            *)

LEMMA PassSound ==
    ASSUME NEW t, Sound(t), t.on, mayPass(t)
    PROVE  LET m == pass(t) IN
           /\ Sound(m) /\ m.top = t.top /\ m.mode = t.mode /\ m.on /\ m.target = t.target
           /\ \A a \in {"A", "bottom"} :
                 m.due[a] = IF t.due[a] = Never THEN Never ELSE t.due[a] - 1
<1> DEFINE m == pass(t)
<1>1. /\ IsTimer(t) /\ SoundA(t) /\ SoundB(t)
      /\ t.due["A"] # 0 /\ t.due["bottom"] # 0
  BY PwmBounds DEF Sound, mayPass, expired
<1>2. PICK top \in Nat \ {0} : top = t.top
  BY <1>1, TopIs
<1>3. PICK size \in Nat \ {0} : size = (IF t.top = NoTop THEN Wrap ELSE Period(t)) * Sub
  <2>1. (IF t.top = NoTop THEN Wrap ELSE Period(t)) \in Nat \ {0}
    <3>1. 2 * top \in Nat \ {0} /\ top + 1 \in Nat \ {0}
      OBVIOUS
    <3> QED BY <1>2, <3>1, PwmBounds DEF Period
  <2>2. PICK n \in Nat \ {0} : n = IF t.top = NoTop THEN Wrap ELSE Period(t)
    BY <2>1
  <2>3. n * Sub \in Nat \ {0}
    BY PwmBounds
  <2> QED BY <2>2, <2>3
<1>4. PICK ran \in Nat, x \in Int : ran = t.ran /\ x = ran + 1
  <2>1. t.ran \in Nat
    BY <1>1 DEF IsTimer
  <2>2. t.ran + 1 \in Int
    BY <2>1
  <2> QED BY <2>1, <2>2
<1>5. PICK k, p, r \in Int : k = x \div size /\ p = k * size /\ x = p + r /\ r = x % size /\ r \in 0 .. size - 1
  BY Remainders
<1>6. PICK d : d = [a \in Alarms |-> IF t.due[a] = Never THEN Never ELSE t.due[a] - 1]
  OBVIOUS
<1>7. m = [t EXCEPT !.ran = r, !.due = d]
  BY <1>3, <1>4, <1>5, <1>6 DEF pass
<1>8. /\ DOMAIN d = {"A", "bottom"}
      /\ \A a \in {"A", "bottom"} : d[a] = IF t.due[a] = Never THEN Never ELSE t.due[a] - 1
  BY <1>6, PwmBounds
<1>9. \A a \in {"A", "bottom"} : t.due[a] # Never => t.due[a] - 1 \in Nat /\ t.due[a] - 1 # Never /\ t.due[a] \in Nat
  BY <1>1, PwmBounds DEF IsTimer
<1>10. d["A"] \in Nat \cup {Never} /\ d["bottom"] \in Nat \cup {Never} /\ r \in Nat
  BY <1>5, <1>8, <1>9
<1>11. IsTimer(m)
  BY <1>1, <1>7, <1>8, <1>10 DEF IsTimer, TimerFields
<1>12. /\ m.due = d /\ m.ran = r /\ m.base = t.base /\ m.top = t.top /\ m.mode = t.mode /\ m.on = t.on
       /\ m.target = t.target
  BY <1>1, <1>7 DEF IsTimer, TimerFields
<1> HIDE DEF m
<1>13. Span(m) = Span(t) /\ (Free(m) <=> Free(t)) /\ \A a : Reached(m, a) <=> Reached(t, a)
  BY <1>12 DEF Span, Free, Reached
<1>14. ASSUME Free(t)
       PROVE  /\ p = k * Span(t) /\ place(t) \in Int /\ place(m) = place(t) + 1 - p
  <2>1. size = Span(t)
    BY <1>2, <1>3, <1>14, PwmBounds DEF Free, Period, Span, NoTop
  <2>2. place(t) = t.base * Sub + t.ran /\ place(m) = m.base * Sub + m.ran /\ t.base * Sub \in Int
    BY <1>1, <1>12, <1>14, PwmBounds DEF place, Free, IsTimer
  <2>3. PICK b \in Int : b = t.base * Sub
    BY <2>2
  <2>4. place(t) = b + ran /\ place(m) = b + r
    BY <1>4, <1>12, <2>2, <2>3
  <2>5. b + r = b + ran + 1 - p
    <3>1. r \in Int /\ p \in Int /\ ran + 1 = p + r
      BY <1>4, <1>5
    <3> QED BY <3>1
  <2> QED BY <1>5, <2>1, <2>4, <2>5
<1>15. SoundA(m)
  <2>1. ~m.on => m.due["A"] = Never
    BY <1>12
  <2>2. ASSUME Free(m), Reached(m, "A")
        PROVE  /\ m.due["A"] \in Nat /\ Hits(m, "A", m.due["A"])
               /\ m.top # NoTop => m.due["A"] <= Span(m)
    <3>1. Free(t) /\ Reached(t, "A")
      BY <1>13, <2>2
    <3>2. t.due["A"] \in Nat /\ Hits(t, "A", t.due["A"]) /\ (t.top # NoTop => t.due["A"] <= Span(t))
      BY <1>1, <3>1 DEF SoundA
    <3>3. PICK due \in Nat : due = t.due["A"] /\ due # Never /\ m.due["A"] = due - 1 /\ due - 1 \in Nat
      BY <1>8, <1>9, <1>12, <3>2, NeverNot
    <3>4. PICK j, q \in Int :
              q = j * Span(t) /\ 2 * (place(t) + due - t.target["A"] * Sub + q) + Sub \in 0 .. 2 * Sub - 1
      BY <3>2, <3>3 DEF Hits
    <3>5. PICK at, w \in Int : at = place(t) /\ w = t.target["A"] * Sub
      <4>1. place(t) \in Int /\ t.target["A"] * Sub \in Int
        BY <1>1, <1>14, <3>1, TargetInt, PwmBounds
      <4> QED BY <4>1
    <3>6. PICK i, o \in Int : i = j + k /\ o = q + p /\ o = i * Span(m)
      <4>1. PICK span \in Int : span = Span(t)
        BY <1>1, SpanPositive
      <4>2. (j + k) * span = j * span + k * span
        OBVIOUS
      <4> QED BY <1>13, <1>14, <3>1, <3>4, <4>1, <4>2
    <3>7. at + 1 - p + (due - 1) - w + o = at + due - w + q
      BY <3>6
    <3>8. 2 * (place(m) + m.due["A"] - m.target["A"] * Sub + o) + Sub \in 0 .. 2 * Sub - 1
      BY <1>12, <1>14, <3>1, <3>3, <3>4, <3>5, <3>7
    <3>9. Hits(m, "A", m.due["A"])
      BY <3>6, <3>8, Zenon DEF Hits
    <3>10. m.top # NoTop => m.due["A"] <= Span(m)
      <4>1. PICK span \in Int : span = Span(t)
        BY <1>1, SpanPositive
      <4> QED BY <1>12, <1>13, <3>2, <3>3, <4>1
    <3> QED BY <3>3, <3>9, <3>10
  <2>3. ASSUME Free(m), ~Reached(m, "A") PROVE m.due["A"] = Never
    BY <1>1, <1>8, <1>12, <1>13, <2>3 DEF SoundA
  <2> QED BY <2>1, <2>2, <2>3 DEF SoundA
<1>16. SoundB(m)
  <2>1. t.due["bottom"] # Never
    BY <1>1 DEF SoundB
  <2>2. PICK due \in Nat : due = t.due["bottom"] /\ m.due["bottom"] = due - 1 /\ m.due["bottom"] # Never
    BY <1>8, <1>9, <1>12, <2>1
  <2>3. ASSUME Free(m) PROVE Exact(m, m.due["bottom"])
    <3>1. Free(t)
      BY <1>13, <2>3
    <3>2. PICK j, q \in Int : q = j * Span(t) /\ place(t) + due = q
      BY <1>1, <2>2, <3>1 DEF SoundB, Exact
    <3>3. PICK i, o \in Int : i = j - k /\ o = q - p /\ o = i * Span(m)
      <4>1. PICK span \in Int : span = Span(t)
        BY <1>1, SpanPositive
      <4>2. (j - k) * span = j * span - k * span
        OBVIOUS
      <4>3. j - k \in Int /\ q - p \in Int
        OBVIOUS
      <4> QED BY <1>13, <1>14, <3>1, <3>2, <4>1, <4>2, <4>3
    <3>4. PICK at \in Int : at = place(t)
      BY <1>14, <3>1
    <3>5. at + 1 - p + (due - 1) = o
      BY <3>2, <3>3, <3>4
    <3> QED BY <1>14, <2>2, <3>1, <3>3, <3>4, <3>5 DEF Exact
  <2> QED BY <1>12, <2>2, <2>3 DEF SoundB
<1> QED BY <1>8, <1>11, <1>12, <1>15, <1>16 DEF Sound, m

LEMMA PassGood ==
    ASSUME NEW s, SliceGood(s), mayPass(s.timer)
    PROVE  SliceGood([s EXCEPT !.timer = pass(@)])
<1> DEFINE t == s.timer
           v == pass(t)
           u == [s EXCEPT !.timer = v]
<1>1. IsSlice(s) /\ Sound(t) /\ ModeKept(s) /\ Duty(s)
  BY DEF SliceGood
<1>2. CASE ~t.on
  <2>1. u = s
    BY <1>1, <1>2 DEF pass, IsSlice, SliceFields
  <2> QED BY <2>1
<1>3. CASE t.on
  <2>1. /\ Sound(v) /\ v.top = t.top /\ v.mode = t.mode /\ v.on /\ v.target = t.target
        /\ \A a \in {"A", "bottom"} : v.due[a] = IF t.due[a] = Never THEN Never ELSE t.due[a] - 1
    BY <1>1, <1>3, PassSound
  <2> HIDE DEF v
  <2>2. /\ IsSlice(u) /\ u.timer = v /\ u.ph = s.ph /\ u.inv = s.inv /\ u.out = s.out /\ u.clean = s.clean
    BY <1>1, <2>1 DEF IsSlice, SliceFields
  <2> HIDE DEF u
  <2>3. ModeKept(u)
    BY <1>1, <2>1, <2>2 DEF ModeKept
  <2>4. Duty(u)
    <3> SUFFICES ASSUME u.clean
                 PROVE  /\ ~u.ph /\ v.top # NoTop /\ v.due["bottom"] \in 0 .. Span(v)
                        /\ v.target["A"] > v.top => Up(u)
                        /\ v.target["A"] <= v.top => \E j \in 0 .. 2 : Phase(u, j)
      BY <2>2 DEF Duty
    <3>1. s.clean /\ ~s.ph
      BY <1>1, <1>3, <2>2 DEF Duty
    <3>2. Free(t) /\ t.top # NoTop /\ t.due["bottom"] \in 0 .. Span(t)
      BY <1>3, <3>1, CleanFacts
    <3>3. PICK span \in Nat, b \in Nat :
              span = Span(t) /\ Span(v) = span /\ b = t.due["bottom"] /\ b <= span /\ b # 0
      <4>1. Span(t) \in Nat /\ Span(v) = Span(t)
        BY <1>1, <2>1, SpanPositive DEF Sound, Span
      <4>2. t.due["bottom"] # 0
        BY PwmBounds DEF mayPass, expired
      <4> QED BY <3>2, <4>1, <4>2
    <3>4. v.due["bottom"] = b - 1
      BY <2>1, <3>3, NeverNot
    <3>5. v.due["bottom"] \in 0 .. Span(v)
      BY <3>3, <3>4
    <3>6. Up(u) <=> Up(s)
      BY <2>2 DEF Up
    <3>7. v.target["A"] > v.top => Up(u)
      BY <1>1, <1>3, <2>1, <3>1, <3>6 DEF Duty
    <3>8. ASSUME v.target["A"] <= v.top PROVE \E j \in 0 .. 2 : Phase(u, j)
      <4>1. PICK j \in 0 .. 2 : Phase(s, j)
        BY <1>1, <1>3, <2>1, <3>1, <3>8 DEF Duty
      <4>2. PICK a \in Nat, w \in Nat : a = t.due["A"] /\ w = t.target["A"] * Sub
        <5>1. t.due["A"] \in Nat /\ t.target["A"] * Sub \in Nat
          BY <1>1, <2>1, <3>2, <3>8, FreeFacts DEF Sound
        <5> QED BY <5>1
      <4>3. v.due["A"] = a - 1 /\ v.target["A"] * Sub = w
        BY <2>1, <4>2, NeverNot
      <4>4. PICK js, is \in Int : js = j * span /\ is = (j - 1) * span
        OBVIOUS
      <4>5. /\ 2 * (span - b + a - w - js) + Sub \in 0 .. 2 * Sub - 1
            /\ j = 0 => (Up(s) <=> t.target["A"] > 0)
            /\ j >= 1 => ~Up(s) /\ 2 * (span - b - w - is) + Sub >= 0
        BY <3>3, <4>1, <4>2, <4>4 DEF Phase
      <4>6. 2 * (span - (b - 1) + (a - 1) - w - js) + Sub \in 0 .. 2 * Sub - 1
        <5>1. span - (b - 1) + (a - 1) - w - js = span - b + a - w - js
          OBVIOUS
        <5> QED BY <4>5, <5>1
      <4>7. j >= 1 => 2 * (span - (b - 1) - w - is) + Sub >= 0
        BY <4>5, PwmBounds
      <4>8. Phase(u, j)
        BY <2>1, <2>2, <3>3, <3>4, <3>6, <4>3, <4>4, <4>5, <4>6, <4>7 DEF Phase
      <4> QED BY <4>8
    <3> QED BY <2>1, <2>2, <3>1, <3>2, <3>5, <3>7, <3>8
  <2> QED BY <2>1, <2>2, <2>3, <2>4 DEF SliceGood, u, v
<1> QED BY <1>2, <1>3

PwmInv == DOMAIN slice = Slices /\ \A s \in Slices : SliceGood(slice[s])

LEMMA PwmStarts == PwmInit => PwmInv
<1> SUFFICES ASSUME PwmInit PROVE PwmInv
  OBVIOUS
<1> DEFINE t == FreshSlice.timer
<1>1. DOMAIN slice = Slices /\ \A s \in Slices : slice[s] = FreshSlice
  BY DEF PwmInit
<1>2. t = Stopped("Increment", TRUE) /\ FreshSlice.topUpdated = TRUE /\ FreshSlice.clean = FALSE /\ FreshSlice.ph = FALSE
  BY DEF FreshSlice
<1>3. NoTop \in 1 .. Wrap - 1 /\ 0 \in Nat
  BY PwmBounds DEF NoTop
<1>4. PICK st : st = Stopped("Increment", TRUE)
  OBVIOUS
<1>5. /\ IsTimer(st) /\ st.on = FALSE /\ st.due["A"] = Never /\ st.due["bottom"] = Never
      /\ st.mode = "Increment"
  BY <1>3, <1>4, PwmBounds DEF Stopped, IsTimer, TimerFields
<1>6. Sound(st)
  BY <1>5 DEF Sound, SoundA, SoundB, Free
<1>7. IsSlice(FreshSlice)
  <2>1. /\ DOMAIN FreshSlice = SliceFields /\ FreshSlice = [f \in SliceFields |-> FreshSlice[f]]
    BY DEF FreshSlice, SliceFields
  <2>2. ResetTop \in 1 .. Wrap - 2
    BY PwmBounds
  <2> QED BY <2>1, <2>2 DEF IsSlice, FreshSlice
<1>8. SliceGood(FreshSlice)
  BY <1>2, <1>4, <1>5, <1>6, <1>7 DEF SliceGood, ModeKept, Duty
<1> QED BY <1>1, <1>8 DEF PwmInv

LEMMA OneSlice ==
    ASSUME PwmInv, NEW s \in Slices, NEW new, SliceGood(new), Write(s, new)
    PROVE  PwmInv'
BY DEF PwmInv, Write

LEMMA PwmKeeps == PwmInv /\ [PwmNext]_pwmVars => PwmInv'
<1> SUFFICES ASSUME PwmInv, [PwmNext]_pwmVars PROVE PwmInv'
  OBVIOUS
<1>1. \A s \in Slices : SliceGood(slice[s])
  BY DEF PwmInv
<1>2. CASE WriteCSR
  <2>1. PICK s \in Slices, en \in BOOLEAN, ph \in BOOLEAN, inv \in BOOLEAN :
            Write(s, writeCSR(slice[s], en, ph, inv))
    BY <1>2 DEF WriteCSR
  <2>2. SliceGood(writeCSR(slice[s], en, ph, inv))
    BY <1>1, CSRGood
  <2> QED BY <2>1, <2>2, OneSlice
<1>3. CASE WriteDIV
  <2>1. PICK s \in Slices : Write(s, writeDIV(slice[s]))
    BY <1>3 DEF WriteDIV
  <2>2. SliceGood(writeDIV(slice[s]))
    BY <1>1, DIVGood
  <2> QED BY <2>1, <2>2, OneSlice
<1>4. CASE WriteCTR
  <2>1. PICK s \in Slices, value \in Compares : Write(s, writeCTR(slice[s], value))
    BY <1>4 DEF WriteCTR
  <2>2. value \in Nat
    BY PwmBounds
  <2>3. SliceGood(writeCTR(slice[s], value))
    BY <1>1, <2>2, CTRGood
  <2> QED BY <2>1, <2>3, OneSlice
<1>5. CASE WriteCC
  <2>1. PICK s \in Slices, value \in Compares : Write(s, writeCC(slice[s], value))
    BY <1>5 DEF WriteCC
  <2>2. value \in Nat
    BY PwmBounds
  <2>3. SliceGood(writeCC(slice[s], value))
    BY <1>1, <2>2, CCGood
  <2> QED BY <2>1, <2>3, OneSlice
<1>6. CASE WriteTOP
  <2>1. PICK s \in Slices, value \in Tops : Write(s, writeTOP(slice[s], value))
    BY <1>6 DEF WriteTOP
  <2>2. value \in 1 .. Wrap - 2
    BY PwmBounds
  <2>3. SliceGood(writeTOP(slice[s], value))
    BY <1>1, <2>2, TOPGood
  <2> QED BY <2>1, <2>3, OneSlice
<1>7. CASE ClearINTR
  <2>1. PICK s \in Slices : Write(s, [slice[s] EXCEPT !.intRaw = FALSE])
    BY <1>7 DEF ClearINTR
  <2>2. SliceGood([slice[s] EXCEPT !.intRaw = FALSE])
    BY <1>1, ClearGood
  <2> QED BY <2>1, <2>2, OneSlice
<1>8. CASE WriteEN
  <2>1. PICK chosen \in SUBSET Slices : slice' = [s \in Slices |-> writeEn(slice[s], s \in chosen)]
    BY <1>8 DEF WriteEN
  <2>2. ASSUME NEW s \in Slices PROVE SliceGood(writeEn(slice[s], s \in chosen))
    <3>1. PICK en \in BOOLEAN : en = (s \in chosen)
      <4>1. (s \in chosen) \in BOOLEAN
        OBVIOUS
      <4> QED BY <4>1, Zenon
    <3>2. SliceGood(writeEn(slice[s], en))
      BY <1>1, EnGood
    <3> QED BY <3>1, <3>2
  <2>3. \A s \in Slices : slice'[s] = writeEn(slice[s], s \in chosen)
    BY <2>1
  <2>4. DOMAIN slice' = Slices
    BY <2>1
  <2> QED BY <2>2, <2>3, <2>4 DEF PwmInv
<1>9. CASE Pass
  <2>1. /\ \A s \in Slices : mayPass(slice[s].timer)
        /\ slice' = [s \in Slices |-> [slice[s] EXCEPT !.timer = pass(@)]]
    BY <1>9 DEF Pass
  <2>2. ASSUME NEW s \in Slices PROVE SliceGood([slice[s] EXCEPT !.timer = pass(@)])
    BY <1>1, <2>1, PassGood
  <2>3. \A s \in Slices : slice'[s] = [slice[s] EXCEPT !.timer = pass(@)]
    BY <2>1
  <2>4. DOMAIN slice' = Slices
    BY <2>1
  <2> QED BY <2>2, <2>3, <2>4 DEF PwmInv
<1>10. ASSUME NEW s \in Slices, NEW a \in Alarms, Call(s, a) PROVE PwmInv'
  <2>1. CASE a = "A"
    <3>1. Write(s, [setA([slice[s] EXCEPT !.timer = taken(@, "A")], FALSE) EXCEPT !.timer = again(@, "A")])
      BY <1>10, <2>1 DEF Call, Write
    <3>2. expired(slice[s].timer, "A")
      BY <1>10, <2>1 DEF Call
    <3>3. SliceGood([setA([slice[s] EXCEPT !.timer = taken(@, "A")], FALSE) EXCEPT !.timer = again(@, "A")])
      BY <1>1, <3>2, CallAGood
    <3> QED BY <3>1, <3>3, OneSlice
  <2>2. CASE a = "bottom"
    <3>1. Write(s, [wrap([slice[s] EXCEPT !.timer = taken(@, "bottom")]) EXCEPT !.timer = again(@, "bottom")])
      BY <1>10, <2>2 DEF Call, Write
    <3>2. expired(slice[s].timer, "bottom")
      BY <1>10, <2>2 DEF Call
    <3>3. SliceGood([wrap([slice[s] EXCEPT !.timer = taken(@, "bottom")]) EXCEPT !.timer = again(@, "bottom")])
      BY <1>1, <3>2, CallBottomGood
    <3> QED BY <3>1, <3>3, OneSlice
  <2> QED BY <2>1, <2>2, PwmBounds
<1>11. CASE UNCHANGED pwmVars
  BY <1>11 DEF PwmInv, pwmVars
<1> QED BY <1>2, <1>3, <1>4, <1>5, <1>6, <1>7, <1>8, <1>9, <1>10, <1>11 DEF PwmNext

-----------------------------------------------------------------------------
(* What the invariant says of the alarms and of the output.                   *)

LEMMA SpanIsCycle == ASSUME NEW t, IsTimer(t) PROVE Cycle(t) = Span(t)
BY PwmBounds DEF IsTimer, Cycle, Span, NoTop

\* A due time that hits is one that Aims accepts.
LEMMA HitAims ==
    ASSUME NEW t, IsTimer(t), Free(t), NEW a \in {"A", "bottom"}, t.due[a] \in Nat, Hits(t, a, t.due[a])
    PROVE  (2 * (place(t) + t.due[a] - t.target[a] * Sub) + Sub) % (2 * Cycle(t)) \in 0 .. 2 * Sub
<1>1. PICK k, p \in Int :
          p = k * Span(t) /\ 2 * (place(t) + t.due[a] - t.target[a] * Sub + p) + Sub \in 0 .. 2 * Sub - 1
  BY DEF Hits
<1>2. PICK span \in Nat \ {0} : span = Span(t) /\ span >= 2 * Sub
  BY SpanPositive
<1>3. PICK x, v \in Int :
          /\ x = place(t) + t.due[a] - t.target[a] * Sub
          /\ v = 2 * (x + p) + Sub /\ v \in 0 .. 2 * Sub - 1
  <2>1. place(t) \in Int /\ t.target[a] * Sub \in Int
    BY PlaceIs, TargetInt, PwmBounds DEF Free
  <2>2. PICK x \in Int : x = place(t) + t.due[a] - t.target[a] * Sub
    BY <2>1
  <2>3. 2 * (x + p) + Sub \in Int
    BY PwmBounds
  <2> QED BY <1>1, <2>2, <2>3
<1>4. PICK n \in Nat \ {0} : n = 2 * span
  OBVIOUS
<1>5. v \in 0 .. n - 1
  BY <1>2, <1>3, <1>4, PwmBounds
<1>6. PICK j, jn \in Int : j = -k /\ jn = j * n
  OBVIOUS
<1>7. jn = -(2 * p)
  <2>1. (-k) * (2 * span) = -(2 * (k * span))
    OBVIOUS
  <2> QED BY <1>1, <1>2, <1>4, <1>6, <2>1
<1>8. (v + j * n) % n = v
  BY <1>5, RemainderIs
<1>9. v + jn = 2 * x + Sub
  <2>1. v - 2 * p = 2 * x + Sub
    BY <1>3, PwmBounds
  <2> QED BY <1>3, <1>7, <2>1
<1>10. 2 * Cycle(t) = n
  BY <1>2, <1>4, SpanIsCycle
<1>11. v \in 0 .. 2 * Sub
  BY <1>3, PwmBounds
<1>12. v + j * n = 2 * (place(t) + t.due[a] - t.target[a] * Sub) + Sub
  BY <1>3, <1>6, <1>9
<1> QED BY <1>8, <1>10, <1>11, <1>12, Zenon

LEMMA SoundAims == ASSUME NEW t, Sound(t) PROVE Aims(t)
<1> SUFFICES ASSUME t.on, t.mode # "ZigZag", NEW a \in Alarms
             PROVE  /\ t.due[a] # Never <=> (t.top = NoTop \/ t.target[a] <= t.top)
                    /\ t.due[a] # Never =>
                          (2 * (place(t) + t.due[a] - t.target[a] * Sub) + Sub) % (2 * Cycle(t)) \in 0 .. 2 * Sub
  <2>1. t.mode # "Decrement"
    BY DEF Sound, IsTimer
  <2>2. ASSUME NEW a \in Alarms, t.due[a] # Never, t.mode # "ZigZag"
        PROVE  (IF t.mode = "Decrement" THEN place(t) - t.due[a] ELSE place(t) + t.due[a]) - t.target[a] * Sub
               = place(t) + t.due[a] - t.target[a] * Sub
    <3>1. t.due[a] \in Int /\ t.target[a] * Sub \in Int
      BY <2>2, PwmBounds DEF Sound, IsTimer
    <3>3. place(t) \in Int
      BY <2>2, PlaceIs DEF Sound, IsTimer
    <3>2. PICK due \in Int, w \in Int, at \in Int : due = t.due[a] /\ w = t.target[a] * Sub /\ at = place(t)
      BY <3>1, <3>3
    <3> QED BY <2>1, <3>2
  <2> SUFFICES ASSUME t.on, t.mode # "ZigZag", NEW a \in Alarms
               PROVE  LET past == (IF t.mode = "Decrement" THEN place(t) - t.due[a] ELSE place(t) + t.due[a])
                                  - t.target[a] * Sub
                      IN  /\ t.armed[a] => (t.due[a] # Never <=> (t.top = NoTop \/ t.target[a] <= t.top))
                          /\ t.due[a] # Never => (2 * past + Sub) % (2 * Cycle(t)) \in 0 .. 2 * Sub
    BY DEF Aims
  <2>3. CASE t.due[a] = Never
    BY <2>3
  <2>4. CASE t.due[a] # Never
    <3>1. PICK past : past = (IF t.mode = "Decrement" THEN place(t) - t.due[a] ELSE place(t) + t.due[a])
                             - t.target[a] * Sub
      OBVIOUS
    <3>2. past = place(t) + t.due[a] - t.target[a] * Sub
      BY <2>2, <2>4, <3>1
    <3> QED BY <3>1, <3>2, Zenon
  <2> QED BY <2>3, <2>4
<1>1. IsTimer(t) /\ SoundA(t) /\ SoundB(t) /\ Free(t)
  BY DEF Sound, Free, IsTimer
<1>2. CASE a = "A"
  <2>1. CASE Reached(t, "A")
    <3>1. t.due["A"] \in Nat /\ Hits(t, "A", t.due["A"])
      BY <1>1, <2>1 DEF SoundA
    <3>2. (2 * (place(t) + t.due["A"] - t.target["A"] * Sub) + Sub) % (2 * Cycle(t)) \in 0 .. 2 * Sub
      BY <1>1, <3>1, HitAims
    <3>3. t.due["A"] # Never
      BY <3>1, NeverNot
    <3> QED BY <1>1, <1>2, <2>1, <3>2, <3>3, Zenon DEF Reached
  <2>2. CASE ~Reached(t, "A")
    <3>1. t.due["A"] = Never
      BY <1>1, <2>2 DEF SoundA
    <3> QED BY <1>2, <2>2, <3>1, Zenon DEF Reached
  <2> QED BY <2>1, <2>2
<1>3. CASE a = "bottom"
  <2>1. t.due["bottom"] \in Nat /\ t.due["bottom"] # Never
    BY <1>1, NeverNot DEF SoundB, IsTimer
  <2>2. PICK k, p \in Int : p = k * Span(t) /\ place(t) + t.due["bottom"] = p
    BY <1>1 DEF SoundB, Exact
  <2>3. PICK i, q \in Int : i = -k /\ q = -p /\ q = i * Span(t)
    <3>1. PICK span \in Int : span = Span(t)
      BY <1>1, SpanPositive
    <3>2. (-k) * span = -(k * span)
      OBVIOUS
    <3>3. -k \in Int /\ -p \in Int
      OBVIOUS
    <3> QED BY <2>2, <3>1, <3>2, <3>3
  <2>4. t.target["bottom"] * Sub = 0
    <3>1. 0 * Sub = 0
      BY PwmBounds
    <3> QED BY <1>1, <3>1 DEF IsTimer
  <2>5. 2 * (place(t) + t.due["bottom"] - t.target["bottom"] * Sub + q) + Sub \in 0 .. 2 * Sub - 1
    <3>1. PICK at, due \in Int : at = place(t) /\ due = t.due["bottom"]
      <4>1. place(t) \in Int /\ t.due["bottom"] \in Int
        BY <1>1, <2>1, PlaceIs DEF Free
      <4> QED BY <4>1
    <3>2. at + due - 0 + q = 0
      BY <2>2, <2>3, <3>1
    <3>3. 2 * 0 + Sub \in 0 .. 2 * Sub - 1
      BY PwmBounds
    <3> QED BY <2>4, <3>1, <3>2, <3>3
  <2>6. Hits(t, "bottom", t.due["bottom"])
    BY <2>3, <2>5, Zenon DEF Hits
  <2>7. (2 * (place(t) + t.due["bottom"] - t.target["bottom"] * Sub) + Sub) % (2 * Cycle(t)) \in 0 .. 2 * Sub
    BY <1>1, <2>1, <2>6, HitAims
  <2>8. t.top = NoTop \/ t.target["bottom"] <= t.top
    BY <1>1, BottomReached DEF Reached
  <2> QED BY <1>1, <1>3, <2>1, <2>7, <2>8, Zenon
<1> QED BY <1>2, <1>3, PwmBounds

LEMMA GoodDuty ==
    ASSUME NEW s, SliceGood(s), s.clean, s.timer.on, mayPass(s.timer)
    PROVE  LET t == s.timer
               at == 2 * (place(t) % Cycle(t))
               edge == 2 * t.target["A"] * Sub
           IN  at \in Sub .. 2 * Cycle(t) - Sub =>
                   /\ at + Sub < edge => Up(s)
                   /\ at >= edge + Sub => ~Up(s)
<1> DEFINE t == s.timer
<1>1. IsTimer(t) /\ SoundA(t) /\ SoundB(t) /\ Duty(s)
  BY DEF SliceGood, Sound
<1>2. Free(t) /\ t.top # NoTop /\ t.due["bottom"] \in 0 .. Span(t)
  BY CleanFacts
<1>3. t.due["A"] # 0 /\ t.due["bottom"] # 0
  BY PwmBounds DEF mayPass, expired
<1>4. PICK span \in Nat \ {0}, b \in Nat, w \in Nat, target \in Nat :
          /\ span = Span(t) /\ span = Cycle(t) /\ b = t.due["bottom"] /\ b <= span /\ b >= 1
          /\ w = t.target["A"] * Sub /\ target = t.target["A"] /\ span >= 2 * Sub
  <2>1. Span(t) \in Nat \ {0} /\ Span(t) = Cycle(t) /\ Span(t) >= 2 * Sub /\ t.target["A"] \in Nat
    BY <1>1, SpanPositive, SpanIsCycle, TargetInt
  <2>2. t.target["A"] * Sub \in Nat
    BY <2>1, PwmBounds
  <2>3. t.due["bottom"] \in Nat /\ t.due["bottom"] <= Span(t) /\ t.due["bottom"] >= 1
    BY <1>2, <1>3, <2>1
  <2> QED BY <2>1, <2>2, <2>3
<1>5. PICK v \in Nat : v = span - b /\ v \in 0 .. span - 1
  BY <1>4
<1>6. place(t) % Cycle(t) = v
  <2>1. PICK k, p \in Int : p = k * span /\ place(t) + b = p
    BY <1>1, <1>2, <1>4 DEF SoundB, Exact
  <2>2. PICK at \in Int : at = place(t)
    BY <1>1, <1>2, PlaceIs DEF Free
  <2>3. PICK i, is \in Int : i = k - 1 /\ is = i * span /\ is = p - span
    <3>1. (k - 1) * span = k * span - span
      OBVIOUS
    <3>2. k - 1 \in Int /\ p - span \in Int
      OBVIOUS
    <3> QED BY <2>1, <3>1, <3>2
  <2>4. v + is = at
    BY <1>5, <2>1, <2>2, <2>3
  <2>5. (v + i * span) % span = v
    BY <1>5, RemainderIs
  <2> QED BY <1>4, <2>2, <2>3, <2>4, <2>5
<1>7. 2 * t.target["A"] * Sub = 2 * w
  <2>1. 2 * target * Sub = 2 * (target * Sub)
    BY PwmBounds
  <2> QED BY <1>4, <2>1
<1> SUFFICES ASSUME 2 * v \in Sub .. 2 * span - Sub
             PROVE  /\ 2 * v + Sub < 2 * w => Up(s)
                    /\ 2 * v >= 2 * w + Sub => ~Up(s)
  BY <1>4, <1>6, <1>7, Zenon
<1>8. CASE ~(t.target["A"] <= t.top)
  <2>1. w >= span
    BY <1>1, <1>2, <1>4, <1>8, FreeFacts
  <2>2. Up(s)
    BY <1>1, <1>4, <1>8, TopIs DEF Duty
  <2>3. ~(2 * v >= 2 * w + Sub)
    BY <1>5, <2>1, PwmBounds
  <2> QED BY <2>2, <2>3
<1>9. CASE t.target["A"] <= t.top
  <2>1. PICK j \in 0 .. 2 : Phase(s, j)
    BY <1>1, <1>9 DEF Duty
  <2>2. PICK a \in Nat : a = t.due["A"] /\ a >= 1
    <3>1. t.due["A"] \in Nat
      BY <1>1, <1>2, <1>9, FreeFacts
    <3> QED BY <1>3, <3>1
  <2>3. CASE j = 0
    <3>1. 0 * span = 0
      OBVIOUS
    <3>2. 2 * (span - b + a - w - 0) + Sub <= 2 * Sub - 1 /\ (Up(s) <=> target > 0)
      BY <1>4, <2>1, <2>2, <2>3, <3>1, PwmBounds DEF Phase
    <3>3. ~(2 * v >= 2 * w + Sub)
      BY <1>4, <1>5, <2>2, <3>2, PwmBounds
    <3>4. w > 0 => target > 0
      <4>1. target = 0 => w = 0
        BY <1>4, PwmBounds
      <4> QED BY <4>1
    <3>5. 2 * v + Sub < 2 * w => w > 0
      BY PwmBounds
    <3> QED BY <3>2, <3>3, <3>4, <3>5
  <2>4. CASE j >= 1
    <3>1. PICK is \in Int : is = (j - 1) * span /\ is >= 0
      <4>1. PICK i \in Nat : i = j - 1
        BY <2>4
      <4>2. i * span \in Int /\ i * span >= 0
        OBVIOUS
      <4> QED BY <4>1, <4>2
    <3>2. ~Up(s) /\ 2 * (span - b - w - is) + Sub >= 0
      BY <1>4, <2>1, <2>4, <3>1 DEF Phase
    <3>3. ~(2 * v + Sub < 2 * w)
      BY <1>4, <1>5, <3>1, <3>2, PwmBounds
    <3> QED BY <3>2, <3>3
  <2> QED BY <2>3, <2>4
<1> QED BY <1>8, <1>9

LEMMA PwmShows == PwmInv => PwmTrue
<1> SUFFICES ASSUME PwmInv PROVE PwmTrue
  OBVIOUS
<1>1. PwmAims
  BY SoundAims DEF PwmInv, PwmAims, SliceGood
<1>2. DutyKept
  BY GoodDuty DEF PwmInv, DutyKept, Up
<1> QED BY <1>1, <1>2 DEF PwmTrue

\* PWM: whatever the wrap values, compare values, dividers and the moments at
\* which they are written, the alarms of a slice lead to its compare value and
\* its wrap, and from a wrap on its output has the duty that was asked for.
THEOREM PwmAlwaysTrue == PwmSpec => []PwmTrue
<1>1. PwmInit => PwmInv
  BY PwmStarts
<1>2. PwmInv /\ [PwmNext]_pwmVars => PwmInv'
  BY PwmKeeps
<1>3. PwmInv => PwmTrue
  BY PwmShows
<1> QED BY <1>1, <1>2, <1>3, PTL DEF PwmSpec
=============================================================================

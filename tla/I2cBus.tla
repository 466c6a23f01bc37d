------------------------------- MODULE I2cBus -------------------------------
(***************************************************************************)
(* What a device on the wires may take for granted about the master: the   *)
(* conditions and bytes of RPI2C (src/peripherals/i2c.ts) come in the      *)
(* order the I2C bus prescribes.                                           *)
(***************************************************************************)
CONSTANT Mode       \* the directions, "Read" and "Write"

VARIABLES
    phase,      \* the last thing the master put on the wires
    mode,       \* the direction the device was addressed in
    moving,     \* the direction of the last byte
    last,       \* the byte on the wires is the last one of the transfer
    aborting    \* the driver has asked for an abort

wires == <<phase, mode, moving, last>>

BusInit ==
    phase = "idle" /\ mode \in Mode /\ moving \in Mode /\ last = FALSE /\ aborting = FALSE

\* A start: on an idle bus, when the stop is out, or repeated between two bytes.
StartCondition ==
    /\ phase \in {"idle", "stop", "address", "data", "byte"} /\ ~last
    /\ phase' = "start"
    /\ UNCHANGED <<mode, moving, last>>

Address ==
    /\ phase = "start"
    /\ phase' = "address" /\ mode' \in Mode
    /\ UNCHANGED <<moving, last>>

\* The device has acknowledged, and there is nothing to transfer yet.
Pause ==
    /\ phase \in {"address", "byte"} /\ ~last
    /\ phase' = "data"
    /\ UNCHANGED <<mode, moving, last>>

\* A byte goes in the direction of the address, unless the driver has aborted a
\* transfer that was between two bytes; none follows the last one.
Byte ==
    /\ phase \in {"address", "data", "byte"} /\ ~last
    /\ phase' = "byte" /\ last' \in BOOLEAN
    /\ moving' \in IF aborting THEN Mode ELSE {mode}
    /\ UNCHANGED mode

\* The byte under way becomes the last one.
Curtail == phase = "byte" /\ last' = TRUE /\ UNCHANGED <<phase, mode, moving>>

StopCondition ==
    /\ phase \in {"start", "address", "byte"}
    /\ phase' = "stop" /\ last' = FALSE
    /\ UNCHANGED <<mode, moving>>

\* The stop is out, or another master has the bus.
Released == phase' = "idle" /\ last' = FALSE /\ UNCHANGED <<mode, moving>>

BusNext ==
    /\ \/ StartCondition \/ Address \/ Pause \/ Byte \/ Curtail
       \/ StopCondition \/ Released \/ UNCHANGED wires
    /\ aborting' \in BOOLEAN

BusSpec == BusInit /\ [][BusNext]_<<wires, aborting>>
=============================================================================

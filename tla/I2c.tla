-------------------------------- MODULE I2c ---------------------------------
(***************************************************************************)
(* The I2C master RPI2C (src/peripherals/i2c.ts), a driver that writes its *)
(* registers, and the device behind onStart, onConnect, onWriteByte,       *)
(* onReadByte and onStop.                                                  *)
(*                                                                         *)
(* i2c holds the fields of the object; every handler is a function from    *)
(* the object before it to the object after it.  A callback to the device  *)
(* leaves i2c.owed: which of the complete... methods the device has to     *)
(* call.  It may do so at once or much later, so that any register access  *)
(* can come between the callback and its answer.                           *)
(***************************************************************************)
EXTENDS Naturals, Sequences

CONSTANTS
    FifoSize,       \* entries of either FIFO (16 in the code)
    Watched,        \* the bits of intRaw that are followed
    MaxCommands     \* bound: how many commands the driver queues

\* The FIFOs have a size, and the two bits that a driver waits for are followed.
I2cConstants == FifoSize \in Nat /\ {"TX_EMPTY", "TX_ABRT"} \subseteq Watched

VARIABLES
    i2c,        \* the RPI2C object
    dir,        \* the driver: the direction of its last command, "none" at first
    queued,     \* the driver: commands written so far
    wire        \* the direction the device was addressed in, and of the last byte

i2cVars == <<i2c, dir, queued, wire>>

\* What a write of IC_DATA_CMD holds, its data byte left out.
Command == [read : BOOLEAN, restart : BOOLEAN, stop : BOOLEAN]

Direction(cmd) == IF cmd.read THEN "Read" ELSE "Write"

I2cInit ==
    /\ i2c = [state |-> "Idle", busy |-> FALSE, stop |-> FALSE,
              pendingRestart |-> FALSE, firstByte |-> FALSE,
              rxFIFO |-> <<>>, txFIFO |-> <<>>, enable |-> {},
              rxThreshold |-> 0, txThreshold |-> 0,
              abortSource |-> {}, intRaw |-> {}, owed |-> "nothing"]
    /\ dir = "none" /\ queued = 0
    /\ wire = [mode |-> "Write", byte |-> "Write"]

-----------------------------------------------------------------------------
(* The methods. *)

setInterrupts(s, bit) == [s EXCEPT !.intRaw = @ \cup ({bit} \cap Watched)]

abort(s, reason) ==
    setInterrupts([s EXCEPT !.abortSource = @ \cup {reason}, !.txFIFO = <<>>], "TX_ABRT")

Blocked(s) ==
    s.txFIFO = <<>> \/ s.busy \/ "TX_CMD_BLOCK" \in s.enable \/ "ENABLE" \notin s.enable

Restart(s) == Head(s.txFIFO).restart /\ ~s.pendingRestart /\ ~s.stop

\* A start, or a repeated one, before the command; the command stays queued.
BeginStart(s) ==
    [s EXCEPT !.busy = TRUE, !.pendingRestart = Restart(s), !.stop = FALSE,
              !.state = "Start", !.owed = "start"]

Transfer(s) ==
    LET cmd == Head(s.txFIFO)
        rest == Tail(s.txFIFO)
        t == [s EXCEPT !.busy = TRUE, !.pendingRestart = FALSE, !.txFIFO = rest,
                       !.stop = cmd.stop, !.owed = IF cmd.read THEN "read" ELSE "write"]
    IN IF Len(rest) <= s.txThreshold THEN setInterrupts(t, "TX_EMPTY") ELSE t

\* Mistake: the restart is asked for again when its start has completed.
nextCommandForgetful(s) ==
    CASE Blocked(s) -> s
      [] ~Blocked(s) /\ s.state = "Idle" -> BeginStart(s)
      [] OTHER -> Transfer([s EXCEPT !.stop = FALSE])

nextCommand(s) ==
    CASE Blocked(s) -> s
      [] ~Blocked(s) /\ (s.state = "Idle" \/ Restart(s)) -> BeginStart(s)
      [] OTHER -> Transfer(s)

onStop(s) == [s EXCEPT !.owed = "stop"]

pushRX(s) ==
    IF Len(s.rxFIFO) = FifoSize THEN setInterrupts(s, "RX_OVER")
    ELSE LET t == [s EXCEPT !.rxFIFO = Append(@, s.firstByte)]
         IN  IF Len(t.rxFIFO) > t.rxThreshold THEN setInterrupts(t, "RX_FULL") ELSE t

completeStart(s) ==
    IF s.txFIFO = <<>> \/ s.state # "Start" \/ s.stop THEN onStop(s)
    ELSE setInterrupts([s EXCEPT !.state = "Connect", !.owed = "connect"], "START_DET")

Disconnect(s) == onStop([s EXCEPT !.state = "Stop"])

completeConnect(s, ack) ==
    IF ~ack THEN Disconnect(abort(s, "ADDR_NOACK"))
    ELSE IF s.stop THEN Disconnect(s)
    ELSE nextCommand([s EXCEPT !.state = "Connected", !.busy = FALSE, !.firstByte = TRUE])

completeWrite(s, ack) ==
    IF ~ack THEN Disconnect(abort(s, "TXDATA_NOACK"))
    ELSE IF s.stop THEN Disconnect(s)
    ELSE nextCommand([s EXCEPT !.busy = FALSE])

completeRead(s) ==
    LET t == pushRX(s)
    IN  IF t.stop THEN Disconnect(t)
        ELSE nextCommand([t EXCEPT !.firstByte = FALSE, !.busy = FALSE])

Stopped(s) ==
    setInterrupts([s EXCEPT !.state = "Idle", !.busy = FALSE, !.pendingRestart = FALSE],
                  "STOP_DET")

completeStop(s) ==
    IF "ABORT" \in s.enable THEN [Stopped(s) EXCEPT !.enable = @ \ {"ABORT"}]
    ELSE nextCommand(Stopped(s))

arbitrationLost(s) == abort([s EXCEPT !.state = "Idle", !.busy = FALSE], "ARB_LOST")

-----------------------------------------------------------------------------
(* The device answers the callback it owes an answer to. *)

Answered(s) == [s EXCEPT !.owed = "nothing"]

\* What the handler's callbacks tell the device.
Wire(s) ==
    CASE s.owed = "connect" -> [wire EXCEPT !.mode = Direction(Head(s.txFIFO))]
      [] s.owed = "read"    -> [wire EXCEPT !.byte = "Read"]
      [] s.owed = "write"   -> [wire EXCEPT !.byte = "Write"]
      [] OTHER              -> wire

\* A register access; it calls the device only if no answer is owed.
Becomes(s) == i2c' = s /\ wire' = IF i2c.owed = "nothing" THEN Wire(s) ELSE wire

Answer(s, ack) ==
    CASE i2c.owed = "start"   -> completeStart(s)
      [] i2c.owed = "connect" -> completeConnect(s, ack)
      [] i2c.owed = "write"   -> completeWrite(s, ack)
      [] i2c.owed = "read"    -> completeRead(s)
      [] i2c.owed = "stop"    -> completeStop(s)

DeviceAnswers ==
    /\ i2c.owed # "nothing"
    /\ \E ack \in BOOLEAN : LET s == Answer(Answered(i2c), ack) IN i2c' = s /\ wire' = Wire(s)
    /\ UNCHANGED <<dir, queued>>

DeviceLosesArbitration ==
    /\ i2c.owed \in {"start", "connect", "write", "read"}
    /\ i2c' = arbitrationLost(Answered(i2c))
    /\ UNCHANGED <<dir, queued, wire>>

-----------------------------------------------------------------------------
(* The driver: one register access per step. *)

\* IC_DATA_CMD.  The driver asks for a restart when it turns around.
WriteDataCmd ==
    /\ queued < MaxCommands
    /\ \E cmd \in Command :
          /\ Direction(cmd) # dir => cmd.restart
          /\ IF Len(i2c.txFIFO) = FifoSize
             THEN Becomes(setInterrupts(i2c, "TX_OVER")) /\ UNCHANGED dir
             ELSE /\ Becomes(nextCommand([i2c EXCEPT !.txFIFO = Append(@, cmd),
                                                     !.intRaw = @ \ {"TX_EMPTY"}]))
                  /\ dir' = Direction(cmd)
    /\ queued' = queued + 1

ReadDataCmd ==
    /\ IF i2c.rxFIFO = <<>> THEN Becomes(setInterrupts(i2c, "RX_UNDER"))
       ELSE Becomes([i2c EXCEPT !.rxFIFO = Tail(@), !.intRaw = @ \ {"RX_FULL"}])
    /\ UNCHANGED <<dir, queued>>

\* IC_CLR_INTR, and the registers that clear one bit of it.
ClearInterrupts ==
    /\ \E bit \in i2c.intRaw \ {"TX_EMPTY", "RX_FULL"} :
          i2c' = [i2c EXCEPT !.intRaw = @ \ {bit},
                             !.abortSource = IF bit = "TX_ABRT" THEN {} ELSE @]
    /\ UNCHANGED <<dir, queued, wire>>

\* Reading IC_TX_ABRT_SOURCE clears it.
ReadAbortSource ==
    /\ i2c.abortSource # {}
    /\ i2c' = [i2c EXCEPT !.abortSource = {}]
    /\ UNCHANGED <<dir, queued, wire>>

WriteThreshold ==
    /\ \E n \in 0 .. FifoSize :
          \/ "TX_EMPTY" \in Watched /\ i2c' = [i2c EXCEPT !.txThreshold = n]
          \/ "RX_FULL" \in Watched /\ i2c' = [i2c EXCEPT !.rxThreshold = n]
    /\ UNCHANGED <<dir, queued, wire>>

\* The write of IC_ENABLE up to its assignment; value has the pending ABORT in it.
Enabled(s, value) ==
    LET t == IF "ABORT" \in value /\ s.state # "Idle"
             THEN [abort(s, "USER_ABRT") EXCEPT !.stop = TRUE] ELSE s
    IN  IF "ENABLE" \in value THEN t ELSE [t EXCEPT !.txFIFO = <<>>, !.rxFIFO = <<>>]

\* IC_ENABLE.  The driver disables the block when all it queued is through.
WriteEnable ==
    \E bits \in SUBSET {"ENABLE", "ABORT", "TX_CMD_BLOCK"} :
        LET value == bits \cup (i2c.enable \cap {"ABORT"})
            kept == IF i2c.state = "Idle" THEN value \ {"ABORT"} ELSE value
        IN  /\ "ENABLE" \in bits \/ (~i2c.busy /\ i2c.txFIFO = <<>>)
            /\ bits # i2c.enable
            /\ Becomes(nextCommand([Enabled(i2c, value) EXCEPT !.enable = kept]))
            /\ dir' = IF "ENABLE" \notin bits \/ "ABORT" \in value THEN "none" ELSE dir
            /\ UNCHANGED queued

I2cNext ==
    \/ DeviceAnswers \/ DeviceLosesArbitration
    \/ WriteDataCmd \/ ReadDataCmd \/ ClearInterrupts \/ ReadAbortSource
    \/ WriteThreshold \/ WriteEnable

\* A device answers in the end, as the default callbacks do before they return.
I2cFairness == WF_i2cVars(DeviceAnswers)

I2cSpec == I2cInit /\ [][I2cNext]_i2cVars /\ I2cFairness

-----------------------------------------------------------------------------
(* Properties. *)

\* Work is left lying by one step only: the stop that ends an abort does not
\* look at what the driver queued meanwhile.
LeftLying == ~Blocked(i2c)

WorkIsTakenUp ==
    [][LeftLying' => LeftLying \/ "ABORT" \in i2c.enable \ i2c'.enable]_i2cVars

\* An abort of a transfer in progress ends it: the bus falls idle, and with it,
\* unless another master took it, ABORT is clear again.
AbortEnds ==
    ("ABORT" \in i2c.enable /\ i2c.busy /\ i2c.stop)
        ~> (i2c.state = "Idle" \/ "ABORT" \notin i2c.enable)

\* A driver that waits for TX_EMPTY or TX_ABRT after its last command gets one of
\* them when the queue runs empty.
DrainedIsReported ==
    [][i2c.txFIFO # <<>> /\ i2c'.txFIFO = <<>> /\ "ENABLE" \in i2c'.enable
       => i2c'.intRaw \cap {"TX_EMPTY", "TX_ABRT"} # {}]_i2cVars

\* The device sees a well-formed bus.  With an abort pending on a bus that is
\* addressed and quiet, the next command is executed whatever its direction.
BusPhase ==
    CASE i2c.owed = "stop" -> "stop"
      [] i2c.owed # "stop" /\ i2c.state = "Idle" -> "idle"
      [] i2c.owed = "start" -> "start"
      [] i2c.owed = "connect" -> "address"
      [] i2c.owed \in {"read", "write"} -> "byte"
      [] OTHER -> "data"

Bus == INSTANCE I2cBus WITH
    Mode <- {"Read", "Write"}, phase <- BusPhase,
    mode <- wire.mode, moving <- wire.byte,
    aborting <- "ABORT" \in i2c.enable, last <- BusPhase = "byte" /\ i2c.stop

WellFormedBus == Bus!BusSpec

\* The device sees a well-formed bus, and the driver no command that is left lying
\* and no queue that runs empty unnoticed.
I2cSound == WellFormedBus /\ WorkIsTakenUp /\ DrainedIsReported
=============================================================================

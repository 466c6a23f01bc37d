---------------------------- MODULE ProgressProofs ----------------------------
(* Theorems about I2c, for FIFOs of any size and any number of commands: the   *)
(* device sees a well-formed bus whenever it answers and whatever the driver   *)
(* writes in between, no command is left lying, and a queue that runs empty is *)
(* reported.  And about Debugger, for every program and slice: however the     *)
(* stream is cut, each command is carried out once, its answer is true when it *)
(* is read, and what GDB believes of the program is true or about to be.       *)
EXTENDS I2c, Debugger, SequenceTheorems, WellFoundedInduction, TLAPS

-----------------------------------------------------------------------------
(* RPI2C: the invariant.                                                      *)

States == {"Idle", "Start", "Connect", "Connected", "Stop"}
Callbacks == {"nothing", "start", "connect", "read", "write", "stop"}
EnableBits == {"ENABLE", "ABORT", "TX_CMD_BLOCK"}
AbortReasons == {"ADDR_NOACK", "TXDATA_NOACK", "USER_ABRT", "ARB_LOST"}
Directions == {"Read", "Write"}

Objects ==
    [state : States, busy : BOOLEAN, stop : BOOLEAN, pendingRestart : BOOLEAN,
     firstByte : BOOLEAN, rxFIFO : Seq(BOOLEAN), txFIFO : Seq(Command),
     enable : SUBSET EnableBits, rxThreshold : Nat, txThreshold : Nat,
     abortSource : SUBSET AbortReasons, intRaw : SUBSET Watched, owed : Callbacks]

\* The callback that is on its way belongs to the state, and keeps the object busy.
Phased(s) ==
    /\ s.owed = "start" => s.state = "Start"
    /\ s.owed = "connect" => s.state = "Connect"
    /\ s.owed \in {"read", "write"} => s.state = "Connected"
    /\ s.owed = "stop" => s.state \in {"Start", "Stop"}
    /\ s.owed = "nothing" => s.state \in {"Idle", "Connected"}
    /\ s.owed = "nothing" => s.busy = FALSE
    /\ s.owed # "nothing" => s.busy = TRUE

\* A queued command that turns around asks for a restart, and so does the next one
\* the driver writes.
Turned(q, d) ==
    /\ \A i \in 1 .. Len(q) : i + 1 \in 1 .. Len(q) =>
           Direction(q[i]) = Direction(q[i + 1]) \/ q[i + 1].restart = TRUE
    /\ q # <<>> => d \in {Direction(q[Len(q)]), "none"}

\* On an addressed bus the command at the head goes the way of the address, or a
\* restart is still to be made for it; so will the command that is written next.
HeadFits(s, d, mode) ==
    IF s.txFIFO = <<>> THEN s.pendingRestart = FALSE /\ d \in {mode, "none"}
    ELSE \/ Direction(Head(s.txFIFO)) = mode
         \/ Head(s.txFIFO).restart = TRUE /\ s.pendingRestart = FALSE

Addressed(s, d, mode) ==
    s.state \in {"Connect", "Connected"} /\ "ABORT" \notin s.enable /\ s.stop = FALSE
        => HeadFits(s, d, mode)

\* A bus that is addressed and quiet is to be stopped only by an abort.
Quiet(s) ==
    s.owed = "nothing" /\ s.state = "Connected" /\ s.stop = TRUE => "ABORT" \in s.enable

Good(s, d, mode) ==
    /\ s \in Objects /\ Phased(s) /\ Quiet(s)
    /\ Turned(s.txFIFO, d) /\ Addressed(s, d, mode)

I2cInv ==
    /\ Good(i2c, dir, wire.mode)
    /\ dir \in Directions \cup {"none"}
    /\ wire \in [mode : Directions, byte : Directions]

-----------------------------------------------------------------------------
(* The methods. *)

LEMMA HeadOf ==
    ASSUME NEW q \in Seq(Command), q # <<>>
    PROVE  /\ Head(q) \in Command /\ Tail(q) \in Seq(Command)
           /\ Len(q) \in Nat /\ Len(q) # 0 /\ Head(q) = q[1]
           /\ Len(Tail(q)) = Len(q) - 1
           /\ \A i \in 1 .. Len(q) - 1 : Tail(q)[i] = q[i + 1]
           /\ Head(q).read \in BOOLEAN /\ Head(q).restart \in BOOLEAN
           /\ Head(q).stop \in BOOLEAN
<1>1. Head(q) \in Command /\ Tail(q) \in Seq(Command) /\ Len(q) # 0
  BY HeadTailProperties
<1> QED BY <1>1 DEF Command

LEMMA RestartType ==
    ASSUME NEW s \in Objects, s.txFIFO # <<>>
    PROVE  Restart(s) \in BOOLEAN
  BY HeadOf DEF Objects, Restart

LEMMA BeginStartFacts ==
    ASSUME NEW s \in Objects, s.txFIFO # <<>>
    PROVE  LET t == BeginStart(s)
           IN  /\ t \in Objects
               /\ t.state = "Start" /\ t.owed = "start" /\ t.busy = TRUE /\ t.stop = FALSE
               /\ t.txFIFO = s.txFIFO /\ t.enable = s.enable /\ t.intRaw = s.intRaw
  BY RestartType DEF BeginStart, Objects, States, Callbacks

LEMMA TransferFacts ==
    ASSUME NEW s \in Objects, s.txFIFO # <<>>
    PROVE  LET t == Transfer(s)
           IN  /\ t \in Objects
               /\ t.state = s.state /\ t.busy = TRUE
               /\ t.owed = IF Head(s.txFIFO).read THEN "read" ELSE "write"
               /\ t.stop = Head(s.txFIFO).stop /\ t.pendingRestart = FALSE
               /\ t.txFIFO = Tail(s.txFIFO) /\ t.enable = s.enable
               /\ s.intRaw \subseteq t.intRaw
               /\ "TX_EMPTY" \in Watched /\ t.txFIFO = <<>> => "TX_EMPTY" \in t.intRaw
<1> DEFINE cmd == Head(s.txFIFO)
           rest == Tail(s.txFIFO)
           t == [s EXCEPT !.busy = TRUE, !.pendingRestart = FALSE, !.txFIFO = rest,
                          !.stop = cmd.stop, !.owed = IF cmd.read THEN "read" ELSE "write"]
<1>1. rest \in Seq(Command) /\ cmd.stop \in BOOLEAN /\ cmd.read \in BOOLEAN
  BY HeadOf DEF Objects
<1>2. Transfer(s) = IF Len(rest) <= s.txThreshold THEN setInterrupts(t, "TX_EMPTY") ELSE t
  BY DEF Transfer
<1> HIDE DEF cmd, rest
<1>3. /\ t \in Objects /\ t.state = s.state /\ t.busy = TRUE
      /\ t.owed = IF cmd.read THEN "read" ELSE "write"
      /\ t.stop = cmd.stop /\ t.pendingRestart = FALSE /\ t.txFIFO = rest
      /\ t.enable = s.enable /\ t.intRaw = s.intRaw /\ s.txThreshold \in Nat
  BY <1>1 DEF Objects, Callbacks
<1> HIDE DEF t
<1> DEFINE u == [t EXCEPT !.intRaw = @ \cup ({"TX_EMPTY"} \cap Watched)]
<1>4. setInterrupts(t, "TX_EMPTY") = u
  BY DEF setInterrupts
<1>5. /\ u \in Objects /\ u.state = t.state /\ u.busy = t.busy /\ u.owed = t.owed
      /\ u.stop = t.stop /\ u.pendingRestart = t.pendingRestart /\ u.txFIFO = t.txFIFO
      /\ u.enable = t.enable /\ u.intRaw = t.intRaw \cup ({"TX_EMPTY"} \cap Watched)
  BY <1>3 DEF Objects
<1> HIDE DEF u
<1>6. CASE Len(rest) <= s.txThreshold
  BY <1>2, <1>3, <1>4, <1>5, <1>6 DEF cmd, rest
<1>7. CASE ~(Len(rest) <= s.txThreshold)
  <2>1. rest # <<>>
    <3>1. Len(<<>>) = 0
      OBVIOUS
    <3> QED BY <1>3, <1>7, <3>1
  <2> QED BY <1>2, <1>3, <1>7, <2>1 DEF cmd, rest
<1> QED BY <1>6, <1>7

LEMMA DirectionType ==
    ASSUME NEW cmd \in Command
    PROVE  Direction(cmd) \in Directions
  BY DEF Direction, Directions

\* Without its first command a queue is still turned with restarts.
LEMMA TurnedTail ==
    ASSUME NEW q \in Seq(Command), q # <<>>, NEW d, Turned(q, d)
    PROVE  /\ Turned(Tail(q), d)
           /\ Tail(q) = <<>> => d \in {Direction(Head(q)), "none"}
           /\ Tail(q) # <<>> => \/ Direction(Head(Tail(q))) = Direction(Head(q))
                                \/ Head(Tail(q)).restart = TRUE
<1> DEFINE r == Tail(q)
<1>1. /\ r \in Seq(Command) /\ Len(q) \in Nat /\ Len(q) # 0 /\ Head(q) = q[1]
      /\ Len(r) = Len(q) - 1 /\ \A i \in 1 .. Len(q) - 1 : r[i] = q[i + 1]
  BY HeadOf
<1>2. \A i \in 1 .. Len(q) : i + 1 \in 1 .. Len(q) =>
          Direction(q[i]) = Direction(q[i + 1]) \/ q[i + 1].restart = TRUE
  BY DEF Turned
<1>3. d \in {Direction(q[Len(q)]), "none"}
  BY DEF Turned
<1> HIDE DEF r
<1>4. ASSUME NEW i \in 1 .. Len(r), i + 1 \in 1 .. Len(r)
      PROVE  Direction(r[i]) = Direction(r[i + 1]) \/ r[i + 1].restart = TRUE
  <2>1. /\ i + 1 \in 1 .. Len(q) /\ i + 1 + 1 \in 1 .. Len(q)
        /\ r[i] = q[i + 1] /\ r[i + 1] = q[i + 1 + 1]
    BY <1>1, <1>4
  <2> QED BY <1>2, <2>1
<1>5. r # <<>> => Len(r) # 0 /\ r[Len(r)] = q[Len(q)] /\ Head(r) = r[1] /\ r[1] = q[2]
  <2>1. r # <<>> => Len(r) # 0
    BY <1>1, EmptySeq
  <2>2. Len(r) # 0 => /\ Len(r) \in 1 .. Len(q) - 1 /\ Len(r) + 1 = Len(q)
                      /\ 1 \in 1 .. Len(q) - 1
    BY <1>1
  <2>3. r # <<>> => Head(r) = r[1]
    BY <1>1, HeadOf
  <2> QED BY <1>1, <2>1, <2>2, <2>3
<1>6. r # <<>> => Direction(q[1]) = Direction(q[2]) \/ q[2].restart = TRUE
  <2>1. r # <<>> => 1 \in 1 .. Len(q) /\ 1 + 1 \in 1 .. Len(q) /\ 1 + 1 = 2
    BY <1>1, <1>5
  <2> QED BY <1>2, <2>1
<1>7. r = <<>> => Len(q) = 1
  BY <1>1
<1> QED BY <1>1, <1>3, <1>4, <1>5, <1>6, <1>7 DEF Turned, r

\* A command that asks for a restart when it turns around keeps the queue so.
LEMMA TurnedAppend ==
    ASSUME NEW q \in Seq(Command), NEW d, Turned(q, d), NEW cmd \in Command,
           Direction(cmd) # d => cmd.restart = TRUE
    PROVE  Turned(Append(q, cmd), Direction(cmd))
<1> DEFINE r == Append(q, cmd)
<1>1. /\ r \in Seq(Command) /\ Len(q) \in Nat /\ Len(r) = Len(q) + 1 /\ r[Len(r)] = cmd
      /\ \A i \in 1 .. Len(q) : r[i] = q[i]
  BY AppendProperties
<1>2. cmd.restart \in BOOLEAN /\ Direction(cmd) \in Directions
  BY DirectionType DEF Command
<1> HIDE DEF r
<1>3. ASSUME NEW i \in 1 .. Len(r), i + 1 \in 1 .. Len(r)
      PROVE  Direction(r[i]) = Direction(r[i + 1]) \/ r[i + 1].restart = TRUE
  <2>1. CASE i + 1 = Len(r)
    <3>1. i = Len(q) /\ i \in 1 .. Len(q) /\ q # <<>>
      BY <1>1, <1>3, <2>1
    <3>2. d \in {Direction(q[i]), "none"} /\ r[i] = q[i] /\ r[i + 1] = cmd
      BY <1>1, <2>1, <3>1 DEF Turned
    <3> QED BY <1>2, <3>2 DEF Directions
  <2>2. CASE i + 1 # Len(r)
    <3>1. i \in 1 .. Len(q) /\ i + 1 \in 1 .. Len(q)
      BY <1>1, <1>3, <2>2
    <3> QED BY <1>1, <3>1 DEF Turned
  <2> QED BY <2>1, <2>2
<1> QED BY <1>1, <1>3 DEF Turned, r

\* The direction of the byte that a callback is about.
ByteOf(s) == IF s.owed = "read" THEN "Read" ELSE "Write"

\* Whatever nextCommand puts on the wires may follow there; it leaves nothing lying
\* and reports that the queue ran empty.
LEMMA NextCommandFacts ==
    ASSUME NEW s, NEW d, NEW m, Good(s, d, m)
    PROVE  LET t == nextCommand(s)
           IN  /\ Good(t, d, m) /\ Blocked(t)
               /\ t.enable = s.enable /\ s.intRaw \subseteq t.intRaw
               /\ "TX_EMPTY" \in Watched /\ s.txFIFO # <<>> /\ t.txFIFO = <<>>
                      => "TX_EMPTY" \in t.intRaw
               /\ \/ t = s
                  \/ s.owed = "nothing" /\ t.owed = "start" /\ t.stop = FALSE
                  \/ /\ s.owed = "nothing" /\ s.state = "Connected"
                     /\ t.owed \in {"read", "write"}
                     /\ "ABORT" \in s.enable \/ ByteOf(t) = m
<1> DEFINE t == nextCommand(s)
           Goal == /\ Good(t, d, m) /\ Blocked(t)
                   /\ t.enable = s.enable /\ s.intRaw \subseteq t.intRaw
                   /\ "TX_EMPTY" \in Watched /\ s.txFIFO # <<>> /\ t.txFIFO = <<>>
                          => "TX_EMPTY" \in t.intRaw
                   /\ \/ t = s
                      \/ s.owed = "nothing" /\ t.owed = "start" /\ t.stop = FALSE
                      \/ /\ s.owed = "nothing" /\ s.state = "Connected"
                         /\ t.owed \in {"read", "write"}
                         /\ "ABORT" \in s.enable \/ ByteOf(t) = m
<1> SUFFICES Goal
  OBVIOUS
<1>1. s \in Objects /\ Phased(s) /\ Quiet(s) /\ Turned(s.txFIFO, d) /\ Addressed(s, d, m)
  BY DEF Good
<1>2. CASE Blocked(s)
  <2>1. t = s
    BY <1>2 DEF nextCommand
  <2> QED BY <1>1, <1>2, <2>1 DEF Good
<1>3. CASE ~Blocked(s)
  <2>1. s.txFIFO # <<>> /\ s.busy = FALSE /\ s.txFIFO \in Seq(Command)
    BY <1>1, <1>3 DEF Blocked, Objects
  <2>2. s.owed = "nothing" /\ s.state \in {"Idle", "Connected"}
    BY <1>1, <2>1 DEF Phased
  <2>3. CASE s.state = "Idle" \/ Restart(s)
    <3>1. t = BeginStart(s)
      BY <1>3, <2>3 DEF nextCommand
    <3> HIDE DEF t
    <3>2. /\ t \in Objects
          /\ t.state = "Start" /\ t.owed = "start" /\ t.busy = TRUE /\ t.stop = FALSE
          /\ t.txFIFO = s.txFIFO /\ t.enable = s.enable /\ t.intRaw = s.intRaw
      BY <1>1, <2>1, <3>1, BeginStartFacts
    <3>3. Good(t, d, m)
      BY <1>1, <3>2 DEF Good, Phased, Quiet, Addressed
    <3> QED BY <2>1, <2>2, <3>2, <3>3 DEF Blocked
  <2>4. CASE ~(s.state = "Idle" \/ Restart(s))
    <3> DEFINE cmd == Head(s.txFIFO)
    <3>1. t = Transfer(s) /\ s.state = "Connected"
      BY <1>3, <2>2, <2>4 DEF nextCommand
    <3> HIDE DEF t
    <3>2. /\ t \in Objects
          /\ t.state = s.state /\ t.busy = TRUE
          /\ t.owed = IF cmd.read THEN "read" ELSE "write"
          /\ t.stop = cmd.stop /\ t.pendingRestart = FALSE
          /\ t.txFIFO = Tail(s.txFIFO) /\ t.enable = s.enable
          /\ s.intRaw \subseteq t.intRaw
          /\ "TX_EMPTY" \in Watched /\ t.txFIFO = <<>> => "TX_EMPTY" \in t.intRaw
      BY <1>1, <2>1, <3>1, TransferFacts
    <3>3. t.owed \in {"read", "write"} /\ ByteOf(t) = Direction(cmd)
      BY <3>2 DEF ByteOf, Direction
    <3>4. "ABORT" \in s.enable \/ Direction(cmd) = m
      <4>1. SUFFICES ASSUME "ABORT" \notin s.enable PROVE Direction(cmd) = m
        OBVIOUS
      <4>2. s.stop = FALSE
        BY <1>1, <2>2, <3>1, <4>1 DEF Quiet, Objects
      <4>3. Direction(cmd) = m \/ (cmd.restart = TRUE /\ s.pendingRestart = FALSE)
        BY <1>1, <2>1, <3>1, <4>1, <4>2 DEF Addressed, HeadFits
      <4> QED BY <2>4, <4>2, <4>3 DEF Restart
    <3>5. /\ Turned(Tail(s.txFIFO), d)
          /\ Tail(s.txFIFO) = <<>> => d \in {Direction(cmd), "none"}
          /\ Tail(s.txFIFO) # <<>> => \/ Direction(Head(Tail(s.txFIFO))) = Direction(cmd)
                                      \/ Head(Tail(s.txFIFO)).restart = TRUE
      BY <1>1, <2>1, TurnedTail
    <3> HIDE DEF cmd
    <3>6. Phased(t) /\ Quiet(t)
      BY <3>1, <3>2, <3>3 DEF Phased, Quiet
    <3>7. Addressed(t, d, m)
      BY <3>2, <3>4, <3>5 DEF Addressed, HeadFits
    <3> QED BY <2>2, <3>1, <3>2, <3>3, <3>4, <3>5, <3>6, <3>7 DEF Good, Blocked
  <2> QED BY <2>3, <2>4
<1> QED BY <1>2, <1>3

-----------------------------------------------------------------------------
(* What a step may do. *)

\* The phase of the bus, as a function of the object.
PhaseOf(s) ==
    CASE s.owed = "stop" -> "stop"
      [] s.owed # "stop" /\ s.state = "Idle" -> "idle"
      [] s.owed = "start" -> "start"
      [] s.owed = "connect" -> "address"
      [] s.owed \in {"read", "write"} -> "byte"
      [] OTHER -> "data"

LEMMA PhaseFacts ==
    ASSUME NEW s \in Objects, Phased(s)
    PROVE  /\ s.owed = "stop" => PhaseOf(s) = "stop"
           /\ s.owed = "start" => PhaseOf(s) = "start"
           /\ s.owed = "connect" => PhaseOf(s) = "address"
           /\ s.owed \in {"read", "write"} => PhaseOf(s) = "byte"
           /\ s.owed = "nothing" /\ s.state = "Idle" => PhaseOf(s) = "idle"
           /\ s.owed = "nothing" /\ s.state # "Idle" => PhaseOf(s) = "data"
  BY DEF PhaseOf, Phased, Objects, Callbacks

MidByte(s) == PhaseOf(s) = "byte" /\ s.stop = TRUE

\* The steps of I2cBus, from the object s with the wires w to t with v.
Moves(s, w, t, v) ==
    \/ /\ PhaseOf(s) \in {"idle", "stop", "address", "data", "byte"} /\ ~MidByte(s)
       /\ PhaseOf(t) = "start" /\ v = w
    \/ PhaseOf(s) = "start" /\ PhaseOf(t) = "address" /\ v.byte = w.byte
    \/ /\ PhaseOf(s) \in {"address", "byte"} /\ ~MidByte(s)
       /\ PhaseOf(t) = "data" /\ v = w
    \/ /\ PhaseOf(s) \in {"address", "data", "byte"} /\ ~MidByte(s)
       /\ PhaseOf(t) = "byte" /\ v.mode = w.mode
       /\ v.byte = w.mode \/ "ABORT" \in s.enable
    \/ /\ PhaseOf(s) = "byte" /\ PhaseOf(t) = "byte" /\ v = w
       /\ t.stop = TRUE \/ t.stop = s.stop
    \/ /\ PhaseOf(s) \in {"start", "address", "byte"}
       /\ PhaseOf(t) = "stop" /\ v = w
    \/ PhaseOf(t) = "idle" /\ v = w
    \/ PhaseOf(t) = PhaseOf(s) /\ PhaseOf(t) # "byte" /\ v = w

\* Nothing is left lying, except by the stop that clears ABORT.
Looked(s, t) == Blocked(t) \/ ~Blocked(s) \/ "ABORT" \in s.enable \ t.enable

\* A queue that runs empty is reported.
Reported(s, t) ==
    s.txFIFO # <<>> /\ t.txFIFO = <<>> /\ "ENABLE" \in t.enable
        => t.intRaw \cap {"TX_EMPTY", "TX_ABRT"} # {}

\* A step to the object t, the wires v and the driver's direction d is a sound one.
Sound(t, v, d) ==
    /\ Good(t, d, v.mode) /\ v \in [mode : Directions, byte : Directions]
    /\ Moves(i2c, wire, t, v) /\ Looked(i2c, t) /\ Reported(i2c, t)

LEMMA SoundStep ==
    ASSUME I2cInv, Sound(i2c', wire', dir'), dir' \in Directions \cup {"none"}
    PROVE  /\ I2cInv' /\ Bus!BusNext
           /\ LeftLying' => LeftLying \/ "ABORT" \in i2c.enable \ i2c'.enable
           /\ Reported(i2c, i2c')
<1>1. I2cInv'
  BY DEF Sound, I2cInv
<1>2. BusPhase = PhaseOf(i2c) /\ BusPhase' = PhaseOf(i2c')
  BY DEF BusPhase, PhaseOf
<1>3. i2c.stop \in BOOLEAN /\ i2c'.stop \in BOOLEAN
  BY <1>1 DEF I2cInv, Good, Objects
<1>4. (i2c.stop <=> i2c.stop = TRUE) /\ (i2c'.stop <=> i2c'.stop = TRUE)
  BY <1>3
<1>5. /\ wire.mode \in Directions /\ wire.byte \in Directions
      /\ wire'.mode \in Directions /\ wire'.byte \in Directions
  BY DEF I2cInv, Sound
<1>6. Moves(i2c, wire, i2c', wire')
  BY DEF Sound
<1>7. \/ Bus!StartCondition \/ Bus!Address \/ Bus!Pause \/ Bus!Byte \/ Bus!Curtail
      \/ Bus!StopCondition \/ Bus!Released \/ UNCHANGED Bus!wires
  BY <1>2, <1>3, <1>4, <1>5, <1>6
     DEF Moves, MidByte, Directions, Bus!StartCondition, Bus!Address, Bus!Pause, Bus!Byte,
         Bus!Curtail, Bus!StopCondition, Bus!Released, Bus!wires
<1>8. Bus!BusNext
  BY <1>7 DEF Bus!BusNext
<1>9. LeftLying' => LeftLying \/ "ABORT" \in i2c.enable \ i2c'.enable
  BY DEF Sound, Looked, LeftLying
<1> QED BY <1>1, <1>8, <1>9 DEF Sound

-----------------------------------------------------------------------------
(* The device's answers.  answered is the object when the method is called. *)

LEMMA SetInterruptsFacts ==
    ASSUME NEW s \in Objects, NEW bit
    PROVE  LET t == setInterrupts(s, bit)
           IN  /\ t \in Objects /\ s.intRaw \subseteq t.intRaw
               /\ bit \in Watched => bit \in t.intRaw
               /\ t.state = s.state /\ t.owed = s.owed /\ t.busy = s.busy /\ t.stop = s.stop
               /\ t.pendingRestart = s.pendingRestart /\ t.txFIFO = s.txFIFO
               /\ t.enable = s.enable /\ t.rxFIFO = s.rxFIFO
<1> DEFINE raw == s.intRaw \cup ({bit} \cap Watched)
           t == [s EXCEPT !.intRaw = raw]
<1>1. setInterrupts(s, bit) = t
  BY DEF setInterrupts
<1>2. /\ raw \in SUBSET Watched /\ s.intRaw \subseteq raw
      /\ bit \in Watched => bit \in raw
  BY DEF Objects
<1> HIDE DEF raw
<1>3. /\ t \in Objects /\ t.intRaw = raw
      /\ t.state = s.state /\ t.owed = s.owed /\ t.busy = s.busy /\ t.stop = s.stop
      /\ t.pendingRestart = s.pendingRestart /\ t.txFIFO = s.txFIFO
      /\ t.enable = s.enable /\ t.rxFIFO = s.rxFIFO
  BY <1>2 DEF Objects
<1> QED BY <1>1, <1>2, <1>3

LEMMA AbortFacts ==
    ASSUME NEW s \in Objects, NEW reason \in AbortReasons
    PROVE  LET t == abort(s, reason)
           IN  /\ t \in Objects
               /\ "TX_ABRT" \in Watched => "TX_ABRT" \in t.intRaw
               /\ t.state = s.state /\ t.owed = s.owed /\ t.busy = s.busy /\ t.stop = s.stop
               /\ t.txFIFO = <<>> /\ t.enable = s.enable
<1> DEFINE sources == s.abortSource \cup {reason}
           u == [s EXCEPT !.abortSource = sources, !.txFIFO = <<>>]
<1>1. abort(s, reason) = setInterrupts(u, "TX_ABRT")
  BY DEF abort
<1>2. sources \in SUBSET AbortReasons /\ <<>> \in Seq(Command)
  BY DEF Objects
<1> HIDE DEF sources
<1>3. /\ u \in Objects /\ u.txFIFO = <<>>
      /\ u.state = s.state /\ u.owed = s.owed /\ u.busy = s.busy /\ u.stop = s.stop
      /\ u.enable = s.enable
  BY <1>2 DEF Objects
<1> HIDE DEF u
<1> QED BY <1>1, <1>3, SetInterruptsFacts

LEMMA DisconnectFacts ==
    ASSUME NEW s \in Objects
    PROVE  LET t == Disconnect(s)
           IN  /\ t \in Objects /\ t.state = "Stop" /\ t.owed = "stop"
               /\ t.busy = s.busy /\ t.stop = s.stop /\ t.txFIFO = s.txFIFO
               /\ t.enable = s.enable /\ t.intRaw = s.intRaw
  BY DEF Disconnect, onStop, Objects, States, Callbacks

LEMMA AnsweredFacts ==
    ASSUME NEW s \in Objects
    PROVE  LET t == Answered(s)
           IN  /\ t \in Objects /\ t.owed = "nothing"
               /\ t.state = s.state /\ t.busy = s.busy /\ t.stop = s.stop
               /\ t.pendingRestart = s.pendingRestart /\ t.txFIFO = s.txFIFO
               /\ t.enable = s.enable /\ t.intRaw = s.intRaw
  BY DEF Answered, Objects, Callbacks

LEMMA EmptyTurned == \A d : Turned(<<>>, d)
  BY DEF Turned

\* The bus is stopped, with the queue kept or, after an abort, lost.
LEMMA StopIsSound ==
    ASSUME I2cInv, PhaseOf(i2c) \in {"start", "address", "byte"},
           NEW t \in Objects, t.state \in {"Start", "Stop"}, t.owed = "stop",
           t.busy = i2c.busy, t.enable = i2c.enable,
           \/ t.txFIFO = i2c.txFIFO
           \/ t.txFIFO = <<>> /\ "TX_ABRT" \in t.intRaw
    PROVE  Sound(t, wire, dir) /\ Wire(t) = wire
<1>1. i2c \in Objects /\ Phased(i2c) /\ Turned(i2c.txFIFO, dir)
  BY DEF I2cInv, Good
<1>2. i2c.owed # "nothing"
  BY <1>1, PhaseFacts
<1>3. t.busy = TRUE
  BY <1>1, <1>2 DEF Phased
<1>4. Phased(t) /\ Quiet(t) /\ Addressed(t, dir, wire.mode)
  BY <1>3 DEF Phased, Quiet, Addressed
<1>5. Turned(t.txFIFO, dir)
  BY <1>1, EmptyTurned
<1>6. PhaseOf(t) = "stop"
  BY DEF PhaseOf
<1>7. Moves(i2c, wire, t, wire)
  BY <1>6 DEF Moves
<1>8. Looked(i2c, t) /\ Reported(i2c, t)
  BY <1>3 DEF Looked, Reported, Blocked
<1>9. Good(t, dir, wire.mode) /\ wire \in [mode : Directions, byte : Directions]
  BY <1>4, <1>5 DEF Good, I2cInv
<1>10. Wire(t) = wire
  BY DEF Wire
<1> QED BY <1>7, <1>8, <1>9, <1>10 DEF Sound

\* The next command follows a byte or the address that was acknowledged.
LEMMA GoOnIsSound ==
    ASSUME I2cConstants, I2cInv, PhaseOf(i2c) \in {"address", "byte"}, i2c.stop = FALSE,
           NEW s \in Objects, s.state = "Connected", s.owed = "nothing", s.busy = FALSE,
           s.stop = FALSE, s.pendingRestart = i2c.pendingRestart, s.txFIFO = i2c.txFIFO,
           s.enable = i2c.enable
    PROVE  Sound(nextCommand(s), Wire(nextCommand(s)), dir)
<1> DEFINE t == nextCommand(s)
           m == wire.mode
<1>1. /\ i2c \in Objects /\ Phased(i2c) /\ Turned(i2c.txFIFO, dir)
      /\ Addressed(i2c, dir, m) /\ wire \in [mode : Directions, byte : Directions]
  BY DEF I2cInv, Good
<1>2. i2c.owed \in {"connect", "read", "write"} /\ i2c.state \in {"Connect", "Connected"}
  BY <1>1, PhaseFacts DEF Phased, Objects, Callbacks
<1>3. Good(s, dir, m)
  <2>1. Phased(s) /\ Quiet(s)
    BY DEF Phased, Quiet
  <2>2. Addressed(s, dir, m)
    BY <1>1, <1>2 DEF Addressed, HeadFits
  <2> QED BY <1>1, <2>1, <2>2 DEF Good
<1>4. /\ Good(t, dir, m) /\ Blocked(t)
      /\ t.enable = s.enable /\ s.intRaw \subseteq t.intRaw
      /\ "TX_EMPTY" \in Watched /\ s.txFIFO # <<>> /\ t.txFIFO = <<>>
             => "TX_EMPTY" \in t.intRaw
      /\ \/ t = s
         \/ s.owed = "nothing" /\ t.owed = "start" /\ t.stop = FALSE
         \/ /\ s.owed = "nothing" /\ s.state = "Connected"
            /\ t.owed \in {"read", "write"}
            /\ "ABORT" \in s.enable \/ ByteOf(t) = m
  BY <1>3, NextCommandFacts
<1> HIDE DEF t
<1>5. /\ Looked(i2c, t) /\ Reported(i2c, t)
  BY <1>4 DEF Looked, Reported, I2cConstants
<1>6. ~MidByte(i2c)
  BY DEF MidByte
<1>7. t \in Objects /\ Phased(t)
  BY <1>4 DEF Good
<1>8. CASE t = s
  <2>1. PhaseOf(t) = "data" /\ Wire(t) = wire
    BY <1>7, <1>8, PhaseFacts DEF Wire
  <2>2. Moves(i2c, wire, t, wire)
    BY <1>6, <2>1 DEF Moves
  <2> QED BY <1>1, <1>4, <1>5, <2>1, <2>2 DEF Sound, t
<1>9. CASE t.owed = "start"
  <2>1. PhaseOf(t) = "start" /\ Wire(t) = wire
    BY <1>7, <1>9, PhaseFacts DEF Wire
  <2>2. Moves(i2c, wire, t, wire)
    BY <1>6, <2>1 DEF Moves
  <2> QED BY <1>1, <1>4, <1>5, <2>1, <2>2 DEF Sound, t
<1>10. CASE t.owed \in {"read", "write"} /\ ("ABORT" \in s.enable \/ ByteOf(t) = m)
  <2>1. PhaseOf(t) = "byte"
    BY <1>7, <1>10, PhaseFacts
  <2>2. Wire(t) = [wire EXCEPT !.byte = ByteOf(t)]
    BY <1>10 DEF Wire, ByteOf
  <2>3. Wire(t).mode = m /\ Wire(t).byte = ByteOf(t) /\ ByteOf(t) \in Directions
        /\ Wire(t) \in [mode : Directions, byte : Directions]
    BY <1>1, <2>2 DEF ByteOf, Directions
  <2>4. Moves(i2c, wire, t, Wire(t))
    BY <1>6, <1>10, <2>1, <2>3 DEF Moves
  <2> QED BY <1>4, <1>5, <2>3, <2>4 DEF Sound, t
<1> QED BY <1>4, <1>8, <1>9, <1>10

LEMMA AnswerStart ==
    ASSUME I2cConstants, I2cInv, i2c.owed = "start"
    PROVE  LET t == completeStart(Answered(i2c)) IN Sound(t, Wire(t), dir)
<1> DEFINE s == Answered(i2c)
           t == completeStart(s)
<1>1. /\ i2c \in Objects /\ Phased(i2c) /\ Quiet(i2c) /\ Turned(i2c.txFIFO, dir)
      /\ wire \in [mode : Directions, byte : Directions]
  BY DEF I2cInv, Good
<1>2. i2c.state = "Start" /\ i2c.busy = TRUE /\ PhaseOf(i2c) = "start"
  BY <1>1, PhaseFacts DEF Phased
<1>3. /\ s \in Objects /\ s.owed = "nothing"
      /\ s.state = i2c.state /\ s.busy = i2c.busy /\ s.stop = i2c.stop
      /\ s.pendingRestart = i2c.pendingRestart /\ s.txFIFO = i2c.txFIFO
      /\ s.enable = i2c.enable /\ s.intRaw = i2c.intRaw
  BY <1>1, AnsweredFacts
<1> HIDE DEF s
<1>4. CASE s.txFIFO = <<>> \/ s.state # "Start" \/ s.stop
  <2>1. t = [s EXCEPT !.owed = "stop"]
    BY <1>4 DEF completeStart, onStop
  <2> HIDE DEF t
  <2>2. /\ t \in Objects /\ t.state = s.state /\ t.owed = "stop" /\ t.busy = s.busy
        /\ t.enable = s.enable /\ t.txFIFO = s.txFIFO
    BY <1>3, <2>1 DEF Objects, Callbacks
  <2>3. Sound(t, wire, dir) /\ Wire(t) = wire
    BY <1>2, <1>3, <2>2, StopIsSound
  <2> QED BY <2>3 DEF s, t
<1>5. CASE ~(s.txFIFO = <<>> \/ s.state # "Start" \/ s.stop)
  <2> DEFINE u == [s EXCEPT !.state = "Connect", !.owed = "connect"]
             head == Head(s.txFIFO)
             m == Direction(head)
  <2>1. t = setInterrupts(u, "START_DET")
    BY <1>5 DEF completeStart
  <2>2. /\ u \in Objects /\ u.state = "Connect" /\ u.owed = "connect" /\ u.busy = s.busy
        /\ u.enable = s.enable /\ u.txFIFO = s.txFIFO
    BY <1>3 DEF Objects, States, Callbacks
  <2> HIDE DEF t, u
  <2>3. /\ t \in Objects /\ t.state = "Connect" /\ t.owed = "connect" /\ t.busy = s.busy
        /\ t.enable = s.enable /\ t.txFIFO = s.txFIFO
    BY <2>1, <2>2, SetInterruptsFacts
  <2>4. s.txFIFO # <<>> /\ s.txFIFO \in Seq(Command)
    BY <1>3, <1>5 DEF Objects
  <2>5. m \in Directions
    BY <2>4, HeadOf, DirectionType
  <2> HIDE DEF m
  <2>6. Wire(t) = [wire EXCEPT !.mode = m]
    BY <2>3 DEF Wire, m
  <2>7. Wire(t).mode = m /\ Wire(t).byte = wire.byte
        /\ Wire(t) \in [mode : Directions, byte : Directions]
    BY <1>1, <2>5, <2>6
  <2>8. Addressed(t, dir, m)
    BY <2>3, <2>4 DEF Addressed, HeadFits, m
  <2>9. Phased(t) /\ Quiet(t)
    BY <1>2, <1>3, <2>3 DEF Phased, Quiet
  <2>10. PhaseOf(t) = "address"
    BY <2>3, <2>9, PhaseFacts
  <2>11. Moves(i2c, wire, t, Wire(t))
    BY <1>2, <2>7, <2>10 DEF Moves
  <2>12. Looked(i2c, t) /\ Reported(i2c, t)
    BY <1>2, <1>3, <2>3 DEF Looked, Reported, Blocked
  <2> QED BY <1>1, <1>3, <2>3, <2>7, <2>8, <2>9, <2>11, <2>12 DEF Sound, Good, s, t
<1> QED BY <1>4, <1>5

\* What the three answers to an address or a byte have in common.
LEMMA AnswerByte ==
    ASSUME I2cConstants, I2cInv, PhaseOf(i2c) \in {"address", "byte"},
           NEW s \in Objects, s.owed = "nothing", s.busy = TRUE, s.stop = i2c.stop,
           s.pendingRestart = i2c.pendingRestart, s.txFIFO = i2c.txFIFO,
           s.enable = i2c.enable
    PROVE  /\ \A reason \in AbortReasons : LET t == Disconnect(abort(s, reason))
                                           IN  Sound(t, Wire(t), dir)
           /\ LET t == Disconnect(s) IN Sound(t, Wire(t), dir)
<1>1. ASSUME NEW reason \in AbortReasons
      PROVE  LET t == Disconnect(abort(s, reason)) IN Sound(t, Wire(t), dir)
  <2> DEFINE u == abort(s, reason)
             t == Disconnect(u)
  <2>1. /\ u \in Objects
        /\ "TX_ABRT" \in Watched => "TX_ABRT" \in u.intRaw
        /\ u.busy = s.busy /\ u.stop = s.stop /\ u.txFIFO = <<>> /\ u.enable = s.enable
    BY AbortFacts
  <2> HIDE DEF u
  <2>2. /\ t \in Objects /\ t.state = "Stop" /\ t.owed = "stop"
        /\ t.busy = u.busy /\ t.stop = u.stop /\ t.txFIFO = u.txFIFO
        /\ t.enable = u.enable /\ t.intRaw = u.intRaw
    BY <2>1, DisconnectFacts
  <2> HIDE DEF t
  <2>3. "TX_ABRT" \in t.intRaw
    BY <2>1, <2>2 DEF I2cConstants
  <2>4. i2c.busy = TRUE
    <3>1. i2c \in Objects /\ Phased(i2c)
      BY DEF I2cInv, Good
    <3>2. i2c.owed # "nothing"
      BY <3>1, PhaseFacts
    <3> QED BY <3>1, <3>2 DEF Phased
  <2>5. Sound(t, wire, dir) /\ Wire(t) = wire
    BY <2>1, <2>2, <2>3, <2>4, StopIsSound
  <2> QED BY <2>5 DEF t, u
<1>2. LET t == Disconnect(s) IN Sound(t, Wire(t), dir)
  <2> DEFINE t == Disconnect(s)
  <2>1. /\ t \in Objects /\ t.state = "Stop" /\ t.owed = "stop"
        /\ t.busy = s.busy /\ t.stop = s.stop /\ t.txFIFO = s.txFIFO
        /\ t.enable = s.enable /\ t.intRaw = s.intRaw
    BY DisconnectFacts
  <2> HIDE DEF t
  <2>2. i2c.busy = TRUE
    <3>1. i2c \in Objects /\ Phased(i2c)
      BY DEF I2cInv, Good
    <3>2. i2c.owed # "nothing"
      BY <3>1, PhaseFacts
    <3> QED BY <3>1, <3>2 DEF Phased
  <2>3. Sound(t, wire, dir) /\ Wire(t) = wire
    BY <2>1, <2>2, StopIsSound
  <2> QED BY <2>3 DEF t
<1> QED BY <1>1, <1>2

LEMMA AnswerConnect ==
    ASSUME I2cConstants, I2cInv, i2c.owed = "connect", NEW ack \in BOOLEAN
    PROVE  LET t == completeConnect(Answered(i2c), ack) IN Sound(t, Wire(t), dir)
<1> DEFINE s == Answered(i2c)
           u == [s EXCEPT !.state = "Connected", !.busy = FALSE, !.firstByte = TRUE]
<1>1. i2c \in Objects /\ Phased(i2c)
  BY DEF I2cInv, Good
<1>2. i2c.busy = TRUE /\ PhaseOf(i2c) = "address"
  BY <1>1, PhaseFacts DEF Phased
<1>3. /\ s \in Objects /\ s.owed = "nothing"
      /\ s.state = i2c.state /\ s.busy = i2c.busy /\ s.stop = i2c.stop
      /\ s.pendingRestart = i2c.pendingRestart /\ s.txFIFO = i2c.txFIFO
      /\ s.enable = i2c.enable /\ s.intRaw = i2c.intRaw
  BY <1>1, AnsweredFacts
<1> HIDE DEF s
<1>4. completeConnect(s, ack) =
          IF ~ack THEN Disconnect(abort(s, "ADDR_NOACK"))
          ELSE IF s.stop THEN Disconnect(s) ELSE nextCommand(u)
  BY DEF completeConnect
<1>5. /\ LET t == Disconnect(abort(s, "ADDR_NOACK")) IN Sound(t, Wire(t), dir)
      /\ LET t == Disconnect(s) IN Sound(t, Wire(t), dir)
  BY <1>2, <1>3, AnswerByte DEF AbortReasons
<1>6. ASSUME ~s.stop PROVE Sound(nextCommand(u), Wire(nextCommand(u)), dir)
  <2>1. s.stop = FALSE
    BY <1>3, <1>6 DEF Objects
  <2>2. /\ u \in Objects /\ u.state = "Connected" /\ u.owed = "nothing" /\ u.busy = FALSE
        /\ u.stop = FALSE /\ u.pendingRestart = s.pendingRestart /\ u.txFIFO = s.txFIFO
        /\ u.enable = s.enable
    BY <1>3, <2>1 DEF Objects, States
  <2> HIDE DEF u
  <2> QED BY <1>2, <1>3, <2>1, <2>2, GoOnIsSound
<1> HIDE DEF u
<1> QED BY <1>4, <1>5, <1>6 DEF s

LEMMA AnswerWrite ==
    ASSUME I2cConstants, I2cInv, i2c.owed = "write", NEW ack \in BOOLEAN
    PROVE  LET t == completeWrite(Answered(i2c), ack) IN Sound(t, Wire(t), dir)
<1> DEFINE s == Answered(i2c)
           u == [s EXCEPT !.busy = FALSE]
<1>1. i2c \in Objects /\ Phased(i2c)
  BY DEF I2cInv, Good
<1>2. i2c.state = "Connected" /\ i2c.busy = TRUE /\ PhaseOf(i2c) = "byte"
  BY <1>1, PhaseFacts DEF Phased
<1>3. /\ s \in Objects /\ s.owed = "nothing"
      /\ s.state = i2c.state /\ s.busy = i2c.busy /\ s.stop = i2c.stop
      /\ s.pendingRestart = i2c.pendingRestart /\ s.txFIFO = i2c.txFIFO
      /\ s.enable = i2c.enable /\ s.intRaw = i2c.intRaw
  BY <1>1, AnsweredFacts
<1> HIDE DEF s
<1>4. completeWrite(s, ack) =
          IF ~ack THEN Disconnect(abort(s, "TXDATA_NOACK"))
          ELSE IF s.stop THEN Disconnect(s) ELSE nextCommand(u)
  BY DEF completeWrite
<1>5. /\ LET t == Disconnect(abort(s, "TXDATA_NOACK")) IN Sound(t, Wire(t), dir)
      /\ LET t == Disconnect(s) IN Sound(t, Wire(t), dir)
  BY <1>2, <1>3, AnswerByte DEF AbortReasons
<1>6. ASSUME ~s.stop PROVE Sound(nextCommand(u), Wire(nextCommand(u)), dir)
  <2>1. s.stop = FALSE
    BY <1>3, <1>6 DEF Objects
  <2>2. /\ u \in Objects /\ u.state = "Connected" /\ u.owed = "nothing" /\ u.busy = FALSE
        /\ u.stop = FALSE /\ u.pendingRestart = s.pendingRestart /\ u.txFIFO = s.txFIFO
        /\ u.enable = s.enable
    BY <1>2, <1>3, <2>1 DEF Objects
  <2> HIDE DEF u
  <2> QED BY <1>2, <1>3, <2>1, <2>2, GoOnIsSound
<1> HIDE DEF u
<1> QED BY <1>4, <1>5, <1>6 DEF s

\* A byte that is received goes into the FIFO, or is lost for want of room.
LEMMA PushFacts ==
    ASSUME NEW s \in Objects
    PROVE  LET t == pushRX(s)
           IN  /\ t \in Objects
               /\ t.state = s.state /\ t.owed = s.owed /\ t.busy = s.busy /\ t.stop = s.stop
               /\ t.pendingRestart = s.pendingRestart /\ t.txFIFO = s.txFIFO
               /\ t.enable = s.enable
<1> DEFINE more == Append(s.rxFIFO, s.firstByte)
           u == [s EXCEPT !.rxFIFO = more]
<1>1. pushRX(s) = IF Len(s.rxFIFO) = FifoSize THEN setInterrupts(s, "RX_OVER")
                  ELSE IF Len(u.rxFIFO) > u.rxThreshold THEN setInterrupts(u, "RX_FULL") ELSE u
  BY DEF pushRX
<1>2. more \in Seq(BOOLEAN)
  BY DEF Objects
<1> HIDE DEF more
<1>3. /\ u \in Objects
      /\ u.state = s.state /\ u.owed = s.owed /\ u.busy = s.busy /\ u.stop = s.stop
      /\ u.pendingRestart = s.pendingRestart /\ u.txFIFO = s.txFIFO
      /\ u.enable = s.enable
  BY <1>2 DEF Objects
<1> HIDE DEF u
<1> QED BY <1>1, <1>3, SetInterruptsFacts

LEMMA AnswerRead ==
    ASSUME I2cConstants, I2cInv, i2c.owed = "read"
    PROVE  LET t == completeRead(Answered(i2c)) IN Sound(t, Wire(t), dir)
<1> DEFINE a == Answered(i2c)
           s == pushRX(a)
           u == [s EXCEPT !.firstByte = FALSE, !.busy = FALSE]
<1>1. i2c \in Objects /\ Phased(i2c)
  BY DEF I2cInv, Good
<1>2. i2c.state = "Connected" /\ i2c.busy = TRUE /\ PhaseOf(i2c) = "byte"
  BY <1>1, PhaseFacts DEF Phased
<1>3. /\ a \in Objects /\ a.owed = "nothing"
      /\ a.state = i2c.state /\ a.busy = i2c.busy /\ a.stop = i2c.stop
      /\ a.pendingRestart = i2c.pendingRestart /\ a.txFIFO = i2c.txFIFO
      /\ a.enable = i2c.enable
  BY <1>1, AnsweredFacts
<1> HIDE DEF a
<1>4. /\ s \in Objects /\ s.owed = "nothing"
      /\ s.state = i2c.state /\ s.busy = i2c.busy /\ s.stop = i2c.stop
      /\ s.pendingRestart = i2c.pendingRestart /\ s.txFIFO = i2c.txFIFO
      /\ s.enable = i2c.enable
  BY <1>3, PushFacts
<1>5. completeRead(a) = IF s.stop THEN Disconnect(s) ELSE nextCommand(u)
  BY DEF completeRead
<1> HIDE DEF s
<1>6. LET t == Disconnect(s) IN Sound(t, Wire(t), dir)
  BY <1>2, <1>4, AnswerByte
<1>7. ASSUME ~s.stop PROVE Sound(nextCommand(u), Wire(nextCommand(u)), dir)
  <2>1. s.stop = FALSE
    BY <1>4, <1>7 DEF Objects
  <2>2. /\ u \in Objects /\ u.state = "Connected" /\ u.owed = "nothing" /\ u.busy = FALSE
        /\ u.stop = FALSE /\ u.pendingRestart = s.pendingRestart /\ u.txFIFO = s.txFIFO
        /\ u.enable = s.enable
    BY <1>2, <1>4, <2>1 DEF Objects
  <2> HIDE DEF u
  <2> QED BY <1>2, <1>4, <2>1, <2>2, GoOnIsSound
<1> HIDE DEF u
<1> QED BY <1>5, <1>6, <1>7 DEF a

LEMMA AnswerStop ==
    ASSUME I2cConstants, I2cInv, i2c.owed = "stop"
    PROVE  LET t == completeStop(Answered(i2c)) IN Sound(t, Wire(t), dir)
<1> DEFINE s == Answered(i2c)
           u == Stopped(s)
           t == completeStop(s)
           x == [s EXCEPT !.state = "Idle", !.busy = FALSE, !.pendingRestart = FALSE]
<1>1. /\ i2c \in Objects /\ Phased(i2c) /\ Turned(i2c.txFIFO, dir)
      /\ wire \in [mode : Directions, byte : Directions]
  BY DEF I2cInv, Good
<1>2. PhaseOf(i2c) = "stop" /\ ~MidByte(i2c)
  BY <1>1, PhaseFacts DEF MidByte
<1>3. /\ s \in Objects /\ s.owed = "nothing" /\ s.txFIFO = i2c.txFIFO
      /\ s.enable = i2c.enable /\ s.intRaw = i2c.intRaw
  BY <1>1, AnsweredFacts
<1> HIDE DEF s
<1>4. /\ x \in Objects /\ x.state = "Idle" /\ x.busy = FALSE /\ x.owed = "nothing"
      /\ x.txFIFO = s.txFIFO /\ x.enable = s.enable /\ x.intRaw = s.intRaw
  BY <1>3 DEF Objects, States
<1>5. u = setInterrupts(x, "STOP_DET")
  BY DEF Stopped
<1>6. t = IF "ABORT" \in s.enable THEN [u EXCEPT !.enable = @ \ {"ABORT"}] ELSE nextCommand(u)
  BY DEF completeStop
<1> HIDE DEF x, u, t
<1>7. /\ u \in Objects /\ u.state = "Idle" /\ u.busy = FALSE /\ u.owed = "nothing"
      /\ u.txFIFO = i2c.txFIFO /\ u.enable = i2c.enable /\ i2c.intRaw \subseteq u.intRaw
  BY <1>3, <1>4, <1>5, SetInterruptsFacts
<1>8. CASE "ABORT" \in s.enable
  <2> DEFINE rest == u.enable \ {"ABORT"}
             y == [u EXCEPT !.enable = rest]
  <2>1. rest \in SUBSET EnableBits /\ t = y
    BY <1>6, <1>7, <1>8 DEF Objects
  <2> HIDE DEF rest
  <2>2. /\ y \in Objects /\ y.state = "Idle" /\ y.busy = FALSE /\ y.owed = "nothing"
        /\ y.txFIFO = u.txFIFO /\ y.enable = rest
    BY <1>7, <2>1 DEF Objects
  <2> HIDE DEF y
  <2>3. Phased(y) /\ Quiet(y) /\ Addressed(y, dir, wire.mode)
    BY <2>2 DEF Phased, Quiet, Addressed
  <2>4. PhaseOf(y) = "idle" /\ Wire(y) = wire
    BY <2>2, <2>3, PhaseFacts DEF Wire
  <2>5. Moves(i2c, wire, y, wire)
    BY <2>4 DEF Moves
  <2>6. Looked(i2c, y) /\ Reported(i2c, y)
    BY <1>3, <1>7, <1>8, <2>2 DEF Looked, Reported, rest
  <2> QED BY <1>1, <1>7, <2>1, <2>2, <2>3, <2>4, <2>5, <2>6 DEF Sound, Good, s, t
<1>9. CASE "ABORT" \notin s.enable
  <2>1. Good(u, dir, wire.mode)
    BY <1>1, <1>7 DEF Good, Phased, Quiet, Addressed
  <2>2. /\ Good(nextCommand(u), dir, wire.mode) /\ Blocked(nextCommand(u))
        /\ nextCommand(u).enable = u.enable /\ u.intRaw \subseteq nextCommand(u).intRaw
        /\ "TX_EMPTY" \in Watched /\ u.txFIFO # <<>> /\ nextCommand(u).txFIFO = <<>>
               => "TX_EMPTY" \in nextCommand(u).intRaw
        /\ \/ nextCommand(u) = u
           \/ nextCommand(u).owed = "start"
    BY <1>7, <2>1, NextCommandFacts
  <2>3. t = nextCommand(u)
    BY <1>6, <1>9
  <2>4. t \in Objects /\ Phased(t)
    BY <2>2, <2>3 DEF Good
  <2>5. PhaseOf(t) \in {"idle", "start"} /\ Wire(t) = wire
    BY <1>7, <2>2, <2>3, <2>4, PhaseFacts DEF Wire
  <2>6. Moves(i2c, wire, t, wire)
    BY <1>2, <2>5 DEF Moves
  <2>7. Looked(i2c, t) /\ Reported(i2c, t)
    BY <1>7, <2>2, <2>3 DEF Looked, Reported, I2cConstants
  <2> QED BY <1>1, <2>2, <2>3, <2>5, <2>6, <2>7 DEF Sound, s, t
<1> QED BY <1>8, <1>9

\* Another master takes the bus.
LEMMA ArbitrationLost ==
    ASSUME I2cConstants, I2cInv, i2c.owed \in {"start", "connect", "write", "read"}
    PROVE  Sound(arbitrationLost(Answered(i2c)), wire, dir)
<1> DEFINE s == Answered(i2c)
           x == [s EXCEPT !.state = "Idle", !.busy = FALSE]
           t == abort(x, "ARB_LOST")
<1>1. i2c \in Objects /\ wire \in [mode : Directions, byte : Directions]
  BY DEF I2cInv, Good
<1>2. s \in Objects /\ s.owed = "nothing" /\ s.enable = i2c.enable
  BY <1>1, AnsweredFacts
<1> HIDE DEF s
<1>3. x \in Objects /\ x.state = "Idle" /\ x.busy = FALSE /\ x.owed = "nothing"
  BY <1>2 DEF Objects, States
<1> HIDE DEF x
<1>4. /\ t \in Objects
      /\ "TX_ABRT" \in Watched => "TX_ABRT" \in t.intRaw
      /\ t.state = "Idle" /\ t.busy = FALSE /\ t.owed = "nothing" /\ t.txFIFO = <<>>
  BY <1>3, AbortFacts DEF AbortReasons
<1>5. arbitrationLost(s) = t
  BY DEF arbitrationLost, x
<1> HIDE DEF t
<1>6. Phased(t) /\ Quiet(t) /\ Addressed(t, dir, wire.mode)
  BY <1>4 DEF Phased, Quiet, Addressed
<1>7. Turned(t.txFIFO, dir)
  BY <1>4, EmptyTurned
<1>8. Moves(i2c, wire, t, wire)
  BY <1>4, <1>6, PhaseFacts DEF Moves
<1>9. Looked(i2c, t) /\ Reported(i2c, t)
  BY <1>4 DEF Looked, Reported, Blocked, I2cConstants
<1> QED BY <1>1, <1>4, <1>5, <1>6, <1>7, <1>8, <1>9 DEF Sound, Good, s

-----------------------------------------------------------------------------
(* The driver's register accesses. *)

\* The wires after a register access that leaves the object t.
Rewired(t) == IF i2c.owed = "nothing" THEN Wire(t) ELSE wire

\* An access that changes nothing a transfer depends on.
LEMMA AsideIsSound ==
    ASSUME I2cInv,
           NEW t \in Objects, t.state = i2c.state, t.owed = i2c.owed, t.busy = i2c.busy,
           t.stop = i2c.stop, t.pendingRestart = i2c.pendingRestart,
           t.txFIFO = i2c.txFIFO, t.enable = i2c.enable
    PROVE  Sound(t, wire, dir) /\ Rewired(t) = wire
<1>1. /\ i2c \in Objects /\ Phased(i2c) /\ Quiet(i2c) /\ Turned(i2c.txFIFO, dir)
      /\ Addressed(i2c, dir, wire.mode) /\ wire \in [mode : Directions, byte : Directions]
  BY DEF I2cInv, Good
<1>2. Phased(t) /\ Quiet(t)
  BY <1>1 DEF Phased, Quiet
<1>3. Addressed(t, dir, wire.mode)
  BY <1>1 DEF Addressed, HeadFits
<1>4. PhaseOf(t) = PhaseOf(i2c)
  BY DEF PhaseOf
<1>5. Moves(i2c, wire, t, wire)
  BY <1>4 DEF Moves
<1>6. Looked(i2c, t) /\ Reported(i2c, t)
  BY DEF Looked, Reported, Blocked
<1>7. Rewired(t) = wire
  BY DEF Rewired, Wire
<1> QED BY <1>1, <1>2, <1>3, <1>5, <1>6, <1>7 DEF Sound, Good

\* An access that ends in nextCommand.
LEMMA LookIsSound ==
    ASSUME I2cConstants, I2cInv, NEW d, NEW s, Good(s, d, wire.mode),
           s.state = i2c.state, s.owed = i2c.owed, s.stop \in {TRUE, i2c.stop},
           s.txFIFO = <<>> \/ "ABORT" \in i2c.enable \/ "ABORT" \notin s.enable,
           Reported(i2c, s)
    PROVE  LET t == nextCommand(s) IN Sound(t, Rewired(t), d)
<1> DEFINE t == nextCommand(s)
           m == wire.mode
<1>1. i2c \in Objects /\ Phased(i2c) /\ wire \in [mode : Directions, byte : Directions]
  BY DEF I2cInv, Good
<1>2. s \in Objects /\ Phased(s)
  BY DEF Good
<1>3. /\ Good(t, d, m) /\ Blocked(t)
      /\ t.enable = s.enable /\ s.intRaw \subseteq t.intRaw
      /\ "TX_EMPTY" \in Watched /\ s.txFIFO # <<>> /\ t.txFIFO = <<>>
             => "TX_EMPTY" \in t.intRaw
      /\ \/ t = s
         \/ s.owed = "nothing" /\ t.owed = "start" /\ t.stop = FALSE
         \/ /\ s.owed = "nothing" /\ s.state = "Connected"
            /\ t.owed \in {"read", "write"}
            /\ "ABORT" \in s.enable \/ ByteOf(t) = m
  BY NextCommandFacts
<1>4. s.txFIFO = <<>> => t = s
  BY DEF nextCommand, Blocked
<1> HIDE DEF t
<1>5. Looked(i2c, t) /\ t \in Objects /\ Phased(t)
  BY <1>3 DEF Looked, Good
<1>6. Reported(i2c, t)
  <2>1. CASE s.txFIFO = <<>>
    BY <1>4, <2>1
  <2>2. CASE s.txFIFO # <<>>
    BY <1>3, <2>2 DEF Reported, I2cConstants
  <2> QED BY <2>1, <2>2
<1>7. CASE t = s
  <2>1. PhaseOf(t) = PhaseOf(i2c)
    BY <1>7 DEF PhaseOf
  <2>2. Rewired(t) = wire
    BY <1>7 DEF Rewired, Wire
  <2>3. Moves(i2c, wire, t, wire)
    BY <1>7, <2>1 DEF Moves
  <2> QED BY <1>1, <1>3, <1>5, <1>6, <2>2, <2>3 DEF Sound, t
<1>8. CASE s.owed = "nothing" /\ t.owed = "start"
  <2>1. PhaseOf(i2c) \in {"idle", "data"} /\ PhaseOf(t) = "start" /\ ~MidByte(i2c)
    BY <1>1, <1>5, <1>8, PhaseFacts DEF MidByte
  <2>2. Rewired(t) = wire
    BY <1>8 DEF Rewired, Wire
  <2>3. Moves(i2c, wire, t, wire)
    BY <2>1 DEF Moves
  <2> QED BY <1>1, <1>3, <1>5, <1>6, <2>2, <2>3 DEF Sound, t
<1>9. CASE /\ s.owed = "nothing" /\ s.state = "Connected" /\ t.owed \in {"read", "write"}
           /\ "ABORT" \in s.enable \/ ByteOf(t) = m
  <2>1. PhaseOf(i2c) = "data" /\ PhaseOf(t) = "byte" /\ ~MidByte(i2c)
    BY <1>1, <1>5, <1>9, PhaseFacts DEF MidByte
  <2>2. Rewired(t) = [wire EXCEPT !.byte = ByteOf(t)]
    BY <1>9 DEF Rewired, Wire, ByteOf
  <2>3. /\ Rewired(t).mode = m /\ Rewired(t).byte = ByteOf(t)
        /\ Rewired(t) \in [mode : Directions, byte : Directions]
    BY <1>1, <2>2 DEF ByteOf, Directions
  <2>4. t # s
    BY <1>9
  <2>5. ByteOf(t) = m \/ "ABORT" \in i2c.enable
    BY <1>4, <1>9, <2>4
  <2>6. Moves(i2c, wire, t, Rewired(t))
    BY <2>1, <2>3, <2>5 DEF Moves
  <2> QED BY <1>3, <1>5, <1>6, <2>3, <2>6 DEF Sound, t
<1> QED BY <1>3, <1>7, <1>8, <1>9

\* The step that an action of the driver takes.
Stepped == Sound(i2c', wire', dir') /\ dir' \in Directions \cup {"none"}

LEMMA WriteDataCmdSound ==
    ASSUME I2cConstants, I2cInv, WriteDataCmd
    PROVE  Stepped
<1>1. /\ i2c \in Objects /\ Phased(i2c) /\ Quiet(i2c) /\ Turned(i2c.txFIFO, dir)
      /\ Addressed(i2c, dir, wire.mode) /\ dir \in Directions \cup {"none"}
  BY DEF I2cInv, Good
<1>2. PICK cmd \in Command :
          /\ Direction(cmd) # dir => cmd.restart
          /\ IF Len(i2c.txFIFO) = FifoSize
             THEN Becomes(setInterrupts(i2c, "TX_OVER")) /\ UNCHANGED dir
             ELSE /\ Becomes(nextCommand([i2c EXCEPT !.txFIFO = Append(@, cmd),
                                                     !.intRaw = @ \ {"TX_EMPTY"}]))
                  /\ dir' = Direction(cmd)
  BY DEF WriteDataCmd
<1>3. CASE Len(i2c.txFIFO) = FifoSize
  <2> DEFINE t == setInterrupts(i2c, "TX_OVER")
  <2>1. Becomes(t) /\ dir' = dir
    BY <1>2, <1>3
  <2>2. /\ t \in Objects /\ t.state = i2c.state /\ t.owed = i2c.owed /\ t.busy = i2c.busy
        /\ t.stop = i2c.stop /\ t.pendingRestart = i2c.pendingRestart
        /\ t.txFIFO = i2c.txFIFO /\ t.enable = i2c.enable
    BY <1>1, SetInterruptsFacts
  <2> HIDE DEF t
  <2>3. Sound(t, wire, dir) /\ Rewired(t) = wire
    BY <2>2, AsideIsSound
  <2>4. i2c' = t /\ wire' = wire
    BY <2>1, <2>3 DEF Becomes, Rewired
  <2> QED BY <1>1, <2>1, <2>3, <2>4 DEF Stepped
<1>4. CASE Len(i2c.txFIFO) # FifoSize
  <2> DEFINE q == i2c.txFIFO
             r == Append(q, cmd)
             raw == i2c.intRaw \ {"TX_EMPTY"}
             s == [i2c EXCEPT !.txFIFO = r, !.intRaw = raw]
             d == Direction(cmd)
  <2>1. Becomes(nextCommand(s)) /\ dir' = d
    BY <1>2, <1>4
  <2>2. /\ q \in Seq(Command) /\ r \in Seq(Command) /\ raw \in SUBSET Watched
        /\ d \in Directions /\ cmd.restart \in BOOLEAN
    BY <1>1, DirectionType, AppendProperties DEF Objects, Command
  <2>3. cmd.restart = TRUE \/ d = dir
    BY <1>2, <2>2
  <2>4. Turned(r, d)
    BY <1>1, <2>2, <2>3, TurnedAppend
  <2>5. r # <<>> /\ Head(r) = IF q = <<>> THEN cmd ELSE Head(q)
    <3>1. Len(r) = Len(q) + 1 /\ Len(q) \in Nat /\ r[Len(r)] = cmd
          /\ \A i \in 1 .. Len(q) : r[i] = q[i]
      BY <2>2, AppendProperties
    <3>2. Len(r) # 0 /\ Len(<<>>) = 0
      BY <3>1
    <3>3. r # <<>> /\ Head(r) = r[1]
      BY <2>2, <3>2, HeadOf
    <3>4. CASE q = <<>>
      BY <3>1, <3>2, <3>3, <3>4
    <3>5. CASE q # <<>>
      <4>1. Len(q) # 0 /\ Head(q) = q[1]
        BY <2>2, <3>5, HeadOf
      <4>2. 1 \in 1 .. Len(q)
        BY <3>1, <4>1
      <4> QED BY <3>1, <3>3, <3>5, <4>1, <4>2
    <3> QED BY <3>4, <3>5
  <2> HIDE DEF r, raw
  <2>6. /\ s \in Objects /\ s.state = i2c.state /\ s.owed = i2c.owed /\ s.busy = i2c.busy
        /\ s.stop = i2c.stop /\ s.pendingRestart = i2c.pendingRestart
        /\ s.txFIFO = r /\ s.enable = i2c.enable
    BY <1>1, <2>2 DEF Objects
  <2> HIDE DEF s
  <2>7. Phased(s) /\ Quiet(s)
    BY <1>1, <2>6 DEF Phased, Quiet
  <2>8. Addressed(s, d, wire.mode)
    <3>1. SUFFICES ASSUME HeadFits(i2c, dir, wire.mode) PROVE HeadFits(s, d, wire.mode)
      BY <1>1, <2>6 DEF Addressed
    <3>2. CASE q = <<>>
      <4>1. i2c.pendingRestart = FALSE /\ dir \in {wire.mode, "none"}
        BY <3>1, <3>2 DEF HeadFits
      <4>2. d = wire.mode \/ cmd.restart = TRUE
        BY <2>2, <2>3, <4>1 DEF Directions
      <4> QED BY <2>5, <2>6, <3>2, <4>1, <4>2 DEF HeadFits
    <3>3. CASE q # <<>>
      BY <2>5, <2>6, <3>1, <3>3 DEF HeadFits
    <3> QED BY <3>2, <3>3
  <2>9. Good(s, d, wire.mode)
    BY <2>4, <2>6, <2>7, <2>8 DEF Good
  <2>10. Reported(i2c, s)
    BY <2>5, <2>6 DEF Reported
  <2>11. LET t == nextCommand(s) IN Sound(t, Rewired(t), d)
    BY <2>6, <2>9, <2>10, LookIsSound
  <2>12. i2c' = nextCommand(s) /\ wire' = Rewired(nextCommand(s))
    BY <2>1 DEF Becomes, Rewired
  <2> QED BY <2>1, <2>2, <2>11, <2>12 DEF Stepped
<1> QED BY <1>3, <1>4

LEMMA ReadDataCmdSound ==
    ASSUME I2cConstants, I2cInv, ReadDataCmd
    PROVE  Stepped
<1>1. i2c \in Objects /\ dir \in Directions \cup {"none"} /\ dir' = dir
  BY DEF I2cInv, Good, ReadDataCmd
<1>2. ASSUME NEW t \in Objects, Becomes(t),
             t.state = i2c.state, t.owed = i2c.owed, t.busy = i2c.busy,
             t.stop = i2c.stop, t.pendingRestart = i2c.pendingRestart,
             t.txFIFO = i2c.txFIFO, t.enable = i2c.enable
      PROVE  Stepped
  <2>1. Sound(t, wire, dir) /\ Rewired(t) = wire
    BY <1>2, AsideIsSound
  <2>2. i2c' = t /\ wire' = wire
    BY <1>2, <2>1 DEF Becomes, Rewired
  <2> QED BY <1>1, <2>1, <2>2 DEF Stepped
<1>3. CASE i2c.rxFIFO = <<>>
  <2>1. Becomes(setInterrupts(i2c, "RX_UNDER"))
    BY <1>3 DEF ReadDataCmd
  <2> QED BY <1>1, <1>2, <2>1, SetInterruptsFacts
<1>4. CASE i2c.rxFIFO # <<>>
  <2> DEFINE rest == Tail(i2c.rxFIFO)
             raw == i2c.intRaw \ {"RX_FULL"}
             t == [i2c EXCEPT !.rxFIFO = rest, !.intRaw = raw]
  <2>1. Becomes(t)
    BY <1>4 DEF ReadDataCmd
  <2>2. rest \in Seq(BOOLEAN) /\ raw \in SUBSET Watched
    BY <1>1, <1>4, HeadTailProperties DEF Objects
  <2> HIDE DEF rest, raw
  <2>3. /\ t \in Objects /\ t.state = i2c.state /\ t.owed = i2c.owed /\ t.busy = i2c.busy
        /\ t.stop = i2c.stop /\ t.pendingRestart = i2c.pendingRestart
        /\ t.txFIFO = i2c.txFIFO /\ t.enable = i2c.enable
    BY <1>1, <2>2 DEF Objects
  <2> HIDE DEF t
  <2> QED BY <1>2, <2>1, <2>3
<1> QED BY <1>3, <1>4

\* The registers whose accesses leave the bus and the queue alone.
LEMMA AsideSteps ==
    ASSUME I2cConstants, I2cInv, ClearInterrupts \/ ReadAbortSource \/ WriteThreshold
    PROVE  Stepped
<1>1. i2c \in Objects /\ dir \in Directions \cup {"none"}
  BY DEF I2cInv, Good
<1>2. dir' = dir /\ wire' = wire
  BY DEF ClearInterrupts, ReadAbortSource, WriteThreshold
<1>3. ASSUME i2c' \in Objects,
             i2c'.state = i2c.state, i2c'.owed = i2c.owed, i2c'.busy = i2c.busy,
             i2c'.stop = i2c.stop, i2c'.pendingRestart = i2c.pendingRestart,
             i2c'.txFIFO = i2c.txFIFO, i2c'.enable = i2c.enable
      PROVE  Stepped
  <2>1. Sound(i2c', wire, dir)
    BY <1>3, AsideIsSound
  <2> QED BY <1>1, <1>2, <2>1 DEF Stepped
<1>4. CASE ClearInterrupts
  <2>1. PICK bit \in i2c.intRaw : i2c' = [i2c EXCEPT !.intRaw = @ \ {bit},
                             !.abortSource = IF bit = "TX_ABRT" THEN {} ELSE @]
    BY <1>4 DEF ClearInterrupts
  <2> DEFINE raw == i2c.intRaw \ {bit}
             sources == IF bit = "TX_ABRT" THEN {} ELSE i2c.abortSource
  <2>2. /\ i2c' = [i2c EXCEPT !.intRaw = raw, !.abortSource = sources]
        /\ raw \in SUBSET Watched /\ sources \in SUBSET AbortReasons
    BY <1>1, <2>1 DEF Objects
  <2> HIDE DEF raw, sources
  <2> QED BY <1>1, <1>3, <2>2 DEF Objects
<1>5. CASE ReadAbortSource
  BY <1>1, <1>3, <1>5 DEF ReadAbortSource, Objects
<1>6. CASE WriteThreshold
  <2>1. PICK n \in 0 .. FifoSize : \/ i2c' = [i2c EXCEPT !.txThreshold = n]
                                   \/ i2c' = [i2c EXCEPT !.rxThreshold = n]
    BY <1>6 DEF WriteThreshold
  <2>2. n \in Nat
    BY DEF I2cConstants
  <2> QED BY <1>1, <1>3, <2>1, <2>2 DEF Objects
<1> QED BY <1>4, <1>5, <1>6

LEMMA WriteEnableSound ==
    ASSUME I2cConstants, I2cInv, WriteEnable
    PROVE  Stepped
<1>1. /\ i2c \in Objects /\ Phased(i2c) /\ Quiet(i2c) /\ Turned(i2c.txFIFO, dir)
      /\ Addressed(i2c, dir, wire.mode) /\ dir \in Directions \cup {"none"}
  BY DEF I2cInv, Good
<1>2. PICK bits \in SUBSET EnableBits :
        LET value == bits \cup (i2c.enable \cap {"ABORT"})
            kept == IF i2c.state = "Idle" THEN value \ {"ABORT"} ELSE value
        IN  /\ "ENABLE" \in bits \/ (~i2c.busy /\ i2c.txFIFO = <<>>)
            /\ bits # i2c.enable
            /\ Becomes(nextCommand([Enabled(i2c, value) EXCEPT !.enable = kept]))
            /\ dir' = IF "ENABLE" \notin bits \/ "ABORT" \in value THEN "none" ELSE dir
            /\ UNCHANGED queued
  BY DEF WriteEnable, EnableBits
<1> DEFINE value == bits \cup (i2c.enable \cap {"ABORT"})
           kept == IF i2c.state = "Idle" THEN value \ {"ABORT"} ELSE value
           cut == "ABORT" \in value /\ i2c.state # "Idle"
           a == abort(i2c, "USER_ABRT")
           x == [a EXCEPT !.stop = TRUE]
           e == IF cut THEN x ELSE i2c
           f == [e EXCEPT !.txFIFO = <<>>, !.rxFIFO = <<>>]
           g == IF "ENABLE" \in value THEN e ELSE f
           s == [g EXCEPT !.enable = kept]
           d == IF "ENABLE" \notin bits \/ "ABORT" \in value THEN "none" ELSE dir
           m == wire.mode
<1>3. /\ "ENABLE" \in bits \/ (~i2c.busy /\ i2c.txFIFO = <<>>)
      /\ Becomes(nextCommand(s)) /\ dir' = d
  BY <1>2 DEF Enabled
<1>4. /\ value \in SUBSET EnableBits /\ kept \in SUBSET EnableBits
      /\ "ENABLE" \in value <=> "ENABLE" \in bits
      /\ "ENABLE" \in kept <=> "ENABLE" \in bits
      /\ "ABORT" \in i2c.enable => "ABORT" \in value
      /\ "ABORT" \in kept <=> cut
  BY <1>1 DEF Objects, EnableBits
<1>5. /\ a \in Objects
      /\ "TX_ABRT" \in Watched => "TX_ABRT" \in a.intRaw
      /\ a.state = i2c.state /\ a.owed = i2c.owed /\ a.busy = i2c.busy /\ a.txFIFO = <<>>
  BY <1>1, AbortFacts DEF AbortReasons
<1>6. a.pendingRestart = i2c.pendingRestart
  BY <1>1 DEF abort, setInterrupts, Objects
<1> HIDE DEF a
<1>7. /\ x \in Objects /\ "TX_ABRT" \in x.intRaw
      /\ x.state = i2c.state /\ x.owed = i2c.owed /\ x.busy = i2c.busy /\ x.txFIFO = <<>>
      /\ x.stop = TRUE /\ x.pendingRestart = i2c.pendingRestart
  BY <1>5, <1>6 DEF Objects, I2cConstants
<1> HIDE DEF x
<1>8. /\ e \in Objects
      /\ e.state = i2c.state /\ e.owed = i2c.owed /\ e.busy = i2c.busy
      /\ e.pendingRestart = i2c.pendingRestart
      /\ cut => e.stop = TRUE /\ e.txFIFO = <<>> /\ "TX_ABRT" \in e.intRaw
      /\ ~cut => e.stop = i2c.stop /\ e.txFIFO = i2c.txFIFO
  BY <1>1, <1>7
<1> HIDE DEF e
<1>9. /\ f \in Objects
      /\ f.state = e.state /\ f.owed = e.owed /\ f.busy = e.busy /\ f.stop = e.stop
      /\ f.pendingRestart = e.pendingRestart /\ f.txFIFO = <<>> /\ f.intRaw = e.intRaw
  <2>1. <<>> \in Seq(Command) /\ <<>> \in Seq(BOOLEAN)
    OBVIOUS
  <2> QED BY <1>8, <2>1 DEF Objects
<1> HIDE DEF f
<1>10. /\ g \in Objects
       /\ g.state = i2c.state /\ g.owed = i2c.owed /\ g.busy = i2c.busy
       /\ g.pendingRestart = i2c.pendingRestart
       /\ cut => g.stop = TRUE /\ g.txFIFO = <<>> /\ "TX_ABRT" \in g.intRaw
       /\ ~cut => g.stop = i2c.stop
       /\ g.txFIFO = <<>> \/ (g.txFIFO = i2c.txFIFO /\ ~cut)
       /\ ~cut /\ "ENABLE" \in bits => g.txFIFO = i2c.txFIFO
       /\ "ENABLE" \notin bits => g.txFIFO = <<>>
  BY <1>4, <1>8, <1>9
<1> HIDE DEF g, cut, kept
<1>11. /\ s \in Objects /\ s.enable = kept
       /\ s.state = i2c.state /\ s.owed = i2c.owed /\ s.busy = i2c.busy
       /\ s.pendingRestart = i2c.pendingRestart
       /\ cut => s.stop = TRUE /\ s.txFIFO = <<>> /\ "TX_ABRT" \in s.intRaw
       /\ ~cut => s.stop = i2c.stop
       /\ s.txFIFO = <<>> \/ (s.txFIFO = i2c.txFIFO /\ ~cut)
       /\ ~cut /\ "ENABLE" \in bits => s.txFIFO = i2c.txFIFO
       /\ "ENABLE" \notin bits => s.txFIFO = <<>>
  BY <1>4, <1>10 DEF Objects
<1> HIDE DEF s, value
<1>12. d \in Directions \cup {"none"} /\ d \in {dir, "none"}
  BY <1>1
<1>13. Phased(s)
  BY <1>1, <1>11 DEF Phased
<1>14. Quiet(s)
  <2>1. SUFFICES ASSUME s.owed = "nothing", s.state = "Connected", s.stop = TRUE
                 PROVE  cut
    BY <1>4, <1>11 DEF Quiet
  <2>2. SUFFICES ASSUME i2c.stop = TRUE PROVE cut
    BY <1>11, <2>1
  <2>3. "ABORT" \in i2c.enable
    BY <1>1, <1>11, <2>1, <2>2 DEF Quiet
  <2> QED BY <1>4, <1>11, <2>1, <2>3 DEF cut
<1>15. Turned(s.txFIFO, d)
  <2>1. Turned(i2c.txFIFO, d)
    BY <1>1, <1>12 DEF Turned
  <2> QED BY <1>11, <2>1, EmptyTurned
<1>16. Addressed(s, d, m)
  <2>1. SUFFICES ASSUME s.state \in {"Connect", "Connected"}, "ABORT" \notin s.enable,
                        s.stop = FALSE
                 PROVE  HeadFits(s, d, m)
    BY DEF Addressed
  <2>2. ~cut /\ "ABORT" \notin value /\ "ABORT" \notin i2c.enable
    BY <1>4, <1>11, <2>1 DEF cut
  <2>3. HeadFits(i2c, dir, m)
    BY <1>1, <1>11, <2>1, <2>2 DEF Addressed
  <2>4. CASE "ENABLE" \in bits
    BY <1>11, <2>2, <2>3, <2>4 DEF HeadFits
  <2>5. CASE "ENABLE" \notin bits
    BY <1>3, <1>11, <2>2, <2>3, <2>5 DEF HeadFits
  <2> QED BY <2>4, <2>5
<1>17. Good(s, d, m)
  BY <1>11, <1>13, <1>14, <1>15, <1>16 DEF Good
<1>18. Reported(i2c, s)
  BY <1>4, <1>11 DEF Reported
<1>19. /\ s.stop \in {TRUE, i2c.stop}
       /\ s.txFIFO = <<>> \/ "ABORT" \in i2c.enable \/ "ABORT" \notin s.enable
  BY <1>4, <1>11
<1>20. LET t == nextCommand(s) IN Sound(t, Rewired(t), d)
  BY <1>11, <1>17, <1>18, <1>19, LookIsSound
<1>21. i2c' = nextCommand(s) /\ wire' = Rewired(nextCommand(s))
  BY <1>3 DEF Becomes, Rewired
<1> QED BY <1>3, <1>12, <1>20, <1>21 DEF Stepped

-----------------------------------------------------------------------------
(* Every step is sound. *)

LEMMA DeviceAnswersSound ==
    ASSUME I2cConstants, I2cInv, DeviceAnswers
    PROVE  Stepped
<1>1. dir \in Directions \cup {"none"} /\ dir' = dir
  BY DEF I2cInv, DeviceAnswers
<1>2. i2c.owed \in Callbacks \ {"nothing"}
  BY DEF I2cInv, Good, Objects, DeviceAnswers
<1>3. PICK ack \in BOOLEAN : i2c' = Answer(Answered(i2c), ack) /\ wire' = Wire(i2c')
  BY DEF DeviceAnswers
<1>4. CASE i2c.owed = "start"
  <2>1. i2c' = completeStart(Answered(i2c))
    BY <1>3, <1>4 DEF Answer
  <2> QED BY <1>1, <1>3, <1>4, <2>1, AnswerStart DEF Stepped
<1>5. CASE i2c.owed = "connect"
  <2>1. i2c' = completeConnect(Answered(i2c), ack)
    BY <1>3, <1>5 DEF Answer
  <2> QED BY <1>1, <1>3, <1>5, <2>1, AnswerConnect DEF Stepped
<1>6. CASE i2c.owed = "write"
  <2>1. i2c' = completeWrite(Answered(i2c), ack)
    BY <1>3, <1>6 DEF Answer
  <2> QED BY <1>1, <1>3, <1>6, <2>1, AnswerWrite DEF Stepped
<1>7. CASE i2c.owed = "read"
  <2>1. i2c' = completeRead(Answered(i2c))
    BY <1>3, <1>7 DEF Answer
  <2> QED BY <1>1, <1>3, <1>7, <2>1, AnswerRead DEF Stepped
<1>8. CASE i2c.owed = "stop"
  <2>1. i2c' = completeStop(Answered(i2c))
    BY <1>3, <1>8 DEF Answer
  <2> QED BY <1>1, <1>3, <1>8, <2>1, AnswerStop DEF Stepped
<1> QED BY <1>2, <1>4, <1>5, <1>6, <1>7, <1>8 DEF Callbacks

LEMMA StepIsSound ==
    ASSUME I2cConstants, I2cInv, [I2cNext]_i2cVars
    PROVE  Stepped
<1>1. CASE DeviceAnswers
  BY <1>1, DeviceAnswersSound
<1>2. CASE DeviceLosesArbitration
  <2>1. i2c.owed \in {"start", "connect", "write", "read"}
        /\ i2c' = arbitrationLost(Answered(i2c)) /\ dir' = dir /\ wire' = wire
    BY <1>2 DEF DeviceLosesArbitration
  <2>2. dir \in Directions \cup {"none"}
    BY DEF I2cInv
  <2> QED BY <2>1, <2>2, ArbitrationLost DEF Stepped
<1>3. CASE WriteDataCmd
  BY <1>3, WriteDataCmdSound
<1>4. CASE ReadDataCmd
  BY <1>4, ReadDataCmdSound
<1>5. CASE ClearInterrupts \/ ReadAbortSource \/ WriteThreshold
  BY <1>5, AsideSteps
<1>6. CASE WriteEnable
  BY <1>6, WriteEnableSound
<1>7. CASE UNCHANGED i2cVars
  <2>1. i2c' = i2c /\ dir' = dir /\ wire' = wire
    BY <1>7 DEF i2cVars
  <2>2. i2c \in Objects /\ dir \in Directions \cup {"none"}
    BY DEF I2cInv, Good
  <2>3. Sound(i2c, wire, dir)
    BY <2>2, AsideIsSound
  <2> QED BY <2>1, <2>2, <2>3 DEF Stepped
<1> QED BY <1>1, <1>2, <1>3, <1>4, <1>5, <1>6, <1>7 DEF I2cNext

LEMMA Begins ==
    ASSUME I2cConstants, I2cInit
    PROVE  I2cInv /\ Bus!BusInit
<1>1. i2c \in Objects
  <2>1. <<>> \in Seq(BOOLEAN) /\ <<>> \in Seq(Command)
    OBVIOUS
  <2> QED BY <2>1 DEF I2cInit, Objects, States, Callbacks
<1>2. Turned(i2c.txFIFO, dir)
  BY EmptyTurned DEF I2cInit
<1>3. Phased(i2c) /\ Quiet(i2c) /\ Addressed(i2c, dir, wire.mode)
  BY DEF I2cInit, Phased, Quiet, Addressed
<1>4. I2cInv
  BY <1>1, <1>2, <1>3 DEF I2cInv, Good, I2cInit, Directions
<1>5. BusPhase = "idle"
  BY DEF BusPhase, I2cInit
<1>6. Bus!BusInit
  BY <1>5 DEF Bus!BusInit, I2cInit
<1> QED BY <1>4, <1>6

\* Between any two calls the object is one that the code means to have: a callback
\* under way belongs to the state and keeps it busy, queued commands that turn around
\* ask for a restart, and the one at the head suits the address or will restart.
THEOREM I2cInvHolds == ASSUME I2cConstants PROVE I2cSpec => []I2cInv
<1>1. I2cInit => I2cInv
  BY Begins
<1>2. I2cInv /\ [I2cNext]_i2cVars => I2cInv'
  BY StepIsSound, SoundStep DEF Stepped
<1> QED BY <1>1, <1>2, PTL DEF I2cSpec

\* RPI2C gives a device a well-formed bus, leaves no command of the driver lying and
\* reports a queue that runs empty, whatever the driver writes between two answers of
\* the device (completeStart ... completeStop, nextCommand, the write of IC_ENABLE).
THEOREM I2cIsSound == ASSUME I2cConstants PROVE I2cSpec => I2cSound
<1>1. I2cSpec => []I2cInv
  BY I2cInvHolds
<1>2. I2cInit => Bus!BusInit
  BY Begins
<1>3. ASSUME I2cInv, [I2cNext]_i2cVars
      PROVE  /\ Bus!BusNext
             /\ LeftLying' => LeftLying \/ "ABORT" \in i2c.enable \ i2c'.enable
             /\ Reported(i2c, i2c')
  BY <1>3, StepIsSound, SoundStep DEF Stepped
<1>4. I2cInv /\ [I2cNext]_i2cVars => [Bus!BusNext]_<<Bus!wires, "ABORT" \in i2c.enable>>
  BY <1>3
<1>5. I2cSpec => WellFormedBus
  BY <1>1, <1>2, <1>4, PTL DEF I2cSpec, WellFormedBus, Bus!BusSpec
<1>6. I2cInv /\ [I2cNext]_i2cVars =>
          [LeftLying' => LeftLying \/ "ABORT" \in i2c.enable \ i2c'.enable]_i2cVars
  BY <1>3
<1>7. I2cSpec => WorkIsTakenUp
  BY <1>1, <1>6, PTL DEF I2cSpec, WorkIsTakenUp
<1>8. I2cInv /\ [I2cNext]_i2cVars =>
          [i2c.txFIFO # <<>> /\ i2c'.txFIFO = <<>> /\ "ENABLE" \in i2c'.enable
           => i2c'.intRaw \cap {"TX_EMPTY", "TX_ABRT"} # {}]_i2cVars
  BY <1>3 DEF Reported
<1>9. I2cSpec => DrainedIsReported
  BY <1>1, <1>8, PTL DEF I2cSpec, DrainedIsReported
<1> QED BY <1>5, <1>7, <1>9 DEF I2cSound

-----------------------------------------------------------------------------
(* The debugger: types, and what the server does to its record.               *)

Dollar == <<"$">>
Hash == <<"#">>
High == <<"high">>
Low == <<"low">>
Symbol == {Dollar, Hash, High, Low, Ack, Break} \cup Commands

Reply ==
    {Ack, Nak, <<"S02">>, <<"S05">>, <<"OK">>} \cup {<<"T05", a>> : a \in Addr}
        \cup {<<"pc", a>> : a \in Addr} \cup {<<"code", b>> : b \in BOOLEAN}

ServerType ==
    [stopped : BOOLEAN, executeTimer : BOOLEAN, timeouts : Nat, pc : Addr, bkpt : SUBSET Addr,
     buf : Seq(Symbol), reading : BOOLEAN, toClient : Seq(Reply), taken : Nat]

\* The timer runs exactly while the program does.
Ticking(s) ==
    /\ s.stopped = TRUE => s.executeTimer = FALSE /\ s.timeouts = 0
    /\ s.stopped = FALSE => s.executeTimer = TRUE /\ s.timeouts = 1

LEMMA SymbolsDiffer ==
    /\ Dollar # Hash /\ Dollar # High /\ Dollar # Low /\ Dollar # Ack /\ Dollar # Break
    /\ Hash # High /\ Hash # Low /\ Hash # Ack /\ Hash # Break /\ High # Low
    /\ Ack # Break /\ High # Break /\ Low # Break /\ Ack # Nak
    /\ \A c \in Commands : c # Dollar /\ c # Hash /\ c # Break /\ c # Ack
<1>1. \A c \in Commands : c # Dollar /\ c # Hash /\ c # Break /\ c # Ack
  <2> SUFFICES ASSUME NEW c \in Commands
               PROVE  c[1] \notin {"$", "#", "0x03", "+"}
    BY DEF Dollar, Hash, Break, Ack
  <2>1. CASE c \in {<<"?">>, <<"p">>, <<"c">>, <<"vCont;c">>, <<"vCont;s">>}
    <3>1. CASE c = <<"?">>
      BY <3>1
    <3>2. CASE c = <<"p">>
      BY <3>2
    <3>3. CASE c = <<"c">>
      BY <3>3
    <3>4. CASE c = <<"vCont;c">>
      BY <3>4
    <3>5. CASE c = <<"vCont;s">>
      BY <3>5
    <3> QED BY <2>1, <3>1, <3>2, <3>3, <3>4, <3>5
  <2>2. CASE c \in {"m", "P"} \X Addr
    BY <2>2
  <2>3. CASE c \in {"M"} \X Addr \X BOOLEAN
    BY <2>3
  <2>4. \/ c \in {<<"?">>, <<"p">>, <<"c">>, <<"vCont;c">>, <<"vCont;s">>}
        \/ c \in {"m", "P"} \X Addr \/ c \in {"M"} \X Addr \X BOOLEAN
    BY DEF Commands
  <2> QED BY <2>1, <2>2, <2>3, <2>4
<1>2. /\ Dollar # Hash /\ Dollar # High /\ Dollar # Low /\ Dollar # Ack /\ Dollar # Break
      /\ Hash # High /\ Hash # Low /\ Hash # Ack /\ Hash # Break /\ High # Low
      /\ Ack # Break /\ High # Break /\ Low # Break /\ Ack # Nak
  BY DEF Dollar, Hash, High, Low, Ack, Break, Nak
<1> QED BY <1>1, <1>2

LEMMA RepliesDiffer ==
    /\ \A r \in {Ack, Nak, <<"OK">>} : ~IsStopReply(r)
    /\ IsStopReply(<<"S02">>) /\ IsStopReply(<<"S05">>)
    /\ \A a \in Addr : IsStopReply(<<"T05", a>>)
    /\ \A r \in {<<"S02">>, <<"S05">>, <<"OK">>} : r # Ack /\ r # Nak /\ r \in Reply
    /\ \A a : <<"T05", a>> # Ack /\ <<"T05", a>> # Nak /\ <<"pc", a>> # Ack /\ <<"pc", a>> # Nak
              /\ <<"code", a>> # Ack /\ <<"code", a>> # Nak
BY DEF Reply, Ack, Nak, IsStopReply

\* What the operators on sequences yield, element by element.
Appends(e, f, x) ==
    /\ Len(f) \in Nat /\ Len(e) = Len(f) + 1 /\ e[Len(f) + 1] = x
    /\ \A i \in 1 .. Len(f) : e[i] = f[i]
Joins(e, f, g) ==
    /\ Len(f) \in Nat /\ Len(g) \in Nat /\ Len(e) = Len(f) + Len(g)
    /\ \A i \in 1 .. Len(f) : e[i] = f[i]
    /\ \A i \in 1 .. Len(g) : e[Len(f) + i] = g[i]
Drops(e, f, n) ==
    /\ Len(f) \in Nat /\ n \in 0 .. Len(f) /\ Len(e) = Len(f) - n
    /\ \A i \in 1 .. Len(f) - n : e[i] = f[n + i]
Keeps(e, f, n) ==
    /\ Len(f) \in Nat /\ n \in 0 .. Len(f) /\ Len(e) = n
    /\ \A i \in 1 .. n : e[i] = f[i]

LEMMA Appended ==
    ASSUME NEW S, NEW f \in Seq(S), NEW x \in S
    PROVE  Append(f, x) \in Seq(S) /\ Appends(Append(f, x), f, x)
BY DEF Appends

LEMMA Pieced ==
    ASSUME NEW S, NEW f \in Seq(S), NEW g \in Seq(S)
    PROVE  (f \o g) \in Seq(S) /\ Joins(f \o g, f, g)
BY DEF Joins

LEMMA Cut ==
    ASSUME NEW S, NEW f \in Seq(S), NEW n \in 0 .. Len(f)
    PROVE  /\ SubSeq(f, n + 1, Len(f)) \in Seq(S) /\ Drops(SubSeq(f, n + 1, Len(f)), f, n)
           /\ SubSeq(f, 1, n) \in Seq(S) /\ Keeps(SubSeq(f, 1, n), f, n)
BY DEF Drops, Keeps

LEMMA Rest ==
    ASSUME NEW S, NEW f \in Seq(S), f # <<>>
    PROVE  Tail(f) \in Seq(S) /\ Drops(Tail(f), f, 1) /\ Head(f) = f[1] /\ f[1] \in S
BY DEF Drops

LEMMA RespondFacts ==
    ASSUME NEW s \in ServerType, NEW r \in Reply
    PROVE  LET q == respond(s, r)
           IN  /\ q \in ServerType /\ q.toClient = Append(s.toClient, r)
               /\ q.stopped = s.stopped /\ q.executeTimer = s.executeTimer
               /\ q.timeouts = s.timeouts /\ q.pc = s.pc /\ q.bkpt = s.bkpt
               /\ q.buf = s.buf /\ q.reading = s.reading /\ q.taken = s.taken
<1>1. PICK more \in Seq(Reply) : more = Append(s.toClient, r)
  <2>1. s.toClient \in Seq(Reply)
    BY DEF ServerType
  <2>2. Append(s.toClient, r) \in Seq(Reply)
    BY <2>1, Appended
  <2> QED BY <2>2
<1>2. respond(s, r) = [s EXCEPT !.toClient = more]
  BY <1>1 DEF respond
<1> QED BY <1>1, <1>2 DEF ServerType

LEMMA StopFacts ==
    ASSUME NEW s \in ServerType, s.executeTimer = TRUE => s.timeouts = 1
    PROVE  LET q == stop(s)
           IN  /\ q \in ServerType /\ q.stopped = TRUE /\ q.executeTimer = FALSE
               /\ q.timeouts = IF s.executeTimer THEN 0 ELSE s.timeouts
               /\ q.pc = s.pc /\ q.bkpt = s.bkpt /\ q.toClient = s.toClient
               /\ q.buf = s.buf /\ q.reading = s.reading /\ q.taken = s.taken
<1>1. PICK left \in Nat : left = (IF s.executeTimer THEN s.timeouts - 1 ELSE s.timeouts)
                          /\ left = (IF s.executeTimer THEN 0 ELSE s.timeouts)
  BY DEF ServerType
<1>2. stop(s) = [s EXCEPT !.stopped = TRUE, !.executeTimer = FALSE, !.timeouts = left]
  BY <1>1 DEF stop
<1> QED BY <1>1, <1>2 DEF ServerType

\* Every non-empty set of naturals has a least element, which Min is.
LEMMA MinFacts ==
    ASSUME NEW T \in SUBSET Nat, T # {}
    PROVE  Min(T) \in T /\ \A m \in T : Min(T) <= m
<1> DEFINE Less == {ss \in Nat \X Nat : ss[1] < ss[2]}
<1>1. IsWellFoundedOn(Less, Nat)
  BY NatLessThanWellFounded DEF OpToRel
<1>2. \A n, m \in Nat : <<m, n>> \notin Less => n <= m
  OBVIOUS
<1> HIDE DEF Less
<1>3. PICK n \in T : \A m \in T : <<m, n>> \notin Less
  BY <1>1, WFMin, Zenon
<1>4. \A m \in T : n <= m
  BY <1>2, <1>3
<1> QED BY <1>4 DEF Min

\* s, n instructions on, or on a BKPT, which is reported.
Ran(s, q) ==
    /\ q \in ServerType
    /\ q.bkpt = s.bkpt /\ q.buf = s.buf /\ q.reading = s.reading /\ q.taken = s.taken
    /\ \/ /\ q.stopped = s.stopped /\ q.executeTimer = s.executeTimer
          /\ q.timeouts = s.timeouts /\ q.toClient = s.toClient
       \/ /\ q.stopped = TRUE /\ q.executeTimer = FALSE /\ q.pc \in q.bkpt
          /\ q.timeouts = (IF s.executeTimer THEN 0 ELSE s.timeouts)
          /\ q.toClient = Append(s.toClient, <<"S05">>)

LEMMA InstructionsFacts ==
    ASSUME DebuggerConstants, NEW s \in ServerType, s.executeTimer = TRUE => s.timeouts = 1, NEW n \in Nat
    PROVE  Ran(s, instructions(s, n))
<1> DEFINE at(j) == (s.pc + j) % CodeSize
           hits == {j \in 0 .. (n - 1) : at(j) \in s.bkpt}
<1>1. instructions(s, n) = IF hits = {} THEN [s EXCEPT !.pc = at(n)]
                           ELSE onBreak([s EXCEPT !.pc = at(Min(hits))])
  BY DEF instructions
<1>2. \A j \in Nat : at(j) \in Addr
  <2>1. s.pc \in Nat /\ CodeSize \in Nat \ {0}
    BY DEF ServerType, Addr, DebuggerConstants
  <2> QED BY <2>1 DEF Addr
<1>3. hits \in SUBSET Nat /\ \A j \in hits : at(j) \in s.bkpt
  OBVIOUS
<1> HIDE DEF at, hits
<1>4. CASE hits = {}
  <2>1. instructions(s, n) = [s EXCEPT !.pc = at(n)] /\ at(n) \in Addr
    BY <1>1, <1>2, <1>4
  <2> QED BY <2>1 DEF Ran, ServerType
<1>5. CASE hits # {}
  <2>1. Min(hits) \in hits /\ Min(hits) \in Nat
    BY <1>3, <1>5, MinFacts
  <2>2. PICK a \in Addr : a = at(Min(hits)) /\ a \in s.bkpt
    BY <1>2, <1>3, <2>1
  <2> DEFINE r == [s EXCEPT !.pc = a]
  <2>3. /\ r \in ServerType /\ r.pc = a /\ r.stopped = s.stopped /\ r.executeTimer = s.executeTimer
        /\ r.timeouts = s.timeouts /\ r.bkpt = s.bkpt /\ r.toClient = s.toClient
        /\ r.buf = s.buf /\ r.reading = s.reading /\ r.taken = s.taken
    BY DEF ServerType
  <2>4. instructions(s, n) = respond(stop(r), <<"S05">>)
    BY <1>1, <1>5, <2>2 DEF onBreak
  <2> HIDE DEF r
  <2> DEFINE t == stop(r)
  <2>5. /\ t \in ServerType /\ t.stopped = TRUE /\ t.executeTimer = FALSE
        /\ t.timeouts = (IF r.executeTimer THEN 0 ELSE r.timeouts)
        /\ t.pc = r.pc /\ t.bkpt = r.bkpt /\ t.toClient = r.toClient
        /\ t.buf = r.buf /\ t.reading = r.reading /\ t.taken = r.taken
    BY <2>3, StopFacts
  <2> HIDE DEF t
  <2> DEFINE q == respond(t, <<"S05">>)
  <2>6. /\ q \in ServerType /\ q.toClient = Append(t.toClient, <<"S05">>)
        /\ q.stopped = t.stopped /\ q.executeTimer = t.executeTimer
        /\ q.timeouts = t.timeouts /\ q.pc = t.pc /\ q.bkpt = t.bkpt
        /\ q.buf = t.buf /\ q.reading = t.reading /\ q.taken = t.taken
    BY <2>5, RespondFacts, RepliesDiffer
  <2>7. instructions(s, n) = q
    BY <2>4 DEF t
  <2> HIDE DEF q
  <2> QED BY <2>2, <2>3, <2>5, <2>6, <2>7 DEF Ran
<1> QED BY <1>4, <1>5

\* The program set off: it runs on, or it is at a BKPT already.
SetOff(s, q) ==
    /\ q \in ServerType /\ Ticking(q)
    /\ q.bkpt = s.bkpt /\ q.buf = s.buf /\ q.reading = s.reading /\ q.taken = s.taken
    /\ \/ q.stopped = FALSE /\ q.toClient = s.toClient
       \/ q.stopped = TRUE /\ q.pc \in q.bkpt /\ q.toClient = Append(s.toClient, <<"S05">>)

LEMMA TimedFacts ==
    ASSUME NEW s \in ServerType
    PROVE  LET q == [s EXCEPT !.executeTimer = TRUE, !.timeouts = 1]
           IN  /\ q \in ServerType /\ q.stopped = s.stopped /\ q.executeTimer = TRUE
               /\ q.timeouts = 1 /\ q.pc = s.pc /\ q.bkpt = s.bkpt /\ q.toClient = s.toClient
               /\ q.buf = s.buf /\ q.reading = s.reading /\ q.taken = s.taken
BY DEF ServerType

LEMMA ExecuteFacts ==
    ASSUME DebuggerConstants, NEW s \in ServerType, s.timeouts = 0, NEW n \in Nat
    PROVE  SetOff(s, execute(s, n))
<1> DEFINE r == [s EXCEPT !.executeTimer = FALSE, !.stopped = FALSE]
           t == instructions(r, n)
<1>1. execute(s, n) = IF t.stopped THEN t ELSE [t EXCEPT !.executeTimer = TRUE, !.timeouts = @ + 1]
  BY DEF execute
<1>2. /\ r \in ServerType /\ r.executeTimer = FALSE /\ r.stopped = FALSE /\ r.timeouts = 0
      /\ r.bkpt = s.bkpt /\ r.toClient = s.toClient /\ r.buf = s.buf /\ r.reading = s.reading
      /\ r.taken = s.taken
  BY DEF ServerType
<1> HIDE DEF r
<1>3. Ran(r, t)
  BY <1>2, InstructionsFacts
<1> HIDE DEF t
<1>4. CASE t.stopped = TRUE
  <2>1. execute(s, n) = t
    BY <1>1, <1>4
  <2>2. /\ t \in ServerType /\ t.bkpt = s.bkpt /\ t.buf = s.buf /\ t.reading = s.reading
        /\ t.taken = s.taken /\ t.executeTimer = FALSE /\ t.pc \in t.bkpt /\ t.timeouts = 0
        /\ t.toClient = Append(s.toClient, <<"S05">>)
    BY <1>2, <1>3, <1>4 DEF Ran
  <2>3. Ticking(t)
    BY <1>4, <2>2 DEF Ticking
  <2> QED BY <1>4, <2>1, <2>2, <2>3 DEF SetOff
<1>5. CASE t.stopped = FALSE
  <2> DEFINE q == [t EXCEPT !.executeTimer = TRUE, !.timeouts = @ + 1]
  <2>1. execute(s, n) = q /\ t \in ServerType /\ t.timeouts = 0 /\ t.toClient = s.toClient
        /\ t.bkpt = s.bkpt /\ t.buf = s.buf /\ t.reading = s.reading /\ t.taken = s.taken
    BY <1>1, <1>2, <1>3, <1>5 DEF Ran
  <2>2. q = [t EXCEPT !.executeTimer = TRUE, !.timeouts = 1]
    BY <2>1
  <2> HIDE DEF q
  <2>3. /\ q \in ServerType /\ q.stopped = FALSE /\ q.executeTimer = TRUE /\ q.timeouts = 1
        /\ q.bkpt = t.bkpt /\ q.buf = t.buf /\ q.reading = t.reading /\ q.taken = t.taken
        /\ q.toClient = t.toClient
    <3>1. t \in ServerType /\ t.stopped = FALSE
      BY <1>5, <2>1
    <3>2. LET r1 == [t EXCEPT !.executeTimer = TRUE, !.timeouts = 1]
          IN  /\ r1 \in ServerType /\ r1.stopped = t.stopped /\ r1.executeTimer = TRUE
              /\ r1.timeouts = 1 /\ r1.pc = t.pc /\ r1.bkpt = t.bkpt /\ r1.toClient = t.toClient
              /\ r1.buf = t.buf /\ r1.reading = t.reading /\ r1.taken = t.taken
      BY <3>1, TimedFacts
    <3> QED BY <3>1, <3>2, <2>2
  <2>4. Ticking(q)
    BY <2>3 DEF Ticking
  <2> QED BY <2>1, <2>3, <2>4 DEF SetOff
<1>6. t.stopped \in BOOLEAN
  BY <1>3 DEF Ran, ServerType
<1> QED BY <1>4, <1>5, <1>6
-----------------------------------------------------------------------------
(* What the stream to the server holds, what the one to GDB holds, and the    *)
(* phases of a command: which of the two ends knows what.                     *)

NoDollar(q) == \A i \in 1 .. Len(q) : q[i] # Dollar
NoBreak(q) == \A i \in 1 .. Len(q) : q[i] # Break

\* Neither acknowledgement is in it.
Packets(q) == \A i \in 1 .. Len(q) : q[i] # Ack /\ q[i] # Nak

\* The only acknowledgement in it is the one at a.
OneAt(q, a, mark) ==
    /\ a \in 1 .. Len(q) /\ q[a] = mark
    /\ \A i \in 1 .. Len(q) : i # a => q[i] # Ack /\ q[i] # Nak

\* The command's packet is at k, in one piece; no packet is before it, and GDB's
\* acknowledgements alone are behind it.
WholeAt(q, k, cmd) ==
    /\ k \in 1 .. Len(q) - 4
    /\ q[k] = Dollar /\ q[k + 1] = cmd /\ q[k + 2] = Hash /\ q[k + 3] = High /\ q[k + 4] = Low
    /\ \A i \in 1 .. k - 1 : q[i] # Dollar
    /\ \A i \in k + 5 .. Len(q) : q[i] = Ack

\* What a stop reply says of the target; S02 is the answer to a break.
NewsIs(s, reply, broken) ==
    /\ reply[1] = "S05" => s.pc \in s.bkpt
    /\ reply[1] = "T05" => reply[2] = s.pc
    /\ reply[1] = "S02" => broken = TRUE

\* The stop replies behind place a: there are some when the program has stopped,
\* and then only, and they are true.
HasNews(q, a) == \E i \in 1 .. Len(q) : i > a /\ IsStopReply(q[i])
NewsSay(s, q, a, broken) ==
    \A i \in 1 .. Len(q) : i > a /\ IsStopReply(q[i]) => s.stopped = TRUE /\ NewsIs(s, q[i], broken)
NewsTrue(s, q, a, broken) == (s.stopped = TRUE => HasNews(q, a)) /\ NewsSay(s, q, a, broken)

AnswerFits(s, cmd, answer) ==
    CASE cmd[1] = "?" -> answer = <<"S05">>
      [] cmd[1] = "p" -> answer = <<"pc", s.pc>>
      [] cmd[1] = "m" -> answer = <<"code", cmd[2] \in s.bkpt>>
      [] cmd[1] = "P" -> answer = <<"OK">> /\ s.pc = cmd[2]
      [] cmd[1] = "M" -> answer = <<"OK">> /\ (cmd[2] \in s.bkpt <=> cmd[3])

\* What follows the acknowledgement at place a.
Outcome(s, cmd, a) ==
    IF cmd \in Resuming THEN NewsTrue(s, s.toClient, a, FALSE)
    ELSE s.stopped = TRUE /\ Len(s.toClient) = a + 1 /\ AnswerFits(s, cmd, s.toClient[a + 1])

\* Nothing is left for the server but acknowledgements and what it passes over.
Passed(s, w) == NoDollar(s.buf) /\ NoDollar(w)

Idle(s, g, w) ==
    g.waits = "nothing" /\ s.stopped = TRUE /\ Passed(s, w) /\ Packets(s.toClient)
Sent(s, g, w) ==
    /\ g.waits = "ack" /\ s.taken = 0 /\ s.stopped = TRUE /\ Packets(s.toClient)
    /\ \E k \in Nat : WholeAt(s.buf \o w, k, g.cmd)
Refused(s, g, w) ==
    /\ g.waits = "ack" /\ s.taken = 0 /\ s.stopped = TRUE /\ Passed(s, w)
    /\ \E a \in Nat : OneAt(s.toClient, a, Nak)
Taken(s, g, w) ==
    /\ g.waits = "ack" /\ s.taken = 1 /\ Passed(s, w) /\ NoBreak(w)
    /\ \E a \in Nat : OneAt(s.toClient, a, Ack) /\ Outcome(s, g.cmd, a)
Answering(s, g, w) ==
    /\ g.waits = "answer" /\ s.taken = 1 /\ Passed(s, w) /\ NoBreak(w) /\ Packets(s.toClient)
    /\ s.stopped = TRUE /\ Len(s.toClient) = 1 /\ AnswerFits(s, g.cmd, s.toClient[1])
Awaiting(s, g, w) ==
    /\ \/ g.waits = "stop" /\ NoBreak(w)
       \/ g.waits = "break"
    /\ s.taken = 1 /\ Passed(s, w) /\ Packets(s.toClient)
    /\ NewsTrue(s, s.toClient, 0, g.waits = "break")

Phase(s, g, w) ==
    \/ Idle(s, g, w) \/ Sent(s, g, w) \/ Refused(s, g, w)
    \/ Taken(s, g, w) \/ Answering(s, g, w) \/ Awaiting(s, g, w)

GdbType == [waits : {"nothing", "ack", "answer", "stop", "break"}, cmd : Commands]

DebuggerSound(s, g, w) ==
    /\ s \in ServerType /\ g \in GdbType /\ w \in Seq(Symbol)
    /\ Ticking(s) /\ s.taken <= 1 /\ Phase(s, g, w)

DebuggerInv == DebuggerSound(server, gdb, toServer)

-----------------------------------------------------------------------------
(* The streams.                                                               *)

LEMMA Joined ==
    ASSUME NEW f \in Seq(Symbol), NEW w \in Seq(Symbol), NEW n \in 0 .. Len(w)
    PROVE  (f \o SubSeq(w, 1, n)) \o SubSeq(w, n + 1, Len(w)) = f \o w
<1>1. PICK data : data = SubSeq(w, 1, n)
  OBVIOUS
<1>2. PICK v : v = SubSeq(w, n + 1, Len(w))
  OBVIOUS
<1>a. data \in Seq(Symbol) /\ Keeps(data, w, n) /\ v \in Seq(Symbol) /\ Drops(v, w, n)
  BY <1>1, <1>2, Cut
<1>3. PICK fd : fd = f \o data
  OBVIOUS
<1>b. fd \in Seq(Symbol) /\ Joins(fd, f, data)
  BY <1>a, <1>3, Pieced
<1>4. PICK e : e = fd \o v
  OBVIOUS
<1>c. e \in Seq(Symbol) /\ Joins(e, fd, v)
  BY <1>a, <1>b, <1>4, Pieced
<1>5. PICK d : d = f \o w
  OBVIOUS
<1>d. d \in Seq(Symbol) /\ Joins(d, f, w)
  BY <1>5, Pieced
<1>6. Len(f) \in Nat /\ Len(w) \in Nat /\ Len(fd) = Len(f) + n /\ Len(e) = Len(f) + Len(w)
  BY <1>a, <1>b, <1>c DEF Keeps, Drops, Joins
<1>7. \A i \in 1 .. Len(f) + Len(w) : e[i] = d[i]
  <2> SUFFICES ASSUME NEW i \in 1 .. Len(f) + Len(w) PROVE e[i] = d[i]
    OBVIOUS
  <2>1. CASE i <= Len(f)
    <3>1. i \in 1 .. Len(f) /\ i \in 1 .. Len(fd)
      BY <2>1, <1>6
    <3>2. d[i] = f[i] /\ fd[i] = f[i] /\ e[i] = fd[i]
      BY <3>1, <1>b, <1>c, <1>d DEF Joins
    <3> QED BY <3>2
  <2>2. CASE i > Len(f) /\ i <= Len(f) + n
    <3> DEFINE j == i - Len(f)
    <3>1. j \in 1 .. n /\ j \in 1 .. Len(w) /\ j \in 1 .. Len(data) /\ i = Len(f) + j /\ i \in 1 .. Len(fd)
      BY <2>2, <1>a, <1>6 DEF Keeps
    <3> HIDE DEF j
    <3>2. d[i] = w[j] /\ fd[i] = data[j] /\ data[j] = w[j] /\ e[i] = fd[i]
      BY <3>1, <1>a, <1>b, <1>c, <1>d DEF Joins, Keeps
    <3> QED BY <3>2
  <2>3. CASE i > Len(f) + n
    <3> DEFINE j == i - Len(f) - n
    <3>1. j \in 1 .. Len(w) - n /\ n + j \in 1 .. Len(w) /\ j \in 1 .. Len(v)
          /\ i = Len(f) + (n + j) /\ i = Len(fd) + j
      BY <2>3, <1>a, <1>6 DEF Drops
    <3> HIDE DEF j
    <3>2. d[i] = w[n + j] /\ v[j] = w[n + j] /\ e[i] = v[j]
      BY <3>1, <1>a, <1>c, <1>d DEF Joins, Drops
    <3> QED BY <3>2
  <2> QED BY <2>1, <2>2, <2>3, <1>6
<1>8. e = d
  <2>1. Len(d) = Len(e)
    BY <1>6, <1>d DEF Joins
  <2> QED BY <2>1, <1>6, <1>7, <1>c, <1>d
<1> QED BY <1>1, <1>2, <1>3, <1>4, <1>5, <1>8, Zenon

\* d without what is at place p.
Without(d, e, p) ==
    /\ e \in Seq(Symbol) /\ Len(e) = Len(d) - 1 /\ p \in 1 .. Len(d)
    /\ \A i \in 1 .. p - 1 : e[i] = d[i]
    /\ \A i \in p .. Len(d) - 1 : e[i] = d[i + 1]

LEMMA HeadDropped ==
    ASSUME NEW f \in Seq(Symbol), NEW w \in Seq(Symbol), w # <<>>
    PROVE  Without(f \o w, f \o Tail(w), Len(f) + 1)
<1>1. PICK d : d = f \o w
  OBVIOUS
<1>2. PICK more : more = Tail(w)
  OBVIOUS
<1>3. PICK e : e = f \o more
  OBVIOUS
<1>a. d \in Seq(Symbol) /\ Joins(d, f, w)
  BY <1>1, Pieced
<1>b. more \in Seq(Symbol) /\ Drops(more, w, 1)
  BY <1>2, Rest
<1>c. e \in Seq(Symbol) /\ Joins(e, f, more)
  BY <1>b, <1>3, Pieced
<1>4. Len(f) \in Nat /\ Len(w) \in Nat \ {0} /\ Len(more) = Len(w) - 1
      /\ Len(d) = Len(f) + Len(w) /\ Len(e) = Len(d) - 1
  BY <1>a, <1>b, <1>c DEF Joins, Drops
<1>5. \A i \in Len(f) + 1 .. Len(d) - 1 : e[i] = d[i + 1]
  <2> SUFFICES ASSUME NEW i \in Len(f) + 1 .. Len(d) - 1 PROVE e[i] = d[i + 1]
    OBVIOUS
  <2> DEFINE j == i - Len(f)
  <2>1. j \in 1 .. Len(w) - 1 /\ j \in 1 .. Len(more) /\ j + 1 \in 1 .. Len(w)
        /\ i = Len(f) + j /\ i + 1 = Len(f) + (j + 1) /\ 1 + j = j + 1
    BY <1>4
  <2> HIDE DEF j
  <2>2. e[i] = more[j] /\ more[j] = w[1 + j] /\ d[i + 1] = w[j + 1]
    BY <2>1, <1>a, <1>b, <1>c DEF Joins, Drops
  <2> QED BY <2>1, <2>2
<1>6. \A i \in 1 .. Len(f) : e[i] = d[i]
  BY <1>a, <1>c DEF Joins
<1>7. Without(d, e, Len(f) + 1)
  BY <1>c, <1>4, <1>5, <1>6 DEF Without
<1> QED BY <1>1, <1>2, <1>3, <1>7

\* A break is never in front of anything but the packet.
LEMMA BreakPassed ==
    ASSUME NEW d \in Seq(Symbol), NEW e, NEW p, Without(d, e, p), d[p] = Break,
           NEW cmd \in Commands, NEW k \in Nat, WholeAt(d, k, cmd)
    PROVE  k - 1 \in Nat /\ WholeAt(e, k - 1, cmd)
<1>1. p < k
  <2>1. p \in 1 .. Len(d) /\ k \in 1 .. Len(d) - 4
    BY DEF Without, WholeAt
  <2>2. p # k /\ p # k + 1 /\ p # k + 2 /\ p # k + 3 /\ p # k + 4 /\ ~(p \in k + 5 .. Len(d))
    BY SymbolsDiffer DEF WholeAt
  <2> QED BY <2>1, <2>2
<1>2. /\ k \in 2 .. Len(d) - 4 /\ Len(e) = Len(d) - 1
      /\ \A i \in k - 1 .. Len(d) - 1 : e[i] = d[i + 1]
  BY <1>1 DEF Without, WholeAt
<1>3. e[k - 1] = Dollar /\ e[k] = cmd /\ e[k + 1] = Hash /\ e[k + 2] = High /\ e[k + 3] = Low
  BY <1>2 DEF WholeAt
<1>4. \A i \in 1 .. k - 2 : e[i] # Dollar
  BY <1>1, <1>2 DEF WholeAt, Without
<1>5. \A i \in k + 4 .. Len(e) : e[i] = Ack
  BY <1>2 DEF WholeAt
<1> QED BY <1>2, <1>3, <1>4, <1>5 DEF WholeAt

\* Both streams, cut and joined, have nothing that was not in them.
LEMMA QuietPieces ==
    ASSUME NEW f \in Seq(Symbol), NoDollar(f), NEW g \in Seq(Symbol), NoDollar(g)
    PROVE  NoDollar(f \o g)
<1>1. PICK e : e = f \o g
  OBVIOUS
<1>a. e \in Seq(Symbol) /\ Joins(e, f, g)
  BY <1>1, Pieced
<1>2. \A i \in 1 .. Len(e) : e[i] # Dollar
  <2> SUFFICES ASSUME NEW i \in 1 .. Len(e) PROVE e[i] # Dollar
    OBVIOUS
  <2>1. CASE i <= Len(f)
    <3>1. i \in 1 .. Len(f)
      BY <2>1
    <3> QED BY <1>a, <3>1 DEF NoDollar, Joins
  <2>2. CASE i > Len(f)
    <3> DEFINE j == i - Len(f)
    <3>1. j \in 1 .. Len(g) /\ i = Len(f) + j
      BY <1>a, <2>2 DEF Joins
    <3> HIDE DEF j
    <3> QED BY <1>a, <3>1 DEF NoDollar, Joins
  <2>3. Len(f) \in Nat
    BY <1>a DEF Joins
  <2> QED BY <2>1, <2>2, <2>3
<1> QED BY <1>1, <1>2 DEF NoDollar

LEMMA QuietCut ==
    ASSUME NEW f \in Seq(Symbol), NEW n \in 0 .. Len(f)
    PROVE  /\ NoDollar(f) => NoDollar(SubSeq(f, n + 1, Len(f))) /\ NoDollar(SubSeq(f, 1, n))
           /\ NoBreak(f) => NoBreak(SubSeq(f, n + 1, Len(f)))
<1>1. PICK g : g = SubSeq(f, n + 1, Len(f))
  OBVIOUS
<1>2. PICK h : h = SubSeq(f, 1, n)
  OBVIOUS
<1>3. Drops(g, f, n) /\ Keeps(h, f, n)
  BY <1>1, <1>2, Cut
<1>4. /\ NoDollar(f) => NoDollar(g)
      /\ NoDollar(f) => NoDollar(h)
      /\ NoBreak(f) => NoBreak(g)
  <2>1. \A i \in 1 .. Len(g) : n + i \in 1 .. Len(f) /\ g[i] = f[n + i]
    BY <1>3 DEF Drops
  <2>2. \A i \in 1 .. Len(h) : i \in 1 .. Len(f) /\ h[i] = f[i]
    BY <1>3 DEF Keeps
  <2> QED BY <2>1, <2>2 DEF NoDollar, NoBreak
<1> QED BY <1>1, <1>2, <1>4

LEMMA MessageFacts ==
    ASSUME NEW cmd \in Commands
    PROVE  LET m == gdbMessage(cmd)
           IN  /\ m \in Seq(Symbol) /\ Len(m) = 5
               /\ m[1] = Dollar /\ m[2] = cmd /\ m[3] = Hash /\ m[4] = High /\ m[5] = Low
<1>1. <<Dollar, cmd, Hash>> \in Seq(Symbol) /\ <<High, Low>> \in Seq(Symbol)
  <2>1. Dollar \in Symbol /\ cmd \in Symbol /\ Hash \in Symbol /\ High \in Symbol /\ Low \in Symbol
    BY DEF Symbol
  <2> QED BY <2>1
<1>2. PICK f \in Seq(Symbol) : f = <<Dollar, cmd, Hash>>
  BY <1>1
<1>3. PICK g \in Seq(Symbol) : g = <<High, Low>>
  BY <1>1
<1>4. PICK m : m = f \o g
  OBVIOUS
<1>5. m \in Seq(Symbol) /\ Joins(m, f, g)
  BY <1>4, Pieced
<1>6. Len(f) = 3 /\ f[1] = Dollar /\ f[2] = cmd /\ f[3] = Hash
  BY <1>2
<1>7. Len(g) = 2 /\ g[1] = High /\ g[2] = Low
  BY <1>3
<1>8. Len(m) = 5 /\ m[1] = f[1] /\ m[2] = f[2] /\ m[3] = f[3] /\ m[3 + 1] = g[1] /\ m[3 + 2] = g[2]
  BY <1>5, <1>6, <1>7 DEF Joins
<1>9. m = gdbMessage(cmd)
  BY <1>2, <1>3, <1>4 DEF gdbMessage, gdbChecksum, Dollar, Hash, High, Low
<1> QED BY <1>5, <1>6, <1>7, <1>8, <1>9

LEMMA MessageWhole ==
    ASSUME NEW d \in Seq(Symbol), NoDollar(d), NEW cmd \in Commands
    PROVE  Len(d) + 1 \in Nat /\ WholeAt(d \o gdbMessage(cmd), Len(d) + 1, cmd)
<1>1. PICK m \in Seq(Symbol) :
          /\ m = gdbMessage(cmd) /\ Len(m) = 5
          /\ m[1] = Dollar /\ m[2] = cmd /\ m[3] = Hash /\ m[4] = High /\ m[5] = Low
  BY MessageFacts, Zenon
<1>2. PICK e : e = d \o m
  OBVIOUS
<1>3. e \in Seq(Symbol) /\ Joins(e, d, m)
  BY <1>2, Pieced
<1>4. PICK n \in Nat : n = Len(d)
  OBVIOUS
<1>5. /\ Len(e) = n + 5
      /\ e[n + 1] = Dollar /\ e[n + 2] = cmd /\ e[n + 3] = Hash /\ e[n + 4] = High /\ e[n + 5] = Low
  BY <1>1, <1>3, <1>4 DEF Joins
<1>6. \A i \in 1 .. n : e[i] # Dollar
  BY <1>3, <1>4 DEF Joins, NoDollar
<1>7. WholeAt(e, n + 1, cmd)
  BY <1>5, <1>6 DEF WholeAt
<1> QED BY <1>1, <1>2, <1>4, <1>7

LEMMA AckedWhole ==
    ASSUME NEW d \in Seq(Symbol), NEW cmd, NEW k \in Nat, WholeAt(d, k, cmd)
    PROVE  WholeAt(d \o <<Ack>>, k, cmd)
<1>1. PICK m \in Seq(Symbol) : m = <<Ack>> /\ Len(m) = 1 /\ m[1] = Ack
  <2>1. Ack \in Symbol
    BY DEF Symbol
  <2>2. <<Ack>> \in Seq(Symbol)
    BY <2>1
  <2>3. Len(<<Ack>>) = 1 /\ <<Ack>>[1] = Ack
    OBVIOUS
  <2> QED BY <2>2, <2>3
<1>2. PICK e : e = d \o m
  OBVIOUS
<1>3. e \in Seq(Symbol) /\ Joins(e, d, m)
  BY <1>2, Pieced
<1>4. Len(d) \in Nat /\ Len(e) = Len(d) + 1 /\ e[Len(d) + 1] = Ack /\ \A i \in 1 .. Len(d) : e[i] = d[i]
  BY <1>1, <1>3 DEF Joins
<1>5. k \in 1 .. Len(d) - 4
  BY DEF WholeAt
<1>6. \A i \in k + 5 .. Len(e) : e[i] = Ack
  <2> SUFFICES ASSUME NEW i \in k + 5 .. Len(e) PROVE e[i] = Ack
    OBVIOUS
  <2>1. i = Len(d) + 1 \/ i \in k + 5 .. Len(d)
    BY <1>4
  <2>2. \A j \in k + 5 .. Len(d) : d[j] = Ack /\ j \in 1 .. Len(d)
    BY <1>5 DEF WholeAt
  <2> QED BY <1>4, <2>1, <2>2
<1>7. /\ k \in 1 .. Len(e) - 4
      /\ e[k] = d[k] /\ e[k + 1] = d[k + 1] /\ e[k + 2] = d[k + 2] /\ e[k + 3] = d[k + 3] /\ e[k + 4] = d[k + 4]
      /\ \A i \in 1 .. k - 1 : e[i] = d[i]
  <2>1. /\ k \in 1 .. Len(d) /\ k + 1 \in 1 .. Len(d) /\ k + 2 \in 1 .. Len(d)
        /\ k + 3 \in 1 .. Len(d) /\ k + 4 \in 1 .. Len(d) /\ k \in 1 .. Len(e) - 4
    BY <1>4, <1>5
  <2>2. \A i \in 1 .. k - 1 : i \in 1 .. Len(d)
    BY <1>4, <1>5
  <2>3. \A i \in 1 .. Len(d) : e[i] = d[i]
    BY <1>4
  <2> QED BY <2>1, <2>2, <2>3
<1>8. WholeAt(e, k, cmd)
  BY <1>6, <1>7 DEF WholeAt
<1> QED BY <1>1, <1>2, <1>8

LEMMA DroppedWhole ==
    ASSUME NEW d \in Seq(Symbol), NEW e, NEW n, Drops(e, d, n),
           NEW cmd, NEW k \in Nat, WholeAt(d, k, cmd), n < k
    PROVE  k - n \in Nat /\ WholeAt(e, k - n, cmd)
<1>1. /\ Len(d) \in Nat /\ n \in 0 .. Len(d) /\ Len(e) = Len(d) - n /\ k \in 1 .. Len(d) - 4
      /\ \A i \in 1 .. Len(d) - n : e[i] = d[n + i]
  BY DEF Drops, WholeAt
<1>2. PICK j \in Nat : j = k - n /\ j \in 1 .. Len(e) - 4 /\ n + j = k
  BY <1>1
<1>3. /\ e[j] = d[k] /\ e[j + 1] = d[k + 1] /\ e[j + 2] = d[k + 2] /\ e[j + 3] = d[k + 3] /\ e[j + 4] = d[k + 4]
  <2>1. /\ j \in 1 .. Len(d) - n /\ j + 1 \in 1 .. Len(d) - n /\ j + 2 \in 1 .. Len(d) - n
        /\ j + 3 \in 1 .. Len(d) - n /\ j + 4 \in 1 .. Len(d) - n
    <3>a. Len(d) \in Nat /\ n \in 0 .. Len(d)
      BY <1>1
    <3>b. Len(d) - n \in Nat
      BY <3>a
    <3>1. PICK l \in Nat : l = Len(d) - n
      BY <3>b
    <3>2. j \in 1 .. l - 4
      BY <1>1, <1>2, <3>1
    <3>3. j \in 1 .. l /\ j + 1 \in 1 .. l /\ j + 2 \in 1 .. l /\ j + 3 \in 1 .. l /\ j + 4 \in 1 .. l
      BY <3>2
    <3> QED BY <3>1, <3>3
  <2>2. /\ n + j = k /\ n + (j + 1) = k + 1 /\ n + (j + 2) = k + 2
        /\ n + (j + 3) = k + 3 /\ n + (j + 4) = k + 4
    BY <1>1, <1>2
  <2>3. \A i \in 1 .. Len(d) - n : e[i] = d[n + i]
    BY <1>1
  <2>4. /\ e[j] = d[n + j] /\ e[j + 1] = d[n + (j + 1)] /\ e[j + 2] = d[n + (j + 2)]
        /\ e[j + 3] = d[n + (j + 3)] /\ e[j + 4] = d[n + (j + 4)]
    BY <2>1, <2>3
  <2> QED BY <2>2, <2>4
<1>4. \A i \in 1 .. j - 1 : n + i \in 1 .. k - 1 /\ e[i] = d[n + i]
  <2>1. \A i \in 1 .. j - 1 : n + i \in 1 .. k - 1 /\ i \in 1 .. Len(d) - n
    BY <1>1, <1>2
  <2> QED BY <1>1, <2>1
<1>5. \A i \in j + 5 .. Len(e) : n + i \in k + 5 .. Len(d) /\ e[i] = d[n + i]
  <2>1. \A i \in j + 5 .. Len(e) : n + i \in k + 5 .. Len(d) /\ i \in 1 .. Len(d) - n
    BY <1>1, <1>2
  <2> QED BY <1>1, <2>1
<1>6. WholeAt(e, j, cmd)
  BY <1>2, <1>3, <1>4, <1>5 DEF WholeAt
<1> QED BY <1>2, <1>6

LEMMA Regrouped ==
    ASSUME NEW f \in Seq(Symbol), NEW g \in Seq(Symbol), NEW h \in Seq(Symbol)
    PROVE  (f \o g) \o h = f \o (g \o h)
BY ConcatAssociative

\* The front of a stream dropped.
LEMMA FrontDropped ==
    ASSUME NEW f \in Seq(Symbol), NEW w \in Seq(Symbol), NEW n \in 0 .. Len(f)
    PROVE  Drops(SubSeq(f, n + 1, Len(f)) \o w, f \o w, n)
<1>1. PICK g : g = SubSeq(f, n + 1, Len(f))
  OBVIOUS
<1>2. g \in Seq(Symbol) /\ Drops(g, f, n)
  BY <1>1, Cut
<1>3. PICK e : e = g \o w
  OBVIOUS
<1>4. Joins(e, g, w)
  BY <1>2, <1>3, Pieced
<1>5. PICK d : d = f \o w
  OBVIOUS
<1>6. Joins(d, f, w)
  BY <1>5, Pieced
<1>7. /\ Len(f) \in Nat /\ Len(w) \in Nat /\ Len(g) = Len(f) - n
      /\ Len(e) = Len(g) + Len(w) /\ Len(d) = Len(f) + Len(w) /\ Len(e) = Len(d) - n
  BY <1>2, <1>4, <1>6 DEF Joins, Drops
<1>8. \A i \in 1 .. Len(d) - n : e[i] = d[n + i]
  <2> SUFFICES ASSUME NEW i \in 1 .. Len(d) - n PROVE e[i] = d[n + i]
    OBVIOUS
  <2>1. CASE i <= Len(g)
    <3>1. i \in 1 .. Len(g) /\ i \in 1 .. Len(f) - n /\ n + i \in 1 .. Len(f)
      BY <2>1, <1>7
    <3>2. e[i] = g[i] /\ g[i] = f[n + i] /\ d[n + i] = f[n + i]
      BY <3>1, <1>2, <1>4, <1>6 DEF Joins, Drops
    <3> QED BY <3>2
  <2>2. CASE i > Len(g)
    <3> DEFINE j == i - Len(g)
    <3>1. j \in 1 .. Len(w) /\ i = Len(g) + j /\ n + i = Len(f) + j
      BY <2>2, <1>7
    <3> HIDE DEF j
    <3>2. e[i] = w[j] /\ d[n + i] = w[j]
      BY <3>1, <1>4, <1>6 DEF Joins
    <3> QED BY <3>2
  <2> QED BY <2>1, <2>2, <1>7
<1>9. Drops(e, d, n)
  BY <1>7, <1>8 DEF Drops
<1> QED BY <1>1, <1>3, <1>5, <1>9, Zenon

\* Once the packet is read as far as its first digit, nothing else is to come.
LEMMA QuietBehind ==
    ASSUME NEW f \in Seq(Symbol), NEW w \in Seq(Symbol), NEW cmd, NEW k \in Nat,
           WholeAt(f \o w, k, cmd), k + 3 <= Len(f)
    PROVE  NoDollar(SubSeq(f, k + 4, Len(f))) /\ NoDollar(w) /\ NoBreak(w)
<1>1. PICK d : d = f \o w
  OBVIOUS
<1>2. Joins(d, f, w) /\ WholeAt(d, k, cmd)
  BY <1>1, Pieced
<1>3. k + 3 \in 0 .. Len(f) /\ (k + 3) + 1 = k + 4
  OBVIOUS
<1>4. PICK g : g = SubSeq(f, (k + 3) + 1, Len(f))
  OBVIOUS
<1>5. Drops(g, f, k + 3)
  BY <1>3, <1>4, Cut
<1>6. \A i \in k + 4 .. Len(d) : d[i] # Dollar /\ d[i] # Break
  <2>1. \A i \in k + 4 .. Len(d) : d[i] = Low \/ d[i] = Ack
    <3>1. d[k + 4] = Low /\ \A i \in k + 5 .. Len(d) : d[i] = Ack
      BY <1>2 DEF WholeAt
    <3>2. \A i \in k + 4 .. Len(d) : i = k + 4 \/ i \in k + 5 .. Len(d)
      BY <1>2 DEF Joins
    <3> QED BY <3>1, <3>2
  <2> QED BY <2>1, SymbolsDiffer
<1>7. NoDollar(g)
  <2>1. \A i \in 1 .. Len(g) : (k + 3) + i \in k + 4 .. Len(d) /\ (k + 3) + i \in 1 .. Len(f) /\ g[i] = f[(k + 3) + i]
    BY <1>2, <1>3, <1>5 DEF Drops, Joins
  <2>2. \A i \in 1 .. Len(f) : d[i] = f[i]
    BY <1>2 DEF Joins
  <2> QED BY <1>6, <2>1, <2>2 DEF NoDollar
<1>8. NoDollar(w) /\ NoBreak(w)
  <2>1. \A i \in 1 .. Len(w) : Len(f) + i \in k + 4 .. Len(d) /\ w[i] = d[Len(f) + i]
    BY <1>2, <1>3 DEF Joins
  <2> QED BY <1>6, <2>1 DEF NoDollar, NoBreak
<1> QED BY <1>3, <1>4, <1>7, <1>8

-----------------------------------------------------------------------------
(* What the server finds in its buffer.                                       *)

LEMMA DollaFacts ==
    ASSUME server.buf \in Seq(Symbol)
    PROVE  \/ dolla = 0 /\ NoDollar(server.buf)
           \/ /\ dolla \in 1 .. Len(server.buf) /\ server.buf[dolla] = Dollar
              /\ \A i \in 1 .. dolla - 1 : server.buf[i] # Dollar
<1> DEFINE I == {i \in 1 .. Len(server.buf) : server.buf[i] = Dollar}
<1>1. dolla = IF I # {} THEN Min(I) ELSE 0
  BY DEF dolla, SelectInSeq, Dollar
<1>2. Len(server.buf) \in Nat
  OBVIOUS
<1>3. I \in SUBSET Nat /\ \A i : i \in I <=> i \in 1 .. Len(server.buf) /\ server.buf[i] = Dollar
  BY <1>2
<1> HIDE DEF I
<1>4. CASE I = {}
  BY <1>1, <1>3, <1>4 DEF NoDollar
<1>5. CASE I # {}
  <2>1. dolla \in I /\ \A m \in I : dolla <= m
    BY <1>1, <1>3, <1>5, MinFacts
  <2> QED BY <1>2, <1>3, <2>1
<1> QED BY <1>4, <1>5

LEMMA HashFacts ==
    ASSUME server.buf \in Seq(Symbol), dolla \in Nat
    PROVE  \/ hash = 0 /\ \A i \in dolla + 1 .. Len(server.buf) : server.buf[i] # Hash
           \/ /\ hash \in dolla + 1 .. Len(server.buf) /\ server.buf[hash] = Hash
              /\ \A i \in dolla + 1 .. hash - 1 : server.buf[i] # Hash
<1> DEFINE I == {i \in dolla + 1 .. Len(server.buf) : server.buf[i] = Hash}
<1>1. hash = IF I # {} THEN Min(I) ELSE 0
  BY DEF hash, SelectInSubSeq, Hash
<1>2. Len(server.buf) \in Nat
  OBVIOUS
<1>3. I \in SUBSET Nat /\ \A i : i \in I <=> i \in dolla + 1 .. Len(server.buf) /\ server.buf[i] = Hash
  BY <1>2
<1> HIDE DEF I
<1>4. CASE I = {}
  BY <1>1, <1>3, <1>4
<1>5. CASE I # {}
  <2>1. hash \in I /\ \A m \in I : hash <= m
    BY <1>1, <1>3, <1>5, MinFacts
  <2> QED BY <1>2, <1>3, <2>1
<1> QED BY <1>4, <1>5

\* The packet that is found is the command.
LEMMA PacketRead ==
    ASSUME server.buf \in Seq(Symbol), toServer \in Seq(Symbol), NEW cmd \in Commands, NEW k \in Nat,
           WholeAt(server.buf \o toServer, k, cmd)
    PROVE  /\ dolla \in Nat
           /\ dolla = 0 => NoDollar(server.buf) /\ Len(server.buf) < k
           /\ dolla # 0 => dolla = k /\ k <= Len(server.buf)
           /\ PacketThere => hash = k + 2 /\ k + 3 <= Len(server.buf) /\ server.buf[k + 1] = cmd
<1>1. PICK d : d = server.buf \o toServer
  OBVIOUS
<1>2. Joins(d, server.buf, toServer) /\ WholeAt(d, k, cmd)
  BY <1>1, Pieced
<1>3. PICK f \in Seq(Symbol) : f = server.buf
  OBVIOUS
<1>4. /\ Len(f) \in Nat /\ k \in 1 .. Len(d) - 4 /\ Len(d) \in Nat
      /\ \A i \in 1 .. Len(f) : f[i] = d[i] /\ i \in 1 .. Len(d)
  BY <1>2, <1>3 DEF Joins, WholeAt
<1>5. /\ d[k] = Dollar /\ d[k + 1] = cmd /\ d[k + 2] = Hash /\ d[k + 1] # Hash
      /\ \A i \in 1 .. Len(d) : d[i] = Dollar => i = k
  <2>1. d[k] = Dollar /\ d[k + 1] = cmd /\ d[k + 2] = Hash /\ d[k + 3] = High /\ d[k + 4] = Low
    BY <1>2 DEF WholeAt
  <2>2. d[k + 1] # Dollar /\ d[k + 2] # Dollar /\ d[k + 3] # Dollar /\ d[k + 4] # Dollar /\ d[k + 1] # Hash
    BY <2>1, SymbolsDiffer
  <2>3. \A i \in k + 5 .. Len(d) : d[i] # Dollar
    BY <1>2, SymbolsDiffer DEF WholeAt
  <2>4. \A i \in 1 .. k - 1 : d[i] # Dollar
    BY <1>2 DEF WholeAt
  <2>5. \A i \in 1 .. Len(d) : i \in 1 .. k - 1 \/ i = k \/ i = k + 1 \/ i = k + 2 \/ i = k + 3 \/ i = k + 4 \/ i \in k + 5 .. Len(d)
    BY <1>4
  <2> QED BY <2>1, <2>2, <2>3, <2>4, <2>5
<1>6. \/ dolla = 0 /\ NoDollar(f)
      \/ /\ dolla \in 1 .. Len(f) /\ f[dolla] = Dollar
         /\ \A i \in 1 .. dolla - 1 : f[i] # Dollar
  BY <1>3, DollaFacts
<1>7. dolla = 0 => Len(f) < k
  <2>1. CASE dolla = 0 /\ k <= Len(f)
    <3>1. k \in 1 .. Len(f) /\ f[k] = Dollar
      BY <2>1, <1>4, <1>5
    <3> QED BY <3>1, <2>1, <1>6 DEF NoDollar
  <2> QED BY <2>1, <1>4
<1>8. dolla # 0 => dolla = k /\ k <= Len(f)
  BY <1>4, <1>5, <1>6
<1>9. dolla \in Nat
  BY <1>4, <1>6
<1>10. ASSUME PacketThere PROVE hash = k + 2 /\ k + 3 <= Len(f) /\ f[k + 1] = cmd
  <2>1. dolla # 0 /\ hash # 0 /\ hash + 1 <= Len(f)
    BY <1>3, <1>10 DEF PacketThere
  <2>2. /\ hash \in k + 1 .. Len(f) /\ f[hash] = Hash
        /\ \A i \in k + 1 .. hash - 1 : f[i] # Hash
    BY <2>1, <1>3, <1>8, <1>9, HashFacts
  <2>3. k + 1 \in 1 .. Len(f) /\ f[k + 1] = d[k + 1]
    BY <2>2, <1>4
  <2>4. hash # k + 1
    BY <2>2, <2>3, <1>5
  <2>5. ~(k + 2 < hash)
    <3>1. CASE k + 2 < hash
      <4>1. k + 2 \in 1 .. Len(f) /\ k + 2 \in k + 1 .. hash - 1
        BY <3>1, <2>2, <1>4
      <4> QED BY <4>1, <2>2, <1>4, <1>5
    <3> QED BY <3>1
  <2> QED BY <2>1, <2>2, <2>3, <2>4, <2>5, <1>4, <1>5
<1> QED BY <1>3, <1>6, <1>7, <1>8, <1>9, <1>10

-----------------------------------------------------------------------------
(* What a command does.                                                       *)

LEMMA Kinds ==
    \A c \in Commands :
        /\ c[1] \in {"?", "p", "c", "vCont;c", "vCont;s", "m", "P", "M"}
        /\ c \in Resuming <=> c[1] \in {"c", "vCont;c", "vCont;s"}
        /\ c[1] \in {"m", "P", "M"} => c[2] \in Addr
        /\ c[1] = "M" => c[3] \in BOOLEAN
<1> SUFFICES ASSUME NEW c \in Commands
             PROVE  /\ c[1] \in {"?", "p", "c", "vCont;c", "vCont;s", "m", "P", "M"}
                    /\ c \in Resuming <=> c[1] \in {"c", "vCont;c", "vCont;s"}
                    /\ c[1] \in {"m", "P", "M"} => c[2] \in Addr
                    /\ c[1] = "M" => c[3] \in BOOLEAN
  OBVIOUS
<1>1. c \in Resuming => c[1] \in {"c", "vCont;c", "vCont;s"}
  <2>1. CASE c = <<"c">>
    BY <2>1
  <2>2. CASE c = <<"vCont;c">>
    BY <2>2
  <2>3. CASE c = <<"vCont;s">>
    BY <2>3
  <2> QED BY <2>1, <2>2, <2>3 DEF Resuming
<1>2. CASE c \in {<<"?">>, <<"p">>, <<"c">>, <<"vCont;c">>, <<"vCont;s">>}
  <2>1. CASE c = <<"?">>
    <3>1. c[1] = "?"
      BY <2>1
    <3> QED BY <3>1, <1>1
  <2>2. CASE c = <<"p">>
    <3>1. c[1] = "p"
      BY <2>2
    <3> QED BY <3>1, <1>1
  <2>3. CASE c = <<"c">>
    <3>1. c[1] = "c" /\ c \in Resuming
      BY <2>3 DEF Resuming
    <3> QED BY <3>1
  <2>4. CASE c = <<"vCont;c">>
    <3>1. c[1] = "vCont;c" /\ c \in Resuming
      BY <2>4 DEF Resuming
    <3> QED BY <3>1
  <2>5. CASE c = <<"vCont;s">>
    <3>1. c[1] = "vCont;s" /\ c \in Resuming
      BY <2>5 DEF Resuming
    <3> QED BY <3>1
  <2> QED BY <1>2, <2>1, <2>2, <2>3, <2>4, <2>5
<1>3. CASE c \in {"m", "P"} \X Addr
  <2>1. c[1] \in {"m", "P"} /\ c[2] \in Addr
    BY <1>3
  <2> QED BY <2>1, <1>1
<1>4. CASE c \in {"M"} \X Addr \X BOOLEAN
  <2>1. c[1] = "M" /\ c[2] \in Addr /\ c[3] \in BOOLEAN
    BY <1>4
  <2> QED BY <2>1, <1>1
<1> QED BY <1>2, <1>3, <1>4 DEF Commands

LEMMA OneMore ==
    ASSUME NEW f, NEW e, NEW r, Appends(e, f, r), r # Ack, r # Nak
    PROVE  /\ Packets(f) => Packets(e)
           /\ \A a \in Nat : \A mark : OneAt(f, a, mark) => OneAt(e, a, mark)
<1>1. \A i \in 1 .. Len(e) : i \in 1 .. Len(f) \/ i = Len(f) + 1
  BY DEF Appends
<1>2. /\ \A i \in 1 .. Len(f) : e[i] = f[i] /\ i \in 1 .. Len(e)
      /\ e[Len(f) + 1] # Ack /\ e[Len(f) + 1] # Nak
  BY DEF Appends
<1> QED BY <1>1, <1>2 DEF Packets, OneAt

LEMMA NewsMore ==
    ASSUME NEW f, NEW e, NEW r, Appends(e, f, r), NEW a \in Nat, a <= Len(f)
    PROVE  /\ HasNews(f, a) => HasNews(e, a)
           /\ IsStopReply(r) => HasNews(e, a)
           /\ a <= Len(e)
<1>1. \A i \in 1 .. Len(e) : i \in 1 .. Len(f) \/ i = Len(f) + 1
  BY DEF Appends
<1>2. /\ \A i \in 1 .. Len(f) : e[i] = f[i] /\ i \in 1 .. Len(e)
      /\ e[Len(f) + 1] = r /\ Len(f) + 1 \in 1 .. Len(e) /\ Len(f) + 1 > a
  BY DEF Appends
<1>3. HasNews(f, a) => HasNews(e, a)
  BY <1>2 DEF HasNews
<1>4. IsStopReply(r) => HasNews(e, a)
  BY <1>2 DEF HasNews
<1>6. a <= Len(e)
  BY DEF Appends
<1> QED BY <1>3, <1>4, <1>6

LEMMA NewsSaid ==
    ASSUME NEW f, NEW e, NEW r, Appends(e, f, r), NEW a \in Nat, NEW s, NEW broken,
           NewsSay(s, f, a, broken), IsStopReply(r) => s.stopped = TRUE /\ NewsIs(s, r, broken)
    PROVE  NewsSay(s, e, a, broken)
<1>1. \A i \in 1 .. Len(e) : i \in 1 .. Len(f) \/ i = Len(f) + 1
  BY DEF Appends
<1>2. e[Len(f) + 1] = r /\ \A i \in 1 .. Len(f) : e[i] = f[i]
  BY DEF Appends
<1>3. \A i \in 1 .. Len(f) : i > a /\ IsStopReply(f[i]) => s.stopped = TRUE /\ NewsIs(s, f[i], broken)
  BY DEF NewsSay
<1>4. \A i \in 1 .. Len(e) : i > a /\ IsStopReply(e[i]) => s.stopped = TRUE /\ NewsIs(s, e[i], broken)
  BY <1>1, <1>2, <1>3
<1> QED BY <1>4 DEF NewsSay

LEMMA NoneYet ==
    ASSUME NEW s, NEW f, NEW a, NEW broken, Len(f) = a, Len(f) \in Nat
    PROVE  NewsSay(s, f, a, broken)
BY DEF NewsSay

\* What stays as it was while a command is carried out.
Kept(s, q) == q.buf = s.buf /\ q.reading = s.reading /\ q.taken = s.taken

\* s, ready for a command that was just acknowledged.
Ready(s, a) ==
    /\ s \in ServerType /\ Ticking(s) /\ s.stopped = TRUE
    /\ a \in Nat /\ Len(s.toClient) = a /\ OneAt(s.toClient, a, Ack)

\* s, after it.
Done(s, q, cmd, a) ==
    /\ q \in ServerType /\ Ticking(q) /\ Kept(s, q)
    /\ OneAt(q.toClient, a, Ack) /\ Outcome(q, cmd, a)

LEMMA RespondDone ==
    ASSUME NEW s, NEW a, Ready(s, a), NEW t \in ServerType, NEW r \in Reply, r # Ack, r # Nak,
           t.toClient = s.toClient, t.stopped = TRUE, Ticking(t), Kept(s, t),
           NEW cmd \in Commands, cmd \notin Resuming, AnswerFits(respond(t, r), cmd, r)
    PROVE  Done(s, respond(t, r), cmd, a)
<1>1. PICK q : q = respond(t, r)
  OBVIOUS
<1>2. /\ q \in ServerType /\ q.toClient = Append(t.toClient, r)
      /\ q.stopped = t.stopped /\ q.executeTimer = t.executeTimer
      /\ q.timeouts = t.timeouts /\ q.pc = t.pc /\ q.bkpt = t.bkpt
      /\ q.buf = t.buf /\ q.reading = t.reading /\ q.taken = t.taken
  BY <1>1, RespondFacts
<1>3. Ticking(q) /\ Kept(s, q)
  BY <1>2 DEF Ticking, Kept
<1>4. t.toClient \in Seq(Reply)
  BY DEF ServerType
<1>5. Appends(q.toClient, t.toClient, r)
  BY <1>2, <1>4, Appended
<1>6. a \in Nat /\ Len(t.toClient) = a /\ OneAt(t.toClient, a, Ack)
  BY DEF Ready
<1>7. OneAt(q.toClient, a, Ack)
  BY <1>5, <1>6, OneMore
<1>8. Len(q.toClient) = a + 1 /\ q.toClient[a + 1] = r
  BY <1>5, <1>6 DEF Appends
<1>9. Outcome(q, cmd, a)
  BY <1>1, <1>2, <1>8 DEF Outcome
<1>10. Done(s, q, cmd, a)
  BY <1>2, <1>3, <1>7, <1>9 DEF Done
<1> QED BY <1>1, <1>10

LEMMA AnswersDone ==
    ASSUME NEW s, NEW a, Ready(s, a), NEW cmd \in Commands, NEW n \in Nat,
           cmd[1] \in {"?", "p", "m", "P", "M"}
    PROVE  Done(s, processGDBMessage(s, cmd, n), cmd, a)
<1>1. /\ s \in ServerType /\ Ticking(s) /\ s.stopped = TRUE /\ s.pc \in Addr /\ s.bkpt \in SUBSET Addr
      /\ Kept(s, s) /\ cmd \notin Resuming
  BY Kinds DEF Ready, ServerType, Kept
<1>2. CASE cmd[1] = "?"
  <2>1. processGDBMessage(s, cmd, n) = respond(s, <<"S05">>)
    BY <1>2 DEF processGDBMessage
  <2>2. AnswerFits(respond(s, <<"S05">>), cmd, <<"S05">>)
    BY <1>2 DEF AnswerFits
  <2>3. <<"S05">> \in Reply /\ <<"S05">> # Ack /\ <<"S05">> # Nak
    BY RepliesDiffer
  <2> QED BY <1>1, <2>1, <2>2, <2>3, RespondDone
<1>3. CASE cmd[1] = "p"
  <2>1. PICK r : r = <<"pc", s.pc>>
    OBVIOUS
  <2>2. processGDBMessage(s, cmd, n) = respond(s, r)
    BY <1>3, <2>1 DEF processGDBMessage
  <2>3. r \in Reply /\ r # Ack /\ r # Nak
    BY <1>1, <2>1, RepliesDiffer DEF Reply
  <2>4. respond(s, r).pc = s.pc
    BY <1>1, <2>3, RespondFacts
  <2>5. AnswerFits(respond(s, r), cmd, r)
    BY <1>3, <2>1, <2>4 DEF AnswerFits
  <2> QED BY <1>1, <2>2, <2>3, <2>5, RespondDone
<1>4. CASE cmd[1] = "m"
  <2>1. PICK b \in BOOLEAN : b = (cmd[2] \in s.bkpt)
    <3> DEFINE set == cmd[2] \in s.bkpt
    <3>1. set \in BOOLEAN
      OBVIOUS
    <3> HIDE DEF set
    <3>2. \E b \in BOOLEAN : b = set
      BY <3>1
    <3> QED BY <3>2 DEF set
  <2>2. PICK r : r = <<"code", b>>
    OBVIOUS
  <2>3. processGDBMessage(s, cmd, n) = respond(s, <<"code", cmd[2] \in s.bkpt>>)
    BY <1>4 DEF processGDBMessage
  <2>4. processGDBMessage(s, cmd, n) = respond(s, r)
    BY <2>1, <2>2, <2>3
  <2>5. r \in Reply /\ r # Ack /\ r # Nak
    BY <2>2, RepliesDiffer DEF Reply
  <2>6. respond(s, r).bkpt = s.bkpt
    BY <1>1, <2>5, RespondFacts
  <2>7. AnswerFits(respond(s, r), cmd, r)
    BY <1>4, <2>1, <2>2, <2>6 DEF AnswerFits
  <2> QED BY <1>1, <2>4, <2>5, <2>7, RespondDone
<1>5. CASE cmd[1] = "P"
  <2>1. PICK t : t = [s EXCEPT !.pc = cmd[2]]
    OBVIOUS
  <2>2. processGDBMessage(s, cmd, n) = respond(t, <<"OK">>)
    BY <1>5, <2>1 DEF processGDBMessage
  <2>3. cmd[2] \in Addr
    BY <1>5, Kinds
  <2>4. /\ t \in ServerType /\ t.toClient = s.toClient /\ t.pc = cmd[2] /\ t.stopped = s.stopped
        /\ t.executeTimer = s.executeTimer /\ t.timeouts = s.timeouts
        /\ t.buf = s.buf /\ t.reading = s.reading /\ t.taken = s.taken
    BY <1>1, <2>1, <2>3 DEF ServerType
  <2>5. Ticking(t) /\ Kept(s, t) /\ t.stopped = TRUE
    BY <1>1, <2>4 DEF Ticking, Kept
  <2>6. <<"OK">> \in Reply /\ <<"OK">> # Ack /\ <<"OK">> # Nak
    BY RepliesDiffer
  <2>7. respond(t, <<"OK">>).pc = cmd[2]
    BY <2>4, <2>6, RespondFacts
  <2>8. AnswerFits(respond(t, <<"OK">>), cmd, <<"OK">>)
    BY <1>5, <2>7 DEF AnswerFits
  <2> QED BY <1>1, <2>2, <2>4, <2>5, <2>6, <2>8, RespondDone
<1>6. CASE cmd[1] = "M"
  <2>1. cmd[2] \in Addr /\ cmd[3] \in BOOLEAN
    BY <1>6, Kinds
  <2>2. PICK more : more = IF cmd[3] THEN s.bkpt \cup {cmd[2]} ELSE s.bkpt \ {cmd[2]}
    OBVIOUS
  <2>3. more \in SUBSET Addr /\ (cmd[2] \in more <=> cmd[3])
    BY <1>1, <2>1, <2>2
  <2>4. PICK t : t = [s EXCEPT !.bkpt = more]
    OBVIOUS
  <2>5. processGDBMessage(s, cmd, n) = respond(t, <<"OK">>)
    BY <1>6, <2>2, <2>4 DEF processGDBMessage
  <2>6. /\ t \in ServerType /\ t.toClient = s.toClient /\ t.bkpt = more /\ t.stopped = s.stopped
        /\ t.executeTimer = s.executeTimer /\ t.timeouts = s.timeouts
        /\ t.buf = s.buf /\ t.reading = s.reading /\ t.taken = s.taken
    BY <1>1, <2>3, <2>4 DEF ServerType
  <2>7. Ticking(t) /\ Kept(s, t) /\ t.stopped = TRUE
    BY <1>1, <2>6 DEF Ticking, Kept
  <2>8. <<"OK">> \in Reply /\ <<"OK">> # Ack /\ <<"OK">> # Nak
    BY RepliesDiffer
  <2>9. respond(t, <<"OK">>).bkpt = more
    BY <2>6, <2>8, RespondFacts
  <2>10. AnswerFits(respond(t, <<"OK">>), cmd, <<"OK">>)
    BY <1>6, <2>3, <2>9 DEF AnswerFits
  <2> QED BY <1>1, <2>5, <2>6, <2>7, <2>8, <2>10, RespondDone
<1> QED BY <1>2, <1>3, <1>4, <1>5, <1>6

\* The program set off; the news are those of the run.
LEMMA ReadyFacts == ASSUME NEW s, NEW a, Ready(s, a) PROVE a <= Len(s.toClient)
<1>1. a \in Nat /\ Len(s.toClient) = a
  BY DEF Ready
<1> QED BY <1>1

LEMMA SetOffDone ==
    ASSUME NEW s, NEW a, Ready(s, a), NEW q, SetOff(s, q)
    PROVE  /\ q \in ServerType /\ Ticking(q) /\ Kept(s, q)
           /\ OneAt(q.toClient, a, Ack) /\ a <= Len(q.toClient) /\ NewsTrue(q, q.toClient, a, FALSE)
<1>1. q \in ServerType /\ Ticking(q) /\ Kept(s, q) /\ q.toClient \in Seq(Reply)
  BY DEF SetOff, Kept, ServerType
<1>2. s.toClient \in Seq(Reply) /\ a \in Nat /\ Len(s.toClient) = a /\ OneAt(s.toClient, a, Ack)
  BY DEF Ready, ServerType
<1>a. a <= Len(s.toClient)
  BY <1>2
<1>3. NewsSay(q, s.toClient, a, FALSE)
  BY <1>2, NoneYet
<1>4. CASE q.stopped = FALSE /\ q.toClient = s.toClient
  <2>1. OneAt(q.toClient, a, Ack) /\ a <= Len(q.toClient)
    BY <1>2, <1>4
  <2>2. NewsTrue(q, q.toClient, a, FALSE)
    BY <1>3, <1>4 DEF NewsTrue
  <2> QED BY <1>1, <2>1, <2>2
<1>5. CASE q.stopped = TRUE /\ q.pc \in q.bkpt /\ q.toClient = Append(s.toClient, <<"S05">>)
  <2>1. PICK r \in Reply : r = <<"S05">>
    BY RepliesDiffer
  <2>2. IsStopReply(r) /\ r # Ack /\ r # Nak /\ r[1] = "S05"
    BY <2>1, RepliesDiffer
  <2>3. Appends(q.toClient, s.toClient, r)
    BY <1>2, <1>5, <2>1, Appended
  <2>4. NewsIs(q, r, FALSE)
    BY <1>5, <2>2 DEF NewsIs
  <2>5. HasNews(q.toClient, a)
    BY <1>2, <1>a, <2>2, <2>3, NewsMore
  <2>6. NewsSay(q, q.toClient, a, FALSE)
    BY <1>2, <1>3, <1>5, <2>3, <2>4, NewsSaid
  <2>7. OneAt(q.toClient, a, Ack)
    BY <1>2, <2>2, <2>3, OneMore
  <2>8. a <= Len(q.toClient)
    BY <1>2, <2>3 DEF Appends
  <2> QED BY <1>1, <2>5, <2>6, <2>7, <2>8 DEF NewsTrue
<1> QED BY <1>4, <1>5 DEF SetOff

LEMMA ResumesDone ==
    ASSUME DebuggerConstants, NEW s, NEW a, Ready(s, a), NEW cmd \in Commands, NEW n \in Nat,
           cmd[1] \in {"c", "vCont;c", "vCont;s"}
    PROVE  Done(s, processGDBMessage(s, cmd, n), cmd, a)
<1>1. /\ s \in ServerType /\ Ticking(s) /\ s.stopped = TRUE /\ s.timeouts = 0 /\ s.executeTimer = FALSE
      /\ s.toClient \in Seq(Reply) /\ a \in Nat /\ Len(s.toClient) = a /\ OneAt(s.toClient, a, Ack)
      /\ cmd \in Resuming
  BY Kinds DEF Ready, ServerType, Ticking
<1>a. a <= Len(s.toClient)
  BY ReadyFacts, Zenon
<1>2. PICK e : e = execute(s, n)
  OBVIOUS
<1>3. ensureExecuting(s, n) = e
  BY <1>1, <1>2 DEF ensureExecuting
<1>4. SetOff(s, e)
  BY <1>1, <1>2, ExecuteFacts
<1>5. /\ e \in ServerType /\ Ticking(e) /\ Kept(s, e) /\ e.toClient \in Seq(Reply)
      /\ OneAt(e.toClient, a, Ack) /\ a <= Len(e.toClient) /\ NewsTrue(e, e.toClient, a, FALSE)
  <2>1. /\ e \in ServerType /\ Ticking(e) /\ Kept(s, e)
        /\ OneAt(e.toClient, a, Ack) /\ a <= Len(e.toClient) /\ NewsTrue(e, e.toClient, a, FALSE)
    BY <1>4, SetOffDone
  <2>2. e.toClient \in Seq(Reply)
    BY <2>1 DEF ServerType
  <2> QED BY <2>1, <2>2
<1>6. CASE cmd[1] = "vCont;c"
  <2>1. processGDBMessage(s, cmd, n) = e
    BY <1>3, <1>6 DEF processGDBMessage
  <2>2. Outcome(e, cmd, a)
    BY <1>1, <1>5 DEF Outcome
  <2> QED BY <1>5, <2>1, <2>2 DEF Done
<1>7. CASE cmd[1] = "c"
  <2>1. PICK q : q = respond(e, <<"OK">>)
    OBVIOUS
  <2>2. processGDBMessage(s, cmd, n) = q
    BY <1>3, <1>7, <2>1 DEF processGDBMessage
  <2>3. <<"OK">> \in Reply /\ <<"OK">> # Ack /\ <<"OK">> # Nak /\ ~IsStopReply(<<"OK">>)
    BY RepliesDiffer
  <2>4. /\ q \in ServerType /\ q.toClient = Append(e.toClient, <<"OK">>)
        /\ q.stopped = e.stopped /\ q.executeTimer = e.executeTimer
        /\ q.timeouts = e.timeouts /\ q.pc = e.pc /\ q.bkpt = e.bkpt
        /\ q.buf = e.buf /\ q.reading = e.reading /\ q.taken = e.taken
    BY <1>5, <2>1, <2>3, RespondFacts
  <2>5. Ticking(q) /\ Kept(s, q)
    BY <1>5, <2>4 DEF Ticking, Kept
  <2>6. Appends(q.toClient, e.toClient, <<"OK">>)
    BY <1>5, <2>3, <2>4, Appended
  <2>7. OneAt(q.toClient, a, Ack)
    BY <1>1, <1>5, <2>3, <2>6, OneMore
  <2>8. NewsSay(q, e.toClient, a, FALSE)
    BY <1>5, <2>4 DEF NewsTrue, NewsSay, NewsIs
  <2>9. NewsSay(q, q.toClient, a, FALSE) /\ (HasNews(e.toClient, a) => HasNews(q.toClient, a))
    <3>1. NewsSay(q, q.toClient, a, FALSE)
      BY <1>1, <2>3, <2>6, <2>8, NewsSaid
    <3>2. HasNews(e.toClient, a) => HasNews(q.toClient, a)
      BY <1>1, <1>5, <2>6, NewsMore
    <3> QED BY <3>1, <3>2
  <2>10. Outcome(q, cmd, a)
    BY <1>1, <1>5, <2>4, <2>9 DEF Outcome, NewsTrue
  <2> QED BY <2>2, <2>4, <2>5, <2>7, <2>10 DEF Done
<1>8. CASE cmd[1] = "vCont;s"
  <2>1. PICK t : t = instructions(s, 1)
    OBVIOUS
  <2>2. Ran(s, t)
    BY <1>1, <2>1, InstructionsFacts
  <2>3. /\ t \in ServerType /\ t.stopped = TRUE /\ t.executeTimer = FALSE /\ t.timeouts = 0
        /\ Kept(s, t) /\ t.pc \in Addr /\ t.toClient \in Seq(Reply)
    BY <1>1, <2>2 DEF Ran, Kept, ServerType
  <2>4. OneAt(t.toClient, a, Ack) /\ a <= Len(t.toClient) /\ NewsSay(t, t.toClient, a, FALSE)
    <3>1. NewsSay(t, s.toClient, a, FALSE)
      BY <1>1, NoneYet
    <3>2. CASE t.toClient = s.toClient
      BY <1>1, <1>a, <3>1, <3>2
    <3>3. CASE t.toClient = Append(s.toClient, <<"S05">>) /\ t.pc \in t.bkpt
      <4>1. PICK r \in Reply : r = <<"S05">>
        BY RepliesDiffer
      <4>2. IsStopReply(r) /\ r # Ack /\ r # Nak /\ r[1] = "S05"
        BY <4>1, RepliesDiffer
      <4>3. Appends(t.toClient, s.toClient, r)
        BY <1>1, <3>3, <4>1, Appended
      <4>4. NewsIs(t, r, FALSE)
        BY <3>3, <4>2 DEF NewsIs
      <4>5. NewsSay(t, t.toClient, a, FALSE)
        BY <1>1, <2>3, <3>1, <4>3, <4>4, NewsSaid
      <4>6. OneAt(t.toClient, a, Ack)
        BY <1>1, <4>2, <4>3, OneMore
      <4>7. a <= Len(t.toClient)
        BY <1>1, <1>a, <4>3, NewsMore
      <4> QED BY <4>5, <4>6, <4>7
    <3> QED BY <2>2, <3>2, <3>3 DEF Ran
  <2>5. PICK r : r = <<"T05", t.pc>>
    OBVIOUS
  <2>6. r \in Reply /\ r # Ack /\ r # Nak /\ IsStopReply(r) /\ r[1] = "T05" /\ r[2] = t.pc
    BY <2>3, <2>5, RepliesDiffer DEF Reply
  <2>7. PICK q : q = respond(t, r)
    OBVIOUS
  <2>8. processGDBMessage(s, cmd, n) = q
    BY <1>8, <2>1, <2>5, <2>7 DEF processGDBMessage
  <2>9. /\ q \in ServerType /\ q.toClient = Append(t.toClient, r)
        /\ q.stopped = t.stopped /\ q.executeTimer = t.executeTimer
        /\ q.timeouts = t.timeouts /\ q.pc = t.pc /\ q.bkpt = t.bkpt
        /\ q.buf = t.buf /\ q.reading = t.reading /\ q.taken = t.taken
    BY <2>3, <2>6, <2>7, RespondFacts
  <2>10. Ticking(q) /\ Kept(s, q)
    BY <2>3, <2>9 DEF Ticking, Kept
  <2>11. Appends(q.toClient, t.toClient, r)
    BY <2>3, <2>6, <2>9, Appended
  <2>12. OneAt(q.toClient, a, Ack)
    BY <1>1, <2>4, <2>6, <2>11, OneMore
  <2>13. NewsIs(q, r, FALSE) /\ NewsSay(q, t.toClient, a, FALSE)
    <3>1. NewsIs(q, r, FALSE)
      BY <2>6, <2>9 DEF NewsIs
    <3>2. NewsSay(q, t.toClient, a, FALSE)
      BY <2>4, <2>9 DEF NewsSay, NewsIs
    <3> QED BY <3>1, <3>2
  <2>14. NewsSay(q, q.toClient, a, FALSE) /\ HasNews(q.toClient, a)
    <3>1. NewsSay(q, q.toClient, a, FALSE)
      BY <1>1, <2>3, <2>9, <2>11, <2>13, NewsSaid
    <3>2. HasNews(q.toClient, a)
      BY <1>1, <2>4, <2>6, <2>11, NewsMore
    <3> QED BY <3>1, <3>2
  <2>15. Outcome(q, cmd, a)
    BY <1>1, <2>14 DEF Outcome, NewsTrue
  <2> QED BY <2>8, <2>9, <2>10, <2>12, <2>15 DEF Done
<1> QED BY <1>6, <1>7, <1>8

LEMMA CommandDone ==
    ASSUME DebuggerConstants, NEW s, NEW a, Ready(s, a), NEW cmd \in Commands, NEW n \in Nat
    PROVE  Done(s, processGDBMessage(s, cmd, n), cmd, a)
BY AnswersDone, ResumesDone, Kinds

-----------------------------------------------------------------------------
(* Steps that leave the target alone.                                         *)

Agree(s, t) == t.stopped = s.stopped /\ t.taken = s.taken /\ t.pc = s.pc /\ t.bkpt = s.bkpt

LEMMA AgreeFacts ==
    ASSUME NEW s, NEW t, Agree(s, t)
    PROVE  /\ \A cmd, r : AnswerFits(s, cmd, r) => AnswerFits(t, cmd, r)
           /\ \A q, a, broken : NewsTrue(s, q, a, broken) => NewsTrue(t, q, a, broken)
           /\ \A cmd, a : t.toClient = s.toClient /\ Outcome(s, cmd, a) => Outcome(t, cmd, a)
<1>1. ASSUME NEW cmd, NEW r, AnswerFits(s, cmd, r) PROVE AnswerFits(t, cmd, r)
  BY <1>1 DEF AnswerFits, Agree
<1>2. ASSUME NEW q, NEW a, NEW broken, NewsTrue(s, q, a, broken) PROVE NewsTrue(t, q, a, broken)
  <2>1. \A r : NewsIs(s, r, broken) => NewsIs(t, r, broken)
    BY DEF NewsIs, Agree
  <2> QED BY <1>2, <2>1 DEF NewsTrue, NewsSay, Agree
<1>3. ASSUME NEW cmd, NEW a, t.toClient = s.toClient, Outcome(s, cmd, a) PROVE Outcome(t, cmd, a)
  BY <1>1, <1>2, <1>3 DEF Outcome, Agree
<1> QED BY <1>1, <1>2, <1>3

LEMMA PhaseKept ==
    ASSUME NEW s, NEW g, NEW w, NEW t, NEW v, Agree(s, t), t.toClient = s.toClient,
           Passed(s, w) => Passed(t, v), NoBreak(w) => NoBreak(v),
           \A k \in Nat : WholeAt(s.buf \o w, k, g.cmd) => \E j \in Nat : WholeAt(t.buf \o v, j, g.cmd),
           Phase(s, g, w)
    PROVE  Phase(t, g, v)
<1>1. t.stopped = s.stopped /\ t.taken = s.taken
  BY DEF Agree
<1>2. CASE Idle(s, g, w)
  BY <1>1, <1>2 DEF Idle, Phase
<1>3. CASE Sent(s, g, w)
  BY <1>1, <1>3 DEF Sent, Phase
<1>4. CASE Refused(s, g, w)
  BY <1>1, <1>4 DEF Refused, Phase
<1>5. CASE Taken(s, g, w)
  <2>1. PICK a \in Nat : OneAt(s.toClient, a, Ack) /\ Outcome(s, g.cmd, a)
    BY <1>5 DEF Taken
  <2>2. OneAt(t.toClient, a, Ack) /\ Outcome(t, g.cmd, a)
    BY <2>1, AgreeFacts
  <2>3. Taken(t, g, v)
    BY <1>1, <1>5, <2>2 DEF Taken
  <2> QED BY <2>3 DEF Phase
<1>6. CASE Answering(s, g, w)
  <2>1. AnswerFits(t, g.cmd, t.toClient[1])
    BY <1>6, AgreeFacts DEF Answering
  <2>2. Answering(t, g, v)
    BY <1>1, <1>6, <2>1 DEF Answering
  <2> QED BY <2>2 DEF Phase
<1>7. CASE Awaiting(s, g, w)
  <2>1. NewsTrue(t, t.toClient, 0, g.waits = "break")
    BY <1>7, AgreeFacts DEF Awaiting
  <2>2. Awaiting(t, g, v)
    BY <1>1, <1>7, <2>1 DEF Awaiting
  <2> QED BY <2>2 DEF Phase
<1> QED BY <1>2, <1>3, <1>4, <1>5, <1>6, <1>7 DEF Phase

\* A chunk goes from the stream to the buffer.
Chunked(s, w, n, t, v) ==
    /\ n \in 1 .. Len(w) /\ v = SubSeq(w, n + 1, Len(w))
    /\ t = [[s EXCEPT !.reading = TRUE] EXCEPT !.buf = @ \o SubSeq(w, 1, n)]

LEMMA BufferFacts ==
    ASSUME NEW s \in ServerType, NEW f \in Seq(Symbol), NEW b \in BOOLEAN
    PROVE  LET t == [s EXCEPT !.reading = b, !.buf = f]
           IN  /\ t \in ServerType /\ t.buf = f /\ t.stopped = s.stopped /\ t.executeTimer = s.executeTimer
               /\ t.timeouts = s.timeouts /\ t.pc = s.pc /\ t.bkpt = s.bkpt
               /\ t.toClient = s.toClient /\ t.taken = s.taken
BY DEF ServerType

LEMMA ChunkKeeps ==
    ASSUME NEW s, NEW g, NEW w, DebuggerSound(s, g, w), NEW n, NEW t, NEW v, Chunked(s, w, n, t, v)
    PROVE  DebuggerSound(t, g, v)
<1>1. s \in ServerType /\ w \in Seq(Symbol) /\ s.buf \in Seq(Symbol) /\ n \in 0 .. Len(w)
  <2>1. s \in ServerType /\ w \in Seq(Symbol)
    BY DEF DebuggerSound
  <2>2. s.buf \in Seq(Symbol)
    BY <2>1 DEF ServerType
  <2>3. n \in 0 .. Len(w)
    BY <2>1 DEF Chunked
  <2> QED BY <2>1, <2>2, <2>3
<1>2. PICK data \in Seq(Symbol) : data = SubSeq(w, 1, n)
  BY <1>1, Cut
<1>3. v = SubSeq(w, n + 1, Len(w)) /\ v \in Seq(Symbol)
  BY <1>1, Cut DEF Chunked
<1>4. PICK f \in Seq(Symbol) : f = s.buf \o data
  BY <1>1, <1>2, Pieced
<1>5. t = [s EXCEPT !.reading = TRUE, !.buf = f]
  <2>1. t = [[s EXCEPT !.reading = TRUE] EXCEPT !.buf = @ \o data]
    BY <1>2 DEF Chunked
  <2>2. [s EXCEPT !.reading = TRUE].buf = s.buf
    BY <1>1 DEF ServerType
  <2> QED BY <2>1, <2>2, <1>4
<1>6. /\ t \in ServerType /\ t.buf = f /\ t.stopped = s.stopped /\ t.executeTimer = s.executeTimer
      /\ t.timeouts = s.timeouts /\ t.pc = s.pc /\ t.bkpt = s.bkpt
      /\ t.toClient = s.toClient /\ t.taken = s.taken
  BY <1>1, <1>5, BufferFacts
<1>7. f \o v = s.buf \o w
  BY <1>1, <1>2, <1>3, <1>4, Joined
<1>8. Passed(s, w) => Passed(t, v)
  <2>1. ASSUME NoDollar(s.buf), NoDollar(w) PROVE NoDollar(f) /\ NoDollar(v)
    <3>1. NoDollar(data) /\ NoDollar(v)
      BY <1>1, <1>2, <1>3, <2>1, QuietCut
    <3> QED BY <1>1, <1>2, <1>4, <2>1, <3>1, QuietPieces
  <2> QED BY <1>6, <2>1 DEF Passed
<1>9. NoBreak(w) => NoBreak(v)
  BY <1>1, <1>3, QuietCut
<1>10. Agree(s, t) /\ Ticking(t) /\ t.taken <= 1
  BY <1>6 DEF Agree, Ticking, DebuggerSound
<1>11. Phase(t, g, v)
  BY <1>6, <1>7, <1>8, <1>9, <1>10, PhaseKept DEF DebuggerSound
<1> QED BY <1>3, <1>6, <1>10, <1>11 DEF DebuggerSound

\* A chunk without its head.
LEMMA TailOfChunk ==
    ASSUME NEW f \in Seq(Symbol), NEW w \in Seq(Symbol), NEW n \in 1 .. Len(w)
    PROVE  /\ Head(SubSeq(w, 1, n)) = w[1] /\ Tail(SubSeq(w, 1, n)) \in Seq(Symbol)
           /\ (f \o Tail(SubSeq(w, 1, n))) \o SubSeq(w, n + 1, Len(w)) = f \o Tail(w)
<1>1. PICK data : data = SubSeq(w, 1, n)
  OBVIOUS
<1>2. PICK v : v = SubSeq(w, n + 1, Len(w))
  OBVIOUS
<1>3. n \in 0 .. Len(w) /\ Len(w) \in Nat \ {0} /\ w # <<>>
  OBVIOUS
<1>4. data \in Seq(Symbol) /\ Keeps(data, w, n) /\ v \in Seq(Symbol) /\ Drops(v, w, n)
  BY <1>1, <1>2, <1>3, Cut
<1>5. data # <<>> /\ data[1] = w[1]
  BY <1>3, <1>4 DEF Keeps
<1>6. PICK x : x = Tail(data)
  OBVIOUS
<1>7. x \in Seq(Symbol) /\ Drops(x, data, 1) /\ Head(data) = data[1]
  BY <1>4, <1>5, <1>6, Rest
<1>8. PICK y : y = Tail(w)
  OBVIOUS
<1>9. y \in Seq(Symbol) /\ Drops(y, w, 1)
  BY <1>3, <1>8, Rest
<1>10. /\ Len(data) = n /\ Len(x) = n - 1 /\ Len(y) = Len(w) - 1 /\ Len(v) = Len(w) - n
       /\ n - 1 \in 0 .. Len(y)
  BY <1>3, <1>4, <1>7, <1>9 DEF Keeps, Drops
<1>11. PICK front : front = SubSeq(y, 1, n - 1)
  OBVIOUS
<1>12. PICK back : back = SubSeq(y, (n - 1) + 1, Len(y))
  OBVIOUS
<1>13. front \in Seq(Symbol) /\ Keeps(front, y, n - 1) /\ back \in Seq(Symbol) /\ Drops(back, y, n - 1)
  BY <1>9, <1>10, <1>11, <1>12, Cut
<1>14. x = front
  <2>1. Len(front) = n - 1
    BY <1>13 DEF Keeps
  <2>2. \A i \in 1 .. n - 1 : i \in 1 .. n /\ 1 + i \in 1 .. n /\ i \in 1 .. Len(w) - 1
    BY <1>3
  <2>3. \A i \in 1 .. n - 1 : x[i] = data[1 + i] /\ data[1 + i] = w[1 + i]
    BY <1>4, <1>7, <1>10, <2>2 DEF Drops, Keeps
  <2>4. \A i \in 1 .. n - 1 : front[i] = y[i] /\ y[i] = w[1 + i]
    BY <1>9, <1>10, <1>13, <2>2 DEF Drops, Keeps
  <2>5. \A i \in 1 .. n - 1 : x[i] = front[i]
    BY <2>3, <2>4
  <2> QED BY <1>7, <1>10, <1>13, <2>1, <2>5
<1>15. v = back
  <2>1. Len(back) = Len(w) - n
    BY <1>3, <1>10, <1>13 DEF Drops
  <2>2. \A i \in 1 .. Len(w) - n :
            /\ (n - 1) + i \in 1 .. Len(w) - 1 /\ i \in 1 .. Len(y) - (n - 1)
            /\ 1 + ((n - 1) + i) = n + i
    BY <1>3, <1>10
  <2>3. \A i \in 1 .. Len(w) - n : back[i] = y[(n - 1) + i]
    BY <1>13, <2>2 DEF Drops
  <2>4. \A i \in 1 .. Len(w) - 1 : y[i] = w[1 + i]
    BY <1>9 DEF Drops
  <2>5. \A i \in 1 .. Len(w) - n : v[i] = w[n + i]
    BY <1>4 DEF Drops
  <2>6. \A i \in 1 .. Len(w) - n : v[i] = back[i]
    <3> SUFFICES ASSUME NEW i \in 1 .. Len(w) - n PROVE v[i] = back[i]
      OBVIOUS
    <3>1. back[i] = y[(n - 1) + i] /\ (n - 1) + i \in 1 .. Len(w) - 1 /\ 1 + ((n - 1) + i) = n + i
      BY <2>2, <2>3
    <3>2. y[(n - 1) + i] = w[1 + ((n - 1) + i)]
      BY <2>4, <3>1
    <3> QED BY <2>5, <3>1, <3>2
  <2>7. Len(v) = Len(back) /\ Len(v) = Len(w) - n
    BY <1>10, <2>1
  <2>8. \A i \in 1 .. Len(v) : v[i] = back[i]
    BY <2>6, <2>7
  <2> QED BY <1>4, <1>13, <2>7, <2>8, SeqEqual
<1>16. (f \o front) \o back = f \o y
  BY <1>9, <1>10, <1>11, <1>12, Joined
<1> QED BY <1>1, <1>2, <1>5, <1>6, <1>7, <1>8, <1>14, <1>15, <1>16

\* The same, where its head was a break.
Broken(s, w, n, t, v) ==
    /\ n \in 1 .. Len(w) /\ v = SubSeq(w, n + 1, Len(w)) /\ Head(SubSeq(w, 1, n)) = Break
    /\ t = respond(stop([[s EXCEPT !.reading = TRUE] EXCEPT !.buf = @ \o Tail(SubSeq(w, 1, n))]), <<"S02">>)

LEMMA BrokenFacts ==
    ASSUME NEW s, NEW g, NEW w, DebuggerSound(s, g, w), NEW n, NEW t, NEW v, Broken(s, w, n, t, v)
    PROVE  /\ t \in ServerType /\ Ticking(t) /\ t.stopped = TRUE /\ t.taken = s.taken
           /\ t.pc = s.pc /\ t.bkpt = s.bkpt /\ t.toClient = Append(s.toClient, <<"S02">>)
           /\ v \in Seq(Symbol) /\ w[1] = Break /\ Len(w) >= 1
           /\ t.buf \o v = s.buf \o Tail(w) /\ (Passed(s, w) => Passed(t, v))
<1>1. /\ s \in ServerType /\ w \in Seq(Symbol) /\ s.buf \in Seq(Symbol) /\ Ticking(s)
      /\ s.stopped \in BOOLEAN /\ n \in 1 .. Len(w) /\ n \in 0 .. Len(w)
  <2>1. s \in ServerType /\ w \in Seq(Symbol) /\ Ticking(s)
    BY DEF DebuggerSound
  <2>2. s.buf \in Seq(Symbol) /\ s.stopped \in BOOLEAN
    BY <2>1 DEF ServerType
  <2>3. n \in 1 .. Len(w) /\ n \in 0 .. Len(w)
    BY <2>1 DEF Broken
  <2> QED BY <2>1, <2>2, <2>3
<1>2. PICK data \in Seq(Symbol) : data = SubSeq(w, 1, n)
  BY <1>1, Cut
<1>3. v = SubSeq(w, n + 1, Len(w)) /\ v \in Seq(Symbol)
  BY <1>1, Cut DEF Broken
<1>4. Head(data) = w[1] /\ Tail(data) \in Seq(Symbol) /\ (s.buf \o Tail(data)) \o v = s.buf \o Tail(w)
  BY <1>1, <1>2, <1>3, TailOfChunk
<1>5. w[1] = Break /\ data # <<>> /\ Len(w) >= 1
  <2>1. Head(data) = Break
    BY <1>2 DEF Broken
  <2>2. Keeps(data, w, n)
    BY <1>1, <1>2, Cut
  <2> QED BY <1>1, <1>4, <2>1, <2>2 DEF Keeps
<1>6. PICK x \in Seq(Symbol) : x = Tail(data)
  BY <1>4
<1>7. PICK f \in Seq(Symbol) : f = s.buf \o x
  BY <1>1, Pieced
<1>8. PICK b : b = [s EXCEPT !.reading = TRUE, !.buf = f]
  OBVIOUS
<1>9. t = respond(stop(b), <<"S02">>)
  <2>1. t = respond(stop([[s EXCEPT !.reading = TRUE] EXCEPT !.buf = @ \o x]), <<"S02">>)
    BY <1>2, <1>6 DEF Broken
  <2>2. [s EXCEPT !.reading = TRUE].buf = s.buf
    BY <1>1 DEF ServerType
  <2>3. [[s EXCEPT !.reading = TRUE] EXCEPT !.buf = @ \o x] = b
    BY <1>7, <1>8, <2>2
  <2> QED BY <2>1, <2>3
<1>10. /\ b \in ServerType /\ b.buf = f /\ b.stopped = s.stopped /\ b.executeTimer = s.executeTimer
       /\ b.timeouts = s.timeouts /\ b.pc = s.pc /\ b.bkpt = s.bkpt
       /\ b.toClient = s.toClient /\ b.taken = s.taken
  BY <1>1, <1>8, BufferFacts
<1>11. PICK q : q = stop(b)
  OBVIOUS
<1>12. s.executeTimer = TRUE => s.timeouts = 1
  BY <1>1 DEF Ticking
<1>13. /\ q \in ServerType /\ q.stopped = TRUE /\ q.executeTimer = FALSE
       /\ q.timeouts = IF b.executeTimer THEN 0 ELSE b.timeouts
       /\ q.pc = b.pc /\ q.bkpt = b.bkpt /\ q.toClient = b.toClient
       /\ q.buf = b.buf /\ q.reading = b.reading /\ q.taken = b.taken
  BY <1>10, <1>11, <1>12, StopFacts
<1>14. q.timeouts = 0
  BY <1>1, <1>10, <1>13 DEF Ticking
<1>15. /\ t \in ServerType /\ t.toClient = Append(q.toClient, <<"S02">>)
       /\ t.stopped = q.stopped /\ t.executeTimer = q.executeTimer
       /\ t.timeouts = q.timeouts /\ t.pc = q.pc /\ t.bkpt = q.bkpt
       /\ t.buf = q.buf /\ t.reading = q.reading /\ t.taken = q.taken
  <2>1. <<"S02">> \in Reply
    BY RepliesDiffer
  <2> QED BY <1>9, <1>11, <1>13, <2>1, RespondFacts
<1>16. Ticking(t)
  BY <1>13, <1>14, <1>15 DEF Ticking
<1>17. ASSUME NoDollar(s.buf), NoDollar(w) PROVE NoDollar(f) /\ NoDollar(v)
  <2>1. NoDollar(data) /\ NoDollar(v)
    BY <1>1, <1>2, <1>3, <1>17, QuietCut
  <2>2. Drops(x, data, 1)
    BY <1>5, <1>6, Rest
  <2>3. NoDollar(x)
    <3>1. \A i \in 1 .. Len(x) : 1 + i \in 1 .. Len(data) /\ x[i] = data[1 + i]
      BY <2>2 DEF Drops
    <3> QED BY <2>1, <3>1 DEF NoDollar
  <2> QED BY <1>1, <1>7, <1>17, <2>1, <2>3, QuietPieces
<1>18. t.buf = f /\ (Passed(s, w) => Passed(t, v))
  BY <1>10, <1>13, <1>15, <1>17 DEF Passed
<1>19. t.buf \o v = s.buf \o Tail(w)
  BY <1>4, <1>6, <1>7, <1>18
<1>20. /\ t.stopped = TRUE /\ t.taken = s.taken /\ t.pc = s.pc /\ t.bkpt = s.bkpt
       /\ t.toClient = Append(s.toClient, <<"S02">>)
  BY <1>10, <1>13, <1>15
<1> QED BY <1>3, <1>5, <1>15, <1>16, <1>18, <1>19, <1>20

LEMMA BrokenKeeps ==
    ASSUME NEW s, NEW g, NEW w, DebuggerSound(s, g, w), NEW n, NEW t, NEW v, Broken(s, w, n, t, v)
    PROVE  DebuggerSound(t, g, v)
<1>1. /\ t \in ServerType /\ Ticking(t) /\ t.stopped = TRUE /\ t.taken = s.taken
      /\ t.pc = s.pc /\ t.bkpt = s.bkpt /\ t.toClient = Append(s.toClient, <<"S02">>)
      /\ v \in Seq(Symbol) /\ w[1] = Break /\ Len(w) >= 1
      /\ t.buf \o v = s.buf \o Tail(w) /\ (Passed(s, w) => Passed(t, v))
  BY BrokenFacts
<1>2. /\ s \in ServerType /\ g \in GdbType /\ w \in Seq(Symbol) /\ s.taken <= 1 /\ Phase(s, g, w)
      /\ s.buf \in Seq(Symbol) /\ s.toClient \in Seq(Reply) /\ g.cmd \in Commands
  BY DEF DebuggerSound, ServerType, GdbType
<1>3. ~NoBreak(w) /\ w # <<>>
  BY <1>1, <1>2 DEF NoBreak
<1>4. PICK r \in Reply : r = <<"S02">>
  BY RepliesDiffer
<1>5. r # Ack /\ r # Nak /\ IsStopReply(r) /\ r[1] = "S02"
  BY <1>4, RepliesDiffer
<1>6. Appends(t.toClient, s.toClient, r)
  BY <1>1, <1>2, <1>4, Appended
<1> SUFFICES Phase(t, g, v)
  BY <1>1, <1>2 DEF DebuggerSound
<1>7. CASE Idle(s, g, w)
  <2>1. Packets(t.toClient)
    BY <1>5, <1>6, <1>7, OneMore DEF Idle
  <2>2. Idle(t, g, v)
    BY <1>1, <1>7, <2>1 DEF Idle
  <2> QED BY <2>2 DEF Phase
<1>8. CASE Sent(s, g, w)
  <2>1. Packets(t.toClient)
    BY <1>5, <1>6, <1>8, OneMore DEF Sent
  <2>2. PICK k \in Nat : WholeAt(s.buf \o w, k, g.cmd)
    BY <1>8 DEF Sent
  <2>3. PICK d \in Seq(Symbol) : d = s.buf \o w
    BY <1>2, Pieced
  <2>4. PICK e : e = s.buf \o Tail(w)
    OBVIOUS
  <2>5. Without(d, e, Len(s.buf) + 1)
    BY <1>2, <1>3, <2>3, <2>4, HeadDropped
  <2>6. d[Len(s.buf) + 1] = Break
    <3>1. Joins(d, s.buf, w)
      BY <1>2, <2>3, Pieced
    <3> QED BY <1>1, <3>1 DEF Joins
  <2>7. k - 1 \in Nat /\ WholeAt(e, k - 1, g.cmd)
    BY <1>2, <2>2, <2>3, <2>5, <2>6, BreakPassed
  <2>8. \E j \in Nat : WholeAt(t.buf \o v, j, g.cmd)
    BY <1>1, <2>4, <2>7
  <2>9. Sent(t, g, v)
    BY <1>1, <1>8, <2>1, <2>8 DEF Sent
  <2> QED BY <2>9 DEF Phase
<1>9. CASE Refused(s, g, w)
  <2>1. PICK a \in Nat : OneAt(s.toClient, a, Nak)
    BY <1>9 DEF Refused
  <2>2. OneAt(t.toClient, a, Nak)
    BY <1>5, <1>6, <2>1, OneMore
  <2>3. Refused(t, g, v)
    BY <1>1, <1>9, <2>2 DEF Refused
  <2> QED BY <2>3 DEF Phase
<1>10. CASE Taken(s, g, w)
  BY <1>3, <1>10 DEF Taken
<1>11. CASE Answering(s, g, w)
  BY <1>3, <1>11 DEF Answering
<1>12. CASE Awaiting(s, g, w)
  <2>1. /\ g.waits = "break" /\ s.taken = 1 /\ Passed(s, w) /\ Packets(s.toClient)
        /\ NewsTrue(s, s.toClient, 0, g.waits = "break")
    BY <1>3, <1>12 DEF Awaiting
  <2>2. PICK b \in BOOLEAN : b = (g.waits = "break") /\ b = TRUE
    BY <2>1
  <2>3. Packets(t.toClient)
    BY <1>5, <1>6, <2>1, OneMore
  <2>4. NewsSay(s, s.toClient, 0, b)
    BY <2>1, <2>2 DEF NewsTrue
  <2>5. NewsSay(t, s.toClient, 0, b)
    BY <1>1, <2>4 DEF NewsSay, NewsIs
  <2>6. NewsIs(t, r, b)
    BY <1>5, <2>2 DEF NewsIs
  <2>7. NewsSay(t, t.toClient, 0, b)
    BY <1>1, <1>6, <2>5, <2>6, NewsSaid
  <2>8. HasNews(t.toClient, 0)
    <3>1. 0 <= Len(s.toClient)
      BY <1>2
    <3> QED BY <1>5, <1>6, <3>1, NewsMore
  <2>9. NewsTrue(t, t.toClient, 0, g.waits = "break")
    BY <2>2, <2>7, <2>8 DEF NewsTrue
  <2>10. Awaiting(t, g, v)
    BY <1>1, <2>1, <2>3, <2>9 DEF Awaiting
  <2> QED BY <2>10 DEF Phase
<1> QED BY <1>2, <1>7, <1>8, <1>9, <1>10, <1>11, <1>12 DEF Phase

\* A command's packet is behind place m.
Ahead(s, g, w, m) == \A k \in Nat : WholeAt(s.buf \o w, k, g.cmd) => m < k

\* The end of a turn: what is in front of the packet is dropped.
Dropped(s, m, t) ==
    /\ m \in 0 .. Len(s.buf)
    /\ t = [s EXCEPT !.reading = FALSE, !.buf = SubSeq(s.buf, m + 1, Len(s.buf))]

LEMMA DropKeeps ==
    ASSUME NEW s, NEW g, NEW w, DebuggerSound(s, g, w), NEW m, NEW t, Ahead(s, g, w, m), Dropped(s, m, t)
    PROVE  DebuggerSound(t, g, w)
<1>1. /\ s \in ServerType /\ w \in Seq(Symbol) /\ s.buf \in Seq(Symbol) /\ m \in 0 .. Len(s.buf)
      /\ Ticking(s) /\ s.taken <= 1 /\ Phase(s, g, w) /\ g \in GdbType
  BY DEF DebuggerSound, ServerType, Dropped
<1>2. PICK f \in Seq(Symbol) : f = SubSeq(s.buf, m + 1, Len(s.buf))
  BY <1>1, Cut
<1>3. t = [s EXCEPT !.reading = FALSE, !.buf = f]
  BY <1>2 DEF Dropped
<1>4. /\ t \in ServerType /\ t.buf = f /\ t.stopped = s.stopped /\ t.executeTimer = s.executeTimer
      /\ t.timeouts = s.timeouts /\ t.pc = s.pc /\ t.bkpt = s.bkpt
      /\ t.toClient = s.toClient /\ t.taken = s.taken
  BY <1>1, <1>3, BufferFacts
<1>5. Passed(s, w) => Passed(t, w)
  BY <1>1, <1>2, <1>4, QuietCut DEF Passed
<1>6. Agree(s, t) /\ Ticking(t) /\ t.taken <= 1
  BY <1>1, <1>4 DEF Agree, Ticking
<1>7. ASSUME NEW k \in Nat, WholeAt(s.buf \o w, k, g.cmd) PROVE \E j \in Nat : WholeAt(t.buf \o w, j, g.cmd)
  <2>1. PICK d \in Seq(Symbol) : d = s.buf \o w
    BY <1>1, Pieced
  <2>2. PICK e : e = f \o w
    OBVIOUS
  <2>3. Drops(e, d, m)
    BY <1>1, <1>2, <2>1, <2>2, FrontDropped
  <2>4. m < k /\ WholeAt(d, k, g.cmd)
    BY <1>7, <2>1 DEF Ahead
  <2>5. k - m \in Nat /\ WholeAt(e, k - m, g.cmd)
    BY <2>3, <2>4, DroppedWhole
  <2> QED BY <1>4, <2>2, <2>5
<1>8. \A k \in Nat : WholeAt(s.buf \o w, k, g.cmd) => \E j \in Nat : WholeAt(t.buf \o w, j, g.cmd)
  BY <1>7
<1>9. NoBreak(w) => NoBreak(w)
  OBVIOUS
<1>10. t.toClient = s.toClient
  BY <1>4
<1>11. Phase(t, g, w)
  BY <1>1, <1>5, <1>6, <1>8, <1>9, <1>10, PhaseKept, Zenon
<1> QED BY <1>1, <1>4, <1>6, <1>11 DEF DebuggerSound

LEMMA FeedDoneKeeps == ASSUME DebuggerInv, FeedDone PROVE DebuggerInv'
<1>1. /\ server \in ServerType /\ toServer \in Seq(Symbol) /\ server.buf \in Seq(Symbol)
      /\ gdb.cmd \in Commands /\ DebuggerSound(server, gdb, toServer)
  BY DEF DebuggerInv, DebuggerSound, ServerType, GdbType
<1>2. PICK m : m = (IF dolla = 0 THEN Len(server.buf) ELSE dolla - 1)
  OBVIOUS
<1>3. \/ dolla = 0 /\ NoDollar(server.buf)
      \/ dolla \in 1 .. Len(server.buf)
  BY <1>1, DollaFacts
<1>4. m \in 0 .. Len(server.buf)
  BY <1>1, <1>2, <1>3
<1>5. Dropped(server, m, server')
  <2>1. server' = [server EXCEPT !.reading = FALSE, !.buf = IF dolla = 0 THEN <<>> ELSE SubSeq(@, dolla, Len(@))]
    BY DEF FeedDone
  <2>2. SubSeq(server.buf, m + 1, Len(server.buf)) = IF dolla = 0 THEN <<>> ELSE SubSeq(server.buf, dolla, Len(server.buf))
    <3>1. CASE dolla = 0
      <4>1. m = Len(server.buf)
        BY <3>1, <1>2
      <4>2. SubSeq(server.buf, Len(server.buf) + 1, Len(server.buf)) = <<>>
        BY <1>1
      <4> QED BY <3>1, <4>1, <4>2
    <3>2. CASE dolla # 0
      <4>1. m + 1 = dolla
        BY <3>2, <1>1, <1>2, <1>3
      <4> QED BY <3>2, <4>1
    <3> QED BY <3>1, <3>2
  <2> QED BY <1>4, <2>1, <2>2 DEF Dropped
<1>6. Ahead(server, gdb, toServer, m)
  <2> SUFFICES ASSUME NEW k \in Nat, WholeAt(server.buf \o toServer, k, gdb.cmd) PROVE m < k
    BY DEF Ahead
  <2>1. /\ dolla = 0 => Len(server.buf) < k
        /\ dolla # 0 => dolla = k
    BY <1>1, PacketRead
  <2> QED BY <1>2, <2>1
<1>7. DebuggerSound(server', gdb, toServer)
  BY <1>1, <1>5, <1>6, DropKeeps
<1> QED BY <1>7 DEF FeedDone, DebuggerInv

LEMMA ChunkStep == ASSUME DebuggerInv, Chunk PROVE DebuggerInv'
<1>1. PICK n \in 1 .. Len(toServer) : feedData(n)
  BY DEF Chunk
<1>2. gdb' = gdb /\ toServer' = SubSeq(toServer, n + 1, Len(toServer))
  BY <1>1 DEF feedData
<1>3. CASE Head(SubSeq(toServer, 1, n)) = Break
  <2>1. server' = respond(stop([[server EXCEPT !.reading = TRUE] EXCEPT !.buf = @ \o Tail(SubSeq(toServer, 1, n))]), <<"S02">>)
    BY <1>1, <1>3 DEF feedData
  <2>2. Broken(server, toServer, n, server', toServer')
    BY <1>2, <1>3, <2>1 DEF Broken
  <2>3. DebuggerSound(server', gdb, toServer')
    BY <2>2, BrokenKeeps DEF DebuggerInv
  <2> QED BY <1>2, <2>3 DEF DebuggerInv
<1>4. CASE Head(SubSeq(toServer, 1, n)) # Break
  <2>1. server' = [[server EXCEPT !.reading = TRUE] EXCEPT !.buf = @ \o SubSeq(toServer, 1, n)]
    BY <1>1, <1>4 DEF feedData
  <2>2. Chunked(server, toServer, n, server', toServer')
    BY <1>2, <2>1 DEF Chunked
  <2>3. DebuggerSound(server', gdb, toServer')
    BY <2>2, ChunkKeeps DEF DebuggerInv
  <2> QED BY <1>2, <2>3 DEF DebuggerInv
<1> QED BY <1>3, <1>4

\* The program set off leaves true news.
Tells(s, q) ==
    \/ q.stopped = FALSE /\ q.toClient = s.toClient
    \/ q.stopped = TRUE /\ q.pc \in q.bkpt /\ q.toClient = Append(s.toClient, <<"S05">>)

LEMMA SetOffTells ==
    ASSUME NEW s, s.stopped = FALSE, s.toClient \in Seq(Reply), NEW q, Tells(s, q), NEW a \in Nat, a <= Len(s.toClient),
           NEW broken, NewsTrue(s, s.toClient, a, broken)
    PROVE  NewsTrue(q, q.toClient, a, broken)
<1>1. NewsSay(q, s.toClient, a, broken)
  <2>1. \A i \in 1 .. Len(s.toClient) : ~(i > a /\ IsStopReply(s.toClient[i]))
    BY DEF NewsTrue, NewsSay
  <2> QED BY <2>1 DEF NewsSay
<1>2. CASE q.stopped = FALSE /\ q.toClient = s.toClient
  BY <1>1, <1>2 DEF NewsTrue
<1>3. CASE q.stopped = TRUE /\ q.pc \in q.bkpt /\ q.toClient = Append(s.toClient, <<"S05">>)
  <2>1. PICK r \in Reply : r = <<"S05">>
    BY RepliesDiffer
  <2>2. IsStopReply(r) /\ r[1] = "S05"
    BY <2>1, RepliesDiffer
  <2>3. Appends(q.toClient, s.toClient, r)
    BY <1>3, <2>1, Appended
  <2>4. NewsIs(q, r, broken)
    BY <1>3, <2>2 DEF NewsIs
  <2>5. NewsSay(q, q.toClient, a, broken)
    BY <1>1, <1>3, <2>3, <2>4, NewsSaid
  <2>6. HasNews(q.toClient, a)
    BY <2>2, <2>3, NewsMore
  <2> QED BY <2>5, <2>6 DEF NewsTrue
<1> QED BY <1>2, <1>3 DEF Tells

\* The callback's slice.
LEMMA ExecuteKeeps ==
    ASSUME NEW s, NEW g, NEW w, DebuggerSound(s, g, w), s.stopped = FALSE, NEW e, e.toClient = s.toClient, e.buf = s.buf,
           e.taken = s.taken, NEW q, SetOff(e, q)
    PROVE  DebuggerSound(q, g, w)
<1>1. /\ s \in ServerType /\ g \in GdbType /\ w \in Seq(Symbol) /\ s.taken <= 1 /\ Phase(s, g, w)
      /\ s.toClient \in Seq(Reply)
  BY DEF DebuggerSound, ServerType
<1>2. /\ q \in ServerType /\ Ticking(q) /\ q.buf = s.buf /\ q.taken = s.taken
  BY DEF SetOff
<1>3. Tells(s, q)
  BY DEF SetOff, Tells
<1>4. q.toClient = s.toClient \/ q.toClient = Append(s.toClient, <<"S05">>)
  BY <1>3 DEF Tells
<1>5. Passed(s, w) => Passed(q, w)
  BY <1>2 DEF Passed
<1> SUFFICES Phase(q, g, w)
  BY <1>1, <1>2 DEF DebuggerSound
<1>6. CASE Taken(s, g, w)
  <2>1. PICK a \in Nat : OneAt(s.toClient, a, Ack) /\ Outcome(s, g.cmd, a)
    BY <1>6 DEF Taken
  <2>2. g.cmd \in Resuming /\ NewsTrue(s, s.toClient, a, FALSE)
    BY <2>1 DEF Outcome
  <2>3. a <= Len(s.toClient)
    BY <1>1, <2>1 DEF OneAt
  <2>4. OneAt(q.toClient, a, Ack)
    <3>1. CASE q.toClient = s.toClient
      BY <3>1, <2>1
    <3>2. CASE q.toClient = Append(s.toClient, <<"S05">>)
      <4>1. PICK r \in Reply : r = <<"S05">>
        BY RepliesDiffer
      <4>2. r # Ack /\ r # Nak
        BY <4>1, RepliesDiffer
      <4>3. Appends(q.toClient, s.toClient, r)
        BY <1>1, <3>2, <4>1, Appended
      <4> QED BY <2>1, <4>2, <4>3, OneMore
    <3> QED BY <1>4, <3>1, <3>2
  <2>5. NewsTrue(q, q.toClient, a, FALSE)
    BY <1>1, <2>2, <2>3, <1>3, SetOffTells
  <2>6. Outcome(q, g.cmd, a)
    BY <2>2, <2>5 DEF Outcome
  <2>7. Taken(q, g, w)
    BY <1>2, <1>5, <1>6, <2>4, <2>6 DEF Taken
  <2> QED BY <2>7 DEF Phase
<1>7. CASE Awaiting(s, g, w)
  <2>1. PICK b : b = (g.waits = "break")
    OBVIOUS
  <2>2. NewsTrue(q, q.toClient, 0, b)
    <3>1. NewsTrue(s, s.toClient, 0, b) /\ 0 <= Len(s.toClient)
      BY <1>1, <1>7, <2>1 DEF Awaiting
    <3> QED BY <1>1, <3>1, <1>3, SetOffTells
  <2>3. Packets(q.toClient)
    <3>1. Packets(s.toClient)
      BY <1>7 DEF Awaiting
    <3>2. CASE q.toClient = s.toClient
      BY <3>1, <3>2
    <3>3. CASE q.toClient = Append(s.toClient, <<"S05">>)
      <4>1. PICK r \in Reply : r = <<"S05">>
        BY RepliesDiffer
      <4>2. r # Ack /\ r # Nak
        BY <4>1, RepliesDiffer
      <4>3. Appends(q.toClient, s.toClient, r)
        BY <1>1, <3>3, <4>1, Appended
      <4> QED BY <3>1, <4>2, <4>3, OneMore
    <3> QED BY <1>4, <3>2, <3>3
  <2>4. Awaiting(q, g, w)
    BY <1>2, <1>5, <1>7, <2>1, <2>2, <2>3 DEF Awaiting
  <2> QED BY <2>4 DEF Phase
<1> QED BY <1>1, <1>6, <1>7 DEF Phase, Idle, Sent, Refused, Answering

LEMMA ExecuteStep == ASSUME DebuggerConstants, DebuggerInv, ExecuteOn PROVE DebuggerInv'
<1>1. /\ server \in ServerType /\ Ticking(server) /\ server.timeouts > 0 /\ server.timeouts \in Nat
      /\ server.stopped \in BOOLEAN
  BY DEF DebuggerInv, DebuggerSound, ExecuteOn, ServerType
<1>2. server.stopped = FALSE /\ server.timeouts = 1
  BY <1>1 DEF Ticking
<1>3. PICK n \in 0 .. Slice : server' = execute([server EXCEPT !.timeouts = @ - 1], n)
  BY DEF ExecuteOn
<1>4. n \in Nat
  BY DEF DebuggerConstants
<1>5. PICK e : e = [server EXCEPT !.timeouts = @ - 1]
  OBVIOUS
<1>6. /\ e \in ServerType /\ e.timeouts = 0 /\ e.toClient = server.toClient /\ e.buf = server.buf
      /\ e.taken = server.taken
  BY <1>1, <1>2, <1>5 DEF ServerType
<1>7. SetOff(e, server')
  BY <1>3, <1>4, <1>5, <1>6, ExecuteFacts
<1>8. DebuggerSound(server', gdb, toServer)
  BY <1>2, <1>6, <1>7, ExecuteKeeps DEF DebuggerInv
<1> QED BY <1>8 DEF DebuggerInv, ExecuteOn

\* An acknowledgement put behind packets.
LEMMA MarkLast ==
    ASSUME NEW f, Packets(f), NEW mark, NEW e, Appends(e, f, mark)
    PROVE  Len(f) + 1 \in Nat /\ Len(e) = Len(f) + 1 /\ OneAt(e, Len(f) + 1, mark)
<1>1. \A i \in 1 .. Len(e) : i \in 1 .. Len(f) \/ i = Len(f) + 1
  BY DEF Appends
<1>2. e[Len(f) + 1] = mark /\ Len(f) + 1 \in 1 .. Len(e) /\ \A i \in 1 .. Len(f) : e[i] = f[i]
  BY DEF Appends
<1>3. OneAt(e, Len(f) + 1, mark)
  BY <1>1, <1>2 DEF Packets, OneAt
<1> QED BY <1>3 DEF Appends

\* s without the packet it has read, which it acknowledges or refuses.
Marked(s, k, mark, q) ==
    q = respond([s EXCEPT !.buf = SubSeq(@, k + 4, Len(@))], mark)

LEMMA MarkedFacts ==
    ASSUME NEW s, NEW g, NEW w, DebuggerSound(s, g, w), NEW k \in Nat, Sent(s, g, w), WholeAt(s.buf \o w, k, g.cmd),
           k + 3 <= Len(s.buf), NEW mark \in {Ack, Nak}, NEW q, Marked(s, k, mark, q)
    PROVE  /\ q \in ServerType /\ Ticking(q) /\ q.stopped = TRUE /\ q.taken = 0
           /\ Passed(q, w) /\ NoBreak(w)
           /\ Len(q.toClient) \in Nat /\ OneAt(q.toClient, Len(q.toClient), mark)
<1>1. /\ s \in ServerType /\ w \in Seq(Symbol) /\ s.buf \in Seq(Symbol) /\ s.toClient \in Seq(Reply)
      /\ Ticking(s) /\ s.stopped = TRUE /\ s.taken = 0 /\ Packets(s.toClient)
  BY DEF DebuggerSound, ServerType, Sent
<1>2. PICK f : f = SubSeq(s.buf, k + 4, Len(s.buf))
  OBVIOUS
<1>3. NoDollar(f) /\ NoDollar(w) /\ NoBreak(w)
  BY <1>1, <1>2, QuietBehind
<1>4. f \in Seq(Symbol)
  <2>1. k + 3 \in 0 .. Len(s.buf) /\ (k + 3) + 1 = k + 4
    BY <1>1
  <2>2. SubSeq(s.buf, (k + 3) + 1, Len(s.buf)) \in Seq(Symbol)
    BY <1>1, <2>1, Cut
  <2> QED BY <1>2, <2>1, <2>2
<1>5. PICK r : r = [s EXCEPT !.buf = f]
  OBVIOUS
<1>6. /\ r \in ServerType /\ r.buf = f /\ r.stopped = s.stopped /\ r.executeTimer = s.executeTimer
      /\ r.timeouts = s.timeouts /\ r.toClient = s.toClient /\ r.taken = s.taken
  BY <1>1, <1>4, <1>5 DEF ServerType
<1>7. q = respond(r, mark)
  <2>1. [s EXCEPT !.buf = SubSeq(@, k + 4, Len(@))] = r
    BY <1>2, <1>5
  <2> QED BY <2>1 DEF Marked
<1>8. mark \in Reply
  BY DEF Reply
<1>9. /\ q \in ServerType /\ q.toClient = Append(r.toClient, mark)
      /\ q.stopped = r.stopped /\ q.executeTimer = r.executeTimer
      /\ q.timeouts = r.timeouts /\ q.buf = r.buf /\ q.taken = r.taken
  BY <1>6, <1>7, <1>8, RespondFacts
<1>10. Appends(q.toClient, s.toClient, mark)
  BY <1>1, <1>6, <1>8, <1>9, Appended
<1>11. Len(s.toClient) + 1 \in Nat /\ Len(q.toClient) = Len(s.toClient) + 1 /\ OneAt(q.toClient, Len(s.toClient) + 1, mark)
  BY <1>1, <1>10, MarkLast
<1>12. Passed(q, w) /\ Ticking(q)
  BY <1>1, <1>3, <1>6, <1>9 DEF Passed, Ticking
<1> QED BY <1>1, <1>3, <1>6, <1>9, <1>11, <1>12

LEMMA TakenOnce ==
    ASSUME NEW s \in ServerType, s.taken = 0
    PROVE  LET t == [s EXCEPT !.taken = @ + 1]
           IN  /\ t \in ServerType /\ t.taken = 1 /\ t.stopped = s.stopped /\ t.executeTimer = s.executeTimer
               /\ t.timeouts = s.timeouts /\ t.toClient = s.toClient /\ t.buf = s.buf
BY DEF ServerType

LEMMA FeedPacketKeeps == ASSUME DebuggerConstants, DebuggerInv, FeedPacket PROVE DebuggerInv'
<1>1. /\ server \in ServerType /\ toServer \in Seq(Symbol) /\ server.buf \in Seq(Symbol) /\ gdb \in GdbType
      /\ gdb.cmd \in Commands /\ DebuggerSound(server, gdb, toServer) /\ Phase(server, gdb, toServer)
  BY DEF DebuggerInv, DebuggerSound, ServerType, GdbType
<1>2. PacketThere /\ gdb' = gdb /\ toServer' = toServer
  BY DEF FeedPacket
<1>3. ~NoDollar(server.buf)
  <2>1. dolla # 0
    BY <1>2 DEF PacketThere
  <2>2. dolla \in 1 .. Len(server.buf) /\ server.buf[dolla] = Dollar
    BY <1>1, <2>1, DollaFacts
  <2> QED BY <2>2 DEF NoDollar
<1>4. Sent(server, gdb, toServer)
  BY <1>1, <1>3 DEF Phase, Idle, Refused, Taken, Answering, Awaiting, Passed
<1>5. PICK k \in Nat : WholeAt(server.buf \o toServer, k, gdb.cmd)
  BY <1>4 DEF Sent
<1>6. /\ hash = k + 2 /\ k + 3 <= Len(server.buf) /\ server.buf[k + 1] = gdb.cmd
      /\ dolla = k
  <2>1. dolla # 0
    BY <1>2 DEF PacketThere
  <2> QED BY <1>1, <1>2, <1>5, <2>1, PacketRead
<1>7. PICK rest : rest = [server EXCEPT !.buf = SubSeq(@, k + 4, Len(@))]
  OBVIOUS
<1>8. \/ server' = respond(rest, Nak)
      \/ \E n \in 0 .. Slice : server' = processGDBMessage([respond(rest, Ack) EXCEPT !.taken = @ + 1], gdb.cmd, n)
  <2>1. hash + 2 = k + 4
    BY <1>6
  <2>2. rest = [server EXCEPT !.buf = SubSeq(@, hash + 2, Len(@))]
    BY <1>7, <2>1
  <2> QED BY <1>6, <2>2 DEF FeedPacket
<1>9. ASSUME server' = respond(rest, Nak) PROVE DebuggerInv'
  <2>1. Marked(server, k, Nak, server')
    BY <1>7, <1>9 DEF Marked
  <2>2. /\ server' \in ServerType /\ Ticking(server') /\ server'.stopped = TRUE /\ server'.taken = 0
        /\ Passed(server', toServer) /\ NoBreak(toServer)
        /\ Len(server'.toClient) \in Nat /\ OneAt(server'.toClient, Len(server'.toClient), Nak)
    BY <1>1, <1>4, <1>5, <1>6, <2>1, MarkedFacts
  <2>3. Refused(server', gdb, toServer)
    BY <1>4, <2>2 DEF Refused, Sent
  <2>4. Phase(server', gdb, toServer)
    BY <2>3 DEF Phase
  <2>5. DebuggerSound(server', gdb, toServer)
    BY <1>1, <2>2, <2>4 DEF DebuggerSound
  <2> QED BY <1>2, <2>5 DEF DebuggerInv
<1>10. ASSUME NEW n \in 0 .. Slice,
              server' = processGDBMessage([respond(rest, Ack) EXCEPT !.taken = @ + 1], gdb.cmd, n)
       PROVE  DebuggerInv'
  <2>1. PICK q : q = respond(rest, Ack)
    OBVIOUS
  <2>2. Marked(server, k, Ack, q)
    BY <1>7, <2>1 DEF Marked
  <2>3. /\ q \in ServerType /\ Ticking(q) /\ q.stopped = TRUE /\ q.taken = 0
        /\ Passed(q, toServer) /\ NoBreak(toServer)
        /\ Len(q.toClient) \in Nat /\ OneAt(q.toClient, Len(q.toClient), Ack)
    BY <1>1, <1>4, <1>5, <1>6, <2>2, MarkedFacts
  <2>4. PICK t : t = [q EXCEPT !.taken = @ + 1]
    OBVIOUS
  <2>5. /\ t \in ServerType /\ t.taken = 1 /\ t.stopped = q.stopped /\ t.executeTimer = q.executeTimer
        /\ t.timeouts = q.timeouts /\ t.toClient = q.toClient /\ t.buf = q.buf
    BY <2>3, <2>4, TakenOnce
  <2>6. PICK a : a = Len(q.toClient)
    OBVIOUS
  <2>7. Ready(t, a)
    BY <2>3, <2>5, <2>6 DEF Ready, Ticking
  <2>8. n \in Nat
    BY DEF DebuggerConstants
  <2>9. server' = processGDBMessage(t, gdb.cmd, n)
    BY <1>10, <2>1, <2>4
  <2>10. Done(t, server', gdb.cmd, a)
    BY <1>1, <2>7, <2>8, <2>9, CommandDone
  <2>11. /\ server' \in ServerType /\ Ticking(server') /\ server'.taken = 1 /\ server'.buf = q.buf
         /\ a \in Nat /\ OneAt(server'.toClient, a, Ack) /\ Outcome(server', gdb.cmd, a)
    BY <2>3, <2>5, <2>6, <2>10 DEF Done, Kept
  <2>12. Taken(server', gdb, toServer)
    BY <1>4, <2>3, <2>11 DEF Taken, Sent, Passed
  <2>13. Phase(server', gdb, toServer)
    BY <2>12 DEF Phase
  <2>14. DebuggerSound(server', gdb, toServer)
    BY <1>1, <2>11, <2>13 DEF DebuggerSound
  <2> QED BY <1>2, <2>14 DEF DebuggerInv
<1> QED BY <1>8, <1>9, <1>10

LEMMA SendKeeps == ASSUME DebuggerInv, SendCommand PROVE DebuggerInv'
<1>1. /\ server \in ServerType /\ toServer \in Seq(Symbol) /\ server.buf \in Seq(Symbol) /\ gdb \in GdbType
      /\ Ticking(server) /\ Phase(server, gdb, toServer)
  BY DEF DebuggerInv, DebuggerSound, ServerType, GdbType
<1>2. PICK cmd \in Commands :
          /\ gdb.waits = "nothing" /\ gdb' = [waits |-> "ack", cmd |-> cmd]
          /\ toServer' = toServer \o gdbMessage(cmd)
          /\ server' = [server EXCEPT !.taken = 0]
  BY DEF SendCommand
<1>3. Idle(server, gdb, toServer)
  BY <1>1, <1>2 DEF Phase, Sent, Refused, Taken, Answering, Awaiting
<1>4. /\ server' \in ServerType /\ server'.taken = 0 /\ server'.stopped = server.stopped
      /\ server'.executeTimer = server.executeTimer /\ server'.timeouts = server.timeouts
      /\ server'.toClient = server.toClient /\ server'.buf = server.buf
  BY <1>1, <1>2 DEF ServerType
<1>5. PICK m \in Seq(Symbol) : m = gdbMessage(cmd)
  BY MessageFacts
<1>6. toServer' \in Seq(Symbol)
  BY <1>1, <1>2, <1>5, Pieced
<1>7. PICK d \in Seq(Symbol) : d = server.buf \o toServer
  BY <1>1, Pieced
<1>8. NoDollar(d)
  BY <1>1, <1>3, <1>7, QuietPieces DEF Idle, Passed
<1>9. Len(d) + 1 \in Nat /\ WholeAt(d \o m, Len(d) + 1, cmd)
  BY <1>5, <1>7, <1>8, MessageWhole
<1>10. server.buf \o (toServer \o m) = d \o m
  <2>1. (server.buf \o toServer) \o m = server.buf \o (toServer \o m)
    BY <1>1, <1>5, Regrouped
  <2> QED BY <1>7, <2>1
<1>11. gdb' \in GdbType /\ gdb'.waits = "ack" /\ gdb'.cmd = cmd
  BY <1>2 DEF GdbType
<1>12. \E k \in Nat : WholeAt(server'.buf \o toServer', k, gdb'.cmd)
  BY <1>2, <1>4, <1>5, <1>9, <1>10, <1>11
<1>13. Sent(server', gdb', toServer')
  BY <1>3, <1>4, <1>11, <1>12 DEF Sent, Idle
<1>14. Ticking(server')
  BY <1>1, <1>4 DEF Ticking
<1>15. Phase(server', gdb', toServer')
  BY <1>13 DEF Phase
<1>16. DebuggerSound(server', gdb', toServer')
  BY <1>4, <1>6, <1>11, <1>14, <1>15 DEF DebuggerSound
<1> QED BY <1>16 DEF DebuggerInv

LEMMA InterruptKeeps == ASSUME DebuggerInv, Interrupt PROVE DebuggerInv'
<1>1. /\ server \in ServerType /\ toServer \in Seq(Symbol) /\ gdb \in GdbType
      /\ Ticking(server) /\ server.taken <= 1 /\ Phase(server, gdb, toServer)
  BY DEF DebuggerInv, DebuggerSound
<1>2. /\ gdb.waits \in {"stop", "break"} /\ gdb' = [gdb EXCEPT !.waits = "break"]
      /\ toServer' = Append(toServer, Break) /\ server' = server
  BY DEF Interrupt
<1>3. Awaiting(server, gdb, toServer)
  BY <1>1, <1>2 DEF Phase, Idle, Sent, Refused, Taken, Answering
<1>4. gdb' \in GdbType /\ gdb'.waits = "break"
  BY <1>1, <1>2 DEF GdbType
<1>5. Break \in Symbol
  BY DEF Symbol
<1>6. toServer' \in Seq(Symbol) /\ Appends(toServer', toServer, Break)
  BY <1>1, <1>2, <1>5, Appended
<1>7. NoDollar(toServer')
  <2>1. NoDollar(toServer)
    BY <1>3 DEF Awaiting, Passed
  <2>2. \A i \in 1 .. Len(toServer') : i \in 1 .. Len(toServer) \/ i = Len(toServer) + 1
    BY <1>6 DEF Appends
  <2> QED BY <1>6, <2>1, <2>2, SymbolsDiffer DEF Appends, NoDollar
<1>8. Passed(server, toServer')
  BY <1>3, <1>7 DEF Awaiting, Passed
<1>9. NewsTrue(server, server.toClient, 0, TRUE)
  <2>1. PICK b \in BOOLEAN : b = (gdb.waits = "break")
    OBVIOUS
  <2>2. NewsTrue(server, server.toClient, 0, b)
    BY <1>3, <2>1 DEF Awaiting
  <2>3. \A r : NewsIs(server, r, b) => NewsIs(server, r, TRUE)
    BY DEF NewsIs
  <2> QED BY <2>2, <2>3 DEF NewsTrue, NewsSay
<1>10. Awaiting(server, gdb', toServer')
  <2>1. (gdb'.waits = "break") = TRUE
    BY <1>4
  <2>2. NewsTrue(server, server.toClient, 0, gdb'.waits = "break")
    BY <1>9, <2>1
  <2> QED BY <1>3, <1>4, <1>8, <2>2 DEF Awaiting
<1>11. Phase(server, gdb', toServer')
  BY <1>10 DEF Phase
<1>12. DebuggerSound(server', gdb', toServer')
  BY <1>1, <1>2, <1>4, <1>6, <1>11 DEF DebuggerSound
<1> QED BY <1>12 DEF DebuggerInv

-----------------------------------------------------------------------------
(* GDB reads the reply in front.                                              *)

LEMMA Shifted ==
    ASSUME NEW f, NEW e, Drops(e, f, 1)
    PROVE  /\ Len(f) \in Nat \ {0} /\ Len(e) = Len(f) - 1
           /\ \A i \in 1 .. Len(e) : i + 1 \in 1 .. Len(f) /\ e[i] = f[i + 1]
           /\ \A i \in 1 .. Len(f) : i # 1 => i - 1 \in 1 .. Len(e) /\ f[i] = e[i - 1]
<1>1. Len(f) \in Nat /\ 1 \in 0 .. Len(f) /\ Len(e) = Len(f) - 1
  BY DEF Drops
<1>2. \A i \in 1 .. Len(f) - 1 : e[i] = f[1 + i]
  BY DEF Drops
<1>3. ASSUME NEW i \in 1 .. Len(e) PROVE i + 1 \in 1 .. Len(f) /\ e[i] = f[i + 1]
  <2>1. 1 + i = i + 1 /\ i \in 1 .. Len(f) - 1 /\ i + 1 \in 1 .. Len(f)
    BY <1>1
  <2> QED BY <1>2, <2>1
<1>4. ASSUME NEW i \in 1 .. Len(f), i # 1 PROVE i - 1 \in 1 .. Len(e) /\ f[i] = e[i - 1]
  <2>1. 1 + (i - 1) = i /\ i - 1 \in 1 .. Len(f) - 1 /\ i - 1 \in 1 .. Len(e)
    BY <1>1, <1>4
  <2>2. e[i - 1] = f[1 + (i - 1)]
    BY <1>2, <2>1
  <2> QED BY <2>1, <2>2
<1> QED BY <1>1, <1>3, <1>4

LEMMA PacketsBehind ==
    ASSUME NEW f, NEW e, Drops(e, f, 1)
    PROVE  /\ Packets(f) => Packets(e) /\ f[1] # Ack /\ f[1] # Nak
           /\ \A mark : OneAt(f, 1, mark) => Packets(e)
<1>1. /\ Len(f) \in Nat \ {0}
      /\ \A i \in 1 .. Len(e) : i + 1 \in 1 .. Len(f) /\ e[i] = f[i + 1] /\ i + 1 # 1
  BY Shifted
<1>2. Packets(f) => Packets(e)
  BY <1>1 DEF Packets
<1>3. Packets(f) => f[1] # Ack /\ f[1] # Nak
  BY <1>1 DEF Packets
<1>4. \A mark : OneAt(f, 1, mark) => Packets(e)
  BY <1>1 DEF Packets, OneAt
<1> QED BY <1>2, <1>3, <1>4

LEMMA OneBehind ==
    ASSUME NEW f, NEW e, Drops(e, f, 1), NEW a \in Nat, a # 1, NEW mark, OneAt(f, a, mark)
    PROVE  a - 1 \in Nat /\ OneAt(e, a - 1, mark) /\ f[1] # Ack /\ f[1] # Nak
<1>1. /\ Len(f) \in Nat \ {0}
      /\ \A i \in 1 .. Len(e) : i + 1 \in 1 .. Len(f) /\ e[i] = f[i + 1]
      /\ \A i \in 1 .. Len(f) : i # 1 => i - 1 \in 1 .. Len(e) /\ f[i] = e[i - 1]
  BY Shifted
<1>2. /\ a \in 1 .. Len(f) /\ f[a] = mark
      /\ \A i \in 1 .. Len(f) : i # a => f[i] # Ack /\ f[i] # Nak
  BY DEF OneAt
<1>3. f[1] # Ack /\ f[1] # Nak
  BY <1>1, <1>2
<1>4. a - 1 \in 1 .. Len(e) /\ e[a - 1] = mark
  BY <1>1, <1>2
<1>5. \A i \in 1 .. Len(e) : i # a - 1 => e[i] # Ack /\ e[i] # Nak
  <2> SUFFICES ASSUME NEW i \in 1 .. Len(e), i # a - 1 PROVE e[i] # Ack /\ e[i] # Nak
    OBVIOUS
  <2>1. i + 1 \in 1 .. Len(f) /\ e[i] = f[i + 1] /\ i + 1 # a
    BY <1>1
  <2> QED BY <1>2, <2>1
<1>6. a - 1 \in Nat
  BY <1>2
<1> QED BY <1>3, <1>4, <1>5, <1>6 DEF OneAt

\* The news behind place a are those behind a - 1 of the rest; the first reply
\* of all may be dropped where it is none.
LEMMA NewsBehind ==
    ASSUME NEW f, NEW e, Drops(e, f, 1), NEW a \in Nat, NEW b \in Nat,
           a = b + 1 \/ (a = 0 /\ b = 0 /\ ~IsStopReply(f[1])),
           NEW s, NEW broken, NewsTrue(s, f, a, broken)
    PROVE  NewsTrue(s, e, b, broken)
<1>1. /\ \A i \in 1 .. Len(e) : i + 1 \in 1 .. Len(f) /\ e[i] = f[i + 1]
      /\ \A i \in 1 .. Len(f) : i # 1 => i - 1 \in 1 .. Len(e) /\ f[i] = e[i - 1]
  BY Shifted
<1>2. NewsSay(s, e, b, broken)
  <2> SUFFICES ASSUME NEW i \in 1 .. Len(e), i > b, IsStopReply(e[i])
               PROVE  s.stopped = TRUE /\ NewsIs(s, e[i], broken)
    BY DEF NewsSay
  <2>1. i + 1 \in 1 .. Len(f) /\ e[i] = f[i + 1] /\ i + 1 > a
    BY <1>1
  <2>2. \A j \in 1 .. Len(f) : j > a /\ IsStopReply(f[j]) => s.stopped = TRUE /\ NewsIs(s, f[j], broken)
    BY DEF NewsTrue, NewsSay
  <2>3. IsStopReply(f[i + 1])
    BY <2>1
  <2> QED BY <2>1, <2>2, <2>3
<1>3. ASSUME HasNews(f, a) PROVE HasNews(e, b)
  <2>1. PICK i \in 1 .. Len(f) : i > a /\ IsStopReply(f[i])
    BY <1>3 DEF HasNews
  <2>2. i # 1
    BY <2>1
  <2>3. i - 1 \in 1 .. Len(e) /\ f[i] = e[i - 1] /\ i - 1 > b
    BY <1>1, <2>1, <2>2
  <2> QED BY <2>1, <2>3 DEF HasNews
<1> QED BY <1>2, <1>3 DEF NewsTrue

LEMMA OutcomeBehind ==
    ASSUME NEW s, NEW t, Agree(s, t), Drops(t.toClient, s.toClient, 1), NEW cmd, NEW a \in Nat, NEW b \in Nat, a = b + 1,
           Outcome(s, cmd, a)
    PROVE  Outcome(t, cmd, b)
<1>1. CASE cmd \in Resuming
  <2>1. NewsTrue(s, s.toClient, a, FALSE)
    BY <1>1 DEF Outcome
  <2>2. NewsTrue(s, t.toClient, b, FALSE)
    BY <2>1, NewsBehind
  <2>3. NewsTrue(t, t.toClient, b, FALSE)
    BY <2>2, AgreeFacts
  <2> QED BY <1>1, <2>3 DEF Outcome
<1>2. CASE cmd \notin Resuming
  <2>1. s.stopped = TRUE /\ Len(s.toClient) = a + 1 /\ AnswerFits(s, cmd, s.toClient[a + 1])
    BY <1>2 DEF Outcome
  <2>2. Len(t.toClient) = b + 1 /\ t.toClient[b + 1] = s.toClient[a + 1]
    <3>1. /\ Len(t.toClient) = Len(s.toClient) - 1
          /\ \A i \in 1 .. Len(t.toClient) : t.toClient[i] = s.toClient[i + 1]
      BY Shifted
    <3>2. b + 1 \in 1 .. Len(t.toClient) /\ (b + 1) + 1 = a + 1 /\ Len(t.toClient) = b + 1
      BY <2>1, <3>1
    <3>3. t.toClient[b + 1] = s.toClient[(b + 1) + 1]
      BY <3>1, <3>2
    <3> QED BY <3>2, <3>3
  <2>3. AnswerFits(t, cmd, t.toClient[b + 1])
    BY <2>1, <2>2, AgreeFacts
  <2>4. t.stopped = TRUE
    BY <2>1 DEF Agree
  <2> QED BY <1>2, <2>2, <2>3, <2>4 DEF Outcome
<1> QED BY <1>1, <1>2

\* The server's record without the reply in front.
Read(s, t) == s.toClient # <<>> /\ t = [s EXCEPT !.toClient = Tail(@)]

LEMMA ReadFacts ==
    ASSUME NEW s \in ServerType, NEW t, Read(s, t)
    PROVE  /\ t \in ServerType /\ Agree(s, t) /\ t.buf = s.buf /\ t.stopped = s.stopped /\ t.taken = s.taken
           /\ t.toClient \in Seq(Reply) /\ Drops(t.toClient, s.toClient, 1)
           /\ Head(s.toClient) = s.toClient[1] /\ (Ticking(s) => Ticking(t))
<1>1. s.toClient \in Seq(Reply) /\ s.toClient # <<>>
  BY DEF ServerType, Read
<1>2. PICK e : e = Tail(s.toClient)
  OBVIOUS
<1>3. e \in Seq(Reply) /\ Drops(e, s.toClient, 1) /\ Head(s.toClient) = s.toClient[1]
  BY <1>1, <1>2, Rest
<1>4. t = [s EXCEPT !.toClient = e]
  BY <1>2 DEF Read
<1>5. /\ t \in ServerType /\ t.buf = s.buf /\ t.stopped = s.stopped /\ t.taken = s.taken
      /\ t.toClient = e /\ t.pc = s.pc /\ t.bkpt = s.bkpt
      /\ t.executeTimer = s.executeTimer /\ t.timeouts = s.timeouts
  BY <1>3, <1>4 DEF ServerType
<1> QED BY <1>3, <1>5 DEF Agree, Ticking

\* An acknowledgement more on the way to the server.
LEMMA AckSent ==
    ASSUME NEW f \in Seq(Symbol), NEW w \in Seq(Symbol), NEW v, v = w \o <<Ack>>
    PROVE  /\ v \in Seq(Symbol)
           /\ NoDollar(w) => NoDollar(v)
           /\ NoBreak(w) => NoBreak(v)
           /\ \A k \in Nat : \A cmd : WholeAt(f \o w, k, cmd) => WholeAt(f \o v, k, cmd)
<1>1. Ack \in Symbol
  BY DEF Symbol
<1>2. PICK m \in Seq(Symbol) : m = <<Ack>>
  <2>1. <<Ack>> \in Seq(Symbol)
    BY <1>1
  <2> QED BY <2>1
<1>3. Len(m) = 1 /\ m[1] = Ack
  BY <1>2
<1>4. v \in Seq(Symbol) /\ Joins(v, w, m)
  BY <1>2, Pieced
<1>5. \A i \in 1 .. Len(v) : v[i] = Ack \/ (i \in 1 .. Len(w) /\ v[i] = w[i])
  <2> SUFFICES ASSUME NEW i \in 1 .. Len(v) PROVE v[i] = Ack \/ (i \in 1 .. Len(w) /\ v[i] = w[i])
    OBVIOUS
  <2>1. Len(w) \in Nat /\ Len(v) = Len(w) + 1 /\ v[Len(w) + 1] = Ack
    BY <1>3, <1>4 DEF Joins
  <2>2. i \in 1 .. Len(w) \/ i = Len(w) + 1
    BY <2>1
  <2>3. \A j \in 1 .. Len(w) : v[j] = w[j]
    BY <1>4 DEF Joins
  <2> QED BY <2>1, <2>2, <2>3
<1>6. (NoDollar(w) => NoDollar(v)) /\ (NoBreak(w) => NoBreak(v))
  BY <1>5, SymbolsDiffer DEF NoDollar, NoBreak
<1>7. ASSUME NEW k \in Nat, NEW cmd, WholeAt(f \o w, k, cmd) PROVE WholeAt(f \o v, k, cmd)
  <2>1. PICK d \in Seq(Symbol) : d = f \o w
    BY Pieced
  <2>2. WholeAt(d \o <<Ack>>, k, cmd)
    BY <1>7, <2>1, AckedWhole
  <2>3. f \o v = d \o <<Ack>>
    BY <1>2, <2>1, Regrouped
  <2> QED BY <2>2, <2>3
<1> QED BY <1>4, <1>6, <1>7

\* What GDB makes of it.
Heard(g, reply) ==
    [g EXCEPT !.waits =
         IF g.waits = "ack" /\ reply = Ack THEN IF g.cmd \in Resuming THEN "stop" ELSE "answer"
         ELSE IF g.waits = "answer" \/ (g.waits \in {"stop", "break"} /\ IsStopReply(reply)) THEN "nothing" ELSE @]
Sends(g, reply) ==
    CASE reply = Ack -> <<>>
      [] reply = Nak -> gdbMessage(g.cmd)
      [] OTHER -> <<Ack>>
Received(s, g, w, t, h, v) ==
    /\ g.waits # "nothing" /\ Read(s, t)
    /\ h = Heard(g, s.toClient[1]) /\ v = w \o Sends(g, s.toClient[1])

LEMMA HeardFacts ==
    ASSUME NEW g \in GdbType, NEW reply
    PROVE  LET h == Heard(g, reply)
           IN  /\ h \in GdbType /\ h.cmd = g.cmd
               /\ g.waits = "ack" /\ reply = Ack => h.waits = IF g.cmd \in Resuming THEN "stop" ELSE "answer"
               /\ g.waits = "ack" /\ reply # Ack => h = g
               /\ g.waits = "answer" => h.waits = "nothing"
               /\ g.waits \in {"stop", "break"} /\ IsStopReply(reply) => h.waits = "nothing"
               /\ g.waits \in {"stop", "break"} /\ ~IsStopReply(reply) => h = g
<1>1. PICK x : x = IF g.waits = "ack" /\ reply = Ack THEN IF g.cmd \in Resuming THEN "stop" ELSE "answer"
                   ELSE IF g.waits = "answer" \/ (g.waits \in {"stop", "break"} /\ IsStopReply(reply)) THEN "nothing"
                   ELSE g.waits
  OBVIOUS
<1>2. PICK h : h = [g EXCEPT !.waits = x]
  OBVIOUS
<1>3. h = Heard(g, reply)
  BY <1>1, <1>2 DEF Heard
<1>4. g.waits \in {"nothing", "ack", "answer", "stop", "break"} /\ g.cmd \in Commands
  BY DEF GdbType
<1>5. x \in {"nothing", "ack", "answer", "stop", "break"}
  BY <1>1, <1>4
<1>6. h \in GdbType /\ h.cmd = g.cmd /\ h.waits = x /\ (x = g.waits => h = g)
  BY <1>2, <1>5 DEF GdbType
<1>7. /\ g.waits = "ack" /\ reply = Ack => x = IF g.cmd \in Resuming THEN "stop" ELSE "answer"
      /\ g.waits = "ack" /\ reply # Ack => x = g.waits
      /\ g.waits = "answer" => x = "nothing"
      /\ g.waits \in {"stop", "break"} /\ IsStopReply(reply) => x = "nothing"
      /\ g.waits \in {"stop", "break"} /\ ~IsStopReply(reply) => x = g.waits
  BY <1>1
<1> QED BY <1>3, <1>6, <1>7

\* What is known of every reply read.
LEMMA ReceivedFacts ==
    ASSUME NEW s, NEW g, NEW w, DebuggerSound(s, g, w), NEW t, NEW h, NEW v, Received(s, g, w, t, h, v)
    PROVE  /\ s \in ServerType /\ g \in GdbType /\ w \in Seq(Symbol) /\ s.buf \in Seq(Symbol) /\ g.cmd \in Commands
           /\ t \in ServerType /\ Ticking(t) /\ t.taken <= 1 /\ h \in GdbType /\ h.cmd = g.cmd
           /\ Agree(s, t) /\ t.buf = s.buf /\ t.stopped = s.stopped /\ t.taken = s.taken
           /\ Drops(t.toClient, s.toClient, 1)
           /\ s.toClient[1] # Ack /\ s.toClient[1] # Nak => v = w \o <<Ack>>
<1>1. /\ s \in ServerType /\ g \in GdbType /\ w \in Seq(Symbol) /\ s.buf \in Seq(Symbol) /\ g.cmd \in Commands
      /\ Ticking(s) /\ s.taken <= 1
  BY DEF DebuggerSound, ServerType, GdbType
<1>2. /\ t \in ServerType /\ Agree(s, t) /\ t.buf = s.buf /\ t.stopped = s.stopped /\ t.taken = s.taken
      /\ Drops(t.toClient, s.toClient, 1) /\ Ticking(t)
  BY <1>1, ReadFacts DEF Received
<1>3. h \in GdbType /\ h.cmd = g.cmd
  BY <1>1, HeardFacts DEF Received
<1>4. s.toClient[1] # Ack /\ s.toClient[1] # Nak => v = w \o <<Ack>>
  BY DEF Received, Sends
<1> QED BY <1>1, <1>2, <1>3, <1>4

LEMMA SentHears ==
    ASSUME NEW s, NEW g, NEW w, DebuggerSound(s, g, w), NEW t, NEW h, NEW v, Received(s, g, w, t, h, v), Sent(s, g, w)
    PROVE  v \in Seq(Symbol) /\ Phase(t, h, v)
<1>1. /\ s.buf \in Seq(Symbol) /\ w \in Seq(Symbol) /\ g \in GdbType /\ t.buf = s.buf
      /\ t.stopped = s.stopped /\ t.taken = s.taken
      /\ Drops(t.toClient, s.toClient, 1)
      /\ s.toClient[1] # Ack /\ s.toClient[1] # Nak => v = w \o <<Ack>>
  BY ReceivedFacts
<1>2. Packets(t.toClient) /\ s.toClient[1] # Ack /\ s.toClient[1] # Nak
  BY <1>1, PacketsBehind DEF Sent
<1>3. v = w \o <<Ack>>
  BY <1>1, <1>2
<1>4. h = g
  BY <1>1, <1>2, HeardFacts DEF Received, Sent
<1>5. PICK k \in Nat : WholeAt(s.buf \o w, k, g.cmd)
  BY DEF Sent
<1>6. v \in Seq(Symbol) /\ WholeAt(s.buf \o v, k, g.cmd)
  BY <1>1, <1>3, <1>5, AckSent
<1>7. \E j \in Nat : WholeAt(t.buf \o v, j, h.cmd)
  BY <1>1, <1>4, <1>6
<1>8. Sent(t, h, v)
  BY <1>1, <1>2, <1>4, <1>7 DEF Sent
<1> QED BY <1>6, <1>8 DEF Phase

LEMMA RefusedHears ==
    ASSUME NEW s, NEW g, NEW w, DebuggerSound(s, g, w), NEW t, NEW h, NEW v, Received(s, g, w, t, h, v), Refused(s, g, w)
    PROVE  v \in Seq(Symbol) /\ Phase(t, h, v)
<1>1. /\ s.buf \in Seq(Symbol) /\ w \in Seq(Symbol) /\ g \in GdbType /\ g.cmd \in Commands /\ t.buf = s.buf
      /\ t.stopped = s.stopped /\ t.taken = s.taken
      /\ Drops(t.toClient, s.toClient, 1)
      /\ s.toClient[1] # Ack /\ s.toClient[1] # Nak => v = w \o <<Ack>>
  BY ReceivedFacts
<1>2. PICK a \in Nat : OneAt(s.toClient, a, Nak)
  BY DEF Refused
<1>3. g.waits = "ack" /\ s.taken = 0 /\ s.stopped = TRUE /\ NoDollar(s.buf) /\ NoDollar(w)
  BY DEF Refused, Passed
<1>4. CASE a = 1
  <2>1. Packets(t.toClient) /\ s.toClient[1] = Nak
    BY <1>1, <1>2, <1>4, PacketsBehind DEF OneAt
  <2>2. s.toClient[1] # Ack
    BY <2>1, SymbolsDiffer
  <2>3. h = g
    BY <1>1, <1>3, <2>2, HeardFacts DEF Received
  <2>4. PICK m \in Seq(Symbol) : m = gdbMessage(g.cmd)
    BY <1>1, MessageFacts
  <2>5. v = w \o m
    BY <2>1, <2>2, <2>4 DEF Received, Sends
  <2>6. v \in Seq(Symbol)
    BY <1>1, <2>4, <2>5, Pieced
  <2>7. PICK d \in Seq(Symbol) : d = s.buf \o w
    BY <1>1, Pieced
  <2>8. NoDollar(d)
    BY <1>1, <1>3, <2>7, QuietPieces
  <2>9. Len(d) + 1 \in Nat /\ WholeAt(d \o m, Len(d) + 1, g.cmd)
    BY <1>1, <2>4, <2>7, <2>8, MessageWhole
  <2>10. s.buf \o v = d \o m
    <3>1. (s.buf \o w) \o m = s.buf \o (w \o m)
      BY <1>1, <2>4, Regrouped
    <3> QED BY <2>5, <2>7, <3>1
  <2>11. \E k \in Nat : WholeAt(t.buf \o v, k, h.cmd)
    BY <1>1, <2>3, <2>9, <2>10
  <2>12. Sent(t, h, v)
    BY <1>1, <1>3, <2>1, <2>3, <2>11 DEF Sent
  <2> QED BY <2>6, <2>12 DEF Phase
<1>5. CASE a # 1
  <2>1. a - 1 \in Nat /\ OneAt(t.toClient, a - 1, Nak) /\ s.toClient[1] # Ack /\ s.toClient[1] # Nak
    BY <1>1, <1>2, <1>5, OneBehind
  <2>2. v = w \o <<Ack>>
    BY <1>1, <2>1
  <2>3. h = g
    BY <1>1, <1>3, <2>1, HeardFacts DEF Received
  <2>4. v \in Seq(Symbol) /\ NoDollar(v)
    BY <1>1, <1>3, <2>2, AckSent
  <2>5. Refused(t, h, v)
    BY <1>1, <1>3, <2>1, <2>3, <2>4 DEF Refused, Passed
  <2> QED BY <2>4, <2>5 DEF Phase
<1> QED BY <1>4, <1>5

LEMMA TakenHears ==
    ASSUME NEW s, NEW g, NEW w, DebuggerSound(s, g, w), NEW t, NEW h, NEW v, Received(s, g, w, t, h, v), Taken(s, g, w)
    PROVE  v \in Seq(Symbol) /\ Phase(t, h, v)
<1>1. /\ s.buf \in Seq(Symbol) /\ w \in Seq(Symbol) /\ g \in GdbType /\ h \in GdbType /\ h.cmd = g.cmd
      /\ t.buf = s.buf /\ t.stopped = s.stopped /\ t.taken = s.taken /\ Agree(s, t)
      /\ Drops(t.toClient, s.toClient, 1)
      /\ s.toClient[1] # Ack /\ s.toClient[1] # Nak => v = w \o <<Ack>>
  BY ReceivedFacts
<1>2. PICK a \in Nat : OneAt(s.toClient, a, Ack) /\ Outcome(s, g.cmd, a)
  BY DEF Taken
<1>3. g.waits = "ack" /\ s.taken = 1 /\ NoDollar(s.buf) /\ NoDollar(w) /\ NoBreak(w)
  BY DEF Taken, Passed
<1>4. CASE a = 1
  <2>1. Packets(t.toClient) /\ s.toClient[1] = Ack
    BY <1>1, <1>2, <1>4, PacketsBehind DEF OneAt
  <2>2. v = w
    <3>1. Sends(g, s.toClient[1]) = <<>>
      BY <2>1, SymbolsDiffer DEF Sends
    <3>2. v = w \o <<>>
      BY <3>1 DEF Received
    <3>3. w \o <<>> = w
      BY <1>1
    <3> QED BY <3>2, <3>3
  <2>3. h.waits = IF g.cmd \in Resuming THEN "stop" ELSE "answer"
    BY <1>1, <1>3, <2>1, HeardFacts DEF Received
  <2>4. Outcome(t, g.cmd, 0)
    BY <1>1, <1>2, <1>4, OutcomeBehind
  <2>5. Passed(t, v)
    BY <1>1, <1>3, <2>2 DEF Passed
  <2>6. CASE g.cmd \in Resuming
    <3>1. (h.waits = "break") = FALSE /\ h.waits = "stop"
      BY <2>3, <2>6
    <3>2. NewsTrue(t, t.toClient, 0, h.waits = "break")
      BY <2>4, <2>6, <3>1 DEF Outcome
    <3>3. Awaiting(t, h, v)
      BY <1>1, <1>3, <2>1, <2>2, <2>5, <3>1, <3>2 DEF Awaiting
    <3> QED BY <1>1, <2>2, <3>3 DEF Phase
  <2>7. CASE g.cmd \notin Resuming
    <3>1. t.stopped = TRUE /\ Len(t.toClient) = 0 + 1 /\ AnswerFits(t, g.cmd, t.toClient[0 + 1])
      BY <2>4, <2>7 DEF Outcome
    <3>2. 0 + 1 = 1
      OBVIOUS
    <3>3. Len(t.toClient) = 1 /\ AnswerFits(t, h.cmd, t.toClient[1])
      BY <1>1, <3>1, <3>2
    <3>4. Answering(t, h, v)
      BY <1>1, <1>3, <2>1, <2>2, <2>3, <2>5, <2>7, <3>1, <3>3 DEF Answering
    <3> QED BY <1>1, <2>2, <3>4 DEF Phase
  <2> QED BY <2>6, <2>7
<1>5. CASE a # 1
  <2>1. a - 1 \in Nat /\ OneAt(t.toClient, a - 1, Ack) /\ s.toClient[1] # Ack /\ s.toClient[1] # Nak
    BY <1>1, <1>2, <1>5, OneBehind
  <2>2. v = w \o <<Ack>>
    BY <1>1, <2>1
  <2>3. h = g
    BY <1>1, <1>3, <2>1, HeardFacts DEF Received
  <2>4. v \in Seq(Symbol) /\ NoDollar(v) /\ NoBreak(v)
    BY <1>1, <1>3, <2>2, AckSent
  <2>5. Outcome(t, h.cmd, a - 1)
    <3>1. PICK b \in Nat : b = a - 1 /\ a = b + 1
      BY <2>1
    <3>2. Outcome(t, g.cmd, b)
      BY <1>1, <1>2, <3>1, OutcomeBehind
    <3> QED BY <1>1, <3>1, <3>2
  <2>6. Taken(t, h, v)
    BY <1>1, <1>3, <2>1, <2>3, <2>4, <2>5 DEF Taken, Passed
  <2> QED BY <2>4, <2>6 DEF Phase
<1> QED BY <1>4, <1>5

LEMMA AnsweringHears ==
    ASSUME NEW s, NEW g, NEW w, DebuggerSound(s, g, w), NEW t, NEW h, NEW v, Received(s, g, w, t, h, v), Answering(s, g, w)
    PROVE  v \in Seq(Symbol) /\ Phase(t, h, v)
<1>1. /\ s.buf \in Seq(Symbol) /\ w \in Seq(Symbol) /\ g \in GdbType /\ t.buf = s.buf /\ t.stopped = s.stopped
      /\ Drops(t.toClient, s.toClient, 1)
      /\ s.toClient[1] # Ack /\ s.toClient[1] # Nak => v = w \o <<Ack>>
  BY ReceivedFacts
<1>2. Packets(t.toClient) /\ s.toClient[1] # Ack /\ s.toClient[1] # Nak
  BY <1>1, PacketsBehind DEF Answering
<1>3. h.waits = "nothing"
  BY <1>1, HeardFacts DEF Received, Answering
<1>4. v \in Seq(Symbol) /\ NoDollar(v)
  BY <1>1, <1>2, AckSent DEF Answering, Passed
<1>5. Idle(t, h, v)
  BY <1>1, <1>2, <1>3, <1>4 DEF Idle, Answering, Passed
<1> QED BY <1>4, <1>5 DEF Phase

LEMMA AwaitingHears ==
    ASSUME NEW s, NEW g, NEW w, DebuggerSound(s, g, w), NEW t, NEW h, NEW v, Received(s, g, w, t, h, v), Awaiting(s, g, w)
    PROVE  v \in Seq(Symbol) /\ Phase(t, h, v)
<1>1. /\ s.buf \in Seq(Symbol) /\ w \in Seq(Symbol) /\ g \in GdbType /\ t.buf = s.buf
      /\ t.stopped = s.stopped /\ t.taken = s.taken /\ Agree(s, t)
      /\ Drops(t.toClient, s.toClient, 1)
      /\ s.toClient[1] # Ack /\ s.toClient[1] # Nak => v = w \o <<Ack>>
  BY ReceivedFacts
<1>2. Packets(t.toClient) /\ s.toClient[1] # Ack /\ s.toClient[1] # Nak
  BY <1>1, PacketsBehind DEF Awaiting
<1>3. PICK b : b = (g.waits = "break")
  OBVIOUS
<1>4. NewsTrue(s, s.toClient, 0, b) /\ g.waits \in {"stop", "break"}
  BY <1>3 DEF Awaiting
<1>5. v \in Seq(Symbol) /\ (NoDollar(w) => NoDollar(v)) /\ (NoBreak(w) => NoBreak(v))
  BY <1>1, <1>2, AckSent
<1>6. Passed(t, v)
  BY <1>1, <1>5 DEF Awaiting, Passed
<1>7. CASE IsStopReply(s.toClient[1])
  <2>1. h.waits = "nothing"
    BY <1>1, <1>4, <1>7, HeardFacts DEF Received
  <2>2. s.stopped = TRUE
    <3>1. 1 \in 1 .. Len(s.toClient) /\ 1 > 0
      BY <1>1, Shifted
    <3> QED BY <1>4, <1>7, <3>1 DEF NewsTrue, NewsSay
  <2>3. Idle(t, h, v)
    BY <1>1, <1>2, <1>6, <2>1, <2>2 DEF Idle
  <2> QED BY <1>5, <2>3 DEF Phase
<1>8. CASE ~IsStopReply(s.toClient[1])
  <2>1. h = g
    BY <1>1, <1>4, <1>8, HeardFacts DEF Received
  <2>2. NewsTrue(s, t.toClient, 0, b)
    BY <1>1, <1>4, <1>8, NewsBehind
  <2>3. NewsTrue(t, t.toClient, 0, b)
    BY <1>1, <2>2, AgreeFacts
  <2>4. Awaiting(t, h, v)
    BY <1>1, <1>2, <1>3, <1>5, <1>6, <2>1, <2>3 DEF Awaiting
  <2> QED BY <1>5, <2>4 DEF Phase
<1> QED BY <1>7, <1>8

LEMMA ReceiveKeeps == ASSUME DebuggerInv, Receive PROVE DebuggerInv'
<1>1. DebuggerSound(server, gdb, toServer) /\ Phase(server, gdb, toServer) /\ server \in ServerType
  BY DEF DebuggerInv, DebuggerSound
<1>2. Read(server, server') /\ gdb.waits # "nothing"
  BY DEF Receive, Read
<1>3. Head(server.toClient) = server.toClient[1]
  BY <1>1, <1>2, ReadFacts
<1>4. gdb' = Heard(gdb, Head(server.toClient))
  BY DEF Receive, Heard
<1>5. toServer' = toServer \o Sends(gdb, Head(server.toClient))
  BY DEF Receive, Sends
<1>6. Received(server, gdb, toServer, server', gdb', toServer')
  BY <1>2, <1>3, <1>4, <1>5 DEF Received
<1>7. ~Idle(server, gdb, toServer)
  BY <1>2 DEF Idle
<1>8. toServer' \in Seq(Symbol) /\ Phase(server', gdb', toServer')
  BY <1>1, <1>6, <1>7, SentHears, RefusedHears, TakenHears, AnsweringHears, AwaitingHears DEF Phase
<1>9. server' \in ServerType /\ Ticking(server') /\ server'.taken <= 1 /\ gdb' \in GdbType
  BY <1>1, <1>6, ReceivedFacts
<1> QED BY <1>8, <1>9 DEF DebuggerInv, DebuggerSound

-----------------------------------------------------------------------------

LEMMA DebuggerStarts == ASSUME DebuggerConstants, DebuggerInit PROVE DebuggerInv
<1>1. /\ server.stopped = TRUE /\ server.executeTimer = FALSE /\ server.timeouts = 0 /\ server.taken = 0
      /\ server.buf = <<>> /\ server.toClient = <<>> /\ gdb.waits = "nothing" /\ toServer = <<>>
  BY DEF DebuggerInit
<1>2. 0 \in Addr
  BY DEF DebuggerConstants, Addr
<1>3. server \in ServerType
  BY <1>2 DEF DebuggerInit, ServerType
<1>4. gdb \in GdbType
  BY DEF DebuggerInit, GdbType, Commands
<1>5. Passed(server, toServer) /\ Packets(server.toClient)
  BY <1>1 DEF Passed, NoDollar, Packets
<1>6. Idle(server, gdb, toServer)
  BY <1>1, <1>5 DEF Idle
<1>7. Phase(server, gdb, toServer)
  BY <1>6 DEF Phase
<1> QED BY <1>1, <1>3, <1>4, <1>7 DEF DebuggerInv, DebuggerSound, Ticking

LEMMA DebuggerKeeps == DebuggerConstants /\ DebuggerInv /\ [DebuggerNext]_debuggerVars => DebuggerInv'
<1> SUFFICES ASSUME DebuggerConstants, DebuggerInv, [DebuggerNext]_debuggerVars PROVE DebuggerInv'
  OBVIOUS
<1>1. CASE Chunk
  BY <1>1, ChunkStep
<1>2. CASE FeedPacket
  BY <1>2, FeedPacketKeeps
<1>3. CASE FeedDone
  BY <1>3, FeedDoneKeeps
<1>4. CASE ExecuteOn
  BY <1>4, ExecuteStep
<1>5. CASE SendCommand
  BY <1>5, SendKeeps
<1>6. CASE Interrupt
  BY <1>6, InterruptKeeps
<1>7. CASE Receive
  BY <1>7, ReceiveKeeps
<1>8. CASE UNCHANGED debuggerVars
  BY <1>8 DEF debuggerVars, DebuggerInv
<1> QED BY <1>1, <1>2, <1>3, <1>4, <1>5, <1>6, <1>7, <1>8 DEF DebuggerNext

LEMMA NewsFound ==
    ASSUME server.toClient \in Seq(Reply)
    PROVE  LET news == SelectInSeq(server.toClient, IsStopReply)
           IN  /\ news # 0 <=> HasNews(server.toClient, 0)
               /\ news # 0 => news \in 1 .. Len(server.toClient) /\ IsStopReply(server.toClient[news])
<1> DEFINE I == {i \in 1 .. Len(server.toClient) : IsStopReply(server.toClient[i])}
<1>1. SelectInSeq(server.toClient, IsStopReply) = IF I # {} THEN Min(I) ELSE 0
  BY DEF SelectInSeq
<1>2. Len(server.toClient) \in Nat
  OBVIOUS
<1>3. I \in SUBSET Nat /\ \A i : i \in I <=> i \in 1 .. Len(server.toClient) /\ IsStopReply(server.toClient[i])
  BY <1>2
<1>4. HasNews(server.toClient, 0) <=> I # {}
  BY <1>2 DEF HasNews
<1> HIDE DEF I
<1>5. PICK news : news = SelectInSeq(server.toClient, IsStopReply)
  OBVIOUS
<1>6. CASE I = {}
  BY <1>1, <1>4, <1>5, <1>6
<1>7. CASE I # {}
  <2>1. news \in I
    BY <1>1, <1>3, <1>5, <1>7, MinFacts
  <2>2. news \in 1 .. Len(server.toClient) /\ IsStopReply(server.toClient[news]) /\ news # 0
    BY <1>2, <1>3, <2>1
  <2> QED BY <1>4, <1>5, <1>7, <2>2
<1> QED BY <1>6, <1>7

LEMMA DebuggerSuffices == DebuggerInv => NobodyMisled
<1> SUFFICES ASSUME DebuggerInv PROVE NobodyMisled
  OBVIOUS
<1>1. /\ server \in ServerType /\ gdb \in GdbType /\ Ticking(server) /\ server.taken <= 1
      /\ Phase(server, gdb, toServer) /\ server.stopped \in BOOLEAN /\ server.toClient \in Seq(Reply)
  BY DEF DebuggerInv, DebuggerSound, ServerType
<1>2. Carried => server.taken = 1
  BY <1>1 DEF Carried, Phase, Idle, Sent, Refused, Taken, Answering, Awaiting
<1>3. gdb.waits = "answer" => Answering(server, gdb, toServer)
  BY <1>1 DEF Phase, Idle, Sent, Refused, Taken, Awaiting
<1>4. gdb.waits \in {"stop", "break"} => Awaiting(server, gdb, toServer)
  BY <1>1 DEF Phase, Idle, Sent, Refused, Taken, Answering
<1>5. gdb.waits = "nothing" => server.stopped = TRUE
  BY <1>1 DEF Phase, Idle, Sent, Refused, Taken, Answering, Awaiting
<1>6. AnswersExact
  <2>1. \A cmd, r : AnswerFits(server, cmd, r) => Fits(cmd, r)
    BY DEF AnswerFits, Fits
  <2> QED BY <1>1, <1>2, <1>3, <2>1 DEF AnswersExact, Answering
<1>7. BeliefTrue
  <2>1. PICK news : news = SelectInSeq(server.toClient, IsStopReply)
    OBVIOUS
  <2>2. /\ news # 0 <=> HasNews(server.toClient, 0)
        /\ news # 0 => news \in 1 .. Len(server.toClient) /\ IsStopReply(server.toClient[news])
    BY <1>1, <2>1, NewsFound
  <2>3. gdb.waits \in {"nothing", "answer"} => server.stopped
    BY <1>3, <1>5 DEF Answering
  <2>4. server.timeouts = IF server.stopped THEN 0 ELSE 1
    BY <1>1 DEF Ticking
  <2>5. ASSUME gdb.waits \in {"stop", "break"}
        PROVE  /\ server.stopped <=> news # 0
               /\ news # 0 => CASE server.toClient[news][1] = "S05" -> server.pc \in server.bkpt
                                [] server.toClient[news][1] = "T05" -> server.toClient[news][2] = server.pc
                                [] server.toClient[news][1] = "S02" -> gdb.waits = "break"
    <3>1. PICK b : b = (gdb.waits = "break")
      OBVIOUS
    <3>2. NewsTrue(server, server.toClient, 0, b)
      BY <1>4, <2>5, <3>1 DEF Awaiting
    <3>3. server.stopped = TRUE => news # 0
      BY <2>2, <3>2 DEF NewsTrue
    <3>4. news # 0 => server.stopped = TRUE /\ NewsIs(server, server.toClient[news], b) /\ IsStopReply(server.toClient[news])
      <4>1. \A i \in 1 .. Len(server.toClient) :
                i > 0 /\ IsStopReply(server.toClient[i]) => server.stopped = TRUE /\ NewsIs(server, server.toClient[i], b)
        BY <3>2 DEF NewsTrue, NewsSay
      <4>2. news # 0 => news > 0
        BY <1>1, <2>2
      <4> QED BY <2>2, <4>1, <4>2
    <3>5. ASSUME news # 0
          PROVE  CASE server.toClient[news][1] = "S05" -> server.pc \in server.bkpt
                   [] server.toClient[news][1] = "T05" -> server.toClient[news][2] = server.pc
                   [] server.toClient[news][1] = "S02" -> gdb.waits = "break"
      <4>1. PICK r : r = server.toClient[news]
        OBVIOUS
      <4>2. r[1] \in {"S02", "S05", "T05"}
        BY <3>4, <3>5, <4>1 DEF IsStopReply
      <4>3. /\ r[1] = "S05" => server.pc \in server.bkpt
            /\ r[1] = "T05" => r[2] = server.pc
            /\ r[1] = "S02" => gdb.waits = "break"
        BY <3>1, <3>4, <3>5, <4>1 DEF NewsIs
      <4> QED BY <4>1, <4>2, <4>3
    <3> QED BY <1>1, <3>3, <3>4, <3>5
  <2> QED BY <2>1, <2>3, <2>4, <2>5 DEF BeliefTrue
<1> QED BY <1>6, <1>7 DEF NobodyMisled

\* Between any two steps the two ends know what they should of the command under
\* way: it lies in the stream in one piece, or is refused, or is carried out once with
\* its answer behind its acknowledgement, and the timer runs while the program does.
THEOREM DebuggerInvHolds == ASSUME DebuggerConstants PROVE DebuggerSpec => []DebuggerInv
<1>1. DebuggerInit => DebuggerInv
  BY DebuggerStarts
<1>2. DebuggerInv /\ [DebuggerNext]_debuggerVars => DebuggerInv'
  BY DebuggerKeeps
<1> QED BY <1>1, <1>2, PTL DEF DebuggerSpec

\* Whatever the program, the slices and the cuts of the stream, neither GDB nor its
\* user is misled: a command is carried out once, its answer is true when it is read,
\* and GDB's belief of the program is the program's state or about to be corrected
\* (feedData, processGDBMessage, onBreak, Simulator.stop).
THEOREM NobodyIsMisled == ASSUME DebuggerConstants PROVE DebuggerSpec => []NobodyMisled
BY DebuggerInvHolds, DebuggerSuffices, PTL
=============================================================================

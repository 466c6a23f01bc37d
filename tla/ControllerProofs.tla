--------------------------- MODULE ControllerProofs --------------------------
(* Theorems about the controllers of MCProgress.  USB, in device mode and in   *)
(* host mode: what it carries arrives whole and in order, and no setup packet  *)
(* is lost.  The watchdog and SysTick: their alarms lead to a count of 0.      *)
EXTENDS MCProgress, SequenceTheorems, WellFoundedInduction, TLAPS

LEMMA LeastNumber ==
    ASSUME NEW T \in SUBSET Nat, T # {}
    PROVE  \E n \in T : \A m \in T : n <= m
<1> DEFINE Less == {ss \in Nat \X Nat : ss[1] < ss[2]}
<1>1. IsWellFoundedOn(Less, Nat)
  BY NatLessThanWellFounded DEF OpToRel
<1>2. \A n, m \in Nat : <<m, n>> \notin Less => n <= m
  OBVIOUS
<1> HIDE DEF Less
<1>3. PICK n \in T : \A m \in T : <<m, n>> \notin Less
  BY <1>1, WFMin, Zenon
<1>4. QED
  BY <1>2, <1>3
-----------------------------------------------------------------------------
(* USB, device mode: what the handlers leave alone.                          *)

UsbFields ==
    {"sieStatus", "intRaw", "buffStatus", "setupPacket", "outBuffer", "resetAlarm",
     "zeroWrites", "serialWrites", "reads", "readAlarm", "txFIFO", "initialized",
     "descriptorsSize", "descriptors", "endpoints", "serialData"}

\* t and s agree on how far the enumeration has come,
SameHost(t, s) ==
    /\ t.descriptorsSize = s.descriptorsSize /\ t.descriptors = s.descriptors
    /\ t.endpoints = s.endpoints /\ t.initialized = s.initialized

\* on the setup packet,
SameSetup(t, s) == t.sieStatus = s.sieStatus /\ t.setupPacket = s.setupPacket

\* on the bytes for the firmware, and on those from it.
SameReads(t, s) ==
    /\ t.reads = s.reads /\ t.readAlarm = s.readAlarm /\ t.txFIFO = s.txFIFO
    /\ t.outBuffer = s.outBuffer
SameWrites(t, s) == t.serialWrites = s.serialWrites /\ t.serialData = s.serialData

SameAlarms(t, s) == t.zeroWrites = s.zeroWrites /\ t.resetAlarm = s.resetAlarm

IsUsb(s) == DOMAIN s = UsbFields

\* The interrupts follow the status.
Follows(s) == s.intRaw \ {"BUFF_STATUS"} = s.sieStatus

LEMMA SieUpdated ==
    ASSUME NEW s, IsUsb(s)
    PROVE  LET t == sieStatusUpdated(s)
           IN  /\ IsUsb(t) /\ SameHost(t, s) /\ SameSetup(t, s) /\ SameReads(t, s)
               /\ SameWrites(t, s) /\ SameAlarms(t, s) /\ t.buffStatus = s.buffStatus
               /\ "BUFF_STATUS" \notin s.sieStatus => Follows(t)
BY DEF sieStatusUpdated, IsUsb, UsbFields, SameHost, SameSetup, SameReads, SameWrites,
       SameAlarms, Follows

LEMMA BuffUpdated ==
    ASSUME NEW s, IsUsb(s)
    PROVE  LET t == buffStatusUpdated(s)
           IN  /\ IsUsb(t) /\ SameHost(t, s) /\ SameSetup(t, s) /\ SameReads(t, s)
               /\ SameWrites(t, s) /\ SameAlarms(t, s) /\ t.buffStatus = s.buffStatus
               /\ Follows(s) => Follows(t)
BY DEF buffStatusUpdated, IsUsb, UsbFields, SameHost, SameSetup, SameReads, SameWrites,
       SameAlarms, Follows

LEMMA SetupSent ==
    ASSUME NEW s, IsUsb(s), NEW packet
    PROVE  LET t == sendSetupPacket(s, packet)
           IN  /\ IsUsb(t) /\ SameHost(t, s) /\ SameReads(t, s)
               /\ SameWrites(t, s) /\ SameAlarms(t, s) /\ t.buffStatus = s.buffStatus
               /\ t.setupPacket = packet /\ t.sieStatus = s.sieStatus \cup {"SETUP_REC"}
               /\ "BUFF_STATUS" \notin s.sieStatus => Follows(t)
<1> DEFINE m == [s EXCEPT !.setupPacket = packet, !.sieStatus = @ \cup {"SETUP_REC"}]
<1>1. /\ IsUsb(m) /\ SameHost(m, s) /\ SameReads(m, s) /\ SameWrites(m, s) /\ SameAlarms(m, s)
      /\ m.buffStatus = s.buffStatus /\ m.setupPacket = packet
      /\ m.sieStatus = s.sieStatus \cup {"SETUP_REC"}
  BY DEF IsUsb, UsbFields, SameHost, SameReads, SameWrites, SameAlarms
<1>2. sendSetupPacket(s, packet) = sieStatusUpdated(m)
  BY DEF sendSetupPacket
<1> HIDE DEF m
<1> QED
  BY <1>1, <1>2, SieUpdated DEF SameHost, SameSetup, SameReads, SameWrites, SameAlarms

LEMMA Indicated ==
    ASSUME NEW s, IsUsb(s), NEW buffer
    PROVE  LET t == indicateBufferReady(s, buffer)
           IN  /\ IsUsb(t) /\ SameHost(t, s) /\ SameSetup(t, s) /\ SameReads(t, s)
               /\ SameWrites(t, s) /\ SameAlarms(t, s)
               /\ t.buffStatus = s.buffStatus \cup {buffer}
               /\ Follows(s) => Follows(t)
<1> DEFINE m == [s EXCEPT !.buffStatus = @ \cup {buffer}]
<1>1. /\ IsUsb(m) /\ SameHost(m, s) /\ SameSetup(m, s) /\ SameReads(m, s) /\ SameWrites(m, s)
      /\ SameAlarms(m, s) /\ m.buffStatus = s.buffStatus \cup {buffer} /\ m.intRaw = s.intRaw
  BY DEF IsUsb, UsbFields, SameHost, SameSetup, SameReads, SameWrites, SameAlarms
<1>2. indicateBufferReady(s, buffer) = buffStatusUpdated(m)
  BY DEF indicateBufferReady
<1>3. Follows(s) => Follows(m)
  BY <1>1 DEF Follows, SameSetup
<1> HIDE DEF m
<1> QED
  BY <1>1, <1>2, <1>3, BuffUpdated DEF SameHost, SameSetup, SameReads, SameWrites, SameAlarms

LEMMA ZeroWritten ==
    ASSUME NEW s, IsUsb(s), NEW n
    PROVE  LET t == DPRAMUpdated(s, In(0), <<n>>)
           IN  /\ IsUsb(t) /\ SameHost(t, s) /\ SameSetup(t, s) /\ SameReads(t, s)
               /\ SameWrites(t, s) /\ t.resetAlarm = s.resetAlarm
               /\ t.zeroWrites = Append(s.zeroWrites, n)
               /\ t.buffStatus = s.buffStatus \cup {In(0)}
               /\ Follows(s) => Follows(t)
<1> DEFINE m == indicateBufferReady(s, In(0))
           t == [m EXCEPT !.zeroWrites = Append(@, n)]
<1>1. DPRAMUpdated(s, In(0), <<n>>) = t
  <2>1. DPRAMUpdated(s, In(0), <<n>>) = Available(s, In(0), n)
    BY DEF DPRAMUpdated
  <2>2. In(0)[1] = 0 /\ In(0)[2] # "out"
    BY DEF In
  <2> QED BY <2>1, <2>2 DEF Available, Written
<1>2. /\ IsUsb(m) /\ SameHost(m, s) /\ SameSetup(m, s) /\ SameReads(m, s)
      /\ SameWrites(m, s) /\ SameAlarms(m, s) /\ m.buffStatus = s.buffStatus \cup {In(0)}
      /\ Follows(s) => Follows(m)
  BY Indicated
<1> HIDE DEF m
<1>3. /\ IsUsb(t) /\ SameHost(t, m) /\ SameSetup(t, m) /\ SameReads(t, m) /\ SameWrites(t, m)
      /\ t.resetAlarm = m.resetAlarm /\ t.zeroWrites = Append(m.zeroWrites, n)
      /\ t.buffStatus = m.buffStatus /\ t.intRaw = m.intRaw
  BY <1>2 DEF IsUsb, UsbFields, SameHost, SameSetup, SameReads, SameWrites
<1> HIDE DEF t
<1>4. Follows(s) => Follows(t)
  BY <1>2, <1>3 DEF Follows, SameSetup
<1> QED
  BY <1>1, <1>2, <1>3, <1>4 DEF SameHost, SameSetup, SameReads, SameWrites, SameAlarms

LEMMA SerialWritten ==
    ASSUME NEW s, IsUsb(s), NEW packet
    PROVE  LET t == Available(s, In(Serial), packet)
           IN  /\ IsUsb(t) /\ SameHost(t, s) /\ SameSetup(t, s) /\ SameReads(t, s)
               /\ SameAlarms(t, s)
               /\ t.serialWrites = Append(s.serialWrites, packet) /\ t.serialData = s.serialData
               /\ t.buffStatus = s.buffStatus \cup {In(Serial)}
               /\ Follows(s) => Follows(t)
<1> DEFINE m == indicateBufferReady(s, In(Serial))
           t == [m EXCEPT !.serialWrites = Append(@, packet)]
<1>1. Available(s, In(Serial), packet) = t
  <2>1. In(Serial)[1] = Serial /\ In(Serial)[2] # "out"
    BY DEF In
  <2>2. Serial # 0
    BY DEF Serial
  <2> QED BY <2>1, <2>2 DEF Available, Written
<1>2. /\ IsUsb(m) /\ SameHost(m, s) /\ SameSetup(m, s) /\ SameReads(m, s)
      /\ SameWrites(m, s) /\ SameAlarms(m, s) /\ m.buffStatus = s.buffStatus \cup {In(Serial)}
      /\ Follows(s) => Follows(m)
  BY Indicated
<1> HIDE DEF m
<1>3. /\ IsUsb(t) /\ SameHost(t, m) /\ SameSetup(t, m) /\ SameReads(t, m) /\ SameAlarms(t, m)
      /\ t.serialData = m.serialData /\ t.serialWrites = Append(m.serialWrites, packet)
      /\ t.buffStatus = m.buffStatus /\ t.intRaw = m.intRaw
  BY <1>2 DEF IsUsb, UsbFields, SameHost, SameSetup, SameReads, SameAlarms
<1> HIDE DEF t
<1>4. Follows(s) => Follows(t)
  BY <1>2, <1>3 DEF Follows, SameSetup
<1> QED
  BY <1>1, <1>2, <1>3, <1>4 DEF SameHost, SameSetup, SameReads, SameWrites, SameAlarms

LEMMA LeastOfTwo ==
    ASSUME NEW a \in Nat, NEW b \in Nat
    PROVE  Min({a, b}) = IF a <= b THEN a ELSE b
BY DEF Min

\* A packet of the host for the serial port.
LEMMA SerialRequested ==
    ASSUME NEW s, IsUsb(s), s.txFIFO \in Seq(Nat), NEW size \in Nat
    PROVE  LET t == DPRAMUpdated(s, Out(Serial), <<size>>)
           IN  /\ IsUsb(t) /\ SameHost(t, s) /\ SameSetup(t, s) /\ SameWrites(t, s)
               /\ SameAlarms(t, s) /\ t.buffStatus = s.buffStatus
               /\ t.outBuffer = s.outBuffer
               /\ Follows(s) => Follows(t)
               /\ ~s.endpoints => SameReads(t, s)
               /\ s.endpoints =>
                     \E n \in 0 .. Len(s.txFIFO) :
                        /\ n <= size
                        /\ t.txFIFO = SubSeq(s.txFIFO, n + 1, Len(s.txFIFO))
                        /\ t.reads = Append(s.reads, SubSeq(s.txFIFO, 1, n)) /\ t.readAlarm
<1>1. DPRAMUpdated(s, Out(Serial), <<size>>) = onEndpointRead(s, Serial, size)
  <2>1. DPRAMUpdated(s, Out(Serial), <<size>>) = Available(s, Out(Serial), size)
    BY DEF DPRAMUpdated
  <2>2. Out(Serial)[1] = Serial /\ Out(Serial)[2] = "out"
    BY DEF Out
  <2> QED BY <2>1, <2>2 DEF Available
<1>2. CASE ~s.endpoints
  BY <1>1, <1>2 DEF onEndpointRead, SameHost, SameSetup, SameWrites, SameAlarms, SameReads
<1>3. CASE s.endpoints
  <2> DEFINE n == Min({size, Len(s.txFIFO)})
             t == [s EXCEPT !.txFIFO = SubSeq(@, n + 1, Len(@)),
                            !.reads = Append(@, SubSeq(s.txFIFO, 1, n)),
                            !.readAlarm = TRUE]
  <2>1. onEndpointRead(s, Serial, size) = t
    BY <1>3 DEF onEndpointRead
  <2>2. Len(s.txFIFO) \in Nat
    OBVIOUS
  <2>3. n \in 0 .. Len(s.txFIFO) /\ n <= size
    BY <2>2, LeastOfTwo
  <2> HIDE DEF n
  <2>4. /\ IsUsb(t) /\ SameHost(t, s) /\ SameSetup(t, s) /\ SameWrites(t, s)
        /\ SameAlarms(t, s) /\ t.buffStatus = s.buffStatus /\ t.outBuffer = s.outBuffer
        /\ t.intRaw = s.intRaw /\ t.readAlarm
        /\ t.txFIFO = SubSeq(s.txFIFO, n + 1, Len(s.txFIFO))
        /\ t.reads = Append(s.reads, SubSeq(s.txFIFO, 1, n))
    BY DEF IsUsb, UsbFields, SameHost, SameSetup, SameWrites, SameAlarms
  <2> HIDE DEF t
  <2>5. Follows(s) => Follows(t)
    BY <2>4 DEF Follows, SameSetup
  <2> QED BY <1>1, <1>3, <2>1, <2>3, <2>4, <2>5
<1> QED BY <1>2, <1>3

\* Endpoint 0 has nothing for the firmware.
LEMMA ZeroRequested ==
    ASSUME NEW s, NEW size
    PROVE  DPRAMUpdated(s, Out(0), <<size>>) = s
<1>1. DPRAMUpdated(s, Out(0), <<size>>) = Available(s, Out(0), size)
  BY DEF DPRAMUpdated
<1>2. Out(0)[1] = 0 /\ Out(0)[2] = "out" /\ 0 # Serial
  BY DEF Out, Serial
<1> QED BY <1>1, <1>2 DEF Available, onEndpointRead

LEMMA BuffersDiffer ==
    /\ In(0) # In(Serial) /\ In(0) # Out(Serial) /\ In(Serial) # Out(Serial)
<1>1. In(0)[1] = 0 /\ In(0)[2] = "in" /\ In(Serial)[1] = 1 /\ In(Serial)[2] = "in"
  BY DEF In, Serial
<1>2. Out(Serial)[1] = 1 /\ Out(Serial)[2] = "out"
  BY DEF Out, Serial
<1>3. "in" # "out"
  OBVIOUS
<1> QED BY <1>1, <1>2, <1>3

LEMMA BufferCleared ==
    ASSUME IsUsb(u), NEW buffer
    PROVE  LET t == Cleared(buffer)
           IN  /\ IsUsb(t) /\ SameHost(t, u) /\ SameSetup(t, u) /\ SameReads(t, u)
               /\ SameWrites(t, u) /\ SameAlarms(t, u)
               /\ t.buffStatus = u.buffStatus \ {buffer}
               /\ Follows(u) => Follows(t)
<1> DEFINE m == [u EXCEPT !.buffStatus = @ \ {buffer}]
<1>1. /\ IsUsb(m) /\ SameHost(m, u) /\ SameSetup(m, u) /\ SameReads(m, u) /\ SameWrites(m, u)
      /\ SameAlarms(m, u) /\ m.buffStatus = u.buffStatus \ {buffer} /\ m.intRaw = u.intRaw
  BY DEF IsUsb, UsbFields, SameHost, SameSetup, SameReads, SameWrites, SameAlarms
<1>2. Cleared(buffer) = buffStatusUpdated(m)
  BY DEF Cleared
<1>3. Follows(u) => Follows(m)
  BY <1>1 DEF Follows, SameSetup
<1> HIDE DEF m
<1> QED
  BY <1>1, <1>2, <1>3, BuffUpdated DEF SameHost, SameSetup, SameReads, SameWrites, SameAlarms

-----------------------------------------------------------------------------
(* USB, device mode: the enumeration goes in lockstep.  One setup packet at a   *)
(* time is with the firmware, and the host sends the next when it has the answer. *)

SetAddress == <<"SET_ADDRESS">>
GetHeader == <<"GET_DESCRIPTOR", HeaderSize>>
GetDescriptor == <<"GET_DESCRIPTOR", fw.size>>
SetConfiguration == <<"SET_CONFIGURATION">>
SetLineState == <<"SET_CONTROL_LINE_STATE">>

\* The setup packet p is in the controller, or the firmware has taken it.
InController(p) ==
    /\ "SETUP_REC" \in u.sieStatus /\ u.setupPacket = p
    /\ fw.read = <<>> \/ fw.read = p
    /\ fw.setups = <<>>
Taken(p) == "SETUP_REC" \notin u.sieStatus /\ fw.read = <<>> /\ fw.setups = <<p>>
Asked(p) == (InController(p) \/ Taken(p)) /\ u.zeroWrites = <<>> /\ fw.left = 0

\* The firmware has answered, and these packets wait for the host.
NoneAsked == "SETUP_REC" \notin u.sieStatus /\ fw.read = <<>> /\ fw.setups = <<>>
With(packets) == NoneAsked /\ u.zeroWrites = packets /\ fw.left = 0

\* c[i] is how much of the descriptor the host has with the first i of them.
Counts(c) ==
    LET n == Len(u.zeroWrites)
    IN  /\ u.zeroWrites \in Seq(Nat) /\ c \in [0 .. n -> Nat]
        /\ c[0] = u.descriptors
        /\ \A i \in 1 .. n : /\ c[i] = c[i - 1] + u.zeroWrites[i] /\ c[i - 1] < fw.size
                             /\ u.zeroWrites[i] > 0
                             /\ u.zeroWrites[i] = 1 => i = n /\ fw.left = 0
        /\ c[n] + fw.left <= fw.size

Knows(n, d, e, i) ==
    u.descriptorsSize = n /\ u.descriptors = d /\ u.endpoints = e /\ u.initialized = i

On == fw.on /\ ~u.resetAlarm /\ "BUS_RESET" \notin u.sieStatus

Fresh == ~fw.configured /\ ~fw.connected

Off == Fresh /\ Knows(0, 0, FALSE, FALSE) /\ With(<<>>)
Addressing ==
    On /\ Fresh /\ Knows(0, 0, FALSE, FALSE) /\ (Asked(SetAddress) \/ With(<<0>>))
Sizing ==
    On /\ Fresh /\ Knows(0, 0, FALSE, FALSE) /\ (Asked(GetHeader) \/ With(<<HeaderSize>>))
Describing ==
    /\ On /\ Fresh /\ Knows(fw.size, u.descriptors, FALSE, FALSE)
    /\ u.descriptors \in Nat /\ u.descriptors < fw.size
    /\ \/ Asked(GetDescriptor) /\ u.descriptors = 0
       \/ NoneAsked /\ \E c : Counts(c)
Configuring ==
    /\ On /\ Knows(fw.size, fw.size, TRUE, FALSE)
    /\ (Asked(SetConfiguration) /\ Fresh) \/ With(<<0>>)
Connecting ==
    /\ On /\ Knows(fw.size, fw.size, TRUE, TRUE)
    /\ Asked(SetLineState) \/ With(<<0>>) \/ With(<<>>)

Lockstep == Off \/ Addressing \/ Sizing \/ Describing \/ Configuring \/ Connecting

ResetOnce ==
    /\ u.resetAlarm => fw.on /\ "BUS_RESET" \notin u.sieStatus
    /\ "BUS_RESET" \in u.sieStatus => fw.on

FwFields ==
    {"size", "on", "read", "setups", "left", "configured", "connected", "writing",
     "written", "pairs", "got"}

UsbShaped ==
    /\ IsUsb(u) /\ Follows(u) /\ "BUFF_STATUS" \notin u.sieStatus
    /\ DOMAIN fw = FwFields /\ fw.left \in Nat /\ fw.size \in DescriptorSizes

\* A step that is not about the enumeration.
SameRound ==
    /\ fw'.size = fw.size /\ fw'.on = fw.on /\ fw'.read = fw.read /\ fw'.setups = fw.setups
    /\ fw'.left = fw.left /\ fw'.configured = fw.configured /\ fw'.connected = fw.connected
Unmoved ==
    /\ SameHost(u', u) /\ SameAlarms(u', u) /\ u'.setupPacket = u.setupPacket /\ SameRound
    /\ u'.sieStatus \ {"CONNECTED"} = u.sieStatus \ {"CONNECTED"}

LEMMA UnmovedKeeps ==
    ASSUME Lockstep, ResetOnce, Unmoved
    PROVE  Lockstep' /\ ResetOnce'
<1>1. /\ "SETUP_REC" \in u'.sieStatus <=> "SETUP_REC" \in u.sieStatus
      /\ "BUS_RESET" \in u'.sieStatus <=> "BUS_RESET" \in u.sieStatus
  BY DEF Unmoved
<1>2. /\ u'.zeroWrites = u.zeroWrites /\ u'.resetAlarm = u.resetAlarm
      /\ u'.setupPacket = u.setupPacket /\ fw'.size = fw.size /\ fw'.on = fw.on
      /\ fw'.read = fw.read /\ fw'.setups = fw.setups /\ fw'.left = fw.left
      /\ u'.descriptors = u.descriptors /\ u'.descriptorsSize = u.descriptorsSize
      /\ u'.endpoints = u.endpoints /\ u'.initialized = u.initialized
      /\ fw'.configured = fw.configured /\ fw'.connected = fw.connected
  BY DEF Unmoved, SameRound, SameAlarms, SameHost
<1>3. NoneAsked => NoneAsked'
  BY <1>1, <1>2 DEF NoneAsked
<1>5. (\E c : Counts(c)) => (\E c : Counts(c))'
  <2> SUFFICES ASSUME NEW c, Counts(c) PROVE Counts(c)'
    OBVIOUS
  <2> QED BY <1>2 DEF Counts
<1>6. On => On'
  BY <1>1, <1>2 DEF On
<1>9. ResetOnce'
  BY <1>1, <1>2 DEF ResetOnce
<1> SUFFICES Lockstep'
  BY <1>9
<1>10. CASE Off
  BY <1>2, <1>3, <1>10 DEF Lockstep, Off, Fresh, Knows, With
<1>11. CASE Addressing
  BY <1>1, <1>2, <1>3, <1>6, <1>11
     DEF Lockstep, Addressing, Fresh, Knows, With, Asked, InController, Taken, SetAddress
<1>12. CASE Sizing
  BY <1>1, <1>2, <1>3, <1>6, <1>12
     DEF Lockstep, Sizing, Fresh, Knows, With, Asked, InController, Taken, GetHeader
<1>13. CASE Describing
  BY <1>1, <1>2, <1>3, <1>5, <1>6, <1>13
     DEF Lockstep, Describing, Fresh, Knows, Asked, InController, Taken, GetDescriptor
<1>14. CASE Configuring
  BY <1>1, <1>2, <1>3, <1>6, <1>14
     DEF Lockstep, Configuring, Fresh, Knows, With, Asked, InController, Taken, SetConfiguration
<1>15. CASE Connecting
  BY <1>1, <1>2, <1>3, <1>6, <1>15
     DEF Lockstep, Connecting, Knows, With, Asked, InController, Taken, SetLineState
<1> QED
  BY <1>10, <1>11, <1>12, <1>13, <1>14, <1>15 DEF Lockstep

LEMMA ConnectedKnows == Lockstep => (fw.connected => u.endpoints)
BY DEF Lockstep, Off, Addressing, Sizing, Describing, Configuring, Connecting, Fresh, Knows

-----------------------------------------------------------------------------
(* USB, device mode: what each step of the enumeration does.                  *)

\* A step that leaves the serial port alone.
SerialAlone ==
    /\ SameReads(u', u) /\ SameWrites(u', u)
    /\ Out(Serial) \in u'.buffStatus <=> Out(Serial) \in u.buffStatus
    /\ fw'.got = fw.got /\ fw'.written = fw.written /\ fw'.pairs = fw.pairs
    /\ fw'.configured = fw.configured /\ (fw.connected => fw'.connected) /\ sent' = sent

LEMMA ResetAlarmDoes ==
    ASSUME UsbShaped, ResetAlarm
    PROVE  /\ IsUsb(u') /\ Follows(u') /\ SameHost(u', u) /\ SerialAlone
           /\ u'.zeroWrites = u.zeroWrites /\ ~u'.resetAlarm
           /\ u'.setupPacket = u.setupPacket /\ u'.sieStatus = u.sieStatus \cup {"BUS_RESET"}
<1> DEFINE m == [u EXCEPT !.resetAlarm = FALSE, !.sieStatus = @ \cup {"BUS_RESET"}]
<1>1. /\ IsUsb(m) /\ SameHost(m, u) /\ SameReads(m, u) /\ SameWrites(m, u)
      /\ m.zeroWrites = u.zeroWrites /\ ~m.resetAlarm /\ m.setupPacket = u.setupPacket
      /\ m.sieStatus = u.sieStatus \cup {"BUS_RESET"} /\ m.buffStatus = u.buffStatus
  BY DEF UsbShaped, IsUsb, UsbFields, SameHost, SameReads, SameWrites
<1>2. u' = sieStatusUpdated(m) /\ fw' = fw /\ sent' = sent
  BY DEF ResetAlarm
<1>3. "BUFF_STATUS" \notin m.sieStatus
  BY <1>1 DEF UsbShaped
<1> HIDE DEF m
<1> QED
  BY <1>1, <1>2, <1>3, SieUpdated
     DEF SerialAlone, SameHost, SameSetup, SameReads, SameWrites, SameAlarms

LEMMA ClearBusResetDoes ==
    ASSUME UsbShaped, ClearBusReset
    PROVE  /\ "BUS_RESET" \in u.sieStatus /\ fw' = fw
           /\ IsUsb(u') /\ Follows(u') /\ SameHost(u', u) /\ SerialAlone
           /\ SameAlarms(u', u) /\ u'.setupPacket = SetAddress
           /\ u'.sieStatus = (u.sieStatus \ {"BUS_RESET"}) \cup {"SETUP_REC", "CONNECTED"}
<1> DEFINE m == [u EXCEPT !.sieStatus = @ \ {"BUS_RESET"}]
           s == sendSetupPacket(m, SetAddress)
           t == [s EXCEPT !.sieStatus = @ \cup {"CONNECTED"}]
<1>1. /\ IsUsb(m) /\ SameHost(m, u) /\ SameReads(m, u) /\ SameWrites(m, u) /\ SameAlarms(m, u)
      /\ m.sieStatus = u.sieStatus \ {"BUS_RESET"} /\ m.buffStatus = u.buffStatus
  BY DEF UsbShaped, IsUsb, UsbFields, SameHost, SameReads, SameWrites, SameAlarms
<1>2. u' = sieStatusUpdated(t) /\ fw' = fw /\ sent' = sent /\ "BUS_RESET" \in u.intRaw
  BY DEF ClearBusReset, SetAddress
<1> HIDE DEF m
<1>3. /\ IsUsb(s) /\ SameHost(s, m) /\ SameReads(s, m) /\ SameWrites(s, m) /\ SameAlarms(s, m)
      /\ s.buffStatus = m.buffStatus /\ s.setupPacket = SetAddress
      /\ s.sieStatus = m.sieStatus \cup {"SETUP_REC"}
  BY <1>1, SetupSent
<1> HIDE DEF s
<1>4. /\ IsUsb(t) /\ SameHost(t, s) /\ SameReads(t, s) /\ SameWrites(t, s) /\ SameAlarms(t, s)
      /\ t.buffStatus = s.buffStatus /\ t.setupPacket = s.setupPacket
      /\ t.sieStatus = s.sieStatus \cup {"CONNECTED"}
  BY <1>3 DEF IsUsb, UsbFields, SameHost, SameReads, SameWrites, SameAlarms
<1> HIDE DEF t
<1>5. "BUFF_STATUS" \notin t.sieStatus /\ "BUS_RESET" \in u.sieStatus
  BY <1>1, <1>2, <1>3, <1>4 DEF UsbShaped, Follows
<1>6. /\ IsUsb(u') /\ SameHost(u', t) /\ SameSetup(u', t) /\ SameReads(u', t)
      /\ SameWrites(u', t) /\ SameAlarms(u', t) /\ u'.buffStatus = t.buffStatus /\ Follows(u')
  BY <1>2, <1>4, <1>5, SieUpdated
<1>7. u'.sieStatus = (u.sieStatus \ {"BUS_RESET"}) \cup {"SETUP_REC", "CONNECTED"}
  BY <1>1, <1>3, <1>4, <1>6 DEF SameSetup
<1> QED
  BY <1>1, <1>2, <1>3, <1>4, <1>5, <1>6, <1>7
     DEF SerialAlone, SameHost, SameSetup, SameReads, SameWrites, SameAlarms

\* The status bit b, which the firmware clears.
LEMMA StatusCleared ==
    ASSUME UsbShaped, NEW b
    PROVE  LET t == sieStatusUpdated([u EXCEPT !.sieStatus = @ \ {b}])
           IN  /\ IsUsb(t) /\ Follows(t) /\ SameHost(t, u) /\ SameReads(t, u)
               /\ SameWrites(t, u) /\ SameAlarms(t, u) /\ t.setupPacket = u.setupPacket
               /\ t.sieStatus = u.sieStatus \ {b} /\ t.buffStatus = u.buffStatus
<1> DEFINE m == [u EXCEPT !.sieStatus = @ \ {b}]
<1>1. /\ IsUsb(m) /\ SameHost(m, u) /\ SameReads(m, u) /\ SameWrites(m, u) /\ SameAlarms(m, u)
      /\ m.sieStatus = u.sieStatus \ {b} /\ m.buffStatus = u.buffStatus
      /\ m.setupPacket = u.setupPacket
  BY DEF UsbShaped, IsUsb, UsbFields, SameHost, SameReads, SameWrites, SameAlarms
<1>2. "BUFF_STATUS" \notin m.sieStatus
  BY <1>1 DEF UsbShaped
<1> HIDE DEF m
<1>3. /\ IsUsb(sieStatusUpdated(m)) /\ SameHost(sieStatusUpdated(m), m)
      /\ SameSetup(sieStatusUpdated(m), m) /\ SameReads(sieStatusUpdated(m), m)
      /\ SameWrites(sieStatusUpdated(m), m) /\ SameAlarms(sieStatusUpdated(m), m)
      /\ sieStatusUpdated(m).buffStatus = m.buffStatus /\ Follows(sieStatusUpdated(m))
  BY <1>1, <1>2, SieUpdated
<1>4. sieStatusUpdated([u EXCEPT !.sieStatus = @ \ {b}]) = sieStatusUpdated(m)
  BY DEF m
<1> QED
  BY <1>1, <1>3, <1>4 DEF SameHost, SameSetup, SameReads, SameWrites, SameAlarms

LEMMA ReadSetupPacketDoes ==
    ASSUME UsbShaped, ReadSetupPacket
    PROVE  /\ "SETUP_REC" \in u.sieStatus /\ fw.read = <<>> /\ u' = u /\ SerialAlone
           /\ fw'.read = u.setupPacket /\ DOMAIN fw' = FwFields
           /\ fw'.size = fw.size /\ fw'.on = fw.on /\ fw'.setups = fw.setups /\ fw'.left = fw.left
           /\ fw'.configured = fw.configured /\ fw'.connected = fw.connected
BY DEF UsbShaped, ReadSetupPacket, Follows, FwFields, SerialAlone, SameReads, SameWrites

LEMMA ClearSetupRecDoes ==
    ASSUME UsbShaped, ClearSetupRec
    PROVE  /\ fw.read # <<>> /\ fw'.read = <<>> /\ fw'.setups = Append(fw.setups, fw.read)
           /\ DOMAIN fw' = FwFields
           /\ fw'.size = fw.size /\ fw'.on = fw.on /\ fw'.left = fw.left
           /\ fw'.configured = fw.configured /\ fw'.connected = fw.connected
           /\ IsUsb(u') /\ Follows(u') /\ SameHost(u', u) /\ SerialAlone
           /\ SameAlarms(u', u) /\ u'.setupPacket = u.setupPacket
           /\ u'.sieStatus = u.sieStatus \ {"SETUP_REC"}
<1>1. /\ fw.read # <<>> /\ fw'.read = <<>> /\ fw'.setups = Append(fw.setups, fw.read)
      /\ DOMAIN fw' = FwFields
      /\ fw'.size = fw.size /\ fw'.on = fw.on /\ fw'.left = fw.left
      /\ fw'.configured = fw.configured /\ fw'.connected = fw.connected
      /\ fw'.got = fw.got /\ fw'.written = fw.written /\ fw'.pairs = fw.pairs /\ sent' = sent
  BY DEF ClearSetupRec, UsbShaped, FwFields
<1>2. u' = sieStatusUpdated([u EXCEPT !.sieStatus = @ \ {"SETUP_REC"}])
  BY DEF ClearSetupRec
<1>3. /\ IsUsb(u') /\ Follows(u') /\ SameHost(u', u) /\ SameReads(u', u)
      /\ SameWrites(u', u) /\ SameAlarms(u', u) /\ u'.setupPacket = u.setupPacket
      /\ u'.sieStatus = u.sieStatus \ {"SETUP_REC"} /\ u'.buffStatus = u.buffStatus
  BY <1>2, StatusCleared
<1> QED BY <1>1, <1>3 DEF SerialAlone

LEMMA ClearConnectedDoes ==
    ASSUME UsbShaped, ClearConnected
    PROVE  /\ IsUsb(u') /\ Follows(u') /\ SerialAlone /\ Unmoved /\ fw' = fw
           /\ u'.sieStatus = u.sieStatus \ {"CONNECTED"}
<1>1. u' = sieStatusUpdated([u EXCEPT !.sieStatus = @ \ {"CONNECTED"}]) /\ fw' = fw
      /\ sent' = sent
  BY DEF ClearConnected
<1>2. /\ IsUsb(u') /\ Follows(u') /\ SameHost(u', u) /\ SameReads(u', u)
      /\ SameWrites(u', u) /\ SameAlarms(u', u) /\ u'.setupPacket = u.setupPacket
      /\ u'.sieStatus = u.sieStatus \ {"CONNECTED"} /\ u'.buffStatus = u.buffStatus
  BY <1>1, StatusCleared
<1> QED BY <1>1, <1>2 DEF SerialAlone, Unmoved, SameRound

\* What a packet that is handed over leaves alone.
Beside(t, s) ==
    /\ IsUsb(t) /\ Follows(t) /\ SameReads(t, s) /\ SameWrites(t, s) /\ SameAlarms(t, s)
    /\ t.buffStatus = s.buffStatus

\* The host sends the next setup packet, or none.
Announces(t, s, packet) ==
    t.setupPacket = packet /\ t.sieStatus = s.sieStatus \cup {"SETUP_REC"}

IsSettled(s) == IsUsb(s) /\ Follows(s) /\ "BUFF_STATUS" \notin s.sieStatus

LEMMA Announced ==
    ASSUME NEW s, IsSettled(s), NEW packet
    PROVE  LET t == sendSetupPacket(s, packet)
           IN  Beside(t, s) /\ SameHost(t, s) /\ Announces(t, s, packet)
BY SetupSent DEF IsSettled, Beside, Announces

LEMMA FirstAcknowledged ==
    ASSUME NEW s, IsSettled(s), s.descriptorsSize = 0, NEW size
    PROVE  LET t == onEndpointZeroWrite(s, size, 0)
           IN  Beside(t, s) /\ SameHost(t, s) /\ Announces(t, s, GetHeader)
<1>1. onEndpointZeroWrite(s, size, 0) = sendSetupPacket(s, GetHeader)
  BY DEF onEndpointZeroWrite, Acknowledged, GetHeader
<1> QED BY <1>1, Announced

LEMMA ConfigurationAcknowledged ==
    ASSUME NEW s, IsSettled(s), s.descriptorsSize # 0, ~s.initialized, NEW size
    PROVE  LET t == onEndpointZeroWrite(s, size, 0)
           IN  /\ Beside(t, s) /\ Announces(t, s, SetLineState)
               /\ t.descriptorsSize = s.descriptorsSize /\ t.descriptors = s.descriptors
               /\ t.endpoints = s.endpoints /\ t.initialized = TRUE
<1> DEFINE m == sendSetupPacket(s, SetLineState)
           t == [m EXCEPT !.initialized = TRUE]
<1>1. onEndpointZeroWrite(s, size, 0) = t
  BY DEF onEndpointZeroWrite, Acknowledged, SetLineState
<1>2. Beside(m, s) /\ SameHost(m, s) /\ Announces(m, s, SetLineState)
  BY Announced
<1> HIDE DEF m
<1>3. /\ IsUsb(t) /\ t.intRaw = m.intRaw /\ SameSetup(t, m) /\ SameReads(t, m)
      /\ SameWrites(t, m) /\ SameAlarms(t, m) /\ t.buffStatus = m.buffStatus
      /\ t.descriptorsSize = m.descriptorsSize /\ t.descriptors = m.descriptors
      /\ t.endpoints = m.endpoints /\ t.initialized = TRUE
  BY <1>2 DEF Beside, IsUsb, UsbFields, SameSetup, SameReads, SameWrites, SameAlarms
<1> HIDE DEF t
<1> QED
  BY <1>1, <1>2, <1>3
     DEF Beside, Announces, Follows, SameHost, SameSetup, SameReads, SameWrites, SameAlarms

LEMMA LastAcknowledged ==
    ASSUME NEW s, s.descriptorsSize # 0, s.initialized, NEW size
    PROVE  onEndpointZeroWrite(s, size, 0) = s
BY DEF onEndpointZeroWrite, Acknowledged

\* The header of the descriptor tells the host how long it is.
LEMMA HeaderDescribed ==
    ASSUME NEW s, IsSettled(s), s.descriptorsSize = 0, s.descriptors = 0,
           NEW size \in Nat, size > 0
    PROVE  LET t == onEndpointZeroWrite(s, size, HeaderSize)
           IN  /\ Beside(t, s) /\ Announces(t, s, <<"GET_DESCRIPTOR", size>>)
               /\ t.descriptorsSize = size /\ t.descriptors = 0
               /\ t.endpoints = s.endpoints /\ t.initialized = s.initialized
<1> DEFINE m == [s EXCEPT !.descriptorsSize = size]
           t == sendSetupPacket(m, <<"GET_DESCRIPTOR", size>>)
<1>1. /\ IsSettled(m) /\ m.descriptorsSize = size /\ m.descriptors = 0
      /\ m.endpoints = s.endpoints /\ m.initialized = s.initialized /\ SameReads(m, s)
      /\ SameWrites(m, s) /\ SameAlarms(m, s) /\ m.buffStatus = s.buffStatus
      /\ m.sieStatus = s.sieStatus
  BY DEF IsSettled, IsUsb, UsbFields, Follows, SameReads, SameWrites, SameAlarms
<1> HIDE DEF m
<1>2. Beside(t, m) /\ SameHost(t, m) /\ Announces(t, m, <<"GET_DESCRIPTOR", size>>)
  BY <1>1, Announced
<1>3. t.descriptors # t.descriptorsSize
  BY <1>1, <1>2 DEF SameHost
<1>4. onEndpointZeroWrite(s, size, HeaderSize) = t
  <2>1. HeaderSize # 0 /\ HeaderSize > 1 /\ HeaderSize # 1
    BY UsbDeviceAssumption
  <2>2. onEndpointZeroWrite(s, size, HeaderSize) = Described(s, size, HeaderSize)
    BY <2>1 DEF onEndpointZeroWrite
  <2> QED BY <1>3, <2>2 DEF Described, m
<1> HIDE DEF t
<1> QED
  BY <1>1, <1>2, <1>4
     DEF Beside, Announces, SameHost, SameReads, SameWrites, SameAlarms

\* A packet of the descriptor that is not the last one.
LEMMA PieceDescribed ==
    ASSUME NEW s, NEW size, NEW n \in Nat, n > 1, s.descriptorsSize # 0,
           s.descriptors < s.descriptorsSize, IsUsb(s), s.descriptors + n # s.descriptorsSize
    PROVE  onEndpointZeroWrite(s, size, n) = [s EXCEPT !.descriptors = s.descriptors + n]
<1>1. onEndpointZeroWrite(s, size, n) = Described(s, size, n)
  BY DEF onEndpointZeroWrite
<1> DEFINE t == [s EXCEPT !.descriptors = IF @ < s.descriptorsSize THEN @ + n ELSE @]
<1>2. t = [s EXCEPT !.descriptors = s.descriptors + n]
  OBVIOUS
<1>3. t.descriptors # t.descriptorsSize
  BY <1>2 DEF IsUsb, UsbFields
<1> QED BY <1>1, <1>2, <1>3 DEF Described

\* The last one.
LEMMA EndDescribed ==
    ASSUME NEW s, IsSettled(s), NEW size, NEW n \in Nat, n > 1, s.descriptorsSize # 0,
           s.descriptors < s.descriptorsSize, s.descriptors + n = s.descriptorsSize
    PROVE  LET t == onEndpointZeroWrite(s, size, n)
           IN  /\ Beside(t, s) /\ Announces(t, s, SetConfiguration)
               /\ t.descriptorsSize = s.descriptorsSize
               /\ t.descriptors = s.descriptorsSize
               /\ t.endpoints = TRUE /\ t.initialized = s.initialized
<1> DEFINE v == [s EXCEPT !.descriptors = IF @ < s.descriptorsSize THEN @ + n ELSE @]
           m == [v EXCEPT !.endpoints = TRUE]
           t == sendSetupPacket(m, SetConfiguration)
<1>1. /\ v.descriptors = s.descriptorsSize /\ v.descriptorsSize = s.descriptorsSize
  BY DEF IsSettled, IsUsb, UsbFields
<1>2. /\ IsSettled(m) /\ m.descriptorsSize = s.descriptorsSize
      /\ m.descriptors = s.descriptorsSize
      /\ m.endpoints = TRUE /\ m.initialized = s.initialized /\ SameReads(m, s)
      /\ SameWrites(m, s) /\ SameAlarms(m, s) /\ m.buffStatus = s.buffStatus
      /\ m.sieStatus = s.sieStatus
  BY DEF IsSettled, IsUsb, UsbFields, Follows, SameReads, SameWrites, SameAlarms
<1>3. onEndpointZeroWrite(s, size, n) = Described(s, size, n)
  BY DEF onEndpointZeroWrite
<1>4. Described(s, size, n) = t
  BY <1>1 DEF Described, SetConfiguration
<1> HIDE DEF m, v
<1>5. Beside(t, m) /\ SameHost(t, m) /\ Announces(t, m, SetConfiguration)
  BY <1>2, Announced
<1> HIDE DEF t
<1> QED
  BY <1>2, <1>3, <1>4, <1>5
     DEF Beside, Announces, SameHost, SameReads, SameWrites, SameAlarms

LEMMA SingleDescribed ==
    ASSUME NEW s, NEW size
    PROVE  onEndpointZeroWrite(s, size, 1) = s
BY DEF onEndpointZeroWrite

-----------------------------------------------------------------------------
(* USB, device mode: the packets that wait are handed over.                     *)

LEMMA SizesKnown ==
    /\ HeaderSize \in Nat /\ MaxPacket \in Nat /\ HeaderSize > 1 /\ HeaderSize < MaxPacket
    /\ \A n \in DescriptorSizes : n \in Nat /\ n > HeaderSize /\ n > 1 /\ n # 0
<1>1. \A n \in DescriptorSizes : n \in Nat /\ n > HeaderSize
  BY UsbDeviceAssumption
<1>2. HeaderSize \in Nat /\ MaxPacket \in Nat /\ HeaderSize > 1 /\ HeaderSize < MaxPacket
  BY UsbDeviceAssumption
<1> QED BY <1>1, <1>2

\* b holds the objects when the first packets are with the host, as Handed does.
HandsOver(b) ==
    b = [i \in 0 .. Len(u.zeroWrites) |->
            IF i = 0 THEN u ELSE onEndpointZeroWrite(b[i - 1], fw.size, u.zeroWrites[i])]

LEMMA HandedOver ==
    ASSUME \E b : HandsOver(b)
    PROVE  HandsOver(Handed)
<1>1. Handed = CHOOSE b : HandsOver(b)
  BY DEF Handed, HandsOver
<1> QED BY <1>1

LEMMA OneHandedOver ==
    ASSUME NEW n, u.zeroWrites = <<n>>
    PROVE  Handed[Len(u.zeroWrites)] = onEndpointZeroWrite(u, fw.size, n)
<1>1. Len(u.zeroWrites) = 1 /\ u.zeroWrites[1] = n
  OBVIOUS
<1> DEFINE b == [i \in 0 .. 1 |-> IF i = 0 THEN u ELSE onEndpointZeroWrite(u, fw.size, n)]
<1>2. b[0] = u /\ b[1] = onEndpointZeroWrite(u, fw.size, n)
  OBVIOUS
<1>3. HandsOver(b)
  <2>1. \A i \in 0 .. 1 : b[i] = IF i = 0 THEN u
                                 ELSE onEndpointZeroWrite(b[i - 1], fw.size, u.zeroWrites[i])
    <3> SUFFICES ASSUME NEW i \in 0 .. 1
                 PROVE  b[i] = IF i = 0 THEN u
                               ELSE onEndpointZeroWrite(b[i - 1], fw.size, u.zeroWrites[i])
      OBVIOUS
    <3>1. CASE i = 0
      BY <1>2, <3>1
    <3>2. CASE i = 1
      <4>1. i - 1 = 0
        BY <3>2
      <4> QED BY <1>1, <1>2, <3>2, <4>1
    <3> QED BY <3>1, <3>2
  <2>2. b = [i \in 0 .. 1 |-> b[i]]
    OBVIOUS
  <2> HIDE DEF b
  <2> QED BY <1>1, <2>1, <2>2 DEF HandsOver
<1> HIDE DEF b
<1>4. HandsOver(Handed)
  BY <1>3, HandedOver
<1>5. Handed[0] = u
  BY <1>1, <1>4 DEF HandsOver
<1>6. Handed[1] = onEndpointZeroWrite(Handed[1 - 1], fw.size, u.zeroWrites[1])
  BY <1>1, <1>4 DEF HandsOver
<1> QED BY <1>1, <1>5, <1>6

\* The objects when the host has d bytes of the descriptor.
Sofar(c, i) == IF i = 0 THEN u ELSE [u EXCEPT !.descriptors = c[i]]

LEMMA PiecesHandedOver ==
    ASSUME UsbShaped, Knows(fw.size, u.descriptors, FALSE, FALSE), u.descriptors < fw.size,
           NEW c, Counts(c), u.zeroWrites # <<>>
    PROVE  LET n == Len(u.zeroWrites)
           IN  Handed[n] = onEndpointZeroWrite(Sofar(c, n - 1), fw.size, u.zeroWrites[n])
<1> DEFINE n == Len(u.zeroWrites)
           last == onEndpointZeroWrite(Sofar(c, n - 1), fw.size, u.zeroWrites[n])
           b == [i \in 0 .. n |-> IF i < n THEN Sofar(c, i) ELSE last]
<1>1. n \in Nat \ {0} /\ c \in [0 .. n -> Nat] /\ u.zeroWrites \in Seq(Nat)
      /\ c[0] = u.descriptors /\ fw.size \in Nat /\ fw.size # 0
  <2>1. u.zeroWrites \in Seq(Nat) /\ c \in [0 .. n -> Nat] /\ c[0] = u.descriptors
    BY DEF Counts
  <2>2. n \in Nat \ {0}
    BY <2>1
  <2>3. fw.size \in Nat /\ fw.size # 0
    BY SizesKnown DEF UsbShaped
  <2> QED BY <2>1, <2>2, <2>3
<1>2. \A i \in 1 .. n : /\ u.zeroWrites[i] \in Nat /\ c[i] \in Nat /\ c[i - 1] \in Nat
                        /\ c[i] = c[i - 1] + u.zeroWrites[i] /\ c[i - 1] < fw.size
                        /\ u.zeroWrites[i] > 0
                        /\ u.zeroWrites[i] = 1 => i = n
  <2> SUFFICES ASSUME NEW i \in 1 .. n
               PROVE  /\ u.zeroWrites[i] \in Nat /\ c[i] \in Nat /\ c[i - 1] \in Nat
                      /\ c[i] = c[i - 1] + u.zeroWrites[i] /\ c[i - 1] < fw.size
                      /\ u.zeroWrites[i] > 0
                      /\ u.zeroWrites[i] = 1 => i = n
    OBVIOUS
  <2>1. u.zeroWrites[i] \in Nat
    BY <1>1
  <2>2. i \in 0 .. n /\ i - 1 \in 0 .. n
    BY <1>1
  <2>3. /\ c[i] = c[i - 1] + u.zeroWrites[i] /\ c[i - 1] < fw.size
        /\ u.zeroWrites[i] > 0
        /\ u.zeroWrites[i] = 1 => i = n
    BY DEF Counts
  <2> QED BY <1>1, <2>1, <2>2, <2>3
<1> HIDE DEF n
<1>3. \A i \in 1 .. n - 1 :
          Sofar(c, i) = onEndpointZeroWrite(Sofar(c, i - 1), fw.size, u.zeroWrites[i])
  <2> SUFFICES ASSUME NEW i \in 1 .. n - 1
               PROVE  Sofar(c, i)
                      = onEndpointZeroWrite(Sofar(c, i - 1), fw.size, u.zeroWrites[i])
    OBVIOUS
  <2> DEFINE s == Sofar(c, i - 1)
             k == u.zeroWrites[i]
  <2>1. i \in 1 .. n /\ i + 1 \in 1 .. n /\ (i + 1) - 1 = i /\ i # n
    BY <1>1
  <2>2. k \in Nat /\ k > 1 /\ c[i] = c[i - 1] + k /\ c[i - 1] < fw.size /\ c[i] < fw.size
        /\ c[i] \in Nat /\ c[i - 1] \in Nat
    BY <1>2, <2>1
  <2> HIDE DEF k
  <2>3. /\ IsUsb(s) /\ s.descriptors = c[i - 1] /\ s.descriptorsSize = fw.size
    BY <1>1 DEF Sofar, UsbShaped, IsUsb, UsbFields, Knows
  <2>4. [s EXCEPT !.descriptors = c[i]] = [u EXCEPT !.descriptors = c[i]]
    <3>1. CASE i - 1 = 0
      BY <3>1 DEF Sofar
    <3>2. CASE i - 1 # 0
      <4>1. s = [u EXCEPT !.descriptors = c[i - 1]]
        BY <3>2 DEF Sofar
      <4> HIDE DEF s
      <4> QED BY <4>1
    <3> QED BY <3>1, <3>2
  <2>5. Sofar(c, i) = [s EXCEPT !.descriptors = c[i]]
    <3>1. i # 0
      OBVIOUS
    <3> QED BY <2>4, <3>1 DEF Sofar
  <2> HIDE DEF s
  <2>6. onEndpointZeroWrite(s, fw.size, k) = [s EXCEPT !.descriptors = s.descriptors + k]
    <3>1. s.descriptorsSize # 0 /\ s.descriptors < s.descriptorsSize
          /\ s.descriptors + k # s.descriptorsSize
      BY <1>1, <2>2, <2>3
    <3> QED BY <2>2, <2>3, <3>1, PieceDescribed
  <2> QED BY <2>2, <2>3, <2>5, <2>6 DEF s, k
<1>4. HandsOver(b)
  <2>1. \A i \in 0 .. n : b[i] = IF i = 0 THEN u
                                 ELSE onEndpointZeroWrite(b[i - 1], fw.size, u.zeroWrites[i])
    <3> SUFFICES ASSUME NEW i \in 0 .. n
                 PROVE  b[i] = IF i = 0 THEN u
                               ELSE onEndpointZeroWrite(b[i - 1], fw.size, u.zeroWrites[i])
      OBVIOUS
    <3>1. CASE i = 0
      BY <1>1, <3>1 DEF Sofar
    <3>2. CASE i # 0 /\ i # n
      <4>1. i \in 1 .. n - 1 /\ i - 1 \in 0 .. n /\ i < n /\ i - 1 < n
        BY <1>1, <3>2
      <4>2. b[i] = Sofar(c, i) /\ b[i - 1] = Sofar(c, i - 1)
        BY <4>1
      <4> QED BY <1>3, <3>2, <4>1, <4>2
    <3>3. CASE i = n
      <4>1. i - 1 \in 0 .. n /\ i - 1 < n /\ i # 0
        BY <1>1, <3>3
      <4>2. b[i] = last /\ b[i - 1] = Sofar(c, i - 1)
        BY <3>3, <4>1
      <4> QED BY <3>3, <4>1, <4>2
    <3> QED BY <3>1, <3>2, <3>3
  <2>2. b = [i \in 0 .. n |-> b[i]]
    OBVIOUS
  <2> HIDE DEF b
  <2> QED BY <2>1, <2>2 DEF HandsOver, n
<1> HIDE DEF b
<1>5. HandsOver(Handed)
  BY <1>4, HandedOver
<1>6. Handed = [i \in 0 .. n |-> IF i = 0 THEN u
                    ELSE onEndpointZeroWrite(Handed[i - 1], fw.size, u.zeroWrites[i])]
  BY <1>5 DEF HandsOver, n
<1>7. \A i \in 0 .. n : Handed[i] = IF i = 0 THEN u
                    ELSE onEndpointZeroWrite(Handed[i - 1], fw.size, u.zeroWrites[i])
  BY <1>6
<1>8. \A i \in 0 .. n - 1 : Handed[i] = Sofar(c, i)
  <2> DEFINE Bad == {i \in 0 .. n - 1 : Handed[i] # Sofar(c, i)}
  <2> SUFFICES ASSUME Bad # {} PROVE FALSE
    OBVIOUS
  <2>1. PICK i \in Bad : \A m \in Bad : i <= m
    <3>1. Bad \in SUBSET Nat
      BY <1>1
    <3> HIDE DEF Bad
    <3> QED BY <3>1, LeastNumber
  <2>2. i \in 0 .. n - 1 /\ Handed[i] # Sofar(c, i)
    OBVIOUS
  <2>3. CASE i = 0
    BY <1>1, <1>7, <2>2, <2>3 DEF Sofar
  <2>4. CASE i # 0
    <3>1. i - 1 \in 0 .. n - 1 /\ i - 1 \notin Bad /\ i \in 1 .. n - 1 /\ i \in 0 .. n
      BY <1>1, <2>1, <2>2, <2>4
    <3>2. Handed[i - 1] = Sofar(c, i - 1)
      BY <3>1
    <3>3. Handed[i] = onEndpointZeroWrite(Handed[i - 1], fw.size, u.zeroWrites[i])
      BY <1>7, <2>4, <3>1
    <3>4. Sofar(c, i) = onEndpointZeroWrite(Sofar(c, i - 1), fw.size, u.zeroWrites[i])
      BY <1>3, <3>1
    <3> QED BY <2>2, <3>2, <3>3, <3>4
  <2> QED BY <2>3, <2>4
<1>9. n \in 0 .. n /\ n # 0 /\ n - 1 \in 0 .. n - 1
  BY <1>1
<1>10. Handed[n] = onEndpointZeroWrite(Handed[n - 1], fw.size, u.zeroWrites[n])
  BY <1>7, <1>9
<1>11. Handed[n - 1] = Sofar(c, n - 1)
  BY <1>8, <1>9
<1> QED BY <1>10, <1>11 DEF n

\* The packets are with the host and no longer wait.
LEMMA HandedDoes ==
    ASSUME UsbShaped, ZeroWriteAlarm, NEW end, end = Handed[Len(u.zeroWrites)], Beside(end, u)
    PROVE  /\ IsUsb(u') /\ Follows(u') /\ SerialAlone /\ fw' = fw /\ sent' = sent
           /\ u'.zeroWrites = <<>> /\ u'.resetAlarm = u.resetAlarm
           /\ u'.descriptorsSize = end.descriptorsSize /\ u'.descriptors = end.descriptors
           /\ u'.endpoints = end.endpoints /\ u'.initialized = end.initialized
           /\ u'.setupPacket = end.setupPacket /\ u'.sieStatus = end.sieStatus
<1>1. u' = [end EXCEPT !.zeroWrites = <<>>] /\ fw' = fw /\ sent' = sent
  BY DEF ZeroWriteAlarm
<1>2. IsUsb(end)
  BY DEF Beside
<1>3. /\ IsUsb(u') /\ SameReads(u', end) /\ SameWrites(u', end) /\ u'.buffStatus = end.buffStatus
      /\ u'.zeroWrites = <<>> /\ u'.resetAlarm = end.resetAlarm /\ u'.intRaw = end.intRaw
      /\ u'.descriptorsSize = end.descriptorsSize /\ u'.descriptors = end.descriptors
      /\ u'.endpoints = end.endpoints /\ u'.initialized = end.initialized
      /\ u'.setupPacket = end.setupPacket /\ u'.sieStatus = end.sieStatus
  BY <1>1, <1>2 DEF IsUsb, UsbFields, SameReads, SameWrites
<1>4. Follows(u')
  BY <1>3 DEF Follows, Beside
<1>5. SerialAlone
  BY <1>1, <1>3 DEF Beside, SerialAlone, SameReads, SameWrites
<1> QED BY <1>1, <1>3, <1>4, <1>5 DEF Beside, SameAlarms

\* What a step of the enumeration shows.
Advanced ==
    /\ IsUsb(u') /\ Follows(u') /\ "BUFF_STATUS" \notin u'.sieStatus /\ SerialAlone
    /\ u'.setupPacket # u.setupPacket => "SETUP_REC" \notin u.sieStatus
    /\ Lockstep' /\ ResetOnce'

\* The packet that the host sends next, from a stage where the last one is answered.
LEMMA NextAsked ==
    ASSUME UsbShaped, ZeroWriteAlarm, On, NoneAsked, fw.left = 0, NEW packet,
           NEW end, end = Handed[Len(u.zeroWrites)], Beside(end, u), Announces(end, u, packet)
    PROVE  /\ IsUsb(u') /\ Follows(u') /\ "BUFF_STATUS" \notin u'.sieStatus /\ SerialAlone
           /\ "SETUP_REC" \notin u.sieStatus /\ ResetOnce' /\ On'
           /\ "SETUP_REC" \in u'.sieStatus /\ u'.setupPacket = packet
           /\ fw'.read = <<>> /\ fw'.setups = <<>> /\ u'.zeroWrites = <<>> /\ fw'.left = 0
<1>1. /\ IsUsb(u') /\ Follows(u') /\ SerialAlone /\ fw' = fw /\ sent' = sent
      /\ u'.zeroWrites = <<>> /\ u'.resetAlarm = u.resetAlarm
      /\ u'.setupPacket = end.setupPacket /\ u'.sieStatus = end.sieStatus
  BY HandedDoes
<1>2. u'.sieStatus = u.sieStatus \cup {"SETUP_REC"} /\ u'.setupPacket = packet
  BY <1>1 DEF Announces
<1>3. "BUFF_STATUS" \notin u'.sieStatus /\ "BUS_RESET" \notin u'.sieStatus
  BY <1>2 DEF UsbShaped, On
<1> QED BY <1>1, <1>2, <1>3 DEF On, NoneAsked, ResetOnce

LEMMA AddressHandedOver ==
    ASSUME UsbShaped, ZeroWriteAlarm, Addressing
    PROVE  Advanced
<1>1. On /\ Fresh /\ Knows(0, 0, FALSE, FALSE) /\ With(<<0>>)
  BY DEF Addressing, Asked, ZeroWriteAlarm
<1>2. IsSettled(u) /\ u.descriptorsSize = 0
  BY <1>1 DEF UsbShaped, IsSettled, Knows
<1>3. u.zeroWrites = <<0>> /\ NoneAsked /\ fw.left = 0
  BY <1>1 DEF With
<1> DEFINE end == Handed[Len(u.zeroWrites)]
<1>4. end = onEndpointZeroWrite(u, fw.size, 0)
  BY <1>3, OneHandedOver
<1> HIDE DEF end
<1>5. Beside(end, u) /\ SameHost(end, u) /\ Announces(end, u, GetHeader)
  BY <1>2, <1>4, FirstAcknowledged
<1>6. /\ IsUsb(u') /\ Follows(u') /\ "BUFF_STATUS" \notin u'.sieStatus /\ SerialAlone
      /\ "SETUP_REC" \notin u.sieStatus /\ ResetOnce' /\ On'
      /\ "SETUP_REC" \in u'.sieStatus /\ u'.setupPacket = GetHeader
      /\ fw'.read = <<>> /\ fw'.setups = <<>> /\ u'.zeroWrites = <<>> /\ fw'.left = 0
  BY <1>1, <1>3, <1>5, NextAsked DEF end
<1>7. /\ u'.descriptorsSize = end.descriptorsSize /\ u'.descriptors = end.descriptors
      /\ u'.endpoints = end.endpoints /\ u'.initialized = end.initialized /\ fw' = fw
  BY <1>5, HandedDoes DEF end
<1>8. Knows(0, 0, FALSE, FALSE)' /\ Fresh'
  BY <1>1, <1>5, <1>7 DEF Knows, SameHost, Fresh
<1>9. Asked(GetHeader)'
  BY <1>6 DEF Asked, InController, GetHeader
<1>10. Lockstep'
  BY <1>6, <1>8, <1>9 DEF Lockstep, Sizing
<1> QED BY <1>6, <1>10 DEF Advanced

LEMMA HeaderHandedOver ==
    ASSUME UsbShaped, ZeroWriteAlarm, Sizing
    PROVE  Advanced
<1>1. On /\ Fresh /\ Knows(0, 0, FALSE, FALSE) /\ With(<<HeaderSize>>)
  BY DEF Sizing, Asked, ZeroWriteAlarm
<1>2. /\ IsSettled(u) /\ u.descriptorsSize = 0 /\ u.descriptors = 0
      /\ fw.size \in Nat /\ fw.size > 0
  BY <1>1, SizesKnown DEF UsbShaped, IsSettled, Knows
<1>3. u.zeroWrites = <<HeaderSize>> /\ NoneAsked /\ fw.left = 0
  BY <1>1 DEF With
<1> DEFINE end == Handed[Len(u.zeroWrites)]
<1>4. end = onEndpointZeroWrite(u, fw.size, HeaderSize)
  BY <1>3, OneHandedOver
<1> HIDE DEF end
<1>5. /\ Beside(end, u) /\ Announces(end, u, GetDescriptor)
      /\ end.descriptorsSize = fw.size /\ end.descriptors = 0
      /\ end.endpoints = u.endpoints /\ end.initialized = u.initialized
  BY <1>2, <1>4, HeaderDescribed DEF GetDescriptor
<1>6. /\ IsUsb(u') /\ Follows(u') /\ "BUFF_STATUS" \notin u'.sieStatus /\ SerialAlone
      /\ "SETUP_REC" \notin u.sieStatus /\ ResetOnce' /\ On'
      /\ "SETUP_REC" \in u'.sieStatus /\ u'.setupPacket = GetDescriptor
      /\ fw'.read = <<>> /\ fw'.setups = <<>> /\ u'.zeroWrites = <<>> /\ fw'.left = 0
  BY <1>1, <1>3, <1>5, NextAsked DEF end
<1>7. /\ u'.descriptorsSize = end.descriptorsSize /\ u'.descriptors = end.descriptors
      /\ u'.endpoints = end.endpoints /\ u'.initialized = end.initialized /\ fw' = fw
  BY <1>5, HandedDoes DEF end
<1>8. Knows(fw.size, u.descriptors, FALSE, FALSE)' /\ Fresh' /\ u'.descriptors = 0
  BY <1>1, <1>5, <1>7 DEF Knows, Fresh
<1>9. Asked(GetDescriptor)'
  BY <1>6, <1>7 DEF Asked, InController, GetDescriptor
<1>10. Describing'
  <2>1. u'.descriptors \in Nat /\ u'.descriptors < fw'.size
    BY <1>2, <1>7, <1>8
  <2> QED BY <1>6, <1>8, <1>9, <2>1, Zenon DEF Describing
<1> QED BY <1>6, <1>10 DEF Advanced, Lockstep

LEMMA ConfigurationHandedOver ==
    ASSUME UsbShaped, ZeroWriteAlarm, Configuring
    PROVE  Advanced
<1>1. On /\ Knows(fw.size, fw.size, TRUE, FALSE) /\ With(<<0>>)
  BY DEF Configuring, Asked, ZeroWriteAlarm
<1>2. IsSettled(u) /\ u.descriptorsSize # 0 /\ ~u.initialized
  BY <1>1, SizesKnown DEF UsbShaped, IsSettled, Knows
<1>3. u.zeroWrites = <<0>> /\ NoneAsked /\ fw.left = 0
  BY <1>1 DEF With
<1> DEFINE end == Handed[Len(u.zeroWrites)]
<1>4. end = onEndpointZeroWrite(u, fw.size, 0)
  BY <1>3, OneHandedOver
<1> HIDE DEF end
<1>5. /\ Beside(end, u) /\ Announces(end, u, SetLineState)
      /\ end.descriptorsSize = u.descriptorsSize /\ end.descriptors = u.descriptors
      /\ end.endpoints = u.endpoints /\ end.initialized = TRUE
  BY <1>2, <1>4, ConfigurationAcknowledged
<1>6. /\ IsUsb(u') /\ Follows(u') /\ "BUFF_STATUS" \notin u'.sieStatus /\ SerialAlone
      /\ "SETUP_REC" \notin u.sieStatus /\ ResetOnce' /\ On'
      /\ "SETUP_REC" \in u'.sieStatus /\ u'.setupPacket = SetLineState
      /\ fw'.read = <<>> /\ fw'.setups = <<>> /\ u'.zeroWrites = <<>> /\ fw'.left = 0
  BY <1>1, <1>3, <1>5, NextAsked DEF end
<1>7. /\ u'.descriptorsSize = end.descriptorsSize /\ u'.descriptors = end.descriptors
      /\ u'.endpoints = end.endpoints /\ u'.initialized = end.initialized /\ fw' = fw
  BY <1>5, HandedDoes DEF end
<1>8. Knows(fw.size, fw.size, TRUE, TRUE)'
  BY <1>1, <1>5, <1>7 DEF Knows
<1>9. Asked(SetLineState)'
  BY <1>6 DEF Asked, InController, SetLineState
<1>10. Connecting'
  BY <1>6, <1>8, <1>9 DEF Connecting
<1> QED BY <1>6, <1>10 DEF Advanced, Lockstep

LEMMA LineStateHandedOver ==
    ASSUME UsbShaped, ResetOnce, ZeroWriteAlarm, Connecting
    PROVE  Advanced
<1>1. On /\ Knows(fw.size, fw.size, TRUE, TRUE) /\ With(<<0>>)
  BY DEF Connecting, Asked, With, ZeroWriteAlarm
<1>2. u.descriptorsSize # 0 /\ u.initialized
  BY <1>1, SizesKnown DEF UsbShaped, Knows
<1>3. u.zeroWrites = <<0>> /\ NoneAsked /\ fw.left = 0
  BY <1>1 DEF With
<1>4. u = Handed[Len(u.zeroWrites)]
  BY <1>2, <1>3, OneHandedOver, LastAcknowledged
<1>5. Beside(u, u)
  BY DEF Beside, UsbShaped, SameReads, SameWrites, SameAlarms
<1>6. /\ IsUsb(u') /\ Follows(u') /\ SerialAlone /\ fw' = fw /\ sent' = sent
      /\ u'.zeroWrites = <<>> /\ u'.resetAlarm = u.resetAlarm
      /\ u'.descriptorsSize = u.descriptorsSize /\ u'.descriptors = u.descriptors
      /\ u'.endpoints = u.endpoints /\ u'.initialized = u.initialized
      /\ u'.setupPacket = u.setupPacket /\ u'.sieStatus = u.sieStatus
  BY <1>4, <1>5, HandedDoes
<1>7. On' /\ Knows(fw.size, fw.size, TRUE, TRUE)' /\ With(<<>>)'
  BY <1>1, <1>3, <1>6 DEF On, Knows, With, NoneAsked
<1>8. Lockstep' /\ ResetOnce'
  BY <1>6, <1>7 DEF Lockstep, Connecting, ResetOnce
<1>9. "BUFF_STATUS" \notin u'.sieStatus
  BY <1>6 DEF UsbShaped
<1> QED BY <1>6, <1>8, <1>9 DEF Advanced

\* The packets were not the end of the descriptor.
LEMMA PiecesKeep ==
    ASSUME UsbShaped, ResetOnce, ZeroWriteAlarm, On, Fresh, NoneAsked,
           Knows(fw.size, u.descriptors, FALSE, FALSE),
           NEW end, end = Handed[Len(u.zeroWrites)], Beside(end, u), SameSetup(end, u),
           end.descriptors \in Nat, end.descriptors < fw.size, end.descriptors + fw.left <= fw.size,
           end.descriptorsSize = fw.size, ~end.endpoints, ~end.initialized,
           end.endpoints \in BOOLEAN, end.initialized \in BOOLEAN
    PROVE  Advanced
<1>1. /\ IsUsb(u') /\ Follows(u') /\ SerialAlone /\ fw' = fw /\ sent' = sent
      /\ u'.zeroWrites = <<>> /\ u'.resetAlarm = u.resetAlarm
      /\ u'.descriptorsSize = end.descriptorsSize /\ u'.descriptors = end.descriptors
      /\ u'.endpoints = end.endpoints /\ u'.initialized = end.initialized
      /\ u'.setupPacket = end.setupPacket /\ u'.sieStatus = end.sieStatus
  BY HandedDoes
<1>2. u'.setupPacket = u.setupPacket /\ u'.sieStatus = u.sieStatus
  BY <1>1 DEF SameSetup
<1>3. On' /\ NoneAsked' /\ Fresh' /\ ResetOnce'
  BY <1>1, <1>2 DEF On, NoneAsked, Fresh, ResetOnce
<1>4. Knows(fw.size, u.descriptors, FALSE, FALSE)'
  BY <1>1 DEF Knows
<1> DEFINE c == [i \in 0 .. 0 |-> end.descriptors]
<1>5. Counts(c)'
  <2>1. c[0] = end.descriptors /\ c \in [0 .. 0 -> Nat]
    OBVIOUS
  <2> HIDE DEF c
  <2>2. Len(u'.zeroWrites) = 0 /\ u'.zeroWrites \in Seq(Nat)
    BY <1>1
  <2> QED BY <1>1, <2>1, <2>2 DEF Counts
<1> HIDE DEF c
<1>6. u'.descriptors \in Nat /\ u'.descriptors < fw'.size
  BY <1>1
<1>7. \E d : Counts(d)'
  BY <1>5
<1>8. Describing'
  BY <1>3, <1>4, <1>6, <1>7, Zenon DEF Describing
<1>9. "BUFF_STATUS" \notin u'.sieStatus
  BY <1>2 DEF UsbShaped
<1> QED BY <1>1, <1>2, <1>3, <1>8, <1>9 DEF Advanced, Lockstep

LEMMA DescriptorHandedOver ==
    ASSUME UsbShaped, ResetOnce, ZeroWriteAlarm, Describing
    PROVE  Advanced
<1>1. /\ On /\ Fresh /\ Knows(fw.size, u.descriptors, FALSE, FALSE) /\ NoneAsked
      /\ u.descriptors \in Nat /\ u.descriptors < fw.size /\ u.zeroWrites # <<>>
  BY DEF Describing, Asked, ZeroWriteAlarm
<1>2. PICK c : Counts(c)
  BY DEF Describing, Asked, ZeroWriteAlarm
<1> DEFINE n == Len(u.zeroWrites)
           v == u.zeroWrites[n]
           s == Sofar(c, n - 1)
           end == Handed[n]
<1>3. n \in Nat \ {0} /\ u.zeroWrites \in Seq(Nat) /\ c \in [0 .. n -> Nat]
  <2>1. u.zeroWrites \in Seq(Nat) /\ c \in [0 .. n -> Nat]
    BY <1>2 DEF Counts
  <2> QED BY <1>1, <2>1
<1>4. /\ v \in Nat /\ c[n] \in Nat /\ c[n - 1] \in Nat /\ c[n] = c[n - 1] + v /\ v > 0
      /\ c[n - 1] < fw.size /\ (v = 1 => fw.left = 0) /\ c[n] + fw.left <= fw.size
      /\ c[0] = u.descriptors
  <2>1. n \in 1 .. n /\ n \in 0 .. n /\ n - 1 \in 0 .. n
    BY <1>3
  <2>2. v \in Nat /\ c[n] \in Nat /\ c[n - 1] \in Nat
    <3>1. v \in Nat
      BY <1>3, <2>1
    <3>2. c[n] \in Nat /\ c[n - 1] \in Nat
      <4> HIDE DEF n
      <4> QED BY <1>3, <2>1
    <3> QED BY <3>1, <3>2
  <2>3. /\ c[n] = c[n - 1] + v /\ c[n - 1] < fw.size /\ v > 0 /\ (v = 1 => fw.left = 0)
    BY <1>2, <2>1 DEF Counts
  <2>4. c[n] + fw.left <= fw.size /\ c[0] = u.descriptors
    BY <1>2 DEF Counts
  <2> QED BY <2>2, <2>3, <2>4
<1>5. end = onEndpointZeroWrite(s, fw.size, v)
  BY <1>1, <1>2, PiecesHandedOver
<1>6. /\ IsSettled(s) /\ Beside(s, u) /\ SameSetup(s, u) /\ s.descriptors = c[n - 1]
      /\ s.descriptorsSize = fw.size /\ s.endpoints = FALSE /\ s.initialized = FALSE
  <2>1. CASE n - 1 = 0
    <3>1. s = u /\ c[n - 1] = u.descriptors
      BY <1>4, <2>1 DEF Sofar
    <3> HIDE DEF s
    <3> QED
      BY <1>1, <3>1 DEF UsbShaped, IsSettled, Beside, SameSetup, SameReads, SameWrites,
                         SameAlarms, Knows
  <2>2. CASE n - 1 # 0
    <3>1. s = [u EXCEPT !.descriptors = c[n - 1]]
      BY <2>2 DEF Sofar
    <3> DEFINE k == c[n - 1]
    <3> HIDE DEF s, k
    <3>2. s = [u EXCEPT !.descriptors = k]
      BY <3>1 DEF k
    <3>3. s.descriptors = k
      BY <3>2 DEF UsbShaped, IsUsb, UsbFields
    <3>4. /\ IsSettled(s) /\ Beside(s, u) /\ SameSetup(s, u)
          /\ s.descriptorsSize = fw.size /\ s.endpoints = FALSE /\ s.initialized = FALSE
      BY <1>1, <3>2 DEF UsbShaped, IsSettled, IsUsb, UsbFields, Follows, Beside, SameSetup,
                         SameReads, SameWrites, SameAlarms, Knows
    <3> QED BY <3>3, <3>4 DEF k
  <2> QED BY <2>1, <2>2
<1> HIDE DEF n, v, s, end
<1>7. fw.size \in Nat /\ fw.size # 0 /\ fw.left \in Nat
  BY SizesKnown DEF UsbShaped
<1>8. end = Handed[Len(u.zeroWrites)]
  BY DEF end, n
<1>9. CASE v = 1
  <2>1. end = s
    BY <1>5, <1>9, SingleDescribed
  <2>2. end.descriptors + fw.left <= fw.size /\ end.descriptors \in Nat /\ end.descriptors < fw.size
    BY <1>4, <1>6, <1>7, <1>9, <2>1
  <2>3. Beside(end, u) /\ SameSetup(end, u) /\ end.descriptorsSize = fw.size /\ ~end.endpoints
        /\ ~end.initialized /\ end.endpoints \in BOOLEAN /\ end.initialized \in BOOLEAN
    BY <1>6, <2>1
  <2> QED BY <1>1, <1>8, <2>2, <2>3, PiecesKeep
<1>10. CASE v # 1 /\ c[n] # fw.size
  <2>1. s.descriptorsSize # 0 /\ s.descriptors < s.descriptorsSize /\ v > 1
        /\ s.descriptors + v # s.descriptorsSize /\ s.descriptors + v = c[n] /\ IsUsb(s)
    BY <1>4, <1>6, <1>7, <1>10 DEF IsSettled
  <2> DEFINE k == c[n]
  <2>2. end = [s EXCEPT !.descriptors = k]
    BY <1>4, <1>5, <2>1, PieceDescribed
  <2>3. k \in Nat /\ k < fw.size /\ k + fw.left <= fw.size
    BY <1>4, <1>7, <1>10
  <2> HIDE DEF k
  <2>4. /\ Beside(end, s) /\ SameSetup(end, s) /\ end.descriptors = k /\ end.descriptorsSize = fw.size
        /\ end.endpoints = FALSE /\ end.initialized = FALSE
    BY <1>6, <2>2 DEF IsSettled, IsUsb, UsbFields, Follows, Beside, SameSetup,
                      SameReads, SameWrites, SameAlarms
  <2>5. Beside(end, u) /\ SameSetup(end, u)
    BY <1>6, <2>4 DEF Beside, SameSetup, SameReads, SameWrites, SameAlarms
  <2> QED BY <1>1, <1>8, <2>3, <2>4, <2>5, PiecesKeep
<1>11. CASE v # 1 /\ c[n] = fw.size
  <2>1. s.descriptorsSize # 0 /\ s.descriptors < s.descriptorsSize /\ v > 1
        /\ s.descriptors + v = s.descriptorsSize /\ fw.left = 0
    BY <1>4, <1>6, <1>7, <1>11
  <2>2. /\ Beside(end, s) /\ Announces(end, s, SetConfiguration)
        /\ end.descriptorsSize = fw.size /\ end.descriptors = fw.size
        /\ end.endpoints = TRUE /\ end.initialized = FALSE
    <3>1. IsSettled(s) /\ v \in Nat
      BY <1>4, <1>6
    <3>2. /\ Beside(end, s) /\ Announces(end, s, SetConfiguration)
          /\ end.descriptorsSize = s.descriptorsSize /\ end.descriptors = s.descriptorsSize
          /\ end.endpoints = TRUE /\ end.initialized = s.initialized
      BY <1>5, <2>1, <3>1, EndDescribed
    <3> QED BY <1>6, <3>2
  <2>3. Beside(end, u) /\ Announces(end, u, SetConfiguration)
    BY <1>6, <2>2 DEF Beside, Announces, SameSetup, SameReads, SameWrites, SameAlarms
  <2>4. /\ IsUsb(u') /\ Follows(u') /\ "BUFF_STATUS" \notin u'.sieStatus /\ SerialAlone
        /\ "SETUP_REC" \notin u.sieStatus /\ ResetOnce' /\ On'
        /\ "SETUP_REC" \in u'.sieStatus /\ u'.setupPacket = SetConfiguration
        /\ fw'.read = <<>> /\ fw'.setups = <<>> /\ u'.zeroWrites = <<>> /\ fw'.left = 0
    BY <1>1, <1>8, <2>1, <2>3, NextAsked
  <2>5. /\ u'.descriptorsSize = end.descriptorsSize /\ u'.descriptors = end.descriptors
        /\ u'.endpoints = end.endpoints /\ u'.initialized = end.initialized /\ fw' = fw
    BY <1>8, <2>3, HandedDoes
  <2>6. Knows(fw.size, fw.size, TRUE, FALSE)' /\ Fresh'
    BY <1>1, <2>2, <2>5 DEF Knows, Fresh
  <2>7. Asked(SetConfiguration)'
    BY <2>4 DEF Asked, InController, SetConfiguration
  <2>8. Configuring'
    BY <2>4, <2>6, <2>7 DEF Configuring
  <2> QED BY <2>4, <2>8 DEF Advanced, Lockstep
<1> QED BY <1>9, <1>10, <1>11

LEMMA ZeroWriteAlarmAdvances ==
    ASSUME UsbShaped, Lockstep, ResetOnce, ZeroWriteAlarm
    PROVE  Advanced /\ UNCHANGED <<fw, sent>>
<1>1. ~Off
  BY DEF Off, With, ZeroWriteAlarm
<1>2. UNCHANGED <<fw, sent>>
  BY DEF ZeroWriteAlarm
<1> QED
  BY <1>1, <1>2, AddressHandedOver, HeaderHandedOver, DescriptorHandedOver,
     ConfigurationHandedOver, LineStateHandedOver DEF Lockstep

-----------------------------------------------------------------------------
(* USB, device mode: each step of the enumeration keeps the lockstep.           *)

LEMMA Lagging ==
    /\ Lockstep /\ (u.resetAlarm \/ "BUS_RESET" \in u.sieStatus \/ ~fw.on) => Off
    /\ Off => ~(u.endpoints \/ fw.configured \/ fw.connected)
BY DEF Lockstep, Off, Addressing, Sizing, Describing, Configuring, Connecting, On, Fresh, Knows

LEMMA ResetAlarmAdvances ==
    ASSUME UsbShaped, Lockstep, ResetOnce, ResetAlarm
    PROVE  Advanced /\ UNCHANGED <<fw, sent>>
<1>1. Off /\ fw' = fw /\ sent' = sent /\ fw.on
  BY Lagging DEF ResetAlarm, ResetOnce
<1>2. /\ IsUsb(u') /\ Follows(u') /\ SameHost(u', u) /\ SerialAlone
      /\ u'.zeroWrites = u.zeroWrites /\ ~u'.resetAlarm
      /\ u'.setupPacket = u.setupPacket /\ u'.sieStatus = u.sieStatus \cup {"BUS_RESET"}
  BY ResetAlarmDoes
<1>3. Off'
  BY <1>1, <1>2 DEF Off, Fresh, Knows, SameHost, With, NoneAsked
<1>4. ResetOnce' /\ "BUFF_STATUS" \notin u'.sieStatus
  BY <1>1, <1>2 DEF ResetOnce, UsbShaped
<1> QED BY <1>1, <1>2, <1>3, <1>4 DEF Advanced, Lockstep

LEMMA ClearBusResetAdvances ==
    ASSUME UsbShaped, Lockstep, ResetOnce, ClearBusReset
    PROVE  Advanced /\ UNCHANGED <<fw, sent>>
<1>1. /\ "BUS_RESET" \in u.sieStatus /\ fw' = fw
      /\ IsUsb(u') /\ Follows(u') /\ SameHost(u', u) /\ SerialAlone
      /\ SameAlarms(u', u) /\ u'.setupPacket = SetAddress
      /\ u'.sieStatus = (u.sieStatus \ {"BUS_RESET"}) \cup {"SETUP_REC", "CONNECTED"}
  BY ClearBusResetDoes
<1>2. Off /\ fw.on /\ ~u.resetAlarm /\ sent' = sent
  BY <1>1, Lagging DEF ResetOnce, ClearBusReset
<1>3. /\ "SETUP_REC" \in u'.sieStatus /\ "BUS_RESET" \notin u'.sieStatus
      /\ "BUFF_STATUS" \notin u'.sieStatus
  BY <1>1 DEF UsbShaped
<1>4. "SETUP_REC" \notin u.sieStatus
  BY <1>2 DEF Off, With, NoneAsked
<1>5. On' /\ Fresh' /\ Knows(0, 0, FALSE, FALSE)' /\ ResetOnce'
  BY <1>1, <1>2, <1>3 DEF Off, On, Fresh, Knows, SameHost, SameAlarms, ResetOnce
<1>6. Asked(SetAddress)'
  BY <1>1, <1>2, <1>3 DEF Off, With, NoneAsked, SameAlarms, Asked, InController, SetAddress
<1>7. Addressing'
  BY <1>5, <1>6 DEF Addressing
<1> QED BY <1>1, <1>2, <1>3, <1>4, <1>5, <1>7 DEF Advanced, Lockstep

LEMMA ClearConnectedAdvances ==
    ASSUME UsbShaped, Lockstep, ResetOnce, ClearConnected
    PROVE  Advanced /\ UNCHANGED <<fw, sent>>
<1>1. /\ IsUsb(u') /\ Follows(u') /\ SerialAlone /\ Unmoved /\ fw' = fw
      /\ u'.sieStatus = u.sieStatus \ {"CONNECTED"}
  BY ClearConnectedDoes
<1>2. Lockstep' /\ ResetOnce'
  BY <1>1, UnmovedKeeps
<1>3. "BUFF_STATUS" \notin u'.sieStatus /\ u'.setupPacket = u.setupPacket /\ sent' = sent
  BY <1>1 DEF UsbShaped, Unmoved, ClearConnected
<1> QED BY <1>1, <1>2, <1>3 DEF Advanced

\* A setup packet that the firmware has read is the one in the controller.
LEMMA InControllerStep ==
    ASSUME "SETUP_REC" \in u.sieStatus \/ fw.read # <<>>, NEW p, Asked(p)
    PROVE  InController(p)
BY DEF Asked, Taken

LEMMA SomeAsked ==
    ASSUME "SETUP_REC" \in u.sieStatus \/ fw.read # <<>>
    PROVE  ~NoneAsked /\ \A n : ~With(n)
BY DEF NoneAsked, With

\* The firmware gets on with the setup packet, and nothing else moves.
Onward ==
    /\ SameHost(u', u) /\ SameAlarms(u', u) /\ u'.setupPacket = u.setupPacket
    /\ fw'.size = fw.size /\ fw'.on = fw.on /\ fw'.left = fw.left
    /\ fw'.configured = fw.configured /\ fw'.connected = fw.connected
    /\ "BUS_RESET" \in u'.sieStatus <=> "BUS_RESET" \in u.sieStatus

LEMMA OnwardKeeps ==
    ASSUME Lockstep, ResetOnce, Onward, "SETUP_REC" \in u.sieStatus \/ fw.read # <<>>,
           \A p : InController(p) =>
               \/ /\ "SETUP_REC" \in u'.sieStatus /\ u'.setupPacket = p
                  /\ fw'.read = <<>> \/ fw'.read = p
                  /\ fw'.setups = <<>>
               \/ "SETUP_REC" \notin u'.sieStatus /\ fw'.read = <<>> /\ fw'.setups = <<p>>
    PROVE  Lockstep' /\ ResetOnce'
<1>1. ~NoneAsked /\ \A n : ~With(n)
  BY SomeAsked
<1>2. /\ u'.zeroWrites = u.zeroWrites /\ u'.resetAlarm = u.resetAlarm
      /\ u'.descriptors = u.descriptors /\ u'.descriptorsSize = u.descriptorsSize
      /\ u'.endpoints = u.endpoints /\ u'.initialized = u.initialized
      /\ fw'.size = fw.size /\ fw'.on = fw.on /\ fw'.left = fw.left
      /\ fw'.configured = fw.configured /\ fw'.connected = fw.connected
      /\ "BUS_RESET" \in u'.sieStatus <=> "BUS_RESET" \in u.sieStatus
  BY DEF Onward, SameHost, SameAlarms
<1>3. ResetOnce' /\ (On => On') /\ (Fresh => Fresh')
  BY <1>2 DEF ResetOnce, On, Fresh
<1>4. ASSUME NEW p, Asked(p)
      PROVE  /\ \/ /\ "SETUP_REC" \in u'.sieStatus /\ u'.setupPacket = p
                   /\ fw'.read = <<>> \/ fw'.read = p
                   /\ fw'.setups = <<>>
                \/ "SETUP_REC" \notin u'.sieStatus /\ fw'.read = <<>> /\ fw'.setups = <<p>>
             /\ u'.zeroWrites = <<>> /\ fw'.left = 0
  <2>1. InController(p)
    BY <1>4, InControllerStep
  <2>2. u.zeroWrites = <<>> /\ fw.left = 0
    BY <1>4 DEF Asked
  <2> QED BY <1>2, <2>1, <2>2
<1> SUFFICES Lockstep'
  BY <1>3
<1>5. ~Off
  BY <1>1 DEF Off
<1>6. CASE Addressing
  <2>1. Asked(SetAddress) /\ On /\ Fresh /\ Knows(0, 0, FALSE, FALSE)
    BY <1>1, <1>6 DEF Addressing
  <2>2. Asked(SetAddress)'
    <3>1. PICK p : p = SetAddress /\ p = SetAddress'
      BY DEF SetAddress
    <3>2. Asked(p)
      BY <2>1, <3>1
    <3>3. Asked(p)'
      BY <1>4, <3>2 DEF Asked, InController, Taken
    <3> QED BY <3>1, <3>3
  <2>3. On' /\ Fresh' /\ Knows(0, 0, FALSE, FALSE)'
    BY <1>2, <1>3, <2>1 DEF Knows
  <2> QED BY <2>2, <2>3 DEF Lockstep, Addressing
<1>7. CASE Sizing
  <2>1. Asked(GetHeader) /\ On /\ Fresh /\ Knows(0, 0, FALSE, FALSE)
    BY <1>1, <1>7 DEF Sizing
  <2>2. Asked(GetHeader)'
    <3>1. PICK p : p = GetHeader /\ p = GetHeader'
      BY DEF GetHeader
    <3>2. Asked(p)
      BY <2>1, <3>1
    <3>3. Asked(p)'
      BY <1>4, <3>2 DEF Asked, InController, Taken
    <3> QED BY <3>1, <3>3
  <2>3. On' /\ Fresh' /\ Knows(0, 0, FALSE, FALSE)'
    BY <1>2, <1>3, <2>1 DEF Knows
  <2> QED BY <2>2, <2>3 DEF Lockstep, Sizing
<1>8. CASE Describing
  <2>1. /\ Asked(GetDescriptor) /\ u.descriptors = 0 /\ On /\ Fresh
        /\ Knows(fw.size, u.descriptors, FALSE, FALSE)
        /\ u.descriptors \in Nat /\ u.descriptors < fw.size
    BY <1>1, <1>8 DEF Describing
  <2>2. Asked(GetDescriptor)'
    <3>1. PICK p : p = GetDescriptor /\ p = GetDescriptor'
      BY <1>2 DEF GetDescriptor
    <3>2. Asked(p)
      BY <2>1, <3>1
    <3>3. Asked(p)'
      BY <1>4, <3>2 DEF Asked, InController, Taken
    <3> QED BY <3>1, <3>3
  <2>3. /\ On' /\ Fresh' /\ Knows(fw.size, u.descriptors, FALSE, FALSE)'
        /\ u'.descriptors = 0 /\ u'.descriptors \in Nat /\ u'.descriptors < fw'.size
    BY <1>2, <1>3, <2>1 DEF Knows
  <2>4. Describing'
    BY <2>2, <2>3, Zenon DEF Describing
  <2> QED BY <2>4 DEF Lockstep
<1>9. CASE Configuring
  <2>1. Asked(SetConfiguration) /\ On /\ Fresh /\ Knows(fw.size, fw.size, TRUE, FALSE)
    BY <1>1, <1>9 DEF Configuring
  <2>2. Asked(SetConfiguration)'
    <3>1. PICK p : p = SetConfiguration /\ p = SetConfiguration'
      BY DEF SetConfiguration
    <3>2. Asked(p)
      BY <2>1, <3>1
    <3>3. Asked(p)'
      BY <1>4, <3>2 DEF Asked, InController, Taken
    <3> QED BY <3>1, <3>3
  <2>3. On' /\ Fresh' /\ Knows(fw.size, fw.size, TRUE, FALSE)'
    BY <1>2, <1>3, <2>1 DEF Knows
  <2> QED BY <2>2, <2>3 DEF Lockstep, Configuring
<1>10. CASE Connecting
  <2>1. Asked(SetLineState) /\ On /\ Knows(fw.size, fw.size, TRUE, TRUE)
    BY <1>1, <1>10 DEF Connecting
  <2>2. Asked(SetLineState)'
    <3>1. PICK p : p = SetLineState /\ p = SetLineState'
      BY DEF SetLineState
    <3>2. Asked(p)
      BY <2>1, <3>1
    <3>3. Asked(p)'
      BY <1>4, <3>2 DEF Asked, InController, Taken
    <3> QED BY <3>1, <3>3
  <2>3. On' /\ Knows(fw.size, fw.size, TRUE, TRUE)'
    BY <1>2, <1>3, <2>1 DEF Knows
  <2> QED BY <2>2, <2>3 DEF Lockstep, Connecting
<1> QED BY <1>5, <1>6, <1>7, <1>8, <1>9, <1>10 DEF Lockstep

LEMMA ReadSetupPacketAdvances ==
    ASSUME UsbShaped, Lockstep, ResetOnce, ReadSetupPacket
    PROVE  Advanced /\ DOMAIN fw' = FwFields /\ fw'.left = fw.left /\ fw'.size = fw.size
<1>1. /\ "SETUP_REC" \in u.sieStatus /\ fw.read = <<>> /\ u' = u /\ SerialAlone
      /\ fw'.read = u.setupPacket /\ DOMAIN fw' = FwFields
      /\ fw'.size = fw.size /\ fw'.on = fw.on /\ fw'.setups = fw.setups /\ fw'.left = fw.left
      /\ fw'.configured = fw.configured /\ fw'.connected = fw.connected
  BY ReadSetupPacketDoes
<1>2. Onward
  BY <1>1 DEF Onward, SameHost, SameAlarms
<1>3. \A p : InController(p) => /\ "SETUP_REC" \in u'.sieStatus /\ u'.setupPacket = p
                                /\ fw'.read = p /\ fw'.setups = <<>>
  BY <1>1 DEF InController
<1>4. Lockstep' /\ ResetOnce'
  BY <1>1, <1>2, <1>3, OnwardKeeps
<1>5. IsUsb(u') /\ Follows(u') /\ "BUFF_STATUS" \notin u'.sieStatus
  BY <1>1 DEF UsbShaped
<1> QED BY <1>1, <1>4, <1>5 DEF Advanced

LEMMA ClearSetupRecAdvances ==
    ASSUME UsbShaped, Lockstep, ResetOnce, ClearSetupRec
    PROVE  Advanced /\ DOMAIN fw' = FwFields /\ fw'.left = fw.left /\ fw'.size = fw.size
<1>1. /\ fw.read # <<>> /\ fw'.read = <<>> /\ fw'.setups = Append(fw.setups, fw.read)
      /\ DOMAIN fw' = FwFields
      /\ fw'.size = fw.size /\ fw'.on = fw.on /\ fw'.left = fw.left
      /\ fw'.configured = fw.configured /\ fw'.connected = fw.connected
      /\ IsUsb(u') /\ Follows(u') /\ SameHost(u', u) /\ SerialAlone
      /\ SameAlarms(u', u) /\ u'.setupPacket = u.setupPacket
      /\ u'.sieStatus = u.sieStatus \ {"SETUP_REC"}
  BY ClearSetupRecDoes
<1>2. Onward
  BY <1>1 DEF Onward
<1>3. \A p : InController(p) => /\ "SETUP_REC" \notin u'.sieStatus
                                /\ fw'.read = <<>> /\ fw'.setups = <<p>>
  <2> SUFFICES ASSUME NEW p, InController(p) PROVE fw'.setups = <<p>>
    BY <1>1
  <2>1. fw.setups = <<>> /\ fw.read = p
    BY <1>1 DEF InController
  <2>2. Append(<<>>, p) = <<p>>
    OBVIOUS
  <2> QED BY <1>1, <2>1, <2>2
<1>4. Lockstep' /\ ResetOnce'
  BY <1>1, <1>2, <1>3, OnwardKeeps
<1>5. "BUFF_STATUS" \notin u'.sieStatus
  BY <1>1 DEF UsbShaped
<1> QED BY <1>1, <1>4, <1>5 DEF Advanced

\* The next packet of the descriptor.
LEMMA PieceWaits ==
    ASSUME UsbShaped, NEW c, Counts(c), NEW k \in Nat, k > 0, k <= fw.left,
           k = 1 => fw.left = 1, fw'.size = fw.size,
           u'.zeroWrites = Append(u.zeroWrites, k), u'.descriptors = u.descriptors,
           fw'.left = fw.left - k
    PROVE  \E d : Counts(d)'
<1> DEFINE n == Len(u.zeroWrites)
           d == [i \in 0 .. n + 1 |-> IF i <= n THEN c[i] ELSE c[n] + k]
<1>1. u.zeroWrites \in Seq(Nat) /\ c \in [0 .. n -> Nat] /\ c[0] = u.descriptors
  BY DEF Counts
<1>2. n \in Nat /\ Len(u'.zeroWrites) = n + 1 /\ u'.zeroWrites \in Seq(Nat)
  BY <1>1
<1>3. /\ u'.zeroWrites[n + 1] = k
      /\ \A i \in 1 .. n : u'.zeroWrites[i] = u.zeroWrites[i] /\ u.zeroWrites[i] \in Nat
  BY <1>1
<1>4. /\ \A i \in 1 .. n : /\ c[i] = c[i - 1] + u.zeroWrites[i] /\ c[i - 1] < fw.size
                           /\ u.zeroWrites[i] > 0
                           /\ u.zeroWrites[i] = 1 => i = n /\ fw.left = 0
      /\ c[n] + fw.left <= fw.size
  BY DEF Counts
<1> HIDE DEF n
<1>5. fw.left \in Nat /\ fw.size \in Nat
  BY SizesKnown DEF UsbShaped
<1>6. c[n] \in Nat /\ d[0] = c[0] /\ d[n] = c[n] /\ d[n + 1] = c[n] + k
  <2>1. n \in 0 .. n /\ n \in 0 .. n + 1 /\ n + 1 \in 0 .. n + 1 /\ 0 \in 0 .. n + 1
    BY <1>2
  <2> QED BY <1>1, <1>2, <2>1
<1>7. \A i \in 0 .. n : d[i] = c[i]
  BY <1>2
<1>8. d \in [0 .. n + 1 -> Nat]
  BY <1>1, <1>6
<1> HIDE DEF d
<1>9. ASSUME NEW i \in 1 .. n + 1
      PROVE  /\ d[i] = d[i - 1] + u'.zeroWrites[i] /\ d[i - 1] < fw'.size
             /\ u'.zeroWrites[i] > 0
             /\ u'.zeroWrites[i] = 1 => i = n + 1 /\ fw'.left = 0
  <2>1. CASE i = n + 1
    <3>1. i - 1 = n
      BY <1>2, <2>1
    <3>2. u'.zeroWrites[i] = k /\ d[i] = c[n] + k /\ d[i - 1] = c[n]
      BY <1>3, <1>6, <2>1, <3>1
    <3>3. c[n] < fw.size
      BY <1>4, <1>5, <1>6
    <3> QED BY <1>5, <2>1, <3>2, <3>3
  <2>2. CASE i # n + 1
    <3>1. i \in 1 .. n /\ i \in 0 .. n /\ i - 1 \in 0 .. n
      BY <1>2, <2>2
    <3>2. d[i] = c[i] /\ d[i - 1] = c[i - 1] /\ u'.zeroWrites[i] = u.zeroWrites[i]
      BY <1>3, <1>7, <3>1
    <3>3. /\ c[i] = c[i - 1] + u.zeroWrites[i] /\ c[i - 1] < fw.size
          /\ u.zeroWrites[i] > 0
          /\ u.zeroWrites[i] = 1 => i = n /\ fw.left = 0
      BY <1>4, <3>1
    <3>4. fw.left # 0
      BY <1>5
    <3> QED BY <3>2, <3>3, <3>4
  <2> QED BY <2>1, <2>2
<1>10. d[n + 1] + fw'.left <= fw'.size
  BY <1>4, <1>5, <1>6
<1>11. d[0] = u'.descriptors
  BY <1>1, <1>6
<1>12. PICK e : e = d
  OBVIOUS
<1>13. Counts(e)'
  <2>1. Len(u'.zeroWrites) = n + 1 /\ u'.zeroWrites \in Seq(Nat)
    BY <1>2
  <2>2. e \in [0 .. Len(u'.zeroWrites) -> Nat] /\ e[0] = u'.descriptors
        /\ e[Len(u'.zeroWrites)] + fw'.left <= fw'.size
    BY <1>8, <1>10, <1>11, <1>12, <2>1
  <2>3. \A i \in 1 .. Len(u'.zeroWrites) :
           /\ e[i] = e[i - 1] + u'.zeroWrites[i] /\ e[i - 1] < fw'.size
           /\ u'.zeroWrites[i] > 0
           /\ u'.zeroWrites[i] = 1 => i = Len(u'.zeroWrites) /\ fw'.left = 0
    BY <1>9, <1>12, <2>1
  <2> QED BY <2>1, <2>2, <2>3 DEF Counts
<1> QED BY <1>13

LEMMA ZeroInDoneAdvances ==
    ASSUME UsbShaped, Lockstep, ResetOnce, ZeroInDone
    PROVE  Advanced /\ DOMAIN fw' = FwFields /\ fw'.left \in Nat /\ fw'.size = fw.size
<1> DEFINE k == NextPacket
           v == Cleared(In(0))
<1>1. fw.left \in Nat /\ MaxPacket \in Nat /\ MaxPacket > 1
  BY SizesKnown DEF UsbShaped
<1>2. /\ k \in Nat /\ k <= fw.left /\ (fw.left > 0 => k > 0) /\ (k = 1 => fw.left = 1)
      /\ (fw.left = 0 => k = 0)
  BY <1>1, LeastOfTwo DEF NextPacket
<1>3. /\ fw' = [fw EXCEPT !.left = @ - k] /\ sent' = sent
      /\ fw.left > 0 => u' = DPRAMUpdated(v, In(0), <<k>>)
      /\ ~(fw.left > 0) => u' = DPRAMUpdated(v, Out(0), <<0>>)
  BY DEF ZeroInDone
<1> HIDE DEF k
<1>4. /\ DOMAIN fw' = FwFields /\ fw'.left = fw.left - k /\ fw'.size = fw.size /\ fw'.on = fw.on
      /\ fw'.read = fw.read /\ fw'.setups = fw.setups
      /\ fw'.configured = fw.configured /\ fw'.connected = fw.connected
      /\ fw'.got = fw.got /\ fw'.written = fw.written /\ fw'.pairs = fw.pairs
  BY <1>3 DEF UsbShaped, FwFields
<1>5. fw'.left \in Nat
  BY <1>1, <1>2, <1>4
<1>6. /\ IsUsb(v) /\ SameHost(v, u) /\ SameSetup(v, u) /\ SameReads(v, u)
      /\ SameWrites(v, u) /\ SameAlarms(v, u)
      /\ v.buffStatus = u.buffStatus \ {In(0)} /\ Follows(v)
  BY BufferCleared DEF UsbShaped
<1> HIDE DEF v
<1>7. CASE fw.left = 0
  <2>1. u' = v
    BY <1>1, <1>3, <1>7, ZeroRequested
  <2>2. Out(Serial) \in u'.buffStatus <=> Out(Serial) \in u.buffStatus
    BY <1>6, <2>1, BuffersDiffer
  <2>3. SerialAlone
    BY <1>3, <1>4, <1>6, <2>1, <2>2 DEF SerialAlone
  <2>4. Unmoved
    <3>1. fw'.left = fw.left
      <4>1. k = 0
        BY <1>2, <1>7
      <4>2. fw'.left = 0 - 0
        BY <1>4, <1>7, <4>1
      <4> QED BY <1>7, <4>2
    <3>2. u'.sieStatus = u.sieStatus /\ u'.setupPacket = u.setupPacket
      BY <1>6, <2>1 DEF SameSetup
    <3>3. SameHost(u', u) /\ SameAlarms(u', u)
      BY <1>6, <2>1
    <3> QED BY <1>4, <3>1, <3>2, <3>3 DEF Unmoved, SameRound
  <2>5. Lockstep' /\ ResetOnce'
    BY <2>4, UnmovedKeeps
  <2> QED BY <1>4, <1>5, <1>6, <2>1, <2>3, <2>5 DEF Advanced, SameSetup, UsbShaped
<1>8. CASE fw.left # 0
  <2>1. u' = DPRAMUpdated(v, In(0), <<k>>)
    BY <1>1, <1>3, <1>8
  <2>2. /\ IsUsb(u') /\ SameHost(u', v) /\ SameSetup(u', v) /\ SameReads(u', v)
        /\ SameWrites(u', v) /\ u'.resetAlarm = v.resetAlarm
        /\ u'.zeroWrites = Append(v.zeroWrites, k)
        /\ u'.buffStatus = v.buffStatus \cup {In(0)} /\ Follows(u')
    BY <1>6, <2>1, ZeroWritten
  <2>3. /\ SameHost(u', u) /\ SameSetup(u', u) /\ SameReads(u', u)
        /\ SameWrites(u', u) /\ u'.resetAlarm = u.resetAlarm
        /\ u'.zeroWrites = Append(u.zeroWrites, k)
    BY <1>6, <2>2 DEF SameHost, SameSetup, SameReads, SameWrites, SameAlarms
  <2>4. Out(Serial) \in u'.buffStatus <=> Out(Serial) \in u.buffStatus
    BY <1>6, <2>2, BuffersDiffer
  <2>5. SerialAlone
    BY <1>3, <1>4, <2>3, <2>4 DEF SerialAlone
  <2>6. /\ On /\ Fresh /\ Knows(fw.size, u.descriptors, FALSE, FALSE)
        /\ u.descriptors \in Nat /\ u.descriptors < fw.size /\ NoneAsked
        /\ \E c : Counts(c)
    BY <1>8 DEF Lockstep, Off, Addressing, Sizing, Describing, Configuring, Connecting,
                Asked, With
  <2>7. On' /\ Fresh' /\ Knows(fw.size, u.descriptors, FALSE, FALSE)' /\ NoneAsked' /\ ResetOnce'
        /\ u'.descriptors \in Nat /\ u'.descriptors < fw'.size
    BY <1>4, <2>3, <2>6 DEF On, Fresh, Knows, NoneAsked, ResetOnce, SameHost, SameSetup
  <2>8. \E d : Counts(d)'
    <3>1. PICK c : Counts(c)
      BY <2>6
    <3>2. k > 0 /\ u'.descriptors = u.descriptors
      BY <1>1, <1>2, <1>8, <2>3 DEF SameHost
    <3> QED BY <1>2, <1>4, <2>3, <3>1, <3>2, PieceWaits
  <2>9. Describing'
    BY <2>7, <2>8, Zenon DEF Describing
  <2> QED BY <1>4, <1>5, <2>2, <2>3, <2>5, <2>7, <2>9 DEF Advanced, Lockstep, SameSetup, UsbShaped
<1> QED BY <1>7, <1>8

-----------------------------------------------------------------------------
(* USB, device mode: the firmware answers.                                      *)

\* The host has a packet for the serial port at once.
Fetches ==
    \E n \in 0 .. Len(u.txFIFO) :
       /\ n <= MaxPacket
       /\ u'.txFIFO = SubSeq(u.txFIFO, n + 1, Len(u.txFIFO))
       /\ u'.reads = Append(u.reads, SubSeq(u.txFIFO, 1, n)) /\ u'.readAlarm

\* Of the serial port, only that changes.
SerialFetches ==
    /\ Fetches /\ u'.outBuffer = u.outBuffer /\ SameWrites(u', u)
    /\ Out(Serial) \in u'.buffStatus <=> Out(Serial) \in u.buffStatus
    /\ fw'.got = fw.got /\ fw'.written = fw.written /\ fw'.pairs = fw.pairs
    /\ (fw.connected => fw'.connected) /\ fw'.configured /\ sent' = sent

\* The firmware has taken p, and answers with n and goes on to fw'.
LEMMA AnswerTaken ==
    ASSUME NEW p, Asked(p), fw.setups # <<>>
    PROVE  /\ "SETUP_REC" \notin u.sieStatus /\ fw.read = <<>> /\ fw.setups = <<p>>
           /\ Head(fw.setups) = p /\ Tail(fw.setups) = <<>>
           /\ u.zeroWrites = <<>> /\ fw.left = 0
<1>1. "SETUP_REC" \notin u.sieStatus /\ fw.read = <<>> /\ fw.setups = <<p>>
      /\ u.zeroWrites = <<>> /\ fw.left = 0
  BY DEF Asked, InController, Taken
<1>2. Head(<<p>>) = p /\ Tail(<<p>>) = <<>>
  OBVIOUS
<1> QED BY <1>1, <1>2

\* The steps in which n is the answer and left of it is to follow.
AnswersWith(n, left) ==
    /\ u' = DPRAMUpdated(u, In(0), <<n>>)
    /\ DOMAIN fw' = FwFields /\ fw'.setups = Tail(fw.setups) /\ fw'.left = left
    /\ fw'.size = fw.size /\ fw'.on = fw.on /\ fw'.read = fw.read
    /\ fw'.configured = fw.configured /\ (fw.connected => fw'.connected)
    /\ fw'.got = fw.got /\ fw'.written = fw.written /\ fw'.pairs = fw.pairs /\ sent' = sent

LEMMA AnswerWaits ==
    ASSUME UsbShaped, ResetOnce, On, NEW p, Asked(p), fw.setups # <<>>, NEW n, NEW left,
           AnswersWith(n, left)
    PROVE  /\ IsUsb(u') /\ Follows(u') /\ "BUFF_STATUS" \notin u'.sieStatus /\ SerialAlone
           /\ SameHost(u', u) /\ u'.setupPacket = u.setupPacket
           /\ ResetOnce' /\ On' /\ NoneAsked' /\ u'.zeroWrites = <<n>>
<1>1. /\ "SETUP_REC" \notin u.sieStatus /\ fw.read = <<>> /\ Tail(fw.setups) = <<>>
      /\ u.zeroWrites = <<>>
  BY AnswerTaken
<1>2. /\ IsUsb(u') /\ SameHost(u', u) /\ SameSetup(u', u) /\ SameReads(u', u)
      /\ SameWrites(u', u) /\ u'.resetAlarm = u.resetAlarm
      /\ u'.zeroWrites = Append(u.zeroWrites, n)
      /\ u'.buffStatus = u.buffStatus \cup {In(0)} /\ Follows(u')
  BY ZeroWritten DEF AnswersWith, UsbShaped
<1>3. Out(Serial) \in u'.buffStatus <=> Out(Serial) \in u.buffStatus
  BY <1>2, BuffersDiffer
<1>4. Append(<<>>, n) = <<n>>
  OBVIOUS
<1>5. SerialAlone
  BY <1>2, <1>3 DEF SerialAlone, AnswersWith
<1>6. On' /\ ResetOnce' /\ NoneAsked' /\ "BUFF_STATUS" \notin u'.sieStatus
  BY <1>1, <1>2 DEF On, ResetOnce, NoneAsked, SameSetup, AnswersWith, UsbShaped
<1> QED BY <1>1, <1>2, <1>4, <1>5, <1>6 DEF SameSetup

LEMMA Tags ==
    /\ SetAddress[1] = "SET_ADDRESS" /\ SetConfiguration[1] = "SET_CONFIGURATION"
    /\ SetLineState[1] = "SET_CONTROL_LINE_STATE"
    /\ GetHeader[1] = "GET_DESCRIPTOR" /\ GetHeader[2] = HeaderSize
    /\ GetDescriptor[1] = "GET_DESCRIPTOR" /\ GetDescriptor[2] = fw.size
BY DEF SetAddress, SetConfiguration, SetLineState, GetHeader, GetDescriptor

\* What AnswerSetup does with the packet at the head of the queue.
LEMMA AnswerSetupDoes ==
    ASSUME UsbShaped, AnswerSetup
    PROVE  LET p == Head(fw.setups)
               n == Min({p[2], MaxPacket})
           IN  /\ fw.setups # <<>>
               /\ p[1] = "GET_DESCRIPTOR" =>
                     AnswersWith(n, p[2] - n) /\ fw'.connected = fw.connected
               /\ p[1] = "SET_CONTROL_LINE_STATE" => AnswersWith(0, fw.left)
               /\ p[1] = "SET_ADDRESS" =>
                     AnswersWith(0, fw.left) /\ fw'.connected = fw.connected
               /\ p[1] = "SET_CONFIGURATION" =>
                     /\ u' = DPRAMUpdated(DPRAMUpdated(u, Out(Serial), <<MaxPacket>>),
                                          In(0), <<0>>)
                     /\ DOMAIN fw' = FwFields /\ fw'.setups = Tail(fw.setups)
                     /\ fw'.left = fw.left /\ fw'.size = fw.size /\ fw'.on = fw.on
                     /\ fw'.read = fw.read /\ fw'.configured = TRUE
                     /\ fw'.connected = fw.connected /\ fw'.got = fw.got
                     /\ fw'.written = fw.written /\ fw'.pairs = fw.pairs /\ sent' = sent
<1> DEFINE p == Head(fw.setups)
           f == [fw EXCEPT !.setups = Tail(@)]
           n == Min({p[2], MaxPacket})
<1>1. /\ DOMAIN f = FwFields /\ f.setups = Tail(fw.setups) /\ f.left = fw.left
      /\ f.size = fw.size /\ f.on = fw.on /\ f.read = fw.read
      /\ f.configured = fw.configured /\ f.connected = fw.connected
      /\ f.got = fw.got /\ f.written = fw.written /\ f.pairs = fw.pairs
  BY DEF UsbShaped, FwFields
<1>2. /\ fw.setups # <<>> /\ sent' = sent
      /\ CASE p[1] = "GET_DESCRIPTOR" ->
                    u' = DPRAMUpdated(u, In(0), <<n>>) /\ fw' = [f EXCEPT !.left = p[2] - n]
           [] p[1] = "SET_CONFIGURATION" ->
                    /\ u' = DPRAMUpdated(DPRAMUpdated(u, Out(Serial), <<MaxPacket>>),
                                         In(0), <<0>>)
                    /\ fw' = [f EXCEPT !.configured = TRUE]
           [] p[1] = "SET_CONTROL_LINE_STATE" ->
                    u' = DPRAMUpdated(u, In(0), <<0>>) /\ fw' = [f EXCEPT !.connected = TRUE]
           [] p[1] = "SET_ADDRESS" ->
                    u' = DPRAMUpdated(u, In(0), <<0>>) /\ fw' = f
  BY DEF AnswerSetup
<1> HIDE DEF f, n, p
<1>3. ASSUME p[1] = "GET_DESCRIPTOR"
      PROVE  AnswersWith(n, p[2] - n) /\ fw'.connected = fw.connected
  <2>1. u' = DPRAMUpdated(u, In(0), <<n>>) /\ fw' = [f EXCEPT !.left = p[2] - n]
    BY <1>2, <1>3
  <2> QED BY <1>1, <1>2, <2>1 DEF AnswersWith, FwFields
<1>4. ASSUME p[1] = "SET_CONTROL_LINE_STATE"
      PROVE  AnswersWith(0, fw.left)
  <2>1. u' = DPRAMUpdated(u, In(0), <<0>>) /\ fw' = [f EXCEPT !.connected = TRUE]
    BY <1>2, <1>4
  <2> QED BY <1>1, <1>2, <2>1 DEF AnswersWith, FwFields
<1>5. ASSUME p[1] = "SET_ADDRESS"
      PROVE  AnswersWith(0, fw.left) /\ fw'.connected = fw.connected
  <2>1. u' = DPRAMUpdated(u, In(0), <<0>>) /\ fw' = f
    BY <1>2, <1>5
  <2> QED BY <1>1, <1>2, <2>1 DEF AnswersWith, FwFields
<1>6. ASSUME p[1] = "SET_CONFIGURATION"
      PROVE  /\ u' = DPRAMUpdated(DPRAMUpdated(u, Out(Serial), <<MaxPacket>>), In(0), <<0>>)
             /\ DOMAIN fw' = FwFields /\ fw'.setups = Tail(fw.setups)
             /\ fw'.left = fw.left /\ fw'.size = fw.size /\ fw'.on = fw.on
             /\ fw'.read = fw.read /\ fw'.configured = TRUE
             /\ fw'.connected = fw.connected /\ fw'.got = fw.got
             /\ fw'.written = fw.written /\ fw'.pairs = fw.pairs /\ sent' = sent
  <2>1. /\ u' = DPRAMUpdated(DPRAMUpdated(u, Out(Serial), <<MaxPacket>>), In(0), <<0>>)
        /\ fw' = [f EXCEPT !.configured = TRUE]
    BY <1>2, <1>6
  <2> QED BY <1>1, <1>2, <2>1 DEF FwFields
<1> QED BY <1>2, <1>3, <1>4, <1>5, <1>6 DEF n, p

\* What an answer shows.
Replied ==
    /\ IsUsb(u') /\ Follows(u') /\ "BUFF_STATUS" \notin u'.sieStatus
    /\ u'.setupPacket = u.setupPacket
    /\ DOMAIN fw' = FwFields /\ fw'.left \in Nat /\ fw'.size = fw.size
    /\ SerialAlone \/ (SerialFetches /\ ~fw.configured)
    /\ Lockstep' /\ ResetOnce'

LEMMA AddressReplied ==
    ASSUME UsbShaped, ResetOnce, AnswerSetup, Addressing
    PROVE  Replied
<1>1. fw.setups # <<>>
  BY DEF AnswerSetup
<1>2. On /\ Fresh /\ Knows(0, 0, FALSE, FALSE) /\ Asked(SetAddress)
  BY <1>1 DEF Addressing, With, NoneAsked
<1>3. Head(fw.setups) = SetAddress /\ fw.left = 0
  BY <1>1, <1>2, AnswerTaken
<1>4. AnswersWith(0, fw.left) /\ fw'.connected = fw.connected
  BY <1>3, AnswerSetupDoes, Tags
<1>5. /\ IsUsb(u') /\ Follows(u') /\ "BUFF_STATUS" \notin u'.sieStatus /\ SerialAlone
      /\ SameHost(u', u) /\ u'.setupPacket = u.setupPacket
      /\ ResetOnce' /\ On' /\ NoneAsked' /\ u'.zeroWrites = <<0>>
  BY <1>1, <1>2, <1>4, AnswerWaits
<1>6. DOMAIN fw' = FwFields /\ fw'.left = 0 /\ fw'.size = fw.size
      /\ fw'.configured = fw.configured
  BY <1>3, <1>4 DEF AnswersWith
<1>7. Fresh' /\ Knows(0, 0, FALSE, FALSE)'
  BY <1>2, <1>4, <1>5, <1>6 DEF Fresh, Knows, SameHost
<1>8. With(<<0>>)'
  BY <1>5, <1>6 DEF With
<1>9. Lockstep'
  BY <1>5, <1>7, <1>8 DEF Lockstep, Addressing
<1>10. fw'.left \in Nat
  BY <1>6
<1> QED BY <1>5, <1>6, <1>9, <1>10 DEF Replied

LEMMA HeaderReplied ==
    ASSUME UsbShaped, ResetOnce, AnswerSetup, Sizing
    PROVE  Replied
<1>1. fw.setups # <<>>
  BY DEF AnswerSetup
<1>2. On /\ Fresh /\ Knows(0, 0, FALSE, FALSE) /\ Asked(GetHeader)
  BY <1>1 DEF Sizing, With, NoneAsked
<1>3. Head(fw.setups) = GetHeader
  BY <1>1, <1>2, AnswerTaken
<1>4. Min({HeaderSize, MaxPacket}) = HeaderSize /\ HeaderSize - HeaderSize = 0
  BY SizesKnown, LeastOfTwo
<1>5. AnswersWith(HeaderSize, 0) /\ fw'.connected = fw.connected
  <2>1. LET n == Min({HeaderSize, MaxPacket})
        IN  AnswersWith(n, HeaderSize - n) /\ fw'.connected = fw.connected
    BY <1>3, AnswerSetupDoes, Tags
  <2> QED BY <1>4, <2>1
<1>6. /\ IsUsb(u') /\ Follows(u') /\ "BUFF_STATUS" \notin u'.sieStatus /\ SerialAlone
      /\ SameHost(u', u) /\ u'.setupPacket = u.setupPacket
      /\ ResetOnce' /\ On' /\ NoneAsked' /\ u'.zeroWrites = <<HeaderSize>>
  BY <1>1, <1>2, <1>5, AnswerWaits
<1>7. DOMAIN fw' = FwFields /\ fw'.left = 0 /\ fw'.size = fw.size
      /\ fw'.configured = fw.configured
  BY <1>5 DEF AnswersWith
<1>8. Fresh' /\ Knows(0, 0, FALSE, FALSE)'
  BY <1>2, <1>5, <1>6, <1>7 DEF Fresh, Knows, SameHost
<1>9. With(<<HeaderSize>>)'
  BY <1>6, <1>7 DEF With
<1>10. Lockstep'
  BY <1>6, <1>8, <1>9 DEF Lockstep, Sizing
<1>11. fw'.left \in Nat
  BY <1>7
<1> QED BY <1>6, <1>7, <1>10, <1>11 DEF Replied

LEMMA DescriptorReplied ==
    ASSUME UsbShaped, ResetOnce, AnswerSetup, Describing
    PROVE  Replied
<1>1. fw.setups # <<>>
  BY DEF AnswerSetup
<1>2. /\ On /\ Fresh /\ Knows(fw.size, u.descriptors, FALSE, FALSE) /\ Asked(GetDescriptor)
      /\ u.descriptors = 0 /\ u.descriptors < fw.size
  BY <1>1 DEF Describing, NoneAsked
<1>3. Head(fw.setups) = GetDescriptor
  BY <1>1, <1>2, AnswerTaken
<1> DEFINE n == Min({fw.size, MaxPacket})
<1>4. /\ n \in Nat /\ n > 1 /\ n <= fw.size /\ fw.size - n \in Nat /\ fw.size \in Nat
  BY SizesKnown, LeastOfTwo DEF UsbShaped
<1>5. AnswersWith(n, fw.size - n) /\ fw'.connected = fw.connected
  BY <1>3, AnswerSetupDoes, Tags
<1> HIDE DEF n
<1>6. /\ IsUsb(u') /\ Follows(u') /\ "BUFF_STATUS" \notin u'.sieStatus /\ SerialAlone
      /\ SameHost(u', u) /\ u'.setupPacket = u.setupPacket
      /\ ResetOnce' /\ On' /\ NoneAsked' /\ u'.zeroWrites = <<n>>
  BY <1>1, <1>2, <1>5, AnswerWaits
<1>7. DOMAIN fw' = FwFields /\ fw'.left = fw.size - n /\ fw'.size = fw.size
      /\ fw'.configured = fw.configured
  BY <1>5 DEF AnswersWith
<1>8. Fresh' /\ Knows(fw.size, u.descriptors, FALSE, FALSE)' /\ u'.descriptors = 0
      /\ u'.descriptors \in Nat /\ u'.descriptors < fw'.size
  BY <1>2, <1>5, <1>6, <1>7 DEF Fresh, Knows, SameHost
<1>9. PICK m, k : m = n /\ k = fw.size
  OBVIOUS
<1> DEFINE c == [i \in 0 .. 1 |-> IF i = 0 THEN 0 ELSE m]
<1>10. Counts(c)'
  <2>1. c[0] = 0 /\ c[1] = m /\ c \in [0 .. 1 -> Nat]
    BY <1>4, <1>9
  <2>2. Len(u'.zeroWrites) = 1 /\ u'.zeroWrites[1] = m /\ u'.zeroWrites \in Seq(Nat)
    BY <1>4, <1>6, <1>9
  <2> HIDE DEF c
  <2>3. \A i \in 1 .. 1 :
           /\ c[i] = c[i - 1] + u'.zeroWrites[i] /\ c[i - 1] < fw'.size
           /\ u'.zeroWrites[i] > 0
           /\ u'.zeroWrites[i] = 1 => i = 1 /\ fw'.left = 0
    <3>1. c[1] = c[0] + u'.zeroWrites[1] /\ c[0] < fw'.size /\ u'.zeroWrites[1] > 1
      BY <1>4, <1>7, <1>9, <2>1, <2>2
    <3>2. \A i \in 1 .. 1 : i = 1 /\ i - 1 = 0
      OBVIOUS
    <3> QED BY <1>4, <1>9, <2>2, <3>1, <3>2
  <2>4. c[1] + fw'.left <= fw'.size
    BY <1>4, <1>7, <1>9, <2>1
  <2> QED BY <1>8, <2>1, <2>2, <2>3, <2>4 DEF Counts
<1> HIDE DEF c
<1>11. \E d : Counts(d)'
  BY <1>10
<1>12. Describing'
  BY <1>6, <1>8, <1>11, Zenon DEF Describing
<1>13. fw'.left \in Nat
  BY <1>4, <1>7
<1> QED BY <1>6, <1>7, <1>12, <1>13 DEF Replied, Lockstep

LEMMA LineStateReplied ==
    ASSUME UsbShaped, ResetOnce, AnswerSetup, Connecting
    PROVE  Replied
<1>1. fw.setups # <<>>
  BY DEF AnswerSetup
<1>2. On /\ Knows(fw.size, fw.size, TRUE, TRUE) /\ Asked(SetLineState)
  BY <1>1 DEF Connecting, With, NoneAsked
<1>3. Head(fw.setups) = SetLineState /\ fw.left = 0
  BY <1>1, <1>2, AnswerTaken
<1>4. AnswersWith(0, fw.left)
  BY <1>3, AnswerSetupDoes, Tags
<1>5. /\ IsUsb(u') /\ Follows(u') /\ "BUFF_STATUS" \notin u'.sieStatus /\ SerialAlone
      /\ SameHost(u', u) /\ u'.setupPacket = u.setupPacket
      /\ ResetOnce' /\ On' /\ NoneAsked' /\ u'.zeroWrites = <<0>>
  BY <1>1, <1>2, <1>4, AnswerWaits
<1>6. DOMAIN fw' = FwFields /\ fw'.left = 0 /\ fw'.size = fw.size
  BY <1>3, <1>4 DEF AnswersWith
<1>7. Knows(fw.size, fw.size, TRUE, TRUE)'
  BY <1>2, <1>5, <1>6 DEF Knows, SameHost
<1>8. With(<<0>>)'
  BY <1>5, <1>6 DEF With
<1>9. Lockstep'
  BY <1>5, <1>7, <1>8 DEF Lockstep, Connecting
<1>10. fw'.left \in Nat
  BY <1>6
<1> QED BY <1>5, <1>6, <1>9, <1>10 DEF Replied

LEMMA ConfigurationReplied ==
    ASSUME UsbShaped, ResetOnce, AnswerSetup, Configuring, u.txFIFO \in Seq(Nat)
    PROVE  Replied
<1>1. fw.setups # <<>>
  BY DEF AnswerSetup
<1>2. On /\ Knows(fw.size, fw.size, TRUE, FALSE) /\ Asked(SetConfiguration) /\ Fresh
  BY <1>1 DEF Configuring, With, NoneAsked
<1>3. /\ Head(fw.setups) = SetConfiguration /\ fw.left = 0 /\ Tail(fw.setups) = <<>>
      /\ "SETUP_REC" \notin u.sieStatus /\ fw.read = <<>> /\ u.zeroWrites = <<>>
  BY <1>1, <1>2, AnswerTaken
<1> DEFINE m == DPRAMUpdated(u, Out(Serial), <<MaxPacket>>)
<1>4. /\ u' = DPRAMUpdated(m, In(0), <<0>>)
      /\ DOMAIN fw' = FwFields /\ fw'.setups = Tail(fw.setups)
      /\ fw'.left = fw.left /\ fw'.size = fw.size /\ fw'.on = fw.on
      /\ fw'.read = fw.read /\ fw'.configured = TRUE
      /\ fw'.connected = fw.connected /\ fw'.got = fw.got
      /\ fw'.written = fw.written /\ fw'.pairs = fw.pairs /\ sent' = sent
  BY <1>3, AnswerSetupDoes, Tags
<1>5. /\ IsUsb(m) /\ SameHost(m, u) /\ SameSetup(m, u) /\ SameWrites(m, u)
      /\ SameAlarms(m, u) /\ m.buffStatus = u.buffStatus /\ m.outBuffer = u.outBuffer
      /\ Follows(m)
      /\ u.endpoints =>
            \E n \in 0 .. Len(u.txFIFO) :
               /\ n <= MaxPacket
               /\ m.txFIFO = SubSeq(u.txFIFO, n + 1, Len(u.txFIFO))
               /\ m.reads = Append(u.reads, SubSeq(u.txFIFO, 1, n)) /\ m.readAlarm
  BY SerialRequested, SizesKnown DEF UsbShaped
<1> HIDE DEF m
<1>6. u.endpoints
  BY <1>2 DEF Knows
<1>7. /\ IsUsb(u') /\ SameHost(u', m) /\ SameSetup(u', m) /\ SameReads(u', m)
      /\ SameWrites(u', m) /\ u'.resetAlarm = m.resetAlarm
      /\ u'.zeroWrites = Append(m.zeroWrites, 0)
      /\ u'.buffStatus = m.buffStatus \cup {In(0)} /\ Follows(u')
  BY <1>4, <1>5, ZeroWritten
<1>8. Fetches
  BY <1>5, <1>6, <1>7 DEF Fetches, SameReads
<1>9. Out(Serial) \in u'.buffStatus <=> Out(Serial) \in u.buffStatus
  BY <1>5, <1>7, BuffersDiffer
<1>10. SerialFetches
  BY <1>4, <1>5, <1>7, <1>8, <1>9 DEF SerialFetches, SameReads, SameWrites
<1>11. u'.zeroWrites = <<0>>
  <2>1. Append(<<>>, 0) = <<0>>
    OBVIOUS
  <2> QED BY <1>3, <1>5, <1>7, <2>1 DEF SameAlarms
<1>12. /\ SameHost(u', u) /\ u'.setupPacket = u.setupPacket /\ u'.sieStatus = u.sieStatus
       /\ u'.resetAlarm = u.resetAlarm
  BY <1>5, <1>7 DEF SameHost, SameSetup, SameAlarms
<1>13. /\ On' /\ ResetOnce' /\ "BUFF_STATUS" \notin u'.sieStatus
       /\ Knows(fw.size, fw.size, TRUE, FALSE)' /\ With(<<0>>)'
  BY <1>2, <1>3, <1>4, <1>11, <1>12
     DEF On, ResetOnce, UsbShaped, Knows, SameHost, With, NoneAsked
<1>14. Lockstep'
  BY <1>13 DEF Lockstep, Configuring
<1> QED BY <1>2, <1>3, <1>4, <1>7, <1>10, <1>12, <1>13, <1>14 DEF Replied, Fresh

LEMMA AnswerSetupReplies ==
    ASSUME UsbShaped, Lockstep, ResetOnce, AnswerSetup, u.txFIFO \in Seq(Nat)
    PROVE  Replied
<1>1. ~Off
  BY DEF Off, With, NoneAsked, AnswerSetup
<1> QED
  BY <1>1, AddressReplied, HeaderReplied, DescriptorReplied, ConfigurationReplied,
     LineStateReplied DEF Lockstep

-----------------------------------------------------------------------------
(* USB, device mode: the bytes of the serial port.                              *)

NoRead == u.reads = <<>> /\ ~u.readAlarm /\ Out(Serial) \notin u.buffStatus
OneRead ==
    /\ u.readAlarm /\ Out(Serial) \notin u.buffStatus
    /\ \E p \in Seq(Nat) : u.reads = <<p>> /\ Len(p) <= MaxPacket

\* At most one packet is on its way to the firmware, and only to a free buffer.
Reading ==
    /\ u.txFIFO \in Seq(Nat) /\ u.outBuffer \in Seq(Nat) /\ fw.got \in Seq(Nat)
    /\ sent \in Nat
    /\ ~fw.configured => NoRead
    /\ (u.reads = <<>> /\ ~u.readAlarm) \/ OneRead
    /\ ToDevice

Singles(f) == u.serialWrites = [i \in 1 .. Len(f) |-> <<f[i]>>]

\* The host takes what the firmware writes, byte for byte.
Writing ==
    /\ u.serialData \in Seq(Nat) /\ fw.written \in Nat
    /\ \E f \in Seq(Nat) : Singles(f)
    /\ u.serialWrites # <<>> => fw.connected
    /\ fw.pairs \subseteq 1 .. fw.written - 1
    /\ \A i \in fw.pairs : i + 1 \notin fw.pairs
    /\ FromDevice

\* b is the flattening of s, as FlattenSeq works it out.
Flattens(b, s) == b = [i \in 1 .. Len(s) |-> IF i = 1 THEN s[i] ELSE b[i - 1] \o s[i]]

LEMMA FlattenedBy ==
    ASSUME NEW s, Len(s) # 0, \E b : Flattens(b, s)
    PROVE  \E b : Flattens(b, s) /\ FlattenSeq(s) = b[Len(s)]
<1> DEFINE c == CHOOSE b : Flattens(b, s)
<1>1. FlattenSeq(s) = c[Len(s)]
  BY DEF FlattenSeq, Flattens
<1>2. Flattens(c, s)
  OBVIOUS
<1> QED BY <1>1, <1>2

LEMMA FlattenNone == FlattenSeq(<<>>) = <<>>
BY DEF FlattenSeq

LEMMA FlattenOne ==
    ASSUME NEW p
    PROVE  FlattenSeq(<<p>>) = p
<1> DEFINE s == <<p>>
           b == [i \in 1 .. 1 |-> p]
<1>1. Len(s) = 1 /\ s[1] = p
  OBVIOUS
<1>2. Flattens(b, s)
  <2>1. \A i \in 1 .. 1 : b[i] = IF i = 1 THEN s[i] ELSE b[i - 1] \o s[i]
    BY <1>1
  <2>2. b = [i \in 1 .. 1 |-> b[i]]
    OBVIOUS
  <2> HIDE DEF b, s
  <2> QED BY <1>1, <2>1, <2>2 DEF Flattens
<1> HIDE DEF b, s
<1>3. PICK c : Flattens(c, s) /\ FlattenSeq(s) = c[Len(s)]
  <2>1. Len(s) # 0 /\ \E d : Flattens(d, s)
    BY <1>1, <1>2
  <2> QED BY <2>1, FlattenedBy
<1>4. c[1] = p
  BY <1>1, <1>3 DEF Flattens
<1>5. FlattenSeq(s) = p
  BY <1>1, <1>3, <1>4
<1> QED BY <1>5 DEF s

LEMMA Joined ==
    ASSUME NEW y \in Seq(Nat), NEW z \in Seq(Nat)
    PROVE  /\ y \o z \in Seq(Nat) /\ Len(y \o z) = Len(y) + Len(z)
           /\ \A j \in 1 .. Len(y) : (y \o z)[j] = y[j]
           /\ \A j \in 1 .. Len(z) : (y \o z)[Len(y) + j] = z[j]
BY ConcatProperties

LEMMA FlattenSingles ==
    ASSUME NEW f \in Seq(Nat)
    PROVE  FlattenSeq([i \in 1 .. Len(f) |-> <<f[i]>>]) = f
<1> DEFINE s == [i \in 1 .. Len(f) |-> <<f[i]>>]
           n == Len(f)
           b == [i \in 1 .. n |-> SubSeq(f, 1, i)]
<1>1. n \in Nat /\ Len(s) = n /\ \A i \in 1 .. n : s[i] = <<f[i]>>
  OBVIOUS
<1>2. CASE n = 0
  <2>1. f = <<>> /\ s = <<>>
    BY <1>1, <1>2
  <2> HIDE DEF s
  <2> QED BY <2>1, FlattenNone DEF s
<1>3. CASE n # 0
  <2>1. \A i \in 1 .. n : b[i] = IF i = 1 THEN s[i] ELSE b[i - 1] \o s[i]
    <3> SUFFICES ASSUME NEW i \in 1 .. n
                 PROVE  b[i] = IF i = 1 THEN s[i] ELSE b[i - 1] \o s[i]
      OBVIOUS
    <3>1. b[i] = SubSeq(f, 1, i) /\ s[i] = <<f[i]>> /\ f[i] \in Nat
      BY <1>1
    <3>2. CASE i = 1
      <4>1. SubSeq(f, 1, 1) = <<f[1]>>
        <5>1. SubSeq(f, 1, 1) \in Seq(Nat) /\ Len(SubSeq(f, 1, 1)) = 1
              /\ SubSeq(f, 1, 1)[1] = f[1]
          BY <1>1, <1>3
        <5>2. <<f[1]>> \in Seq(Nat) /\ Len(<<f[1]>>) = 1 /\ <<f[1]>>[1] = f[1]
          BY <1>1, <1>3
        <5> DEFINE x == SubSeq(f, 1, 1)
                   z == <<f[1]>>
        <5> HIDE DEF x, z
        <5>3. x \in Seq(Nat) /\ z \in Seq(Nat) /\ Len(x) = 1 /\ Len(z) = 1 /\ x[1] = z[1]
          BY <5>1, <5>2 DEF x, z
        <5>4. \A j \in 1 .. Len(x) : x[j] = z[j]
          BY <5>3
        <5>5. x = z
          BY <5>3, <5>4, SeqEqual
        <5> QED BY <5>5 DEF x, z
      <4> QED BY <3>1, <3>2, <4>1
    <3>3. CASE i # 1
      <4>1. i - 1 \in 1 .. n /\ b[i - 1] = SubSeq(f, 1, i - 1)
        BY <1>1, <3>3
      <4> DEFINE x == SubSeq(f, 1, i)
                 y == SubSeq(f, 1, i - 1)
                 z == <<f[i]>>
      <4>2. x \in Seq(Nat) /\ Len(x) = i /\ \A j \in 1 .. i : x[j] = f[j]
        BY <1>1
      <4>3. y \in Seq(Nat) /\ Len(y) = i - 1 /\ \A j \in 1 .. i - 1 : y[j] = f[j]
        BY <1>1, <4>1
      <4>4. z \in Seq(Nat) /\ Len(z) = 1 /\ z[1] = f[i]
        BY <3>1
      <4> HIDE DEF x, y, z
      <4>5. y \o z \in Seq(Nat) /\ Len(y \o z) = i
        <5>1. i \in Nat /\ (i - 1) + 1 = i
          BY <1>1
        <5>2. y \o z \in Seq(Nat) /\ Len(y \o z) = Len(y) + Len(z)
          BY <4>3, <4>4, Joined
        <5> QED BY <4>3, <4>4, <5>1, <5>2
      <4>6. \A j \in 1 .. i : (y \o z)[j] = f[j]
        <5> SUFFICES ASSUME NEW j \in 1 .. i PROVE (y \o z)[j] = f[j]
          OBVIOUS
        <5>1. CASE j = i
          <6>1. i \in Nat /\ i - 1 \in Nat /\ (i - 1) + 1 = i
            BY <1>1, <4>1
          <6>2. \A m \in 1 .. Len(z) : (y \o z)[Len(y) + m] = z[m]
            BY <4>3, <4>4, Joined
          <6>3. 1 \in 1 .. Len(z)
            BY <4>4
          <6>4. (y \o z)[Len(y) + 1] = z[1]
            BY <6>2, <6>3
          <6> QED BY <4>3, <4>4, <5>1, <6>1, <6>4
        <5>2. CASE j # i
          <6>1. j \in 1 .. i - 1
            BY <1>1, <5>2
          <6>2. (y \o z)[j] = y[j]
            BY <4>3, <4>4, <6>1, Joined
          <6> QED BY <4>3, <6>1, <6>2
        <5> QED BY <5>1, <5>2
      <4>7. x = y \o z
        BY <4>2, <4>5, <4>6, SeqEqual
      <4> QED BY <3>1, <3>3, <4>1, <4>7 DEF x, y, z
    <3> QED BY <3>2, <3>3
  <2>2. b = [i \in 1 .. n |-> b[i]] /\ b[n] = f
    BY <1>1, <1>3
  <2> HIDE DEF b, s, n
  <2>3. Flattens(b, s)
    BY <1>1, <2>1, <2>2 DEF Flattens
  <2>4. PICK c : Flattens(c, s) /\ FlattenSeq(s) = c[n]
    BY <1>1, <1>3, <2>3, FlattenedBy
  <2>5. \A i \in 1 .. n : c[i] = IF i = 1 THEN s[i] ELSE c[i - 1] \o s[i]
    BY <1>1, <2>4 DEF Flattens
  <2>6. \A i \in 1 .. n : c[i] = b[i]
    <3> DEFINE Bad == {i \in 1 .. n : c[i] # b[i]}
    <3> SUFFICES ASSUME Bad # {} PROVE FALSE
      OBVIOUS
    <3>1. PICK i \in Bad : \A m \in Bad : i <= m
      <4>1. Bad \in SUBSET Nat
        BY <1>1
      <4> HIDE DEF Bad
      <4> QED BY <4>1, LeastNumber
    <3>2. i \in 1 .. n /\ c[i] # b[i]
      OBVIOUS
    <3>3. i # 1
      BY <2>1, <2>5, <3>2
    <3>4. i - 1 \in 1 .. n /\ i - 1 \notin Bad
      BY <1>1, <3>1, <3>2, <3>3
    <3>5. c[i - 1] = b[i - 1]
      BY <3>4
    <3> QED BY <2>1, <2>5, <3>2, <3>3, <3>5
  <2>7. n \in 1 .. n
    BY <1>1, <1>3
  <2>8. FlattenSeq(s) = f
    BY <2>2, <2>4, <2>6, <2>7
  <2> QED BY <2>8 DEF s
<1> QED BY <1>2, <1>3

-----------------------------------------------------------------------------
(* USB, device mode: the steps of the serial port, towards the firmware.        *)

ReadsAlone ==
    /\ SameReads(u', u)
    /\ Out(Serial) \in u'.buffStatus <=> Out(Serial) \in u.buffStatus
    /\ fw'.got = fw.got /\ fw'.configured = fw.configured /\ sent' = sent

WritesAlone ==
    /\ SameWrites(u', u)
    /\ fw'.written = fw.written /\ fw'.pairs = fw.pairs /\ (fw.connected => fw'.connected)

LEMMA ReadsKept ==
    ASSUME Reading, ReadsAlone
    PROVE  Reading'
<1>1. /\ u'.txFIFO = u.txFIFO /\ u'.outBuffer = u.outBuffer /\ u'.reads = u.reads
      /\ u'.readAlarm = u.readAlarm /\ fw'.got = fw.got /\ sent' = sent
      /\ fw'.configured = fw.configured
      /\ Out(Serial)' = Out(Serial)
      /\ Out(Serial) \in u'.buffStatus <=> Out(Serial) \in u.buffStatus
  BY DEF ReadsAlone, SameReads, Out, Serial
<1>2. ToDevice'
  BY <1>1 DEF Reading, ToDevice
<1>3. (NoRead => NoRead') /\ (OneRead => OneRead')
  BY <1>1 DEF NoRead, OneRead
<1> QED BY <1>1, <1>2, <1>3 DEF Reading

LEMMA WritesKept ==
    ASSUME Writing, WritesAlone
    PROVE  Writing'
<1>1. /\ u'.serialWrites = u.serialWrites /\ u'.serialData = u.serialData
      /\ fw'.written = fw.written /\ fw'.pairs = fw.pairs
  BY DEF WritesAlone, SameWrites
<1>2. FromDevice'
  BY <1>1 DEF Writing, FromDevice
<1>3. \E f \in Seq(Nat) : Singles(f)'
  BY <1>1 DEF Writing, Singles
<1> QED BY <1>1, <1>2, <1>3 DEF Writing, WritesAlone

\* The bytes on their way, with what the buffer holds and the packet that waits.
Way(got, held, waits, tx) == got \o held \o waits \o tx

LEMMA WayIs ==
    ASSUME Reading
    PROVE  /\ u.reads = <<>> =>
                Way(fw.got, IF Out(Serial) \in u.buffStatus THEN u.outBuffer ELSE <<>>,
                    <<>>, u.txFIFO) = [i \in 1 .. sent |-> i]
           /\ \A p \in Seq(Nat) : u.reads = <<p>> =>
                Way(fw.got, IF Out(Serial) \in u.buffStatus THEN u.outBuffer ELSE <<>>,
                    p, u.txFIFO) = [i \in 1 .. sent |-> i]
BY FlattenNone, FlattenOne DEF Reading, ToDevice, Way

LEMMA ToDeviceIs ==
    ASSUME u'.reads = <<>> \/ \E p \in Seq(Nat) : u'.reads = <<p>>,
           u'.reads = <<>> =>
                Way(fw'.got, IF Out(Serial) \in u'.buffStatus THEN u'.outBuffer ELSE <<>>,
                    <<>>, u'.txFIFO) = [i \in 1 .. sent' |-> i],
           \A p \in Seq(Nat) : u'.reads = <<p>> =>
                Way(fw'.got, IF Out(Serial) \in u'.buffStatus THEN u'.outBuffer ELSE <<>>,
                    p, u'.txFIFO) = [i \in 1 .. sent' |-> i]
    PROVE  ToDevice'
<1>1. CASE u'.reads = <<>>
  <2>1. Way(fw'.got, IF Out(Serial) \in u'.buffStatus THEN u'.outBuffer ELSE <<>>,
            <<>>, u'.txFIFO) = [i \in 1 .. sent' |-> i]
    BY <1>1
  <2>2. FlattenSeq(u'.reads) = <<>>
    BY <1>1, FlattenNone
  <2> QED BY <2>1, <2>2 DEF ToDevice, Way, Out, Serial
<1>2. ASSUME NEW p \in Seq(Nat), u'.reads = <<p>> PROVE ToDevice'
  <2>1. Way(fw'.got, IF Out(Serial) \in u'.buffStatus THEN u'.outBuffer ELSE <<>>,
            p, u'.txFIFO) = [i \in 1 .. sent' |-> i]
    BY <1>2
  <2>2. FlattenSeq(u'.reads) = p
    BY <1>2, FlattenOne
  <2> QED BY <2>1, <2>2 DEF ToDevice, Way, Out, Serial
<1> QED BY <1>1, <1>2

LEMMA Regroup ==
    ASSUME NEW a \in Seq(Nat), NEW b \in Seq(Nat), NEW c \in Seq(Nat)
    PROVE  (a \o b) \o c = a \o (b \o c)
BY ConcatAssociative

LEMMA AppendFar ==
    ASSUME NEW a \in Seq(Nat), NEW b \in Seq(Nat), NEW k \in Nat
    PROVE  a \o Append(b, k) = Append(a \o b, k)
<1>1. Append(b, k) = b \o <<k>> /\ <<k>> \in Seq(Nat)
  BY AppendIsConcat
<1>2. a \o b \in Seq(Nat)
  BY Joined
<1>3. Append(a \o b, k) = (a \o b) \o <<k>>
  BY <1>2, AppendIsConcat
<1>4. (a \o b) \o <<k>> = a \o (b \o <<k>>)
  BY <1>1, Regroup
<1> QED BY <1>1, <1>3, <1>4

LEMMA WayBare ==
    ASSUME NEW a \in Seq(Nat), NEW c
    PROVE  Way(a, <<>>, <<>>, c) = a \o c
<1>1. a \o <<>> = a
  BY ConcatEmptySeq
<1> QED BY <1>1 DEF Way

LEMMA WayHeld ==
    ASSUME NEW a \in Seq(Nat), NEW b \in Seq(Nat), NEW c
    PROVE  Way(a, b, <<>>, c) = (a \o b) \o c
<1>1. a \o b \in Seq(Nat)
  BY Joined
<1>2. (a \o b) \o <<>> = a \o b
  BY <1>1, ConcatEmptySeq
<1> QED BY <1>2 DEF Way

LEMMA WayFetched ==
    ASSUME NEW a \in Seq(Nat), NEW b \in Seq(Nat), NEW c \in Seq(Nat)
    PROVE  Way(a, <<>>, b, c) = a \o (b \o c)
<1>1. a \o <<>> = a /\ (a \o b) \o c = a \o (b \o c)
  BY ConcatEmptySeq, ConcatAssociative
<1> QED BY <1>1 DEF Way

\* The packet that the host has is the front of what waits.
LEMMA FetchSplits ==
    ASSUME u.txFIFO \in Seq(Nat), u.reads = <<>>, Fetches
    PROVE  \E p \in Seq(Nat) : /\ u'.reads = <<p>> /\ Len(p) <= MaxPacket /\ u'.readAlarm
                               /\ u'.txFIFO \in Seq(Nat) /\ p \o u'.txFIFO = u.txFIFO
<1> DEFINE tx == u.txFIFO
<1>1. PICK n \in 0 .. Len(tx) :
          /\ n <= MaxPacket /\ u'.txFIFO = SubSeq(tx, n + 1, Len(tx))
          /\ u'.reads = Append(u.reads, SubSeq(tx, 1, n)) /\ u'.readAlarm
  BY DEF Fetches
<1>2. tx \in Seq(Nat) /\ Len(tx) \in Nat
  OBVIOUS
<1> DEFINE p == SubSeq(tx, 1, n)
           r == SubSeq(tx, n + 1, Len(tx))
<1>3. p \in Seq(Nat) /\ Len(p) = n /\ \A j \in 1 .. n : p[j] = tx[j]
  BY <1>2
<1>4. r \in Seq(Nat) /\ Len(r) = Len(tx) - n /\ \A j \in 1 .. Len(tx) - n : r[j] = tx[n + j]
  BY <1>2
<1>5. u'.reads = <<p>>
  <2>1. \A x : Append(<<>>, x) = <<x>>
    OBVIOUS
  <2> QED BY <1>1, <2>1
<1> HIDE DEF p, r, tx
<1>6. p \o r = tx
  <2>1. p \o r \in Seq(Nat) /\ Len(p \o r) = Len(tx)
    <3>1. p \o r \in Seq(Nat) /\ Len(p \o r) = Len(p) + Len(r)
      BY <1>3, <1>4, Joined
    <3> QED BY <1>2, <1>3, <1>4, <3>1
  <2>2. ASSUME NEW j \in 1 .. Len(tx) PROVE (p \o r)[j] = tx[j]
    <3>1. CASE j \in 1 .. n
      <4>1. (p \o r)[j] = p[j]
        BY <1>3, <1>4, <3>1, Joined
      <4> QED BY <1>3, <3>1, <4>1
    <3>2. CASE j \notin 1 .. n
      <4> DEFINE k == j - n
      <4>1. k \in 1 .. Len(tx) - n /\ n + k = j
        BY <1>2, <3>2
      <4>2. (p \o r)[n + k] = r[k]
        BY <1>3, <1>4, <4>1, Joined
      <4> HIDE DEF k
      <4> QED BY <1>4, <4>1, <4>2
    <3> QED BY <3>1, <3>2
  <2> QED BY <1>2, <2>1, <2>2, SeqEqual
<1>7. u'.txFIFO = r /\ Len(p) <= MaxPacket
  BY <1>1, <1>3 DEF r, tx
<1> QED BY <1>1, <1>3, <1>4, <1>5, <1>6, <1>7 DEF tx

\* The first packet, when the interface is configured.
LEMMA FetchKeeps ==
    ASSUME Reading, ~fw.configured, SerialFetches
    PROVE  Reading'
<1>1. u.reads = <<>> /\ ~u.readAlarm /\ Out(Serial) \notin u.buffStatus
  BY DEF Reading, NoRead
<1>2. PICK p \in Seq(Nat) : /\ u'.reads = <<p>> /\ Len(p) <= MaxPacket /\ u'.readAlarm
                            /\ u'.txFIFO \in Seq(Nat) /\ p \o u'.txFIFO = u.txFIFO
  BY <1>1, FetchSplits DEF SerialFetches, Reading
<1>3. /\ u'.outBuffer = u.outBuffer /\ fw'.got = fw.got /\ sent' = sent /\ fw'.configured
      /\ Out(Serial) \notin u'.buffStatus
  BY <1>1 DEF SerialFetches
<1>4. fw.got \in Seq(Nat) /\ u.txFIFO \in Seq(Nat) /\ u.outBuffer \in Seq(Nat) /\ sent \in Nat
  BY DEF Reading
<1>5. Way(fw.got, <<>>, <<>>, u.txFIFO) = [i \in 1 .. sent |-> i]
  BY <1>1, WayIs
<1>6. Way(fw.got, <<>>, p, u'.txFIFO) = Way(fw.got, <<>>, <<>>, u.txFIFO)
  <2>1. Way(fw.got, <<>>, p, u'.txFIFO) = fw.got \o (p \o u'.txFIFO)
    BY <1>2, <1>4, WayFetched
  <2>2. Way(fw.got, <<>>, <<>>, u.txFIFO) = fw.got \o u.txFIFO
    BY <1>4, WayBare
  <2> QED BY <1>2, <2>1, <2>2
<1>7. \A q : <<p>> # <<>> /\ (<<p>> = <<q>> => p = q)
  OBVIOUS
<1>8. ToDevice'
  BY <1>2, <1>3, <1>5, <1>6, <1>7, ToDeviceIs
<1>9. OneRead'
  BY <1>2, <1>3 DEF OneRead, Out, Serial
<1> QED BY <1>2, <1>3, <1>4, <1>8, <1>9 DEF Reading

LEMMA ReadAlarmDoes ==
    ASSUME UsbShaped, Reading, ReadAlarm
    PROVE  IsUsb(u') /\ Follows(u') /\ Unmoved /\ WritesAlone /\ UNCHANGED fw /\ Reading'
<1>1. u.readAlarm /\ fw' = fw /\ sent' = sent
  BY DEF ReadAlarm
<1>2. PICK p \in Seq(Nat) : u.reads = <<p>> /\ Len(p) <= MaxPacket
  BY <1>1 DEF Reading, OneRead
<1>3. Out(Serial) \notin u.buffStatus /\ fw.configured
  BY <1>1 DEF Reading, OneRead, NoRead
<1>4. /\ Head(u.reads) = p /\ Tail(u.reads) = <<>>
      /\ SubSeq(p, 1, Min({MaxPacket, Len(p)})) = p
  <2>1. Head(<<p>>) = p /\ Tail(<<p>>) = <<>>
    OBVIOUS
  <2>2. Min({MaxPacket, Len(p)}) = Len(p)
    <3>1. Len(p) \in Nat /\ MaxPacket \in Nat
      BY SizesKnown
    <3> QED BY <1>2, <3>1, LeastOfTwo
  <2>3. SubSeq(p, 1, Len(p)) = p
    OBVIOUS
  <2> QED BY <1>2, <2>1, <2>2, <2>3
<1> DEFINE m == [u EXCEPT !.readAlarm = FALSE, !.reads = <<>>]
           t == [m EXCEPT !.outBuffer = p]
<1>5. u' = indicateBufferReady(t, Out(Serial))
  <2>1. m = [u EXCEPT !.readAlarm = FALSE, !.reads = Tail(@)]
    BY <1>4
  <2> HIDE DEF m
  <2> QED BY <1>4, <2>1 DEF ReadAlarm, finishRead
<1>6. /\ IsUsb(t) /\ SameHost(t, u) /\ SameSetup(t, u) /\ SameWrites(t, u) /\ SameAlarms(t, u)
      /\ t.buffStatus = u.buffStatus /\ t.intRaw = u.intRaw
      /\ t.outBuffer = p /\ ~t.readAlarm /\ t.reads = <<>> /\ t.txFIFO = u.txFIFO
  BY DEF UsbShaped, IsUsb, UsbFields, SameHost, SameSetup, SameWrites, SameAlarms
<1> HIDE DEF t
<1>7. Follows(t)
  BY <1>6 DEF UsbShaped, Follows, SameSetup
<1>8. /\ IsUsb(u') /\ SameHost(u', t) /\ SameSetup(u', t) /\ SameReads(u', t)
      /\ SameWrites(u', t) /\ SameAlarms(u', t)
      /\ u'.buffStatus = t.buffStatus \cup {Out(Serial)} /\ Follows(u')
  BY <1>5, <1>6, <1>7, Indicated
<1>9. Unmoved /\ WritesAlone
  BY <1>1, <1>6, <1>8 DEF Unmoved, SameRound, WritesAlone, SameHost, SameSetup, SameWrites,
                          SameAlarms
<1>10. /\ u'.outBuffer = p /\ ~u'.readAlarm /\ u'.reads = <<>> /\ u'.txFIFO = u.txFIFO
       /\ Out(Serial) \in u'.buffStatus
  BY <1>6, <1>8 DEF SameReads
<1>11. fw.got \in Seq(Nat) /\ u.txFIFO \in Seq(Nat) /\ sent \in Nat
  BY DEF Reading
<1>12. Way(fw.got, <<>>, p, u.txFIFO) = [i \in 1 .. sent |-> i]
  BY <1>2, <1>3, WayIs
<1>13. Way(fw.got, p, <<>>, u.txFIFO) = Way(fw.got, <<>>, p, u.txFIFO)
  <2>1. Way(fw.got, p, <<>>, u.txFIFO) = (fw.got \o p) \o u.txFIFO
    BY <1>11, WayHeld
  <2>2. Way(fw.got, <<>>, p, u.txFIFO) = fw.got \o (p \o u.txFIFO)
    BY <1>11, WayFetched
  <2>3. (fw.got \o p) \o u.txFIFO = fw.got \o (p \o u.txFIFO)
    BY <1>11, Regroup
  <2> QED BY <2>1, <2>2, <2>3
<1>14. \A q : <<>> # <<q>>
  OBVIOUS
<1>15. ToDevice'
  BY <1>1, <1>10, <1>12, <1>13, <1>14, ToDeviceIs
<1>16. Reading'
  BY <1>1, <1>2, <1>3, <1>10, <1>11, <1>15 DEF Reading
<1> QED BY <1>1, <1>8, <1>9, <1>16

LEMMA SerialOutDoneDoes ==
    ASSUME UsbShaped, Reading, SerialOutDone
    PROVE  /\ IsUsb(u') /\ Follows(u') /\ Unmoved /\ WritesAlone
           /\ DOMAIN fw' = FwFields /\ Reading'
<1> DEFINE m == Cleared(Out(Serial))
<1>1. /\ Out(Serial) \in u.buffStatus /\ sent' = sent /\ DOMAIN fw' = FwFields
      /\ fw'.got = fw.got \o u.outBuffer /\ SameRound
      /\ fw'.written = fw.written /\ fw'.pairs = fw.pairs
      /\ u' = DPRAMUpdated(m, Out(Serial), <<MaxPacket>>)
  BY DEF SerialOutDone, UsbShaped, FwFields, SameRound
<1>2. fw.configured /\ u.reads = <<>> /\ ~u.readAlarm
  BY <1>1 DEF Reading, NoRead, OneRead
<1>3. /\ IsUsb(m) /\ SameHost(m, u) /\ SameSetup(m, u) /\ SameReads(m, u)
      /\ SameWrites(m, u) /\ SameAlarms(m, u)
      /\ m.buffStatus = u.buffStatus \ {Out(Serial)} /\ Follows(m)
  BY BufferCleared DEF UsbShaped
<1> HIDE DEF m
<1>4. /\ m.txFIFO = u.txFIFO /\ m.reads = u.reads /\ m.readAlarm = u.readAlarm
      /\ m.txFIFO \in Seq(Nat) /\ fw.got \in Seq(Nat) /\ u.outBuffer \in Seq(Nat)
      /\ u.txFIFO \in Seq(Nat) /\ sent \in Nat /\ m.outBuffer = u.outBuffer
  BY <1>3 DEF SameReads, Reading
<1>5. /\ IsUsb(u') /\ SameHost(u', m) /\ SameSetup(u', m) /\ SameWrites(u', m)
      /\ SameAlarms(u', m) /\ u'.buffStatus = m.buffStatus
      /\ u'.outBuffer = m.outBuffer /\ Follows(u')
      /\ ~m.endpoints => SameReads(u', m)
      /\ m.endpoints =>
            \E n \in 0 .. Len(m.txFIFO) :
               /\ n <= MaxPacket
               /\ u'.txFIFO = SubSeq(m.txFIFO, n + 1, Len(m.txFIFO))
               /\ u'.reads = Append(m.reads, SubSeq(m.txFIFO, 1, n)) /\ u'.readAlarm
  BY <1>1, <1>3, <1>4, SerialRequested, SizesKnown
<1>6. Unmoved /\ WritesAlone
  BY <1>1, <1>3, <1>5 DEF Unmoved, SameRound, WritesAlone, SameHost, SameSetup, SameWrites,
                          SameAlarms
<1>7. Out(Serial) \notin u'.buffStatus
  BY <1>3, <1>5
<1>8. fw'.got \in Seq(Nat)
  BY <1>1, <1>4
<1>9. Way(fw.got, u.outBuffer, <<>>, u.txFIFO) = [i \in 1 .. sent |-> i]
  BY <1>1, <1>2, WayIs
<1>10. Way(fw.got, u.outBuffer, <<>>, u.txFIFO) = fw'.got \o u.txFIFO
  <2>1. Way(fw.got, u.outBuffer, <<>>, u.txFIFO) = (fw.got \o u.outBuffer) \o u.txFIFO
    <3>1. fw.got \in Seq(Nat) /\ u.outBuffer \in Seq(Nat)
      BY <1>4
    <3> QED BY <3>1, WayHeld
  <2> QED BY <1>1, <2>1
<1>11. CASE ~m.endpoints
  <2>1. u'.txFIFO = u.txFIFO /\ u'.reads = <<>> /\ ~u'.readAlarm
    BY <1>2, <1>4, <1>5, <1>11 DEF SameReads
  <2>2. Way(fw'.got, <<>>, <<>>, u'.txFIFO) = fw'.got \o u.txFIFO
    BY <1>4, <1>8, <2>1, WayBare
  <2>3. \A q : <<>> # <<q>>
    OBVIOUS
  <2>4. ToDevice'
    BY <1>1, <1>7, <1>9, <1>10, <2>1, <2>2, <2>3, ToDeviceIs
  <2>5. fw'.configured /\ u'.outBuffer \in Seq(Nat) /\ u'.txFIFO \in Seq(Nat) /\ sent' \in Nat
    BY <1>1, <1>2, <1>4, <1>5, <2>1 DEF SameRound
  <2>6. Reading'
    BY <1>8, <2>1, <2>4, <2>5 DEF Reading
  <2> QED BY <1>1, <1>5, <1>6, <2>6
<1>12. CASE m.endpoints
  <2>1. Fetches
    BY <1>4, <1>5, <1>12 DEF Fetches
  <2>2. PICK p \in Seq(Nat) : /\ u'.reads = <<p>> /\ Len(p) <= MaxPacket /\ u'.readAlarm
                              /\ u'.txFIFO \in Seq(Nat) /\ p \o u'.txFIFO = u.txFIFO
    BY <1>2, <1>4, <2>1, FetchSplits
  <2>3. Way(fw'.got, <<>>, p, u'.txFIFO) = fw'.got \o u.txFIFO
    <3>1. Way(fw'.got, <<>>, p, u'.txFIFO) = fw'.got \o (p \o u'.txFIFO)
      BY <1>8, <2>2, WayFetched
    <3> QED BY <2>2, <3>1
  <2>4. \A q : <<p>> # <<>> /\ (<<p>> = <<q>> => p = q)
    OBVIOUS
  <2>5. ToDevice'
    BY <1>1, <1>7, <1>9, <1>10, <2>2, <2>3, <2>4, ToDeviceIs
  <2>6. OneRead'
    BY <1>7, <2>2 DEF OneRead, Out, Serial
  <2>7. fw'.configured /\ u'.outBuffer \in Seq(Nat) /\ sent' \in Nat
    BY <1>1, <1>2, <1>4, <1>5 DEF SameRound
  <2>8. Reading'
    BY <1>8, <2>2, <2>5, <2>6, <2>7 DEF Reading
  <2> QED BY <1>1, <1>5, <1>6, <2>8
<1> QED BY <1>11, <1>12

LEMMA sendSerialByteDoes ==
    ASSUME UsbShaped, Reading, sendSerialByte
    PROVE  IsUsb(u') /\ Follows(u') /\ Unmoved /\ WritesAlone /\ UNCHANGED fw /\ Reading'
<1>1. CASE UNCHANGED usbVars
  <2>1. u' = u /\ fw' = fw /\ sent' = sent
    BY <1>1 DEF usbVars
  <2>2. ReadsAlone
    BY <2>1 DEF ReadsAlone, SameReads
  <2>3. Reading'
    BY <2>2, ReadsKept
  <2> QED
    BY <2>1, <2>3 DEF UsbShaped, Unmoved, WritesAlone, SameWrites, SameHost, SameAlarms,
                      SameRound
<1>2. CASE u' = [u EXCEPT !.txFIFO = Append(@, sent + 1)] /\ sent' = sent + 1 /\ fw' = fw
  <2>1. /\ IsUsb(u') /\ SameHost(u', u) /\ SameSetup(u', u) /\ SameWrites(u', u)
        /\ SameAlarms(u', u) /\ u'.intRaw = u.intRaw /\ u'.buffStatus = u.buffStatus
        /\ u'.reads = u.reads /\ u'.readAlarm = u.readAlarm /\ u'.outBuffer = u.outBuffer
        /\ u'.txFIFO = Append(u.txFIFO, sent + 1)
    BY <1>2 DEF UsbShaped, IsUsb, UsbFields, SameHost, SameSetup, SameWrites, SameAlarms
  <2>2. Follows(u')
    BY <2>1 DEF UsbShaped, Follows, SameSetup
  <2>3. Unmoved /\ WritesAlone
    BY <1>2, <2>1 DEF Unmoved, SameRound, WritesAlone, SameSetup
  <2>4. u.txFIFO \in Seq(Nat) /\ sent \in Nat /\ sent' = sent + 1
    BY <1>2 DEF Reading
  <2> DEFINE a == fw.got \o (IF Out(Serial) \in u.buffStatus THEN u.outBuffer ELSE <<>>)
                         \o FlattenSeq(u.reads)
  <2>5. a \in Seq(Nat)
    <3>1. (IF Out(Serial) \in u.buffStatus THEN u.outBuffer ELSE <<>>) \in Seq(Nat)
          /\ fw.got \in Seq(Nat)
      BY DEF Reading
    <3>2. CASE u.reads = <<>>
      <4>1. FlattenSeq(u.reads) = <<>> /\ <<>> \in Seq(Nat)
        BY <3>2, FlattenNone
      <4>2. FlattenSeq(u.reads) \in Seq(Nat)
        BY <4>1
      <4> QED BY <3>1, <4>2, Joined
    <3>3. CASE u.reads # <<>>
      <4>1. PICK p \in Seq(Nat) : u.reads = <<p>>
        BY <3>3 DEF Reading, OneRead
      <4>2. FlattenSeq(u.reads) = p
        BY <4>1, FlattenOne
      <4>3. FlattenSeq(u.reads) \in Seq(Nat)
        BY <4>2
      <4> QED BY <3>1, <4>3, Joined
    <3> QED BY <3>2, <3>3
  <2>6. a \o u.txFIFO = [i \in 1 .. sent |-> i]
    BY DEF Reading, ToDevice
  <2>7. ToDevice' = (a \o u'.txFIFO = [i \in 1 .. sent' |-> i])
    BY <1>2, <2>1 DEF ToDevice, Out, Serial
  <2> HIDE DEF a
  <2>8. a \o u'.txFIFO = [i \in 1 .. sent' |-> i]
    <3> DEFINE w == a \o u.txFIFO
               x == a \o u'.txFIFO
               k == sent + 1
               y == [i \in 1 .. k |-> i]
    <3>1. w \in Seq(Nat) /\ Len(w) = sent /\ \A i \in 1 .. sent : w[i] = i
      BY <2>4, <2>6
    <3>2. u'.txFIFO \in Seq(Nat) /\ u'.txFIFO = Append(u.txFIFO, k) /\ k \in Nat
      BY <2>1, <2>4
    <3>3. x = Append(w, k)
      <4>1. a \o Append(u.txFIFO, k) = Append(a \o u.txFIFO, k)
        <5>1. a \in Seq(Nat) /\ u.txFIFO \in Seq(Nat) /\ k \in Nat
          BY <2>4, <2>5, <3>2
        <5> HIDE DEF k
        <5> QED BY <5>1, AppendFar
      <4> QED BY <3>2, <4>1
    <3> HIDE DEF w, x
    <3>4. x \in Seq(Nat) /\ Len(x) = k /\ x[k] = k /\ \A i \in 1 .. sent : x[i] = w[i]
      BY <2>4, <3>1, <3>2, <3>3
    <3>5. y \in Seq(Nat) /\ Len(y) = k /\ \A i \in 1 .. k : y[i] = i
      BY <3>2
    <3> HIDE DEF y
    <3>6. \A i \in 1 .. k : x[i] = y[i]
      BY <2>4, <3>1, <3>4, <3>5
    <3>7. x = y
      BY <3>4, <3>5, <3>6, SeqEqual
    <3> QED BY <2>4, <3>7 DEF x, y
  <2>9. ToDevice'
    BY <2>7, <2>8
  <2>10. u'.txFIFO \in Seq(Nat) /\ sent' \in Nat
    BY <2>1, <2>4
  <2>11. (NoRead => NoRead') /\ (OneRead => OneRead')
    BY <2>1 DEF NoRead, OneRead, Out, Serial
  <2>12. Reading'
    BY <1>2, <2>1, <2>9, <2>10, <2>11 DEF Reading
  <2> QED BY <1>2, <2>1, <2>2, <2>3, <2>12
<1> QED BY <1>1, <1>2 DEF sendSerialByte

LEMMA WriteMainCtrlDoes ==
    ASSUME UsbShaped, Lockstep, ResetOnce, WriteMainCtrl
    PROVE  /\ IsUsb(u') /\ Follows(u') /\ SerialAlone /\ Lockstep' /\ ResetOnce'
           /\ u'.setupPacket = u.setupPacket /\ u'.sieStatus = u.sieStatus
           /\ DOMAIN fw' = FwFields /\ fw'.left = fw.left /\ fw'.size = fw.size
<1>1. /\ Off /\ sent' = sent /\ ~fw.on
  BY Lagging DEF WriteMainCtrl
<1>2. /\ DOMAIN fw' = FwFields /\ fw'.on /\ fw'.left = fw.left /\ fw'.size = fw.size
      /\ fw'.read = fw.read /\ fw'.setups = fw.setups /\ fw'.got = fw.got
      /\ fw'.configured = fw.configured /\ fw'.connected = fw.connected
      /\ fw'.written = fw.written /\ fw'.pairs = fw.pairs
  BY DEF WriteMainCtrl, UsbShaped, FwFields
<1>3. u' = [u EXCEPT !.resetAlarm = TRUE]
  BY DEF WriteMainCtrl
<1>4. /\ IsUsb(u') /\ SameHost(u', u) /\ SameSetup(u', u) /\ SameReads(u', u)
      /\ SameWrites(u', u) /\ u'.zeroWrites = u.zeroWrites
      /\ u'.intRaw = u.intRaw /\ u'.buffStatus = u.buffStatus
  BY <1>3 DEF UsbShaped, IsUsb, UsbFields, SameHost, SameSetup, SameReads, SameWrites
<1>5. Follows(u')
  BY <1>4 DEF UsbShaped, Follows, SameSetup
<1>6. SerialAlone
  BY <1>1, <1>2, <1>4 DEF SerialAlone
<1>7. Off'
  BY <1>1, <1>2, <1>4 DEF Off, Fresh, Knows, With, NoneAsked, SameHost, SameSetup
<1>8. ResetOnce'
  BY <1>1, <1>2, <1>4 DEF ResetOnce, SameSetup
<1> QED BY <1>2, <1>4, <1>5, <1>6, <1>7, <1>8 DEF Lockstep, SameSetup

LEMMA SerialInDoneDoes ==
    ASSUME UsbShaped, SerialInDone
    PROVE  /\ IsUsb(u') /\ Follows(u') /\ Unmoved /\ ReadsAlone /\ WritesAlone
           /\ DOMAIN fw' = FwFields
<1>1. u' = Cleared(In(Serial)) /\ sent' = sent
  BY DEF SerialInDone
<1>2. /\ DOMAIN fw' = FwFields /\ SameRound
      /\ fw'.got = fw.got /\ fw'.written = fw.written /\ fw'.pairs = fw.pairs
  BY DEF SerialInDone, UsbShaped, FwFields, SameRound
<1>3. /\ IsUsb(u') /\ SameHost(u', u) /\ SameSetup(u', u) /\ SameReads(u', u)
      /\ SameWrites(u', u) /\ SameAlarms(u', u)
      /\ u'.buffStatus = u.buffStatus \ {In(Serial)} /\ Follows(u')
  BY <1>1, BufferCleared DEF UsbShaped
<1>4. Out(Serial) \in u'.buffStatus <=> Out(Serial) \in u.buffStatus
  BY <1>3, BuffersDiffer
<1> QED
  BY <1>1, <1>2, <1>3, <1>4 DEF Unmoved, ReadsAlone, WritesAlone, SameSetup, SameRound

-----------------------------------------------------------------------------
(* USB, device mode: the steps of the serial port, from the firmware.           *)

\* The bytes f in the order they reach the host, of n written.
Ordered(f, n, pairs) ==
    /\ Len(f) = n
    /\ \A i \in 1 .. n : f[i] = CASE i \in pairs -> i + 1
                                  [] i - 1 \in pairs -> i - 1
                                  [] OTHER -> i

LEMMA WritingIs ==
    ASSUME Writing
    PROVE  \E f \in Seq(Nat) :
              /\ Singles(f) /\ FlattenSeq(u.serialWrites) = f
              /\ u.serialData \o f \in Seq(Nat)
              /\ Ordered(u.serialData \o f, fw.written, fw.pairs)
<1>1. PICK f \in Seq(Nat) : Singles(f)
  BY DEF Writing
<1>2. FlattenSeq(u.serialWrites) = f
  BY <1>1, FlattenSingles DEF Singles
<1>3. u.serialData \o f \in Seq(Nat)
  BY Joined DEF Writing
<1>4. Ordered(u.serialData \o f, fw.written, fw.pairs)
  BY <1>2 DEF Writing, FromDevice, Ordered
<1> QED BY <1>1, <1>2, <1>3, <1>4

LEMMA FromDeviceIs ==
    ASSUME NEW f \in Seq(Nat), u'.serialWrites = [i \in 1 .. Len(f) |-> <<f[i]>>],
           Ordered(u'.serialData \o f, fw'.written, fw'.pairs)
    PROVE  FromDevice' /\ \E g \in Seq(Nat) : Singles(g)'
<1>1. FlattenSeq(u'.serialWrites) = f
  BY FlattenSingles
<1>2. FromDevice'
  BY <1>1 DEF FromDevice, Ordered
<1>3. Singles(f)'
  BY DEF Singles
<1> QED BY <1>2, <1>3

LEMMA SerialWriteAlarmDoes ==
    ASSUME UsbShaped, Lockstep, Writing, SerialWriteAlarm
    PROVE  IsUsb(u') /\ Follows(u') /\ Unmoved /\ ReadsAlone /\ UNCHANGED fw /\ Writing'
<1>1. u.serialWrites # <<>> /\ fw' = fw /\ sent' = sent
  BY DEF SerialWriteAlarm
<1>2. u.endpoints
  BY <1>1, ConnectedKnows DEF Writing
<1> DEFINE flow == u.serialData \o FlattenSeq(u.serialWrites)
<1>3. u' = [u EXCEPT !.serialData = flow, !.serialWrites = <<>>]
  BY <1>2 DEF SerialWriteAlarm
<1>4. PICK f \in Seq(Nat) : /\ FlattenSeq(u.serialWrites) = f
                            /\ u.serialData \o f \in Seq(Nat)
                            /\ Ordered(u.serialData \o f, fw.written, fw.pairs)
  BY WritingIs
<1>5. flow \in Seq(Nat) /\ Ordered(flow, fw.written, fw.pairs)
  BY <1>4
<1> HIDE DEF flow
<1>6. /\ IsUsb(u') /\ SameHost(u', u) /\ SameSetup(u', u) /\ SameReads(u', u)
      /\ SameAlarms(u', u) /\ u'.intRaw = u.intRaw /\ u'.buffStatus = u.buffStatus
      /\ u'.serialData = flow /\ u'.serialWrites = <<>>
  BY <1>3 DEF UsbShaped, IsUsb, UsbFields, SameHost, SameSetup, SameReads, SameAlarms
<1>7. Follows(u')
  BY <1>6 DEF UsbShaped, Follows, SameSetup
<1>8. Unmoved /\ ReadsAlone
  BY <1>1, <1>6 DEF Unmoved, SameRound, ReadsAlone, SameSetup, Out, Serial
<1> DEFINE none == <<>>
<1>9. none \in Seq(Nat) /\ Len(none) = 0 /\ none = [i \in 1 .. Len(none) |-> <<none[i]>>]
      /\ flow \o none = flow
  BY <1>5, ConcatEmptySeq
<1>10. u'.serialWrites = none
  BY <1>6
<1> HIDE DEF none
<1>11. FromDevice' /\ \E g \in Seq(Nat) : Singles(g)'
  BY <1>1, <1>5, <1>6, <1>9, <1>10, FromDeviceIs
<1>12. u'.serialWrites = <<>> => (u'.serialWrites # <<>> => fw'.connected)
  OBVIOUS
<1>13. Writing'
  BY <1>1, <1>5, <1>6, <1>11 DEF Writing
<1> QED BY <1>1, <1>6, <1>7, <1>8, <1>13

\* One more byte, and two that change places.
LEMMA OneOrdered ==
    ASSUME NEW f \in Seq(Nat), NEW n \in Nat, NEW pairs \in SUBSET (1 .. n - 1),
           Ordered(f, n, pairs)
    PROVE  Ordered(Append(f, n + 1), n + 1, pairs)
<1> DEFINE x == Append(f, n + 1)
<1>1. Len(f) = n /\ \A i \in 1 .. n : f[i] = CASE i \in pairs -> i + 1
                                               [] i - 1 \in pairs -> i - 1
                                               [] OTHER -> i
  BY DEF Ordered
<1>2. Len(x) = n + 1 /\ x[n + 1] = n + 1 /\ \A i \in 1 .. n : x[i] = f[i]
  BY <1>1
<1>3. n + 1 \notin pairs /\ (n + 1) - 1 \notin pairs
  OBVIOUS
<1> HIDE DEF x
<1>4. \A i \in 1 .. n + 1 : x[i] = CASE i \in pairs -> i + 1
                                     [] i - 1 \in pairs -> i - 1
                                     [] OTHER -> i
  <2> SUFFICES ASSUME NEW i \in 1 .. n + 1
               PROVE  x[i] = CASE i \in pairs -> i + 1
                               [] i - 1 \in pairs -> i - 1
                               [] OTHER -> i
    OBVIOUS
  <2>1. CASE i = n + 1
    BY <1>2, <1>3, <2>1
  <2>2. CASE i # n + 1
    <3>1. i \in 1 .. n
      BY <2>2
    <3> QED BY <1>1, <1>2, <3>1
  <2> QED BY <2>1, <2>2
<1> QED BY <1>2, <1>4 DEF Ordered, x

LEMMA TwoOrdered ==
    ASSUME NEW f \in Seq(Nat), NEW n \in Nat, NEW pairs \in SUBSET (1 .. n - 1),
           Ordered(f, n, pairs)
    PROVE  Ordered(Append(Append(f, n + 2), n + 1), n + 2, pairs \cup {n + 1})
<1> DEFINE y == Append(f, n + 2)
           x == Append(y, n + 1)
           q == pairs \cup {n + 1}
<1>1. Len(f) = n /\ \A i \in 1 .. n : f[i] = CASE i \in pairs -> i + 1
                                               [] i - 1 \in pairs -> i - 1
                                               [] OTHER -> i
  BY DEF Ordered
<1>2. y \in Seq(Nat) /\ Len(y) = n + 1 /\ y[n + 1] = n + 2 /\ \A i \in 1 .. n : y[i] = f[i]
  BY <1>1
<1> HIDE DEF y
<1>3. Len(x) = n + 2 /\ x[n + 2] = n + 1 /\ \A i \in 1 .. n + 1 : x[i] = y[i]
  BY <1>2
<1>4. /\ n + 1 \in q /\ n + 2 \notin q /\ (n + 2) - 1 \in q
      /\ (n + 1) - 1 \notin q
      /\ \A i \in 1 .. n : (i \in q <=> i \in pairs) /\ (i - 1 \in q <=> i - 1 \in pairs)
  OBVIOUS
<1> HIDE DEF x, q
<1>5. \A i \in 1 .. n + 2 : x[i] = CASE i \in q -> i + 1
                                     [] i - 1 \in q -> i - 1
                                     [] OTHER -> i
  <2> SUFFICES ASSUME NEW i \in 1 .. n + 2
               PROVE  x[i] = CASE i \in q -> i + 1
                               [] i - 1 \in q -> i - 1
                               [] OTHER -> i
    OBVIOUS
  <2>1. CASE i = n + 2
    BY <1>3, <1>4, <2>1
  <2>2. CASE i = n + 1
    <3>1. x[i] = n + 2 /\ i \in q /\ i - 1 \notin q /\ i + 1 = n + 2
      BY <1>2, <1>3, <1>4, <2>2
    <3> QED BY <3>1
  <2>3. CASE i # n + 2 /\ i # n + 1
    <3>1. i \in 1 .. n
      BY <2>3
    <3>2. x[i] = f[i]
      BY <1>2, <1>3, <3>1
    <3> QED BY <1>1, <1>4, <3>1, <3>2
  <2> QED BY <2>1, <2>2, <2>3
<1> QED BY <1>3, <1>5 DEF Ordered, x, y, q

\* The ways a write to the serial port may go, and what they leave alone.
LEMMA WriteSerialDoes ==
    ASSUME UsbShaped, WriteSerial
    PROVE  /\ IsUsb(u') /\ Follows(u') /\ Unmoved /\ ReadsAlone /\ DOMAIN fw' = FwFields
           /\ fw.connected /\ fw'.connected /\ u'.serialData = u.serialData
           /\ \/ /\ u'.serialWrites = Append(u.serialWrites, <<fw.written + 1>>)
                 /\ fw'.written = fw.written + 1 /\ fw'.pairs = fw.pairs
              \/ /\ u'.serialWrites = Append(Append(u.serialWrites, <<fw.written + 2>>),
                                             <<fw.written + 1>>)
                 /\ fw'.written = fw.written + 2
                 /\ fw'.pairs = fw.pairs \cup {fw.written + 1}
<1> DEFINE w == fw.written
<1>1. PICK n \in 1 .. 2 :
          /\ u' = DPRAMUpdated(u, In(Serial), [i \in 1 .. n |-> <<w + i>>])
          /\ fw' = [fw EXCEPT !.writing = TRUE, !.written = @ + n,
                              !.pairs = IF n = 2 THEN @ \cup {w + 1} ELSE @]
  BY DEF WriteSerial
<1>2. fw.connected /\ sent' = sent
  BY DEF WriteSerial
<1>3. /\ DOMAIN fw' = FwFields /\ SameRound /\ fw'.got = fw.got
      /\ fw'.written = w + n /\ fw'.pairs = IF n = 2 THEN fw.pairs \cup {w + 1} ELSE fw.pairs
  BY <1>1 DEF UsbShaped, FwFields, SameRound
<1>4. fw'.connected
  BY <1>2, <1>3 DEF SameRound
<1>5. IsUsb(u) /\ Follows(u)
  BY DEF UsbShaped
<1> DEFINE a == <<w + 1>>
           b == <<w + 2>>
<1>6. CASE n = 1
  <2>1. u' = Available(u, In(Serial), a)
    <3> DEFINE ps == [i \in 1 .. n |-> <<w + i>>]
    <3>1. Len(ps) = 1 /\ ps[1] = a
      BY <1>6
    <3> HIDE DEF ps
    <3>2. DPRAMUpdated(u, In(Serial), ps) = Available(u, In(Serial), ps[1])
      BY <3>1 DEF DPRAMUpdated
    <3> QED BY <1>1, <3>1, <3>2 DEF ps
  <2> HIDE DEF a
  <2>2. /\ IsUsb(u') /\ SameHost(u', u) /\ SameSetup(u', u) /\ SameReads(u', u)
        /\ SameAlarms(u', u)
        /\ u'.serialWrites = Append(u.serialWrites, a) /\ u'.serialData = u.serialData
        /\ u'.buffStatus = u.buffStatus \cup {In(Serial)} /\ Follows(u')
    BY <1>5, <2>1, SerialWritten
  <2>3. Unmoved /\ ReadsAlone
    BY <1>2, <1>3, <2>2, BuffersDiffer
       DEF Unmoved, ReadsAlone, SameSetup, SameRound
  <2>4. fw'.written = w + 1 /\ fw'.pairs = fw.pairs
    BY <1>3, <1>6
  <2> QED BY <1>2, <1>3, <1>4, <2>2, <2>3, <2>4 DEF a
<1>7. CASE n = 2
  <2> DEFINE m == Available(u, In(Serial), b)
  <2>1. u' = Available(m, In(Serial), a)
    <3> DEFINE ps == [i \in 1 .. n |-> <<w + i>>]
    <3>1. Len(ps) # 1 /\ ps[1] = a /\ ps[2] = b
      BY <1>7
    <3> HIDE DEF ps, a, b
    <3>2. DPRAMUpdated(u, In(Serial), ps)
             = Available(Available(u, In(Serial), ps[2]), In(Serial), ps[1])
      BY <3>1 DEF DPRAMUpdated
    <3> QED BY <1>1, <3>1, <3>2 DEF ps
  <2> HIDE DEF a, b
  <2>2. /\ IsUsb(m) /\ SameHost(m, u) /\ SameSetup(m, u) /\ SameReads(m, u)
        /\ SameAlarms(m, u)
        /\ m.serialWrites = Append(u.serialWrites, b) /\ m.serialData = u.serialData
        /\ m.buffStatus = u.buffStatus \cup {In(Serial)} /\ Follows(m)
    BY <1>5, SerialWritten
  <2> HIDE DEF m
  <2>3. /\ IsUsb(u') /\ SameHost(u', m) /\ SameSetup(u', m) /\ SameReads(u', m)
        /\ SameAlarms(u', m)
        /\ u'.serialWrites = Append(m.serialWrites, a) /\ u'.serialData = m.serialData
        /\ u'.buffStatus = m.buffStatus \cup {In(Serial)} /\ Follows(u')
    BY <2>1, <2>2, SerialWritten
  <2>4. SameHost(u', u) /\ SameSetup(u', u) /\ SameReads(u', u) /\ SameAlarms(u', u)
    BY <2>2, <2>3 DEF SameHost, SameSetup, SameReads, SameAlarms
  <2>5. Out(Serial) \in u'.buffStatus <=> Out(Serial) \in u.buffStatus
    BY <2>2, <2>3, BuffersDiffer
  <2>6. Unmoved /\ ReadsAlone
    BY <1>2, <1>3, <2>4, <2>5 DEF Unmoved, ReadsAlone, SameSetup, SameRound
  <2>7. /\ fw'.written = w + 2 /\ fw'.pairs = fw.pairs \cup {w + 1}
        /\ u'.serialWrites = Append(Append(u.serialWrites, b), a)
        /\ u'.serialData = u.serialData
    BY <1>3, <1>7, <2>2, <2>3
  <2> QED BY <1>2, <1>3, <1>4, <2>3, <2>6, <2>7 DEF a, b
<1> QED BY <1>6, <1>7

LEMMA SinglesAppend ==
    ASSUME NEW f \in Seq(Nat), NEW k \in Nat
    PROVE  /\ Append(f, k) \in Seq(Nat)
           /\ Append([i \in 1 .. Len(f) |-> <<f[i]>>], <<k>>)
                 = [i \in 1 .. Len(Append(f, k)) |-> <<Append(f, k)[i]>>]
<1> DEFINE e == Append(f, k)
           s == [i \in 1 .. Len(f) |-> <<f[i]>>]
           t == Append(s, <<k>>)
           r == [i \in 1 .. Len(e) |-> <<e[i]>>]
<1>1. /\ e \in Seq(Nat) /\ Len(e) = Len(f) + 1 /\ e[Len(e)] = k
      /\ \A i \in 1 .. Len(f) : e[i] = f[i]
  OBVIOUS
<1>2. s \in Seq(Seq(Nat)) /\ Len(s) = Len(f) /\ \A i \in 1 .. Len(f) : s[i] = <<f[i]>>
  OBVIOUS
<1> HIDE DEF e, s
<1>3. <<k>> \in Seq(Nat)
  OBVIOUS
<1>4. /\ t \in Seq(Seq(Nat)) /\ Len(t) = Len(f) + 1 /\ t[Len(f) + 1] = <<k>>
      /\ \A i \in 1 .. Len(f) : t[i] = <<f[i]>>
  BY <1>2, <1>3
<1>5. r \in Seq(Seq(Nat)) /\ Len(r) = Len(f) + 1 /\ \A i \in 1 .. Len(e) : r[i] = <<e[i]>>
  BY <1>1
<1> HIDE DEF t, r
<1>6. \A i \in 1 .. Len(t) : t[i] = r[i]
  <2> SUFFICES ASSUME NEW i \in 1 .. Len(t) PROVE t[i] = r[i]
    OBVIOUS
  <2>1. CASE i = Len(f) + 1
    BY <1>1, <1>4, <1>5, <2>1
  <2>2. CASE i # Len(f) + 1
    <3>1. i \in 1 .. Len(f)
      BY <1>4, <2>2
    <3> QED BY <1>1, <1>4, <1>5, <3>1
  <2> QED BY <2>1, <2>2
<1>7. t = r
  BY <1>4, <1>5, <1>6, SeqEqual
<1> QED BY <1>1, <1>7 DEF t, r, s, e

LEMMA WriteSerialKeeps ==
    ASSUME UsbShaped, Writing, WriteSerial
    PROVE  Writing'
<1> DEFINE w == fw.written
           data == u.serialData
<1>1. /\ fw'.connected /\ u'.serialData = data
      /\ \/ /\ u'.serialWrites = Append(u.serialWrites, <<w + 1>>)
            /\ fw'.written = w + 1 /\ fw'.pairs = fw.pairs
         \/ /\ u'.serialWrites = Append(Append(u.serialWrites, <<w + 2>>), <<w + 1>>)
            /\ fw'.written = w + 2 /\ fw'.pairs = fw.pairs \cup {w + 1}
  BY WriteSerialDoes
<1>2. /\ w \in Nat /\ data \in Seq(Nat) /\ fw.pairs \in SUBSET (1 .. w - 1)
      /\ \A i \in fw.pairs : i + 1 \notin fw.pairs
  BY DEF Writing
<1>3. PICK f \in Seq(Nat) : Singles(f) /\ Ordered(data \o f, w, fw.pairs)
                            /\ data \o f \in Seq(Nat)
  BY WritingIs
<1>4. u.serialWrites = [i \in 1 .. Len(f) |-> <<f[i]>>]
  BY <1>3 DEF Singles
<1>5. w + 1 \in Nat /\ w + 2 \in Nat
  BY <1>2
<1> HIDE DEF w, data
<1>6. CASE /\ u'.serialWrites = Append(u.serialWrites, <<w + 1>>)
           /\ fw'.written = w + 1 /\ fw'.pairs = fw.pairs
  <2> DEFINE g == Append(f, w + 1)
  <2>1. g \in Seq(Nat) /\ u'.serialWrites = [i \in 1 .. Len(g) |-> <<g[i]>>]
    BY <1>3, <1>4, <1>5, <1>6, SinglesAppend
  <2>2. data \o g = Append(data \o f, w + 1)
    BY <1>2, <1>3, <1>5, AppendFar
  <2>3. Ordered(Append(data \o f, w + 1), w + 1, fw.pairs)
    BY <1>2, <1>3, OneOrdered
  <2> HIDE DEF g
  <2>4. FromDevice' /\ \E x \in Seq(Nat) : Singles(x)'
    BY <1>1, <1>6, <2>1, <2>2, <2>3, FromDeviceIs
  <2>5. fw'.pairs \subseteq 1 .. fw'.written - 1
    BY <1>2, <1>6
  <2>6. \A i \in fw'.pairs : i + 1 \notin fw'.pairs
    BY <1>2, <1>6
  <2>7. u'.serialData \in Seq(Nat) /\ fw'.written \in Nat
    BY <1>1, <1>2, <1>5, <1>6
  <2> QED BY <1>1, <2>4, <2>5, <2>6, <2>7 DEF Writing
<1>7. CASE /\ u'.serialWrites = Append(Append(u.serialWrites, <<w + 2>>), <<w + 1>>)
           /\ fw'.written = w + 2 /\ fw'.pairs = fw.pairs \cup {w + 1}
  <2> DEFINE e == Append(f, w + 2)
             g == Append(e, w + 1)
  <2>1. /\ e \in Seq(Nat)
        /\ Append(u.serialWrites, <<w + 2>>) = [i \in 1 .. Len(e) |-> <<e[i]>>]
    BY <1>3, <1>4, <1>5, SinglesAppend
  <2>2. data \o e = Append(data \o f, w + 2)
    BY <1>2, <1>3, <1>5, AppendFar
  <2> HIDE DEF e
  <2>3. g \in Seq(Nat) /\ u'.serialWrites = [i \in 1 .. Len(g) |-> <<g[i]>>]
    BY <1>5, <1>7, <2>1, SinglesAppend
  <2>4. data \o g = Append(data \o e, w + 1)
    BY <1>2, <1>5, <2>1, AppendFar
  <2>5. Ordered(Append(Append(data \o f, w + 2), w + 1), w + 2, fw.pairs \cup {w + 1})
    BY <1>2, <1>3, TwoOrdered
  <2> HIDE DEF g
  <2>6. FromDevice' /\ \E x \in Seq(Nat) : Singles(x)'
    BY <1>1, <1>7, <2>2, <2>3, <2>4, <2>5, FromDeviceIs
  <2>7. fw'.pairs \subseteq 1 .. fw'.written - 1
    BY <1>2, <1>7
  <2>8. \A i \in fw'.pairs : i + 1 \notin fw'.pairs
    BY <1>2, <1>7
  <2>9. u'.serialData \in Seq(Nat) /\ fw'.written \in Nat
    BY <1>1, <1>2, <1>5, <1>7
  <2> QED BY <1>1, <2>6, <2>7, <2>8, <2>9 DEF Writing
<1> QED BY <1>1, <1>6, <1>7

-----------------------------------------------------------------------------
(* USB, device mode: the inductive invariant.                                   *)

UsbSound == UsbShaped /\ Lockstep /\ ResetOnce /\ Reading /\ Writing

LEMMA SerialAloneKeeps ==
    ASSUME Reading, Writing, SerialAlone
    PROVE  Reading' /\ Writing'
<1>1. ReadsAlone /\ WritesAlone
  BY DEF SerialAlone, ReadsAlone, WritesAlone
<1> QED BY <1>1, ReadsKept, WritesKept

\* The host never replaces a setup packet that the firmware has yet to take.
Replaces == u'.setupPacket # u.setupPacket => "SETUP_REC" \notin u.sieStatus

LEMMA AdvancedKeeps ==
    ASSUME UsbSound, Advanced, DOMAIN fw' = FwFields, fw'.left \in Nat, fw'.size = fw.size
    PROVE  UsbSound' /\ Replaces
<1>1. Reading' /\ Writing'
  BY SerialAloneKeeps DEF UsbSound, Advanced
<1>2. UsbShaped'
  BY DEF UsbSound, UsbShaped, Advanced
<1> QED BY <1>1, <1>2 DEF UsbSound, Advanced, Replaces

LEMMA SteadyKeeps ==
    ASSUME UsbSound, UNCHANGED fw
    PROVE  DOMAIN fw' = FwFields /\ fw'.left \in Nat /\ fw'.size = fw.size
BY DEF UsbSound, UsbShaped

LEMMA UnmovedSound ==
    ASSUME UsbSound, IsUsb(u'), Follows(u'), Unmoved, DOMAIN fw' = FwFields,
           Reading', Writing'
    PROVE  UsbSound' /\ Replaces
<1>1. Lockstep' /\ ResetOnce'
  BY UnmovedKeeps DEF UsbSound
<1>2. "BUFF_STATUS" \notin u'.sieStatus /\ Replaces
  BY DEF Unmoved, Replaces, UsbSound, UsbShaped
<1>3. fw'.left \in Nat /\ fw'.size \in DescriptorSizes
  BY DEF Unmoved, SameRound, UsbSound, UsbShaped
<1>4. UsbShaped'
  BY <1>2, <1>3 DEF UsbShaped
<1> QED BY <1>1, <1>2, <1>4 DEF UsbSound

LEMMA UsbInitSound == UsbInit => UsbSound
<1> SUFFICES ASSUME UsbInit PROVE UsbSound
  OBVIOUS
<1> DEFINE none == <<>>
<1>1. /\ IsUsb(u) /\ u.sieStatus = {} /\ u.intRaw = {} /\ u.buffStatus = {}
      /\ u.outBuffer = none /\ ~u.resetAlarm
      /\ u.zeroWrites = <<>> /\ u.serialWrites = none /\ u.reads = <<>> /\ ~u.readAlarm
      /\ u.txFIFO = none /\ Knows(0, 0, FALSE, FALSE) /\ u.serialData = none
  BY DEF UsbInit, IsUsb, UsbFields, Knows
<1>2. /\ DOMAIN fw = FwFields /\ fw.size \in DescriptorSizes /\ ~fw.on /\ fw.read = <<>>
      /\ fw.setups = <<>> /\ fw.left = 0 /\ ~fw.configured /\ ~fw.connected
      /\ fw.written = 0 /\ fw.pairs = {} /\ fw.got = none /\ sent = 0
  BY DEF UsbInit, FwFields
<1>3. UsbShaped
  BY <1>1, <1>2 DEF UsbShaped, Follows
<1>4. Off
  BY <1>1, <1>2 DEF Off, Fresh, With, NoneAsked
<1>5. ResetOnce
  BY <1>1 DEF ResetOnce
<1>6. none \in Seq(Nat) /\ Len(none) = 0 /\ none \o none = none
  OBVIOUS
<1>7. none = [i \in 1 .. 0 |-> i] /\ none = [i \in 1 .. 0 |-> <<none[i]>>]
  OBVIOUS
<1>8. FlattenSeq(none) = none
  BY FlattenNone
<1>9. u.reads = none
  BY <1>1
<1> HIDE DEF none
<1>10. ToDevice
  BY <1>1, <1>2, <1>6, <1>7, <1>8, <1>9 DEF ToDevice
<1>11. FromDevice
  <2>1. u.serialData \o FlattenSeq(u.serialWrites) = none
    BY <1>1, <1>6, <1>8
  <2>2. fw.written = 0 /\ \A i \in 1 .. 0 : FALSE
    BY <1>2
  <2> QED BY <1>6, <2>1, <2>2 DEF FromDevice
<1>12. NoRead
  BY <1>1 DEF NoRead
<1>13. Reading
  BY <1>1, <1>2, <1>6, <1>10, <1>12 DEF Reading, NoRead
<1>14. Singles(none)
  BY <1>1, <1>6, <1>7 DEF Singles
<1>15. u.serialWrites = <<>>
  BY <1>1 DEF none
<1>16. Writing
  <2>1. \E f \in Seq(Nat) : Singles(f)
    BY <1>6, <1>14
  <2>2. u.serialData \in Seq(Nat) /\ fw.written \in Nat
    BY <1>1, <1>2, <1>6
  <2>3. fw.pairs \subseteq 1 .. fw.written - 1 /\ \A i \in fw.pairs : i + 1 \notin fw.pairs
    BY <1>2
  <2> QED BY <1>11, <1>15, <2>1, <2>2, <2>3 DEF Writing
<1> QED BY <1>3, <1>4, <1>5, <1>13, <1>16 DEF UsbSound, Lockstep

LEMMA UsbStepSound ==
    ASSUME UsbSound, UsbNext
    PROVE  UsbSound' /\ Replaces
<1>0. UsbShaped /\ Lockstep /\ ResetOnce /\ Reading /\ Writing
  BY DEF UsbSound
<1>1. CASE ResetAlarm
  BY <1>0, <1>1, ResetAlarmAdvances, SteadyKeeps, AdvancedKeeps
<1>2. CASE ZeroWriteAlarm
  BY <1>0, <1>2, ZeroWriteAlarmAdvances, SteadyKeeps, AdvancedKeeps
<1>3. CASE SerialWriteAlarm
  <2>1. /\ IsUsb(u') /\ Follows(u') /\ Unmoved /\ ReadsAlone /\ UNCHANGED fw /\ Writing'
    BY <1>0, <1>3, SerialWriteAlarmDoes
  <2> QED BY <1>0, <2>1, ReadsKept, SteadyKeeps, UnmovedSound
<1>4. CASE ReadAlarm
  <2>1. IsUsb(u') /\ Follows(u') /\ Unmoved /\ WritesAlone /\ UNCHANGED fw /\ Reading'
    BY <1>0, <1>4, ReadAlarmDoes
  <2> QED BY <1>0, <2>1, WritesKept, SteadyKeeps, UnmovedSound
<1>5. CASE sendSerialByte
  <2>1. IsUsb(u') /\ Follows(u') /\ Unmoved /\ WritesAlone /\ UNCHANGED fw /\ Reading'
    BY <1>0, <1>5, sendSerialByteDoes
  <2> QED BY <1>0, <2>1, WritesKept, SteadyKeeps, UnmovedSound
<1>6. CASE WriteMainCtrl
  <2>1. /\ IsUsb(u') /\ Follows(u') /\ SerialAlone /\ Lockstep' /\ ResetOnce'
        /\ u'.setupPacket = u.setupPacket /\ u'.sieStatus = u.sieStatus
        /\ DOMAIN fw' = FwFields /\ fw'.left = fw.left /\ fw'.size = fw.size
    BY <1>0, <1>6, WriteMainCtrlDoes
  <2>2. Advanced
    BY <1>0, <2>1 DEF Advanced, UsbShaped
  <2>3. fw'.left \in Nat
    BY <1>0, <2>1 DEF UsbShaped
  <2> QED BY <2>1, <2>2, <2>3, AdvancedKeeps
<1>7. CASE ClearBusReset
  BY <1>0, <1>7, ClearBusResetAdvances, SteadyKeeps, AdvancedKeeps
<1>8. CASE ReadSetupPacket
  <2>1. Advanced /\ DOMAIN fw' = FwFields /\ fw'.left = fw.left /\ fw'.size = fw.size
    BY <1>0, <1>8, ReadSetupPacketAdvances
  <2>2. fw'.left \in Nat
    BY <1>0, <2>1 DEF UsbShaped
  <2> QED BY <2>1, <2>2, AdvancedKeeps
<1>9. CASE ClearSetupRec
  <2>1. Advanced /\ DOMAIN fw' = FwFields /\ fw'.left = fw.left /\ fw'.size = fw.size
    BY <1>0, <1>9, ClearSetupRecAdvances
  <2>2. fw'.left \in Nat
    BY <1>0, <2>1 DEF UsbShaped
  <2> QED BY <2>1, <2>2, AdvancedKeeps
<1>10. CASE ClearConnected
  BY <1>0, <1>10, ClearConnectedAdvances, SteadyKeeps, AdvancedKeeps
<1>11. CASE ZeroInDone
  BY <1>0, <1>11, ZeroInDoneAdvances, AdvancedKeeps
<1>12. CASE SerialInDone
  <2>1. /\ IsUsb(u') /\ Follows(u') /\ Unmoved /\ ReadsAlone /\ WritesAlone
        /\ DOMAIN fw' = FwFields
    BY <1>0, <1>12, SerialInDoneDoes
  <2> QED BY <1>0, <2>1, ReadsKept, WritesKept, UnmovedSound
<1>13. CASE SerialOutDone
  <2>1. /\ IsUsb(u') /\ Follows(u') /\ Unmoved /\ WritesAlone
        /\ DOMAIN fw' = FwFields /\ Reading'
    BY <1>0, <1>13, SerialOutDoneDoes
  <2> QED BY <1>0, <2>1, WritesKept, UnmovedSound
<1>14. CASE AnswerSetup
  <2>1. Replied
    BY <1>0, <1>14, AnswerSetupReplies DEF Reading
  <2>2. Reading' /\ Writing'
    <3>1. CASE SerialAlone
      BY <1>0, <3>1, SerialAloneKeeps
    <3>2. CASE SerialFetches /\ ~fw.configured
      <4>1. WritesAlone
        BY <3>2 DEF SerialFetches, WritesAlone
      <4> QED BY <1>0, <3>2, <4>1, FetchKeeps, WritesKept
    <3> QED BY <2>1, <3>1, <3>2 DEF Replied
  <2>3. UsbShaped'
    BY <1>0, <2>1 DEF UsbShaped, Replied
  <2> QED BY <2>1, <2>2, <2>3 DEF UsbSound, Replied, Replaces
<1>15. CASE WriteSerial
  <2>1. /\ IsUsb(u') /\ Follows(u') /\ Unmoved /\ ReadsAlone /\ DOMAIN fw' = FwFields
    BY <1>0, <1>15, WriteSerialDoes
  <2>2. Reading' /\ Writing'
    BY <1>0, <1>15, <2>1, ReadsKept, WriteSerialKeeps
  <2> QED BY <2>1, <2>2, UnmovedSound
<1> QED
  BY <1>1, <1>2, <1>3, <1>4, <1>5, <1>6, <1>7, <1>8, <1>9, <1>10, <1>11, <1>12, <1>13,
     <1>14, <1>15 DEF UsbNext

LEMMA UsbStutterSound ==
    ASSUME UsbSound, UNCHANGED usbVars
    PROVE  UsbSound'
<1>1. u' = u /\ fw' = fw /\ sent' = sent
  BY DEF usbVars
<1>2. SerialAlone /\ Unmoved
  BY <1>1 DEF SerialAlone, Unmoved, SameReads, SameWrites, SameHost, SameAlarms, SameRound,
              Out, Serial
<1>3. Reading' /\ Writing'
  BY <1>2, SerialAloneKeeps DEF UsbSound
<1>4. IsUsb(u') /\ Follows(u') /\ DOMAIN fw' = FwFields
  BY <1>1 DEF UsbSound, UsbShaped
<1> QED BY <1>2, <1>3, <1>4, UnmovedSound

LEMMA UsbSoundSerial == UsbSound => SerialIntact
BY DEF UsbSound, Reading, Writing, SerialIntact

-----------------------------------------------------------------------------
(* USB, host mode: the inductive invariant.                                     *)

HostFields ==
    {"hostMode", "connectedDevice", "speed", "intRaw", "sieStatus", "buffStatus",
     "startTrans", "transactionAlarm", "sofEnabled", "sofAlarm", "pendingSetupResponse",
     "expectingStatusPhase", "buffer", "intEpCtrl", "address", "intAvailable", "intReport"}
DrvFields ==
    {"view", "phase", "request", "response", "asked", "got", "failed", "transfers",
     "reports"}

HostShaped ==
    /\ DOMAIN h = HostFields /\ DOMAIN drv = DrvFields
    /\ dev = [reports |-> dev.reports, plugs |-> dev.plugs]
    /\ h.hostMode \in BOOLEAN /\ h.connectedDevice \in BOOLEAN /\ h.speed \in BOOLEAN
    /\ drv.view \in BOOLEAN /\ drv.failed \in BOOLEAN

\* The port is as the firmware read it, or there is an interrupt for the difference.
PortTold ==
    /\ H!PortSeen
    /\ ~h.hostMode => ~h.speed /\ ~drv.view

\* A report waits for the firmware in a buffer that is not available for another.
NumberedTo(n) == [i \in 1 .. n |-> i]
ReportWaits ==
    /\ dev.reports \in Nat
    /\ \/ "int" \notin h.buffStatus /\ drv.reports = NumberedTo(dev.reports)
       \/ /\ "int" \in h.buffStatus /\ h.intReport = dev.reports /\ dev.reports > 0
          /\ ~h.intAvailable /\ h.intEpCtrl
          /\ drv.reports = NumberedTo(dev.reports - 1)
    /\ ~h.intEpCtrl => ~h.intAvailable

\* A transaction is on its way, has ended without an answer, or with one.
Under == drv.phase \in {"setup", "data", "status"}
Raised == h.intRaw \cap H!Transaction
Pending == h.transactionAlarm /\ Raised = {} /\ h.sieStatus \subseteq {"ACK_REC", "STALL_REC"}
TimedOut == ~h.transactionAlarm /\ Raised = {"RX_TIMEOUT"} /\ "RX_TIMEOUT" \in h.sieStatus
Ended ==
    /\ ~h.transactionAlarm /\ "TRANS_COMPLETE" \in Raised
    /\ Raised = h.sieStatus \cap H!Transaction
Settled ==
    /\ Under => Pending \/ TimedOut \/ Ended
    /\ ~Under => ~h.transactionAlarm /\ Raised = {} /\ h.sieStatus = {}

\* The transaction brings what the device has for it.
Answers == h.sieStatus \cap {"STALL_REC", "RX_TIMEOUT"} = {}

\* A response waits in the controller, or the empty packet for a refused request, and
\* then is with the firmware: whole, or the driver will ask for the rest and be refused.
Prepared ==
    h.pendingSetupResponse = drv.response /\ (h.expectingStatusPhase <=> drv.response = None)
Spent == h.pendingSetupResponse = None /\ ~h.expectingStatusPhase
Piece == IF H!Whole <= Packet THEN H!Whole ELSE Packet
ResponseFits ==
    /\ drv.response \in Nat \cup {None} /\ drv.asked \in Nat
    /\ H!Whole \in Nat /\ H!Whole <= drv.asked
Brought ==
    /\ ResponseFits
    /\ drv.phase = "begin" => drv.got = 0
    /\ drv.phase = "setup" => drv.got = 0 /\ (Answers => Prepared)
    /\ drv.phase = "data?" => (Prepared /\ drv.got = 0) \/ Spent
    /\ drv.phase = "data" /\ Answers => Spent /\ drv.got = 0 /\ h.buffer = Piece
    /\ drv.phase \in {"status?", "status"} => drv.got = H!Whole
    /\ drv.phase = "idle" /\ ~drv.failed => drv.got = H!Whole

Phases == {"idle", "begin", "setup", "data?", "data", "status?", "status"}
Control == drv.phase \in Phases /\ Settled /\ (drv.request = "in" => Brought)

HostSound == HostShaped /\ PortTold /\ ReportWaits /\ Control

SamePort(t, s) ==
    t.hostMode = s.hostMode /\ t.connectedDevice = s.connectedDevice /\ t.speed = s.speed
SameReport(t, s) ==
    /\ "int" \in t.buffStatus <=> "int" \in s.buffStatus
    /\ t.intReport = s.intReport /\ t.intAvailable = s.intAvailable /\ t.intEpCtrl = s.intEpCtrl
SameWork(t, s) ==
    /\ t.pendingSetupResponse = s.pendingSetupResponse
    /\ t.expectingStatusPhase = s.expectingStatusPhase
SameStatus(t, s) == t.transactionAlarm = s.transactionAlarm /\ t.sieStatus = s.sieStatus

IsHost(s) == DOMAIN s = HostFields

\* Which interrupts of s and t differ: none but those of bits.
RaisesOnly(t, s, bits) == t.intRaw \ bits = s.intRaw \ bits

LEMMA HostBuffUpdated ==
    ASSUME NEW s, IsHost(s)
    PROVE  LET t == H!buffStatusUpdated(s)
           IN  /\ IsHost(t) /\ SamePort(t, s) /\ SameReport(t, s) /\ SameWork(t, s)
               /\ SameStatus(t, s) /\ t.buffer = s.buffer /\ t.buffStatus = s.buffStatus
               /\ t.address = s.address /\ RaisesOnly(t, s, {"BUFF_STATUS"})
BY DEF H!buffStatusUpdated, IsHost, HostFields, SamePort, SameReport, SameWork, SameStatus,
       RaisesOnly

LEMMA HostSieUpdated ==
    ASSUME NEW s, IsHost(s)
    PROVE  LET t == H!sieStatusUpdated(s)
           IN  /\ IsHost(t) /\ SamePort(t, s) /\ SameReport(t, s) /\ SameWork(t, s)
               /\ SameStatus(t, s) /\ t.buffer = s.buffer /\ t.buffStatus = s.buffStatus
               /\ RaisesOnly(t, s, H!Transaction)
               /\ t.intRaw \cap H!Transaction = s.sieStatus \cap H!Transaction
<1>1. H!sieStatusUpdated(s)
         = [s EXCEPT !.intRaw = (@ \ H!Transaction) \cup (s.sieStatus \cap H!Transaction)]
  BY DEF H!sieStatusUpdated
<1> QED
  BY <1>1 DEF IsHost, HostFields, SamePort, SameReport, SameWork, SameStatus, RaisesOnly

LEMMA Replying ==
    ASSUME NEW s, IsHost(s), NEW bits
    PROVE  LET t == H!Reply(s, bits)
           IN  /\ IsHost(t) /\ SamePort(t, s) /\ SameReport(t, s) /\ SameWork(t, s)
               /\ t.buffer = s.buffer /\ t.intRaw = s.intRaw /\ t.buffStatus = s.buffStatus
               /\ t.sieStatus = s.sieStatus \cup bits /\ t.transactionAlarm
BY DEF H!Reply, IsHost, HostFields, SamePort, SameReport, SameWork

LEMMA Receiving ==
    ASSUME NEW s, IsHost(s), NEW n
    PROVE  LET t == H!Received(s, n)
           IN  /\ IsHost(t) /\ SamePort(t, s) /\ SameReport(t, s) /\ SameWork(t, s)
               /\ t.buffer = n /\ RaisesOnly(t, s, {"BUFF_STATUS"})
               /\ t.sieStatus = s.sieStatus \cup {"ACK_REC"} /\ t.transactionAlarm
<1> DEFINE m == [s EXCEPT !.buffer = n, !.buffStatus = @ \cup {"epx"}]
           r == H!buffStatusUpdated(m)
<1>1. /\ IsHost(m) /\ SamePort(m, s) /\ SameReport(m, s) /\ SameWork(m, s) /\ SameStatus(m, s)
      /\ m.buffer = n /\ m.intRaw = s.intRaw
  BY DEF IsHost, HostFields, SamePort, SameReport, SameWork, SameStatus
<1>2. H!Received(s, n) = H!Reply(r, {"ACK_REC"})
  BY DEF H!Received
<1> HIDE DEF m
<1>3. /\ IsHost(r) /\ SamePort(r, m) /\ SameReport(r, m) /\ SameWork(r, m) /\ SameStatus(r, m)
      /\ r.buffer = m.buffer /\ RaisesOnly(r, m, {"BUFF_STATUS"})
  BY <1>1, HostBuffUpdated
<1> HIDE DEF r
<1> DEFINE t == H!Reply(r, {"ACK_REC"})
<1>4. /\ IsHost(t) /\ SamePort(t, r) /\ SameReport(t, r) /\ SameWork(t, r)
      /\ t.buffer = r.buffer /\ t.intRaw = r.intRaw
      /\ t.sieStatus = r.sieStatus \cup {"ACK_REC"} /\ t.transactionAlarm
  BY <1>3, Replying
<1> HIDE DEF t
<1>5. SamePort(t, s) /\ SameReport(t, s) /\ SameWork(t, s)
  BY <1>1, <1>3, <1>4 DEF SamePort, SameReport, SameWork
<1>6. RaisesOnly(t, s, {"BUFF_STATUS"}) /\ t.sieStatus = s.sieStatus \cup {"ACK_REC"}
  BY <1>1, <1>3, <1>4 DEF RaisesOnly, SameStatus
<1> QED BY <1>1, <1>2, <1>3, <1>4, <1>5, <1>6 DEF t

\* What a transaction does to the controller, but for what the device has prepared.
Transacts(t, s, bit) ==
    /\ IsHost(t) /\ SamePort(t, s) /\ SameReport(t, s)
    /\ RaisesOnly(t, s, {"BUFF_STATUS"})
    /\ t.sieStatus = s.sieStatus \cup {bit} /\ t.transactionAlarm

LEMMA SetupTransacts ==
    ASSUME NEW s, IsHost(s), NEW request, NEW response
    PROVE  LET t == H!handleSetupTransaction(s, request, response)
           IN  /\ Transacts(t, s, "ACK_REC")
               /\ request = "in" => /\ t.pendingSetupResponse = response
                                    /\ t.expectingStatusPhase <=> response = None
<1> DEFINE m == [s EXCEPT !.pendingSetupResponse = IF request = "in" THEN response ELSE None,
                          !.expectingStatusPhase = (request # "in" \/ response = None),
                          !.address = IF request = "setAddress" THEN 1 ELSE @]
           t == H!Reply(m, {"ACK_REC"})
<1>1. /\ IsHost(m) /\ SamePort(m, s) /\ SameReport(m, s) /\ SameStatus(m, s)
      /\ m.intRaw = s.intRaw
      /\ request = "in" => /\ m.pendingSetupResponse = response
                           /\ m.expectingStatusPhase <=> response = None
  BY DEF IsHost, HostFields, SamePort, SameReport, SameStatus
<1>2. H!handleSetupTransaction(s, request, response) = t
  BY DEF H!handleSetupTransaction
<1> HIDE DEF m
<1>3. /\ IsHost(t) /\ SamePort(t, m) /\ SameReport(t, m) /\ SameWork(t, m)
      /\ t.intRaw = m.intRaw /\ t.sieStatus = m.sieStatus \cup {"ACK_REC"}
      /\ t.transactionAlarm
  BY <1>1, Replying
<1> HIDE DEF t
<1>4. Transacts(t, s, "ACK_REC")
  BY <1>1, <1>3 DEF Transacts, SamePort, SameReport, SameStatus, RaisesOnly
<1> QED BY <1>1, <1>2, <1>3, <1>4 DEF SameWork

LEMMA InTransacts ==
    ASSUME NEW s, IsHost(s)
    PROVE  LET t == H!handleInTransaction(s)
           IN  \/ Transacts(t, s, "STALL_REC")
               \/ /\ Transacts(t, s, "ACK_REC")
                  /\ s.expectingStatusPhase =>
                        /\ t.pendingSetupResponse = s.pendingSetupResponse
                        /\ ~t.expectingStatusPhase /\ t.buffer = 0
                  /\ ~s.expectingStatusPhase =>
                        /\ s.pendingSetupResponse # None /\ ~t.expectingStatusPhase
                        /\ t.pendingSetupResponse = None
                        /\ t.buffer = H!Min({s.pendingSetupResponse, Packet})
<1> DEFINE t == H!handleInTransaction(s)
<1>1. CASE s.expectingStatusPhase
  <2> DEFINE m == [s EXCEPT !.expectingStatusPhase = FALSE]
  <2>1. IsHost(m) /\ SamePort(m, s) /\ SameReport(m, s) /\ SameStatus(m, s)
        /\ m.intRaw = s.intRaw /\ ~m.expectingStatusPhase
        /\ m.pendingSetupResponse = s.pendingSetupResponse
    BY DEF IsHost, HostFields, SamePort, SameReport, SameStatus
  <2>2. t = H!Received(m, 0)
    BY <1>1 DEF H!handleInTransaction
  <2> HIDE DEF m, t
  <2>3. /\ IsHost(t) /\ SamePort(t, m) /\ SameReport(t, m) /\ RaisesOnly(t, m, {"BUFF_STATUS"})
        /\ t.sieStatus = m.sieStatus \cup {"ACK_REC"} /\ t.transactionAlarm
        /\ SameWork(t, m) /\ t.buffer = 0
    BY <2>1, <2>2, Receiving
  <2>4. Transacts(t, s, "ACK_REC")
    BY <2>1, <2>3 DEF Transacts, SamePort, SameReport, SameStatus, RaisesOnly
  <2>5. t.pendingSetupResponse = s.pendingSetupResponse /\ ~t.expectingStatusPhase
    BY <2>1, <2>3 DEF SameWork
  <2> QED BY <1>1, <2>3, <2>4, <2>5 DEF t
<1>2. CASE ~s.expectingStatusPhase /\ s.pendingSetupResponse # None
  <2> DEFINE m == [s EXCEPT !.pendingSetupResponse = None]
             n == H!Min({s.pendingSetupResponse, Packet})
  <2>1. IsHost(m) /\ SamePort(m, s) /\ SameReport(m, s) /\ SameStatus(m, s)
        /\ m.intRaw = s.intRaw /\ m.pendingSetupResponse = None
        /\ m.expectingStatusPhase = s.expectingStatusPhase
    BY DEF IsHost, HostFields, SamePort, SameReport, SameStatus
  <2>2. t = H!Received(m, n)
    BY <1>2 DEF H!handleInTransaction
  <2> HIDE DEF m, t, n
  <2>3. /\ IsHost(t) /\ SamePort(t, m) /\ SameReport(t, m) /\ RaisesOnly(t, m, {"BUFF_STATUS"})
        /\ t.sieStatus = m.sieStatus \cup {"ACK_REC"} /\ t.transactionAlarm
        /\ SameWork(t, m) /\ t.buffer = n
    BY <2>1, <2>2, Receiving
  <2>4. Transacts(t, s, "ACK_REC")
    BY <2>1, <2>3 DEF Transacts, SamePort, SameReport, SameStatus, RaisesOnly
  <2>5. t.pendingSetupResponse = None /\ ~t.expectingStatusPhase
    BY <1>2, <2>1, <2>3 DEF SameWork
  <2> QED BY <1>2, <2>3, <2>4, <2>5 DEF t, n
<1>3. CASE ~s.expectingStatusPhase /\ s.pendingSetupResponse = None
  <2>1. t = H!Reply(s, {"STALL_REC"})
    BY <1>3 DEF H!handleInTransaction
  <2>2. Transacts(t, s, "STALL_REC")
    BY <2>1, Replying DEF Transacts, RaisesOnly
  <2> QED BY <2>2
<1> QED BY <1>1, <1>2, <1>3

LEMMA OutTransacts ==
    ASSUME NEW s, IsHost(s)
    PROVE  Transacts(H!handleOutTransaction(s), s, "ACK_REC")
<1> DEFINE r == H!Reply(s, {"ACK_REC"})
           m == [r EXCEPT !.buffStatus = @ \cup {"epx"}]
           t == H!buffStatusUpdated(m)
<1>1. H!handleOutTransaction(s) = t
  BY DEF H!handleOutTransaction
<1>2. /\ IsHost(r) /\ SamePort(r, s) /\ SameReport(r, s)
      /\ r.intRaw = s.intRaw /\ r.sieStatus = s.sieStatus \cup {"ACK_REC"}
      /\ r.transactionAlarm
  BY Replying
<1> HIDE DEF r
<1>3. /\ IsHost(m) /\ SamePort(m, r) /\ SameReport(m, r) /\ SameStatus(m, r)
      /\ m.intRaw = r.intRaw
  BY <1>2 DEF IsHost, HostFields, SamePort, SameReport, SameStatus
<1> HIDE DEF m
<1>4. /\ IsHost(t) /\ SamePort(t, m) /\ SameReport(t, m) /\ SameStatus(t, m)
      /\ RaisesOnly(t, m, {"BUFF_STATUS"})
  BY <1>3, HostBuffUpdated
<1> HIDE DEF t
<1>5. Transacts(t, s, "ACK_REC")
  BY <1>2, <1>3, <1>4 DEF Transacts, SamePort, SameReport, SameStatus, RaisesOnly
<1> QED BY <1>1, <1>5

\* Steps that leave the port, the reports or the transfer alone.
PortAlone ==
    /\ SamePort(h', h) /\ drv'.view = drv.view
    /\ "HOST_CONN_DIS" \in h'.intRaw <=> "HOST_CONN_DIS" \in h.intRaw
ReportsAlone == SameReport(h', h) /\ dev'.reports = dev.reports /\ drv'.reports = drv.reports
SameTransfer ==
    /\ drv'.phase = drv.phase /\ drv'.request = drv.request /\ drv'.response = drv.response
    /\ drv'.asked = drv.asked /\ drv'.got = drv.got /\ drv'.failed = drv.failed
TransferAlone ==
    SameWork(h', h) /\ SameStatus(h', h) /\ h'.buffer = h.buffer /\ Raised' = Raised /\ SameTransfer

LEMMA PortKept ==
    ASSUME PortTold, PortAlone
    PROVE  PortTold'
BY DEF PortTold, PortAlone, SamePort, H!PortSeen

LEMMA ReportsKept ==
    ASSUME ReportWaits, ReportsAlone
    PROVE  ReportWaits'
BY DEF ReportWaits, ReportsAlone, SameReport, NumberedTo

LEMMA BroughtKept ==
    ASSUME Brought, SameWork(h', h), h'.buffer = h.buffer, Answers' => Answers, SameTransfer
    PROVE  Brought'
<1>1. /\ drv'.phase = drv.phase /\ drv'.response = drv.response /\ drv'.asked = drv.asked
      /\ drv'.got = drv.got /\ drv'.failed = drv.failed
  BY DEF SameTransfer
<1>2. H!Whole' = H!Whole /\ (ResponseFits => ResponseFits')
  BY <1>1 DEF H!Whole, ResponseFits
<1>3. (Prepared => Prepared') /\ (Spent => Spent') /\ Piece' = Piece
  BY <1>1, <1>2 DEF Prepared, Spent, Piece, SameWork
<1> QED BY <1>1, <1>2, <1>3 DEF Brought

LEMMA TransferKept ==
    ASSUME Control, TransferAlone
    PROVE  Control'
<1>1. /\ drv'.phase = drv.phase /\ drv'.request = drv.request /\ Raised' = Raised
      /\ h'.sieStatus = h.sieStatus /\ h'.transactionAlarm = h.transactionAlarm
  BY DEF TransferAlone, SameTransfer, SameStatus
<1>2. Answers' => Answers
  BY <1>1 DEF Answers
<1>3. Brought => Brought'
  BY <1>2, BroughtKept DEF TransferAlone
<1>4. Settled'
  BY <1>1 DEF Control, Settled, Under, Pending, TimedOut, Ended, H!Transaction
<1> QED BY <1>1, <1>3, <1>4 DEF Control, Phases

LEMMA Interrupts ==
    /\ "HOST_CONN_DIS" \notin H!Transaction /\ "HOST_SOF" \notin H!Transaction
    /\ "BUFF_STATUS" \notin H!Transaction
    /\ "ACK_REC" \notin H!Transaction
BY DEF H!Transaction

LEMMA RaisedKept ==
    ASSUME NEW t, NEW s, RaisesOnly(t, s, {"BUFF_STATUS"}) \/ t.intRaw = s.intRaw
    PROVE  /\ t.intRaw \cap H!Transaction = s.intRaw \cap H!Transaction
           /\ "HOST_CONN_DIS" \in t.intRaw <=> "HOST_CONN_DIS" \in s.intRaw
BY Interrupts DEF RaisesOnly

LEMMA completeHostTransactionSteps ==
    ASSUME HostSound, H!completeHostTransaction
    PROVE  HostSound'
<1> DEFINE m == [h EXCEPT !.transactionAlarm = FALSE, !.startTrans = FALSE,
                          !.sieStatus = @ \cup {"TRANS_COMPLETE"}]
<1>1. h.transactionAlarm /\ h' = H!sieStatusUpdated(m) /\ dev' = dev /\ drv' = drv
  BY DEF H!completeHostTransaction
<1>2. HostShaped /\ PortTold /\ ReportWaits /\ Control
  BY DEF HostSound
<1>3. /\ IsHost(m) /\ SamePort(m, h) /\ SameReport(m, h) /\ SameWork(m, h)
      /\ m.buffer = h.buffer /\ m.intRaw = h.intRaw /\ ~m.transactionAlarm
      /\ m.sieStatus = h.sieStatus \cup {"TRANS_COMPLETE"}
  BY <1>2 DEF HostShaped, IsHost, HostFields, SamePort, SameReport, SameWork
<1> HIDE DEF m
<1>4. /\ IsHost(h') /\ SamePort(h', m) /\ SameReport(h', m) /\ SameWork(h', m)
      /\ SameStatus(h', m) /\ h'.buffer = m.buffer /\ RaisesOnly(h', m, H!Transaction)
      /\ h'.intRaw \cap H!Transaction = m.sieStatus \cap H!Transaction
  BY <1>1, <1>3, HostSieUpdated
<1>5. /\ SamePort(h', h) /\ SameReport(h', h) /\ SameWork(h', h) /\ h'.buffer = h.buffer
      /\ ~h'.transactionAlarm /\ h'.sieStatus = h.sieStatus \cup {"TRANS_COMPLETE"}
  BY <1>3, <1>4 DEF SamePort, SameReport, SameWork, SameStatus
<1>6. "HOST_CONN_DIS" \in h'.intRaw <=> "HOST_CONN_DIS" \in h.intRaw
  BY <1>3, <1>4, Interrupts DEF RaisesOnly
<1>7. PortTold'
  <2>1. PortAlone
    BY <1>1, <1>5, <1>6 DEF PortAlone
  <2> QED BY <1>2, <2>1, PortKept
<1>8. ReportWaits'
  <2>1. ReportsAlone
    BY <1>1, <1>5 DEF ReportsAlone
  <2> QED BY <1>2, <2>1, ReportsKept
<1>9. Under /\ Under'
  BY <1>1, <1>2 DEF Control, Settled, Under
<1>10. Ended'
  <2>1. Raised' = h'.sieStatus \cap H!Transaction
    BY <1>4, <1>5, <1>3 DEF Raised, SameStatus, H!Transaction
  <2>2. "TRANS_COMPLETE" \in Raised'
    BY <1>5, <2>1 DEF H!Transaction
  <2> QED BY <1>5, <2>1, <2>2 DEF Ended, H!Transaction
<1>11. Settled'
  BY <1>9, <1>10 DEF Settled
<1>12. Answers' => Answers
  BY <1>5 DEF Answers
<1>13. SameTransfer
  BY <1>1 DEF SameTransfer
<1>14. Brought => Brought'
  BY <1>5, <1>12, <1>13, BroughtKept
<1>15. Control'
  BY <1>1, <1>2, <1>11, <1>14 DEF Control, Phases
<1>16. HostShaped'
  BY <1>1, <1>2, <1>4, <1>5 DEF HostShaped, IsHost, SamePort, HostFields, DrvFields
<1> QED BY <1>7, <1>8, <1>15, <1>16 DEF HostSound

\* A step of the port, or of the interrupt endpoint, leaves the transfer alone.
LEMMA BesideTransfer ==
    ASSUME HostSound, IsHost(h'), DOMAIN drv' = DrvFields,
           dev' = [reports |-> dev'.reports, plugs |-> dev'.plugs],
           h'.hostMode \in BOOLEAN, h'.connectedDevice \in BOOLEAN, h'.speed \in BOOLEAN,
           drv'.view \in BOOLEAN,
           TransferAlone, PortTold', ReportWaits'
    PROVE  HostSound'
<1>1. Control'
  BY TransferKept DEF HostSound
<1>2. drv'.failed \in BOOLEAN
  BY DEF HostSound, HostShaped, TransferAlone, SameTransfer
<1> QED BY <1>1, <1>2 DEF HostSound, HostShaped, IsHost

LEMMA PortSteps ==
    ASSUME HostSound,
           H!connectDevice \/ H!disconnectDevice \/ H!WriteMainCtrl \/ H!WriteSofEn
              \/ H!ReadSieStatus \/ H!ResetBus
    PROVE  HostSound'
<1>1. HostShaped /\ PortTold /\ ReportWaits
  BY DEF HostSound
<1>2. /\ IsHost(h') /\ SameReport(h', h) /\ SameWork(h', h) /\ SameStatus(h', h)
      /\ h'.buffer = h.buffer /\ RaisesOnly(h', h, {"HOST_CONN_DIS"})
  <2>1. CASE H!connectDevice
    BY <1>1, <2>1
       DEF HostShaped, IsHost, HostFields, SameReport, SameWork, SameStatus, RaisesOnly,
           H!connectDevice, H!onDeviceConnected
  <2>2. CASE H!disconnectDevice
    BY <1>1, <2>2
       DEF HostShaped, IsHost, HostFields, SameReport, SameWork, SameStatus, RaisesOnly,
           H!disconnectDevice
  <2>3. CASE H!WriteMainCtrl
    BY <1>1, <2>3
       DEF HostShaped, IsHost, HostFields, SameReport, SameWork, SameStatus, RaisesOnly,
           H!WriteMainCtrl, H!onDeviceConnected
  <2>4. CASE H!WriteSofEn
    BY <1>1, <2>4
       DEF HostShaped, IsHost, HostFields, SameReport, SameWork, SameStatus, RaisesOnly,
           H!WriteSofEn
  <2>5. CASE H!ReadSieStatus
    BY <1>1, <2>5
       DEF HostShaped, IsHost, HostFields, SameReport, SameWork, SameStatus, RaisesOnly,
           H!ReadSieStatus
  <2>6. CASE H!ResetBus
    BY <1>1, <2>6
       DEF HostShaped, IsHost, HostFields, SameReport, SameWork, SameStatus, RaisesOnly,
           H!ResetBus
  <2> QED BY <2>1, <2>2, <2>3, <2>4, <2>5, <2>6
<1>7. Raised' = Raised
  BY <1>2, Interrupts DEF RaisesOnly, Raised, H!Transaction
<1>3. /\ DOMAIN drv' = DrvFields /\ SameTransfer /\ drv'.reports = drv.reports
      /\ dev' = [reports |-> dev'.reports, plugs |-> dev'.plugs] /\ dev'.reports = dev.reports
  BY <1>1
     DEF HostShaped, DrvFields, SameTransfer,
         H!connectDevice, H!disconnectDevice, H!WriteMainCtrl, H!WriteSofEn, H!ReadSieStatus,
         H!ResetBus
<1>4. /\ h'.hostMode \in BOOLEAN /\ h'.connectedDevice \in BOOLEAN /\ h'.speed \in BOOLEAN
      /\ drv'.view \in BOOLEAN
  BY <1>1
     DEF HostShaped, HostFields, DrvFields, H!onDeviceConnected,
         H!connectDevice, H!disconnectDevice, H!WriteMainCtrl, H!WriteSofEn, H!ReadSieStatus,
         H!ResetBus
<1>5. PortTold'
  <2>1. CASE H!connectDevice
    BY <1>1, <2>1
       DEF HostShaped, HostFields, PortTold, H!PortSeen, H!connectDevice, H!onDeviceConnected
  <2>2. CASE H!disconnectDevice
    BY <1>1, <2>2 DEF HostShaped, HostFields, PortTold, H!PortSeen, H!disconnectDevice
  <2>3. CASE H!WriteMainCtrl
    BY <1>1, <2>3
       DEF HostShaped, HostFields, PortTold, H!PortSeen, H!WriteMainCtrl, H!onDeviceConnected
  <2>4. CASE H!WriteSofEn
    BY <1>1, <2>4 DEF HostShaped, HostFields, PortTold, H!PortSeen, H!WriteSofEn
  <2>5. CASE H!ReadSieStatus
    BY <1>1, <2>5 DEF HostShaped, HostFields, DrvFields, PortTold, H!PortSeen, H!ReadSieStatus
  <2>6. CASE H!ResetBus
    BY <1>1, <2>6 DEF HostShaped, HostFields, PortTold, H!PortSeen, H!ResetBus
  <2> QED BY <2>1, <2>2, <2>3, <2>4, <2>5, <2>6
<1>6. ReportWaits'
  BY <1>1, <1>2, <1>3, ReportsKept DEF ReportsAlone
<1> QED BY <1>2, <1>3, <1>4, <1>5, <1>6, <1>7, BesideTransfer DEF TransferAlone

LEMMA NumberedFacts ==
    ASSUME NEW n \in Nat
    PROVE  /\ NumberedTo(n) \in Seq(Nat) /\ Append(NumberedTo(n), n + 1) = NumberedTo(n + 1)
           /\ NumberedTo(n) \o <<>> = NumberedTo(n)
           /\ NumberedTo(n) \o <<n + 1>> = NumberedTo(n + 1)
<1> DEFINE x == NumberedTo(n)
           y == NumberedTo(n + 1)
           z == Append(x, n + 1)
<1>1. x \in Seq(Nat) /\ Len(x) = n /\ \A i \in 1 .. n : x[i] = i
  BY DEF NumberedTo
<1>2. y \in Seq(Nat) /\ Len(y) = n + 1 /\ \A i \in 1 .. n + 1 : y[i] = i
  BY DEF NumberedTo
<1> HIDE DEF x, y
<1>3. z \in Seq(Nat) /\ Len(z) = n + 1 /\ \A i \in 1 .. n + 1 : z[i] = i
  BY <1>1
<1> HIDE DEF z
<1>4. \A i \in 1 .. Len(z) : z[i] = y[i]
  BY <1>2, <1>3
<1>5. z = y
  BY <1>2, <1>3, <1>4, SeqEqual
<1>6. z = x \o <<n + 1>>
  BY <1>1, AppendIsConcat DEF z
<1>7. x \o <<>> = x
  BY <1>1, ConcatEmptySeq
<1> QED BY <1>1, <1>5, <1>6, <1>7 DEF x, y, z

LEMMA generateSOFSteps ==
    ASSUME HostSound, H!generateSOF
    PROVE  HostSound'
<1> DEFINE s == [h EXCEPT !.intRaw = @ \cup {"HOST_SOF"}, !.sofAlarm = h.sofEnabled]
           n == dev.reports
           m == [s EXCEPT !.intAvailable = FALSE, !.intReport = n + 1,
                          !.buffStatus = @ \cup {"int"}]
<1>1. HostShaped /\ PortTold /\ ReportWaits
  BY DEF HostSound
<1>2. drv' = drv
  BY DEF H!generateSOF
<1>3. \/ h' = s /\ dev' = dev
      \/ H!Poll(h) /\ h' = H!buffStatusUpdated(m) /\ dev' = [dev EXCEPT !.reports = @ + 1]
  BY DEF H!generateSOF
<1>4. /\ IsHost(s) /\ SamePort(s, h) /\ SameReport(s, h) /\ SameWork(s, h)
      /\ SameStatus(s, h) /\ s.buffer = h.buffer /\ s.intRaw = h.intRaw \cup {"HOST_SOF"}
  BY <1>1 DEF HostShaped, IsHost, HostFields, SamePort, SameReport, SameWork, SameStatus
<1>5. /\ IsHost(m) /\ SamePort(m, s) /\ SameWork(m, s) /\ SameStatus(m, s)
      /\ m.buffer = s.buffer /\ m.intRaw = s.intRaw
      /\ "int" \in m.buffStatus /\ m.intReport = n + 1 /\ ~m.intAvailable
      /\ m.intEpCtrl = s.intEpCtrl
  BY <1>4 DEF IsHost, HostFields, SamePort, SameWork, SameStatus
<1>6. /\ SameTransfer /\ drv'.view = drv.view /\ drv'.reports = drv.reports
      /\ DOMAIN drv' = DrvFields
  BY <1>1, <1>2 DEF SameTransfer, HostShaped
<1>7. dev' = [reports |-> dev'.reports, plugs |-> dev'.plugs]
      /\ dev'.reports = IF dev' = dev THEN n ELSE n + 1
  BY <1>1, <1>3 DEF HostShaped
<1> HIDE DEF s, m, n
<1>8. /\ IsHost(h') /\ SamePort(h', h) /\ SameWork(h', h) /\ SameStatus(h', h)
      /\ h'.buffer = h.buffer /\ Raised' = Raised
      /\ "HOST_CONN_DIS" \in h'.intRaw <=> "HOST_CONN_DIS" \in h.intRaw
  <2>1. CASE h' = s
    BY <1>4, <2>1, Interrupts DEF Raised, H!Transaction
  <2>2. CASE h' = H!buffStatusUpdated(m)
    <3>1. /\ IsHost(h') /\ SamePort(h', m) /\ SameWork(h', m) /\ SameStatus(h', m)
          /\ h'.buffer = m.buffer /\ RaisesOnly(h', m, {"BUFF_STATUS"})
      BY <1>5, <2>2, HostBuffUpdated
    <3>2. SamePort(h', h) /\ SameWork(h', h) /\ SameStatus(h', h) /\ h'.buffer = h.buffer
      BY <1>4, <1>5, <3>1 DEF SamePort, SameWork, SameStatus
    <3>3. /\ Raised' = Raised
          /\ "HOST_CONN_DIS" \in h'.intRaw <=> "HOST_CONN_DIS" \in h.intRaw
      BY <1>4, <1>5, <3>1, Interrupts DEF Raised, RaisesOnly, H!Transaction
    <3> QED BY <3>1, <3>2, <3>3
  <2> QED BY <1>3, <2>1, <2>2
<1>9. ReportWaits'
  <2>1. CASE h' = s /\ dev' = dev
    BY <1>1, <1>2, <1>4, <2>1, ReportsKept DEF ReportsAlone
  <2>2. CASE H!Poll(h) /\ h' = H!buffStatusUpdated(m) /\ dev' = [dev EXCEPT !.reports = @ + 1]
    <3>1. /\ "int" \notin h.buffStatus /\ drv.reports = NumberedTo(n) /\ n \in Nat
          /\ h.intEpCtrl
      BY <1>1, <2>2 DEF ReportWaits, H!Poll, n
    <3>2. SameReport(h', m)
      BY <1>5, <2>2, HostBuffUpdated
    <3>3. /\ "int" \in h'.buffStatus /\ h'.intReport = n + 1 /\ ~h'.intAvailable
          /\ h'.intEpCtrl
      BY <1>4, <1>5, <3>1, <3>2 DEF SameReport
    <3>4. dev'.reports = n + 1
      BY <1>1, <2>2 DEF HostShaped, n
    <3>5. (n + 1) - 1 = n /\ n + 1 > 0 /\ n + 1 \in Nat
      BY <3>1
    <3> QED BY <1>2, <3>1, <3>3, <3>4, <3>5 DEF ReportWaits, NumberedTo
  <2> QED BY <1>3, <2>1, <2>2
<1>10. PortTold'
  BY <1>1, <1>6, <1>8, PortKept DEF PortAlone
<1>11. /\ h'.hostMode \in BOOLEAN /\ h'.connectedDevice \in BOOLEAN /\ h'.speed \in BOOLEAN
       /\ drv'.view \in BOOLEAN
  BY <1>1, <1>6, <1>8 DEF HostShaped, SamePort
<1>12. TransferAlone
  BY <1>6, <1>8 DEF TransferAlone
<1> QED BY <1>6, <1>7, <1>8, <1>9, <1>10, <1>11, <1>12, BesideTransfer

LEMMA EnableInterruptEndpointSteps ==
    ASSUME HostSound, H!EnableInterruptEndpoint
    PROVE  HostSound'
<1>1. HostShaped /\ PortTold /\ ReportWaits
  BY DEF HostSound
<1>2. ~h.intEpCtrl /\ h' = [h EXCEPT !.intEpCtrl = TRUE, !.intAvailable = TRUE]
      /\ dev' = dev /\ drv' = drv
  BY DEF H!EnableInterruptEndpoint
<1>3. /\ IsHost(h') /\ SamePort(h', h) /\ SameWork(h', h) /\ SameStatus(h', h)
      /\ h'.buffer = h.buffer /\ h'.intRaw = h.intRaw /\ h'.buffStatus = h.buffStatus
      /\ h'.intEpCtrl
  BY <1>1, <1>2 DEF HostShaped, IsHost, HostFields, SamePort, SameWork, SameStatus
<1>4. ReportWaits'
  BY <1>1, <1>2, <1>3 DEF ReportWaits, NumberedTo
<1>5. PortTold'
  BY <1>1, <1>2, <1>3, PortKept DEF PortAlone
<1>6. TransferAlone
  BY <1>2, <1>3 DEF TransferAlone, SameTransfer, Raised, H!Transaction
<1>7. /\ h'.hostMode \in BOOLEAN /\ h'.connectedDevice \in BOOLEAN /\ h'.speed \in BOOLEAN
      /\ drv'.view \in BOOLEAN /\ DOMAIN drv' = DrvFields
      /\ dev' = [reports |-> dev'.reports, plugs |-> dev'.plugs]
  BY <1>1, <1>2, <1>3 DEF HostShaped, SamePort
<1> QED BY <1>3, <1>4, <1>5, <1>6, <1>7, BesideTransfer

LEMMA ReadReportSteps ==
    ASSUME HostSound, H!ReadReport
    PROVE  HostSound'
<1> DEFINE m == [h EXCEPT !.buffStatus = @ \ {"int"}, !.intReport = None,
                          !.intAvailable = TRUE]
<1>1. HostShaped /\ PortTold /\ ReportWaits
  BY DEF HostSound
<1>2. /\ "int" \in h.buffStatus /\ h' = H!buffStatusUpdated(m) /\ dev' = dev
      /\ drv' = [drv EXCEPT !.reports = Append(@, h.intReport)]
  BY DEF H!ReadReport
<1>3. /\ IsHost(m) /\ SamePort(m, h) /\ SameWork(m, h) /\ SameStatus(m, h)
      /\ m.buffer = h.buffer /\ m.intRaw = h.intRaw /\ "int" \notin m.buffStatus
      /\ m.intEpCtrl = h.intEpCtrl
  BY <1>1 DEF HostShaped, IsHost, HostFields, SamePort, SameWork, SameStatus
<1> HIDE DEF m
<1>4. /\ IsHost(h') /\ SamePort(h', m) /\ SameReport(h', m) /\ SameWork(h', m)
      /\ SameStatus(h', m) /\ h'.buffer = m.buffer /\ RaisesOnly(h', m, {"BUFF_STATUS"})
  BY <1>2, <1>3, HostBuffUpdated
<1>5. SamePort(h', h) /\ SameWork(h', h) /\ SameStatus(h', h) /\ h'.buffer = h.buffer
  BY <1>3, <1>4 DEF SamePort, SameWork, SameStatus
<1>6. /\ Raised' = Raised
      /\ "HOST_CONN_DIS" \in h'.intRaw <=> "HOST_CONN_DIS" \in h.intRaw
  BY <1>3, <1>4, Interrupts DEF Raised, RaisesOnly, H!Transaction
<1>7. /\ DOMAIN drv' = DrvFields /\ SameTransfer /\ drv'.view = drv.view
      /\ drv'.reports = Append(drv.reports, h.intReport)
  BY <1>1, <1>2 DEF HostShaped, DrvFields, SameTransfer
<1>8. ReportWaits'
  <2> DEFINE n == dev.reports - 1
  <2>1. /\ h.intReport = dev.reports /\ dev.reports \in Nat /\ dev.reports > 0 /\ h.intEpCtrl
        /\ drv.reports = NumberedTo(n)
    BY <1>1, <1>2 DEF ReportWaits
  <2>2. n \in Nat /\ n + 1 = dev.reports
    BY <2>1
  <2> HIDE DEF n
  <2>3. drv'.reports = NumberedTo(dev.reports)
    BY <1>7, <2>1, <2>2, NumberedFacts
  <2>4. "int" \notin h'.buffStatus /\ h'.intEpCtrl
    BY <1>3, <1>4, <2>1 DEF SameReport
  <2> QED BY <1>2, <2>1, <2>3, <2>4 DEF ReportWaits, NumberedTo
<1>9. PortTold'
  BY <1>1, <1>5, <1>6, <1>7, PortKept DEF PortAlone
<1>10. /\ h'.hostMode \in BOOLEAN /\ h'.connectedDevice \in BOOLEAN /\ h'.speed \in BOOLEAN
       /\ drv'.view \in BOOLEAN /\ dev' = [reports |-> dev'.reports, plugs |-> dev'.plugs]
  BY <1>1, <1>2, <1>5, <1>7 DEF HostShaped, SamePort
<1> QED BY <1>4, <1>5, <1>6, <1>7, <1>8, <1>9, <1>10, BesideTransfer DEF TransferAlone

LEMMA HostConstantsHold ==
    /\ Packet \in Nat /\ Packet > 0 /\ None \notin Nat \cup {"in"}
    /\ \A n \in Responses : n \in Nat
BY ProgressAssumption DEF H!HostConstants

LEMMA BeginTransferSteps ==
    ASSUME HostSound, H!BeginTransfer
    PROVE  HostSound'
<1>1. HostShaped /\ PortTold /\ ReportWaits /\ Control
  BY DEF HostSound
<1>2. PICK request \in {"in", "out", "setAddress"}, size \in Responses, more \in 0 .. 1,
           response \in Responses \cup {None} :
          /\ response \in {size, None}
          /\ drv' = [drv EXCEPT !.phase = "begin", !.request = request, !.response = response,
                                !.asked = size + more, !.got = 0, !.failed = FALSE,
                                !.transfers = @ + 1]
  BY DEF H!BeginTransfer
<1>3. drv.phase = "idle" /\ h' = h /\ dev' = dev
  BY DEF H!BeginTransfer
<1>4. /\ DOMAIN drv' = DrvFields /\ drv'.phase = "begin" /\ drv'.response = response
      /\ drv'.asked = size + more /\ drv'.got = 0 /\ ~drv'.failed
      /\ drv'.failed \in BOOLEAN
      /\ drv'.view = drv.view /\ drv'.reports = drv.reports
  BY <1>1, <1>2 DEF HostShaped, DrvFields
<1>5. ResponseFits'
  <2>1. size \in Nat /\ more \in Nat
    BY HostConstantsHold
  <2> QED BY <1>2, <1>4, <2>1, HostConstantsHold DEF ResponseFits, H!Whole
<1>6. Brought'
  BY <1>4, <1>5 DEF Brought
<1>7. Settled'
  BY <1>1, <1>3, <1>4 DEF Control, Settled, Under, Raised, H!Transaction
<1>8. Control'
  BY <1>4, <1>6, <1>7 DEF Control, Phases
<1>9. PortTold' /\ ReportWaits'
  <2>1. PortAlone /\ ReportsAlone
    BY <1>3, <1>4 DEF PortAlone, ReportsAlone, SamePort, SameReport
  <2> QED BY <1>1, <2>1, PortKept, ReportsKept
<1>10. HostShaped'
  BY <1>1, <1>3, <1>4 DEF HostShaped, HostFields, DrvFields
<1> QED BY <1>8, <1>9, <1>10 DEF HostSound

\* A transaction starts when the last one is done with.
Rests == ~h.transactionAlarm /\ Raised = {} /\ h.sieStatus = {}

\* What the device answers with.
Brings(t, kind) ==
    /\ kind = "SETUP" /\ drv.request = "in" =>
          /\ t.pendingSetupResponse = drv.response
          /\ t.expectingStatusPhase <=> drv.response = None
    /\ kind = "IN" /\ h.expectingStatusPhase =>
          /\ t.pendingSetupResponse = h.pendingSetupResponse
          /\ ~t.expectingStatusPhase /\ t.buffer = 0
    /\ kind = "IN" /\ ~h.expectingStatusPhase =>
          /\ h.pendingSetupResponse # None /\ ~t.expectingStatusPhase
          /\ t.pendingSetupResponse = None
          /\ t.buffer = H!Min({h.pendingSetupResponse, Packet})

LEMMA StartFacts ==
    ASSUME IsHost(h), Rests, NEW kind \in {"SETUP", "IN", "OUT"},
           h' = H!startHostTransaction([h EXCEPT !.buffer = None], kind)
    PROVE  /\ IsHost(h') /\ SamePort(h', h) /\ SameReport(h', h)
           /\ "HOST_CONN_DIS" \in h'.intRaw <=> "HOST_CONN_DIS" \in h.intRaw
           /\ Pending' \/ TimedOut'
           /\ Answers' => Brings(h', kind)
<1> DEFINE s == [h EXCEPT !.buffer = None]
           t == [s EXCEPT !.startTrans = TRUE]
           e == [t EXCEPT !.sieStatus = @ \cup {"RX_TIMEOUT"}]
<1>1. /\ IsHost(t) /\ SamePort(t, h) /\ SameReport(t, h) /\ SameWork(t, h) /\ SameStatus(t, h)
      /\ t.intRaw = h.intRaw
  BY DEF IsHost, HostFields, SamePort, SameReport, SameWork, SameStatus
<1>2. \/ h' = H!sieStatusUpdated(e)
      \/ kind = "SETUP" /\ h' = H!handleSetupTransaction(t, drv.request, drv.response)
      \/ kind = "IN" /\ h' = H!handleInTransaction(t)
      \/ kind = "OUT" /\ h' = H!handleOutTransaction(t)
  BY DEF H!startHostTransaction
<1>3. /\ IsHost(e) /\ SamePort(e, t) /\ SameReport(e, t) /\ e.intRaw = t.intRaw
      /\ e.transactionAlarm = t.transactionAlarm
      /\ e.sieStatus = t.sieStatus \cup {"RX_TIMEOUT"}
  BY <1>1 DEF IsHost, HostFields, SamePort, SameReport
<1> HIDE DEF s, t, e
<1>4. ~t.transactionAlarm /\ t.sieStatus = {} /\ h.intRaw \cap H!Transaction = {}
  BY <1>1 DEF SameStatus, Rests, Raised
<1>5. ASSUME NEW bit \in {"ACK_REC", "STALL_REC"}, Transacts(h', t, bit)
      PROVE  /\ IsHost(h') /\ SamePort(h', h) /\ SameReport(h', h)
             /\ "HOST_CONN_DIS" \in h'.intRaw <=> "HOST_CONN_DIS" \in h.intRaw
             /\ Pending' /\ h'.sieStatus = {bit}
  <2>1. /\ IsHost(h') /\ SamePort(h', t) /\ SameReport(h', t)
        /\ RaisesOnly(h', t, {"BUFF_STATUS"})
        /\ h'.sieStatus = t.sieStatus \cup {bit} /\ h'.transactionAlarm
    BY <1>5 DEF Transacts
  <2>2. SamePort(h', h) /\ SameReport(h', h)
    BY <1>1, <2>1 DEF SamePort, SameReport
  <2>3. /\ h'.intRaw \cap H!Transaction = {}
        /\ "HOST_CONN_DIS" \in h'.intRaw <=> "HOST_CONN_DIS" \in h.intRaw
    BY <1>1, <1>4, <2>1, RaisedKept
  <2>4. h'.sieStatus = {bit}
    BY <1>4, <2>1
  <2>5. Pending'
    BY <2>1, <2>3, <2>4 DEF Pending, Raised, H!Transaction
  <2> QED BY <2>1, <2>2, <2>3, <2>4, <2>5
<1>6. CASE h' = H!sieStatusUpdated(e)
  <2>1. /\ IsHost(h') /\ SamePort(h', e) /\ SameReport(h', e) /\ SameStatus(h', e)
        /\ RaisesOnly(h', e, H!Transaction)
        /\ h'.intRaw \cap H!Transaction = e.sieStatus \cap H!Transaction
    BY <1>3, <1>6, HostSieUpdated
  <2>2. SamePort(h', h) /\ SameReport(h', h)
    BY <1>1, <1>3, <2>1 DEF SamePort, SameReport
  <2>3. "HOST_CONN_DIS" \in h'.intRaw <=> "HOST_CONN_DIS" \in h.intRaw
    BY <1>1, <1>3, <2>1, Interrupts DEF RaisesOnly
  <2>4. h'.sieStatus = {"RX_TIMEOUT"} /\ ~h'.transactionAlarm
    BY <1>3, <1>4, <2>1 DEF SameStatus
  <2>5. h'.intRaw \cap H!Transaction = {"RX_TIMEOUT"}
    BY <1>3, <1>4, <2>1 DEF H!Transaction
  <2>6. TimedOut'
    BY <2>4, <2>5 DEF TimedOut, Raised, H!Transaction
  <2>7. ~Answers'
    BY <2>4 DEF Answers
  <2> QED BY <2>1, <2>2, <2>3, <2>6, <2>7
<1>7. CASE kind = "SETUP" /\ h' = H!handleSetupTransaction(t, drv.request, drv.response)
  <2>1. /\ Transacts(h', t, "ACK_REC")
        /\ drv.request = "in" => /\ h'.pendingSetupResponse = drv.response
                                 /\ h'.expectingStatusPhase <=> drv.response = None
    BY <1>1, <1>7, SetupTransacts
  <2>2. Brings(h', kind)
    BY <1>7, <2>1 DEF Brings
  <2> QED BY <1>5, <2>1, <2>2
<1>8. CASE kind = "IN" /\ h' = H!handleInTransaction(t)
  <2>1. CASE Transacts(h', t, "STALL_REC")
    <3>1. h'.sieStatus = {"STALL_REC"}
      BY <1>5, <2>1
    <3>2. ~Answers'
      BY <3>1 DEF Answers
    <3> QED BY <1>5, <2>1, <3>2
  <2>2. CASE /\ Transacts(h', t, "ACK_REC")
             /\ t.expectingStatusPhase =>
                   /\ h'.pendingSetupResponse = t.pendingSetupResponse
                   /\ ~h'.expectingStatusPhase /\ h'.buffer = 0
             /\ ~t.expectingStatusPhase =>
                   /\ t.pendingSetupResponse # None /\ ~h'.expectingStatusPhase
                   /\ h'.pendingSetupResponse = None
                   /\ h'.buffer = H!Min({t.pendingSetupResponse, Packet})
    <3>1. Brings(h', kind)
      BY <1>1, <1>8, <2>2 DEF Brings, SameWork
    <3> QED BY <1>5, <2>2, <3>1
  <2> QED BY <1>1, <1>8, <2>1, <2>2, InTransacts
<1>9. CASE kind = "OUT" /\ h' = H!handleOutTransaction(t)
  <2>1. Transacts(h', t, "ACK_REC")
    BY <1>1, <1>9, OutTransacts
  <2>2. Brings(h', kind)
    BY <1>9 DEF Brings
  <2> QED BY <1>5, <2>1, <2>2
<1> QED BY <1>2, <1>6, <1>7, <1>8, <1>9

\* A step from one phase to the next leaves the port and the reports alone.
LEMMA PhaseSteps ==
    ASSUME HostSound, Control', IsHost(h'), SamePort(h', h), SameReport(h', h),
           "HOST_CONN_DIS" \in h'.intRaw <=> "HOST_CONN_DIS" \in h.intRaw,
           dev' = dev, DOMAIN drv' = DrvFields, drv'.failed \in BOOLEAN,
           drv'.view = drv.view, drv'.reports = drv.reports
    PROVE  HostSound'
<1>1. PortAlone /\ ReportsAlone
  BY DEF PortAlone, ReportsAlone
<1>2. PortTold' /\ ReportWaits'
  BY <1>1, PortKept, ReportsKept DEF HostSound
<1>3. HostShaped'
  BY DEF HostSound, HostShaped, IsHost, SamePort, HostFields, DrvFields
<1> QED BY <1>2, <1>3 DEF HostSound

LEMMA StartTransactionSteps ==
    ASSUME HostSound, H!StartTransaction
    PROVE  HostSound'
<1>1. HostShaped /\ Control /\ IsHost(h)
  BY DEF HostSound, HostShaped, IsHost
<1>2. PICK phase \in {"setup", "data", "status"}, kind \in {"SETUP", "IN", "OUT"} :
          /\ H!Start(phase, kind)
          /\ \/ drv.phase = "begin" /\ phase = "setup" /\ kind = "SETUP"
             \/ drv.phase = "data?" /\ phase = "data" /\ kind = "IN"
             \/ drv.phase = "status?" /\ phase = "status"
  BY DEF H!StartTransaction
<1>3. /\ h' = H!startHostTransaction([h EXCEPT !.buffer = None], kind)
      /\ drv' = [drv EXCEPT !.phase = phase] /\ dev' = dev
  BY <1>2 DEF H!Start
<1>4. Rests
  BY <1>1, <1>2 DEF Control, Settled, Under, Rests
<1>5. /\ IsHost(h') /\ SamePort(h', h) /\ SameReport(h', h)
      /\ "HOST_CONN_DIS" \in h'.intRaw <=> "HOST_CONN_DIS" \in h.intRaw
      /\ Pending' \/ TimedOut'
      /\ Answers' => Brings(h', kind)
  BY <1>1, <1>3, <1>4, StartFacts
<1>6. /\ DOMAIN drv' = DrvFields /\ drv'.phase = phase /\ drv'.request = drv.request
      /\ drv'.response = drv.response /\ drv'.asked = drv.asked /\ drv'.got = drv.got
      /\ drv'.failed = drv.failed /\ drv'.view = drv.view /\ drv'.reports = drv.reports
  BY <1>1, <1>3 DEF HostShaped, DrvFields
<1>7. Settled'
  BY <1>5, <1>6 DEF Settled, Under
<1>8. ASSUME drv.request = "in" PROVE Brought'
  <2>1. Brought /\ ResponseFits /\ ResponseFits' /\ H!Whole' = H!Whole
    BY <1>1, <1>6, <1>8 DEF Control, Brought, ResponseFits, H!Whole
  <2>2. CASE drv.phase = "begin"
    <3>1. phase = "setup" /\ kind = "SETUP" /\ drv.got = 0
      BY <1>2, <2>1, <2>2 DEF Brought
    <3>2. Answers' => Prepared'
      BY <1>5, <1>6, <1>8, <3>1 DEF Brings, Prepared
    <3> QED BY <1>6, <2>1, <3>1, <3>2 DEF Brought
  <2>3. CASE drv.phase = "data?"
    <3>1. phase = "data" /\ kind = "IN" /\ ((Prepared /\ drv.got = 0) \/ Spent)
      BY <1>2, <2>1, <2>3 DEF Brought
    <3>2. Answers' => Spent' /\ drv'.got = 0 /\ h'.buffer = Piece'
      <4> SUFFICES ASSUME Answers' PROVE Spent' /\ drv'.got = 0 /\ h'.buffer = Piece'
        OBVIOUS
      <4>1. Brings(h', kind)
        BY <1>5
      <4>2. Piece' = Piece
        BY <2>1 DEF Piece
      <4>3. CASE h.expectingStatusPhase
        <5>1. /\ h'.pendingSetupResponse = h.pendingSetupResponse
              /\ ~h'.expectingStatusPhase /\ h'.buffer = 0
          BY <3>1, <4>1, <4>3 DEF Brings
        <5>2. Prepared /\ drv.got = 0 /\ drv.response = None
          BY <3>1, <4>3 DEF Spent, Prepared
        <5>3. Piece = 0
          BY <5>2, HostConstantsHold DEF Piece, H!Whole
        <5> QED BY <1>6, <4>2, <5>1, <5>2, <5>3 DEF Spent, Prepared
      <4>4. CASE ~h.expectingStatusPhase
        <5>1. /\ h.pendingSetupResponse # None /\ ~h'.expectingStatusPhase
              /\ h'.pendingSetupResponse = None
              /\ h'.buffer = H!Min({h.pendingSetupResponse, Packet})
          BY <3>1, <4>1, <4>4 DEF Brings
        <5>2. Prepared /\ drv.got = 0 /\ drv.response \in Nat /\ H!Whole = drv.response
          BY <2>1, <3>1, <5>1 DEF Spent, Prepared, ResponseFits, H!Whole
        <5>3. H!Min({drv.response, Packet}) = Piece
          BY <5>2, HostConstantsHold DEF H!Min, Piece
        <5> QED BY <1>6, <4>2, <5>1, <5>2, <5>3 DEF Spent, Prepared
      <4> QED BY <4>3, <4>4
    <3> QED BY <1>6, <2>1, <3>1, <3>2 DEF Brought
  <2>4. CASE drv.phase = "status?"
    <3>1. phase = "status" /\ drv.got = H!Whole
      BY <1>2, <2>1, <2>4 DEF Brought
    <3> QED BY <1>6, <2>1, <3>1 DEF Brought
  <2> QED BY <1>2, <2>2, <2>3, <2>4
<1>9. Control'
  BY <1>6, <1>7, <1>8 DEF Control, Phases
<1>10. drv'.failed \in BOOLEAN
  BY <1>1, <1>6 DEF HostShaped
<1> QED BY <1>3, <1>5, <1>6, <1>9, <1>10, PhaseSteps

LEMMA TransactionDoneSteps ==
    ASSUME HostSound, H!TransactionDone
    PROVE  HostSound'
<1> DEFINE n == IF h.buffer = None THEN 0 ELSE h.buffer
           all == drv.got + n
           failed == Raised # {"TRANS_COMPLETE"}
           m == [h EXCEPT !.sieStatus = {}, !.buffStatus = @ \ {"epx"}]
           s == H!sieStatusUpdated(m)
<1>1. HostShaped /\ Control
  BY DEF HostSound
<1>2. /\ Raised # {} /\ drv.phase \in {"setup", "data", "status"}
      /\ h' = H!buffStatusUpdated(s) /\ dev' = dev
  BY DEF H!TransactionDone, Raised
<1>3. drv' = [drv EXCEPT
              !.phase = CASE failed -> "idle"
                          [] ~failed /\ drv.phase = "setup" /\ drv.request = "in" -> "data?"
                          [] ~failed /\ drv.phase = "data" /\ n = Packet /\ all < drv.asked -> "data?"
                          [] ~failed /\ drv.phase = "status" -> "idle"
                          [] OTHER -> "status?",
              !.got = IF drv.phase = "data" THEN all ELSE @,
              !.failed = failed]
  BY DEF H!TransactionDone, Raised
<1>4. /\ IsHost(m) /\ SamePort(m, h) /\ SameReport(m, h) /\ SameWork(m, h)
      /\ m.transactionAlarm = h.transactionAlarm /\ m.sieStatus = {} /\ m.intRaw = h.intRaw
  BY <1>1 DEF HostShaped, IsHost, HostFields, SamePort, SameReport, SameWork
<1> HIDE DEF m
<1>5. /\ IsHost(s) /\ SamePort(s, m) /\ SameReport(s, m) /\ SameWork(s, m) /\ SameStatus(s, m)
      /\ RaisesOnly(s, m, H!Transaction)
      /\ s.intRaw \cap H!Transaction = m.sieStatus \cap H!Transaction
  BY <1>4, HostSieUpdated
<1> HIDE DEF s
<1>6. /\ IsHost(h') /\ SamePort(h', s) /\ SameReport(h', s) /\ SameWork(h', s)
      /\ SameStatus(h', s) /\ RaisesOnly(h', s, {"BUFF_STATUS"})
  BY <1>2, <1>5, HostBuffUpdated
<1>7. SamePort(h', h) /\ SameReport(h', h) /\ SameWork(h', h)
  BY <1>4, <1>5, <1>6 DEF SamePort, SameReport, SameWork
<1>8. /\ h'.sieStatus = {} /\ h'.transactionAlarm = h.transactionAlarm
  BY <1>4, <1>5, <1>6 DEF SameStatus
<1>9. h'.intRaw \cap H!Transaction = {}
  BY <1>4, <1>5, <1>6, RaisedKept
<1>10. "HOST_CONN_DIS" \in h'.intRaw <=> "HOST_CONN_DIS" \in h.intRaw
  BY <1>4, <1>5, <1>6, Interrupts DEF RaisesOnly
<1>11. TimedOut \/ Ended
  BY <1>1, <1>2 DEF Control, Settled, Under, Pending
<1>12. ~failed => Ended /\ Answers
  BY <1>11 DEF TimedOut, Ended, Answers, H!Transaction
<1>13. ~h'.transactionAlarm /\ Raised' = {}
  BY <1>8, <1>9, <1>11 DEF TimedOut, Ended, Raised, H!Transaction
<1>14. /\ DOMAIN drv' = DrvFields /\ drv'.request = drv.request
       /\ drv'.response = drv.response /\ drv'.asked = drv.asked /\ drv'.failed = failed
       /\ drv'.view = drv.view /\ drv'.reports = drv.reports
       /\ drv'.got = IF drv.phase = "data" THEN all ELSE drv.got
       /\ drv'.phase =
             CASE failed -> "idle"
               [] ~failed /\ drv.phase = "setup" /\ drv.request = "in" -> "data?"
               [] ~failed /\ drv.phase = "data" /\ n = Packet /\ all < drv.asked -> "data?"
               [] ~failed /\ drv.phase = "status" -> "idle"
               [] OTHER -> "status?"
  BY <1>1, <1>3 DEF HostShaped, DrvFields
<1>15. failed \in BOOLEAN
  OBVIOUS
<1> HIDE DEF n, all, failed
<1>16. drv'.phase \in {"idle", "data?", "status?"} /\ (failed => drv'.phase = "idle")
  BY <1>14, <1>15
<1>17. Settled'
  BY <1>8, <1>13, <1>16 DEF Settled, Under
<1>18. ASSUME drv.request = "in" PROVE Brought'
  <2>1. Brought /\ ResponseFits /\ ResponseFits' /\ H!Whole' = H!Whole
    BY <1>1, <1>14, <1>18 DEF Control, Brought, ResponseFits, H!Whole
  <2>2. CASE failed
    <3>1. drv'.phase = "idle" /\ drv'.failed
      BY <1>14, <1>16, <2>2
    <3> QED BY <2>1, <3>1 DEF Brought
  <2>3. CASE ~failed /\ drv.phase = "setup"
    <3>1. drv'.phase = "data?" /\ drv'.got = drv.got
      BY <1>14, <1>18, <2>3
    <3>2. Prepared' /\ drv'.got = 0
      BY <1>7, <1>12, <1>14, <2>1, <2>3, <3>1 DEF Brought, Prepared, SameWork
    <3> QED BY <2>1, <3>1, <3>2 DEF Brought
  <2>4. CASE ~failed /\ drv.phase = "data"
    <3>1. Spent /\ drv.got = 0 /\ h.buffer = Piece /\ H!Whole \in Nat /\ drv.asked \in Nat
          /\ H!Whole <= drv.asked
      BY <1>12, <2>1, <2>4 DEF Brought, ResponseFits
    <3>2. Piece \in Nat /\ Packet \in Nat
      BY <3>1, HostConstantsHold DEF Piece
    <3>3. all = Piece /\ n = Piece
      BY <3>1, <3>2, HostConstantsHold DEF all, n
    <3>4. drv'.got = Piece /\ Spent'
      BY <1>7, <1>14, <2>4, <3>1, <3>3 DEF Spent, SameWork
    <3>5. CASE n = Packet /\ all < drv.asked
      <4>1. drv'.phase = "data?"
        BY <1>14, <2>4, <3>5
      <4> QED BY <2>1, <3>4, <4>1 DEF Brought
    <3>6. CASE ~(n = Packet /\ all < drv.asked)
      <4>1. drv'.phase = "status?"
        BY <1>14, <2>4, <3>6
      <4>2. Piece = H!Whole
        BY <3>1, <3>2, <3>3, <3>6 DEF Piece
      <4>3. drv'.got = H!Whole'
        BY <2>1, <3>4, <4>2
      <4> QED BY <2>1, <4>1, <4>3 DEF Brought
    <3> QED BY <3>5, <3>6
  <2>5. CASE ~failed /\ drv.phase = "status"
    <3>1. drv'.phase = "idle" /\ drv'.got = drv.got
      BY <1>14, <2>5
    <3>2. drv'.got = H!Whole'
      BY <2>1, <2>5, <3>1 DEF Brought
    <3> QED BY <2>1, <3>1, <3>2 DEF Brought
  <2> QED BY <1>2, <2>2, <2>3, <2>4, <2>5
<1>19. Control'
  BY <1>14, <1>16, <1>17, <1>18 DEF Control, Phases
<1> QED BY <1>2, <1>6, <1>7, <1>10, <1>14, <1>15, <1>19, PhaseSteps

LEMMA HostStepSound == HostSound /\ H!HostNext => HostSound'
<1> SUFFICES ASSUME HostSound, H!HostNext PROVE HostSound'
  OBVIOUS
<1> QED
  BY completeHostTransactionSteps, generateSOFSteps, PortSteps, BeginTransferSteps,
     StartTransactionSteps, TransactionDoneSteps, EnableInterruptEndpointSteps,
     ReadReportSteps DEF H!HostNext

LEMMA HostInitSound == H!HostInit => HostSound
<1> SUFFICES ASSUME H!HostInit PROVE HostSound
  OBVIOUS
<1>1. /\ DOMAIN h = HostFields /\ h.hostMode = FALSE /\ h.connectedDevice = FALSE
      /\ h.speed = FALSE /\ h.intRaw = {} /\ h.sieStatus = {} /\ h.buffStatus = {}
      /\ ~h.transactionAlarm /\ ~h.intAvailable /\ ~h.intEpCtrl
  BY DEF H!HostInit, HostFields
<1>2. /\ DOMAIN drv = DrvFields /\ drv.view = FALSE /\ drv.phase = "idle"
      /\ drv.request = None /\ drv.failed = FALSE /\ drv.reports = <<>>
  BY DEF H!HostInit, DrvFields
<1>3. dev = [reports |-> 0, plugs |-> 0]
  BY DEF H!HostInit
<1>4. HostShaped
  BY <1>1, <1>2, <1>3 DEF HostShaped
<1>5. PortTold
  BY <1>1, <1>2 DEF PortTold, H!PortSeen
<1>6. NumberedTo(0) = <<>> /\ dev.reports = 0
  BY <1>3 DEF NumberedTo
<1>7. ReportWaits
  BY <1>1, <1>2, <1>6 DEF ReportWaits
<1>8. Settled
  BY <1>1, <1>2 DEF Settled, Under, Raised
<1>9. Control
  BY <1>2, <1>8, HostConstantsHold DEF Control, Phases
<1> QED BY <1>4, <1>5, <1>7, <1>9 DEF HostSound

LEMMA HostStutterSound == HostSound /\ UNCHANGED Host => HostSound'
<1> SUFFICES ASSUME HostSound, UNCHANGED Host PROVE HostSound'
  OBVIOUS
<1>1. h' = h /\ dev' = dev /\ drv' = drv
  BY DEF Host
<1>2. TransferAlone /\ PortAlone /\ ReportsAlone
  BY <1>1 DEF TransferAlone, PortAlone, ReportsAlone, SameWork, SameStatus, SamePort,
              SameReport, SameTransfer, Raised, H!Transaction
<1>3. PortTold' /\ ReportWaits' /\ Control'
  BY <1>2, PortKept, ReportsKept, TransferKept DEF HostSound
<1>4. HostShaped'
  BY <1>1 DEF HostSound, HostShaped, HostFields, DrvFields
<1> QED BY <1>3, <1>4 DEF HostSound

LEMMA HostSoundShows == HostSound => H!ControlWhole /\ H!ReportsInOrder /\ H!PortSeen
<1> SUFFICES ASSUME HostSound PROVE H!ControlWhole /\ H!ReportsInOrder /\ H!PortSeen
  OBVIOUS
<1>1. H!ControlWhole
  BY DEF HostSound, HostShaped, Control, Brought, H!ControlWhole
<1>2. H!PortSeen
  BY DEF HostSound, PortTold
<1>3. H!ReportsInOrder
  <2> DEFINE k == dev.reports
  <2>1. k \in Nat
    BY DEF HostSound, ReportWaits
  <2>2. CASE "int" \notin h.buffStatus /\ drv.reports = NumberedTo(k)
    <3>1. NumberedTo(k) \o <<>> = NumberedTo(k)
      BY <2>1, NumberedFacts
    <3> QED BY <2>2, <3>1 DEF H!ReportsInOrder, NumberedTo
  <2>3. CASE /\ "int" \in h.buffStatus /\ h.intReport = k /\ k > 0
             /\ drv.reports = NumberedTo(k - 1)
    <3> DEFINE j == k - 1
    <3>1. j \in Nat /\ j + 1 = k
      BY <2>1, <2>3
    <3> HIDE DEF j, k
    <3>2. NumberedTo(j) \o <<k>> = NumberedTo(k)
      BY <3>1, NumberedFacts
    <3> QED BY <2>3, <3>2 DEF H!ReportsInOrder, NumberedTo, j, k
  <2> QED BY <2>2, <2>3 DEF HostSound, ReportWaits
<1> QED BY <1>1, <1>2, <1>3

-----------------------------------------------------------------------------
(* The two together.                                                            *)

\* A step of MCProgress is a step of the controller in one mode or the other, or of
\* neither.
LEMMA UsbSteps ==
    [Next]_vars => [UsbNext]_usbVars /\ [H!HostNext]_Host
BY DEF Next, ControllerNext, WatchdogNext, SysTickNext, vars

IntactInv == UsbSound /\ HostSound

LEMMA IntactInit == Init => IntactInv
BY UsbInitSound, HostInitSound DEF Init, IntactInv

LEMMA IntactStep == IntactInv /\ [Next]_vars => IntactInv' /\ [Replaces]_usbVars
<1> SUFFICES ASSUME IntactInv, [Next]_vars PROVE IntactInv' /\ [Replaces]_usbVars
  OBVIOUS
<1>1. UsbSound /\ HostSound /\ [UsbNext]_usbVars /\ [H!HostNext]_Host
  BY UsbSteps DEF IntactInv
<1>2. UsbSound'
  BY <1>1, UsbStepSound, UsbStutterSound
<1>3. HostSound'
  BY <1>1, HostStepSound, HostStutterSound
<1>4. [Replaces]_usbVars
  BY <1>1, UsbStepSound
<1> QED BY <1>2, <1>3, <1>4 DEF IntactInv

LEMMA IntactAlways == Spec => []IntactInv
BY IntactInit, IntactStep, PTL DEF Spec

\* What the controller carries arrives: the serial bytes in both directions once and
\* in order but for two buffers made available together, the whole of a control
\* transfer that ends well, every report; and a change of the port is never missed
\* (usb.ts, cdc.ts).
THEOREM DataStaysIntact == Spec => []DataIntact
<1>1. IntactInv => DataIntact
  BY UsbSoundSerial, HostSoundShows DEF IntactInv, DataIntact
<1> QED BY <1>1, IntactAlways, PTL

\* The host sends no setup packet while the last one is in the controller (cdc.ts).
THEOREM SetupPacketIsKept == Spec => SetupPacketKept
<1>1. [Replaces]_usbVars
         => [u'.setupPacket # u.setupPacket => "SETUP_REC" \notin u.sieStatus]_usbVars
  BY DEF Replaces
<1> QED BY <1>1, IntactStep, IntactAlways, PTL DEF Spec, SetupPacketKept

-----------------------------------------------------------------------------
(* Remainders.                                                                *)

LEMMA Remainders ==
    ASSUME NEW x \in Int, NEW n \in Nat \ {0}
    PROVE  \E k, p, r \in Int :
               k = x \div n /\ p = k * n /\ x = p + r /\ r = x % n /\ r \in 0 .. n - 1
<1>1. x \div n \in Int /\ x = n * (x \div n) + (x % n) /\ x % n \in 0 .. n - 1
  OBVIOUS
<1>2. PICK k \in Int : k = x \div n
  BY <1>1
<1>3. PICK r \in Int : r = x % n
  BY <1>1
<1>4. PICK p \in Int : p = k * n
  OBVIOUS
<1>5. p = n * k
  BY <1>4
<1>6. x = p + r /\ r \in 0 .. n - 1
  BY <1>1, <1>2, <1>3, <1>5
<1> QED BY <1>2, <1>3, <1>4, <1>6

LEMMA RemainderIs ==
    ASSUME NEW n \in Nat \ {0}, NEW v \in 0 .. n - 1, NEW k \in Int
    PROVE  (v + k * n) % n = v
<1>1. PICK x, q \in Int : q = k * n /\ x = v + q
  <2>1. k * n \in Int
    OBVIOUS
  <2> QED BY <2>1
<1>2. PICK j, p, r \in Int : j = x \div n /\ p = j * n /\ x = p + r /\ r = x % n /\ r \in 0 .. n - 1
  BY Remainders
<1>3. PICK d \in Int : k = j + d
  <2>1. k = j + (k - j)
    OBVIOUS
  <2> QED BY <2>1
<1>4. PICK m \in Int : m = d * n
  OBVIOUS
<1>5. k * n = j * n + d * n
  BY <1>3
<1>6. m = r - v
  BY <1>1, <1>2, <1>4, <1>5
<1>7. d >= 1 => m >= n
  BY <1>4
<1>8. d <= -1 => m <= -n
  BY <1>4
<1>9. d = 0
  BY <1>2, <1>6, <1>7, <1>8
<1>10. m = 0
  BY <1>4, <1>9
<1>11. x % n = v
  BY <1>2, <1>6, <1>10
<1>12. v + k * n = x
  BY <1>1
<1> QED BY <1>11, <1>12, Zenon

-----------------------------------------------------------------------------
(* A countdown: a timer that decrements, with its alarm at 0.                 *)

TimerFields == {"base", "ran", "top", "mode", "on", "zeroDiv", "target", "armed", "due"}
IsCountdown(t) ==
    /\ DOMAIN t = TimerFields /\ t = [f \in TimerFields |-> t[f]] /\ t.mode = "Decrement"
    /\ t.base \in Int /\ t.ran \in Nat /\ t.top \in 0 .. Wrap - 1 /\ t.on \in BOOLEAN
    /\ t.target["zero"] = 0
    /\ DOMAIN t.armed = {"zero"} /\ t.armed["zero"] \in BOOLEAN
    /\ DOMAIN t.due = {"zero"} /\ t.due["zero"] \in Int \cup {Never}

SameTimer(t, s) ==
    /\ t.base = s.base /\ t.ran = s.ran /\ t.top = s.top /\ t.on = s.on
    /\ t.armed["zero"] = s.armed["zero"]

Span(t) == (t.top + 1) * Sub
\* The alarm is due when the counter is 0, give or take a whole number of rounds.
Hits(t, due) == \E k, p \in Int :
    p = k * Span(t) /\ 2 * (t.base * Sub - t.ran - due + p) + Sub \in 0 .. 2 * Sub - 1
Aimed(t) ==
    t.on => /\ t.armed["zero"] <=> t.due["zero"] # Never
            /\ t.due["zero"] # Never => Hits(t, t.due["zero"])
Counting(t) == IsCountdown(t) /\ Aimed(t)

LEMMA Constants == /\ Sub \in Nat \ {0} /\ Wrap \in Nat \ {0} /\ Never \notin Int
                   /\ Loads \subseteq Nat /\ SysTickTop \in 0 .. Wrap - 1
BY ProgressAssumption DEF C!CountdownConstants, C!TimerConstants

LEMMA SpanPositive == ASSUME NEW t, IsCountdown(t) PROVE Span(t) \in Nat \ {0} /\ Span(t) >= Sub
<1>1. PICK n \in Nat : n = t.top
  BY DEF IsCountdown
<1>2. (n + 1) * Sub = n * Sub + Sub /\ n * Sub \in Nat
  BY Constants
<1> QED BY <1>1, <1>2, Constants DEF Span

\* The counter is the place, rounded, but for whole rounds.
LEMMA RawCounter ==
    ASSUME NEW t, IsCountdown(t), t.on
    PROVE  \E raw, k, p \in Int :
               /\ C!rawCounter(t) = raw /\ p = k * Span(t)
               /\ 2 * (t.base * Sub - t.ran + p) + Sub - 2 * Sub * raw \in 0 .. 2 * Sub - 1
               /\ t.top # C!NoTop => raw \in 0 .. t.top
<1>1. PICK span \in Nat \ {0} : span = Span(t)
  BY SpanPositive
<1>2. PICK base \in Int, ran \in Nat, top \in Nat : base = t.base /\ ran = t.ran /\ top = t.top
  <2>1. t.base \in Int /\ t.ran \in Nat /\ t.top \in Nat
    BY Constants DEF IsCountdown
  <2> QED BY <2>1
<1>3. PICK k, p, r \in Int : k = ran \div span /\ p = k * span /\ ran = p + r /\ r = ran % span /\ r \in 0 .. span - 1
  BY Remainders
<1>4. PICK at \in Int : at = base * Sub
  BY Constants
<1>5. PICK x \in Int : x = 2 * (at + (span - r)) + Sub
  BY Constants
<1>6. PICK sub2 \in Nat \ {0} : sub2 = 2 * Sub
  BY Constants
<1>7. PICK R \in Int : R = x \div (2 * Sub) /\ x - 2 * Sub * R \in 0 .. 2 * Sub - 1
  <2>1. PICK R, q, v \in Int : R = x \div sub2 /\ q = R * sub2 /\ x = q + v /\ v \in 0 .. sub2 - 1
    BY Remainders
  <2>2. x \div (2 * Sub) = R /\ v \in 0 .. 2 * Sub - 1
    BY <1>6, <2>1
  <2>3. 2 * Sub * R = q
    BY <1>6, <2>1
  <2>4. x - 2 * Sub * R = v
    BY <2>1, <2>3
  <2> QED BY <2>2, <2>4
<1>8. C!rawCounter(t) = IF t.top = C!NoTop THEN R ELSE R % (top + 1)
  BY <1>1, <1>2, <1>3, <1>4, <1>5, <1>7 DEF IsCountdown, Span, C!rawCounter, C!Period
<1>9. PICK k1, p1 \in Int : p1 = k1 * span /\ span - r = p1 - ran
  <2>1. (k + 1) * span = p + span
    BY <1>3
  <2>2. p + span \in Int /\ span - r = (p + span) - ran
    BY <1>3
  <2> QED BY <2>1, <2>2
<1>10. 2 * (at - ran + p1) + Sub - 2 * Sub * R \in 0 .. 2 * Sub - 1
  <2>1. x = 2 * (at - ran + p1) + Sub
    BY <1>5, <1>9, Constants
  <2>2. PICK y \in Int : y = 2 * Sub * R
    BY Constants
  <2>3. x - y \in 0 .. 2 * Sub - 1
    BY <1>7, <2>2
  <2>4. 2 * (at - ran + p1) + Sub - y \in 0 .. 2 * Sub - 1
    BY <2>1, <2>3, Constants
  <2> QED BY <2>2, <2>4
<1>11. CASE t.top = C!NoTop
  BY <1>1, <1>2, <1>4, <1>8, <1>9, <1>10, <1>11
<1>12. CASE t.top # C!NoTop
  <2>1. PICK j, q, raw \in Int : q = j * (top + 1) /\ R = q + raw /\ raw = R % (top + 1) /\ raw \in 0 .. top
    <3>1. PICK n \in Nat \ {0} : n = top + 1
      OBVIOUS
    <3>2. PICK j, q, raw \in Int : j = R \div n /\ q = j * n /\ R = q + raw /\ raw = R % n /\ raw \in 0 .. n - 1
      BY Remainders
    <3>3. raw \in 0 .. top
      BY <3>1, <3>2
    <3> QED BY <3>1, <3>2, <3>3
  <2>2. PICK k2, p2 \in Int : p2 = k2 * span /\ p2 = p1 - Sub * q
    <3>1. Sub * (j * (top + 1)) = j * ((top + 1) * Sub)
      BY Constants
    <3>2. (k1 - j) * span = k1 * span - j * span
      OBVIOUS
    <3> QED BY <1>1, <1>2, <1>9, <2>1, <3>1, <3>2 DEF Span
  <2>3. 2 * Sub * R = 2 * (Sub * q) + 2 * Sub * raw
    BY <2>1, Constants
  <2>4. 2 * (at - ran + p2) + Sub - 2 * Sub * raw \in 0 .. 2 * Sub - 1
    BY <1>10, <2>2, <2>3, Constants
  <2> QED BY <1>1, <1>2, <1>4, <1>8, <1>12, <2>1, <2>2, <2>4
<1> QED BY <1>11, <1>12

\* What schedule gives is a number of ticks ahead, and hits.
LEMMA ScheduleHits ==
    ASSUME NEW t, IsCountdown(t), t.on
    PROVE  C!schedule(t, "zero") \in Nat /\ Hits(t, C!schedule(t, "zero"))
<1>1. PICK raw, k, p \in Int :
          /\ C!rawCounter(t) = raw /\ p = k * Span(t)
          /\ 2 * (t.base * Sub - t.ran + p) + Sub - 2 * Sub * raw \in 0 .. 2 * Sub - 1
          /\ t.top # C!NoTop => raw \in 0 .. t.top
  BY RawCounter
<1>2. PICK top \in Nat : top = t.top /\ top < Wrap
  BY Constants DEF IsCountdown
<1>3. PICK span \in Nat : span = Span(t)
  BY SpanPositive
<1>4. PICK n, m \in Int : n \in Nat /\ C!schedule(t, "zero") = n * Sub /\ n = raw + m * (top + 1)
  <2>1. CASE top # C!NoTop
    <3>1. C!schedule(t, "zero") = (raw % Wrap) * Sub
      BY <1>1, <1>2, <2>1 DEF IsCountdown, C!schedule
    <3>2. raw % Wrap = raw
      BY <1>1, <1>2, <2>1, Constants
    <3>3. raw = raw + 0 * (top + 1)
      OBVIOUS
    <3>4. raw \in Nat /\ C!schedule(t, "zero") = raw * Sub
      BY <1>1, <1>2, <2>1, <3>1, <3>2
    <3>5. raw \in Int /\ 0 \in Int
      BY <1>1
    <3> QED BY <3>3, <3>4, <3>5, Zenon
  <2>2. CASE top = C!NoTop
    <3>1. PICK w \in Nat \ {0} : w = Wrap
      BY Constants
    <3>2. PICK x \in Int : x = top + 1 + raw
      OBVIOUS
    <3>3. C!schedule(t, "zero") = (x % w) * Sub
      BY <1>1, <1>2, <2>2, <3>1, <3>2 DEF IsCountdown, C!schedule
    <3>4. PICK j, q, r \in Int : j = x \div w /\ q = j * w /\ x = q + r /\ r = x % w /\ r \in 0 .. w - 1
      BY Remainders
    <3>5. top + 1 = w
      BY <2>2, <3>1, <1>2, Constants DEF C!NoTop
    <3>6. (1 - j) * w = w - q
      BY <3>4
    <3>7. r = raw + (1 - j) * (top + 1)
      BY <3>2, <3>4, <3>5, <3>6
    <3>8. C!schedule(t, "zero") = r * Sub
      BY <3>3, <3>4
    <3>9. PICK m \in Int : m = 1 - j
      OBVIOUS
    <3>10. r = raw + m * (top + 1)
      BY <3>7, <3>9
    <3>11. r \in Nat
      BY <3>1, <3>4
    <3> QED BY <3>8, <3>10, <3>11, Zenon
  <2> QED BY <2>1, <2>2
<1>5. PICK base \in Int, ran \in Nat : base = t.base /\ ran = t.ran
  BY DEF IsCountdown
<1>6. PICK at, due, y \in Int : at = base * Sub /\ due = n * Sub /\ y = raw * Sub
  <2>1. base * Sub \in Int /\ n * Sub \in Int /\ raw * Sub \in Int
    BY Constants
  <2> QED BY <2>1
<1>7. due = y + m * span
  <2>1. (raw + m * (top + 1)) * Sub = raw * Sub + m * ((top + 1) * Sub)
    BY Constants
  <2> QED BY <1>2, <1>3, <1>4, <1>6, <2>1 DEF Span
<1>8. PICK q, mq \in Int : mq = m * span /\ q = p + mq
  OBVIOUS
<1>9. q = (k + m) * span
  <2>1. (k + m) * span = k * span + m * span
    OBVIOUS
  <2> QED BY <1>1, <1>3, <1>8, <2>1
<1>10. 2 * Sub * raw = 2 * y
  BY <1>6, Constants
<1>11. 2 * (at - ran - due + q) + Sub \in 0 .. 2 * Sub - 1
  <2>1. PICK z \in Int : z = 2 * (at - ran + p) + Sub - 2 * y
    BY Constants
  <2>2. z \in 0 .. 2 * Sub - 1
    BY <1>1, <1>5, <1>6, <1>10, <2>1
  <2>3. 2 * (at - ran - due + q) + Sub = z
    BY <1>7, <1>8, <2>1, Constants
  <2> QED BY <2>2, <2>3
<1>12. due \in Nat
  BY <1>4, <1>6, Constants
<1> QED BY <1>3, <1>4, <1>5, <1>6, <1>9, <1>11, <1>12 DEF Hits

\* A timer that counts and hits has its alarm as Aims has it.
LEMMA CountingAims == ASSUME NEW t, Counting(t) PROVE C!Aims(t)
<1> SUFFICES ASSUME t.on PROVE C!Aims(t)
  BY DEF C!Aims
<1>1. IsCountdown(t) /\ Aimed(t)
  BY DEF Counting
<1>2. t.armed["zero"] => (t.due["zero"] # Never <=> (t.top = C!NoTop \/ t.target["zero"] <= t.top))
  BY <1>1, Constants DEF Aimed, IsCountdown
<1>3. C!Cycle(t) = Span(t)
  BY <1>1, Constants DEF C!Cycle, C!NoTop, Span, IsCountdown
<1>4. ASSUME t.due["zero"] # Never
      PROVE  (2 * (C!place(t) - t.due["zero"] - t.target["zero"] * Sub) + Sub) % (2 * C!Cycle(t)) \in 0 .. 2 * Sub
  <2>1. PICK k, p \in Int :
            p = k * Span(t) /\ 2 * (t.base * Sub - t.ran - t.due["zero"] + p) + Sub \in 0 .. 2 * Sub - 1
    BY <1>1, <1>4 DEF Aimed, Hits
  <2>2. PICK span \in Nat \ {0} : span = Span(t) /\ span >= Sub
    BY <1>1, SpanPositive
  <2>3. PICK x, v, due \in Int :
            /\ x = t.base * Sub - t.ran /\ due = t.due["zero"]
            /\ v = 2 * (x - due + p) + Sub /\ v \in 0 .. 2 * Sub - 1
    <3>1. t.base * Sub - t.ran \in Int /\ t.due["zero"] \in Int
      BY <1>1, <1>4, Constants DEF IsCountdown
    <3> QED BY <2>1, <3>1, Constants
  <2>4. PICK n \in Nat \ {0} : n = 2 * span
    OBVIOUS
  <2>5. v \in 0 .. n - 1
    BY <2>2, <2>3, <2>4, Constants
  <2>6. PICK j \in Int : j = -k
    OBVIOUS
  <2>7. j * n = -(2 * p)
    BY <2>1, <2>2, <2>4, <2>6
  <2>8. (v + j * n) % n = v
    BY <2>5, RemainderIs
  <2>9. v + j * n = 2 * (x - due) + Sub
    <3>1. v - 2 * p = 2 * (x - due) + Sub
      BY <2>3, Constants
    <3>2. PICK jn \in Int : jn = j * n
      OBVIOUS
    <3> QED BY <2>7, <3>1, <3>2
  <2>10. C!place(t) = x /\ t.target["zero"] * Sub = 0
    BY <1>1, <2>3, Constants DEF C!place, IsCountdown
  <2>11. 2 * (C!place(t) - t.due["zero"] - t.target["zero"] * Sub) + Sub = v + j * n
    BY <2>3, <2>9, <2>10
  <2>12. 2 * C!Cycle(t) = n
    BY <1>3, <2>2, <2>4
  <2>13. v \in 0 .. 2 * Sub
    BY <2>3, Constants
  <2> QED BY <2>8, <2>11, <2>12, <2>13, Zenon
<1> QED BY <1>1, <1>2, <1>4 DEF C!Aims, IsCountdown

LEMMA UpdatedCounts ==
    ASSUME NEW t, IsCountdown(t) PROVE Counting(C!updated(t)) /\ SameTimer(C!updated(t), t)
<1> DEFINE u1 == C!updated(t)
<1>1. u1 = [t EXCEPT !.due = [a \in {"zero"} |-> C!dueOf(t, a)]]
  BY DEF C!updated
<1>2. C!dueOf(t, "zero") = IF t.armed["zero"] /\ t.on THEN C!schedule(t, "zero") ELSE Never
  BY DEF C!dueOf
<1>3. t.on => C!schedule(t, "zero") \in Nat /\ Hits(t, C!schedule(t, "zero"))
  BY ScheduleHits
<1>4. C!dueOf(t, "zero") \in Int \cup {Never}
  BY <1>2, <1>3
<1>5. u1.due["zero"] = C!dueOf(t, "zero") /\ SameTimer(u1, t)
  BY <1>1 DEF IsCountdown, TimerFields, SameTimer
<1>6. IsCountdown(u1)
  BY <1>1, <1>4 DEF IsCountdown, TimerFields
<1> HIDE DEF u1
<1>7. Aimed(u1)
  <2> SUFFICES ASSUME u1.on
               PROVE  /\ u1.armed["zero"] <=> u1.due["zero"] # Never
                      /\ u1.due["zero"] # Never => Hits(u1, u1.due["zero"])
    BY DEF Aimed
  <2>1. t.on /\ u1.due["zero"] = IF t.armed["zero"] THEN C!schedule(t, "zero") ELSE Never
    BY <1>2, <1>5 DEF SameTimer
  <2>2. C!schedule(t, "zero") # Never
    BY <1>3, <2>1, Constants
  <2>3. Hits(t, C!schedule(t, "zero")) => Hits(u1, C!schedule(t, "zero"))
    BY <1>5 DEF Hits, SameTimer, Span
  <2> QED BY <1>3, <1>5, <2>1, <2>2, <2>3 DEF SameTimer
<1> QED BY <1>5, <1>6, <1>7 DEF Counting, u1

LEMMA CounterInt == ASSUME NEW t, IsCountdown(t) PROVE C!counter(t) \in Int
<1>1. PICK raw \in Int : C!rawCounter(t) = raw
  <2>1. CASE t.on
    BY <2>1, RawCounter
  <2>2. CASE ~t.on
    BY <2>2 DEF C!rawCounter, IsCountdown
  <2> QED BY <2>1, <2>2
<1>2. C!counter(t) = raw % Wrap
  BY <1>1 DEF C!counter, IsCountdown
<1> QED BY <1>2, Constants

LEMMA SetCounts ==
    ASSUME NEW t, IsCountdown(t), NEW value \in Int
    PROVE  Counting(C!set(t, value)) /\ C!set(t, value).on = t.on
<1> DEFINE m == [t EXCEPT !.base = value, !.ran = 0]
<1>1. IsCountdown(m) /\ m.on = t.on
  BY DEF IsCountdown, TimerFields
<1>2. C!set(t, value) = C!updated(m)
  BY DEF C!set
<1> HIDE DEF m
<1> QED BY <1>1, <1>2, UpdatedCounts DEF SameTimer

LEMMA EnableCounts ==
    ASSUME NEW t, Counting(t), NEW on \in BOOLEAN
    PROVE  Counting(C!setEnable(t, on)) /\ C!setEnable(t, on).on = on
<1>1. CASE on = t.on
  BY <1>1 DEF C!setEnable
<1>2. CASE on # t.on
  <2> DEFINE m == [t EXCEPT !.on = on, !.base = IF on THEN t.base ELSE C!counter(t), !.ran = 0]
  <2>1. C!counter(t) \in Int
    BY CounterInt DEF Counting
  <2>2. IsCountdown(m) /\ m.on = on
    BY <2>1 DEF IsCountdown, TimerFields, Counting
  <2>3. C!setEnable(t, on) = C!updated(m)
    BY <1>2 DEF C!setEnable
  <2> HIDE DEF m
  <2> QED BY <2>2, <2>3, UpdatedCounts DEF SameTimer
<1> QED BY <1>1, <1>2

LEMMA ArmedCounts ==
    ASSUME NEW t, Counting(t), NEW armed \in BOOLEAN
    PROVE  Counting(C!setArmed(t, "zero", armed))
<1>1. CASE armed = t.armed["zero"]
  BY <1>1 DEF C!setArmed
<1>2. CASE armed # t.armed["zero"]
  <2> DEFINE m == [t EXCEPT !.armed["zero"] = armed]
             n == [m EXCEPT !.due["zero"] = C!dueOf(m, "zero")]
  <2>1. IsCountdown(m) /\ m.armed["zero"] = armed /\ m.on = t.on
    BY DEF IsCountdown, TimerFields, Counting
  <2>2. C!setArmed(t, "zero", armed) = n
    BY <1>2 DEF C!setArmed
  <2> HIDE DEF m
  <2>3. C!dueOf(m, "zero") = IF m.armed["zero"] /\ m.on THEN C!schedule(m, "zero") ELSE Never
    BY DEF C!dueOf
  <2>4. C!updated(m) = n
    <3>1. [a \in {"zero"} |-> C!dueOf(m, a)] = [m.due EXCEPT !["zero"] = C!dueOf(m, "zero")]
      BY <2>1 DEF IsCountdown
    <3> QED BY <3>1, <2>1 DEF C!updated, IsCountdown, TimerFields
  <2> QED BY <2>1, <2>2, <2>4, UpdatedCounts
<1> QED BY <1>1, <1>2

\* After the callback: the alarm is scheduled again when it should be.
LEMMA AgainCounts ==
    ASSUME NEW t, IsCountdown(t), t.on /\ ~t.armed["zero"] => t.due["zero"] = Never
    PROVE  Counting(C!again(t, "zero"))
<1>1. CASE t.armed["zero"] /\ t.on
  <2> DEFINE n == [t EXCEPT !.due["zero"] = C!schedule(t, "zero")]
  <2>1. C!again(t, "zero") = n
    BY <1>1 DEF C!again
  <2>2. C!updated(t) = n
    <3>1. [a \in {"zero"} |-> C!dueOf(t, a)] = [t.due EXCEPT !["zero"] = C!schedule(t, "zero")]
      BY <1>1 DEF IsCountdown, C!dueOf
    <3> QED BY <3>1 DEF C!updated, IsCountdown, TimerFields
  <2> QED BY <2>1, <2>2, UpdatedCounts
<1>2. CASE ~(t.armed["zero"] /\ t.on)
  <2>1. C!again(t, "zero") = t
    BY <1>2 DEF C!again
  <2> QED BY <1>2, <2>1 DEF Counting, Aimed
<1> QED BY <1>1, <1>2

LEMMA TakenCounts ==
    ASSUME NEW t, IsCountdown(t)
    PROVE  IsCountdown(C!taken(t, "zero")) /\ C!taken(t, "zero").due["zero"] = Never
BY DEF IsCountdown, TimerFields, C!taken

\* A unit of time moves the place and the alarm alike.
LEMMA PassCounts == ASSUME NEW t, Counting(t) PROVE Counting(C!pass(t))
<1>1. CASE ~t.on
  BY <1>1 DEF C!pass
<1>2. CASE t.on
  <2>1. PICK span \in Nat \ {0} : span = Span(t)
    BY SpanPositive DEF Counting
  <2>2. PICK ran \in Nat : ran = t.ran
    BY DEF Counting, IsCountdown
  <2>3. PICK x \in Nat : x = ran + 1
    OBVIOUS
  <2>4. PICK k, p, r \in Int : k = x \div span /\ p = k * span /\ x = p + r /\ r = x % span /\ r \in 0 .. span - 1
    BY Remainders
  <2> DEFINE m == C!pass(t)
  <2>5. (IF t.top = C!NoTop THEN Wrap ELSE C!Period(t)) * Sub = span
    BY <2>1, Constants DEF Counting, IsCountdown, C!Period, C!NoTop, Span
  <2>6. m = [t EXCEPT !.ran = r,
                      !.due = [a \in {"zero"} |-> IF t.due[a] = Never THEN Never ELSE t.due[a] - 1]]
    BY <1>2, <2>2, <2>3, <2>4, <2>5 DEF C!pass
  <2>7. t.due["zero"] # Never => t.due["zero"] \in Int /\ t.due["zero"] - 1 # Never
    BY Constants DEF Counting, IsCountdown
  <2>16. PICK d : d = [a \in {"zero"} |-> IF t.due[a] = Never THEN Never ELSE t.due[a] - 1]
    OBVIOUS
  <2>12. /\ DOMAIN d = {"zero"} /\ d["zero"] \in Int \cup {Never}
         /\ d["zero"] = IF t.due["zero"] = Never THEN Never ELSE t.due["zero"] - 1
    BY <2>7, <2>16
  <2>13. m = [t EXCEPT !.ran = r, !.due = d] /\ IsCountdown(t)
    BY <2>6, <2>16 DEF Counting
  <2>14. r \in Nat
    BY <2>4
  <2>8. IsCountdown(m)
    BY <2>12, <2>13, <2>14 DEF IsCountdown, TimerFields
  <2>15. m.ran = r /\ m.base = t.base /\ m.top = t.top /\ m.armed = t.armed /\ m.on = t.on /\ m.due = d
    BY <2>13 DEF IsCountdown, TimerFields
  <2>9. /\ m.ran = r /\ m.base = t.base /\ m.top = t.top /\ m.armed = t.armed /\ m.on
        /\ m.due["zero"] = IF t.due["zero"] = Never THEN Never ELSE t.due["zero"] - 1
    BY <1>2, <2>12, <2>15
  <2> HIDE DEF m
  <2>10. ASSUME t.due["zero"] # Never PROVE Hits(m, m.due["zero"])
    <3>1. PICK j, q \in Int :
              q = j * Span(t) /\ 2 * (t.base * Sub - t.ran - t.due["zero"] + q) + Sub \in 0 .. 2 * Sub - 1
      BY <1>2, <2>10 DEF Counting, Aimed, Hits
    <3>2. PICK at, due \in Int : at = t.base * Sub /\ due = t.due["zero"]
      <4>1. t.base * Sub \in Int
        BY Constants DEF Counting, IsCountdown
      <4> QED BY <2>7, <2>10, <4>1
    <3>3. PICK i, o \in Int : i = j - k /\ o = q - p
      OBVIOUS
    <3>4. o = i * span
      <4>1. (j - k) * span = j * span - k * span
        OBVIOUS
      <4> QED BY <2>1, <2>4, <3>1, <3>3, <4>1
    <3>5. 2 * (at - r - (due - 1) + o) + Sub = 2 * (at - ran - due + q) + Sub
      <4>1. at - r - (due - 1) + o = at - ran - due + q
        <5>1. r = ran + 1 - p /\ o = q - p
          BY <2>3, <2>4, <3>3
        <5> QED BY <5>1
      <4> QED BY <4>1
    <3>6. 2 * (at - r - (due - 1) + o) + Sub \in 0 .. 2 * Sub - 1
      BY <2>2, <3>1, <3>2, <3>5
    <3>7. Span(m) = span /\ m.due["zero"] = due - 1 /\ m.base * Sub = at
      BY <2>1, <2>9, <2>10, <3>2 DEF Span
    <3> QED BY <2>9, <3>4, <3>6, <3>7 DEF Hits
  <2>11. Aimed(m)
    BY <1>2, <2>7, <2>9, <2>10 DEF Aimed, Counting
  <2> QED BY <2>8, <2>11 DEF Counting, m
<1> QED BY <1>1, <1>2

-----------------------------------------------------------------------------
(* Watchdog and SysTick.                                                      *)

WdFields == {"enable", "tickEnable", "reason", "timer"}
TickFields == {"reload", "intEnable", "countFlag", "pending", "timer"}
CountdownInv ==
    /\ DOMAIN wd = WdFields /\ wd = [f \in WdFields |-> wd[f]]
    /\ wd.enable \in BOOLEAN /\ wd.tickEnable \in BOOLEAN
    /\ DOMAIN tick = TickFields /\ tick.reload \in Int
    /\ Counting(wd.timer) /\ Counting(tick.timer)

LEMMA StoppedCounts ==
    ASSUME NEW armed \in BOOLEAN
    PROVE  Counting(C!Stopped("Decrement", armed)) /\ ~C!Stopped("Decrement", armed).on
<1>1. C!NoTop \in 0 .. Wrap - 1
  BY Constants DEF C!NoTop
<1> QED BY <1>1 DEF C!Stopped, Counting, IsCountdown, Aimed, TimerFields

LEMMA CountdownStarts == C!CountdownInit => CountdownInv
<1> SUFFICES ASSUME C!CountdownInit PROVE CountdownInv
  OBVIOUS
<1>1. wd = C!FreshWatchdog /\ tick = C!FreshTick
  BY DEF C!CountdownInit
<1>2. DOMAIN wd = WdFields /\ wd.enable \in BOOLEAN /\ wd.tickEnable \in BOOLEAN /\ Counting(wd.timer)
  BY <1>1, StoppedCounts DEF C!FreshWatchdog, WdFields
<1>3. DOMAIN tick = TickFields /\ tick.reload \in Int
  BY <1>1, Constants DEF C!FreshTick, TickFields
<1>4. PICK m : m = [C!Stopped("Decrement", TRUE) EXCEPT !.top = SysTickTop]
  OBVIOUS
<1>5. Counting(m)
  <2>1. Counting(C!Stopped("Decrement", TRUE)) /\ ~C!Stopped("Decrement", TRUE).on
    BY StoppedCounts
  <2>2. SysTickTop \in 0 .. Wrap - 1
    BY Constants
  <2> QED BY <1>4, <2>1, <2>2 DEF Counting, IsCountdown, Aimed, TimerFields
<1>6. Counting(C!setEnable(m, FALSE))
  BY <1>5, EnableCounts
<1>7. Counting(C!set(C!setEnable(m, FALSE), SysTickTop))
  <2>1. SysTickTop \in Int /\ IsCountdown(C!setEnable(m, FALSE))
    <3>1. SysTickTop \in Int
      BY Constants
    <3> QED BY <1>6, <3>1 DEF Counting
  <2> QED BY <2>1, SetCounts
<1>8. tick.timer = C!set(C!setEnable(m, FALSE), SysTickTop)
  BY <1>1, <1>4 DEF C!FreshTick
<1>9. wd = [f \in WdFields |-> wd[f]]
  BY <1>1 DEF C!FreshWatchdog, WdFields
<1> QED BY <1>2, <1>3, <1>7, <1>8, <1>9 DEF CountdownInv

IsWatchdog(w) ==
    /\ DOMAIN w = WdFields /\ w = [f \in WdFields |-> w[f]]
    /\ w.enable \in BOOLEAN /\ w.tickEnable \in BOOLEAN /\ Counting(w.timer)

LEMMA TriggerCounts ==
    ASSUME NEW reason PROVE IsWatchdog(C!onWatchdogTrigger(reason)) /\ ~C!onWatchdogTrigger(reason).timer.on
<1>1. C!onWatchdogTrigger(reason) = [C!FreshWatchdog EXCEPT !.reason = reason]
  BY DEF C!onWatchdogTrigger
<1> QED BY <1>1, StoppedCounts DEF C!FreshWatchdog, IsWatchdog, WdFields

LEMMA GatedCounts ==
    ASSUME NEW w, IsWatchdog(w), NEW enable \in BOOLEAN, NEW tickEnable \in BOOLEAN
    PROVE  IsWatchdog(C!gated(w, enable, tickEnable))
<1>1. PICK on \in BOOLEAN : on = (enable /\ tickEnable)
  OBVIOUS
<1>2. Counting(C!setArmed(C!setEnable(w.timer, on), "zero", on))
  BY EnableCounts, ArmedCounts DEF IsWatchdog
<1>3. C!gated(w, enable, tickEnable) =
          [w EXCEPT !.enable = enable, !.tickEnable = tickEnable,
                    !.timer = C!setArmed(C!setEnable(w.timer, on), "zero", on)]
  BY <1>1 DEF C!gated
<1> QED BY <1>2, <1>3 DEF IsWatchdog, WdFields

LEMMA CountdownKeeps ==
    CountdownInv /\ [WatchdogNext \/ SysTickNext]_<<wd, tick>> => CountdownInv'
<1> SUFFICES ASSUME CountdownInv, [WatchdogNext \/ SysTickNext]_<<wd, tick>> PROVE CountdownInv'
  OBVIOUS
<1> DEFINE WdSound == IsWatchdog(wd)
           TickSound == DOMAIN tick = TickFields /\ tick.reload \in Int /\ Counting(tick.timer)
<1>1. CountdownInv <=> WdSound /\ TickSound
  BY DEF CountdownInv, IsWatchdog
<1>2. CountdownInv' <=> WdSound' /\ TickSound'
  BY DEF CountdownInv, IsWatchdog
<1>3. WdSound /\ TickSound
  BY <1>1
<1>4. UNCHANGED wd => WdSound'
  BY <1>3
<1>5. UNCHANGED tick => TickSound'
  BY <1>3
<1>6. CASE UNCHANGED <<wd, tick>>
  BY <1>2, <1>4, <1>5, <1>6
<1>7. CASE C!WriteCtrl
  <2>1. PICK enable \in BOOLEAN, trigger \in BOOLEAN :
            LET w == IF trigger THEN C!onWatchdogTrigger("FORCE") ELSE wd
            IN  wd' = C!gated(w, enable, w.tickEnable) /\ UNCHANGED tick
    BY <1>7 DEF C!WriteCtrl
  <2>2. PICK w : w = IF trigger THEN C!onWatchdogTrigger("FORCE") ELSE wd
    OBVIOUS
  <2>3. IsWatchdog(w) /\ w.tickEnable \in BOOLEAN
    BY <1>3, <2>2, TriggerCounts DEF IsWatchdog
  <2>4. IsWatchdog(C!gated(w, enable, w.tickEnable))
    BY <2>3, GatedCounts
  <2> QED BY <1>2, <1>5, <2>1, <2>2, <2>4
<1>8. CASE C!WriteTick
  <2>1. PICK tickEnable \in BOOLEAN : wd' = C!gated(wd, wd.enable, tickEnable) /\ UNCHANGED tick
    BY <1>8 DEF C!WriteTick
  <2>2. wd.enable \in BOOLEAN
    BY <1>3 DEF IsWatchdog
  <2>3. IsWatchdog(C!gated(wd, wd.enable, tickEnable))
    BY <1>3, <2>2, GatedCounts
  <2> QED BY <1>2, <1>5, <2>1, <2>3
<1>9. CASE C!WriteLoad
  <2>1. PICK value \in Loads : wd' = [wd EXCEPT !.timer = C!set(wd.timer, value)] /\ UNCHANGED tick
    BY <1>9 DEF C!WriteLoad
  <2>2. value \in Int /\ IsCountdown(wd.timer)
    BY <1>3, Constants DEF IsWatchdog, Counting
  <2>3. Counting(C!set(wd.timer, value))
    BY <2>2, SetCounts
  <2>4. WdSound'
    BY <1>3, <2>1, <2>3 DEF IsWatchdog, WdFields
  <2> QED BY <1>2, <1>5, <2>1, <2>4
<1>10. CASE C!Bite
  <2>1. /\ wd' = [C!onWatchdogTrigger("TIMER") EXCEPT !.timer = C!again(@, "zero")]
        /\ UNCHANGED tick
    BY <1>10 DEF C!Bite
  <2>2. PICK w : w = C!onWatchdogTrigger("TIMER")
    OBVIOUS
  <2>3. IsWatchdog(w) /\ ~w.timer.on
    BY <2>2, TriggerCounts
  <2>4. C!again(w.timer, "zero") = w.timer
    BY <2>3 DEF C!again
  <2>5. WdSound'
    BY <2>1, <2>2, <2>3, <2>4 DEF IsWatchdog, WdFields
  <2> QED BY <1>2, <1>5, <2>1, <2>5
<1>11. CASE C!WriteSystCsr
  <2>1. PICK intEnable \in BOOLEAN, enable \in BOOLEAN :
            /\ tick' = [tick EXCEPT !.intEnable = intEnable, !.timer = C!setEnable(tick.timer, enable)]
            /\ UNCHANGED wd
    BY <1>11 DEF C!WriteSystCsr
  <2>2. Counting(C!setEnable(tick.timer, enable))
    BY <1>3, EnableCounts
  <2>3. TickSound'
    BY <1>3, <2>1, <2>2 DEF TickFields
  <2> QED BY <1>2, <1>4, <2>1, <2>3
<1>12. CASE C!ReadSystCsr \/ C!TakeSysTick
  BY <1>2, <1>3, <1>4, <1>12 DEF C!ReadSystCsr, C!TakeSysTick, TickFields
<1>13. CASE C!WriteCvr
  <2>1. tick' = [tick EXCEPT !.timer = C!set(tick.timer, 0)] /\ UNCHANGED wd
    BY <1>13 DEF C!WriteCvr
  <2>2. Counting(C!set(tick.timer, 0))
    BY <1>3, SetCounts DEF Counting
  <2>3. TickSound'
    BY <1>3, <2>1, <2>2 DEF TickFields
  <2> QED BY <1>2, <1>4, <2>1, <2>3
<1>14. CASE C!WriteRvr
  BY <1>2, <1>3, <1>4, <1>14, Constants DEF C!WriteRvr, TickFields
<1>15. CASE C!systickAlarm
  <2>1. PICK t : t = C!set(C!taken(tick.timer, "zero"), tick.reload)
    OBVIOUS
  <2>2. /\ tick' = [tick EXCEPT !.countFlag = TRUE, !.pending = @ \/ tick.intEnable,
                                !.timer = C!again(t, "zero")]
        /\ UNCHANGED wd
    BY <1>15, <2>1 DEF C!systickAlarm
  <2>3. Counting(t)
    <3>1. IsCountdown(C!taken(tick.timer, "zero")) /\ tick.reload \in Int
      BY <1>3, TakenCounts DEF Counting
    <3> QED BY <2>1, <3>1, SetCounts
  <2>4. Counting(C!again(t, "zero"))
    BY <2>3, AgainCounts DEF Counting, Aimed
  <2>5. TickSound'
    BY <1>3, <2>2, <2>4 DEF TickFields
  <2> QED BY <1>2, <1>4, <2>2, <2>5
<1>16. CASE C!TimePasses
  <2>1. wd' = [wd EXCEPT !.timer = C!pass(wd.timer)] /\ tick' = [tick EXCEPT !.timer = C!pass(tick.timer)]
    BY <1>16 DEF C!TimePasses
  <2>2. Counting(C!pass(wd.timer)) /\ Counting(C!pass(tick.timer))
    BY <1>3, PassCounts DEF IsWatchdog
  <2>3. WdSound'
    BY <1>3, <2>1, <2>2 DEF IsWatchdog, WdFields
  <2>4. TickSound'
    BY <1>3, <2>1, <2>2 DEF TickFields
  <2> QED BY <1>2, <2>3, <2>4
<1> QED
  BY <1>6, <1>7, <1>8, <1>9, <1>10, <1>11, <1>12, <1>13, <1>14, <1>15, <1>16
     DEF WatchdogNext, SysTickNext, C!WatchdogWrites, C!SysTickWrites

\* The alarms of the watchdog and of SysTick lead to the moment at which their
\* counters are 0, for counters, loads and ticks of any size, whatever is written
\* between two ticks and however the count is rounded (Timer32PeriodicAlarm.schedule).
THEOREM CountdownsAim == Spec => []CountdownAims
<1>1. Init => CountdownInv
  BY CountdownStarts DEF Init
<1>2. CountdownInv /\ [Next]_vars => CountdownInv'
  <2>1. [Next]_vars => [WatchdogNext \/ SysTickNext]_<<wd, tick>>
    BY DEF Next, ControllerNext, vars
  <2> QED BY <2>1, CountdownKeeps
<1>3. CountdownInv => CountdownAims
  BY CountingAims DEF CountdownInv, CountdownAims, C!CountdownAims
<1> QED BY <1>1, <1>2, <1>3, PTL DEF Spec
=============================================================================

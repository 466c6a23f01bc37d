----------------------------- MODULE UsbDevice ------------------------------
(***************************************************************************)
(* The USB controller in device mode (src/peripherals/usb.ts), with the    *)
(* host that USBCDC plays for it (src/usb/cdc.ts), and firmware with a CDC *)
(* serial port.                                                            *)
(*                                                                         *)
(* u holds the fields of both objects; a handler is a function from the    *)
(* record before it to the record after it.  A packet on endpoint 0 is its *)
(* length; a packet on the serial endpoint is the sequence of its bytes,   *)
(* which are numbered in the order they were sent.                         *)
(***************************************************************************)
EXTENDS Naturals, Sequences, FiniteSets, SequencesExt, FiniteSetsExt

CONSTANTS
    MaxPacket,          \* bytes of a packet (64)
    HeaderSize,         \* CONFIGURATION_DESCRIPTOR_SIZE
    DescriptorSizes,    \* the sizes a configuration descriptor may have
    TxSize,             \* TX_FIFO_SIZE
    MaxBytes            \* bound: bytes sent in either direction

ASSUME UsbDeviceAssumption ==
    /\ MaxPacket \in Nat /\ HeaderSize \in Nat /\ TxSize \in Nat /\ MaxBytes \in Nat
    /\ DescriptorSizes \subseteq Nat
    /\ 1 < HeaderSize /\ HeaderSize < MaxPacket /\ \A n \in DescriptorSizes : n > HeaderSize

VARIABLES
    u,      \* RPUSBController and USBCDC
    fw,     \* the firmware
    sent    \* bytes given to sendSerialByte and not refused

usbVars == <<u, fw, sent>>

Serial == 1                         \* the number of both bulk endpoints
In(ep) == <<ep, "in">>
Out(ep) == <<ep, "out">>

UsbInit ==
    /\ u = [sieStatus |-> {}, intRaw |-> {}, buffStatus |-> {}, setupPacket |-> <<>>,
            outBuffer |-> <<>>, resetAlarm |-> FALSE,
            zeroWrites |-> <<>>, serialWrites |-> <<>>,   \* endpointWriteAlarms[].buffers
            reads |-> <<>>, readAlarm |-> FALSE,          \* endpointReadAlarms[Serial]
            txFIFO |-> <<>>, initialized |-> FALSE, descriptorsSize |-> 0,
            descriptors |-> 0, endpoints |-> FALSE, serialData |-> <<>>]
    /\ \E n \in DescriptorSizes :
          fw = [size |-> n, on |-> FALSE, read |-> <<>>, setups |-> <<>>, left |-> 0,
                configured |-> FALSE, connected |-> FALSE, writing |-> FALSE,
                written |-> 0, pairs |-> {}, got |-> <<>>]
    /\ sent = 0

-----------------------------------------------------------------------------
(* The controller. *)

\* The interrupts follow the status bits.
sieStatusUpdated(s) ==
    [s EXCEPT !.intRaw = (@ \cap {"BUFF_STATUS"}) \cup s.sieStatus]

buffStatusUpdated(s) ==
    [s EXCEPT !.intRaw = (@ \ {"BUFF_STATUS"})
                         \cup (IF s.buffStatus = {} THEN {} ELSE {"BUFF_STATUS"})]

sendSetupPacket(s, packet) ==
    sieStatusUpdated([s EXCEPT !.setupPacket = packet, !.sieStatus = @ \cup {"SETUP_REC"}])

indicateBufferReady(s, buffer) ==
    buffStatusUpdated([s EXCEPT !.buffStatus = @ \cup {buffer}])

\* onEndpointRead: the host has a packet for the buffer at once, which may be empty.
onEndpointRead(s, ep, size) ==
    IF ep # Serial \/ ~s.endpoints THEN s
    ELSE LET n == Min({size, Len(s.txFIFO)})
         IN  [s EXCEPT !.txFIFO = SubSeq(@, n + 1, Len(@)),
                       !.reads = Append(@, SubSeq(s.txFIFO, 1, n)),
                       !.readAlarm = TRUE]

finishRead(s, packet, size) ==
    indicateBufferReady([s EXCEPT !.outBuffer = SubSeq(packet, 1, Min({size, Len(packet)}))],
                        Out(Serial))

Written(s, ep, packet) ==
    LET t == indicateBufferReady(s, In(ep))
    IN  IF ep = 0 THEN [t EXCEPT !.zeroWrites = Append(@, packet)]
        ELSE [t EXCEPT !.serialWrites = Append(@, packet)]

Available(s, buffer, packet) ==
    IF buffer[2] = "out" THEN onEndpointRead(s, buffer[1], packet)
    ELSE Written(s, buffer[1], packet)

\* DPRAMUpdated: the write that makes buffers available, one or two of them.  Of
\* two, the second one goes first.
DPRAMUpdated(s, buffer, packets) ==
    IF Len(packets) = 1 THEN Available(s, buffer, packets[1])
    ELSE Available(Available(s, buffer, packets[2]), buffer, packets[1])

-----------------------------------------------------------------------------
(* USBCDC.onEndpointWrite, which takes the host through the enumeration. *)

Acknowledged(s) ==
    CASE s.descriptorsSize = 0 -> sendSetupPacket(s, <<"GET_DESCRIPTOR", HeaderSize>>)
      [] s.descriptorsSize # 0 /\ ~s.initialized ->
            [sendSetupPacket(s, <<"SET_CONTROL_LINE_STATE">>) EXCEPT !.initialized = TRUE]
      [] OTHER -> s

\* A packet of the descriptor; size is what its header says.
Described(s, size, n) ==
    LET t == IF n = HeaderSize /\ s.descriptorsSize = 0
             THEN sendSetupPacket([s EXCEPT !.descriptorsSize = size], <<"GET_DESCRIPTOR", size>>)
             ELSE [s EXCEPT !.descriptors = IF @ < s.descriptorsSize THEN @ + n ELSE @]
    IN  IF t.descriptors = t.descriptorsSize
        THEN sendSetupPacket([t EXCEPT !.endpoints = TRUE], <<"SET_CONFIGURATION">>) ELSE t

onEndpointZeroWrite(s, size, n) ==
    CASE n = 0 -> Acknowledged(s) [] n > 1 -> Described(s, size, n) [] n = 1 -> s

-----------------------------------------------------------------------------
(* The alarms. *)

ResetAlarm ==
    /\ u.resetAlarm
    /\ u' = sieStatusUpdated([u EXCEPT !.resetAlarm = FALSE,
                                       !.sieStatus = @ \cup {"BUS_RESET"}])
    /\ UNCHANGED <<fw, sent>>

\* The objects when the first i packets are with the host.
Handed[i \in 0 .. Len(u.zeroWrites)] ==
    IF i = 0 THEN u ELSE onEndpointZeroWrite(Handed[i - 1], fw.size, u.zeroWrites[i])

\* Mistake: the packets stay in the list.
ZeroWriteAlarmKeeps ==
    /\ u.zeroWrites # <<>>
    /\ u' = Handed[Len(u.zeroWrites)]
    /\ UNCHANGED <<fw, sent>>

\* The write alarm of endpoint 0 hands over every packet.
ZeroWriteAlarm ==
    /\ u.zeroWrites # <<>>
    /\ u' = [Handed[Len(u.zeroWrites)] EXCEPT !.zeroWrites = <<>>]
    /\ UNCHANGED <<fw, sent>>

SerialWriteAlarm ==
    /\ u.serialWrites # <<>>
    /\ u' = [u EXCEPT !.serialData = IF u.endpoints THEN @ \o FlattenSeq(u.serialWrites) ELSE @,
                      !.serialWrites = <<>>]
    /\ UNCHANGED <<fw, sent>>

\* The read alarm delivers one packet.
ReadAlarm ==
    /\ u.readAlarm
    /\ u' = finishRead([u EXCEPT !.readAlarm = FALSE, !.reads = Tail(@)],
                       Head(u.reads), MaxPacket)
    /\ UNCHANGED <<fw, sent>>

sendSerialByte ==
    /\ sent < MaxBytes
    /\ IF Len(u.txFIFO) = TxSize THEN UNCHANGED usbVars
       ELSE u' = [u EXCEPT !.txFIFO = Append(@, sent + 1)] /\ sent' = sent + 1
    /\ UNCHANGED fw

-----------------------------------------------------------------------------
(* The firmware: its interrupt handler, which reads INTS and handles one bit of *)
(* it per step, and its main loop.                                              *)

\* MAIN_CTRL: onUSBEnabled, resetDevice.
WriteMainCtrl ==
    /\ ~fw.on
    /\ fw' = [fw EXCEPT !.on = TRUE]
    /\ u' = [u EXCEPT !.resetAlarm = TRUE]
    /\ UNCHANGED sent

\* SIE_STATUS, a 1 at BUS_RESET: onResetReceived sends the first setup packet.
ClearBusReset ==
    /\ "BUS_RESET" \in u.intRaw
    /\ LET s == sendSetupPacket([u EXCEPT !.sieStatus = @ \ {"BUS_RESET"}], <<"SET_ADDRESS">>)
       IN  u' = sieStatusUpdated([s EXCEPT !.sieStatus = @ \cup {"CONNECTED"}])
    /\ UNCHANGED <<fw, sent>>

\* The handler reads the setup packet from the DPRAM and then clears its bit.
ReadSetupPacket ==
    /\ "SETUP_REC" \in u.intRaw /\ fw.read = <<>>
    /\ fw' = [fw EXCEPT !.read = u.setupPacket]
    /\ UNCHANGED <<u, sent>>

ClearSetupRec ==
    /\ fw.read # <<>>
    /\ fw' = [fw EXCEPT !.read = <<>>, !.setups = Append(@, fw.read)]
    /\ u' = sieStatusUpdated([u EXCEPT !.sieStatus = @ \ {"SETUP_REC"}])
    /\ UNCHANGED sent

ClearConnected ==
    /\ "CONNECTED" \in u.intRaw
    /\ u' = sieStatusUpdated([u EXCEPT !.sieStatus = @ \ {"CONNECTED"}])
    /\ UNCHANGED <<fw, sent>>

\* What comes with the next packet of the descriptor.
NextPacket == Min({fw.left, MaxPacket})

Cleared(buffer) == buffStatusUpdated([u EXCEPT !.buffStatus = @ \ {buffer}])

\* BUFF_STATUS, a 1 at the buffer, and what the handler does with the buffer.
ZeroInDone ==
    /\ In(0) \in u.buffStatus
    /\ u' = IF fw.left > 0 THEN DPRAMUpdated(Cleared(In(0)), In(0), <<NextPacket>>)
            ELSE DPRAMUpdated(Cleared(In(0)), Out(0), <<0>>)
    /\ fw' = [fw EXCEPT !.left = @ - NextPacket]
    /\ UNCHANGED sent

SerialInDone ==
    /\ In(Serial) \in u.buffStatus
    /\ u' = Cleared(In(Serial))
    /\ fw' = [fw EXCEPT !.writing = FALSE]
    /\ UNCHANGED sent

SerialOutDone ==
    /\ Out(Serial) \in u.buffStatus
    /\ fw' = [fw EXCEPT !.got = @ \o u.outBuffer]
    /\ u' = DPRAMUpdated(Cleared(Out(Serial)), Out(Serial), <<MaxPacket>>)
    /\ UNCHANGED sent

\* The main loop answers a setup packet.
AnswerSetup ==
    /\ fw.setups # <<>>
    /\ LET packet == Head(fw.setups)
           f == [fw EXCEPT !.setups = Tail(@)]
       IN  CASE packet[1] = "GET_DESCRIPTOR" ->
                    LET n == Min({packet[2], MaxPacket})
                    IN  /\ u' = DPRAMUpdated(u, In(0), <<n>>)
                        /\ fw' = [f EXCEPT !.left = packet[2] - n]
             [] packet[1] = "SET_CONFIGURATION" ->
                    /\ u' = DPRAMUpdated(DPRAMUpdated(u, Out(Serial), <<MaxPacket>>), In(0), <<0>>)
                    /\ fw' = [f EXCEPT !.configured = TRUE]
             [] packet[1] = "SET_CONTROL_LINE_STATE" ->
                    u' = DPRAMUpdated(u, In(0), <<0>>) /\ fw' = [f EXCEPT !.connected = TRUE]
             [] packet[1] = "SET_ADDRESS" ->
                    u' = DPRAMUpdated(u, In(0), <<0>>) /\ fw' = f
    /\ UNCHANGED sent

\* It writes to the serial port, one buffer or two of them.
WriteSerial ==
    /\ fw.connected /\ ~fw.writing
    /\ \E n \in 1 .. 2 :
          /\ fw.written + n <= MaxBytes
          /\ u' = DPRAMUpdated(u, In(Serial), [i \in 1 .. n |-> <<fw.written + i>>])
          /\ fw' = [fw EXCEPT !.writing = TRUE, !.written = @ + n,
                              !.pairs = IF n = 2 THEN @ \cup {fw.written + 1} ELSE @]
    /\ UNCHANGED sent

UsbNext ==
    \/ ResetAlarm \/ ZeroWriteAlarm \/ SerialWriteAlarm \/ ReadAlarm \/ sendSerialByte
    \/ WriteMainCtrl \/ ClearBusReset \/ ReadSetupPacket \/ ClearSetupRec \/ ClearConnected
    \/ ZeroInDone \/ SerialInDone \/ SerialOutDone \/ AnswerSetup \/ WriteSerial

\* The clock reaches every alarm; the firmware takes its interrupts and comes
\* round its main loop.
BusFairness ==
    /\ WF_usbVars(ResetAlarm) /\ WF_usbVars(ZeroWriteAlarm)
    /\ WF_usbVars(SerialWriteAlarm) /\ WF_usbVars(ReadAlarm)
    /\ WF_usbVars(ClearBusReset)
    /\ WF_usbVars(ReadSetupPacket) /\ WF_usbVars(ClearSetupRec)
    /\ WF_usbVars(ZeroInDone) /\ WF_usbVars(SerialOutDone) /\ WF_usbVars(AnswerSetup)
UsbFairness == WF_usbVars(WriteMainCtrl) /\ BusFairness

UsbSpec == UsbInit /\ [][UsbNext]_usbVars /\ UsbFairness

-----------------------------------------------------------------------------
(* Properties. *)

\* What sendSerialByte took reaches the firmware once and in order.
ToDevice ==
    fw.got \o (IF Out(Serial) \in u.buffStatus THEN u.outBuffer ELSE <<>>)
           \o FlattenSeq(u.reads) \o u.txFIFO = [i \in 1 .. sent |-> i]

\* What the firmware writes reaches onSerialData once, and in order but for two
\* buffers that were made available together, which are swapped.
FromDevice ==
    LET flow == u.serialData \o FlattenSeq(u.serialWrites)
    IN  /\ Len(flow) = fw.written
        /\ \A i \in 1 .. fw.written :
              flow[i] = CASE i \in fw.pairs -> i + 1
                          [] i - 1 \in fw.pairs -> i - 1
                          [] OTHER -> i

SerialIntact == ToDevice /\ FromDevice

\* The host does not overwrite a setup packet the firmware has not taken.
SetupPacketKept ==
    [][u'.setupPacket # u.setupPacket => "SETUP_REC" \notin u.sieStatus]_usbVars

\* The serial port comes up, unless the last packet of the descriptor is a single
\* byte, which onEndpointWrite overlooks.
ComesUp == (fw.size % MaxPacket # 1) ~> (fw.configured /\ fw.connected /\ u.endpoints)
=============================================================================

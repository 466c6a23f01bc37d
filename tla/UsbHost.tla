------------------------------ MODULE UsbHost -------------------------------
(***************************************************************************)
(* The USB controller in host mode (src/peripherals/usb.ts), the simulated *)
(* device behind it (src/usb/usb-device.ts), which may be plugged and      *)
(* unplugged at any time, and the firmware of a host: control transfers in *)
(* either direction, and one interrupt endpoint.                           *)
(*                                                                         *)
(* h holds the fields of RPUSBController.  The contents of a packet of the *)
(* control endpoint are left out, its length is kept; the reports of the   *)
(* interrupt endpoint are numbered.                                        *)
(***************************************************************************)
EXTENDS Naturals, Sequences, FiniteSetsExt

CONSTANTS
    Packet,         \* bytes of a packet of the control endpoint
    Responses,      \* the lengths of what the device answers
    MaxReports,     \* bound: reports of the interrupt endpoint
    MaxTransfers,   \* bound: control transfers
    MaxPlugs,       \* bound: how often the device is plugged or unplugged
    None

HostConstants == Packet \in Nat \ {0} /\ Responses \subseteq Nat /\ None \notin Nat \cup {"in"}

VARIABLES
    h,      \* RPUSBController
    dev,    \* the device: the response it is preparing, the reports it has given
    drv     \* the firmware

hostVars == <<h, dev, drv>>

HostInit ==
    /\ h = [hostMode |-> FALSE, connectedDevice |-> FALSE, speed |-> FALSE,
            intRaw |-> {}, sieStatus |-> {}, buffStatus |-> {},
            startTrans |-> FALSE, transactionAlarm |-> FALSE,
            sofEnabled |-> FALSE, sofAlarm |-> FALSE,
            pendingSetupResponse |-> None, expectingStatusPhase |-> FALSE,
            buffer |-> None, intEpCtrl |-> FALSE, address |-> 0,
            intAvailable |-> FALSE, intReport |-> None]
    /\ dev = [reports |-> 0, plugs |-> 0]
    /\ drv = [view |-> FALSE, phase |-> "idle", request |-> None, response |-> 0, asked |-> 0,
              got |-> 0, failed |-> FALSE, transfers |-> 0, reports |-> <<>>]

-----------------------------------------------------------------------------
(* The controller. *)

Transaction == {"TRANS_COMPLETE", "STALL_REC", "RX_TIMEOUT"}

\* sieStatusUpdated: ACK_REC and NAK_REC raise nothing.
sieStatusUpdated(s) ==
    [s EXCEPT !.intRaw = (@ \ Transaction) \cup (s.sieStatus \cap Transaction)]

buffStatusUpdated(s) ==
    [s EXCEPT !.intRaw = IF s.buffStatus = {} THEN @ \ {"BUFF_STATUS"} ELSE @ \cup {"BUFF_STATUS"}]

onDeviceConnected(s) == [s EXCEPT !.speed = TRUE, !.intRaw = @ \cup {"HOST_CONN_DIS"}]

Reply(s, bits) == [s EXCEPT !.sieStatus = @ \cup bits, !.transactionAlarm = TRUE]

\* The device answers at once; the interrupt comes when the alarm fires.  A device that
\* refuses has no response, and the controller does not look at why: it goes on as if
\* the request were a control OUT.
handleSetupTransaction(s, request, response) ==
    Reply([s EXCEPT !.pendingSetupResponse = IF request = "in" THEN response ELSE None,
                    !.expectingStatusPhase = (request # "in" \/ response = None),
                    !.address = IF request = "setAddress" THEN 1 ELSE @],
          {"ACK_REC"})

\* A packet of n bytes for the firmware.
Received(s, n) ==
    Reply(buffStatusUpdated([s EXCEPT !.buffer = n, !.buffStatus = @ \cup {"epx"}]), {"ACK_REC"})

\* Mistake: the response stays for the next IN.
handleInTransactionKeeps(s) ==
    CASE s.expectingStatusPhase -> Received([s EXCEPT !.expectingStatusPhase = FALSE], 0)
      [] ~s.expectingStatusPhase /\ s.pendingSetupResponse # None ->
            Received(s, Min({s.pendingSetupResponse, Packet}))
      [] OTHER -> Reply(s, {"STALL_REC"})

\* What endpoint 0 has: the status, the response (whatever does not fit into the
\* packet is dropped), or else the device is asked, and refuses.
handleInTransaction(s) ==
    CASE s.expectingStatusPhase -> Received([s EXCEPT !.expectingStatusPhase = FALSE], 0)
      [] ~s.expectingStatusPhase /\ s.pendingSetupResponse # None ->
            Received([s EXCEPT !.pendingSetupResponse = None],
                     Min({s.pendingSetupResponse, Packet}))
      [] OTHER -> Reply(s, {"STALL_REC"})

\* A zero-length OUT is the status of a control IN.
handleOutTransaction(s) ==
    buffStatusUpdated([Reply(s, {"ACK_REC"}) EXCEPT !.buffStatus = @ \cup {"epx"}])

\* SIE_CTRL, START_TRANS: without a device the transaction times out at once.
startHostTransaction(s, kind) ==
    LET t == [s EXCEPT !.startTrans = TRUE]
    IN  CASE ~t.connectedDevice ->
                sieStatusUpdated([t EXCEPT !.sieStatus = @ \cup {"RX_TIMEOUT"}])
          [] t.connectedDevice /\ kind = "SETUP" ->
                handleSetupTransaction(t, drv.request, drv.response)
          [] t.connectedDevice /\ kind = "IN" -> handleInTransaction(t)
          [] t.connectedDevice /\ kind = "OUT" -> handleOutTransaction(t)

completeHostTransaction ==
    /\ h.transactionAlarm
    /\ h' = sieStatusUpdated([h EXCEPT !.transactionAlarm = FALSE, !.startTrans = FALSE,
                                       !.sieStatus = @ \cup {"TRANS_COMPLETE"}])
    /\ UNCHANGED <<dev, drv>>

\* The interrupt endpoint is polled: its buffer is free, and the device has the address.
Poll(s) == s.intEpCtrl /\ s.connectedDevice /\ s.address = 1 /\ s.intAvailable

\* The SOF alarm; it fires once more after SOF_EN is cleared.
generateSOF ==
    /\ h.sofAlarm
    /\ LET s == [h EXCEPT !.intRaw = @ \cup {"HOST_SOF"}, !.sofAlarm = h.sofEnabled]
       IN  IF Poll(h) /\ dev.reports < MaxReports
           THEN \/ /\ h' = buffStatusUpdated([s EXCEPT !.intAvailable = FALSE,
                                                       !.intReport = dev.reports + 1,
                                                       !.buffStatus = @ \cup {"int"}])
                   /\ dev' = [dev EXCEPT !.reports = @ + 1]
                \/ h' = s /\ UNCHANGED dev       \* the device has nothing to report
           ELSE h' = s /\ UNCHANGED dev
    /\ UNCHANGED drv

-----------------------------------------------------------------------------
(* The device. *)

connectDevice ==
    /\ ~h.connectedDevice /\ dev.plugs < MaxPlugs
    /\ LET s == [h EXCEPT !.connectedDevice = TRUE, !.address = 0]
       IN  h' = IF h.hostMode THEN onDeviceConnected(s) ELSE s
    /\ dev' = [dev EXCEPT !.plugs = @ + 1]
    /\ UNCHANGED drv

disconnectDevice ==
    /\ h.connectedDevice /\ dev.plugs < MaxPlugs
    /\ h' = IF h.hostMode
            THEN [h EXCEPT !.connectedDevice = FALSE, !.speed = FALSE,
                           !.intRaw = @ \cup {"HOST_CONN_DIS"}]
            ELSE [h EXCEPT !.connectedDevice = FALSE]
    /\ dev' = [dev EXCEPT !.plugs = @ + 1]
    /\ UNCHANGED drv

-----------------------------------------------------------------------------
(* The firmware. *)

\* MAIN_CTRL, written again when the driver starts over.
WriteMainCtrl ==
    /\ ~h.hostMode \/ drv.phase = "idle"
    /\ h' = IF h.connectedDevice THEN onDeviceConnected([h EXCEPT !.hostMode = TRUE])
            ELSE [h EXCEPT !.hostMode = TRUE]
    /\ UNCHANGED <<dev, drv>>

\* SIE_CTRL, SOF_EN.
WriteSofEn ==
    /\ h.hostMode
    /\ h' = IF h.sofEnabled THEN [h EXCEPT !.sofEnabled = FALSE]
            ELSE [h EXCEPT !.sofEnabled = TRUE, !.sofAlarm = TRUE]
    /\ UNCHANGED <<dev, drv>>

\* Reading SIE_STATUS acknowledges HOST_CONN_DIS.
ReadSieStatus ==
    /\ h.hostMode /\ "HOST_CONN_DIS" \in h.intRaw
    /\ h' = [h EXCEPT !.intRaw = @ \ {"HOST_CONN_DIS"}]
    /\ drv' = [drv EXCEPT !.view = h.speed]
    /\ UNCHANGED dev

\* The buffer control of the transaction, and START_TRANS.
Start(phase, kind) ==
    /\ h' = startHostTransaction([h EXCEPT !.buffer = None], kind)
    /\ drv' = [drv EXCEPT !.phase = phase]
    /\ UNCHANGED dev

\* SIE_CTRL, RESET_BUS: the device goes back to address 0.
ResetBus ==
    /\ h.hostMode /\ drv.phase = "idle" /\ h.address # 0
    /\ h' = [h EXCEPT !.address = 0]
    /\ UNCHANGED <<dev, drv>>

\* A control transfer begins: the device has so much to answer, or refuses, and the
\* driver asks for that or for more.
BeginTransfer ==
    /\ h.hostMode /\ drv.view /\ drv.phase = "idle" /\ drv.transfers < MaxTransfers
    /\ \E request \in {"in", "out", "setAddress"}, size \in Responses, more \in 0 .. 1,
          response \in Responses \cup {None} :
          /\ response \in {size, None}
          /\ request # "in" => response = size /\ size + more = Min(Responses)
          /\ drv' = [drv EXCEPT !.phase = "begin", !.request = request, !.response = response,
                                !.asked = size + more, !.got = 0, !.failed = FALSE, !.transfers = @ + 1]
    /\ UNCHANGED <<h, dev>>

StartTransaction ==
    \/ drv.phase = "begin" /\ Start("setup", "SETUP")
    \/ drv.phase = "data?" /\ Start("data", "IN")
    \/ drv.phase = "status?" /\ Start("status", IF drv.request = "in" THEN "OUT" ELSE "IN")

\* The interrupt handler clears what it saw and goes on with the transfer: more data
\* until a short packet or all it asked for.
TransactionDone ==
    LET seen == h.intRaw \cap Transaction
        n == IF h.buffer = None THEN 0 ELSE h.buffer
        all == drv.got + n
        failed == seen # {"TRANS_COMPLETE"}
    IN  /\ seen # {} /\ drv.phase \in {"setup", "data", "status"}
        /\ h' = buffStatusUpdated(sieStatusUpdated(
                    [h EXCEPT !.sieStatus = {}, !.buffStatus = @ \ {"epx"}]))
        /\ drv' = [drv EXCEPT
              !.phase = CASE failed -> "idle"
                          [] ~failed /\ drv.phase = "setup" /\ drv.request = "in" -> "data?"
                          [] ~failed /\ drv.phase = "data" /\ n = Packet /\ all < drv.asked -> "data?"
                          [] ~failed /\ drv.phase = "status" -> "idle"
                          [] OTHER -> "status?",
              !.got = IF drv.phase = "data" THEN all ELSE @,
              !.failed = failed]
        /\ UNCHANGED dev

\* The interrupt endpoint: enabled with its buffer available, read, made available again.
EnableInterruptEndpoint ==
    /\ h.hostMode /\ drv.view /\ ~h.intEpCtrl
    /\ h' = [h EXCEPT !.intEpCtrl = TRUE, !.intAvailable = TRUE]
    /\ UNCHANGED <<dev, drv>>

ReadReport ==
    /\ "int" \in h.buffStatus
    /\ drv' = [drv EXCEPT !.reports = Append(@, h.intReport)]
    /\ h' = buffStatusUpdated([h EXCEPT !.buffStatus = @ \ {"int"}, !.intReport = None,
                                        !.intAvailable = TRUE])
    /\ UNCHANGED dev

HostNext ==
    \/ completeHostTransaction \/ generateSOF \/ connectDevice \/ disconnectDevice
    \/ WriteMainCtrl \/ WriteSofEn \/ ResetBus \/ ReadSieStatus
    \/ BeginTransfer \/ StartTransaction \/ TransactionDone \/ EnableInterruptEndpoint \/ ReadReport

\* The clock reaches the alarm; the firmware takes its interrupts.
HostFairness ==
    WF_hostVars(completeHostTransaction) /\ WF_hostVars(StartTransaction)
        /\ WF_hostVars(TransactionDone) /\ WF_hostVars(ReadSieStatus)

HostSpec == HostInit /\ [][HostNext]_hostVars /\ HostFairness

-----------------------------------------------------------------------------
(* Properties. *)

\* What a control IN has to bring: nothing from a device that refuses.
Whole == IF drv.response = None THEN 0 ELSE drv.response

\* A control IN that ended well brought the whole response: what is dropped of a
\* response longer than a packet does not go unnoticed, and a device that refuses gives
\* the firmware no bytes, what was left of another request included.
ControlWhole ==
    (drv.phase = "idle" /\ ~drv.failed /\ drv.request = "in") => drv.got = Whole

\* Every report reaches the firmware once and in order.
ReportsInOrder ==
    drv.reports \o (IF "int" \in h.buffStatus THEN <<h.intReport>> ELSE <<>>)
        = [i \in 1 .. dev.reports |-> i]

\* What the firmware last read of the port is true, or it is about to be told.
PortSeen ==
    h.hostMode => /\ h.speed = h.connectedDevice
                  /\ drv.view # h.connectedDevice => "HOST_CONN_DIS" \in h.intRaw

\* A control transfer ends, whatever becomes of the device meanwhile.
TransferEnds == (drv.phase = "begin") ~> (drv.phase = "idle")

=============================================================================

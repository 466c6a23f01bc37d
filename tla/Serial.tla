------------------------------- MODULE Serial -------------------------------
(* Three peripherals that move samples or bytes through a FIFO: the SPI       *)
(* (peripherals/spi.ts), the receiver of the UART (peripherals/uart.ts) and   *)
(* the ADC (peripherals/adc.ts).  A byte is its number in the stream.         *)
EXTENDS Integers, Sequences

CONSTANTS FifoDepth,  \* of each FIFO: 8, 32 and 4 in the code
          MaxItems    \* bound on the items of a stream

\* A FIFO holds something.
SerialConstants == FifoDepth \in Nat \ {0}

VARIABLES spi, uart, adc

serialVars == <<spi, uart, adc>>

Room(f) == Len(f) < FifoDepth
Consecutive(f) == \A i \in 1..Len(f) - 1 : f[i + 1] = f[i] + 1

(* ------------------------------------ SPI --------------------------------- *)
Status(d) == d.raw \cap d.enable
interruptsChecked(d) == [d EXCEPT !.line = Status(d) # {}]

\* Mistake: only the DMA hears of it.
fifosUpdatedQuietly(s) ==
    LET raw == (s.raw \ {"TX", "RX"}) \cup (IF 2 * Len(s.tx) <= FifoDepth THEN {"TX"} ELSE {})
                 \cup (IF 2 * Len(s.rx) >= FifoDepth THEN {"RX"} ELSE {})
    IN  [s EXCEPT !.raw = raw, !.dreqTx = Room(s.tx), !.dreqRx = s.rx # <<>>]

fifosUpdated(s) ==
    LET raw == (s.raw \ {"TX", "RX"}) \cup (IF 2 * Len(s.tx) <= FifoDepth THEN {"TX"} ELSE {})
                 \cup (IF 2 * Len(s.rx) >= FifoDepth THEN {"RX"} ELSE {})
        new == [s EXCEPT !.raw = raw]
        told == IF Status(new) # Status(s) THEN interruptsChecked(new) ELSE new
    IN  [told EXCEPT !.dreqTx = Room(s.tx), !.dreqRx = s.rx # <<>>]

pulled(s) == [s EXCEPT !.tx = Tail(s.tx), !.wire = Head(s.tx)]
\* The device answers with the byte it was sent.
answered(s) ==
    fifosUpdated(IF Room(s.rx) THEN [s EXCEPT !.rx = Append(@, s.wire), !.wire = 0]
                 ELSE [s EXCEPT !.raw = @ \cup {"ROR"}, !.wire = 0, !.overrun = TRUE])

\* Mistake: doTX does not look whether a byte is under way.
doTXAnyway(s, k) == IF s.tx # <<>> THEN fifosUpdated(pulled(s)) ELSE s

\* doTX when the device answers the first k bytes inside onTransmit, so that
\* completeTransmit and doTX are on the stack again for each.
doTX(s, k) ==
    LET after[i \in 0..k] == IF i = 0 THEN s ELSE answered(pulled(after[i - 1]))
        last == after[k]
    IN  IF last.wire = 0 /\ last.tx # <<>> THEN fifosUpdated(pulled(last)) ELSE last
AtOnce(s) == IF s.wire = 0 THEN 0..Len(s.tx) ELSE {0}

WriteSSPDR ==
    /\ spi.written < MaxItems /\ Room(spi.tx)
    /\ LET s == [spi EXCEPT !.tx = Append(@, spi.written + 1), !.written = @ + 1]
       IN  \E k \in AtOnce(s) : spi' = fifosUpdated(doTX(s, k))
    /\ UNCHANGED <<uart, adc>>

completeTransmit ==
    /\ spi.wire # 0
    /\ LET s == answered(spi) IN \E k \in AtOnce(s) : spi' = doTX(s, k)
    /\ UNCHANGED <<uart, adc>>

ReadSSPDR ==
    /\ spi.rx # <<>>
    /\ spi' = fifosUpdated([spi EXCEPT !.rx = Tail(@), !.got = Head(spi.rx)])
    /\ UNCHANGED <<uart, adc>>

WriteSSPIMSC == \E enable \in SUBSET {"TX", "RX", "ROR"} :
    spi' = interruptsChecked([spi EXCEPT !.enable = enable]) /\ UNCHANGED <<uart, adc>>
WriteSSPICR == spi' = interruptsChecked([spi EXCEPT !.raw = @ \ {"ROR"}]) /\ UNCHANGED <<uart, adc>>

(* ----------------------------------- UART --------------------------------- *)
\* The transmitter is always ready.
told(u) == interruptsChecked([u EXCEPT !.raw = @ \cup {"TX"}])
received(u, raw) == told([u EXCEPT !.raw = raw])

feedByte ==
    /\ uart.fed < MaxItems
    /\ LET u == [uart EXCEPT !.fed = @ + 1, !.acknowledged = FALSE]
       IN  uart' = received(IF Room(u.rx) THEN [u EXCEPT !.rx = Append(@, u.fed)]
                            ELSE [u EXCEPT !.overrun = TRUE], u.raw \cup {"RX"})
    /\ UNCHANGED <<spi, adc>>

ReadUARTDR ==
    /\ uart.rx # <<>>
    /\ LET u == [uart EXCEPT !.rx = Tail(@), !.got = Head(uart.rx), !.acknowledged = FALSE]
       IN  uart' = received(u, IF u.rx # <<>> THEN u.raw \cup {"RX"} ELSE u.raw \ {"RX"})
    /\ UNCHANGED <<spi, adc>>

WriteUARTIMSC == \E mask \in SUBSET {"TX", "RX"} :
    uart' = told([uart EXCEPT !.enable = mask]) /\ UNCHANGED <<spi, adc>>
WriteUARTICR == \E cleared \in SUBSET {"TX", "RX"} :
    uart' = [received(uart, uart.raw \ cleared) EXCEPT !.acknowledged = @ \/ "RX" \in cleared] /\ UNCHANGED <<spi, adc>>

(* ------------------------------------ ADC --------------------------------- *)
adcStatus(a) == (a.inte /\ Len(a.fifo) >= a.thresh) \/ a.intf
adcInterrupts(a) == [a EXCEPT !.line = adcStatus(a)]
updateDMA(a) == IF a.dreqEn THEN [a EXCEPT !.dreq = Len(a.fifo) >= a.thresh] ELSE a
startADCRead(a) == [a EXCEPT !.busy = TRUE, !.started = @ + 1]

WriteCS == \E en, one, many \in BOOLEAN :
    LET a == [adc EXCEPT !.many = many]
    IN  /\ adc.started < MaxItems
        /\ adc' = IF en /\ ~adc.busy /\ (one \/ many) THEN startADCRead(a) ELSE a
        /\ UNCHANGED <<spi, uart>>

\* Sampling again at once, or when multiShotAlarm says so.
completeADCRead == \E paced \in BOOLEAN :
    LET idle == [adc EXCEPT !.busy = FALSE]
        kept == IF ~adc.fifoEn THEN [idle EXCEPT !.skipped = TRUE]
                ELSE IF ~Room(adc.fifo) THEN [idle EXCEPT !.over = TRUE, !.skipped = TRUE]
                ELSE adcInterrupts(updateDMA([idle EXCEPT !.fifo = Append(@, adc.started)]))
    IN  /\ adc.busy /\ adc.started < MaxItems
        /\ adc' = IF ~adc.many THEN kept ELSE IF paced THEN [kept EXCEPT !.alarm = TRUE] ELSE startADCRead(kept)
        /\ UNCHANGED <<spi, uart>>

multiShotAlarm ==
    /\ adc.alarm /\ adc.started < MaxItems
    /\ adc' = [IF adc.many THEN startADCRead(adc) ELSE adc EXCEPT !.alarm = FALSE, !.skipped = @ \/ adc.busy]
    /\ UNCHANGED <<spi, uart>>

ReadFIFO ==
    /\ adc' = IF adc.fifo = <<>> THEN [adc EXCEPT !.under = TRUE]
              ELSE updateDMA([adc EXCEPT !.fifo = Tail(@), !.got = Head(adc.fifo)])
    /\ UNCHANGED <<spi, uart>>

WriteFCS == \E en, dreq \in BOOLEAN, thresh \in 0..FifoDepth :
    /\ adc' = adcInterrupts([adc EXCEPT !.fifoEn = en, !.dreqEn = dreq, !.thresh = thresh, !.over = FALSE, !.under = FALSE])
    /\ UNCHANGED <<spi, uart>>
WriteINT == \E inte, intf \in BOOLEAN :
    adc' = adcInterrupts([adc EXCEPT !.inte = inte, !.intf = intf]) /\ UNCHANGED <<spi, uart>>

SerialInit ==
    /\ spi = [tx |-> <<>>, rx |-> <<>>, wire |-> 0, raw |-> {}, enable |-> {}, line |-> FALSE, dreqTx |-> TRUE,
              dreqRx |-> FALSE, written |-> 0, got |-> 0, overrun |-> FALSE]
    /\ uart = [rx |-> <<>>, raw |-> {}, enable |-> {}, line |-> FALSE, fed |-> 0, got |-> 0, overrun |-> FALSE,
               acknowledged |-> FALSE]
    /\ adc = [fifo |-> <<>>, fifoEn |-> FALSE, dreqEn |-> FALSE, thresh |-> 0, over |-> FALSE, under |-> FALSE,
              inte |-> FALSE, intf |-> FALSE, line |-> FALSE, dreq |-> FALSE, busy |-> FALSE, many |-> FALSE,
              alarm |-> FALSE, started |-> 0, got |-> 0, skipped |-> FALSE]

SpiNext == WriteSSPDR \/ completeTransmit \/ ReadSSPDR \/ WriteSSPIMSC \/ WriteSSPICR
UartNext == feedByte \/ ReadUARTDR \/ WriteUARTIMSC \/ WriteUARTICR
AdcNext == WriteCS \/ completeADCRead \/ multiShotAlarm \/ ReadFIFO \/ WriteFCS \/ WriteINT
SerialNext == SpiNext \/ UartNext \/ AdcNext
SerialSpec == SerialInit /\ [][SerialNext]_serialVars

\* Nothing is lost or reordered on the way, whether a device answers inside
\* onTransmit or later, unless a full FIFO was announced: bytes written to the
\* SPI go out and come back, received bytes and samples are read, in order.
StreamsIntact ==
    /\ Consecutive((IF spi.wire = 0 THEN <<>> ELSE <<spi.wire>>) \o spi.tx \o <<spi.written + 1>>)
    /\ ~spi.overrun => Consecutive(<<spi.got>> \o spi.rx \o (IF spi.wire = 0 THEN <<>> ELSE <<spi.wire>>) \o spi.tx \o <<spi.written + 1>>)
    /\ ~uart.overrun => Consecutive(<<uart.got>> \o uart.rx \o <<uart.fed + 1>>)
    /\ ~adc.skipped => Consecutive(<<adc.got>> \o adc.fifo \o <<adc.started + (IF adc.busy THEN 0 ELSE 1)>>)

\* An interrupt or a DMA request that is due is raised: the SPI's threshold
\* interrupts and requests, bytes in the UART that were not acknowledged, the
\* ADC's threshold.  (An overrun of the SPI alone waits: spi.ts:152.)
SignalsRaised ==
    /\ Status(spi) \ {"ROR"} # {} => spi.line
    /\ spi.line => Status(spi) # {}
    /\ spi.dreqTx = Room(spi.tx) /\ spi.dreqRx = (spi.rx # <<>>)
    /\ uart.rx # <<>> /\ ~uart.acknowledged /\ "RX" \in uart.enable => uart.line
    /\ adcStatus(adc) => adc.line
=============================================================================

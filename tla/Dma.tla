-------------------------------- MODULE Dma ---------------------------------
(***************************************************************************)
(* The DMA controller of the RP2350 (src/peripherals/dma_rp2350.ts) with   *)
(* one peripheral that paces it: the transmit FIFO of a PIO machine        *)
(* (src/peripherals/pio.ts), whose DREQ is up while it has room.           *)
(*                                                                         *)
(* A channel moves one unit whenever its alarm runs, inside a tick of the  *)
(* clock; firmware and the PIO act between ticks.  An alarm is due "now"   *)
(* or, paced by a timer, "later"; the clock runs every alarm due now       *)
(* before the tick ends, whichever order it linked them in (AlarmClock).   *)
(***************************************************************************)
EXTENDS Integers

CONSTANTS
    Channel, \* the channels in use
    Config,  \* [c |-> what firmware writes to channel c's CTRL and WRITE_ADDR]
    Counts,  \* [c |-> what it writes to channel c's TRANS_COUNT: [count, mode]]
    Block,   \* the words of control blocks that DMA writes to TRANS_COUNT
    Memory, TxFifo, \* where a channel writes to, other than to a channel
    Depth    \* how much the FIFO holds

Null == [count |-> 0, mode |-> 0]
SELF == 1      \* TRANS_COUNT modes: trigger the channel itself when it is done
ENDLESS == 15  \* and do not count

CountValues == [count : Nat, mode : {0, SELF, ENDLESS}]

Treq == {"permanent", "timer", "fifo"}

CtrlFields == [quiet : BOOLEAN, treq : Treq, chainTo : Channel,
               dest : Channel \cup {Memory, TxFifo}]

ASSUME ConfigAssumption ==
    /\ Config \in [Channel -> SUBSET CtrlFields]
    /\ \A c \in Channel : \A f \in Config[c] :
          /\ f.dest = TxFifo => f.treq = "fifo"
          /\ f.dest # c   \* control blocks are for other channels
ASSUME CountsAssumption ==
    /\ Counts \in [Channel -> SUBSET CountValues]
    /\ Block \subseteq CountValues
ASSUME DestAssumption == Memory \notin Channel /\ TxFifo \notin Channel /\ Memory # TxFifo
ASSUME DepthAssumption == Depth \in Nat /\ Depth >= 2

VARIABLES
    chans,   \* RPDMAChannel: the registers of each channel, and its alarm
    intRaw,  \* the channels whose interrupt is raised
    timer,   \* the pacing timer runs: getTimer() is not 0
    dreq,    \* the FIFO's DREQ
    used,    \* how many words the FIFO holds
    ticking, \* the clock is in tick()
    shared   \* history: two channels were busy on the FIFO at once

dmaVars == <<chans, intRaw, timer, dreq, used, ticking>>
vars == <<dmaVars, shared>>

AtReset(c) ==
    [en |-> FALSE, busy |-> FALSE, quiet |-> FALSE, treq |-> "fifo", chainTo |-> c,
     dest |-> Memory, transCount |-> 0, transCountReload |-> 0, transMode |-> 0,
     alarm |-> "none"]

Init ==
    /\ chans = [c \in Channel |-> AtReset(c)]
    /\ intRaw = {}
    /\ timer = FALSE
    /\ dreq = TRUE
    /\ used = 0
    /\ ticking = FALSE
    /\ shared = FALSE

-----------------------------------------------------------------------------
(* RPDMAChannel's methods, from a channel ch to what they leave of it. *)

\* Mistake: DREQ is not asked.
scheduleTransferAnyway(ch, req) == [ch EXCEPT !.alarm = "now"]

scheduleTransfer(ch, req) ==
    IF ch.treq = "permanent" \/ (ch.treq = "fifo" /\ req) THEN [ch EXCEPT !.alarm = "now"]
    ELSE IF ch.treq = "timer" /\ timer THEN [ch EXCEPT !.alarm = "later"]
    ELSE ch

\* Mistake: a channel that is busy starts over.
startAgain(ch, req) ==
    LET begun == [ch EXCEPT !.busy = TRUE, !.transCount = ch.transCountReload]
    IN  IF ~ch.en THEN ch
        ELSE IF begun.transCount > 0 THEN scheduleTransfer(begun, req) ELSE begun

start(ch, req) ==
    LET begun == [ch EXCEPT !.busy = TRUE, !.transCount = ch.transCountReload]
    IN  IF ~ch.en \/ ch.busy THEN ch
        ELSE IF begun.transCount > 0 THEN scheduleTransfer(begun, req) ELSE begun

abort(ch) == [ch EXCEPT !.busy = FALSE, !.alarm = "none"]

writeCount(ch, v) == [ch EXCEPT !.transCountReload = v.count, !.transMode = v.mode]

\* A write of v to TRANS_COUNT_TRIG, and whom it interrupts.
writeCountTrig(ch, v, req) ==
    IF v = Null THEN writeCount(ch, v) ELSE start(writeCount(ch, v), req)

NullTriggered(c, v) == IF v = Null /\ chans[c].quiet THEN {c} ELSE {}

\* Mistake: a channel that is enabled again waits for the next rise of DREQ.
ctrlWrittenNoResume(ch) == IF ~ch.en THEN [ch EXCEPT !.alarm = "none"] ELSE ch

\* What a write to CTRL does once its fields are in place.
ctrlWritten(ch) ==
    IF ~ch.en THEN [ch EXCEPT !.alarm = "none"]
    ELSE IF ch.busy THEN scheduleTransfer(ch, dreq) ELSE ch

-----------------------------------------------------------------------------
(* Firmware. *)

env == <<timer, dreq, used, ticking>>

Firmware == ~ticking

\* WRITE_ADDR and CTRL of a channel that is not busy; CTRL_TRIG when trig.
Configure(c, f, en, trig) ==
    /\ Firmware /\ ~chans[c].busy
    /\ LET ch == ctrlWritten([chans[c] EXCEPT
                     !.en = en, !.quiet = f.quiet, !.treq = f.treq,
                     !.chainTo = f.chainTo, !.dest = f.dest])
       IN  chans' = [chans EXCEPT ![c] = IF trig THEN start(ch, dreq) ELSE ch]
    /\ UNCHANGED <<env, intRaw>>

\* A channel that is busy is paused and resumed with EN.
SetEnable(c, en) ==
    /\ Firmware /\ chans[c].busy
    /\ chans' = [chans EXCEPT ![c] = ctrlWritten([@ EXCEPT !.en = en])]
    /\ UNCHANGED <<env, intRaw>>

\* The mode is not changed under a job.
WriteCount(c, v, trig) ==
    /\ Firmware
    /\ chans[c].busy => v.mode = chans[c].transMode
    /\ chans' = [chans EXCEPT ![c] = IF trig THEN writeCountTrig(@, v, dreq)
                                     ELSE writeCount(@, v)]
    /\ intRaw' = IF trig THEN intRaw \cup NullTriggered(c, v) ELSE intRaw
    /\ UNCHANGED env

\* READ_ADDR_TRIG and WRITE_ADDR_TRIG, of an address or of 0.
WriteAddrTrig(c, null) ==
    /\ Firmware
    /\ IF null THEN UNCHANGED chans /\ intRaw' = intRaw \cup NullTriggered(c, Null)
       ELSE chans' = [chans EXCEPT ![c] = start(@, dreq)] /\ UNCHANGED intRaw
    /\ UNCHANGED env

MultiChanTrigger(mask) ==
    /\ Firmware
    /\ chans' = [c \in Channel |-> IF c \in mask THEN start(chans[c], dreq) ELSE chans[c]]
    /\ UNCHANGED <<env, intRaw>>

ChanAbort(mask) ==
    /\ Firmware
    /\ chans' = [c \in Channel |-> IF c \in mask THEN abort(chans[c]) ELSE chans[c]]
    /\ UNCHANGED <<env, intRaw>>

ClearIntr(mask) ==
    /\ Firmware
    /\ intRaw' = intRaw \ mask
    /\ UNCHANGED <<env, chans>>

SetTimer(on) ==
    /\ Firmware
    /\ timer' = on
    /\ UNCHANGED <<chans, intRaw, dreq, used, ticking>>

-----------------------------------------------------------------------------
(* The FIFO, and the transfers. *)

\* Mistake: a channel that waits is not told.
TakeSilently ==
    /\ ~ticking /\ used > 0
    /\ used' = used - 1
    /\ dreq' = TRUE
    /\ UNCHANGED <<chans, intRaw, timer, ticking>>

\* The PIO machine takes a word; on a rise of DREQ the channels that wait go on.
Take ==
    /\ ~ticking /\ used > 0
    /\ used' = used - 1
    /\ dreq' = TRUE
    /\ chans' = [c \in Channel |->
                    IF ~dreq /\ chans[c].treq = "fifo" /\ chans[c].en /\ chans[c].busy
                    THEN scheduleTransfer(chans[c], TRUE) ELSE chans[c]]
    /\ UNCHANGED <<intRaw, timer, ticking>>

StartTick ==
    /\ ~ticking
    /\ ticking' = TRUE
    /\ UNCHANGED <<chans, intRaw, timer, dreq, used>>

Due(c) ==
    \/ chans[c].alarm = "now"
    \/ chans[c].alarm = "later" /\ \A d \in Channel : chans[d].alarm # "now"

\* writeFIFO, at the other end of a transfer to the FIFO: a word that does not
\* fit is dropped; a machine that stalls on the empty FIFO takes it at once.
writeFIFO ==
    \/ /\ used = Depth
       /\ UNCHANGED <<used, dreq>>
    \/ /\ used < Depth
       /\ used' = used + 1 \/ (used = 0 /\ used' = 0)
       /\ dreq' = (used' < Depth)

\* One unit less to move.
counted(ch) == [ch EXCEPT !.transCount = IF ch.transMode = ENDLESS THEN @ ELSE @ - 1]

\* Its last unit moved, a channel begins its next job or comes to rest.
finished(ch, req) ==
    IF ch.transMode = SELF
    THEN scheduleTransfer([ch EXCEPT !.transCount = ch.transCountReload], req)
    ELSE [ch EXCEPT !.busy = FALSE]

\* The rest of transfer(), on the channels as the unit's write left them.
transferred(cs, c, req) ==
    LET ch == counted(cs[c])
        chained == IF ch.chainTo = c THEN cs
                   ELSE [cs EXCEPT ![ch.chainTo] = start(@, req)]
    IN  IF ch.transCount > 0 THEN [cs EXCEPT ![c] = scheduleTransfer(ch, req)]
        ELSE [chained EXCEPT ![c] = finished(ch, req)]

\* The unit moved ended its job, and who hears of it.
Completed(cs, c) ==
    IF counted(cs[c]).transCount <= 0 /\ ~cs[c].quiet THEN {c} ELSE {}

\* The alarm of channel c runs: transfer().
Transfer(c) ==
    /\ ticking /\ Due(c)
    /\ LET fired == [chans EXCEPT ![c].alarm = "none"]
       IN  \/ /\ chans[c].dest = Memory
              /\ UNCHANGED <<dreq, used>>
              /\ chans' = transferred(fired, c, dreq)
              /\ intRaw' = intRaw \cup Completed(fired, c)
           \/ /\ chans[c].dest = TxFifo
              /\ writeFIFO
              /\ chans' = transferred(fired, c, dreq')
              /\ intRaw' = intRaw \cup Completed(fired, c)
           \/ \E v \in Block, d \in Channel :
              /\ chans[c].dest = d
              /\ UNCHANGED <<dreq, used>>
              /\ LET written == [fired EXCEPT ![d] = writeCountTrig(@, v, dreq)]
                 IN  /\ chans' = transferred(written, c, dreq)
                     /\ intRaw' = intRaw \cup NullTriggered(d, v) \cup Completed(written, c)
    /\ UNCHANGED <<timer, ticking>>

TickDone ==
    /\ ticking
    /\ \A c \in Channel : chans[c].alarm # "now"
    /\ ticking' = FALSE
    /\ UNCHANGED <<chans, intRaw, timer, dreq, used>>

-----------------------------------------------------------------------------

\* Two busy channels paced by the FIFO: each DREQ of it sets both in motion.
TwoOnFifo ==
    \E c, d \in Channel :
        /\ c # d
        /\ chans[c].busy /\ chans[c].treq = "fifo"
        /\ chans[d].busy /\ chans[d].treq = "fifo"

Writes ==
    \/ \E c \in Channel, en, trig \in BOOLEAN : \E f \in Config[c] : Configure(c, f, en, trig)
    \/ \E c \in Channel, en \in BOOLEAN : SetEnable(c, en)
    \/ \E c \in Channel, trig \in BOOLEAN : \E v \in Counts[c] : WriteCount(c, v, trig)
    \/ \E c \in Channel, null \in BOOLEAN : WriteAddrTrig(c, null)
    \/ \E mask \in SUBSET Channel : MultiChanTrigger(mask) \/ ChanAbort(mask) \/ ClearIntr(mask)
    \/ \E on \in BOOLEAN : SetTimer(on)

Next ==
    /\ \/ Writes
       \/ Take
       \/ StartTick
       \/ \E c \in Channel : Transfer(c)
       \/ TickDone
    /\ shared' = (shared \/ TwoOnFifo')

Spec == Init /\ [][Next]_vars

\* The emulator ticks the clock for ever, the clock runs what is due, and the PIO
\* takes words from its FIFO.
Fairness ==
    /\ WF_dmaVars(StartTick)
    /\ WF_dmaVars(\E c \in Channel : Transfer(c))
    /\ WF_dmaVars(TickDone)
    /\ SF_dmaVars(Take)

FairSpec == Spec /\ Fairness

-----------------------------------------------------------------------------
(* Properties. *)

Chan == [en : BOOLEAN, busy : BOOLEAN, quiet : BOOLEAN, treq : Treq, chainTo : Channel,
         dest : Channel \cup {Memory, TxFifo}, transCount : Nat \cup {-1},
         transCountReload : Nat, transMode : {0, SELF, ENDLESS},
         alarm : {"none", "now", "later"}]

\* The types of the variables.  A count goes below 0 only in the transfer that a
\* trigger with a count of 0 leaves behind.
TypeOK ==
    /\ chans \in [Channel -> Chan]
    /\ \A c \in Channel : chans[c].busy => chans[c].transCount # -1
    /\ intRaw \subseteq Channel
    /\ used \in 0 .. Depth
    /\ timer \in BOOLEAN /\ dreq \in BOOLEAN /\ ticking \in BOOLEAN /\ shared \in BOOLEAN

Active(c) == chans[c].en /\ chans[c].busy

\* A channel that may go on is going on: however its start, a pause or a chain
\* races the rise and fall of DREQ, it is not left waiting for a rise it missed.
NoStall ==
    \A c \in Channel :
        /\ Active(c) /\ chans[c].transCount > 0
        /\ chans[c].treq = "permanent" \/ (chans[c].treq = "fifo" /\ dreq)
        => chans[c].alarm = "now"

\* A channel that is paused, aborted or done moves nothing: no alarm of it is left.
OnlyActiveMove == \A c \in Channel : chans[c].alarm # "none" => Active(c)

\* A channel about to write to the FIFO finds room in it, although the room was
\* seen when its alarm was scheduled: unless two channels have shared the DREQ.
NoOverrun ==
    ~shared =>
        \A c \in Channel :
            chans[c].alarm = "now" /\ chans[c].treq = "fifo" => used < Depth

\* As long as every tick returns, a counted job that the FIFO paces, or nothing, is
\* finished, unless it is paused or aborted.
Counted(c) ==
    /\ Active(c) /\ chans[c].transCount > 0
    /\ chans[c].transMode = 0 /\ chans[c].treq # "timer"

Finishes == []<>~ticking => \A c \in Channel : Counted(c) ~> ~Counted(c)

\* Triggers, chains, control blocks and aborts in any order: a job is begun only
\* at rest, moves its count unit by unit, and interrupts when it is over.
UnitsLeft(ch) == IF ch.busy /\ ch.transCount > 0 THEN ch.transCount ELSE 0

Jobs == INSTANCE DmaJobs WITH
    left <- [c \in Channel |-> UnitsLeft(chans[c])],
    endless <- [c \in Channel |-> chans[c].transMode = ENDLESS],
    raised <- intRaw

ImplementsJobs == Jobs!Spec
=============================================================================

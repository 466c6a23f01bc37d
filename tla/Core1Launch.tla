---------------------------- MODULE Core1Launch -----------------------------
(***************************************************************************)
(* Bringing up core 1: RP2350.stepCores (src/rp2350.ts), the bootrom's     *)
(* wait-for-vector loop that RPSIO plays for core 1 (src/sio_rp2350.ts),   *)
(* and the firmware at the other end, multicore_launch_core1_raw and the   *)
(* blocking push and pop of the SDK (demo/riscv_ghostshow/                 *)
(* ghostshow_mc.dis).                                                      *)
(*                                                                         *)
(* stepCores runs one instruction of core 0 and then, in the same call,    *)
(* either the wait loop or as many instructions of core 1 as it takes to   *)
(* catch up; turn says whose part of the call is next.                     *)
(***************************************************************************)
EXTENDS SioFifo, FiniteSets

CONSTANTS
    Params,      \* the <<vector table, stack, entry>> core 0 may launch with
    Early,       \* the words each core may send before core 1 is held
    MaxEarly,    \* bound: how many of those each core sends
    Message,     \* the words the cores exchange once core 1 runs
    MaxMessages, \* bound: how many of those each core sends
    None

ASSUME BoundsAssumption == MaxEarly \in Nat /\ MaxMessages \in Nat

\* What the firmware and its harness keep to, without which the code promises
\* nothing: no command of a launch but its markers is 0, which would start the
\* capture again, and what core 0 has sent before is not yet a launch by itself.
LaunchConstants ==
    /\ Params \subseteq (Word \ {0}) \X (Word \ {0}) \X (Word \ {0})
    /\ 1 \in Word /\ Message \subseteq Word
    /\ Early \in [Core -> SUBSET Word]
    /\ MaxEarly <= 3 \/ Depth <= 3 \/ 1 \notin Early[0]

ASSUME LaunchAssumption == LaunchConstants

VARIABLES
    turn,            \* the core stepCores runs next: isCore0Running
    core1Launched,   \* core 1 runs firmware
    launchWaiting,   \* RPSIO.launchWaiting, launchCapturing and launchBuf
    launchCapturing,
    launchBuf,
    core1At,         \* the <<vector table, stack, entry>> core 1 was released with
    waiting,         \* the core sleeps in h3.block
    eventRegistered, \* the core's event latch
    pc,              \* where each core is in the firmware
    word,            \* the word it is sending
    seq,             \* which command of the launch core 0 is at; 0 outside the call
    request,         \* what core 0 launches with
    sent, got        \* the messages each core has sent, and got, since the launch

launchVars == <<launchWaiting, launchCapturing, launchBuf>>
vars == <<fifoVars, turn, core1Launched, launchVars, core1At, waiting,
          eventRegistered, pc, word, seq, request, sent, got>>

Init ==
    /\ FifoInit
    /\ turn = 0
    /\ core1Launched = TRUE   \* until the harness holds core 1
    /\ launchWaiting = FALSE /\ launchCapturing = FALSE /\ launchBuf = <<>>
    /\ core1At = None
    /\ waiting = [c \in Core |-> FALSE]
    /\ eventRegistered = [c \in Core |-> FALSE]
    /\ pc = [c \in Core |-> "early"]
    /\ word = [c \in Core |-> 0]
    /\ seq = 0
    /\ request = None
    /\ sent = [c \in Core |-> <<>>]
    /\ got = [c \in Core |-> <<>>]

-----------------------------------------------------------------------------
(* Before: both cores run the image, until the harness holds core 1. *)

EarlySend(c) ==
    /\ pc[c] = "early"
    /\ Len(sent[c]) < MaxEarly
    /\ \E w \in Early[c] :
          /\ WriteWR(c, w)
          /\ sent' = [sent EXCEPT ![c] = Append(@, w)]
    /\ UNCHANGED <<turn, core1Launched, launchVars, core1At, waiting,
                   eventRegistered, pc, word, seq, request, got>>

\* Mistake: the word that resynchronises is not echoed.
launchEchoNoResync(rings, w) ==
    [rings EXCEPT ![0] = IF full(@) \/ w = 0 THEN @ ELSE push(@, w)]

launchEcho(rings, w) == [rings EXCEPT ![0] = IF full(@) THEN @ ELSE push(@, w)]

\* The next part of core 0's firmware is the launch.
holdCore1ForLaunch ==
    /\ \A c \in Core : pc[c] = "early"
    /\ core1Launched' = FALSE
    /\ launchWaiting' = TRUE
    /\ launchCapturing' = FALSE
    /\ launchBuf' = <<>>
    /\ rxFIFO' = launchEcho(rxFIFO, 0)
    /\ pc' = [c \in Core |-> IF c = 0 THEN "launch" ELSE "held"]
    /\ sent' = [c \in Core |-> <<>>]
    /\ UNCHANGED <<WOF, ROE, irq, turn, core1At, waiting, eventRegistered, word,
                   seq, request, got>>

-----------------------------------------------------------------------------
(* core1LaunchPoll, one step per turn of its loop. *)

Incoming == peek(rxFIFO[1])

Capture ==
    \/ /\ Incoming = 0
       /\ launchCapturing' = FALSE
       /\ launchBuf' = <<>>
    \/ /\ Incoming # 0 /\ ~launchCapturing
       /\ launchCapturing' = (Incoming = 1)
       /\ UNCHANGED launchBuf
    \/ /\ Incoming # 0 /\ launchCapturing
       /\ launchBuf' = Append(launchBuf, Incoming)
       /\ UNCHANGED launchCapturing

\* Mistake: the count is taken before the word is captured.
ReleaseLate ==
    IF Len(launchBuf) = 3
    THEN /\ launchWaiting' = FALSE
         /\ core1Launched' = TRUE
         /\ core1At' = launchBuf
         /\ waiting' = [waiting EXCEPT ![1] = FALSE]
         /\ pc' = [pc EXCEPT ![1] = "idle"]
         /\ turn' = 0
    ELSE UNCHANGED <<launchWaiting, core1Launched, core1At, waiting, pc, turn>>

\* With all three captured, stepCores points core 1 at them and lets it run.
Release ==
    IF Len(launchBuf') = 3
    THEN /\ launchWaiting' = FALSE
         /\ core1Launched' = TRUE
         /\ core1At' = launchBuf'
         /\ waiting' = [waiting EXCEPT ![1] = FALSE]
         /\ pc' = [pc EXCEPT ![1] = "idle"]
         /\ turn' = 0
    ELSE UNCHANGED <<launchWaiting, core1Launched, core1At, waiting, pc, turn>>

core1LaunchPoll ==
    /\ turn = 1 /\ ~core1Launched /\ launchWaiting
    /\ VLD(1)
    /\ rxFIFO' = launchEcho([rxFIFO EXCEPT ![1] = pull(@)], Incoming)
    /\ Capture
    /\ Release
    /\ UNCHANGED <<WOF, ROE, irq, eventRegistered, word, seq, request, sent, got>>

PollDone ==
    /\ turn = 1 /\ ~core1Launched /\ ~VLD(1)
    /\ turn' = 0
    /\ UNCHANGED <<fifoVars, core1Launched, launchVars, core1At, waiting,
                   eventRegistered, pc, word, seq, request, sent, got>>

-----------------------------------------------------------------------------
(* The firmware's instructions, each one leaving the others' registers alone. *)

goto(c, label) == pc' = [pc EXCEPT ![c] = label]

\* The commands of a launch, sent and echoed one by one.
Command == <<0, 0, 1, request[1], request[2], request[3]>>

\* A 0 is sent only after the mailbox has been drained.
SendFirst(w) == IF w = 0 THEN "drain" ELSE "waitRdy"

BeginLaunch ==
    /\ pc[0] = "launch"
    /\ \E p \in Params : request' = p
    /\ seq' = 1
    /\ word' = [word EXCEPT ![0] = 0]
    /\ goto(0, "drain")
    /\ UNCHANGED <<fifoVars, waiting, eventRegistered, sent, got>>

Drain(c) ==
    /\ pc[c] = "drain"
    /\ goto(c, IF VLD(c) THEN "drainRead" ELSE "drained")
    /\ UNCHANGED <<fifoVars, waiting, eventRegistered, word, seq, request, sent, got>>

DrainRead(c) ==
    /\ pc[c] = "drainRead"
    /\ ReadRD(c)
    /\ goto(c, "drain")
    /\ UNCHANGED <<waiting, eventRegistered, word, seq, request, sent, got>>

\* h3.unblock: the core's onSEV.
Unblock(c) ==
    IF waiting[Other[c]]
    THEN waiting' = [waiting EXCEPT ![Other[c]] = FALSE] /\ UNCHANGED eventRegistered
    ELSE eventRegistered' = [eventRegistered EXCEPT ![Other[c]] = TRUE] /\ UNCHANGED waiting

\* After the draining, and after each word.
Signal(c) ==
    /\ \/ pc[c] = "drained" /\ goto(c, "waitRdy")
       \/ pc[c] = "sent" /\ goto(c, IF c = 0 /\ seq > 0 THEN "checkVld" ELSE "idle")
    /\ Unblock(c)
    /\ UNCHANGED <<fifoVars, word, seq, request, sent, got>>

WaitRdy(c) ==
    /\ pc[c] = "waitRdy"
    /\ goto(c, IF RDY(c) THEN "push" ELSE "waitRdy")
    /\ UNCHANGED <<fifoVars, waiting, eventRegistered, word, seq, request, sent, got>>

Push(c) ==
    /\ pc[c] = "push"
    /\ WriteWR(c, word[c])
    /\ goto(c, "sent")
    /\ sent' = IF c = 0 /\ seq > 0 THEN sent ELSE [sent EXCEPT ![c] = Append(@, word[c])]
    /\ UNCHANGED <<waiting, eventRegistered, word, seq, request, got>>

CheckVld(c) ==
    /\ pc[c] = "checkVld"
    /\ goto(c, IF VLD(c) THEN "pop" ELSE "block")
    /\ UNCHANGED <<fifoVars, waiting, eventRegistered, word, seq, request, sent, got>>

\* h3.block: sleep, unless an event came in since the last one.
Block(c) ==
    /\ pc[c] = "block"
    /\ waiting' = [waiting EXCEPT ![c] = ~eventRegistered[c]]
    /\ eventRegistered' = [eventRegistered EXCEPT ![c] = FALSE]
    /\ goto(c, "checkVld")
    /\ UNCHANGED <<fifoVars, word, seq, request, sent, got>>

\* The call's read of an echo: on to the next command, or back to the first.
PopEcho ==
    /\ pc[0] = "pop" /\ seq > 0
    /\ ReadRD(0)
    /\ LET matched == peek(rxFIFO[0]) = word[0]
           following == IF matched THEN seq + 1 ELSE 1
       IN  IF following = 7
           THEN seq' = 0 /\ goto(0, "idle") /\ UNCHANGED word
           ELSE /\ seq' = following
                /\ word' = [word EXCEPT ![0] = Command[following]]
                /\ goto(0, SendFirst(Command[following]))
    /\ UNCHANGED <<waiting, eventRegistered, request, sent, got>>

PopMessage(c) ==
    /\ pc[c] = "pop" /\ ~(c = 0 /\ seq > 0)
    /\ ReadRD(c)
    /\ got' = [got EXCEPT ![c] = Append(@, peek(rxFIFO[c]))]
    /\ goto(c, "idle")
    /\ UNCHANGED <<waiting, eventRegistered, word, seq, request, sent>>

\* Once core 1 runs: send a message, or wait for one.
Choose(c) ==
    /\ pc[c] = "idle"
    /\ \/ /\ Len(sent[c]) < MaxMessages
          /\ \E w \in Message : word' = [word EXCEPT ![c] = w]
          /\ goto(c, "waitRdy")
       \/ /\ Len(got[c]) < MaxMessages
          /\ goto(c, "checkVld")
          /\ UNCHANGED word
    /\ UNCHANGED <<fifoVars, waiting, eventRegistered, seq, request, sent, got>>

\* A core that has sent and got all it wanted spins.
Finished(c) ==
    /\ pc[c] = "idle" /\ Len(sent[c]) = MaxMessages /\ Len(got[c]) = MaxMessages
    /\ UNCHANGED <<fifoVars, waiting, eventRegistered, pc, word, seq, request, sent, got>>

Sleep(c) ==
    /\ waiting[c]
    /\ UNCHANGED <<fifoVars, waiting, eventRegistered, pc, word, seq, request, sent, got>>

Execute(c) ==
    \/ Sleep(c)
    \/ /\ ~waiting[c]
       /\ \/ Drain(c) \/ DrainRead(c) \/ Signal(c) \/ WaitRdy(c) \/ Push(c)
          \/ CheckVld(c) \/ Block(c) \/ PopMessage(c) \/ Choose(c) \/ Finished(c)
          \/ c = 0 /\ (BeginLaunch \/ PopEcho)

-----------------------------------------------------------------------------
(* stepCores. *)

Core0Step ==
    /\ turn = 0 /\ pc[0] # "early"
    /\ Execute(0)
    /\ turn' = 1
    /\ UNCHANGED <<core1Launched, launchVars, core1At>>

Core1Step ==
    /\ turn = 1 /\ core1Launched
    /\ Execute(1)
    /\ UNCHANGED <<turn, core1Launched, launchVars, core1At>>

CaughtUp ==
    /\ turn = 1 /\ core1Launched
    /\ turn' = 0
    /\ UNCHANGED <<fifoVars, core1Launched, launchVars, core1At, waiting,
                   eventRegistered, pc, word, seq, request, sent, got>>

Next ==
    \/ \E c \in Core : EarlySend(c)
    \/ holdCore1ForLaunch
    \/ core1LaunchPoll
    \/ PollDone
    \/ Core0Step
    \/ Core1Step
    \/ CaughtUp

Spec == Init /\ [][Next]_vars

\* step() is called for ever, and within it core 1 gets the instructions core 0's
\* cycles are worth: now and then none, but never none for ever.
Fairness ==
    /\ WF_vars(core1LaunchPoll) /\ WF_vars(PollDone)
    /\ WF_vars(Core0Step) /\ WF_vars(CaughtUp)
    /\ SF_vars(Core1Step)

FairSpec == Spec /\ Fairness

-----------------------------------------------------------------------------
(* Properties. *)

\* The types of the variables; the wait loop is left once three words are captured.
TypeOK ==
    /\ FifoTypeOK
    /\ turn \in Core
    /\ core1Launched \in BOOLEAN /\ launchWaiting \in BOOLEAN /\ launchCapturing \in BOOLEAN
    /\ launchBuf \in Seq(Word) /\ Len(launchBuf) <= (IF launchWaiting THEN 2 ELSE 3)
    /\ core1At \in Word \X Word \X Word \cup {None}
    /\ waiting \in [Core -> BOOLEAN] /\ eventRegistered \in [Core -> BOOLEAN]
    /\ word \in [Core -> Word]
    /\ seq \in 0 .. 6
    /\ request \in Params \cup {None}

\* Core 1 only ever starts where the launch in progress asks it to.
LaunchesAsAsked == core1At # None => core1At = request

\* When core 0's six commands have been echoed, core 1 has been released.
EchoedMeansLaunched == request # None /\ seq = 0 => core1Launched

IsPrefixOf(s, t) == Len(s) <= Len(t) /\ s = SubSeq(t, 1, Len(s))

\* Once core 1 runs, each core gets what the other has sent it and nothing else:
\* no echo and no word of the handshake is left over in a mailbox.
MessagesIntact ==
    request # None /\ seq = 0 => \A c \in Core : IsPrefixOf(got[c], sent[Other[c]])

\* Core 1 starts where it was asked to, core 0 is not told so before, and what
\* they tell each other from then on is not mixed with the handshake.
LaunchSound == TypeOK /\ LaunchesAsAsked /\ EchoedMeansLaunched /\ MessagesIntact

\* A launch that is begun ends, with core 1 running.
LaunchCompletes == (seq > 0) ~> (seq = 0 /\ core1Launched)

\* A word sent to a core that waits for one wakes it up.
SleeperWakes == \A c \in Core : (waiting[c] /\ VLD(c)) ~> ~waiting[c]

\* The launch ends, and nobody sleeps over a word.
LaunchProgress == LaunchCompletes /\ SleeperWakes
=============================================================================

--------------------------------- MODULE SioProofs --------------------------
(* Theorems about the SIO: SioFifo for any depth and any set of words;       *)
(* Intercore for any spinlocks, any bells and any assignment of bells to     *)
(* senders and of spinlocks to boxes; Core1Launch for any vectors, any words *)
(* and any number of messages.                                               *)
EXTENDS Intercore, Core1Launch, SequenceTheorems, TLAPS

USE DepthAssumption, WordAssumption

-----------------------------------------------------------------------------
(* The ring is a queue. *)

LEMMA ModWraps ==
    ASSUME NEW x \in Nat, x < Depth + Depth
    PROVE  x % Depth = IF x < Depth THEN x ELSE x - Depth
<1>1. CASE x < Depth
  BY <1>1
<1>2. CASE x >= Depth
  BY <1>2
<1> QED BY <1>1, <1>2

\* Two places of the ring are different, and stay so when the ring turns.
LEMMA PlacesDiffer ==
    ASSUME NEW s \in 0 .. Depth - 1, NEW i \in 1 .. Depth, NEW u \in 0 .. Depth - 1, i - 1 < u
    PROVE  (s + i - 1) % Depth # (s + u) % Depth
<1>1. /\ s + i - 1 \in Nat /\ s + i - 1 < Depth + Depth
      /\ s + u \in Nat /\ s + u < Depth + Depth
  OBVIOUS
<1>2. (s + i - 1) % Depth = IF s + i - 1 < Depth THEN s + i - 1 ELSE s + i - 1 - Depth
  BY <1>1, ModWraps
<1>3. (s + u) % Depth = IF s + u < Depth THEN s + u ELSE s + u - Depth
  BY <1>1, ModWraps
<1> QED BY <1>2, <1>3

LEMMA PlaceAfterTurn ==
    ASSUME NEW s \in 0 .. Depth - 1, NEW i \in 1 .. Depth
    PROVE  (((s + 1) % Depth) + i - 1) % Depth = (s + (i + 1) - 1) % Depth
<1> DEFINE t == (s + 1) % Depth
<1>1. Depth % Depth = 0
  OBVIOUS
<1>2. t = IF s + 1 < Depth THEN s + 1 ELSE 0
  <2>1. CASE s + 1 < Depth
    BY <2>1
  <2>2. CASE s + 1 >= Depth
    <3>1. s + 1 = Depth
      BY <2>2
    <3> QED BY <3>1, <1>1
  <2> QED BY <2>1, <2>2
<1> HIDE DEF t
<1>3. CASE s + 1 < Depth
  <2>1. t + i - 1 = s + (i + 1) - 1
    BY <1>2, <1>3
  <2> QED BY <2>1 DEF t
<1>4. CASE s + 1 >= Depth
  <2>1. t + i - 1 = i - 1 /\ s + (i + 1) - 1 = i - 1 + Depth
    BY <1>2, <1>4
  <2>2. (i - 1) % Depth = i - 1 /\ (i - 1 + Depth) % Depth = i - 1
    OBVIOUS
  <2>3. (t + i - 1) % Depth = (s + (i + 1) - 1) % Depth
    BY <2>1, <2>2
  <2> QED BY <2>3 DEF t
<1> QED BY <1>3, <1>4

LEMMA NewFifoFacts == NewFifo \in Ring /\ items(NewFifo) = <<>>
<1>1. NewFifo \in Ring
  BY DEF NewFifo, Ring
<1>2. items(NewFifo) = [i \in 1 .. 0 |-> NewFifo.buffer[(0 + i - 1) % Depth]]
  BY DEF items, NewFifo
<1> QED BY <1>1, <1>2

LEMMA ItemsType ==
    ASSUME NEW f \in Ring
    PROVE  /\ items(f) \in Seq(Word)
           /\ Len(items(f)) = f.used
           /\ f.used \in Nat /\ f.start \in Nat
<1>1. f.used \in 0 .. Depth /\ f.start \in 0 .. Depth - 1 /\ f.buffer \in [0 .. Depth - 1 -> Word]
  BY DEF Ring
<1>2. \A i \in 1 .. f.used : (f.start + i - 1) % Depth \in 0 .. Depth - 1
  BY <1>1
<1>3. \A i \in 1 .. f.used : f.buffer[(f.start + i - 1) % Depth] \in Word
  BY <1>1, <1>2
<1>4. items(f) \in [1 .. f.used -> Word]
  BY <1>3 DEF items
<1> QED BY <1>1, <1>4

\* push() appends, as long as the ring is not full.
LEMMA PushFacts ==
    ASSUME NEW f \in Ring, NEW w \in Word, ~full(f)
    PROVE  push(f, w) \in Ring /\ items(push(f, w)) = Append(items(f), w)
<1> DEFINE g == push(f, w)
           last == (f.start + f.used) % Depth
<1>1. f.used \in 0 .. Depth - 1 /\ f.start \in 0 .. Depth - 1 /\ f.buffer \in [0 .. Depth - 1 -> Word]
  BY DEF Ring, full
<1>2. last \in 0 .. Depth - 1
  BY <1>1
<1>3. g = [buffer |-> [f.buffer EXCEPT ![last] = w], start |-> f.start, used |-> f.used + 1]
  BY DEF push, Ring
<1>4. g \in Ring
  BY <1>1, <1>2, <1>3 DEF Ring
<1>5. /\ items(f) \in Seq(Word) /\ Len(items(f)) = f.used
      /\ items(g) \in Seq(Word) /\ Len(items(g)) = f.used + 1
  BY <1>3, <1>4, ItemsType
<1>6. ASSUME NEW i \in 1 .. f.used + 1
      PROVE  items(g)[i] = Append(items(f), w)[i]
  <2> DEFINE p == (f.start + i - 1) % Depth
  <2>1. items(g)[i] = g.buffer[p]
    BY <1>3 DEF items
  <2>2. CASE i = f.used + 1
    <3>1. p = last
      BY <2>2, <1>1
    <3>2. items(g)[i] = w
      BY <2>1, <3>1, <1>1, <1>2, <1>3
    <3> QED BY <2>2, <3>2, <1>5
  <2>3. CASE i # f.used + 1
    <3>1. i \in 1 .. f.used
      BY <2>3, <1>1
    <3>2. p # last
      <4>1. i \in 1 .. Depth /\ i - 1 < f.used
        BY <3>1, <1>1
      <4> QED BY <4>1, <1>1, PlacesDiffer
    <3>3. p \in 0 .. Depth - 1
      BY <3>1, <1>1
    <3>4. g.buffer[p] = f.buffer[p]
      BY <3>2, <3>3, <1>1, <1>3
    <3>5. items(f)[i] = f.buffer[p]
      BY <3>1 DEF items
    <3> QED BY <2>1, <3>1, <3>4, <3>5, <1>5
  <2> QED BY <2>2, <2>3
<1>7. Append(items(f), w) \in Seq(Word) /\ Len(Append(items(f), w)) = f.used + 1
  BY <1>5
<1> HIDE DEF g
<1>8. items(g) = Append(items(f), w)
  BY <1>5, <1>6, <1>7, SeqEqual
<1> QED BY <1>4, <1>8 DEF g

\* pull() takes the oldest word and leaves the others in order.
LEMMA PullFacts ==
    ASSUME NEW f \in Ring, ~empty(f)
    PROVE  /\ pull(f) \in Ring
           /\ items(f) # <<>>
           /\ peek(f) = Head(items(f))
           /\ items(pull(f)) = Tail(items(f))
<1> DEFINE g == pull(f)
<1>1. f.used \in 1 .. Depth /\ f.start \in 0 .. Depth - 1 /\ f.buffer \in [0 .. Depth - 1 -> Word]
  BY DEF Ring, empty
<1>2. g = [buffer |-> f.buffer, start |-> (f.start + 1) % Depth, used |-> f.used - 1]
  BY DEF pull, Ring
<1>3. (f.start + 1) % Depth \in 0 .. Depth - 1
  BY <1>1
<1>4. g \in Ring
  BY <1>1, <1>2, <1>3 DEF Ring
<1>5. /\ items(f) \in Seq(Word) /\ Len(items(f)) = f.used
      /\ items(g) \in Seq(Word) /\ Len(items(g)) = f.used - 1
  BY <1>2, <1>4, ItemsType
<1>6. items(f) # <<>> /\ 1 \in 1 .. f.used
  BY <1>1, <1>5
<1>7. /\ Tail(items(f)) \in Seq(Word) /\ Len(Tail(items(f))) = f.used - 1
      /\ \A i \in 1 .. f.used - 1 : Tail(items(f))[i] = items(f)[i + 1]
  BY <1>5, <1>6, HeadTailProperties
<1>8. peek(f) = Head(items(f))
  <2>1. \A s \in 0 .. Depth - 1 : (s + 1 - 1) % Depth = s
    OBVIOUS
  <2>2. items(f)[1] = f.buffer[f.start]
    BY <2>1, <1>1, <1>6 DEF items
  <2> QED BY <2>2, <1>5, <1>6 DEF peek
<1>9. ASSUME NEW i \in 1 .. f.used - 1
      PROVE  items(g)[i] = Tail(items(f))[i]
  <2> DEFINE start == (f.start + 1) % Depth
  <2>1. items(g)[i] = f.buffer[(start + i - 1) % Depth]
    BY <1>2 DEF items
  <2>2. i + 1 \in 1 .. f.used /\ items(f)[i + 1] = f.buffer[(f.start + (i + 1) - 1) % Depth]
    BY <1>1 DEF items
  <2>3. (start + i - 1) % Depth = (f.start + (i + 1) - 1) % Depth
    <3>1. i \in 1 .. Depth
      BY <1>1
    <3> QED BY <3>1, <1>1, PlaceAfterTurn
  <2> HIDE DEF start
  <2> QED BY <2>1, <2>2, <2>3, <1>7
<1> HIDE DEF g
<1>10. items(g) = Tail(items(f))
  BY <1>5, <1>7, <1>9, SeqEqual
<1> QED BY <1>4, <1>6, <1>8, <1>10 DEF g

-----------------------------------------------------------------------------
(* The mailboxes. *)

FifoInv == FifoTypeOK /\ IrqWhileUnread

LEMMA OtherFacts == \A c \in Core : Other[c] \in Core /\ Other[c] # c
BY DEF Core, Other

LEMMA FifoInvInit == FifoInit => FifoInv
BY NewFifoFacts DEF FifoInit, FifoInv, FifoTypeOK, IrqWhileUnread, VLD, empty, NewFifo

\* A register access takes every ring to a ring, pushed to or pulled from.
LEMMA PullType ==
    ASSUME NEW f \in Ring
    PROVE  pull(f) \in Ring /\ (empty(f) => pull(f) = f)
<1>1. CASE empty(f)
  BY <1>1 DEF pull
<1>2. CASE ~empty(f)
  BY <1>2, PullFacts
<1> QED BY <1>1, <1>2

LEMMA FifoInvStep == FifoInv /\ [FifoNext]_fifoVars => FifoInv'
<1> SUFFICES ASSUME FifoInv, [FifoNext]_fifoVars PROVE FifoInv'
  OBVIOUS
<1> USE OtherFacts
<1>1. ASSUME NEW c \in Core, ReadRD(c)
      PROVE  FifoInv'
  <2>1. CASE VLD(c) /\ rxFIFO' = [rxFIFO EXCEPT ![c] = pull(@)] /\ UNCHANGED <<WOF, ROE, irq>>
    <3>1. FifoTypeOK'
      BY <2>1, PullType DEF FifoInv, FifoTypeOK
    <3>2. \A d \in Core : VLD(d)' => VLD(d)
      BY <2>1 DEF FifoInv, FifoTypeOK, VLD
    <3> QED BY <2>1, <3>1, <3>2 DEF FifoInv, IrqWhileUnread
  <2>2. CASE ~VLD(c) /\ ROE' = [ROE EXCEPT ![c] = TRUE] /\ irq' = [irq EXCEPT ![c] = TRUE]
             /\ UNCHANGED <<rxFIFO, WOF>>
    BY <2>2 DEF FifoInv, FifoTypeOK, IrqWhileUnread, VLD
  <2> QED BY <1>1, <2>1, <2>2 DEF ReadRD
<1>2. ASSUME NEW c \in Core, NEW w \in Word, WriteWR(c, w)
      PROVE  FifoInv'
  <2>1. CASE /\ RDY(c) /\ rxFIFO' = [rxFIFO EXCEPT ![Other[c]] = push(@, w)]
             /\ irq' = [irq EXCEPT ![Other[c]] = TRUE] /\ UNCHANGED <<WOF, ROE>>
    <3>1. FifoTypeOK'
      BY <2>1, PushFacts DEF FifoInv, FifoTypeOK, RDY
    <3>2. \A d \in Core : d # Other[c] => (VLD(d)' <=> VLD(d)) /\ irq'[d] = irq[d]
      BY <2>1 DEF FifoInv, FifoTypeOK, VLD
    <3>3. irq'[Other[c]]
      BY <2>1 DEF FifoInv, FifoTypeOK
    <3> QED BY <2>1, <3>1, <3>2, <3>3 DEF FifoInv, IrqWhileUnread
  <2>2. CASE ~RDY(c) /\ WOF' = [WOF EXCEPT ![c] = TRUE] /\ irq' = [irq EXCEPT ![c] = TRUE]
             /\ UNCHANGED <<rxFIFO, ROE>>
    BY <2>2 DEF FifoInv, FifoTypeOK, IrqWhileUnread, VLD
  <2> QED BY <1>2, <2>1, <2>2 DEF WriteWR
<1>3. ASSUME NEW c \in Core, NEW clearWOF \in BOOLEAN, NEW clearROE \in BOOLEAN,
             WriteST(c, clearWOF, clearROE)
      PROVE  FifoInv'
  <2>1. /\ WOF' = [WOF EXCEPT ![c] = @ /\ ~clearWOF]
        /\ ROE' = [ROE EXCEPT ![c] = @ /\ ~clearROE]
        /\ irq' = [irq EXCEPT ![c] = @ /\ (WOF'[c] \/ ROE'[c] \/ VLD(c))]
        /\ rxFIFO' = rxFIFO
    BY <1>3 DEF WriteST
  <2>2. FifoTypeOK'
    <3>1. WOF' \in [Core -> BOOLEAN] /\ ROE' \in [Core -> BOOLEAN] /\ rxFIFO' \in [Core -> Ring]
      BY <2>1 DEF FifoInv, FifoTypeOK
    <3>2. (irq[c] /\ (WOF'[c] \/ ROE'[c] \/ VLD(c))) \in BOOLEAN
      OBVIOUS
    <3>3. irq' \in [Core -> BOOLEAN]
      BY <2>1, <3>2 DEF FifoInv, FifoTypeOK
    <3> QED BY <3>1, <3>3 DEF FifoTypeOK
  <2>3. \A d \in Core : VLD(d)' <=> VLD(d)
    BY <2>1 DEF VLD
  <2>4. \A d \in Core : d # c => WOF'[d] = WOF[d] /\ ROE'[d] = ROE[d] /\ irq'[d] = irq[d]
    BY <2>1 DEF FifoInv, FifoTypeOK
  <2>5. /\ WOF'[c] => WOF[c]
        /\ ROE'[c] => ROE[c]
        /\ irq'[c] <=> irq[c] /\ (WOF'[c] \/ ROE'[c] \/ VLD(c))
    BY <2>1 DEF FifoInv, FifoTypeOK
  <2>6. \A d \in Core : VLD(d)' \/ WOF'[d] \/ ROE'[d] => irq'[d]
    BY <2>3, <2>4, <2>5 DEF FifoInv, IrqWhileUnread
  <2> QED BY <2>2, <2>6 DEF FifoInv, IrqWhileUnread
<1>4. CASE UNCHANGED fifoVars
  BY <1>4 DEF fifoVars, FifoInv, FifoTypeOK, IrqWhileUnread, VLD
<1> QED BY <1>1, <1>2, <1>3, <1>4 DEF FifoNext

\* The types of the rings and the interrupts they raise, which no access can part
\* (sio-core.ts FIFO_RD, FIFO_WR, FIFO_ST).
THEOREM FifoInvHolds == FifoSpec => []FifoInv
<1> QED BY FifoInvInit, FifoInvStep, PTL DEF FifoSpec

\* The rings never outgrow their buffers, whatever order the cores push and pull in.
THEOREM FifoTypeCorrect == FifoSpec => []FifoTypeOK
<1>1. FifoInv => FifoTypeOK
  BY DEF FifoInv
<1> QED BY <1>1, FifoInvHolds, PTL

\* SIO_IRQ_FIFO stays up while a core has a word to read or a loss to hear of.
THEOREM NoUnreadWithoutIrq == FifoSpec => []IrqWhileUnread
<1>1. FifoInv => IrqWhileUnread
  BY DEF FifoInv
<1> QED BY <1>1, FifoInvHolds, PTL

-----------------------------------------------------------------------------
(* The mailboxes implement the queues. *)

inbox == [c \in Core |-> items(rxFIFO[c])]

LEMMA InboxFacts ==
    ASSUME FifoTypeOK, NEW c \in Core
    PROVE  /\ Len(inbox[c]) = rxFIFO[c].used
           /\ inbox[c] = items(rxFIFO[c])
           /\ VLD(c) <=> inbox[c] # <<>>
           /\ RDY(c) => Len(inbox[Other[c]]) < Depth
           /\ ~RDY(c) => Len(inbox[Other[c]]) = Depth
<1>1. \A d \in Core : /\ rxFIFO[d] \in Ring
                      /\ rxFIFO[d].used \in 0 .. Depth
                      /\ items(rxFIFO[d]) \in Seq(Word)
                      /\ Len(items(rxFIFO[d])) = rxFIFO[d].used
  BY ItemsType DEF FifoTypeOK, Ring
<1>2. inbox[c] = <<>> <=> rxFIFO[c].used = 0
  BY <1>1 DEF inbox
<1> QED BY <1>1, <1>2, OtherFacts DEF inbox, VLD, RDY, empty, full

LEMMA RefinesTake ==
    ASSUME FifoTypeOK, NEW c \in Core, ReadRD(c)
    PROVE  Queues!Take(c)
<1>1. CASE VLD(c) /\ rxFIFO' = [rxFIFO EXCEPT ![c] = pull(@)] /\ UNCHANGED <<WOF, ROE, irq>>
  <2>1. items(pull(rxFIFO[c])) = Tail(items(rxFIFO[c]))
    BY <1>1, PullFacts DEF VLD, FifoTypeOK
  <2>2. inbox' = [inbox EXCEPT ![c] = Tail(@)]
    BY <1>1, <2>1 DEF inbox, FifoTypeOK
  <2> QED BY <1>1, <2>2, InboxFacts DEF Queues!Take, inbox
<1>2. CASE /\ ~VLD(c) /\ ROE' = [ROE EXCEPT ![c] = TRUE] /\ irq' = [irq EXCEPT ![c] = TRUE]
           /\ UNCHANGED <<rxFIFO, WOF>>
  <2>1. inbox' = inbox
    BY <1>2 DEF inbox
  <2> QED BY <1>2, <2>1, InboxFacts DEF Queues!Take, inbox
<1> QED BY <1>1, <1>2 DEF ReadRD

LEMMA RefinesSend ==
    ASSUME FifoTypeOK, NEW c \in Core, NEW w \in Word, WriteWR(c, w)
    PROVE  Queues!Send(c, w)
<1>1. CASE /\ RDY(c) /\ rxFIFO' = [rxFIFO EXCEPT ![Other[c]] = push(@, w)]
           /\ irq' = [irq EXCEPT ![Other[c]] = TRUE] /\ UNCHANGED <<WOF, ROE>>
  <2>1. items(push(rxFIFO[Other[c]], w)) = Append(items(rxFIFO[Other[c]]), w)
    BY <1>1, PushFacts, OtherFacts DEF RDY, FifoTypeOK
  <2>2. inbox' = [inbox EXCEPT ![Other[c]] = Append(@, w)]
    BY <1>1, <2>1, OtherFacts DEF inbox, FifoTypeOK
  <2> QED BY <1>1, <2>2, InboxFacts DEF Queues!Send, inbox
<1>2. CASE /\ ~RDY(c) /\ WOF' = [WOF EXCEPT ![c] = TRUE] /\ irq' = [irq EXCEPT ![c] = TRUE]
           /\ UNCHANGED <<rxFIFO, ROE>>
  <2>1. inbox' = inbox
    BY <1>2 DEF inbox
  <2> QED BY <1>2, <2>1, InboxFacts DEF Queues!Send, inbox
<1> QED BY <1>1, <1>2 DEF WriteWR

LEMMA RefinesClear ==
    ASSUME FifoTypeOK, NEW c \in Core, NEW clearWOF \in BOOLEAN, NEW clearROE \in BOOLEAN,
           WriteST(c, clearWOF, clearROE)
    PROVE  Queues!Clear(c)
<1>1. /\ WOF' = [WOF EXCEPT ![c] = @ /\ ~clearWOF]
      /\ ROE' = [ROE EXCEPT ![c] = @ /\ ~clearROE]
      /\ rxFIFO' = rxFIFO
  BY DEF WriteST
<1>2. \A b \in BOOLEAN : (b /\ ~clearWOF) \in {b, FALSE} /\ (b /\ ~clearROE) \in {b, FALSE}
  OBVIOUS
<1>3. WOF' \in {WOF, [WOF EXCEPT ![c] = FALSE]}
  <2>1. CASE clearWOF
    <3>1. (WOF[c] /\ ~clearWOF) = FALSE
      BY <2>1
    <3> QED BY <3>1, <1>1
  <2>2. CASE ~clearWOF
    <3>1. (WOF[c] /\ ~clearWOF) = WOF[c]
      BY <2>2 DEF FifoTypeOK
    <3>2. WOF' = WOF
      BY <3>1, <1>1 DEF FifoTypeOK
    <3> QED BY <3>2
  <2> QED BY <2>1, <2>2
<1>4. ROE' \in {ROE, [ROE EXCEPT ![c] = FALSE]}
  <2>1. CASE clearROE
    <3>1. (ROE[c] /\ ~clearROE) = FALSE
      BY <2>1
    <3> QED BY <3>1, <1>1
  <2>2. CASE ~clearROE
    <3>1. (ROE[c] /\ ~clearROE) = ROE[c]
      BY <2>2 DEF FifoTypeOK
    <3>2. ROE' = ROE
      BY <3>1, <1>1 DEF FifoTypeOK
    <3> QED BY <3>2
  <2> QED BY <2>1, <2>2
<1>5. inbox' = inbox
  BY <1>1 DEF inbox
<1> QED BY <1>3, <1>4, <1>5 DEF Queues!Clear, inbox

\* Two rings wrapped round their buffers are two bounded queues: no word is lost
\* unrecorded, taken twice or out of order.
THEOREM KeepsMailboxPromise == FifoSpec => ImplementsMailbox
<1>1. FifoInit => Queues!Init
  BY NewFifoFacts DEF FifoInit, Queues!Init
<1>2. FifoTypeOK /\ [FifoNext]_fifoVars => [Queues!Next]_(Queues!vars)
  <2> SUFFICES ASSUME FifoTypeOK, [FifoNext]_fifoVars
               PROVE  Queues!Next \/ UNCHANGED Queues!vars
    OBVIOUS
  <2>1. CASE \E c \in Core : ReadRD(c)
    BY <2>1, RefinesTake DEF Queues!Next
  <2>2. CASE \E c \in Core, w \in Word : WriteWR(c, w)
    BY <2>2, RefinesSend DEF Queues!Next
  <2>3. CASE \E c \in Core, clearWOF, clearROE \in BOOLEAN : WriteST(c, clearWOF, clearROE)
    BY <2>3, RefinesClear DEF Queues!Next
  <2>4. CASE UNCHANGED fifoVars
    BY <2>4 DEF fifoVars, Queues!vars
  <2> QED BY <2>1, <2>2, <2>3, <2>4 DEF FifoNext
<1> QED BY <1>1, <1>2, FifoTypeCorrect, PTL DEF FifoSpec, ImplementsMailbox, Queues!Spec

-----------------------------------------------------------------------------
(* Spinlocks and doorbells. *)

Place == {"out", "look", "answer", "lock", "read", "write", "unlock", "ring"}
Job == [target : Core, bell : Bell, undo : BOOLEAN]

IntercoreTypeOK ==
    /\ spinLock \in SUBSET Lock
    /\ doorbellIn \in [Core -> SUBSET Bell]
    /\ bellIrq \in [Core -> BOOLEAN]
    /\ box \in [Core -> SUBSET Bell]
    /\ at \in [Thread -> Place]
    /\ job \in [Core -> Job]
    /\ copy \in [Thread -> SUBSET Bell]
    /\ seen \in [Core -> SUBSET Bell]

\* The level of the interrupt is that of the bells.
IrqFollows == \A c \in Core : bellIrq[c] = (doorbellIn[c] # {})

\* A thread at a box has its spinlock.
HasLock == \A k \in Thread : at[k] \in Critical => Guard[Target(k)] \in spinLock

\* A box does not change between the read and the write of a thread.
CopyFresh == \A k \in Thread : at[k] = "write" => copy[k] = box[Target(k)]

\* A main thread rings its own bells.
OwnBell == \A c \in Core : at[<<c, "main">>] # "out" => Sender[job[c].bell] = c

\* A request that is taken back is no longer there when its bell is rescinded.
TakenBack ==
    \A c \in Core : at[<<c, "main">>] \in {"unlock", "ring"} /\ job[c].undo => job[c].bell \notin box[job[c].target]

Waiting(c, b) ==
    \/ b \in doorbellIn[c]
    \/ at[<<c, "handler">>] \in {"answer", "lock", "read", "write"} /\ b \in seen[c]
    \/ LET s == Sender[b] IN at[<<s, "main">>] \in {"unlock", "ring"} /\ job[s] = [target |-> c, bell |-> b, undo |-> FALSE]
NoneForgotten == \A c \in Core : \A b \in box[c] : Waiting(c, b)

LockInv == IntercoreTypeOK /\ HasLock /\ MutualExclusion
BoxInv == LockInv /\ CopyFresh /\ OwnBell /\ TakenBack
IntercoreInv == BoxInv /\ IrqFollows /\ NoneForgotten

-----------------------------------------------------------------------------

LEMMA NoJobIsJob == ASSUME NEW c \in Core PROVE NoJob(c) \in Job
BY FirmwareAssumption DEF NoJob, Job

LEMMA TargetIsCore == ASSUME IntercoreTypeOK, NEW k \in Thread PROVE Target(k) \in Core
BY DEF IntercoreTypeOK, Job, Thread, Target

LEMMA IntercoreInvInit == IntercoreInit => IntercoreInv
<1> SUFFICES ASSUME IntercoreInit PROVE IntercoreInv
  OBVIOUS
<1>1. IntercoreTypeOK
  BY NoJobIsJob DEF IntercoreInit, IntercoreTypeOK, Place
<1>2. HasLock /\ MutualExclusion /\ CopyFresh
  BY DEF IntercoreInit, HasLock, MutualExclusion, CopyFresh, Critical
<1>3. OwnBell /\ TakenBack
  BY DEF IntercoreInit, OwnBell, TakenBack, Thread
<1>4. IrqFollows /\ NoneForgotten
  BY DEF IntercoreInit, IrqFollows, NoneForgotten
<1> QED BY <1>1, <1>2, <1>3, <1>4 DEF IntercoreInv, BoxInv, LockInv

LEMMA IntercoreTypePreserved == IntercoreTypeOK /\ [IntercoreNext]_intercoreVars => IntercoreTypeOK'
<1> SUFFICES ASSUME IntercoreTypeOK, [IntercoreNext]_intercoreVars PROVE IntercoreTypeOK'
  OBVIOUS
<1> USE DEF IntercoreTypeOK, Goes, Place, registers
<1>1. ASSUME NEW c \in Core, NEW t \in Core, NEW b \in Bell, NEW undo \in BOOLEAN, Begin(c, t, b, undo) PROVE IntercoreTypeOK'
  BY <1>1 DEF Begin, Job
<1>2. ASSUME NEW c \in Core, Interrupt(c) PROVE IntercoreTypeOK'
  BY <1>2 DEF Interrupt
<1>3. ASSUME NEW c \in Core, Look(c) PROVE IntercoreTypeOK'
  BY <1>3 DEF Look
<1>4. ASSUME NEW c \in Core, Answer(c) PROVE IntercoreTypeOK'
  BY <1>4 DEF Answer, WriteDoorbellClr, ringDoorbell
<1>5. ASSUME NEW c \in Core, RingBell(c) PROVE IntercoreTypeOK'
  <2>1. job[c].target \in Core /\ job[c].bell \in Bell
    BY DEF Job
  <2>2. job' \in [Core -> Job]
    BY <1>5, NoJobIsJob DEF RingBell
  <2>3. doorbellIn' \in [Core -> SUBSET Bell] /\ bellIrq' \in [Core -> BOOLEAN]
    <3>1. ASSUME NEW t \in Core, NEW set \in SUBSET Bell, NEW clear, ringDoorbell(t, set, clear)
          PROVE  doorbellIn' \in [Core -> SUBSET Bell] /\ bellIrq' \in [Core -> BOOLEAN]
      BY <3>1 DEF ringDoorbell
    <3>2. CASE job[c].undo
      BY <1>5, <2>1, <3>1, <3>2 DEF RingBell, WriteDoorbellClr
    <3>3. CASE ~job[c].undo
      BY <1>5, <2>1, <3>1, <3>3 DEF RingBell, WriteDoorbellSet
    <3> QED BY <3>2, <3>3
  <2> QED BY <1>5, <2>2, <2>3 DEF RingBell
<1>6. ASSUME NEW k \in Thread, Acquire(k) PROVE IntercoreTypeOK'
  BY <1>6, TargetIsCore, FirmwareAssumption DEF Acquire, ReadSpinlock
<1>7. ASSUME NEW k \in Thread, ReadBox(k) PROVE IntercoreTypeOK'
  BY <1>7, TargetIsCore DEF ReadBox
<1>8. ASSUME NEW k \in Thread, WriteBox(k) PROVE IntercoreTypeOK'
  <2>1. Edited(k) \in SUBSET Bell
    BY DEF Edited, Thread, Job
  <2>2. box' \in [Core -> SUBSET Bell]
    BY <1>8, <2>1 DEF WriteBox
  <2>3. seen' \in [Core -> SUBSET Bell]
    BY <1>8 DEF WriteBox
  <2> QED BY <1>8, <2>2, <2>3 DEF WriteBox
<1>9. ASSUME NEW k \in Thread, Give(k) PROVE IntercoreTypeOK'
  BY <1>9 DEF Give, WriteSpinlock
<1>10. CASE UNCHANGED intercoreVars
  BY <1>10 DEF intercoreVars
<1> HIDE DEF IntercoreTypeOK, Goes, Place, registers
<1> QED BY <1>1, <1>2, <1>3, <1>4, <1>5, <1>6, <1>7, <1>8, <1>9, <1>10 DEF IntercoreNext

\* A step of one thread leaves the others where they are, and the target of a
\* thread that stays at a box is what it was.
LEMMA StaysAtBox ==
    ASSUME IntercoreTypeOK, [IntercoreNext]_intercoreVars, NEW k \in Thread, at'[k] \in {"read", "write", "unlock"}
    PROVE  Target(k)' = Target(k) /\ at[k] # "out"
<1> USE DEF IntercoreTypeOK, Goes, Target, Thread
<1>1. ASSUME NEW c \in Core, NEW t \in Core, NEW b \in Bell, NEW undo \in BOOLEAN, Begin(c, t, b, undo)
      PROVE  Target(k)' = Target(k) /\ at[k] # "out"
  BY <1>1 DEF Begin
<1>2. ASSUME NEW c \in Core, Interrupt(c) \/ Look(c) \/ Answer(c)
      PROVE  Target(k)' = Target(k) /\ at[k] # "out"
  BY <1>2 DEF Interrupt, Look, Answer
<1>3. ASSUME NEW c \in Core, RingBell(c)
      PROVE  Target(k)' = Target(k) /\ at[k] # "out"
  BY <1>3 DEF RingBell
<1>4. ASSUME NEW j \in Thread, Acquire(j) \/ ReadBox(j) \/ WriteBox(j) \/ Give(j)
      PROVE  Target(k)' = Target(k) /\ at[k] # "out"
  BY <1>4 DEF Acquire, ReadBox, WriteBox, Give
<1>5. CASE UNCHANGED intercoreVars
  BY <1>5 DEF intercoreVars
<1> HIDE DEF IntercoreTypeOK, Goes, Target, Thread
<1> QED BY <1>1, <1>2, <1>3, <1>4, <1>5 DEF IntercoreNext

LEMMA LocksPreserved == LockInv /\ [IntercoreNext]_intercoreVars => LockInv'
<1> SUFFICES ASSUME LockInv, [IntercoreNext]_intercoreVars PROVE LockInv'
  OBVIOUS
<1>1. IntercoreTypeOK /\ IntercoreTypeOK'
  BY IntercoreTypePreserved DEF LockInv
<1>2. \A k \in Thread : at'[k] \in Critical => Target(k)' = Target(k)
  BY <1>1, StaysAtBox DEF Critical
<1>3. ASSUME \A k \in Thread : at'[k] \in Critical => at[k] \in Critical, spinLock' = spinLock
      PROVE  LockInv'
  BY <1>1, <1>2, <1>3 DEF LockInv, HasLock, MutualExclusion
<1> USE DEF Goes, registers, Critical
<1>4. ASSUME NEW c \in Core, NEW t \in Core, NEW b \in Bell, NEW undo \in BOOLEAN, Begin(c, t, b, undo) PROVE LockInv'
  BY <1>1, <1>3, <1>4 DEF Begin, IntercoreTypeOK
<1>5. ASSUME NEW c \in Core, Interrupt(c) \/ Look(c) \/ Answer(c) \/ RingBell(c) PROVE LockInv'
  BY <1>1, <1>3, <1>5 DEF Interrupt, Look, Answer, RingBell, IntercoreTypeOK
<1>6. ASSUME NEW j \in Thread, ReadBox(j) \/ WriteBox(j) PROVE LockInv'
  BY <1>1, <1>3, <1>6 DEF ReadBox, WriteBox, IntercoreTypeOK
<1>7. ASSUME NEW j \in Thread, Acquire(j) PROVE LockInv'
  <2>1. at' = [at EXCEPT ![j] = "read"] /\ spinLock' = spinLock \cup {Guard[Target(j)]} /\ Guard[Target(j)] \notin spinLock
    BY <1>7 DEF Acquire, ReadSpinlock
  <2>2. \A k \in Thread : k # j /\ at'[k] \in Critical => at[k] \in Critical /\ Guard[Target(k)] \in spinLock
    BY <1>1, <2>1 DEF LockInv, HasLock, IntercoreTypeOK
  <2>3. HasLock'
    BY <1>2, <2>1, <2>2 DEF HasLock
  <2>4. MutualExclusion'
    BY <1>1, <1>2, <2>1, <2>2 DEF MutualExclusion, LockInv, IntercoreTypeOK
  <2> QED BY <1>1, <2>3, <2>4 DEF LockInv
<1>8. ASSUME NEW j \in Thread, Give(j) PROVE LockInv'
  <2>1. at[j] = "unlock" /\ at'[j] \notin Critical /\ spinLock' = spinLock \ {Guard[Target(j)]}
    BY <1>1, <1>8 DEF Give, WriteSpinlock, IntercoreTypeOK
  <2>2. \A k \in Thread : k # j => at'[k] = at[k]
    BY <1>1, <1>8 DEF Give, IntercoreTypeOK
  <2>3. \A k \in Thread : at'[k] \in Critical => at[k] \in Critical /\ k # j /\ Guard[Target(k)] # Guard[Target(j)]
    BY <2>1, <2>2 DEF LockInv, MutualExclusion
  <2> QED BY <1>1, <1>2, <2>1, <2>3 DEF LockInv, HasLock, MutualExclusion
<1>9. CASE UNCHANGED intercoreVars
  BY <1>3, <1>9 DEF intercoreVars
<1> HIDE DEF Goes, registers, Critical
<1> QED BY <1>4, <1>5, <1>6, <1>7, <1>8, <1>9 DEF IntercoreNext

-----------------------------------------------------------------------------

\* A box changes only by the thread that has its spinlock.
LEMMA WritesAlone ==
    ASSUME LockInv, NEW j \in Thread, at[j] = "write", NEW k \in Thread, k # j, at[k] \in Critical
    PROVE  Target(k) # Target(j)
BY DEF LockInv, MutualExclusion, Critical

LEMMA BoxesPreserved == BoxInv /\ [IntercoreNext]_intercoreVars => BoxInv'
<1> SUFFICES ASSUME BoxInv, [IntercoreNext]_intercoreVars PROVE BoxInv'
  OBVIOUS
<1>1. IntercoreTypeOK /\ IntercoreTypeOK' /\ LockInv /\ LockInv'
  BY IntercoreTypePreserved, LocksPreserved DEF BoxInv, LockInv
<1>2. \A k \in Thread : at'[k] \in Critical => Target(k)' = Target(k)
  BY <1>1, StaysAtBox DEF Critical
<1>3. \A c \in Core : <<c, "main">> \in Thread /\ <<c, "handler">> \in Thread
  BY DEF Thread
<1>4. ASSUME NEW c \in Core, NEW t \in Core, NEW b \in Bell, NEW undo \in BOOLEAN, Begin(c, t, b, undo) PROVE BoxInv'
  <2>1. at[<<c, "main">>] = "out" /\ at' = [at EXCEPT ![<<c, "main">>] = "lock"] /\ Sender[b] = c
        /\ job' = [job EXCEPT ![c] = [target |-> t, bell |-> b, undo |-> undo]] /\ box' = box /\ copy' = copy
    BY <1>4 DEF Begin, Goes
  <2>2. CopyFresh'
    BY <1>1, <1>2, <1>3, <2>1 DEF BoxInv, CopyFresh, IntercoreTypeOK, Critical
  <2>3. OwnBell'
    BY <1>1, <1>3, <2>1 DEF BoxInv, OwnBell, IntercoreTypeOK
  <2>4. TakenBack'
    BY <1>1, <1>3, <2>1 DEF BoxInv, TakenBack, IntercoreTypeOK
  <2> QED BY <1>1, <2>2, <2>3, <2>4 DEF BoxInv
<1>5. ASSUME NEW c \in Core, Interrupt(c) \/ Look(c) \/ Answer(c) PROVE BoxInv'
  <2>1. /\ \A k \in Thread : k # <<c, "handler">> => at'[k] = at[k]
        /\ at'[<<c, "handler">>] \in {"look", "answer", "lock"} /\ job' = job /\ box' = box /\ copy' = copy
    BY <1>1, <1>3, <1>5 DEF Interrupt, Look, Answer, Goes, IntercoreTypeOK
  <2>2. CopyFresh'
    BY <1>2, <2>1 DEF BoxInv, CopyFresh, Critical
  <2>3. OwnBell' /\ TakenBack'
    BY <1>3, <2>1 DEF BoxInv, OwnBell, TakenBack
  <2> QED BY <1>1, <2>2, <2>3 DEF BoxInv
<1>6. ASSUME NEW c \in Core, RingBell(c) PROVE BoxInv'
  <2>1. at[<<c, "main">>] = "ring" /\ at' = [at EXCEPT ![<<c, "main">>] = "out"]
        /\ job' = [job EXCEPT ![c] = NoJob(c)] /\ box' = box /\ copy' = copy
    BY <1>6 DEF RingBell, Goes
  <2>2. CopyFresh'
    BY <1>1, <1>2, <1>3, <2>1 DEF BoxInv, CopyFresh, IntercoreTypeOK, Critical
  <2>3. OwnBell' /\ TakenBack'
    BY <1>1, <1>3, <2>1 DEF BoxInv, OwnBell, TakenBack, IntercoreTypeOK
  <2> QED BY <1>1, <2>2, <2>3 DEF BoxInv
<1>7. ASSUME NEW j \in Thread, Acquire(j) \/ Give(j) PROVE BoxInv'
  <2>1. /\ \A k \in Thread : k # j => at'[k] = at[k]
        /\ at[j] \in {"lock", "unlock"} /\ at'[j] \in {"read", "ring", "out"} /\ (at[j] = "lock" => at'[j] = "read")
        /\ job' = job /\ box' = box /\ copy' = copy
    BY <1>1, <1>7 DEF Acquire, Give, Goes, IntercoreTypeOK
  <2>2. CopyFresh'
    BY <1>2, <2>1 DEF BoxInv, CopyFresh, Critical
  <2>3. OwnBell' /\ TakenBack'
    BY <1>3, <2>1 DEF BoxInv, OwnBell, TakenBack
  <2> QED BY <1>1, <2>2, <2>3 DEF BoxInv
<1>8. ASSUME NEW j \in Thread, ReadBox(j) PROVE BoxInv'
  <2>1. at[j] = "read" /\ at' = [at EXCEPT ![j] = "write"] /\ job' = job /\ box' = box
        /\ copy' = [copy EXCEPT ![j] = box[Target(j)]]
    BY <1>8 DEF ReadBox, Goes
  <2>2. CopyFresh'
    BY <1>1, <1>2, <2>1 DEF BoxInv, CopyFresh, IntercoreTypeOK, Critical
  <2>3. OwnBell' /\ TakenBack'
    BY <1>1, <1>3, <2>1 DEF BoxInv, OwnBell, TakenBack, IntercoreTypeOK
  <2> QED BY <1>1, <2>2, <2>3 DEF BoxInv
<1>9. ASSUME NEW j \in Thread, WriteBox(j) PROVE BoxInv'
  <2>1. /\ at[j] = "write" /\ at' = [at EXCEPT ![j] = "unlock"] /\ job' = job
        /\ box' = [box EXCEPT ![Target(j)] = Edited(j)] /\ copy' = [copy EXCEPT ![j] = {}]
    BY <1>9 DEF WriteBox, Goes
  <2>2. CopyFresh'
    <3> SUFFICES ASSUME NEW k \in Thread, at'[k] = "write" PROVE (copy[k])' = (box[Target(k)])'
      BY DEF CopyFresh
    <3>1. k # j /\ at[k] = "write"
      BY <1>1, <2>1 DEF IntercoreTypeOK
    <3>2. Target(k) # Target(j) /\ Target(k)' = Target(k)
      BY <1>1, <1>2, <2>1, <3>1, WritesAlone DEF Critical
    <3> QED BY <1>1, <2>1, <3>1, <3>2, TargetIsCore DEF BoxInv, CopyFresh, IntercoreTypeOK
  <2>3. OwnBell'
    BY <1>1, <1>3, <2>1 DEF BoxInv, OwnBell, IntercoreTypeOK
  <2>4. TakenBack'
    <3> SUFFICES ASSUME NEW c \in Core, at'[<<c, "main">>] \in {"unlock", "ring"}, job[c].undo
                 PROVE  job[c].bell \notin box'[job[c].target]
      BY <2>1 DEF TakenBack
    <3>1. CASE j = <<c, "main">>
      <4>1. Target(j) = job[c].target /\ Edited(j) = copy[j] \ {job[c].bell}
        BY <3>1 DEF Target, Edited
      <4> QED BY <1>1, <2>1, <4>1, TargetIsCore DEF IntercoreTypeOK
    <3>2. CASE j # <<c, "main">>
      <4>1. at[<<c, "main">>] \in {"unlock", "ring"} /\ job[c].bell \notin box[job[c].target]
        BY <1>1, <1>3, <2>1, <3>2 DEF BoxInv, TakenBack, IntercoreTypeOK
      <4>2. job[c].bell \notin Edited(j) \/ job[c].bell \in copy[j]
        <5>1. Sender[job[c].bell] = c
          BY <4>1 DEF BoxInv, OwnBell
        <5>2. CASE j[2] = "handler"
          BY <5>2 DEF Edited
        <5>3. CASE j[2] = "main"
          <6>1. j[1] \in Core /\ j = <<j[1], "main">> /\ j[1] # c
            BY <3>2, <5>3 DEF Thread
          <6>2. Sender[job[j[1]].bell] = j[1]
            BY <2>1, <6>1 DEF BoxInv, OwnBell
          <6> QED BY <5>1, <5>3, <6>1, <6>2 DEF Edited
        <5> QED BY <5>2, <5>3 DEF Thread
      <4>3. copy[j] = box[Target(j)]
        BY <2>1 DEF BoxInv, CopyFresh
      <4> QED BY <1>1, <2>1, <4>1, <4>2, <4>3, TargetIsCore DEF IntercoreTypeOK, Job
    <3> QED BY <3>1, <3>2
  <2> QED BY <1>1, <2>2, <2>3, <2>4 DEF BoxInv
<1>10. CASE UNCHANGED intercoreVars
  <2>1. at' = at /\ job' = job /\ box' = box /\ copy' = copy
    BY <1>10 DEF intercoreVars
  <2>2. CopyFresh' /\ OwnBell' /\ TakenBack'
    BY <2>1 DEF BoxInv, CopyFresh, OwnBell, TakenBack, Target
  <2> QED BY <1>1, <2>2 DEF BoxInv
<1> QED BY <1>4, <1>5, <1>6, <1>7, <1>8, <1>9, <1>10 DEF IntercoreNext

LEMMA LevelPreserved == IntercoreTypeOK /\ IrqFollows /\ [IntercoreNext]_intercoreVars => IrqFollows'
<1> SUFFICES ASSUME IntercoreTypeOK, IrqFollows, [IntercoreNext]_intercoreVars PROVE IrqFollows'
  OBVIOUS
<1>1. ASSUME NEW t \in Core, NEW set, NEW clear, ringDoorbell(t, set, clear) PROVE IrqFollows'
  BY <1>1 DEF ringDoorbell, IrqFollows, IntercoreTypeOK
<1>2. ASSUME UNCHANGED <<doorbellIn, bellIrq>> PROVE IrqFollows'
  BY <1>2 DEF IrqFollows
<1>3. ASSUME NEW c \in Core, NEW t \in Core, NEW b \in Bell, NEW undo \in BOOLEAN, Begin(c, t, b, undo) PROVE IrqFollows'
  BY <1>2, <1>3 DEF Begin, registers
<1>4. ASSUME NEW c \in Core, Interrupt(c) \/ Look(c) PROVE IrqFollows'
  BY <1>2, <1>4 DEF Interrupt, Look, registers
<1>5. ASSUME NEW c \in Core, Answer(c) PROVE IrqFollows'
  BY <1>1, <1>5 DEF Answer, WriteDoorbellClr
<1>6. ASSUME NEW c \in Core, RingBell(c) PROVE IrqFollows'
  BY <1>1, <1>6 DEF RingBell, WriteDoorbellSet, WriteDoorbellClr, IntercoreTypeOK, Job
<1>7. ASSUME NEW k \in Thread, Acquire(k) \/ ReadBox(k) \/ WriteBox(k) \/ Give(k) PROVE IrqFollows'
  BY <1>2, <1>7 DEF Acquire, ReadBox, WriteBox, Give, registers
<1>8. CASE UNCHANGED intercoreVars
  BY <1>2, <1>8 DEF intercoreVars, registers
<1> QED BY <1>3, <1>4, <1>5, <1>6, <1>7, <1>8 DEF IntercoreNext

LEMMA StillWaiting ==
    ASSUME BoxInv, NoneForgotten, [IntercoreNext]_intercoreVars, NEW c \in Core, NEW b \in Bell, b \in box'[c]
    PROVE  Waiting(c, b)'
<1>1. IntercoreTypeOK /\ Sender[b] \in Core
  BY FirmwareAssumption DEF BoxInv, LockInv
<1>2. <<c, "handler">> \in Thread /\ <<Sender[b], "main">> \in Thread
  BY <1>1 DEF Thread
<1>3. b \in box[c] => Waiting(c, b)
  BY DEF NoneForgotten
<1>4. ASSUME NEW h \in Core, NEW t \in Core, NEW bell \in Bell, NEW undo \in BOOLEAN, Begin(h, t, bell, undo)
      PROVE  Waiting(c, b)'
  BY <1>1, <1>2, <1>3, <1>4 DEF Begin, Goes, Waiting, IntercoreTypeOK, registers
<1>5. ASSUME NEW h \in Core, Interrupt(h) \/ Look(h) PROVE Waiting(c, b)'
  BY <1>1, <1>2, <1>3, <1>5 DEF Interrupt, Look, Goes, Waiting, IntercoreTypeOK, registers
<1>6. ASSUME NEW h \in Core, Answer(h) PROVE Waiting(c, b)'
  <2>1. /\ at[<<h, "handler">>] = "answer" /\ at' = [at EXCEPT ![<<h, "handler">>] = "lock"]
        /\ doorbellIn' = [doorbellIn EXCEPT ![h] = (@ \cup {}) \ seen[h]]
        /\ box' = box /\ job' = job /\ seen' = seen
    BY <1>6 DEF Answer, Goes, WriteDoorbellClr, ringDoorbell
  <2> QED BY <1>1, <1>2, <1>3, <2>1 DEF Waiting, IntercoreTypeOK
<1>7. ASSUME NEW h \in Core, RingBell(h) PROVE Waiting(c, b)'
  <2> DEFINE s == <<h, "main">>  t == job[h].target
  <2>1. /\ at[s] = "ring" /\ at' = [at EXCEPT ![s] = "out"] /\ job' = [job EXCEPT ![h] = NoJob(h)]
        /\ box' = box /\ seen' = seen
    BY <1>7 DEF RingBell, Goes
  <2>2. s \in Thread /\ t \in Core /\ Sender[job[h].bell] = h
    BY <1>1, <2>1 DEF Thread, IntercoreTypeOK, Job, BoxInv, OwnBell
  <2>3. CASE job[h].undo
    <3>1. doorbellIn' = [doorbellIn EXCEPT ![t] = (@ \cup {}) \ {job[h].bell}]
      BY <1>7, <2>3 DEF RingBell, WriteDoorbellClr, ringDoorbell
    <3>2. job[h].bell \notin box[t]
      BY <2>1, <2>3 DEF BoxInv, TakenBack
    <3>3. b \in doorbellIn[c] => b \in doorbellIn'[c]
      BY <1>1, <2>1, <2>2, <3>1, <3>2 DEF IntercoreTypeOK
    <3>4. \A k \in Thread : k # s => at'[k] = at[k]
      BY <1>1, <2>1 DEF IntercoreTypeOK
    <3>5. Sender[b] = h => job[h] # [target |-> c, bell |-> b, undo |-> FALSE]
      BY <2>3
    <3>6. Sender[b] # h => job'[Sender[b]] = job[Sender[b]] /\ at'[<<Sender[b], "main">>] = at[<<Sender[b], "main">>]
      BY <1>1, <1>2, <2>1, <3>4 DEF IntercoreTypeOK
    <3> QED BY <1>2, <1>3, <2>1, <3>3, <3>4, <3>5, <3>6 DEF Waiting
  <2>4. CASE ~job[h].undo
    <3>1. doorbellIn' = [doorbellIn EXCEPT ![t] = (@ \cup {job[h].bell}) \ {}]
      BY <1>7, <2>4 DEF RingBell, WriteDoorbellSet, ringDoorbell
    <3>2. \A k \in Thread : k # s => at'[k] = at[k]
      BY <1>1, <2>1 DEF IntercoreTypeOK
    <3>3. b \in doorbellIn[c] => b \in doorbellIn'[c]
      BY <1>1, <2>2, <3>1 DEF IntercoreTypeOK
    <3>4. CASE Sender[b] = h /\ job[h] = [target |-> c, bell |-> b, undo |-> FALSE]
      BY <1>1, <2>2, <3>1, <3>4 DEF Waiting, IntercoreTypeOK
    <3>5. CASE Sender[b] # h
      <4>1. job'[Sender[b]] = job[Sender[b]] /\ at'[<<Sender[b], "main">>] = at[<<Sender[b], "main">>]
        BY <1>1, <1>2, <2>1, <3>2, <3>5 DEF IntercoreTypeOK
      <4> QED BY <1>2, <1>3, <2>1, <3>2, <3>3, <4>1 DEF Waiting
    <3>6. CASE Sender[b] = h /\ job[h] # [target |-> c, bell |-> b, undo |-> FALSE]
      BY <1>2, <1>3, <2>1, <3>2, <3>3, <3>6 DEF Waiting
    <3> QED BY <3>4, <3>5, <3>6
  <2> QED BY <2>3, <2>4
<1>8. ASSUME NEW k \in Thread, Acquire(k) \/ ReadBox(k) PROVE Waiting(c, b)'
  BY <1>1, <1>2, <1>3, <1>8 DEF Acquire, ReadBox, Goes, Waiting, IntercoreTypeOK, registers
<1>9. ASSUME NEW k \in Thread, Give(k) PROVE Waiting(c, b)'
  BY <1>1, <1>2, <1>3, <1>9 DEF Give, Goes, Waiting, IntercoreTypeOK, registers
<1>10. ASSUME NEW k \in Thread, WriteBox(k) PROVE Waiting(c, b)'
  <2>1. /\ at[k] = "write" /\ at' = [at EXCEPT ![k] = "unlock"] /\ job' = job /\ doorbellIn' = doorbellIn
        /\ box' = [box EXCEPT ![Target(k)] = Edited(k)]
        /\ seen' = IF k[2] = "handler" THEN [seen EXCEPT ![k[1]] = {}] ELSE seen
    BY <1>10 DEF WriteBox, Goes, registers
  <2>2. copy[k] = box[Target(k)] /\ Target(k) \in Core
    BY <1>1, <2>1, TargetIsCore DEF BoxInv, CopyFresh
  <2>3. \A j \in Thread : j # k => at'[j] = at[j]
    BY <1>1, <2>1 DEF IntercoreTypeOK
  <2>4. CASE k = <<c, "handler">>
    <3>1. Target(k) = c /\ Edited(k) = copy[k] \ seen[c]
      BY <2>4 DEF Target, Edited
    <3>2. b \in box[c] /\ b \notin seen[c]
      BY <1>1, <2>1, <2>2, <3>1 DEF IntercoreTypeOK
    <3>3. <<Sender[b], "main">> # k
      BY <2>4
    <3> QED BY <1>2, <1>3, <2>1, <2>3, <3>2, <3>3 DEF Waiting
  <2>5. CASE k # <<c, "handler">> /\ b \in box[c]
    <3>1. seen'[c] = seen[c]
      BY <1>1, <2>1, <2>5 DEF IntercoreTypeOK, Thread
    <3>2. at'[<<c, "handler">>] = at[<<c, "handler">>]
      BY <1>2, <2>3, <2>5
    <3>3. at[<<Sender[b], "main">>] \in {"unlock", "ring"} => at'[<<Sender[b], "main">>] = at[<<Sender[b], "main">>]
      BY <1>2, <2>1, <2>3
    <3> QED BY <1>3, <2>1, <2>5, <3>1, <3>2, <3>3 DEF Waiting
  <2>6. CASE k # <<c, "handler">> /\ b \notin box[c]
    <3>1. Target(k) = c /\ b \in Edited(k)
      BY <1>1, <2>1, <2>2, <2>6 DEF IntercoreTypeOK
    <3>2. b \notin copy[k]
      BY <2>2, <2>6, <3>1
    <3>3. k[2] = "main" /\ k[1] \in Core /\ k = <<k[1], "main">>
      BY <2>6, <3>1, <3>2 DEF Edited, Thread
    <3>4. ~job[k[1]].undo /\ job[k[1]].bell = b
      BY <1>1, <3>1, <3>2, <3>3 DEF Edited, IntercoreTypeOK, Job
    <3>5. Sender[b] = k[1]
      BY <2>1, <3>3, <3>4 DEF BoxInv, OwnBell
    <3>6. job[k[1]] = [target |-> c, bell |-> b, undo |-> FALSE]
      BY <1>1, <3>1, <3>3, <3>4 DEF Target, IntercoreTypeOK, Job
    <3> QED BY <1>1, <2>1, <3>3, <3>5, <3>6 DEF Waiting, IntercoreTypeOK
  <2> QED BY <2>4, <2>5, <2>6
<1>11. CASE UNCHANGED intercoreVars
  BY <1>3, <1>11 DEF intercoreVars, registers, Waiting
<1> QED BY <1>4, <1>5, <1>6, <1>7, <1>8, <1>9, <1>10, <1>11 DEF IntercoreNext

LEMMA NoneForgottenPreserved == BoxInv /\ NoneForgotten /\ [IntercoreNext]_intercoreVars => NoneForgotten'
<1> SUFFICES ASSUME BoxInv, NoneForgotten, [IntercoreNext]_intercoreVars PROVE NoneForgotten'
  OBVIOUS
<1>1. IntercoreTypeOK'
  BY IntercoreTypePreserved DEF BoxInv, LockInv
<1>2. ASSUME NEW c \in Core, NEW b \in box'[c] PROVE Waiting(c, b)'
  <2>1. b \in Bell
    BY <1>1 DEF IntercoreTypeOK
  <2> QED BY <2>1, StillWaiting
<1> QED BY <1>2 DEF NoneForgotten

-----------------------------------------------------------------------------

LEMMA IntercoreInvHolds == IntercoreSpec => []IntercoreInv
<1>1. IntercoreInit => IntercoreInv
  BY IntercoreInvInit
<1>2. IntercoreInv /\ [IntercoreNext]_intercoreVars => IntercoreInv'
  BY BoxesPreserved, LevelPreserved, NoneForgottenPreserved DEF IntercoreInv, BoxInv, LockInv
<1> QED BY <1>1, <1>2, PTL DEF IntercoreSpec

\* The spinlocks, bells, boxes and threads keep their types.
THEOREM IntercoreTypeCorrect == IntercoreSpec => []IntercoreTypeOK
<1>1. IntercoreInv => IntercoreTypeOK
  BY DEF IntercoreInv, BoxInv, LockInv
<1> QED BY <1>1, IntercoreInvHolds, PTL

\* However the two cores and their handlers use the spinlocks and doorbells
\* (sio_rp2350.ts:72-81, 142-147, 187-191), no two of them are at a box at once
\* and no request is left in one that nobody will hear of.
THEOREM IntercoreIsSound == IntercoreSpec => []IntercoreSound
<1>1. IntercoreInv => IntercoreSound
  BY FirmwareAssumption DEF IntercoreInv, BoxInv, LockInv, IntercoreSound, Announced, NoneForgotten, Waiting, IrqFollows, IntercoreTypeOK
<1> QED BY <1>1, IntercoreInvHolds, PTL

-----------------------------------------------------------------------------
(* The launch of core 1. *)

Label == {"early", "held", "launch", "drain", "drainRead", "drained", "waitRdy",
          "push", "sent", "checkVld", "block", "pop", "idle"}
Talking == {"idle", "waitRdy", "push", "sent", "checkVld", "block", "pop"}

LaunchTypeOK ==
    /\ TypeOK
    /\ pc \in [Core -> Label]
    /\ sent \in [Core -> Seq(Word)] /\ got \in [Core -> Seq(Word)]

\* Until the call of the launch, core 1's mailbox holds what core 0 sent early.
BeforeLaunch ==
    /\ turn = 0 /\ ~waiting[0] /\ seq = 0 /\ request = None /\ core1At = None
    /\ launchCapturing = FALSE /\ launchBuf = <<>>
    /\ Len(inbox[1]) <= MaxEarly
    /\ \A i \in 1 .. Len(inbox[1]) : inbox[1][i] \in Early[0]
    /\ got = [c \in Core |-> <<>>]
    /\ \/ /\ core1Launched = TRUE /\ launchWaiting = FALSE
          /\ pc[0] = "early" /\ pc[1] = "early"
          /\ Len(inbox[1]) <= Len(sent[0])
       \/ /\ core1Launched = FALSE /\ launchWaiting = TRUE
          /\ pc[0] = "launch" /\ pc[1] = "held"
          /\ sent = [c \in Core |-> <<>>]

\* The words that wait for core 1's loop do not complete a launch.
Harmless ==
    /\ launchCapturing = FALSE => launchBuf = <<>>
    /\ \/ /\ launchCapturing = FALSE
          /\ \A i \in 1 .. Len(inbox[1]) : inbox[1][i] # 1
       \/ Len(inbox[1]) + (IF launchCapturing = TRUE THEN 1 + Len(launchBuf) ELSE 0) <= 3

\* The loop has taken in the first n commands of the launch.
Taken(n) ==
    /\ n \in {1, 2} => launchCapturing = FALSE /\ launchBuf = <<>>
    /\ n = 3 => launchCapturing = TRUE /\ launchBuf = <<>>
    /\ n = 4 => launchCapturing = TRUE /\ launchBuf = <<request[1]>>
    /\ n = 5 => launchCapturing = TRUE /\ launchBuf = <<request[1], request[2]>>

\* Where core 0 is between two of its commands, and where the command is: not
\* sent, on its way to core 1's loop, or echoed.
Draining ==
    /\ pc[0] \in {"drain", "drainRead"}
    /\ turn = 0 => inbox[1] = <<>>
    /\ \/ seq = 1 /\ Harmless
       \/ seq = 2 /\ inbox[1] = <<>> /\ Taken(1)
Unsent ==
    /\ pc[0] \in {"drained", "waitRdy", "push"}
    /\ inbox[0] = <<>> /\ inbox[1] = <<>> /\ Taken(seq - 1)
OnItsWay ==
    /\ pc[0] = "sent" /\ turn = 1
    /\ inbox[0] = <<>> /\ inbox[1] = <<word[0]>> /\ Taken(seq - 1)
Echoed ==
    /\ pc[0] \in {"sent", "checkVld", "block", "pop"} /\ seq <= 5
    /\ inbox[0] = <<word[0]>> /\ inbox[1] = <<>> /\ Taken(seq)

Handshake ==
    /\ core1Launched = FALSE /\ launchWaiting = TRUE /\ pc[1] = "held"
    /\ request \in Params /\ core1At = None
    /\ seq \in 1 .. 6 /\ word[0] = Command[seq]
    /\ sent = [c \in Core |-> <<>>] /\ got = [c \in Core |-> <<>>]
    /\ Draining \/ Unsent \/ OnItsWay \/ Echoed

\* The last echo may be waiting for core 0 when core 1's first words follow it.
LastEcho == IF seq = 6 THEN <<word[0]>> ELSE <<>>

Running ==
    /\ core1Launched = TRUE /\ launchWaiting = FALSE
    /\ request \in Params /\ core1At = request
    /\ pc[0] \in Talking /\ pc[1] \in Talking
    /\ seq \in {0, 6}
    /\ seq = 6 => /\ pc[0] \in {"sent", "checkVld", "block", "pop"}
                  /\ word[0] = Command[6] /\ sent[0] = <<>> /\ got[0] = <<>>
    /\ got[0] \o inbox[0] = LastEcho \o sent[1]
    /\ got[1] \o inbox[1] = sent[0]
    /\ \A c \in Core : pc[c] = "push" => RDY(c)
    /\ \A c \in Core : pc[c] = "pop" => VLD(c)

LaunchInv == LaunchTypeOK /\ (BeforeLaunch \/ Handshake \/ Running)

\* The mailboxes as queues, and what the registers do to them.
LEMMA InboxTypes ==
    ASSUME FifoTypeOK
    PROVE  \A c \in Core : /\ inbox[c] \in Seq(Word) /\ Len(inbox[c]) <= Depth
                           /\ inbox[c] = items(rxFIFO[c]) /\ rxFIFO[c] \in Ring
                           /\ VLD(c) <=> inbox[c] # <<>>
                           /\ full(rxFIFO[c]) <=> Len(inbox[c]) = Depth
                           /\ RDY(c) <=> Len(inbox[Other[c]]) # Depth
<1>1. \A d \in Core : /\ rxFIFO[d] \in Ring
                      /\ rxFIFO[d].used \in 0 .. Depth
                      /\ items(rxFIFO[d]) \in Seq(Word)
                      /\ Len(items(rxFIFO[d])) = rxFIFO[d].used
  BY ItemsType DEF FifoTypeOK, Ring
<1>2. \A d \in Core : inbox[d] = items(rxFIFO[d])
  BY DEF inbox
<1>3. \A d \in Core : VLD(d) <=> inbox[d] # <<>>
  BY InboxFacts
<1> QED BY <1>1, <1>2, <1>3, OtherFacts DEF RDY, full

\* The same as a state predicate, which holds of the next state as well.
InboxAgrees ==
    \A c \in Core : /\ inbox[c] \in Seq(Word) /\ Len(inbox[c]) <= Depth /\ Len(inbox[c]) \in Nat
                    /\ VLD(c) <=> inbox[c] # <<>>
                    /\ RDY(c) <=> Len(inbox[Other[c]]) # Depth

LEMMA InboxAgreement == FifoTypeOK => InboxAgrees
<1> SUFFICES ASSUME FifoTypeOK PROVE InboxAgrees
  OBVIOUS
<1>1. \A c \in Core : /\ inbox[c] \in Seq(Word) /\ Len(inbox[c]) <= Depth
                      /\ VLD(c) <=> inbox[c] # <<>>
                      /\ RDY(c) <=> Len(inbox[Other[c]]) # Depth
  BY InboxTypes
<1>2. \A c \in Core : Len(inbox[c]) \in Nat
  BY <1>1
<1> QED BY <1>1, <1>2 DEF InboxAgrees

LEMMA ReadInbox ==
    ASSUME FifoTypeOK, NEW c \in Core, ReadRD(c)
    PROVE  /\ FifoTypeOK'
           /\ inbox[c] # <<>> => /\ peek(rxFIFO[c]) = Head(inbox[c])
                                 /\ inbox' = [inbox EXCEPT ![c] = Tail(@)]
           /\ inbox[c] = <<>> => inbox' = inbox
<1>1. inbox[c] = items(rxFIFO[c]) /\ (VLD(c) <=> inbox[c] # <<>>)
  BY InboxTypes
<1>2. CASE VLD(c) /\ rxFIFO' = [rxFIFO EXCEPT ![c] = pull(@)] /\ UNCHANGED <<WOF, ROE, irq>>
  <2>1. /\ items(pull(rxFIFO[c])) = Tail(items(rxFIFO[c])) /\ pull(rxFIFO[c]) \in Ring
        /\ peek(rxFIFO[c]) = Head(items(rxFIFO[c]))
    BY <1>2, PullFacts DEF VLD, FifoTypeOK
  <2>2. inbox' = [inbox EXCEPT ![c] = Tail(@)]
    BY <1>2, <2>1 DEF inbox, FifoTypeOK
  <2>3. FifoTypeOK'
    BY <1>2, <2>1 DEF FifoTypeOK
  <2> QED BY <1>1, <1>2, <2>1, <2>2, <2>3
<1>3. CASE /\ ~VLD(c) /\ ROE' = [ROE EXCEPT ![c] = TRUE] /\ irq' = [irq EXCEPT ![c] = TRUE]
           /\ UNCHANGED <<rxFIFO, WOF>>
  <2>1. inbox' = inbox
    BY <1>3 DEF inbox
  <2>2. FifoTypeOK'
    BY <1>3 DEF FifoTypeOK
  <2> QED BY <1>1, <1>3, <2>1, <2>2
<1> QED BY <1>2, <1>3 DEF ReadRD

LEMMA WriteInbox ==
    ASSUME FifoTypeOK, NEW c \in Core, NEW w \in Word, WriteWR(c, w)
    PROVE  /\ FifoTypeOK'
           /\ Len(inbox[Other[c]]) < Depth => inbox' = [inbox EXCEPT ![Other[c]] = Append(@, w)]
           /\ Len(inbox[Other[c]]) = Depth => inbox' = inbox
<1>1. Len(inbox[Other[c]]) \in Nat /\ (RDY(c) <=> Len(inbox[Other[c]]) # Depth)
  BY InboxTypes, OtherFacts
<1>2. CASE /\ RDY(c) /\ rxFIFO' = [rxFIFO EXCEPT ![Other[c]] = push(@, w)]
           /\ irq' = [irq EXCEPT ![Other[c]] = TRUE] /\ UNCHANGED <<WOF, ROE>>
  <2>1. /\ items(push(rxFIFO[Other[c]], w)) = Append(items(rxFIFO[Other[c]]), w)
        /\ push(rxFIFO[Other[c]], w) \in Ring
    BY <1>2, PushFacts, OtherFacts DEF RDY, FifoTypeOK
  <2>2. inbox' = [inbox EXCEPT ![Other[c]] = Append(@, w)]
    BY <1>2, <2>1, OtherFacts DEF inbox, FifoTypeOK
  <2>3. FifoTypeOK'
    BY <1>2, <2>1, OtherFacts DEF FifoTypeOK
  <2> QED BY <1>1, <1>2, <2>2, <2>3
<1>3. CASE /\ ~RDY(c) /\ WOF' = [WOF EXCEPT ![c] = TRUE] /\ irq' = [irq EXCEPT ![c] = TRUE]
           /\ UNCHANGED <<rxFIFO, ROE>>
  <2>1. inbox' = inbox
    BY <1>3 DEF inbox
  <2>2. FifoTypeOK'
    BY <1>3 DEF FifoTypeOK
  <2> QED BY <1>1, <1>3, <2>1, <2>2
<1> QED BY <1>2, <1>3 DEF WriteWR

\* The loop takes a word from core 1's mailbox and puts it into core 0's, if it fits.
LEMMA EchoInbox ==
    ASSUME FifoTypeOK, inbox[1] # <<>>, UNCHANGED <<WOF, ROE, irq>>,
           rxFIFO' = launchEcho([rxFIFO EXCEPT ![1] = pull(@)], Incoming)
    PROVE  /\ FifoTypeOK' /\ Incoming = Head(inbox[1]) /\ Incoming \in Word
           /\ inbox'[1] = Tail(inbox[1])
           /\ Len(inbox[0]) < Depth => inbox'[0] = Append(inbox[0], Incoming)
<1>1. 0 \in Core /\ 1 \in Core /\ \A c \in Core : c = 0 \/ c = 1
  BY DEF Core
<1>2. /\ \A c \in Core : rxFIFO[c] \in Ring /\ inbox[c] = items(rxFIFO[c]) /\ inbox[c] \in Seq(Word)
      /\ VLD(1) /\ (full(rxFIFO[0]) <=> Len(inbox[0]) = Depth)
  BY <1>1, InboxTypes
<1> DEFINE w == Incoming
<1>3. /\ pull(rxFIFO[1]) \in Ring /\ items(pull(rxFIFO[1])) = Tail(inbox[1])
      /\ w = Head(inbox[1])
  BY <1>1, <1>2, PullFacts DEF VLD, Incoming
<1>4. w \in Word
  BY <1>1, <1>2, <1>3, HeadTailProperties
<1> HIDE DEF w
<1>5. /\ ~full(rxFIFO[0]) => push(rxFIFO[0], w) \in Ring /\ items(push(rxFIFO[0], w)) = Append(inbox[0], w)
  BY <1>1, <1>2, <1>4, PushFacts
<1>6. /\ rxFIFO'[1] = pull(rxFIFO[1])
      /\ rxFIFO'[0] = IF full(rxFIFO[0]) THEN rxFIFO[0] ELSE push(rxFIFO[0], w)
      /\ DOMAIN rxFIFO' = Core
  BY <1>1 DEF launchEcho, FifoTypeOK, w
<1>7. FifoTypeOK'
  <2>1. rxFIFO' \in [Core -> Ring]
    <3>1. \A c \in Core : rxFIFO'[c] \in Ring
      BY <1>1, <1>2, <1>3, <1>5, <1>6
    <3>2. rxFIFO' = [c \in Core |-> rxFIFO'[c]]
      BY <1>6 DEF launchEcho, FifoTypeOK
    <3> QED BY <3>1, <3>2
  <2> QED BY <2>1 DEF FifoTypeOK
<1>8. inbox'[0] = items(rxFIFO'[0]) /\ inbox'[1] = items(rxFIFO'[1])
  BY <1>1 DEF inbox
<1> QED BY <1>2, <1>3, <1>4, <1>5, <1>6, <1>7, <1>8 DEF w

LEMMA Cores == 0 \in Core /\ 1 \in Core /\ Other[0] = 1 /\ Other[1] = 0 /\ \A c \in Core : c = 0 \/ c = 1
BY DEF Core, Other

LEMMA LaunchInvInit == LaunchConstants /\ Init => LaunchInv
<1> SUFFICES ASSUME LaunchConstants, Init PROVE LaunchInv
  OBVIOUS
<1>1. FifoTypeOK /\ \A c \in Core : inbox[c] = <<>>
  BY NewFifoFacts DEF Init, FifoInit, FifoTypeOK, inbox
<1>2. LaunchTypeOK
  <2>1. <<>> \in Seq(Word) /\ Len(<<>>) = 0
    OBVIOUS
  <2>2. TypeOK
    BY <1>1, <2>1, Cores DEF Init, TypeOK
  <2>3. pc \in [Core -> Label] /\ sent \in [Core -> Seq(Word)] /\ got \in [Core -> Seq(Word)]
    BY <2>1 DEF Init, Label
  <2> QED BY <2>2, <2>3 DEF LaunchTypeOK
<1>3. BeforeLaunch
  BY <1>1, Cores, BoundsAssumption DEF Init, BeforeLaunch
<1> QED BY <1>2, <1>3 DEF LaunchInv

\* What core 0 has sent early completes no launch.
LEMMA EarlyIsHarmless ==
    ASSUME LaunchConstants, LaunchTypeOK, BeforeLaunch PROVE Harmless
<1>1. /\ inbox[1] \in Seq(Word) /\ Len(inbox[1]) \in Nat /\ Len(inbox[1]) <= Depth /\ MaxEarly \in Nat
      /\ Len(inbox[1]) <= MaxEarly
  BY InboxTypes, Cores, BoundsAssumption DEF LaunchTypeOK, TypeOK, BeforeLaunch
<1>2. launchCapturing = FALSE /\ launchBuf = <<>>
  BY DEF BeforeLaunch
<1>3. CASE 1 \notin Early[0]
  BY <1>2, <1>3 DEF BeforeLaunch, Harmless
<1>4. CASE MaxEarly <= 3 \/ Depth <= 3
  <2>1. Len(inbox[1]) <= 3
    BY <1>1, <1>4
  <2> QED BY <1>1, <1>2, <2>1 DEF Harmless
<1> QED BY <1>3, <1>4 DEF LaunchConstants

LEMMA BeforeLaunchStep ==
    ASSUME LaunchConstants, LaunchTypeOK, BeforeLaunch, Next PROVE LaunchInv'
<1> USE Cores
<1>0. /\ FifoTypeOK /\ \A c \in Core : inbox[c] \in Seq(Word) /\ Len(inbox[c]) \in Nat /\ Len(inbox[c]) <= Depth
      /\ Len(sent[0]) \in Nat /\ MaxEarly \in Nat /\ DOMAIN inbox = Core
  <2>1. FifoTypeOK /\ Len(sent[0]) \in Nat /\ MaxEarly \in Nat
    BY BoundsAssumption DEF LaunchTypeOK, TypeOK
  <2>2. DOMAIN inbox = Core
    BY DEF inbox
  <2> QED BY <2>1, <2>2, InboxTypes
<1>1. ASSUME NEW c \in Core, EarlySend(c) PROVE LaunchInv'
  <2>1. PICK w \in Early[c] : WriteWR(c, w) /\ sent' = [sent EXCEPT ![c] = Append(@, w)]
    BY <1>1 DEF EarlySend
  <2>2. w \in Word
    BY DEF LaunchConstants
  <2>3. /\ FifoTypeOK'
        /\ Len(inbox[Other[c]]) < Depth => inbox' = [inbox EXCEPT ![Other[c]] = Append(@, w)]
        /\ Len(inbox[Other[c]]) = Depth => inbox' = inbox
    BY <1>0, <2>1, <2>2, WriteInbox
  <2>4. LaunchTypeOK'
    BY <1>1, <2>1, <2>2, <2>3 DEF EarlySend, LaunchTypeOK, TypeOK, launchVars
  <2>5. /\ \A i \in 1 .. Len(inbox'[1]) : inbox'[1][i] \in Early[0]
        /\ Len(inbox'[1]) <= Len(sent'[0]) /\ Len(inbox'[1]) <= MaxEarly
    <3>0. Len(sent[c]) < MaxEarly /\ sent \in [Core -> Seq(Word)] /\ pc[c] = "early"
      BY <1>1 DEF EarlySend, LaunchTypeOK
    <3>1. CASE c = 0
      <4>0. Len(inbox[1]) <= Len(sent[0]) /\ \A i \in 1 .. Len(inbox[1]) : inbox[1][i] \in Early[0]
        BY <3>0, <3>1 DEF BeforeLaunch
      <4>1. Len(sent'[0]) = Len(sent[0]) + 1
        BY <2>1, <3>0, <3>1
      <4>2. CASE Len(inbox[1]) < Depth
        <5>1. inbox'[1] = Append(inbox[1], w)
          BY <2>3, <3>1, <4>2 DEF inbox
        <5> QED BY <1>0, <2>1, <3>0, <3>1, <4>0, <4>1, <5>1
      <4>3. CASE Len(inbox[1]) = Depth
        <5>1. inbox' = inbox
          BY <2>3, <3>1, <4>3
        <5> QED BY <1>0, <3>0, <3>1, <4>0, <4>1, <5>1
      <4>4. Len(inbox[1]) <= Depth /\ Len(inbox[1]) \in Nat /\ Depth \in Nat
        BY <1>0
      <4> QED BY <4>2, <4>3, <4>4
    <3>2. CASE c = 1
      <4>1. inbox'[1] = inbox[1] /\ sent'[0] = sent[0]
        <5>1. Len(inbox[0]) < Depth \/ Len(inbox[0]) = Depth
          BY <1>0
        <5>2. inbox' = [inbox EXCEPT ![0] = Append(@, w)] \/ inbox' = inbox
          BY <2>3, <3>2, <5>1
        <5> QED BY <1>0, <2>1, <3>0, <3>2, <5>2
      <4>2. pc[1] = "early" => Len(inbox[1]) <= Len(sent[0])
        BY DEF BeforeLaunch
      <4> QED BY <1>0, <3>0, <3>2, <4>1, <4>2 DEF BeforeLaunch
    <3> QED BY <3>1, <3>2
  <2>6. BeforeLaunch'
    BY <1>0, <1>1, <2>5 DEF EarlySend, BeforeLaunch, launchVars
  <2> QED BY <2>4, <2>6 DEF LaunchInv
<1>2. ASSUME holdCore1ForLaunch PROVE LaunchInv'
  <2>1. /\ rxFIFO' = launchEcho(rxFIFO, 0) /\ pc[0] = "early"
        /\ UNCHANGED <<WOF, ROE, irq, turn, core1At, waiting, eventRegistered, word, seq, request, got>>
    BY <1>2 DEF holdCore1ForLaunch
  <2>2. FifoTypeOK' /\ inbox'[1] = inbox[1]
    <3>1. push(rxFIFO[0], 0) \in Ring \/ full(rxFIFO[0])
      BY <1>0, PushFacts DEF FifoTypeOK
    <3>2. rxFIFO' \in [Core -> Ring] /\ rxFIFO'[1] = rxFIFO[1]
      BY <1>0, <2>1, <3>1 DEF launchEcho, FifoTypeOK
    <3> QED BY <1>0, <2>1, <3>2 DEF FifoTypeOK, inbox
  <2>3. LaunchTypeOK'
    <3>1. <<>> \in Seq(Word) /\ Len(<<>>) = 0
      OBVIOUS
    <3>2. TypeOK'
      <4>1. TypeOK
        BY DEF LaunchTypeOK
      <4>2. /\ launchBuf' = <<>> /\ launchWaiting' = TRUE /\ launchCapturing' = FALSE
            /\ core1Launched' = FALSE
        BY <1>2 DEF holdCore1ForLaunch
      <4> QED BY <2>1, <2>2, <3>1, <4>1, <4>2 DEF TypeOK
    <3>3. (pc \in [Core -> Label])' /\ (sent \in [Core -> Seq(Word)])' /\ (got \in [Core -> Seq(Word)])'
      BY <1>2, <2>1, <3>1 DEF holdCore1ForLaunch, LaunchTypeOK, Label
    <3> QED BY <3>2, <3>3 DEF LaunchTypeOK
  <2>4. BeforeLaunch'
    BY <1>2, <2>1, <2>2 DEF holdCore1ForLaunch, BeforeLaunch
  <2> QED BY <2>3, <2>4 DEF LaunchInv
<1>3. ASSUME Core0Step PROVE LaunchInv'
  <2>1. /\ pc[0] = "launch" /\ turn' = 1 /\ BeginLaunch
        /\ UNCHANGED <<core1Launched, launchVars, core1At>>
    BY <1>3 DEF Core0Step, Execute, BeforeLaunch, Sleep, Drain, DrainRead, Signal, WaitRdy, Push,
               CheckVld, Block, PopMessage, Choose, Finished, PopEcho
  <2>2. PICK p \in Params : request' = p
    BY <2>1 DEF BeginLaunch
  <2>3. /\ UNCHANGED <<rxFIFO, WOF, ROE, irq, waiting, eventRegistered, sent, got>>
        /\ seq' = 1 /\ word' = [word EXCEPT ![0] = 0] /\ pc' = [pc EXCEPT ![0] = "drain"]
        /\ UNCHANGED <<launchWaiting, launchCapturing, launchBuf>>
    BY <2>1 DEF BeginLaunch, goto, launchVars, fifoVars
  <2>4. inbox' = inbox /\ FifoTypeOK'
    BY <1>0, <2>3 DEF inbox, FifoTypeOK
  <2>5. LaunchTypeOK'
    BY <2>1, <2>2, <2>3, <2>4, WordAssumption DEF LaunchTypeOK, TypeOK, Label
  <2>6. Harmless'
    BY <2>3, <2>4, EarlyIsHarmless DEF Harmless
  <2>7. Handshake'
    <3>1. word'[0] = Command[1]'
      BY <2>3 DEF Command, LaunchTypeOK, TypeOK
    <3>2. Draining'
      BY <2>1, <2>3, <2>6 DEF Draining, LaunchTypeOK
    <3> QED BY <2>1, <2>2, <2>3, <3>1, <3>2 DEF Handshake, BeforeLaunch, LaunchTypeOK
  <2> QED BY <2>5, <2>7 DEF LaunchInv
<1>4. ~core1LaunchPoll /\ ~PollDone /\ ~Core1Step /\ ~CaughtUp
  BY DEF BeforeLaunch, core1LaunchPoll, PollDone, Core1Step, CaughtUp
<1> QED BY <1>1, <1>2, <1>3, <1>4 DEF Next

LEMMA NoWords == \A s : s = <<>> => Len(s) = 0 /\ s \in Seq(Word)
OBVIOUS

LEMMA AppendToTuples ==
    \A x, y, z \in Word : Append(<<x>>, y) = <<x, y>> /\ Append(<<x, y>>, z) = <<x, y, z>>
<1> SUFFICES ASSUME NEW x \in Word, NEW y \in Word, NEW z \in Word
             PROVE  Append(<<x>>, y) = <<x, y>> /\ Append(<<x, y>>, z) = <<x, y, z>>
  OBVIOUS
<1>1. /\ <<x>> \in Seq(Word) /\ Len(<<x>>) = 1 /\ <<x, y>> \in Seq(Word) /\ Len(<<x, y>>) = 2
      /\ <<x, y, z>> \in Seq(Word) /\ Len(<<x, y, z>>) = 3
  OBVIOUS
<1>2. Append(<<x>>, y) = <<x, y>>
  <2> DEFINE s == Append(<<x>>, y)
             t == <<x, y>>
  <2>1. /\ s \in Seq(Word) /\ Len(s) = 2 /\ s[1] = x /\ s[2] = y
    BY <1>1
  <2>2. t \in Seq(Word) /\ Len(t) = 2 /\ t[1] = x /\ t[2] = y
    OBVIOUS
  <2>3. \A i \in 1 .. 2 : i = 1 \/ i = 2
    OBVIOUS
  <2> HIDE DEF s, t
  <2>4. s = t
    BY <2>1, <2>2, <2>3, SeqEqual
  <2> QED BY <2>4 DEF s, t
<1>3. Append(<<x, y>>, z) = <<x, y, z>>
  <2> DEFINE s == Append(<<x, y>>, z)
             t == <<x, y, z>>
  <2>1. /\ s \in Seq(Word) /\ Len(s) = 3 /\ s[1] = x /\ s[2] = y /\ s[3] = z
    BY <1>1
  <2>2. t \in Seq(Word) /\ Len(t) = 3 /\ t[1] = x /\ t[2] = y /\ t[3] = z
    OBVIOUS
  <2>3. \A i \in 1 .. 3 : i = 1 \/ i = 2 \/ i = 3
    OBVIOUS
  <2> HIDE DEF s, t
  <2>4. s = t
    BY <2>1, <2>2, <2>3, SeqEqual
  <2> QED BY <2>4 DEF s, t
<1> QED BY <1>2, <1>3

LEMMA CommandFacts ==
    ASSUME LaunchConstants, request \in Params
    PROVE  /\ Command[1] = 0 /\ Command[2] = 0 /\ Command[3] = 1
           /\ Command[4] = request[1] /\ Command[5] = request[2] /\ Command[6] = request[3]
           /\ request = <<request[1], request[2], request[3]>>
           /\ request \in Word \X Word \X Word
           /\ \A i \in 1 .. 6 : Command[i] \in Word
           /\ \A i \in 3 .. 6 : Command[i] # 0
<1>1. request \in (Word \ {0}) \X (Word \ {0}) \X (Word \ {0}) /\ 1 \in Word
  BY DEF LaunchConstants
<1>2. /\ request = <<request[1], request[2], request[3]>>
      /\ request[1] \in Word \ {0} /\ request[2] \in Word \ {0} /\ request[3] \in Word \ {0}
  BY <1>1
<1>3. /\ Command[1] = 0 /\ Command[2] = 0 /\ Command[3] = 1
      /\ Command[4] = request[1] /\ Command[5] = request[2] /\ Command[6] = request[3]
  BY DEF Command
<1>4. /\ \A i \in 1 .. 6 : i = 1 \/ i = 2 \/ i = 3 \/ i = 4 \/ i = 5 \/ i = 6
      /\ \A i \in 3 .. 6 : i = 3 \/ i = 4 \/ i = 5 \/ i = 6
  OBVIOUS
<1> HIDE DEF Command
<1>5. /\ Command[1] \in Word /\ Command[2] \in Word /\ Command[3] \in Word \ {0}
      /\ Command[4] \in Word \ {0} /\ Command[5] \in Word \ {0} /\ Command[6] \in Word \ {0}
  BY <1>1, <1>2, <1>3
<1> QED BY <1>1, <1>2, <1>3, <1>4, <1>5

\* What core 1's loop makes of a word that does not complete a launch.
LEMMA PolledTypes ==
    ASSUME LaunchConstants, LaunchTypeOK, launchWaiting = TRUE, core1LaunchPoll, Len(launchBuf') # 3
    PROVE  /\ LaunchTypeOK'
           /\ UNCHANGED <<core1Launched, launchWaiting, core1At, waiting, pc, turn, word, seq,
                          request, sent, got>>
<1>1. FifoTypeOK' /\ Incoming \in Word /\ inbox[1] # <<>>
  <2>1. FifoTypeOK /\ inbox[1] # <<>>
    BY InboxTypes, Cores DEF core1LaunchPoll, LaunchTypeOK, TypeOK
  <2> QED BY <2>1, EchoInbox DEF core1LaunchPoll
<1>2. UNCHANGED <<core1Launched, launchWaiting, core1At, waiting, pc, turn, word, seq, request, sent, got>>
  BY DEF core1LaunchPoll, Release
<1>3. launchCapturing' \in BOOLEAN /\ launchBuf' \in Seq(Word) /\ Len(launchBuf') <= 3
  <2>1. launchCapturing \in BOOLEAN /\ launchBuf \in Seq(Word) /\ Len(launchBuf) <= 2 /\ Len(launchBuf) \in Nat
    BY DEF LaunchTypeOK, TypeOK
  <2>2. CASE Incoming = 0
    <3>1. launchCapturing' = FALSE /\ launchBuf' = <<>>
      BY <2>2 DEF core1LaunchPoll, Capture
    <3>2. Len(launchBuf') = 0 /\ launchBuf' \in Seq(Word)
      BY <3>1, NoWords, Zenon
    <3>3. launchCapturing' \in BOOLEAN
      BY <3>1
    <3> QED BY <3>2, <3>3
  <2>3. CASE Incoming # 0 /\ launchCapturing = FALSE
    <3>1. launchCapturing' \in BOOLEAN /\ launchBuf' = launchBuf
      BY <2>3 DEF core1LaunchPoll, Capture
    <3> QED BY <2>1, <3>1
  <2>4. CASE Incoming # 0 /\ launchCapturing = TRUE
    <3>1. launchCapturing' = TRUE /\ launchBuf' = Append(launchBuf, Incoming)
      BY <2>4 DEF core1LaunchPoll, Capture
    <3>2. launchBuf' \in Seq(Word) /\ Len(launchBuf') = Len(launchBuf) + 1
      BY <1>1, <2>1, <3>1
    <3> QED BY <2>1, <3>1, <3>2
  <2> QED BY <2>1, <2>2, <2>3, <2>4
<1>4. Len(launchBuf') <= 2
  <2>1. \A n \in Nat : n <= 3 /\ n # 3 => n <= 2
    OBVIOUS
  <2>2. Len(launchBuf') \in Nat
    BY <1>3
  <2> QED BY <1>3, <2>1, <2>2
<1>5. TypeOK
  BY DEF LaunchTypeOK
<1>6. eventRegistered' = eventRegistered
  BY DEF core1LaunchPoll
<1>7. TypeOK'
  BY <1>1, <1>2, <1>3, <1>4, <1>5, <1>6 DEF TypeOK
<1> QED BY <1>2, <1>7 DEF LaunchTypeOK

\* While core 0 drains its mailbox, the loop goes through what was sent early.
LEMMA PollDraining ==
    ASSUME LaunchConstants, LaunchTypeOK, Handshake, Draining, core1LaunchPoll
    PROVE  LaunchTypeOK' /\ Handshake'
<1> USE Cores
<1>1. /\ FifoTypeOK /\ inbox[1] \in Seq(Word) /\ inbox[1] # <<>> /\ launchBuf \in Seq(Word)
      /\ launchCapturing \in BOOLEAN /\ launchWaiting = TRUE /\ Len(launchBuf) <= 2
  BY InboxTypes DEF core1LaunchPoll, LaunchTypeOK, TypeOK, Handshake
<1>2. seq = 1 /\ Harmless
  BY <1>1 DEF Draining
<1>3. /\ inbox'[1] = Tail(inbox[1]) /\ Incoming = Head(inbox[1]) /\ Incoming \in Word
  BY <1>1, EchoInbox DEF core1LaunchPoll
<1>4. /\ Len(inbox[1]) \in Nat \ {0} /\ inbox'[1] \in Seq(Word) /\ Len(inbox'[1]) = Len(inbox[1]) - 1
      /\ \A i \in 1 .. Len(inbox'[1]) : inbox'[1][i] = inbox[1][i + 1] /\ i + 1 \in 1 .. Len(inbox[1])
      /\ Incoming = inbox[1][1] /\ 1 \in 1 .. Len(inbox[1]) /\ Len(launchBuf) \in Nat
  BY <1>1, <1>3, HeadTailProperties
<1>5. /\ Len(inbox'[1]) \in Nat /\ Len(inbox'[1]) < Len(inbox[1])
  <2>1. \A n \in Nat \ {0} : n - 1 \in Nat /\ n - 1 < n
    OBVIOUS
  <2> QED BY <1>4, <2>1
<1>p. Harmless' /\ Len(launchBuf') # 3
  <2>1. CASE Incoming = 0
    <3>1. launchCapturing' = FALSE /\ launchBuf' = <<>> /\ Len(<<>>) = 0
      BY <2>1 DEF core1LaunchPoll, Capture
    <3>2. CASE launchCapturing = FALSE /\ \A i \in 1 .. Len(inbox[1]) : inbox[1][i] # 1
      <4>1. \A i \in 1 .. Len(inbox'[1]) : inbox'[1][i] # 1
        BY <1>4, <3>2
      <4> QED BY <3>1, <4>1 DEF Harmless
    <3>3. CASE Len(inbox[1]) + (IF launchCapturing = TRUE THEN 1 + Len(launchBuf) ELSE 0) <= 3
      <4>1. Len(inbox'[1]) <= 3
        <5>1. Len(inbox[1]) <= 3
          <6>1. CASE launchCapturing = TRUE
            <7>1. \A n, k \in Nat : n + (1 + k) <= 3 => n <= 3
              OBVIOUS
            <7> QED BY <1>4, <3>3, <6>1, <7>1
          <6>2. CASE launchCapturing = FALSE
            <7>1. \A n \in Nat : n + 0 <= 3 => n <= 3
              OBVIOUS
            <7> QED BY <1>4, <3>3, <6>2, <7>1
          <6> QED BY <1>1, <6>1, <6>2
        <5> QED BY <1>4, <1>5, <5>1
      <4> QED BY <1>4, <3>1, <4>1 DEF Harmless
    <3> QED BY <1>2, <3>2, <3>3 DEF Harmless
  <2>2. CASE Incoming # 0 /\ launchCapturing = FALSE
    <3>1. launchCapturing' = (Incoming = 1) /\ launchBuf' = launchBuf /\ launchBuf = <<>> /\ Len(<<>>) = 0
      BY <1>2, <2>2 DEF core1LaunchPoll, Capture, Harmless
    <3>2. CASE \A i \in 1 .. Len(inbox[1]) : inbox[1][i] # 1
      <4>1. launchCapturing' = FALSE
        BY <1>4, <3>1, <3>2
      <4>2. \A i \in 1 .. Len(inbox'[1]) : inbox'[1][i] # 1
        BY <1>4, <3>2
      <4> QED BY <3>1, <4>1, <4>2 DEF Harmless
    <3>3. CASE Len(inbox[1]) + (IF launchCapturing = TRUE THEN 1 + Len(launchBuf) ELSE 0) <= 3
      <4>1. Len(inbox[1]) <= 3
        BY <1>4, <1>5, <2>2, <3>3
      <4>2. Len(inbox'[1]) + (IF launchCapturing' = TRUE THEN 1 + Len(launchBuf') ELSE 0) <= 3
        <5>1. Len(launchBuf') = 0
          BY <3>1, NoWords
        <5>2. Len(inbox'[1]) <= 2
          BY <1>4, <1>5, <4>1
        <5>3. \A m \in Nat : m <= 2 => m + (1 + 0) <= 3 /\ m + 0 <= 3
          OBVIOUS
        <5>4. CASE launchCapturing' = TRUE
          BY <1>5, <5>1, <5>2, <5>3, <5>4
        <5>5. CASE launchCapturing' # TRUE
          BY <1>5, <5>2, <5>3, <5>5
        <5> QED BY <5>4, <5>5
      <4>3. Len(launchBuf') = 0
        BY <3>1, NoWords
      <4>4. Len(launchBuf') # 3
        BY <4>3
      <4> QED BY <3>1, <4>2, <4>4 DEF Harmless
    <3> QED BY <1>2, <3>2, <3>3 DEF Harmless
  <2>3. CASE Incoming # 0 /\ launchCapturing = TRUE
    <3>1. launchCapturing' = TRUE /\ launchBuf' = Append(launchBuf, Incoming)
      BY <2>3 DEF core1LaunchPoll, Capture
    <3>2. Len(launchBuf') = Len(launchBuf) + 1
      BY <1>1, <1>3, <3>1
    <3>3. Len(inbox[1]) + (1 + Len(launchBuf)) <= 3
      BY <1>2, <2>3 DEF Harmless
    <3>4. Len(inbox'[1]) + (1 + Len(launchBuf')) <= 3 /\ Len(launchBuf') # 3
      <4>1. \A n \in Nat \ {0}, k \in Nat : n + (1 + k) <= 3 => (n - 1) + (1 + (k + 1)) <= 3 /\ k + 1 # 3
        OBVIOUS
      <4> QED BY <1>4, <3>2, <3>3, <4>1
    <3> QED BY <3>1, <3>4 DEF Harmless
  <2> QED BY <1>1, <2>1, <2>2, <2>3
<1>6. /\ LaunchTypeOK'
      /\ UNCHANGED <<core1Launched, launchWaiting, core1At, waiting, pc, turn, word, seq,
                     request, sent, got>>
  BY <1>1, <1>p, PolledTypes
<1>7. turn = 1
  BY DEF core1LaunchPoll
<1>8. Draining'
  BY <1>2, <1>p, <1>6, <1>7 DEF Draining
<1>9. Command' = Command
  BY <1>6 DEF Command
<1> QED BY <1>6, <1>8, <1>9 DEF Handshake

\* A command that is on its way is taken in by the loop and echoed.
LEMMA PollOnItsWay ==
    ASSUME LaunchConstants, LaunchTypeOK, Handshake, OnItsWay, core1LaunchPoll
    PROVE  LaunchTypeOK' /\ (Handshake' \/ Running')
<1> USE Cores
<1>1. /\ FifoTypeOK /\ inbox[1] = <<word[0]>> /\ inbox[0] = <<>> /\ inbox[1] # <<>>
      /\ request \in Params /\ seq \in 1 .. 6 /\ word[0] = Command[seq]
      /\ launchCapturing \in BOOLEAN /\ launchWaiting = TRUE /\ Taken(seq - 1)
  BY DEF LaunchTypeOK, TypeOK, Handshake, OnItsWay
<1> DEFINE w == word[0]
<1>2. w \in Word
  BY <1>1, CommandFacts
<1>3. /\ FifoTypeOK' /\ inbox'[1] = Tail(inbox[1]) /\ Incoming = Head(inbox[1])
      /\ Len(inbox[0]) < Depth => inbox'[0] = Append(inbox[0], Incoming)
  BY <1>1, EchoInbox DEF core1LaunchPoll
<1>4. Incoming = w /\ inbox'[1] = <<>> /\ inbox'[0] = <<w>>
  <2> HIDE DEF w
  <2>1. inbox[1] = <<w>> /\ inbox[0] = <<>>
    BY <1>1 DEF w
  <2>2. Head(<<w>>) = w /\ Tail(<<w>>) = <<>> /\ Append(<<>>, w) = <<w>> /\ Len(<<>>) = 0
    BY <1>2
  <2>3. Incoming = w /\ inbox'[1] = <<>>
    BY <1>3, <2>1, <2>2, Zenon
  <2>4. Len(inbox[0]) = 0
    BY <2>1, <2>2, Zenon
  <2>5. Len(inbox[0]) < Depth
    BY <2>4, DepthAssumption
  <2>6. inbox'[0] = Append(inbox[0], w)
    BY <1>3, <2>3, <2>5
  <2> QED BY <2>1, <2>2, <2>3, <2>6, Zenon
<1>5. /\ Command[1] = 0 /\ Command[2] = 0 /\ Command[3] = 1
      /\ Command[4] = request[1] /\ Command[5] = request[2] /\ Command[6] = request[3]
      /\ request = <<request[1], request[2], request[3]>>
      /\ request \in Word \X Word \X Word
      /\ request[1] \in Word \ {0} /\ request[2] \in Word \ {0} /\ request[3] \in Word \ {0}
  <2>1. \A i \in 3 .. 6 : Command[i] \in Word \ {0}
    <3>1. \A i \in 3 .. 6 : i \in 1 .. 6
      OBVIOUS
    <3> QED BY <1>1, <3>1, CommandFacts
  <2>2. 4 \in 3 .. 6 /\ 5 \in 3 .. 6 /\ 6 \in 3 .. 6
    OBVIOUS
  <2> QED BY <1>1, <2>1, <2>2, CommandFacts
<1> HIDE DEF Command
<1>6. /\ w = 0 => launchCapturing' = FALSE /\ launchBuf' = <<>>
      /\ w # 0 /\ launchCapturing = FALSE => launchCapturing' = (w = 1) /\ launchBuf' = launchBuf
      /\ w # 0 /\ launchCapturing = TRUE => launchCapturing' = TRUE /\ launchBuf' = Append(launchBuf, w)
  BY <1>4 DEF core1LaunchPoll, Capture
<1>7. /\ seq \in {1, 2} => launchCapturing' = FALSE /\ launchBuf' = <<>>
      /\ seq = 3 => launchCapturing' = TRUE /\ launchBuf' = <<>>
      /\ seq = 4 => launchCapturing' = TRUE /\ launchBuf' = <<request[1]>>
      /\ seq = 5 => launchCapturing' = TRUE /\ launchBuf' = <<request[1], request[2]>>
      /\ seq = 6 => launchCapturing' = TRUE /\ launchBuf' = <<request[1], request[2], request[3]>>
  <2>1. ASSUME seq \in {1, 2} PROVE launchCapturing' = FALSE /\ launchBuf' = <<>>
    BY <1>1, <1>5, <1>6, <2>1
  <2>2. ASSUME seq = 3 PROVE launchCapturing' = TRUE /\ launchBuf' = <<>>
    <3>1. Taken(2)
      BY <1>1, <2>2
    <3>2. launchCapturing = FALSE /\ launchBuf = <<>> /\ w = 1 /\ w # 0
      BY <1>1, <1>5, <2>2, <3>1 DEF Taken
    <3> QED BY <1>6, <3>2
  <2>3. ASSUME seq = 4 PROVE launchCapturing' = TRUE /\ launchBuf' = <<request[1]>>
    <3>1. Taken(3)
      BY <1>1, <2>3
    <3>2. launchCapturing = TRUE /\ launchBuf = <<>> /\ w = request[1] /\ w # 0
      BY <1>1, <1>5, <2>3, <3>1 DEF Taken
    <3>3. launchCapturing' = TRUE /\ launchBuf' = Append(<<>>, request[1])
      BY <1>6, <3>2
    <3> QED BY <3>3
  <2>4. ASSUME seq = 5 PROVE launchCapturing' = TRUE /\ launchBuf' = <<request[1], request[2]>>
    <3>1. Taken(4)
      BY <1>1, <2>4
    <3>2. launchCapturing = TRUE /\ launchBuf = <<request[1]>> /\ w = request[2] /\ w # 0
      BY <1>1, <1>5, <2>4, <3>1 DEF Taken
    <3>3. launchCapturing' = TRUE /\ launchBuf' = Append(<<request[1]>>, request[2])
      BY <1>6, <3>2
    <3> QED BY <1>5, <3>3, AppendToTuples, Zenon
  <2>5. ASSUME seq = 6 PROVE launchCapturing' = TRUE /\ launchBuf' = <<request[1], request[2], request[3]>>
    <3>1. Taken(5)
      BY <1>1, <2>5
    <3>2. launchCapturing = TRUE /\ launchBuf = <<request[1], request[2]>> /\ w = request[3] /\ w # 0
      BY <1>1, <1>5, <2>5, <3>1 DEF Taken
    <3>3. launchCapturing' = TRUE /\ launchBuf' = Append(<<request[1], request[2]>>, request[3])
      BY <1>6, <3>2
    <3> QED BY <1>5, <3>3, AppendToTuples, Zenon
  <2> QED BY <2>1, <2>2, <2>3, <2>4, <2>5
<1> HIDE DEF w
<1>8. CASE seq # 6
  <2>1. Len(launchBuf') # 3
    <3>1. launchBuf' = <<>> \/ launchBuf' = <<request[1]>> \/ launchBuf' = <<request[1], request[2]>>
      <4>1. seq \in {1, 2} \/ seq = 3 \/ seq = 4 \/ seq = 5
        BY <1>1, <1>8
      <4> QED BY <1>7, <4>1
    <3> QED BY <3>1
  <2>2. /\ LaunchTypeOK'
        /\ UNCHANGED <<core1Launched, launchWaiting, core1At, waiting, pc, turn, word, seq,
                       request, sent, got>>
    BY <1>1, <2>1, PolledTypes
  <2>3. Taken(seq)'
    <3>1. seq' = seq /\ request' = request
      BY <2>2
    <3> QED BY <1>7, <3>1 DEF Taken
  <2>4. Echoed'
    <3>1. seq <= 5
      BY <1>1, <1>8
    <3> QED BY <1>4, <2>2, <2>3, <3>1 DEF Echoed, OnItsWay, w
  <2>5. Command' = Command
    BY <2>2 DEF Command
  <2> QED BY <2>2, <2>4, <2>5 DEF Handshake
<1>9. CASE seq = 6
  <2>1. launchBuf' = request /\ Len(launchBuf') = 3 /\ launchBuf' \in Seq(Word)
    <3>1. launchBuf' = <<request[1], request[2], request[3]>>
      BY <1>7, <1>9
    <3>2. request[1] \in Word /\ request[2] \in Word /\ request[3] \in Word
      BY <1>5
    <3> QED BY <1>5, <3>1, <3>2
  <2>2. /\ launchWaiting' = FALSE /\ core1Launched' = TRUE /\ core1At' = launchBuf'
        /\ waiting' = [waiting EXCEPT ![1] = FALSE] /\ pc' = [pc EXCEPT ![1] = "idle"] /\ turn' = 0
        /\ UNCHANGED <<WOF, ROE, irq, eventRegistered, word, seq, request, sent, got>>
    BY <2>1 DEF core1LaunchPoll, Release
  <2>3. LaunchTypeOK'
    <3>1. TypeOK /\ pc \in [Core -> Label] /\ sent \in [Core -> Seq(Word)] /\ got \in [Core -> Seq(Word)]
      BY DEF LaunchTypeOK
    <3>2. pc' \in [Core -> Label]
      BY <2>2, <3>1 DEF Label
    <3>3. launchCapturing' \in BOOLEAN /\ core1At' \in Word \X Word \X Word
      BY <1>5, <1>7, <1>9, <2>1, <2>2
    <3>4. TypeOK'
      <4>1. Len(launchBuf') <= 3
        BY <2>1
      <4> QED BY <1>3, <2>1, <2>2, <3>1, <3>3, <4>1 DEF TypeOK
    <3>5. sent' = sent /\ got' = got
      BY <2>2
    <3> QED BY <3>1, <3>2, <3>4, <3>5 DEF LaunchTypeOK
  <2>4. pc'[0] = "sent" /\ pc'[1] = "idle"
    BY <2>2 DEF LaunchTypeOK, OnItsWay
  <2>5. sent' = [c \in Core |-> <<>>] /\ got' = [c \in Core |-> <<>>]
    BY <2>2 DEF Handshake
  <2>6. sent'[0] = <<>> /\ sent'[1] = <<>> /\ got'[0] = <<>> /\ got'[1] = <<>>
    BY <2>5
  <2>7. got'[0] \o inbox'[0] = LastEcho' \o sent'[1]
    <3>1. LastEcho' = <<w>>
      BY <1>9, <2>2 DEF LastEcho, w
    <3>2. <<>> \o <<w>> = <<w>> /\ <<w>> \o <<>> = <<w>>
      BY <1>2
    <3> QED BY <1>4, <2>6, <3>1, <3>2, Zenon
  <2>8. got'[1] \o inbox'[1] = sent'[0]
    <3>1. <<>> \o <<>> = <<>>
      OBVIOUS
    <3> QED BY <1>4, <2>6, <3>1, Zenon
  <2>9. word'[0] = Command[6]'
    <3>1. Command' = Command
      BY <2>2 DEF Command
    <3> QED BY <1>1, <1>9, <2>2, <3>1
  <2>10. \A c \in Core : pc'[c] # "push" /\ pc'[c] # "pop"
    BY <2>4
  <2> QED BY <1>1, <1>9, <2>1, <2>2, <2>3, <2>4, <2>6, <2>7, <2>8, <2>9, <2>10 DEF Running, Talking
<1> QED BY <1>1, <1>8, <1>9

LEMMA PeekType == ASSUME NEW f \in Ring PROVE peek(f) \in Word
<1>1. CASE empty(f)
  BY <1>1 DEF peek
<1>2. CASE ~empty(f)
  <2>1. items(f) \in Seq(Word) /\ items(f) # <<>> /\ peek(f) = Head(items(f))
    BY <1>2, PullFacts, ItemsType
  <2> QED BY <2>1, HeadTailProperties
<1> QED BY <1>1, <1>2

\* What an instruction of the firmware may change keeps its type.
LEMMA FirmwareTypes ==
    ASSUME LaunchTypeOK, FifoTypeOK', turn' \in Core, UNCHANGED <<core1Launched, launchVars, core1At>>,
           waiting' \in [Core -> BOOLEAN], eventRegistered' \in [Core -> BOOLEAN],
           pc' \in [Core -> Label], word' \in [Core -> Word], seq' \in 0 .. 6,
           request' \in Params \cup {None}, sent' \in [Core -> Seq(Word)], got' \in [Core -> Seq(Word)]
    PROVE  LaunchTypeOK'
<1>1. TypeOK
  BY DEF LaunchTypeOK
<1>2. UNCHANGED <<core1Launched, launchWaiting, launchCapturing, launchBuf, core1At>>
  BY DEF launchVars
<1>3. TypeOK'
  BY <1>1, <1>2 DEF TypeOK
<1> QED BY <1>3 DEF LaunchTypeOK

LEMMA ExecuteTypes ==
    ASSUME LaunchConstants, LaunchTypeOK, seq > 0 => request \in Params, NEW c \in Core, Execute(c),
           turn' \in Core, UNCHANGED <<core1Launched, launchVars, core1At>>
    PROVE  LaunchTypeOK'
<1> USE Cores
<1>1. /\ FifoTypeOK /\ waiting \in [Core -> BOOLEAN] /\ eventRegistered \in [Core -> BOOLEAN]
      /\ pc \in [Core -> Label] /\ word \in [Core -> Word] /\ seq \in 0 .. 6
      /\ request \in Params \cup {None} /\ sent \in [Core -> Seq(Word)] /\ got \in [Core -> Seq(Word)]
  BY DEF LaunchTypeOK, TypeOK
<1>2. UNCHANGED fifoVars => FifoTypeOK'
  BY <1>1 DEF fifoVars, FifoTypeOK
<1>3. \A to \in Label : goto(c, to) => pc' \in [Core -> Label]
  BY <1>1 DEF goto
<1>4. ASSUME Sleep(c) \/ Finished(c) PROVE LaunchTypeOK'
  BY <1>1, <1>2, <1>4, FirmwareTypes DEF Sleep, Finished
<1>5. ASSUME Drain(c) \/ WaitRdy(c) \/ CheckVld(c) PROVE LaunchTypeOK'
  <2>1. PICK to \in Label : goto(c, to)
    BY <1>5 DEF Drain, WaitRdy, CheckVld, Label
  <2>2. pc' \in [Core -> Label]
    BY <1>3, <2>1
  <2> QED BY <1>1, <1>2, <1>5, <2>2, FirmwareTypes DEF Drain, WaitRdy, CheckVld
<1>6. ASSUME DrainRead(c) PROVE LaunchTypeOK'
  <2>1. FifoTypeOK' /\ pc' \in [Core -> Label]
    BY <1>1, <1>3, <1>6, ReadInbox DEF DrainRead, Label
  <2> QED BY <1>1, <1>6, <2>1, FirmwareTypes DEF DrainRead
<1>7. ASSUME Signal(c) PROVE LaunchTypeOK'
  <2>1. PICK to \in Label : goto(c, to)
    BY <1>7 DEF Signal, Label
  <2>2. waiting' \in [Core -> BOOLEAN] /\ eventRegistered' \in [Core -> BOOLEAN]
    BY <1>1, <1>7 DEF Signal, Unblock
  <2>3. pc' \in [Core -> Label]
    BY <1>3, <2>1
  <2> QED BY <1>1, <1>2, <1>7, <2>2, <2>3, FirmwareTypes DEF Signal
<1>8. ASSUME Push(c) PROVE LaunchTypeOK'
  <2>1. FifoTypeOK' /\ pc' \in [Core -> Label]
    BY <1>1, <1>3, <1>8, WriteInbox DEF Push, Label
  <2>2. sent' \in [Core -> Seq(Word)]
    BY <1>1, <1>8 DEF Push
  <2> QED BY <1>1, <1>8, <2>1, <2>2, FirmwareTypes DEF Push
<1>9. ASSUME Block(c) PROVE LaunchTypeOK'
  <2>1. pc' \in [Core -> Label]
    BY <1>3, <1>9 DEF Block, Label
  <2>2. waiting' \in [Core -> BOOLEAN] /\ eventRegistered' \in [Core -> BOOLEAN]
    BY <1>1, <1>9 DEF Block
  <2> QED BY <1>1, <1>2, <1>9, <2>1, <2>2, FirmwareTypes DEF Block
<1>10. ASSUME PopMessage(c) PROVE LaunchTypeOK'
  <2>1. FifoTypeOK' /\ pc' \in [Core -> Label]
    BY <1>1, <1>3, <1>10, ReadInbox DEF PopMessage, Label
  <2>2. peek(rxFIFO[c]) \in Word
    BY <1>1, PeekType DEF FifoTypeOK
  <2>3. got' \in [Core -> Seq(Word)]
    BY <1>1, <1>10, <2>2 DEF PopMessage
  <2> QED BY <1>1, <1>10, <2>1, <2>3, FirmwareTypes DEF PopMessage
<1>11. ASSUME Choose(c) PROVE LaunchTypeOK'
  <2>1. pc' \in [Core -> Label]
    BY <1>3, <1>11 DEF Choose, Label
  <2>2. word' \in [Core -> Word]
    <3>1. Message \subseteq Word
      BY DEF LaunchConstants
    <3>2. \/ \E w \in Message : word' = [word EXCEPT ![c] = w]
          \/ word' = word
      BY <1>11 DEF Choose
    <3> QED BY <1>1, <3>1, <3>2
  <2> QED BY <1>1, <1>2, <1>11, <2>1, <2>2, FirmwareTypes DEF Choose
<1>12. ASSUME BeginLaunch, c = 0 PROVE LaunchTypeOK'
  <2>1. pc' \in [Core -> Label]
    BY <1>3, <1>12 DEF BeginLaunch, Label
  <2>2. word' \in [Core -> Word] /\ request' \in Params
    BY <1>1, <1>12, WordAssumption DEF BeginLaunch
  <2>3. seq' \in 0 .. 6
    BY <1>12 DEF BeginLaunch
  <2> QED BY <1>1, <1>2, <1>12, <2>1, <2>2, <2>3, FirmwareTypes DEF BeginLaunch
<1>13. ASSUME PopEcho, c = 0 PROVE LaunchTypeOK'
  <2>1. FifoTypeOK'
    BY <1>1, <1>13, ReadInbox DEF PopEcho
  <2> DEFINE following == IF peek(rxFIFO[0]) = word[0] THEN seq + 1 ELSE 1
  <2>2. following \in 1 .. 7 /\ request \in Params
    BY <1>1, <1>13 DEF PopEcho
  <2>3. IF following = 7 THEN seq' = 0 /\ goto(0, "idle") /\ UNCHANGED word
        ELSE /\ seq' = following /\ word' = [word EXCEPT ![0] = Command[following]]
             /\ goto(0, SendFirst(Command[following]))
    BY <1>13 DEF PopEcho
  <2> HIDE DEF following
  <2>4. CASE following = 7
    <3>1. pc' \in [Core -> Label]
      BY <1>3, <1>13, <2>3, <2>4 DEF Label
    <3> QED BY <1>1, <1>13, <2>1, <2>3, <2>4, <3>1, FirmwareTypes DEF PopEcho
  <2>5. CASE following # 7
    <3>1. following \in 1 .. 6
      BY <2>2, <2>5
    <3>2. Command[following] \in Word /\ SendFirst(Command[following]) \in Label
      BY <2>2, <3>1, CommandFacts DEF SendFirst, Label
    <3>3. /\ seq' \in 0 .. 6 /\ word' \in [Core -> Word] /\ pc' \in [Core -> Label]
      BY <1>1, <1>3, <1>13, <2>3, <2>5, <3>1, <3>2
    <3> QED BY <1>1, <1>13, <2>1, <3>3, FirmwareTypes DEF PopEcho
  <2> QED BY <2>4, <2>5
<1> QED
  BY <1>4, <1>5, <1>6, <1>7, <1>8, <1>9, <1>10, <1>11, <1>12, <1>13 DEF Execute

\* One instruction of core 0 within the call.
LEMMA HandshakeCore0 ==
    ASSUME LaunchConstants, LaunchTypeOK, Handshake, Core0Step
    PROVE  LaunchInv'
<1> USE Cores
<1>1. /\ FifoTypeOK /\ request \in Params /\ seq \in 1 .. 6 /\ word[0] = Command[seq]
      /\ core1Launched = FALSE /\ launchWaiting = TRUE /\ pc[1] = "held" /\ core1At = None
      /\ pc \in [Core -> Label] /\ DOMAIN inbox = Core
  BY DEF LaunchTypeOK, TypeOK, Handshake, inbox
<1>2. /\ turn = 0 /\ turn' = 1 /\ Execute(0) /\ seq > 0
      /\ UNCHANGED <<core1Launched, launchVars, core1At>>
      /\ UNCHANGED <<launchWaiting, launchCapturing, launchBuf>>
  BY <1>1 DEF Core0Step, launchVars
<1>3. LaunchTypeOK'
  BY <1>1, <1>2, ExecuteTypes
<1>4. /\ \A c \in Core : inbox[c] \in Seq(Word) /\ (VLD(c) <=> inbox[c] # <<>>) /\ Len(inbox[c]) \in Nat
      /\ RDY(0) <=> Len(inbox[1]) # Depth
      /\ inbox[1] = <<>> => Len(inbox[1]) < Depth /\ RDY(0)
  <2>1. /\ \A c \in Core : inbox[c] \in Seq(Word) /\ (VLD(c) <=> inbox[c] # <<>>) /\ Len(inbox[c]) \in Nat
        /\ RDY(0) <=> Len(inbox[1]) # Depth
    BY <1>1, InboxTypes
  <2>2. inbox[1] = <<>> => Len(inbox[1]) = 0
    BY NoWords, Zenon
  <2> QED BY <2>1, <2>2, DepthAssumption
\* The command and what has been taken of it stay.
<1>5. ASSUME UNCHANGED <<seq, request, word, sent, got>>, pc'[1] = "held",
             Draining' \/ Unsent' \/ OnItsWay' \/ Echoed'
      PROVE  LaunchInv'
  <2>1. Command' = Command
    BY <1>5 DEF Command
  <2>2. Handshake'
    BY <1>1, <1>2, <1>5, <2>1 DEF Handshake
  <2> QED BY <1>3, <2>2 DEF LaunchInv
<1>6. ASSUME UNCHANGED <<seq, request>>
      PROVE  /\ \A n : Taken(n) => Taken(n)'
             /\ inbox'[1] = inbox[1] /\ Harmless => Harmless'
  BY <1>2, <1>6 DEF Taken, Harmless
<1>7. UNCHANGED fifoVars => inbox' = inbox
  BY DEF fifoVars, inbox
<1>8. \A to : goto(0, to) => pc'[0] = to /\ pc'[1] = "held"
  BY <1>1 DEF goto
<1>9. CASE Draining
  <2>1. /\ pc[0] \in {"drain", "drainRead"} /\ inbox[1] = <<>>
        /\ (seq = 1 /\ Harmless) \/ (seq = 2 /\ Taken(1))
    BY <1>2, <1>9 DEF Draining
  <2>2. ASSUME UNCHANGED <<seq, request, word, sent, got>>, inbox'[1] = inbox[1], pc'[1] = "held",
               pc'[0] \in {"drain", "drainRead"}
        PROVE  LaunchInv'
    <3>1. Draining'
      BY <1>2, <1>6, <2>1, <2>2 DEF Draining
    <3> QED BY <1>5, <2>2, <3>1
  <2>3. CASE Sleep(0)
    BY <1>1, <1>7, <2>1, <2>2, <2>3 DEF Sleep
  <2>4. CASE Drain(0) /\ VLD(0)
    BY <1>7, <1>8, <2>2, <2>4 DEF Drain
  <2>5. CASE Drain(0) /\ ~VLD(0)
    <3>1. /\ inbox' = inbox /\ pc'[0] = "drained" /\ pc'[1] = "held"
          /\ UNCHANGED <<seq, request, word, sent, got>>
      BY <1>7, <1>8, <2>5 DEF Drain
    <3>2. Taken(seq - 1)
      <4>1. CASE seq = 1
        BY <4>1 DEF Taken
      <4>2. CASE seq = 2 /\ Taken(1)
        BY <4>2
      <4> QED BY <2>1, <4>1, <4>2
    <3>3. Taken(seq - 1)'
      BY <1>6, <3>1, <3>2
    <3>4. Unsent'
      BY <1>4, <2>1, <2>5, <3>1, <3>3 DEF Unsent
    <3> QED BY <1>5, <3>1, <3>4
  <2>6. CASE DrainRead(0)
    <3>1. inbox'[1] = inbox[1]
      <4>1. inbox' = [inbox EXCEPT ![0] = Tail(@)] \/ inbox' = inbox
        BY <1>1, <2>6, ReadInbox DEF DrainRead
      <4> QED BY <1>1, <4>1
    <3> QED BY <1>8, <2>2, <2>6, <3>1 DEF DrainRead
  <2> QED BY <1>2, <2>1, <2>3, <2>4, <2>5, <2>6 DEF Execute, Signal, WaitRdy, Push, CheckVld,
             Block, PopMessage, Choose, Finished, BeginLaunch, PopEcho
<1>10. CASE Unsent
  <2>1. /\ pc[0] \in {"drained", "waitRdy", "push"}
        /\ inbox[0] = <<>> /\ inbox[1] = <<>> /\ Taken(seq - 1)
    BY <1>10 DEF Unsent
  <2>2. ASSUME UNCHANGED <<seq, request, word, sent, got>>, inbox' = inbox, pc'[1] = "held",
               pc'[0] \in {"drained", "waitRdy", "push"}
        PROVE  LaunchInv'
    <3>1. Taken(seq - 1)'
      BY <1>6, <2>1, <2>2
    <3>2. Unsent'
      BY <2>1, <2>2, <3>1 DEF Unsent
    <3> QED BY <1>5, <2>2, <3>2
  <2>3. CASE Sleep(0)
    BY <1>1, <1>7, <2>1, <2>2, <2>3 DEF Sleep
  <2>4. CASE Signal(0)
    BY <1>7, <1>8, <2>1, <2>2, <2>4 DEF Signal
  <2>5. CASE WaitRdy(0)
    BY <1>7, <1>8, <2>2, <2>5 DEF WaitRdy
  <2>6. CASE Push(0)
    <3>1. WriteWR(0, word[0]) /\ pc'[0] = "sent" /\ pc'[1] = "held" /\ UNCHANGED <<seq, request, word, sent, got>>
      BY <1>2, <1>8, <2>6 DEF Push
    <3>2. word[0] \in Word
      BY DEF LaunchTypeOK, TypeOK
    <3>3. inbox' = [inbox EXCEPT ![1] = Append(@, word[0])]
      <4>1. Len(inbox[Other[0]]) < Depth
        BY <1>4, <2>1
      <4>2. inbox' = [inbox EXCEPT ![Other[0]] = Append(@, word[0])]
        BY <1>1, <3>1, <3>2, <4>1, WriteInbox
      <4> QED BY <4>2
    <3>4. inbox'[0] = <<>> /\ inbox'[1] = <<word'[0]>>
      <4>1. inbox'[0] = inbox[0] /\ inbox'[1] = Append(inbox[1], word[0])
        BY <1>1, <3>3
      <4>2. Append(<<>>, word[0]) = <<word[0]>>
        BY <3>2
      <4>3. word'[0] = word[0]
        BY <3>1
      <4> QED BY <2>1, <4>1, <4>2, <4>3, Zenon
    <3>5. Taken(seq - 1)'
      BY <1>6, <2>1, <3>1
    <3>6. OnItsWay'
      BY <1>2, <3>1, <3>4, <3>5 DEF OnItsWay
    <3> QED BY <1>5, <3>1, <3>6
  <2> QED BY <1>2, <2>1, <2>3, <2>4, <2>5, <2>6 DEF Execute, Drain, DrainRead, CheckVld,
             Block, PopMessage, Choose, Finished, BeginLaunch, PopEcho
<1>11. CASE OnItsWay
  BY <1>2, <1>11 DEF OnItsWay
<1>12. CASE Echoed
  <2>1. /\ pc[0] \in {"sent", "checkVld", "block", "pop"} /\ seq <= 5
        /\ inbox[0] = <<word[0]>> /\ inbox[1] = <<>> /\ Taken(seq)
    BY <1>12 DEF Echoed
  <2>2. ASSUME UNCHANGED <<seq, request, word, sent, got>>, inbox' = inbox, pc'[1] = "held",
               pc'[0] \in {"sent", "checkVld", "block", "pop"}
        PROVE  LaunchInv'
    <3>1. Taken(seq)'
      BY <1>6, <2>1, <2>2
    <3>2. Echoed'
      BY <2>1, <2>2, <3>1 DEF Echoed
    <3> QED BY <1>5, <2>2, <3>2
  <2>3. CASE Sleep(0)
    BY <1>1, <1>7, <2>1, <2>2, <2>3 DEF Sleep
  <2>4. CASE Signal(0)
    BY <1>2, <1>7, <1>8, <2>1, <2>2, <2>4 DEF Signal
  <2>5. CASE CheckVld(0)
    BY <1>7, <1>8, <2>2, <2>5 DEF CheckVld
  <2>6. CASE Block(0)
    BY <1>7, <1>8, <2>2, <2>6 DEF Block
  <2>7. CASE PopEcho
    <3>1. ReadRD(0) /\ UNCHANGED <<request, sent, got>>
      BY <2>7 DEF PopEcho
    <3>2. /\ peek(rxFIFO[0]) = word[0] /\ inbox'[0] = <<>> /\ inbox'[1] = <<>>
      <4> DEFINE w == word[0]
      <4>1. w \in Word
        BY DEF LaunchTypeOK, TypeOK
      <4> HIDE DEF w
      <4>2. Head(<<w>>) = w /\ Tail(<<w>>) = <<>> /\ <<w>> # <<>>
        BY <4>1
      <4>3. inbox[0] = <<w>> /\ inbox[0] # <<>>
        BY <2>1, <4>2, Zenon DEF w
      <4>4. peek(rxFIFO[0]) = Head(inbox[0]) /\ inbox' = [inbox EXCEPT ![0] = Tail(@)]
        BY <1>1, <3>1, <4>3, ReadInbox
      <4>5. inbox'[0] = Tail(inbox[0]) /\ inbox'[1] = inbox[1]
        BY <1>1, <4>4
      <4>6. peek(rxFIFO[0]) = w /\ inbox'[0] = <<>>
        BY <4>2, <4>3, <4>4, <4>5, Zenon
      <4> QED BY <2>1, <4>5, <4>6 DEF w
    <3>3. seq + 1 \in 2 .. 6 /\ seq + 1 # 7 /\ (seq + 1) - 1 = seq /\ seq \in 1 .. 5
      BY <1>1, <2>1
    <3>4. /\ seq' = seq + 1 /\ word' = [word EXCEPT ![0] = Command[seq + 1]]
          /\ goto(0, SendFirst(Command[seq + 1]))
      BY <2>7, <3>2, <3>3 DEF PopEcho
    <3>5. pc'[0] = SendFirst(Command[seq + 1]) /\ pc'[1] = "held"
      BY <1>8, <3>4
    <3>6. Command' = Command
      BY <3>1 DEF Command
    <3>7. word'[0] = Command'[seq']
      BY <3>4, <3>6 DEF LaunchTypeOK, TypeOK
    <3>8. Taken(seq - 1)'
      <4>1. seq' - 1 = seq
        BY <3>3, <3>4
      <4> QED BY <1>2, <2>1, <3>1, <4>1 DEF Taken
    <3>9. CASE seq = 1
      <4>1. Command[2] = 0 /\ seq + 1 = 2
        BY <1>1, <3>9, CommandFacts
      <4>2. pc'[0] = "drain" /\ seq' = 2
        BY <3>4, <3>5, <4>1 DEF SendFirst
      <4>3. Taken(1)'
        BY <3>8, <4>2
      <4>4. Draining'
        BY <1>2, <3>2, <4>2, <4>3 DEF Draining
      <4> QED BY <1>1, <1>2, <1>3, <3>1, <3>5, <3>7, <4>2, <4>4 DEF Handshake, LaunchInv
    <3>10. CASE seq # 1
      <4>1. seq + 1 \in 3 .. 6
        BY <3>3, <3>10
      <4>2. Command[seq + 1] # 0
        BY <1>1, <4>1, CommandFacts
      <4>3. pc'[0] = "waitRdy" /\ seq' \in 1 .. 6
        BY <3>3, <3>4, <3>5, <4>2 DEF SendFirst
      <4>4. Unsent'
        BY <3>2, <3>8, <4>3 DEF Unsent
      <4> QED BY <1>1, <1>2, <1>3, <3>1, <3>5, <3>7, <4>3, <4>4 DEF Handshake, LaunchInv
    <3> QED BY <3>9, <3>10
  <2> QED BY <1>2, <2>1, <2>3, <2>4, <2>5, <2>6, <2>7 DEF Execute, Drain, DrainRead, WaitRdy, Push,
             PopMessage, Choose, Finished, BeginLaunch
<1> QED BY <1>9, <1>10, <1>11, <1>12 DEF Handshake

\* A queue read to where: an item at its end, and the item at its head.
LEMMA QueueFacts ==
    ASSUME NEW s \in Seq(Word), NEW t \in Seq(Word), NEW w \in Word
    PROVE  /\ s \o Append(t, w) = Append(s \o t, w)
           /\ t # <<>> => Append(s, Head(t)) \o Tail(t) = s \o t
           /\ <<w>> \o s # <<>> /\ Head(<<w>> \o s) = w /\ Tail(<<w>> \o s) = s
           /\ <<>> \o s = s
           /\ Len(s) <= Len(s \o t) /\ s = SubSeq(s \o t, 1, Len(s))
<1>1. <<w>> \in Seq(Word) /\ Len(<<w>>) = 1 /\ <<w>>[1] = w
  OBVIOUS
<1>2. s \o Append(t, w) = Append(s \o t, w)
  <2>1. Append(t, w) = t \o <<w>> /\ s \o t \in Seq(Word)
    BY AppendIsConcat, ConcatProperties
  <2>2. Append(s \o t, w) = (s \o t) \o <<w>>
    BY <2>1, AppendIsConcat
  <2>3. (s \o t) \o <<w>> = s \o (t \o <<w>>)
    BY <1>1, ConcatAssociative
  <2> QED BY <2>1, <2>2, <2>3
<1>3. ASSUME t # <<>> PROVE Append(s, Head(t)) \o Tail(t) = s \o t
  <2> DEFINE h == Head(t)
             r == Tail(t)
  <2>1. /\ h \in Word /\ r \in Seq(Word) /\ Len(t) \in Nat \ {0} /\ Len(r) = Len(t) - 1
        /\ h = t[1] /\ \A i \in 1 .. Len(r) : r[i] = t[i + 1]
    BY <1>3, HeadTailProperties, EmptySeq
  <2> HIDE DEF h, r
  <2>2. <<h>> \in Seq(Word) /\ Len(<<h>>) = 1 /\ <<h>>[1] = h
    BY <2>1
  <2>3. <<h>> \o r = t
    <3> DEFINE u == <<h>> \o r
    <3>1. /\ u \in Seq(Word) /\ Len(u) = 1 + Len(r)
          /\ \A i \in 1 .. 1 + Len(r) : u[i] = IF i <= 1 THEN <<h>>[i] ELSE r[i - 1]
      BY <2>1, <2>2, ConcatProperties
    <3> HIDE DEF u
    <3>2. Len(u) = Len(t)
      BY <2>1, <3>1
    <3>3. \A i \in 1 .. Len(u) : u[i] = t[i]
      <4> SUFFICES ASSUME NEW i \in 1 .. Len(u) PROVE u[i] = t[i]
        OBVIOUS
      <4>1. CASE i = 1
        BY <2>1, <2>2, <3>1, <4>1
      <4>2. CASE i # 1
        <5>1. i - 1 \in 1 .. Len(r) /\ i - 1 + 1 = i /\ ~(i <= 1)
          BY <2>1, <3>1, <4>2
        <5> QED BY <2>1, <3>1, <5>1
      <4> QED BY <4>1, <4>2
    <3>4. u = t
      BY <3>1, <3>2, <3>3, SeqEqual
    <3> QED BY <3>4 DEF u
  <2>4. Append(s, h) = s \o <<h>>
    BY <2>1, AppendIsConcat
  <2>5. (s \o <<h>>) \o r = s \o (<<h>> \o r)
    BY <2>1, <2>2, ConcatAssociative
  <2>6. Append(s, h) \o r = s \o t
    BY <2>3, <2>4, <2>5
  <2> QED BY <2>6 DEF h, r
<1>4. <<w>> \o s # <<>> /\ Head(<<w>> \o s) = w /\ Tail(<<w>> \o s) = s
  <2> DEFINE u == <<w>> \o s
  <2>1. /\ u \in Seq(Word) /\ Len(u) = 1 + Len(s) /\ Len(s) \in Nat
        /\ \A i \in 1 .. 1 + Len(s) : u[i] = IF i <= 1 THEN <<w>>[i] ELSE s[i - 1]
    BY <1>1, ConcatProperties
  <2> HIDE DEF u
  <2>2. Len(u) # 0
    BY <2>1
  <2>3. u # <<>>
    BY <2>2, NoWords, Zenon
  <2>4. /\ Head(u) = u[1] /\ Tail(u) \in Seq(Word) /\ Len(Tail(u)) = Len(u) - 1
        /\ \A i \in 1 .. Len(Tail(u)) : Tail(u)[i] = u[i + 1]
    BY <2>1, <2>3, HeadTailProperties
  <2>5. u[1] = w
    BY <1>1, <2>1
  <2>6. Len(Tail(u)) = Len(s)
    BY <2>1, <2>4
  <2>7. \A i \in 1 .. Len(Tail(u)) : Tail(u)[i] = s[i]
    <3> SUFFICES ASSUME NEW i \in 1 .. Len(Tail(u)) PROVE Tail(u)[i] = s[i]
      OBVIOUS
    <3>1. i + 1 \in 1 .. 1 + Len(s) /\ ~(i + 1 <= 1) /\ i + 1 - 1 = i
      BY <2>1, <2>6
    <3>2. u[i + 1] = s[i]
      BY <2>1, <3>1
    <3> QED BY <2>4, <3>2
  <2>8. Tail(u) = s
    BY <2>4, <2>6, <2>7, SeqEqual
  <2> QED BY <2>3, <2>4, <2>5, <2>8 DEF u
<1>5. <<>> \o s = s
  BY ConcatEmptySeq
<1>6. Len(s) <= Len(s \o t) /\ s = SubSeq(s \o t, 1, Len(s))
  <2>1. Len(s) \in Nat /\ Len(t) \in Nat /\ Len(s \o t) = Len(s) + Len(t)
    BY ConcatProperties
  <2>2. CASE s = <<>>
    <3>1. Len(s) = 0
      BY <2>2, NoWords, Zenon
    <3>2. SubSeq(s \o t, 1, 0) = <<>>
      BY SubSeqEmpty
    <3> QED BY <2>1, <2>2, <3>1, <3>2
  <2>3. CASE s # <<>>
    <3>1. Len(s) \in Nat \ {0}
      BY <2>3, EmptySeq
    <3>2. 1 \in 1 .. Len(s) /\ Len(s) \in 1 .. Len(s)
      BY <3>1
    <3>3. SubSeq(s \o t, 1, Len(s)) = SubSeq(s, 1, Len(s))
      BY <3>2, SubSeqOfConcat1
    <3> QED BY <2>1, <3>3, SubSeqFull
  <2> QED BY <2>2, <2>3
<1> QED BY <1>2, <1>3, <1>4, <1>5, <1>6

LEMMA SaidLast == \A s, t \in Seq(Word), w \in Word : s \o Append(t, w) = Append(s \o t, w)
BY QueueFacts

LEMMA HeardFirst == \A s, t \in Seq(Word) : t # <<>> => Append(s, Head(t)) \o Tail(t) = s \o t
BY QueueFacts, WordAssumption

LEMMA EchoFirst ==
    \A s \in Seq(Word), w \in Word :
        <<w>> \o s # <<>> /\ Head(<<w>> \o s) = w /\ Tail(<<w>> \o s) = s
BY QueueFacts

\* Both cores run: what has been said and what has been heard tally.
RunningFacts ==
    /\ core1Launched' = core1Launched /\ launchWaiting' = launchWaiting /\ core1At' = core1At
    /\ request' = request

\* An instruction that reads and writes no mailbox.
LEMMA RunningQuiet ==
    ASSUME LaunchTypeOK, Running, RunningFacts, NEW c \in Core, NEW to \in Talking,
           pc' = [pc EXCEPT ![c] = to], UNCHANGED <<rxFIFO, sent, got, seq>>,
           to = "push" => RDY(c), to = "pop" => VLD(c),
           seq = 6 => word'[0] = word[0] /\ (c = 0 => to \in {"sent", "checkVld", "block", "pop"})
    PROVE  Running'
<1> USE Cores
<1>1. /\ pc \in [Core -> Label]
      /\ inbox' = inbox /\ Command' = Command
      /\ \A d \in Core : (RDY(d)' <=> RDY(d)) /\ (VLD(d)' <=> VLD(d))
  BY DEF inbox, Command, RDY, VLD, LaunchTypeOK, RunningFacts
<1>2. pc'[c] = to /\ \A d \in Core : d # c => pc'[d] = pc[d]
  BY <1>1
<1>3. LastEcho' = LastEcho
  BY DEF LastEcho
<1>4. /\ core1Launched' = TRUE /\ launchWaiting' = FALSE
      /\ request' \in Params /\ core1At' = request' /\ seq' \in {0, 6}
  BY DEF Running, RunningFacts
<1>5. pc'[0] \in Talking /\ pc'[1] \in Talking
  BY <1>2 DEF Running
<1>6. seq' = 6 => /\ pc'[0] \in {"sent", "checkVld", "block", "pop"}
                  /\ word'[0] = Command'[6] /\ sent'[0] = <<>> /\ got'[0] = <<>>
  BY <1>1, <1>2 DEF Running
<1>7. /\ got'[0] \o inbox'[0] = LastEcho' \o sent'[1]
      /\ got'[1] \o inbox'[1] = sent'[0]
  BY <1>1, <1>3 DEF Running
<1>8. /\ \A d \in Core : pc'[d] = "push" => RDY(d)'
      /\ \A d \in Core : pc'[d] = "pop" => VLD(d)'
  BY <1>1, <1>2 DEF Running
<1> QED BY <1>4, <1>5, <1>6, <1>7, <1>8 DEF Running

\* A word sent: the room it needs was seen before, and only the sender takes any.
LEMMA RunningPush ==
    ASSUME LaunchTypeOK, LaunchTypeOK', Running, RunningFacts, NEW c \in Core, Push(c)
    PROVE  Running'
<1> USE Cores
<1>1. /\ FifoTypeOK /\ FifoTypeOK' /\ pc \in [Core -> Label] /\ word \in [Core -> Word]
      /\ sent \in [Core -> Seq(Word)] /\ got \in [Core -> Seq(Word)]
  BY DEF LaunchTypeOK, TypeOK
<1>2. /\ pc[c] = "push" /\ WriteWR(c, word[c]) /\ pc' = [pc EXCEPT ![c] = "sent"]
      /\ UNCHANGED <<word, seq, request, got>>
  BY DEF Push, goto
<1>3. ~(c = 0 /\ seq > 0) /\ (c = 0 => seq = 0)
  BY <1>2 DEF Running
<1>4. sent' = [sent EXCEPT ![c] = Append(@, word[c])]
  BY <1>3 DEF Push
<1> DEFINE o == Other[c]
           w == word[c]
<1>5. o \in Core /\ o # c /\ Other[o] = c /\ w \in Word /\ \A d \in Core : d = c \/ d = o
  <2>1. CASE c = 0
    BY <1>1, <2>1
  <2>2. CASE c = 1
    BY <1>1, <2>2
  <2> QED BY <2>1, <2>2
<1>6. /\ \A d \in Core : inbox[d] \in Seq(Word) /\ Len(inbox[d]) <= Depth /\ Len(inbox[d]) \in Nat
      /\ \A d \in Core : RDY(d) <=> Len(inbox[Other[d]]) # Depth
      /\ \A d \in Core : VLD(d) <=> inbox[d] # <<>>
      /\ \A d \in Core : inbox'[d] \in Seq(Word) /\ Len(inbox'[d]) \in Nat /\ Len(inbox'[d]) <= Depth
      /\ \A d \in Core : RDY(d)' <=> Len(inbox'[Other[d]]) # Depth
      /\ \A d \in Core : VLD(d)' <=> inbox'[d] # <<>>
  <2>1. InboxAgrees /\ InboxAgrees'
    BY <1>1, InboxAgreement, PTL
  <2> QED BY <2>1 DEF InboxAgrees
<1>7. inbox'[o] = Append(inbox[o], w) /\ inbox'[c] = inbox[c] /\ sent'[c] = Append(sent[c], w) /\ sent'[o] = sent[o]
  <2> HIDE DEF o, w
  <2>1. Len(inbox[o]) # Depth
    BY <1>2, <1>6 DEF Running, o
  <2>2. Len(inbox[o]) < Depth
    BY <1>5, <1>6, <2>1, DepthAssumption
  <2>3. inbox' = [inbox EXCEPT ![o] = Append(@, w)]
    BY <1>1, <1>2, <1>5, <2>2, WriteInbox DEF o, w
  <2>4. DOMAIN inbox = Core
    BY DEF inbox
  <2> QED BY <1>1, <1>4, <1>5, <2>3, <2>4 DEF w
<1>8. pc'[c] = "sent" /\ pc'[o] = pc[o]
  BY <1>1, <1>2, <1>5
<1>9. LastEcho' = LastEcho /\ LastEcho \in Seq(Word)
  BY <1>1, <1>2 DEF LastEcho
<1> HIDE DEF o, w
<1>10. got'[o] \o inbox'[o] = Append(got[o] \o inbox[o], w) /\ got'[c] = got[c]
  <2>0. got[o] \in Seq(Word) /\ inbox[o] \in Seq(Word) /\ w \in Word
    BY <1>1, <1>5, <1>6
  <2>1. got[o] \o Append(inbox[o], w) = Append(got[o] \o inbox[o], w)
    BY <2>0, SaidLast, Zenon
  <2> QED BY <1>2, <1>7, <2>1
<1>11. /\ got'[0] \o inbox'[0] = LastEcho' \o sent'[1]
       /\ got'[1] \o inbox'[1] = sent'[0]
  <2>1. CASE c = 0
    <3>1. o = 1
      BY <2>1 DEF o
    <3>2. /\ got[0] \o inbox[0] = LastEcho \o sent[1]
          /\ got[1] \o inbox[1] = sent[0]
      BY DEF Running
    <3> QED BY <1>2, <1>7, <1>9, <1>10, <2>1, <3>1, <3>2
  <2>2. CASE c = 1
    <3>1. o = 0
      BY <2>2 DEF o
    <3>2. /\ got[0] \o inbox[0] = LastEcho \o sent[1]
          /\ got[1] \o inbox[1] = sent[0]
      BY DEF Running
    <3>3. LastEcho \o Append(sent[1], w) = Append(LastEcho \o sent[1], w)
      <4>1. sent[1] \in Seq(Word) /\ LastEcho \in Seq(Word) /\ w \in Word
        BY <1>1, <1>5, <1>9
      <4> QED BY <4>1, SaidLast
    <3> QED BY <1>2, <1>7, <1>9, <1>10, <2>2, <3>1, <3>2, <3>3
  <2> QED BY <2>1, <2>2
<1>12. /\ \A d \in Core : pc'[d] = "push" => RDY(d)'
       /\ \A d \in Core : pc'[d] = "pop" => VLD(d)'
  <2>1. Other[o] = c /\ Other[c] = o
    BY <1>5 DEF o
  <2>2. pc'[c] # "push" /\ pc'[c] # "pop"
    BY <1>8
  <2>3. pc'[o] = "push" => RDY(o)'
    <3>1. pc[o] = "push" => RDY(o)
      BY <1>5 DEF Running
    <3>2. inbox'[Other[o]] = inbox[Other[o]]
      BY <1>7, <2>1
    <3>3. (RDY(o) <=> Len(inbox[Other[o]]) # Depth) /\ (RDY(o)' <=> Len(inbox'[Other[o]]) # Depth)
      BY <1>5, <1>6
    <3> QED BY <1>8, <3>1, <3>2, <3>3
  <2>4. pc'[o] = "pop" => VLD(o)'
    <3>1. inbox'[o] # <<>>
      <4>1. inbox[o] \in Seq(Word) /\ w \in Word
        BY <1>5, <1>6
      <4>2. Append(inbox[o], w) # <<>>
        BY <4>1, AppendProperties
      <4> QED BY <1>7, <4>2
    <3> QED BY <1>5, <1>6, <3>1
  <2> QED BY <1>5, <2>2, <2>3, <2>4
<1>13. /\ core1Launched' = TRUE /\ launchWaiting' = FALSE
       /\ request' \in Params /\ core1At' = request' /\ seq' \in {0, 6}
  BY <1>2 DEF Running, RunningFacts
<1>14. pc'[0] \in Talking /\ pc'[1] \in Talking
  BY <1>5, <1>8 DEF Running, Talking
<1>15. seq' = 6 => /\ pc'[0] \in {"sent", "checkVld", "block", "pop"}
                   /\ word'[0] = Command'[6] /\ sent'[0] = <<>> /\ got'[0] = <<>>
  <2>1. SUFFICES ASSUME seq = 6 PROVE /\ pc'[0] \in {"sent", "checkVld", "block", "pop"}
                   /\ word'[0] = Command'[6] /\ sent'[0] = <<>> /\ got'[0] = <<>>
    BY <1>2
  <2>2. c = 1 /\ o = 0
    BY <1>3, <2>1 DEF o
  <2>3. Command' = Command
    BY <1>2 DEF Command
  <2> QED BY <1>2, <1>7, <1>8, <2>1, <2>2, <2>3 DEF Running
<1> QED BY <1>11, <1>12, <1>13, <1>14, <1>15 DEF Running
\* A word heard.
LEMMA RunningPop ==
    ASSUME LaunchTypeOK, LaunchTypeOK', Running, RunningFacts, NEW c \in Core, PopMessage(c)
    PROVE  Running'
<1> USE Cores
<1>1. /\ FifoTypeOK /\ FifoTypeOK' /\ pc \in [Core -> Label]
      /\ sent \in [Core -> Seq(Word)] /\ got \in [Core -> Seq(Word)] /\ DOMAIN inbox = Core
  BY DEF LaunchTypeOK, TypeOK, inbox
<1>2. /\ pc[c] = "pop" /\ ReadRD(c) /\ pc' = [pc EXCEPT ![c] = "idle"] /\ ~(c = 0 /\ seq > 0)
      /\ got' = [got EXCEPT ![c] = Append(@, peek(rxFIFO[c]))]
      /\ UNCHANGED <<word, seq, request, sent>>
  BY DEF PopMessage, goto
<1> DEFINE o == Other[c]
<1>3. o \in Core /\ o # c /\ Other[o] = c /\ \A d \in Core : d = c \/ d = o
  <2>1. CASE c = 0
    BY <1>1, <2>1
  <2>2. CASE c = 1
    BY <1>1, <2>2
  <2> QED BY <2>1, <2>2
<1> HIDE DEF o
<1>4. /\ \A d \in Core : inbox[d] \in Seq(Word) /\ Len(inbox[d]) <= Depth /\ Len(inbox[d]) \in Nat
      /\ \A d \in Core : RDY(d) <=> Len(inbox[Other[d]]) # Depth
      /\ \A d \in Core : VLD(d) <=> inbox[d] # <<>>
      /\ \A d \in Core : inbox'[d] \in Seq(Word) /\ Len(inbox'[d]) \in Nat /\ Len(inbox'[d]) <= Depth
      /\ \A d \in Core : RDY(d)' <=> Len(inbox'[Other[d]]) # Depth
      /\ \A d \in Core : VLD(d)' <=> inbox'[d] # <<>>
  <2>1. InboxAgrees /\ InboxAgrees'
    BY <1>1, InboxAgreement, PTL
  <2> QED BY <2>1 DEF InboxAgrees
<1>5. inbox[c] # <<>>
  BY <1>2, <1>4 DEF Running
<1>6. /\ inbox' = [inbox EXCEPT ![c] = Tail(@)] /\ peek(rxFIFO[c]) = Head(inbox[c])
  BY <1>1, <1>2, <1>5, ReadInbox
<1>7. /\ inbox'[c] = Tail(inbox[c]) /\ inbox'[o] = inbox[o]
      /\ got'[c] = Append(got[c], Head(inbox[c])) /\ got'[o] = got[o]
  BY <1>1, <1>2, <1>3, <1>6
<1>8. pc'[c] = "idle" /\ pc'[o] = pc[o]
  BY <1>1, <1>2, <1>3
<1>9. LastEcho' = LastEcho
  BY <1>2 DEF LastEcho
<1>10. \A d \in Core : got'[d] \o inbox'[d] = got[d] \o inbox[d]
  <2>0. got[c] \in Seq(Word) /\ inbox[c] \in Seq(Word)
    BY <1>1, <1>4
  <2>1. Append(got[c], Head(inbox[c])) \o Tail(inbox[c]) = got[c] \o inbox[c]
    BY <1>5, <2>0, HeardFirst, Zenon
  <2>2. got'[c] \o inbox'[c] = got[c] \o inbox[c]
    BY <1>7, <2>1
  <2>3. got'[o] \o inbox'[o] = got[o] \o inbox[o]
    BY <1>7
  <2> QED BY <1>3, <2>2, <2>3
<1>11. /\ got'[0] \o inbox'[0] = LastEcho' \o sent'[1]
       /\ got'[1] \o inbox'[1] = sent'[0]
  BY <1>2, <1>9, <1>10 DEF Running
<1>12. /\ \A d \in Core : pc'[d] = "push" => RDY(d)'
       /\ \A d \in Core : pc'[d] = "pop" => VLD(d)'
  <2>1. Other[o] = c /\ Other[c] = o
    BY <1>3 DEF o
  <2>2. pc'[c] # "push" /\ pc'[c] # "pop"
    BY <1>8
  <2>3. RDY(o)'
    <3>1. Len(inbox'[c]) = Len(inbox[c]) - 1
      BY <1>4, <1>5, <1>7, HeadTailProperties
    <3>2. Len(inbox'[c]) # Depth
      <4>1. \A n \in Nat : n <= Depth => n - 1 # Depth
        BY DepthAssumption
      <4> QED BY <1>4, <3>1, <4>1
    <3> QED BY <1>3, <1>4, <2>1, <3>2
  <2>4. pc'[o] = "pop" => VLD(o)'
    BY <1>3, <1>4, <1>7, <1>8 DEF Running
  <2> QED BY <1>3, <2>2, <2>3, <2>4
<1>13. /\ core1Launched' = TRUE /\ launchWaiting' = FALSE
       /\ request' \in Params /\ core1At' = request' /\ seq' \in {0, 6}
  BY <1>2 DEF Running, RunningFacts
<1>14. pc'[0] \in Talking /\ pc'[1] \in Talking
  BY <1>3, <1>8 DEF Running, Talking
<1>15. seq' = 6 => /\ pc'[0] \in {"sent", "checkVld", "block", "pop"}
                   /\ word'[0] = Command'[6] /\ sent'[0] = <<>> /\ got'[0] = <<>>
  <2>1. SUFFICES ASSUME seq = 6 PROVE /\ pc'[0] \in {"sent", "checkVld", "block", "pop"}
                   /\ word'[0] = Command'[6] /\ sent'[0] = <<>> /\ got'[0] = <<>>
    BY <1>2
  <2>2. c = 1 /\ o = 0
    BY <1>2, <2>1 DEF o
  <2>3. Command' = Command
    BY <1>2 DEF Command
  <2> QED BY <1>2, <1>7, <1>8, <2>1, <2>2, <2>3 DEF Running
<1> QED BY <1>11, <1>12, <1>13, <1>14, <1>15 DEF Running

\* The last echo heard: the call returns, and the words behind it are core 1's.
LEMMA RunningEcho ==
    ASSUME LaunchConstants, LaunchTypeOK, LaunchTypeOK', Running, RunningFacts, PopEcho
    PROVE  Running'
<1> USE Cores
<1>1. /\ FifoTypeOK /\ FifoTypeOK' /\ pc \in [Core -> Label] /\ word[0] \in Word
      /\ sent \in [Core -> Seq(Word)] /\ got \in [Core -> Seq(Word)] /\ DOMAIN inbox = Core
  BY DEF LaunchTypeOK, TypeOK, inbox
<1>2. /\ ReadRD(0) /\ UNCHANGED <<request, sent, got>> /\ seq = 6
      /\ got[0] \o inbox[0] = LastEcho \o sent[1] /\ got[0] = <<>> /\ sent[0] = <<>>
      /\ got[1] \o inbox[1] = sent[0]
  BY DEF PopEcho, Running
<1>3. inbox[0] = <<word[0]>> \o sent[1]
  <2>1. LastEcho = <<word[0]>> /\ inbox[0] \in Seq(Word)
    BY <1>1, <1>2, InboxTypes DEF LastEcho
  <2>2. <<>> \o inbox[0] = inbox[0]
    BY <2>1, ConcatEmptySeq
  <2> QED BY <1>2, <2>1, <2>2, Zenon
<1>4. inbox[0] # <<>> /\ Head(inbox[0]) = word[0] /\ Tail(inbox[0]) = sent[1]
  <2>0. sent[1] \in Seq(Word)
    BY <1>1
  <2> DEFINE q == <<word[0]>> \o sent[1]
  <2>1. q # <<>> /\ Head(q) = word[0] /\ Tail(q) = sent[1]
    BY <1>1, <2>0, EchoFirst
  <2>2. inbox[0] = q
    BY <1>3
  <2> HIDE DEF q
  <2> QED BY <2>1, <2>2
<1>5. inbox' = [inbox EXCEPT ![0] = Tail(@)] /\ peek(rxFIFO[0]) = word[0]
  BY <1>1, <1>2, <1>4, ReadInbox
<1>6. inbox'[0] = sent[1] /\ inbox'[1] = inbox[1]
  BY <1>1, <1>4, <1>5
<1>7. seq' = 0 /\ pc' = [pc EXCEPT ![0] = "idle"] /\ word' = word
  BY <1>2, <1>5 DEF PopEcho, goto
<1>8. pc'[0] = "idle" /\ pc'[1] = pc[1]
  BY <1>1, <1>7
<1>9. got'[0] \o inbox'[0] = LastEcho' \o sent'[1]
  <2>1. LastEcho' = <<>>
    BY <1>7 DEF LastEcho
  <2> QED BY <1>2, <1>6, <2>1, Zenon
<1>10. got'[1] \o inbox'[1] = sent'[0]
  BY <1>2, <1>6
<1>11. /\ \A d \in Core : pc'[d] = "push" => RDY(d)'
       /\ \A d \in Core : pc'[d] = "pop" => VLD(d)'
  <2>1. InboxAgrees /\ InboxAgrees'
    BY <1>1, InboxAgreement, PTL
  <2>2. pc'[0] # "push" /\ pc'[0] # "pop"
    BY <1>8
  <2>3. RDY(1)'
    <3>1. Len(inbox'[0]) = Len(inbox[0]) - 1
      <4>1. inbox[0] \in Seq(Word) /\ inbox'[0] = Tail(inbox[0])
        BY <1>4, <1>6, <2>1 DEF InboxAgrees
      <4> QED BY <1>4, <4>1, HeadTailProperties
    <3>2. Len(inbox'[0]) # Depth
      <4>1. \A n \in Nat : n <= Depth => n - 1 # Depth
        BY DepthAssumption
      <4>2. Len(inbox[0]) \in Nat /\ Len(inbox[0]) <= Depth
        BY <2>1 DEF InboxAgrees
      <4> QED BY <3>1, <4>1, <4>2
    <3>3. RDY(1)' <=> Len(inbox'[Other[1]]) # Depth
      BY <2>1 DEF InboxAgrees
    <3> QED BY <3>2, <3>3
  <2>4. pc'[1] = "pop" => VLD(1)'
    <3>1. (VLD(1) <=> inbox[1] # <<>>) /\ (VLD(1)' <=> inbox'[1] # <<>>)
      BY <2>1 DEF InboxAgrees
    <3> QED BY <1>6, <1>8, <3>1 DEF Running
  <2> QED BY <2>2, <2>3, <2>4
<1>12. /\ core1Launched' = TRUE /\ launchWaiting' = FALSE
       /\ request' \in Params /\ core1At' = request' /\ seq' \in {0, 6} /\ seq' # 6
  BY <1>7 DEF Running, RunningFacts
<1>13. pc'[0] \in Talking /\ pc'[1] \in Talking
  BY <1>8 DEF Running, Talking
<1> QED BY <1>9, <1>10, <1>11, <1>12, <1>13 DEF Running
LEMMA RunningStep ==
    ASSUME LaunchConstants, LaunchTypeOK, Running, NEW c \in Core, Execute(c), turn' \in Core,
           UNCHANGED <<core1Launched, launchVars, core1At>>
    PROVE  LaunchInv'
<1> USE Cores
<1>1. request \in Params /\ pc[c] \in Talking /\ pc \in [Core -> Label] /\ seq \in {0, 6}
  BY DEF Running, LaunchTypeOK
<1>2. LaunchTypeOK'
  BY <1>1, ExecuteTypes
<1>3. request' = request => RunningFacts
  BY DEF RunningFacts, launchVars
<1>4. pc[c] # "drain" /\ pc[c] # "drainRead" /\ pc[c] # "drained" /\ pc[c] # "launch"
  BY <1>1 DEF Talking
<1>5. c = 0 /\ seq = 6 => pc[c] \in {"sent", "checkVld", "block", "pop"}
  BY DEF Running
<1>6. CASE Sleep(c) \/ Finished(c)
  <2>1. pc' = [pc EXCEPT ![c] = pc[c]] /\ UNCHANGED <<rxFIFO, sent, got, seq, word, request>>
    BY <1>1, <1>6 DEF Sleep, Finished, fifoVars
  <2>2. (pc[c] = "push" => RDY(c)) /\ (pc[c] = "pop" => VLD(c))
    BY DEF Running
  <2> QED BY <1>1, <1>2, <1>3, <1>5, <2>1, <2>2, RunningQuiet DEF LaunchInv
<1>7. CASE Signal(c)
  <2>1. PICK to \in {"checkVld", "idle"} :
            pc' = [pc EXCEPT ![c] = to] /\ (to = "idle" => ~(c = 0 /\ seq > 0))
    BY <1>4, <1>7 DEF Signal, goto
  <2>2. UNCHANGED <<rxFIFO, sent, got, seq, word, request>>
    BY <1>7 DEF Signal, fifoVars
  <2>3. to \in Talking /\ to # "push" /\ to # "pop"
    BY <2>1 DEF Talking
  <2>4. seq = 6 /\ c = 0 => to \in {"sent", "checkVld", "block", "pop"}
    BY <2>1
  <2> QED BY <1>2, <1>3, <2>1, <2>2, <2>3, <2>4, RunningQuiet DEF LaunchInv
<1>8. CASE WaitRdy(c)
  <2>1. PICK to \in {"push", "waitRdy"} : pc' = [pc EXCEPT ![c] = to] /\ (to = "push" => RDY(c))
    BY <1>8 DEF WaitRdy, goto
  <2>2. UNCHANGED <<rxFIFO, sent, got, seq, word, request>> /\ pc[c] = "waitRdy"
    BY <1>8 DEF WaitRdy, fifoVars
  <2>3. to \in Talking /\ to # "pop" /\ ~(seq = 6 /\ c = 0)
    BY <1>5, <2>1, <2>2 DEF Talking
  <2> QED BY <1>2, <1>3, <2>1, <2>2, <2>3, RunningQuiet DEF LaunchInv
<1>9. CASE CheckVld(c)
  <2>1. PICK to \in {"pop", "block"} : pc' = [pc EXCEPT ![c] = to] /\ (to = "pop" => VLD(c))
    BY <1>9 DEF CheckVld, goto
  <2>2. UNCHANGED <<rxFIFO, sent, got, seq, word, request>>
    BY <1>9 DEF CheckVld, fifoVars
  <2>3. to \in Talking /\ to # "push" /\ to \in {"sent", "checkVld", "block", "pop"}
    BY <2>1 DEF Talking
  <2> QED BY <1>2, <1>3, <2>1, <2>2, <2>3, RunningQuiet DEF LaunchInv
<1>10. CASE Block(c)
  <2>1. pc' = [pc EXCEPT ![c] = "checkVld"] /\ UNCHANGED <<rxFIFO, sent, got, seq, word, request>>
    BY <1>10 DEF Block, goto, fifoVars
  <2>2. "checkVld" \in Talking
    BY DEF Talking
  <2> QED BY <1>2, <1>3, <2>1, <2>2, RunningQuiet DEF LaunchInv
<1>11. CASE Choose(c)
  <2>1. PICK to \in {"waitRdy", "checkVld"} : pc' = [pc EXCEPT ![c] = to]
    BY <1>11 DEF Choose, goto
  <2>2. UNCHANGED <<rxFIFO, sent, got, seq, request>> /\ pc[c] = "idle"
    BY <1>11 DEF Choose, fifoVars
  <2>3. ~(seq = 6 /\ c = 0)
    BY <1>5, <2>2
  <2>4. c # 0 => word'[0] = word[0]
    <3>1. word \in [Core -> Word]
      BY DEF LaunchInv, LaunchTypeOK, TypeOK
    <3>2. (\E w \in Message : word' = [word EXCEPT ![c] = w]) \/ word' = word
      BY <1>11 DEF Choose
    <3> QED BY <3>1, <3>2
  <2>5. to \in Talking /\ to # "push" /\ to # "pop"
    BY <2>1 DEF Talking
  <2> QED BY <1>2, <1>3, <2>1, <2>2, <2>3, <2>4, <2>5, RunningQuiet DEF LaunchInv
<1>12. CASE Push(c)
  <2>1. RunningFacts
    BY <1>3, <1>12 DEF Push
  <2> QED BY <1>2, <1>12, <2>1, RunningPush DEF LaunchInv
<1>13. CASE PopMessage(c)
  <2>1. RunningFacts
    BY <1>3, <1>13 DEF PopMessage
  <2> QED BY <1>2, <1>13, <2>1, RunningPop DEF LaunchInv
<1>14. CASE PopEcho
  <2>1. RunningFacts
    BY <1>3, <1>14 DEF PopEcho
  <2> QED BY <1>2, <1>14, <2>1, RunningEcho DEF LaunchInv
<1>15. ~Drain(c) /\ ~DrainRead(c) /\ ~(c = 0 /\ BeginLaunch)
  BY <1>4 DEF Drain, DrainRead, BeginLaunch
<1> QED BY <1>6, <1>7, <1>8, <1>9, <1>10, <1>11, <1>12, <1>13, <1>14, <1>15 DEF Execute

LEMMA LaunchInvStep == LaunchConstants /\ LaunchInv /\ [Next]_vars => LaunchInv'
<1> SUFFICES ASSUME LaunchConstants, LaunchInv, [Next]_vars PROVE LaunchInv'
  OBVIOUS
<1> USE Cores
<1>1. LaunchTypeOK
  BY DEF LaunchInv
<1>2. CASE UNCHANGED vars
  <2>1. /\ UNCHANGED <<rxFIFO, WOF, ROE, irq>>
        /\ UNCHANGED <<turn, core1Launched, launchWaiting, launchCapturing, launchBuf, core1At, waiting,
                       eventRegistered, pc, word, seq, request, sent, got>>
    BY <1>2 DEF vars, fifoVars, launchVars
  <2>2. inbox' = inbox /\ Command' = Command
    BY <2>1 DEF inbox, Command
  <2>3. LaunchTypeOK'
    BY <1>1, <2>1 DEF LaunchTypeOK, TypeOK, FifoTypeOK
  <2>4. BeforeLaunch => BeforeLaunch'
    BY <2>1, <2>2 DEF BeforeLaunch
  <2>5. Handshake => Handshake'
    BY <2>1, <2>2 DEF Handshake, Draining, Unsent, OnItsWay, Echoed, Harmless, Taken
  <2>6. Running => Running'
    BY <2>1, <2>2 DEF Running, LastEcho, RDY, VLD
  <2> QED BY <2>3, <2>4, <2>5, <2>6 DEF LaunchInv
<1>3. CASE Next /\ BeforeLaunch
  BY <1>1, <1>3, BeforeLaunchStep
<1>4. CASE Next /\ Handshake
  <2>1. FifoTypeOK /\ (VLD(1) <=> inbox[1] # <<>>) /\ (inbox[1] = <<>> => ~VLD(1))
    BY <1>1, InboxTypes DEF LaunchTypeOK, TypeOK
  <2>2. CASE core1LaunchPoll
    <3>1. ~Unsent /\ ~Echoed
      BY <2>1, <2>2 DEF Unsent, Echoed, core1LaunchPoll
    <3> QED BY <1>1, <1>4, <2>2, <3>1, PollDraining, PollOnItsWay DEF Handshake, LaunchInv
  <2>3. CASE PollDone
    <3>1. /\ UNCHANGED <<rxFIFO, WOF, ROE, irq>> /\ turn' = 0 /\ inbox[1] = <<>>
          /\ UNCHANGED <<core1Launched, launchWaiting, launchCapturing, launchBuf, core1At, waiting,
                         eventRegistered, pc, word, seq, request, sent, got>>
      BY <2>1, <2>3 DEF PollDone, fifoVars, launchVars
    <3>2. inbox' = inbox /\ Command' = Command
      BY <3>1 DEF inbox, Command
    <3>3. LaunchTypeOK'
      BY <1>1, <3>1 DEF LaunchTypeOK, TypeOK, FifoTypeOK
    <3>4. ~OnItsWay
      <4>1. inbox[1] # <<word[0]>>
        BY <3>1
      <4> QED BY <4>1 DEF OnItsWay
    <3>5. Handshake'
      <4>1. Draining => Draining'
        BY <3>1, <3>2 DEF Draining, Harmless, Taken
      <4>2. Unsent => Unsent'
        BY <3>1, <3>2 DEF Unsent, Taken
      <4>3. Echoed => Echoed'
        BY <3>1, <3>2 DEF Echoed, Taken
      <4> QED BY <1>4, <3>1, <3>2, <3>4, <4>1, <4>2, <4>3 DEF Handshake
    <3> QED BY <3>3, <3>5 DEF LaunchInv
  <2>4. CASE Core0Step
    BY <1>1, <1>4, <2>4, HandshakeCore0
  <2>5. /\ core1Launched = FALSE /\ pc[1] = "held"
    BY <1>4 DEF Handshake
  <2>6. pc[0] # "early"
    BY <1>4 DEF Handshake, Draining, Unsent, OnItsWay, Echoed
  <2>7. /\ \A c \in Core : ~EarlySend(c)
        /\ ~holdCore1ForLaunch /\ ~Core1Step /\ ~CaughtUp
    BY <2>5, <2>6 DEF EarlySend, holdCore1ForLaunch, Core1Step, CaughtUp
  <2> QED BY <1>4, <2>2, <2>3, <2>4, <2>7 DEF Next
<1>5. CASE Next /\ Running
  <2>1. CASE Core0Step
    BY <1>1, <1>5, <2>1, RunningStep DEF Core0Step
  <2>2. CASE Core1Step
    <3>1. turn' \in Core
      BY <1>1, <2>2 DEF Core1Step, LaunchTypeOK, TypeOK
    <3> QED BY <1>1, <1>5, <2>2, <3>1, RunningStep DEF Core1Step
  <2>3. CASE CaughtUp
    <3>1. /\ UNCHANGED <<rxFIFO, WOF, ROE, irq>> /\ turn' = 0
          /\ UNCHANGED <<core1Launched, launchWaiting, launchCapturing, launchBuf, core1At, waiting,
                         eventRegistered, pc, word, seq, request, sent, got>>
      BY <2>3 DEF CaughtUp, fifoVars, launchVars
    <3>2. inbox' = inbox /\ Command' = Command
      BY <3>1 DEF inbox, Command
    <3>3. LaunchTypeOK'
      BY <1>1, <3>1 DEF LaunchTypeOK, TypeOK, FifoTypeOK
    <3>4. Running'
      BY <1>5, <3>1, <3>2 DEF Running, LastEcho, RDY, VLD
    <3> QED BY <3>3, <3>4 DEF LaunchInv
  <2>4. core1Launched = TRUE /\ pc[0] # "early" /\ pc[1] # "early"
    BY <1>5 DEF Running, Talking
  <2>5. /\ \A c \in Core : ~EarlySend(c)
        /\ ~holdCore1ForLaunch /\ ~core1LaunchPoll /\ ~PollDone
    BY <2>4 DEF EarlySend, holdCore1ForLaunch, core1LaunchPoll, PollDone
  <2> QED BY <1>5, <2>1, <2>2, <2>3, <2>5 DEF Next
<1> QED BY <1>2, <1>3, <1>4, <1>5 DEF LaunchInv

\* The launch is before the call, or within its handshake, a command at a time, or
\* over, with what the cores have told each other since in their mailboxes
\* (RP2350.stepCores, RPSIO.core1LaunchPoll and the SDK's side of it).
THEOREM LaunchInvHolds == Spec => []LaunchInv
<1>1. Init => LaunchInv
  BY LaunchInvInit, LaunchAssumption
<1>2. LaunchInv /\ [Next]_vars => LaunchInv'
  BY LaunchInvStep, LaunchAssumption
<1> QED BY <1>1, <1>2, PTL DEF Spec

\* Core 1 starts where it was asked to, core 0's call does not return before, and
\* no word of the handshake is mistaken for a message, however many words lay in
\* the mailboxes before and whichever core is slow (rp2350.ts stepCores).
THEOREM LaunchIsSound == Spec => []LaunchSound
<1>1. LaunchInv => LaunchSound
  <2> SUFFICES ASSUME LaunchInv PROVE LaunchSound
    OBVIOUS
  <2>1. LaunchTypeOK /\ TypeOK
    BY DEF LaunchInv, LaunchTypeOK
  <2>2. LaunchesAsAsked
    BY DEF LaunchInv, BeforeLaunch, Handshake, Running, LaunchesAsAsked
  <2>3. EchoedMeansLaunched
    <3>1. BeforeLaunch => request = None
      BY DEF BeforeLaunch
    <3>2. Handshake => seq # 0
      BY DEF Handshake
    <3>3. Running => core1Launched = TRUE
      BY DEF Running
    <3> QED BY <3>1, <3>2, <3>3 DEF LaunchInv, EchoedMeansLaunched
  <2>4. MessagesIntact
    <3> SUFFICES ASSUME request # None, seq = 0, NEW c \in Core PROVE IsPrefixOf(got[c], sent[Other[c]])
      BY DEF MessagesIntact
    <3>1. Running
      BY DEF LaunchInv, BeforeLaunch, Handshake
    <3>2. got[0] \o inbox[0] = <<>> \o sent[1] /\ got[1] \o inbox[1] = sent[0]
      BY <3>1 DEF Running, LastEcho
    <3>3. /\ got[c] \in Seq(Word) /\ inbox[c] \in Seq(Word) /\ sent[1] \in Seq(Word)
      BY <2>1, InboxTypes, Cores DEF LaunchTypeOK, TypeOK
    <3>4. <<>> \o sent[1] = sent[1]
      BY <3>3, ConcatEmptySeq
    <3>5. sent[Other[c]] = got[c] \o inbox[c]
      <4>1. CASE c = 0
        BY <3>2, <3>4, <4>1, Cores
      <4>2. CASE c = 1
        BY <3>2, <4>2, Cores
      <4> QED BY <4>1, <4>2, Cores
    <3>6. Len(got[c]) <= Len(got[c] \o inbox[c]) /\ got[c] = SubSeq(got[c] \o inbox[c], 1, Len(got[c]))
      BY <3>3, WordAssumption, QueueFacts
    <3> QED BY <3>5, <3>6 DEF IsPrefixOf
  <2> QED BY <2>1, <2>2, <2>3, <2>4 DEF LaunchSound
<1> QED BY <1>1, LaunchInvHolds, PTL
=============================================================================

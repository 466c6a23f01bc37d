----------------------------- MODULE DmaProofs ------------------------------
(***************************************************************************)
(* Proofs about Dma: for any number of channels, configurations, counts    *)
(* and words in the FIFO.  What the methods of a channel do to it is a     *)
(* lemma each; the actions then differ in which channels they touch.       *)
(***************************************************************************)
EXTENDS Dma, TLAPS

\* The invariant of one channel, req being the FIFO's DREQ.

Typed(ch) ==
    /\ ch \in Chan
    /\ ch.busy => ch.transCount # -1
    /\ ch.dest = TxFifo => ch.treq = "fifo"

AlarmOfActive(ch) == ch.alarm # "none" => ch.en /\ ch.busy

Going(ch, req) ==
    /\ ch.en /\ ch.busy /\ ch.transCount > 0
    /\ ch.treq = "permanent" \/ (ch.treq = "fifo" /\ req)
    => ch.alarm = "now"

\* A pending alarm was scheduled with the DREQ it waits for up, and it still is.
Paced(ch, req) == ch.alarm = "now" /\ ch.treq = "fifo" => req

ChanInv(ch, req) == Typed(ch) /\ AlarmOfActive(ch) /\ Going(ch, req)

SameButAlarm(a, b) ==
    /\ a.en = b.en /\ a.busy = b.busy /\ a.quiet = b.quiet /\ a.treq = b.treq
    /\ a.chainTo = b.chainTo /\ a.dest = b.dest /\ a.transCount = b.transCount
    /\ a.transCountReload = b.transCountReload /\ a.transMode = b.transMode

\* scheduleTransfer of a channel at work leaves it going, if what paces it says so.
LEMMA ScheduleFacts ==
    ASSUME NEW ch, NEW req \in BOOLEAN, Typed(ch), ch.en, ch.busy
    PROVE  LET s == scheduleTransfer(ch, req)
           IN  /\ ChanInv(s, req) /\ SameButAlarm(s, ch)
               /\ Paced(ch, req) => Paced(s, req)
  BY ZenonT(30) DEF ChanInv, Typed, AlarmOfActive, Going, Paced, SameButAlarm, scheduleTransfer, Chan, Treq

\* start leaves a channel as it was, or at the beginning of a job.
LEMMA StartFacts ==
    ASSUME NEW ch, NEW req \in BOOLEAN, ChanInv(ch, req)
    PROVE  LET s == start(ch, req)
           IN  /\ ChanInv(s, req)
               /\ Paced(ch, req) => Paced(s, req)
               /\ s.quiet = ch.quiet /\ s.treq = ch.treq /\ s.chainTo = ch.chainTo
               /\ s.dest = ch.dest /\ s.transMode = ch.transMode
               /\ s.transCountReload = ch.transCountReload /\ s.en = ch.en
               /\ ch.busy => s = ch
<1> DEFINE begun == [ch EXCEPT !.busy = TRUE, !.transCount = ch.transCountReload]
<1>1. CASE ~ch.en \/ ch.busy
  BY <1>1 DEF start
<1>2. CASE ch.en /\ ~ch.busy
  <2>1. ch \in Chan
    BY DEF ChanInv, Typed
  <2>2. /\ begun \in Chan /\ begun.en /\ begun.busy /\ begun.transCount \in Nat
        /\ begun.quiet = ch.quiet /\ begun.treq = ch.treq /\ begun.chainTo = ch.chainTo
        /\ begun.dest = ch.dest /\ begun.transMode = ch.transMode
        /\ begun.transCountReload = ch.transCountReload /\ begun.alarm = ch.alarm
        /\ begun.transCount = ch.transCountReload
    BY <1>2, <2>1 DEF Chan
  <2>3. Typed(begun) /\ AlarmOfActive(begun)
    BY <2>2 DEF Typed, ChanInv, AlarmOfActive
  <2>4. ch.alarm = "none"
    BY <1>2 DEF ChanInv, AlarmOfActive
  <2> HIDE DEF begun
  <2>5. CASE begun.transCount > 0
    <3>1. start(ch, req) = scheduleTransfer(begun, req)
      BY <1>2, <2>2, <2>5 DEF start, begun
    <3>2. Paced(begun, req)
      BY <2>2, <2>4 DEF Paced
    <3> DEFINE s == scheduleTransfer(begun, req)
    <3>3. ChanInv(s, req) /\ SameButAlarm(s, begun) /\ Paced(s, req)
      BY <2>2, <2>3, <3>2, ScheduleFacts
    <3> HIDE DEF s
    <3> QED
      BY <1>2, <2>2, <3>1, <3>3 DEF SameButAlarm, s
  <2>6. CASE ~(begun.transCount > 0)
    <3>1. start(ch, req) = begun
      BY <1>2, <2>2, <2>6 DEF start, begun
    <3>2. Going(begun, req)
      BY <2>6 DEF Going
    <3> QED
      BY <1>2, <2>2, <2>3, <2>4, <3>1, <3>2 DEF ChanInv, Paced
  <2> QED
    BY <2>5, <2>6
<1>3. ch.en \in BOOLEAN /\ ch.busy \in BOOLEAN
  BY DEF ChanInv, Typed, Chan
<1> QED
  BY <1>1, <1>2, <1>3

\* A write of the count alone changes nothing that the invariant speaks of.
LEMMA WriteCountFacts ==
    ASSUME NEW ch, NEW v \in CountValues, NEW req \in BOOLEAN, ChanInv(ch, req)
    PROVE  LET w == writeCount(ch, v)
           IN  /\ ChanInv(w, req) /\ (Paced(ch, req) => Paced(w, req))
               /\ w.dest = ch.dest /\ UnitsLeft(w) = UnitsLeft(ch)
<1> DEFINE w == writeCount(ch, v)
<1>1. ch \in Chan
  BY DEF ChanInv, Typed
<1>2. /\ w \in Chan /\ w.en = ch.en /\ w.busy = ch.busy /\ w.treq = ch.treq
      /\ w.dest = ch.dest /\ w.transCount = ch.transCount /\ w.alarm = ch.alarm
  BY <1>1 DEF writeCount, Chan, CountValues
<1> HIDE DEF w
<1>3. ChanInv(w, req) /\ (Paced(ch, req) => Paced(w, req)) /\ UnitsLeft(w) = UnitsLeft(ch)
  BY <1>2 DEF ChanInv, Typed, AlarmOfActive, Going, Paced, UnitsLeft
<1> QED
  BY <1>2, <1>3 DEF w

\* A write of TRANS_COUNT_TRIG, from firmware or from another channel: like start.
LEMMA WriteCountTrigFacts ==
    ASSUME NEW ch, NEW v \in CountValues, NEW req \in BOOLEAN, ChanInv(ch, req)
    PROVE  LET s == writeCountTrig(ch, v, req)
           IN  /\ ChanInv(s, req)
               /\ Paced(ch, req) => Paced(s, req)
               /\ s.dest = ch.dest
               /\ UnitsLeft(ch) = 0 \/ UnitsLeft(s) = UnitsLeft(ch)
<1> DEFINE w == writeCount(ch, v)
<1>3. /\ ChanInv(w, req) /\ (Paced(ch, req) => Paced(w, req))
      /\ w.dest = ch.dest /\ UnitsLeft(w) = UnitsLeft(ch)
  BY WriteCountFacts
<1> HIDE DEF w
<1>4. CASE v = Null
  <2>1. writeCountTrig(ch, v, req) = w
    BY <1>4 DEF writeCountTrig, w
  <2> QED
    BY <1>3, <2>1
<1>5. CASE v # Null
  <2> DEFINE s == start(w, req)
  <2>1. writeCountTrig(ch, v, req) = s
    BY <1>5 DEF writeCountTrig, w
  <2>2. /\ ChanInv(s, req) /\ (Paced(w, req) => Paced(s, req))
        /\ s.dest = w.dest /\ (w.busy => s = w)
    BY <1>3, StartFacts
  <2> HIDE DEF s
  <2>3. UnitsLeft(w) = 0 \/ UnitsLeft(s) = UnitsLeft(w)
    BY <2>2 DEF UnitsLeft
  <2> QED
    BY <1>3, <2>1, <2>2, <2>3
<1> QED
  BY <1>4, <1>5

\* A write of CTRL, once the fields are in place: of a busy channel, or one at rest.
LEMMA CtrlWrittenFacts ==
    ASSUME NEW ch, dreq \in BOOLEAN, Typed(ch), ch.alarm # "none" => ch.busy
    PROVE  LET s == ctrlWritten(ch)
           IN  /\ ChanInv(s, dreq) /\ SameButAlarm(s, ch)
               /\ Paced(ch, dreq) => Paced(s, dreq)
<1>1. ch \in Chan
  BY DEF Typed
<1>2. CASE ~ch.en
  <2>1. ctrlWritten(ch) = [ch EXCEPT !.alarm = "none"]
    BY <1>2 DEF ctrlWritten
  <2> QED
    BY <1>1, <1>2, <2>1 DEF ChanInv, Typed, AlarmOfActive, Going, Paced, SameButAlarm, Chan
<1>3. CASE ch.en /\ ch.busy
  <2>1. ctrlWritten(ch) = scheduleTransfer(ch, dreq)
    BY <1>3 DEF ctrlWritten
  <2> QED
    BY <1>3, <2>1, ScheduleFacts
<1>4. CASE ch.en /\ ~ch.busy
  <2>1. ctrlWritten(ch) = ch
    BY <1>4 DEF ctrlWritten
  <2> QED
    BY <1>1, <1>4, <2>1 DEF ChanInv, Typed, AlarmOfActive, Going, Paced, SameButAlarm
<1>5. ch.en \in BOOLEAN /\ ch.busy \in BOOLEAN
  BY <1>1 DEF Chan
<1> QED
  BY <1>2, <1>3, <1>4, <1>5

\* The invariant of a channel depends on DREQ one way only.
LEMMA DreqFalls ==
    ASSUME NEW ch, ChanInv(ch, TRUE)
    PROVE  ChanInv(ch, FALSE)
  BY DEF ChanInv, Going

\* counted takes a unit off, unless the channel does not count.
LEMMA CountedFacts ==
    ASSUME NEW ch, Typed(ch), ch.busy
    PROVE  LET m == counted(ch)
           IN  /\ m.transCount = (IF ch.transMode = ENDLESS THEN ch.transCount
                                  ELSE ch.transCount - 1)
               /\ m.transCount \in Nat \cup {-1}
               /\ m \in Chan
               /\ m.en = ch.en /\ m.busy = ch.busy /\ m.quiet = ch.quiet /\ m.treq = ch.treq
               /\ m.chainTo = ch.chainTo /\ m.dest = ch.dest /\ m.alarm = ch.alarm
               /\ m.transMode = ch.transMode
<1> DEFINE n == IF ch.transMode = ENDLESS THEN ch.transCount ELSE ch.transCount - 1
<1>1. ch \in Chan /\ ch.transCount \in Nat /\ n \in Nat \cup {-1}
  BY DEF Typed, Chan
<1>2. counted(ch) = [ch EXCEPT !.transCount = n]
  BY <1>1 DEF counted, Chan
<1> HIDE DEF n
<1>3. /\ counted(ch).transCount = n /\ counted(ch) \in Chan
      /\ counted(ch).en = ch.en /\ counted(ch).busy = ch.busy
      /\ counted(ch).quiet = ch.quiet /\ counted(ch).treq = ch.treq
      /\ counted(ch).chainTo = ch.chainTo /\ counted(ch).dest = ch.dest
      /\ counted(ch).alarm = ch.alarm /\ counted(ch).transMode = ch.transMode
  BY <1>1, <1>2 DEF Chan
<1> QED
  BY <1>1, <1>3 DEF n

\* A channel with units left goes on as its pacing allows.
LEMMA GoesOnFacts ==
    ASSUME NEW ch, NEW req \in BOOLEAN, Typed(ch), ch.en, ch.busy, ch.alarm = "none",
           counted(ch).transCount > 0
    PROVE  LET s == scheduleTransfer(counted(ch), req)
           IN  /\ ChanInv(s, req) /\ Paced(s, req)
               /\ UnitsLeft(s) = counted(ch).transCount
               /\ s.transMode = ch.transMode /\ s.dest = ch.dest
<1> DEFINE m == counted(ch)
           s == scheduleTransfer(m, req)
<1>1. /\ m \in Chan /\ m.transCount \in Nat /\ m.en /\ m.busy /\ m.alarm = "none"
      /\ m.treq = ch.treq /\ m.dest = ch.dest /\ m.transMode = ch.transMode
  BY CountedFacts
<1> HIDE DEF m
<1>2. Typed(m) /\ Paced(m, req)
  BY <1>1 DEF Typed, Paced
<1>3. ChanInv(s, req) /\ SameButAlarm(s, m) /\ Paced(s, req)
  BY <1>1, <1>2, ScheduleFacts
<1> HIDE DEF s
<1>4. m.transCount > 0
  BY DEF m
<1>5. UnitsLeft(s) = m.transCount /\ s.transMode = ch.transMode /\ s.dest = ch.dest
  BY <1>1, <1>3, <1>4 DEF UnitsLeft, SameButAlarm
<1> QED
  BY <1>3, <1>5 DEF m, s

\* A channel that moved its last unit rests, or is at the beginning of a job.
LEMMA FinishedFacts ==
    ASSUME NEW ch, NEW req \in BOOLEAN, Typed(ch), ch.en, ch.busy, ch.alarm = "none"
    PROVE  LET f == finished(counted(ch), req)
           IN  ChanInv(f, req) /\ Paced(f, req) /\ f.transMode = ch.transMode
               /\ f.dest = ch.dest
<1> DEFINE m == counted(ch)
           r == [m EXCEPT !.transCount = m.transCountReload]
           b == [m EXCEPT !.busy = FALSE]
<1>1. /\ m \in Chan /\ m.en /\ m.busy /\ m.alarm = "none"
      /\ m.treq = ch.treq /\ m.dest = ch.dest /\ m.transMode = ch.transMode
  BY CountedFacts
<1> HIDE DEF m
<1>2. CASE m.transMode = SELF
  <2>1. /\ r \in Chan /\ r.transCount \in Nat /\ r.en /\ r.busy /\ r.alarm = "none"
        /\ r.treq = m.treq /\ r.dest = m.dest /\ r.transMode = m.transMode
    BY <1>1 DEF Chan
  <2>2. finished(m, req) = scheduleTransfer(r, req)
    BY <1>2 DEF finished
  <2> HIDE DEF r
  <2>3. Typed(r) /\ Paced(r, req)
    BY <1>1, <2>1 DEF Typed, Paced
  <2> DEFINE s == scheduleTransfer(r, req)
  <2>4. ChanInv(s, req) /\ SameButAlarm(s, r) /\ Paced(s, req)
    BY <2>1, <2>3, ScheduleFacts
  <2> HIDE DEF s
  <2>5. finished(m, req) = s
    BY <2>2 DEF s
  <2> QED
    BY <1>1, <2>1, <2>4, <2>5 DEF SameButAlarm, m
<1>3. CASE m.transMode # SELF
  <2>1. /\ b \in Chan /\ ~b.busy /\ b.alarm = "none" /\ b.treq = m.treq /\ b.dest = m.dest
        /\ b.transMode = m.transMode
    BY <1>1 DEF Chan
  <2>2. finished(m, req) = b
    BY <1>3 DEF finished
  <2> HIDE DEF b
  <2>3. ChanInv(b, req) /\ Paced(b, req)
    BY <1>1, <2>1 DEF ChanInv, Typed, AlarmOfActive, Going, Paced
  <2> QED
    BY <1>1, <2>1, <2>2, <2>3 DEF m
<1> QED
  BY <1>2, <1>3

\* The channels after a transfer: the one that moved a unit, the one it chains to
\* and the others.
LEMMA TransferredFacts ==
    ASSUME NEW cs \in [Channel -> Chan], NEW c \in Channel, NEW req \in BOOLEAN,
           \A d \in Channel \ {c} : ChanInv(cs[d], req),
           Typed(cs[c]), cs[c].en, cs[c].busy, cs[c].alarm = "none"
    PROVE  LET new == transferred(cs, c, req)
           IN  /\ new \in [Channel -> Chan]
               /\ \A d \in Channel : ChanInv(new[d], req) /\ new[d].dest = cs[d].dest
               /\ \A d \in Channel \ {c} :
                     /\ Paced(cs[d], req) => Paced(new[d], req)
                     /\ UnitsLeft(cs[d]) = 0 \/ UnitsLeft(new[d]) = UnitsLeft(cs[d])
               /\ Paced(new[c], req)
               /\ new[c].transMode = cs[c].transMode
               /\ counted(cs[c]).transCount > 0
                     => UnitsLeft(new[c]) = counted(cs[c]).transCount
<1> DEFINE m == counted(cs[c])
           new == transferred(cs, c, req)
<1>1. m.chainTo \in Channel /\ m.transCount \in Int
  <2>1. m.chainTo = cs[c].chainTo /\ m.transCount \in Nat \cup {-1}
    BY CountedFacts
  <2> QED
    BY <2>1 DEF Chan
<1>2. CASE m.transCount > 0
  <2> DEFINE s == scheduleTransfer(m, req)
  <2>1. /\ ChanInv(s, req) /\ Paced(s, req) /\ UnitsLeft(s) = m.transCount
        /\ s.transMode = cs[c].transMode /\ s.dest = cs[c].dest
    BY <1>2, GoesOnFacts
  <2>2. new = [cs EXCEPT ![c] = s]
    BY <1>2 DEF transferred
  <2> HIDE DEF s, m
  <2>3. s \in Chan
    BY <2>1 DEF ChanInv, Typed
  <2>4. new \in [Channel -> Chan] /\ new[c] = s /\ \A d \in Channel \ {c} : new[d] = cs[d]
    BY <2>2, <2>3
  <2> HIDE DEF new
  <2> QED
    BY <2>1, <2>4 DEF m, new
<1>3. CASE ~(m.transCount > 0)
  <2> DEFINE f == finished(m, req)
             n == m.chainTo
             chained == IF n = c THEN cs ELSE [cs EXCEPT ![n] = start(@, req)]
  <2>1. ChanInv(f, req) /\ Paced(f, req) /\ f.transMode = cs[c].transMode /\ f.dest = cs[c].dest
    BY FinishedFacts
  <2>2. new = [chained EXCEPT ![c] = f]
    BY <1>3 DEF transferred
  <2>3. n \in Channel
    BY <1>1
  <2> HIDE DEF f, m, new, n
  <2>4. f \in Chan
    BY <2>1 DEF ChanInv, Typed
  <2>5. \A d \in Channel \ {c} : new[d] = IF d = n THEN start(cs[d], req) ELSE cs[d]
    BY <2>2, <2>3
  <2>6. \A d \in Channel \ {c} :
           LET s == start(cs[d], req)
           IN  /\ ChanInv(s, req) /\ s.dest = cs[d].dest
               /\ Paced(cs[d], req) => Paced(s, req)
               /\ UnitsLeft(cs[d]) = 0 \/ UnitsLeft(s) = UnitsLeft(cs[d])
    <3> SUFFICES ASSUME NEW d \in Channel \ {c}
                 PROVE  LET s == start(cs[d], req)
                        IN  /\ ChanInv(s, req) /\ s.dest = cs[d].dest
                            /\ Paced(cs[d], req) => Paced(s, req)
                            /\ UnitsLeft(cs[d]) = 0 \/ UnitsLeft(s) = UnitsLeft(cs[d])
      OBVIOUS
    <3> DEFINE s == start(cs[d], req)
    <3>1. /\ ChanInv(s, req) /\ s.dest = cs[d].dest /\ (Paced(cs[d], req) => Paced(s, req))
          /\ cs[d].busy => s = cs[d]
      BY StartFacts
    <3> HIDE DEF s
    <3> QED
      BY <3>1 DEF s, UnitsLeft
  <2>7. new[c] = f
    BY <2>2, <2>3 DEF chained
  <2>8. \A d \in Channel \ {c} :
           /\ ChanInv(new[d], req) /\ new[d].dest = cs[d].dest
           /\ Paced(cs[d], req) => Paced(new[d], req)
           /\ UnitsLeft(cs[d]) = 0 \/ UnitsLeft(new[d]) = UnitsLeft(cs[d])
    BY <2>5, <2>6
  <2>9. new \in [Channel -> Chan]
    <3>1. DOMAIN new = Channel /\ new = [d \in Channel |-> new[d]]
      BY <2>2 DEF chained
    <3>2. \A d \in Channel : new[d] \in Chan
      BY <2>4, <2>7, <2>8 DEF ChanInv, Typed
    <3> QED
      BY <3>1, <3>2
  <2> HIDE DEF chained
  <2> QED
    BY <1>3, <2>1, <2>7, <2>8, <2>9 DEF m, new
<1> QED
  BY <1>1, <1>2, <1>3

-----------------------------------------------------------------------------
(* The invariant. *)

\* Each channel is in order, DREQ is up while the FIFO has room, and while no two
\* channels have shared it no alarm paced by it outlives its fall.
Inv ==
    /\ TypeOK
    /\ \A c \in Channel : ChanInv(chans[c], dreq) /\ chans[c].dest # c
    /\ dreq <=> used < Depth
    /\ ~shared => ~TwoOnFifo /\ \A c \in Channel : Paced(chans[c], dreq)

\* At reset nothing is busy and the FIFO is empty.
LEMMA InvInit == Init => Inv
<1> SUFFICES ASSUME Init PROVE Inv
  OBVIOUS
<1>1. ASSUME NEW c \in Channel
      PROVE  /\ AtReset(c) \in Chan /\ ~AtReset(c).busy /\ AtReset(c).alarm = "none"
             /\ AtReset(c).dest = Memory
  BY DEF AtReset, Chan, Treq
<1>2. chans \in [Channel -> Chan]
  BY <1>1 DEF Init
<1>3. \A c \in Channel : ~chans[c].busy /\ chans[c].alarm = "none" /\ chans[c].dest = Memory
  BY <1>1 DEF Init
<1>4. /\ intRaw = {} /\ used = 0
      /\ dreq = TRUE /\ timer = FALSE /\ ticking = FALSE /\ shared = FALSE
  BY DEF Init
<1>5. \A c \in Channel : ChanInv(chans[c], dreq) /\ chans[c].dest # c /\ Paced(chans[c], dreq)
  <2> SUFFICES ASSUME NEW c \in Channel
               PROVE  ChanInv(chans[c], dreq) /\ chans[c].dest # c /\ Paced(chans[c], dreq)
    OBVIOUS
  <2>1. Memory # TxFifo /\ Memory # c
    BY DestAssumption
  <2> QED
    BY <1>2, <1>3, <2>1 DEF ChanInv, Typed, AlarmOfActive, Going, Paced
<1>6. TypeOK
  <2>1. used \in 0 .. Depth
    BY <1>4, DepthAssumption
  <2> QED
    BY <1>2, <1>3, <1>4, <2>1, Zenon DEF TypeOK
<1>7. dreq <=> used < Depth
  <2>1. used < Depth
    BY <1>4, DepthAssumption
  <2> QED
    BY <1>4, <2>1, Zenon
<1>8. ~TwoOnFifo
  BY <1>3 DEF TwoOnFifo
<1> QED
  BY <1>5, <1>6, <1>7, <1>8 DEF Inv

\* What is left to show of a step: what it makes of each channel and of the FIFO.
LEMMA ByChannel ==
    ASSUME Inv, shared' = (shared \/ TwoOnFifo'), chans' \in [Channel -> Chan],
           \A c \in Channel : ChanInv(chans'[c], dreq') /\ chans'[c].dest # c,
           ~shared => \A c \in Channel : Paced(chans'[c], dreq'),
           dreq' \in BOOLEAN, dreq' <=> used' < Depth, used' \in 0 .. Depth, intRaw' \subseteq Channel,
           timer' \in BOOLEAN, ticking' \in BOOLEAN
    PROVE  Inv'
<1>1. TypeOK'
  <2>1. \A c \in Channel : chans'[c].busy => chans'[c].transCount # -1
    BY DEF ChanInv, Typed
  <2>2. shared \in BOOLEAN /\ TwoOnFifo' \in BOOLEAN
    BY Zenon DEF Inv, TypeOK, TwoOnFifo
  <2>3. shared' \in BOOLEAN
    BY <2>2
  <2> QED
    BY <2>1, <2>3 DEF TypeOK
<1>2. ~shared' => ~TwoOnFifo' /\ ~shared
  OBVIOUS
<1> QED
  BY <1>1, <1>2 DEF Inv

\* A step of firmware or of the clock that leaves the FIFO alone and makes
\* something sound of every channel.
LEMMA FifoUntouched ==
    ASSUME Inv, shared' = (shared \/ TwoOnFifo'), UNCHANGED <<dreq, used>>,
           chans' \in [Channel -> Chan], intRaw' \subseteq Channel,
           timer' \in BOOLEAN, ticking' \in BOOLEAN,
           \A c \in Channel :
              /\ ChanInv(chans'[c], dreq) /\ chans'[c].dest # c
              /\ Paced(chans[c], dreq) => Paced(chans'[c], dreq)
    PROVE  Inv'
<1>1. dreq' \in BOOLEAN /\ (dreq' <=> used' < Depth) /\ used' \in 0 .. Depth
  BY DEF Inv, TypeOK
<1>2. ~shared => \A c \in Channel : Paced(chans'[c], dreq')
  BY DEF Inv
<1>3. \A c \in Channel : ChanInv(chans'[c], dreq') /\ chans'[c].dest # c
  OBVIOUS
<1> QED
  BY <1>1, <1>2, <1>3, ByChannel

\* A step that makes something sound of one channel.
LEMMA OneChannel ==
    ASSUME Inv, shared' = (shared \/ TwoOnFifo'), UNCHANGED env,
           NEW c \in Channel, NEW s, chans' = [chans EXCEPT ![c] = s],
           ChanInv(s, dreq), s.dest # c, Paced(chans[c], dreq) => Paced(s, dreq),
           intRaw' \subseteq Channel
    PROVE  Inv'
<1>1. s \in Chan
  BY DEF ChanInv, Typed
<1>2. /\ chans' \in [Channel -> Chan]
      /\ chans'[c] = s /\ \A d \in Channel \ {c} : chans'[d] = chans[d]
  BY <1>1 DEF Inv, TypeOK
<1>3. \A d \in Channel :
         /\ ChanInv(chans'[d], dreq) /\ chans'[d].dest # d
         /\ Paced(chans[d], dreq) => Paced(chans'[d], dreq)
  BY <1>2 DEF Inv
<1>4. UNCHANGED <<dreq, used>> /\ timer' \in BOOLEAN /\ ticking' \in BOOLEAN
  BY DEF env, Inv, TypeOK
<1> QED
  BY <1>2, <1>3, <1>4, FifoUntouched

-----------------------------------------------------------------------------
(* Each action keeps it. *)

\* A channel at rest has no alarm: CTRL may pace it in any way, and CTRL_TRIG start it.
LEMMA ConfigureStep ==
    ASSUME Inv, shared' = (shared \/ TwoOnFifo'), NEW c \in Channel, NEW f \in Config[c],
           NEW en \in BOOLEAN, NEW trig \in BOOLEAN, Configure(c, f, en, trig)
    PROVE  Inv'
<1> DEFINE set == [chans[c] EXCEPT !.en = en, !.quiet = f.quiet, !.treq = f.treq,
                                   !.chainTo = f.chainTo, !.dest = f.dest]
           ch == ctrlWritten(set)
           s == start(ch, dreq)
<1>1. f \in CtrlFields /\ (f.dest = TxFifo => f.treq = "fifo") /\ f.dest # c
  BY ConfigAssumption
<1>2. chans[c] \in Chan /\ ChanInv(chans[c], dreq) /\ dreq \in BOOLEAN /\ ~chans[c].busy
  BY DEF Inv, TypeOK, Configure
<1>3. /\ set \in Chan /\ set.busy = chans[c].busy /\ set.alarm = chans[c].alarm
      /\ set.treq = f.treq /\ set.dest = f.dest /\ set.transCount = chans[c].transCount
  BY <1>1, <1>2 DEF Chan, CtrlFields
<1>4. Typed(set) /\ set.alarm = "none"
  BY <1>1, <1>2, <1>3 DEF ChanInv, Typed, AlarmOfActive
<1> HIDE DEF set
<1>5. ChanInv(ch, dreq) /\ SameButAlarm(ch, set) /\ Paced(ch, dreq)
  BY <1>2, <1>4, CtrlWrittenFacts DEF Paced
<1> HIDE DEF ch
<1>6. ch.dest # c
  BY <1>1, <1>3, <1>5 DEF SameButAlarm
<1>7. ChanInv(s, dreq) /\ Paced(s, dreq) /\ s.dest # c
  BY <1>2, <1>5, <1>6, StartFacts
<1> HIDE DEF s
<1>8. /\ UNCHANGED env /\ intRaw' \subseteq Channel
      /\ chans' = [chans EXCEPT ![c] = IF trig THEN s ELSE ch]
  BY DEF Configure, Inv, TypeOK, s, ch, set
<1> QED
  BY <1>5, <1>6, <1>7, <1>8, OneChannel

\* Pausing unlinks the alarm; resuming asks DREQ anew.
LEMMA SetEnableStep ==
    ASSUME Inv, shared' = (shared \/ TwoOnFifo'), NEW c \in Channel, NEW en \in BOOLEAN,
           SetEnable(c, en)
    PROVE  Inv'
<1> DEFINE set == [chans[c] EXCEPT !.en = en]
           s == ctrlWritten(set)
<1>1. /\ chans[c] \in Chan /\ ChanInv(chans[c], dreq) /\ dreq \in BOOLEAN
      /\ chans[c].busy /\ chans[c].dest # c
  BY DEF Inv, TypeOK, SetEnable
<1>2. /\ set \in Chan /\ set.busy /\ set.alarm = chans[c].alarm /\ set.treq = chans[c].treq
      /\ set.dest = chans[c].dest /\ set.transCount = chans[c].transCount
  BY <1>1 DEF Chan
<1> HIDE DEF set
<1>3. Typed(set) /\ (Paced(chans[c], dreq) => Paced(set, dreq))
  BY <1>1, <1>2 DEF ChanInv, Typed, Paced
<1>4. ChanInv(s, dreq) /\ SameButAlarm(s, set) /\ (Paced(set, dreq) => Paced(s, dreq))
  BY <1>1, <1>2, <1>3, CtrlWrittenFacts
<1> HIDE DEF s
<1>5. s.dest # c /\ (Paced(chans[c], dreq) => Paced(s, dreq))
  BY <1>1, <1>2, <1>3, <1>4 DEF SameButAlarm
<1>6. UNCHANGED env /\ intRaw' \subseteq Channel /\ chans' = [chans EXCEPT ![c] = s]
  BY DEF SetEnable, Inv, TypeOK, s, set
<1> QED
  BY <1>4, <1>5, <1>6, OneChannel

\* TRANS_COUNT and TRANS_COUNT_TRIG, at rest or under a job.
LEMMA WriteCountStep ==
    ASSUME Inv, shared' = (shared \/ TwoOnFifo'), NEW c \in Channel, NEW v \in Counts[c],
           NEW trig \in BOOLEAN, WriteCount(c, v, trig)
    PROVE  Inv'
<1> DEFINE w == writeCount(chans[c], v)
           t == writeCountTrig(chans[c], v, dreq)
<1>1. v \in CountValues
  BY CountsAssumption
<1>2. ChanInv(chans[c], dreq) /\ dreq \in BOOLEAN /\ chans[c].dest # c
  BY DEF Inv, TypeOK
<1>3. ChanInv(w, dreq) /\ (Paced(chans[c], dreq) => Paced(w, dreq)) /\ w.dest = chans[c].dest
  BY <1>1, <1>2, WriteCountFacts
<1>4. ChanInv(t, dreq) /\ (Paced(chans[c], dreq) => Paced(t, dreq)) /\ t.dest = chans[c].dest
  BY <1>1, <1>2, WriteCountTrigFacts
<1> HIDE DEF w, t
<1>5. /\ UNCHANGED env /\ intRaw' \subseteq Channel
      /\ chans' = [chans EXCEPT ![c] = IF trig THEN t ELSE w]
  BY DEF WriteCount, NullTriggered, Inv, TypeOK, w, t
<1> QED
  BY <1>2, <1>3, <1>4, <1>5, OneChannel

\* READ_ADDR_TRIG and WRITE_ADDR_TRIG.
LEMMA WriteAddrTrigStep ==
    ASSUME Inv, shared' = (shared \/ TwoOnFifo'), NEW c \in Channel, NEW null \in BOOLEAN,
           WriteAddrTrig(c, null)
    PROVE  Inv'
<1> DEFINE s == IF null THEN chans[c] ELSE start(chans[c], dreq)
<1>1. ChanInv(chans[c], dreq) /\ dreq \in BOOLEAN /\ chans[c].dest # c
  BY DEF Inv, TypeOK
<1>2. ChanInv(s, dreq) /\ (Paced(chans[c], dreq) => Paced(s, dreq)) /\ s.dest # c
  BY <1>1, StartFacts
<1>3. chans' = [chans EXCEPT ![c] = s]
  BY DEF WriteAddrTrig, Inv, TypeOK
<1> HIDE DEF s
<1>4. UNCHANGED env /\ intRaw' \subseteq Channel
  BY DEF WriteAddrTrig, NullTriggered, Inv, TypeOK
<1> QED
  BY <1>2, <1>3, <1>4, OneChannel

\* MULTI_CHAN_TRIGGER starts channels at rest.
LEMMA MultiChanTriggerStep ==
    ASSUME Inv, shared' = (shared \/ TwoOnFifo'), NEW mask \in SUBSET Channel,
           MultiChanTrigger(mask)
    PROVE  Inv'
<1>1. \A c \in Channel :
         LET s == start(chans[c], dreq)
         IN  ChanInv(s, dreq) /\ (Paced(chans[c], dreq) => Paced(s, dreq)) /\ s.dest # c
  BY StartFacts DEF Inv, TypeOK
<1>2. \A c \in Channel :
         /\ ChanInv(chans'[c], dreq) /\ chans'[c].dest # c
         /\ Paced(chans[c], dreq) => Paced(chans'[c], dreq)
  BY <1>1 DEF MultiChanTrigger, Inv
<1>3. chans' \in [Channel -> Chan]
  <2>1. DOMAIN chans' = Channel /\ chans' = [c \in Channel |-> chans'[c]]
    BY DEF MultiChanTrigger
  <2>2. \A c \in Channel : chans'[c] \in Chan
    BY <1>2 DEF ChanInv, Typed
  <2> QED
    BY <2>1, <2>2
<1>4. /\ UNCHANGED <<dreq, used>> /\ intRaw' \subseteq Channel
      /\ timer' \in BOOLEAN /\ ticking' \in BOOLEAN
  BY DEF MultiChanTrigger, env, Inv, TypeOK
<1> QED
  BY <1>2, <1>3, <1>4, FifoUntouched

\* CHAN_ABORT leaves channels at rest, their alarms unlinked.
LEMMA ChanAbortStep ==
    ASSUME Inv, shared' = (shared \/ TwoOnFifo'), NEW mask \in SUBSET Channel, ChanAbort(mask)
    PROVE  Inv'
<1>1. ASSUME NEW c \in Channel
      PROVE  LET s == abort(chans[c])
             IN  ChanInv(s, dreq) /\ Paced(s, dreq) /\ s.dest # c
  <2> DEFINE s == abort(chans[c])
  <2>1. ChanInv(chans[c], dreq) /\ chans[c].dest # c /\ chans[c] \in Chan
    BY DEF Inv, TypeOK
  <2>2. /\ s \in Chan /\ ~s.busy /\ s.alarm = "none"
        /\ s.dest = chans[c].dest /\ s.treq = chans[c].treq
    BY <2>1 DEF abort, Chan
  <2> HIDE DEF s
  <2>3. ChanInv(s, dreq) /\ Paced(s, dreq) /\ s.dest # c
    BY <2>1, <2>2 DEF ChanInv, Typed, AlarmOfActive, Going, Paced
  <2> QED
    BY <2>3 DEF s
<1>2. \A c \in Channel :
         /\ ChanInv(chans'[c], dreq) /\ chans'[c].dest # c
         /\ Paced(chans[c], dreq) => Paced(chans'[c], dreq)
  BY <1>1 DEF ChanAbort, Inv
<1>3. chans' \in [Channel -> Chan]
  <2>1. DOMAIN chans' = Channel /\ chans' = [c \in Channel |-> chans'[c]]
    BY DEF ChanAbort
  <2>2. \A c \in Channel : chans'[c] \in Chan
    BY <1>2 DEF ChanInv, Typed
  <2> QED
    BY <2>1, <2>2
<1>4. /\ UNCHANGED <<dreq, used>> /\ intRaw' \subseteq Channel
      /\ timer' \in BOOLEAN /\ ticking' \in BOOLEAN
  BY DEF ChanAbort, env, Inv, TypeOK
<1> QED
  BY <1>2, <1>3, <1>4, FifoUntouched

\* The steps that touch no channel.
LEMMA ChansUntouched ==
    ASSUME Inv, shared' = (shared \/ TwoOnFifo'),
           \/ \E mask \in SUBSET Channel : ClearIntr(mask)
           \/ \E on \in BOOLEAN : SetTimer(on)
           \/ StartTick
           \/ TickDone
    PROVE  Inv'
<1>1. /\ UNCHANGED <<chans, dreq, used>> /\ intRaw' \subseteq Channel
      /\ timer' \in BOOLEAN /\ ticking' \in BOOLEAN
  BY DEF ClearIntr, SetTimer, StartTick, TickDone, env, Inv, TypeOK
<1>2. \A c \in Channel :
         /\ ChanInv(chans'[c], dreq) /\ chans'[c].dest # c
         /\ Paced(chans[c], dreq) => Paced(chans'[c], dreq)
  BY <1>1 DEF Inv
<1>3. chans' \in [Channel -> Chan]
  BY <1>1 DEF Inv, TypeOK
<1> QED
  BY <1>1, <1>2, <1>3, FifoUntouched

\* When DREQ rises, every channel that waits for it is set in motion.
LEMMA TakeStep ==
    ASSUME Inv, shared' = (shared \/ TwoOnFifo'), Take
    PROVE  Inv'
<1>1. ASSUME NEW c \in Channel
      PROVE  ChanInv(chans'[c], TRUE) /\ Paced(chans'[c], TRUE) /\ chans'[c].dest # c
  <2>1. ChanInv(chans[c], dreq) /\ chans[c].dest # c /\ dreq \in BOOLEAN
    BY DEF Inv, TypeOK
  <2>2. CASE ~dreq /\ chans[c].treq = "fifo" /\ chans[c].en /\ chans[c].busy
    <3> DEFINE s == scheduleTransfer(chans[c], TRUE)
    <3>1. ChanInv(s, TRUE) /\ SameButAlarm(s, chans[c])
      BY <2>1, <2>2, ScheduleFacts DEF ChanInv
    <3> HIDE DEF s
    <3>2. chans'[c] = s
      BY <2>2 DEF Take, s
    <3> QED
      BY <2>1, <3>1, <3>2 DEF SameButAlarm, Paced
  <2>3. CASE ~(~dreq /\ chans[c].treq = "fifo" /\ chans[c].en /\ chans[c].busy)
    <3>1. chans'[c] = chans[c]
      BY <2>3 DEF Take
    <3>2. ChanInv(chans[c], TRUE)
      BY <2>1, <2>3 DEF ChanInv, Going
    <3> QED
      BY <2>1, <3>1, <3>2 DEF Paced
  <2> QED
    BY <2>2, <2>3
<1>2. chans' \in [Channel -> Chan]
  <2>1. DOMAIN chans' = Channel /\ chans' = [c \in Channel |-> chans'[c]]
    BY DEF Take
  <2>2. \A c \in Channel : chans'[c] \in Chan
    BY <1>1 DEF ChanInv, Typed
  <2> QED
    BY <2>1, <2>2
<1>3. dreq' = TRUE
  BY DEF Take
<1>4. used' < Depth /\ used' \in 0 .. Depth
  BY DepthAssumption DEF Take, Inv, TypeOK
<1>5. dreq' \in BOOLEAN /\ (dreq' <=> used' < Depth)
  BY <1>3, <1>4, Zenon
<1>6. intRaw' \subseteq Channel /\ timer' \in BOOLEAN /\ ticking' \in BOOLEAN
  BY DEF Take, Inv, TypeOK
<1>7. \A c \in Channel : ChanInv(chans'[c], dreq') /\ Paced(chans'[c], dreq') /\ chans'[c].dest # c
  BY <1>1, <1>3
<1> QED
  BY <1>2, <1>4, <1>5, <1>6, <1>7, ByChannel

\* What writeFIFO may do to DREQ: let it fall, when the word fills the FIFO.
LEMMA WriteFIFOFacts ==
    ASSUME Inv, writeFIFO
    PROVE  /\ dreq' \in BOOLEAN /\ (dreq' <=> used' < Depth)
           /\ used' \in 0 .. Depth
           /\ dreq' = dreq \/ dreq' = FALSE
<1>1. used \in Nat /\ Depth \in Nat /\ used <= Depth /\ dreq \in BOOLEAN
      /\ (dreq <=> used < Depth)
  BY DepthAssumption DEF Inv, TypeOK
<1>2. CASE used = Depth /\ UNCHANGED <<used, dreq>>
  BY <1>1, <1>2
<1>3. CASE /\ used < Depth /\ (used' = used + 1 \/ (used = 0 /\ used' = 0))
           /\ dreq' = (used' < Depth)
  <2>1. used' \in 0 .. Depth
    BY <1>1, <1>3
  <2>2. dreq' \in BOOLEAN /\ (dreq' <=> used' < Depth)
    <3>1. CASE used' < Depth
      <4>1. (used' < Depth) = TRUE
        BY <3>1, Zenon
      <4> QED
        BY <1>3, <3>1, <4>1, Zenon
    <3>2. CASE ~(used' < Depth)
      <4>1. (used' < Depth) = FALSE
        BY <3>2, <1>1, <2>1, SMT
      <4> QED
        BY <1>3, <3>2, <4>1, Zenon
    <3> QED
      BY <3>1, <3>2, Zenon
  <2>3. dreq = TRUE
    BY <1>1, <1>3, Zenon
  <2> QED
    BY <2>1, <2>2, <2>3, Zenon
<1> QED
  BY <1>2, <1>3 DEF writeFIFO

\* The channels cs in which the unit of channel c has been written, and channel c
\* has yet to count it: its write may have been a trigger of another channel, or
\* one that interrupts the channels in nulled.
Written(c, cs, nulled) ==
    /\ cs \in [Channel -> Chan] /\ nulled \subseteq Channel \ {c}
    /\ Typed(cs[c]) /\ cs[c].en /\ cs[c].busy /\ cs[c].alarm = "none"
    /\ cs[c].dest = chans[c].dest /\ cs[c].transMode = chans[c].transMode
    /\ cs[c].transCount = chans[c].transCount
    /\ \A d \in Channel \ {c} :
          /\ ChanInv(cs[d], dreq') /\ cs[d].dest = chans[d].dest
          /\ ~shared => Paced(cs[d], dreq')
          /\ UnitsLeft(chans[d]) = 0 \/ UnitsLeft(cs[d]) = UnitsLeft(chans[d])
    /\ chans' = transferred(cs, c, dreq')
    /\ intRaw' = intRaw \cup nulled \cup Completed(cs, c)
    /\ dreq' \in BOOLEAN /\ (dreq' <=> used' < Depth) /\ used' \in 0 .. Depth

\* Each kind of transfer has written its unit in some such way.
LEMMA TransferShape ==
    ASSUME Inv, NEW c \in Channel, Transfer(c)
    PROVE  \E cs, nulled : Written(c, cs, nulled)
<1> DEFINE fired == [chans EXCEPT ![c].alarm = "none"]
<1>1. /\ chans \in [Channel -> Chan] /\ dreq \in BOOLEAN /\ (dreq <=> used < Depth)
      /\ used \in 0 .. Depth
      /\ chans[c].en /\ chans[c].busy /\ Typed(chans[c]) /\ chans[c].dest # c
  BY DEF Inv, TypeOK, Transfer, Due, ChanInv, AlarmOfActive
<1>2. /\ fired \in [Channel -> Chan]
      /\ fired[c] \in Chan /\ fired[c].en /\ fired[c].busy /\ fired[c].alarm = "none"
      /\ fired[c].dest = chans[c].dest /\ fired[c].transMode = chans[c].transMode
      /\ fired[c].transCount = chans[c].transCount /\ fired[c].treq = chans[c].treq
      /\ \A d \in Channel \ {c} : fired[d] = chans[d]
  BY <1>1 DEF Chan
<1>3. Typed(fired[c])
  BY <1>1, <1>2 DEF Typed
<1>4. \A d \in Channel : ChanInv(chans[d], dreq) /\ (~shared => Paced(chans[d], dreq))
  BY DEF Inv
<1> HIDE DEF fired
<1>5. CASE /\ chans[c].dest = Memory
           /\ UNCHANGED <<dreq, used>>
           /\ chans' = transferred(fired, c, dreq)
           /\ intRaw' = intRaw \cup Completed(fired, c)
  <2>1. Written(c, fired, {})
    BY <1>1, <1>2, <1>3, <1>4, <1>5 DEF Written
  <2> QED
    BY <2>1
<1>6. CASE /\ chans[c].dest = TxFifo
           /\ writeFIFO
           /\ chans' = transferred(fired, c, dreq')
           /\ intRaw' = intRaw \cup Completed(fired, c)
  <2>1. /\ dreq' \in BOOLEAN /\ (dreq' <=> used' < Depth) /\ used' \in 0 .. Depth
        /\ dreq' = dreq \/ dreq' = FALSE
    BY <1>6, WriteFIFOFacts
  <2>2. \A d \in Channel : ChanInv(chans[d], dreq')
    BY <1>1, <1>4, <2>1, DreqFalls
  <2>3. ASSUME NEW d \in Channel \ {c}, ~shared
        PROVE  Paced(chans[d], dreq')
    <3>1. ~TwoOnFifo
      BY <2>3 DEF Inv
    <3>2. chans[c].treq = "fifo"
      BY <1>1, <1>6 DEF Typed
    <3>3. ~(chans[d].busy /\ chans[d].treq = "fifo")
      BY <1>1, <3>1, <3>2 DEF TwoOnFifo
    <3> QED
      BY <1>4, <3>3 DEF Paced, ChanInv, AlarmOfActive
  <2>4. Written(c, fired, {})
    BY <1>1, <1>2, <1>3, <1>6, <2>1, <2>2, <2>3 DEF Written
  <2> QED
    BY <2>4
<1>7. ASSUME NEW v \in Block, NEW e \in Channel, chans[c].dest = e,
             UNCHANGED <<dreq, used>>,
             LET written == [fired EXCEPT ![e] = writeCountTrig(@, v, dreq)]
             IN  /\ chans' = transferred(written, c, dreq)
                 /\ intRaw' = intRaw \cup NullTriggered(e, v) \cup Completed(written, c)
      PROVE  \E cs, nulled : Written(c, cs, nulled)
  <2> DEFINE t == writeCountTrig(chans[e], v, dreq)
             cs == [fired EXCEPT ![e] = t]
  <2>1. e # c /\ v \in CountValues
    BY <1>1, <1>7, CountsAssumption
  <2>2. /\ ChanInv(t, dreq) /\ (Paced(chans[e], dreq) => Paced(t, dreq))
        /\ t.dest = chans[e].dest
        /\ UnitsLeft(chans[e]) = 0 \/ UnitsLeft(t) = UnitsLeft(chans[e])
    BY <1>1, <1>4, <2>1, WriteCountTrigFacts, ZenonT(30)
  <2>3. cs = [fired EXCEPT ![e] = writeCountTrig(@, v, dreq)]
    BY <1>2, <2>1
  <2>4. chans' = transferred(cs, c, dreq) /\ dreq' = dreq /\ used' = used
        /\ intRaw' = intRaw \cup NullTriggered(e, v) \cup Completed(cs, c)
    BY <1>7, <2>3
  <2> HIDE DEF t
  <2>5. /\ cs \in [Channel -> Chan] /\ cs[c] = fired[c] /\ cs[e] = t
        /\ \A d \in Channel \ {c, e} : cs[d] = chans[d]
    BY <1>2, <2>1, <2>2 DEF ChanInv, Typed
  <2> HIDE DEF cs
  <2>6. NullTriggered(e, v) \subseteq Channel \ {c}
    BY <2>1 DEF NullTriggered
  <2>7. \A d \in Channel \ {c} :
           /\ ChanInv(cs[d], dreq) /\ cs[d].dest = chans[d].dest
           /\ ~shared => Paced(cs[d], dreq)
           /\ UnitsLeft(chans[d]) = 0 \/ UnitsLeft(cs[d]) = UnitsLeft(chans[d])
    BY <1>4, <2>2, <2>5
  <2>8. Written(c, cs, NullTriggered(e, v))
    BY <1>1, <1>2, <1>3, <2>4, <2>5, <2>6, <2>7 DEF Written
  <2> QED
    BY <2>8
<1> QED
  BY <1>5, <1>6, <1>7 DEF Transfer, fired

\* The rest of transfer(): the count, the chain and the end of the job.
LEMMA TransferStep ==
    ASSUME Inv, shared' = (shared \/ TwoOnFifo'), NEW c \in Channel, Transfer(c)
    PROVE  Inv'
<1>1. PICK cs, nulled : Written(c, cs, nulled)
  BY TransferShape
<1> DEFINE new == transferred(cs, c, dreq')
<1>2. /\ new \in [Channel -> Chan] /\ Paced(new[c], dreq')
      /\ \A d \in Channel : ChanInv(new[d], dreq') /\ new[d].dest = cs[d].dest
      /\ \A d \in Channel \ {c} : Paced(cs[d], dreq') => Paced(new[d], dreq')
  BY <1>1, TransferredFacts DEF Written
<1>3. chans' = new
  BY <1>1 DEF Written
<1> HIDE DEF new
<1>4. \A d \in Channel : ChanInv(chans'[d], dreq') /\ chans'[d].dest # d
  BY <1>1, <1>2, <1>3 DEF Written, Inv
<1>5. ~shared => \A d \in Channel : Paced(chans'[d], dreq')
  BY <1>1, <1>2, <1>3 DEF Written
<1>6. intRaw' \subseteq Channel
  BY <1>1 DEF Written, Completed, Inv, TypeOK
<1>7. timer' \in BOOLEAN /\ ticking' \in BOOLEAN
  BY DEF Transfer, Inv, TypeOK
<1>8. dreq' \in BOOLEAN /\ (dreq' <=> used' < Depth) /\ used' \in 0 .. Depth
  BY <1>1 DEF Written
<1> QED
  BY <1>2, <1>3, <1>4, <1>5, <1>6, <1>7, <1>8, ByChannel

\* Every register write.
LEMMA WritesStep ==
    ASSUME Inv, shared' = (shared \/ TwoOnFifo'), Writes
    PROVE  Inv'
<1>1. CASE \E c \in Channel, en, trig \in BOOLEAN : \E f \in Config[c] : Configure(c, f, en, trig)
  BY <1>1, ConfigureStep
<1>2. CASE \E c \in Channel, en \in BOOLEAN : SetEnable(c, en)
  BY <1>2, SetEnableStep
<1>3. CASE \E c \in Channel, trig \in BOOLEAN : \E v \in Counts[c] : WriteCount(c, v, trig)
  BY <1>3, WriteCountStep
<1>4. CASE \E c \in Channel, null \in BOOLEAN : WriteAddrTrig(c, null)
  BY <1>4, WriteAddrTrigStep
<1>5. CASE \E mask \in SUBSET Channel : MultiChanTrigger(mask)
  BY <1>5, MultiChanTriggerStep
<1>6. CASE \E mask \in SUBSET Channel : ChanAbort(mask)
  BY <1>6, ChanAbortStep
<1>7. CASE \E mask \in SUBSET Channel : ClearIntr(mask)
  BY <1>7, ChansUntouched
<1>8. CASE \E on \in BOOLEAN : SetTimer(on)
  BY <1>8, ChansUntouched
<1> QED
  BY <1>1, <1>2, <1>3, <1>4, <1>5, <1>6, <1>7, <1>8 DEF Writes

\* Every step.
LEMMA InvStep == Inv /\ [Next]_vars => Inv'
<1> SUFFICES ASSUME Inv, [Next]_vars PROVE Inv'
  OBVIOUS
<1>1. CASE Next
  <2>1. shared' = (shared \/ TwoOnFifo')
    BY <1>1 DEF Next
  <2>2. CASE Writes
    BY <2>1, <2>2, WritesStep
  <2>3. CASE Take
    BY <2>1, <2>3, TakeStep
  <2>4. CASE StartTick \/ TickDone
    BY <2>1, <2>4, ChansUntouched
  <2>5. CASE \E c \in Channel : Transfer(c)
    BY <2>1, <2>5, TransferStep
  <2> QED
    BY <1>1, <2>2, <2>3, <2>4, <2>5 DEF Next
<1>2. CASE UNCHANGED vars
  BY <1>2 DEF vars, dmaVars, Inv, TypeOK, TwoOnFifo
<1> QED
  BY <1>1, <1>2

\* The invariant holds for any channels, configurations, counts and depth.
THEOREM Invariance == Spec => []Inv
  BY InvInit, InvStep, PTL DEF Spec

-----------------------------------------------------------------------------
(* The properties. *)

\* TypeOK: no sequence of register writes and transfers takes a count of a busy
\* channel below 0, or the FIFO beyond its depth.
THEOREM TypeCorrect == Spec => []TypeOK
<1>1. Inv => TypeOK
  BY DEF Inv
<1> QED
  BY <1>1, Invariance, PTL

\* NoStall: start, ctrlWritten, a chain and the rise of DREQ leave no channel
\* behind that could go on.
THEOREM NoStallHolds == Spec => []NoStall
<1>1. Inv => NoStall
  BY DEF Inv, ChanInv, Going, NoStall, Active
<1> QED
  BY <1>1, Invariance, PTL

\* OnlyActiveMove: pause, abort and the end of a job each unlink the alarm.
THEOREM OnlyActiveMoveHolds == Spec => []OnlyActiveMove
<1>1. Inv => OnlyActiveMove
  BY DEF Inv, ChanInv, AlarmOfActive, OnlyActiveMove, Active
<1> QED
  BY <1>1, Invariance, PTL

\* NoOverrun: with one channel at a time on the FIFO, each word it sends fits.
THEOREM NoOverrunHolds == Spec => []NoOverrun
<1>1. Inv => NoOverrun
  BY DEF Inv, Paced, NoOverrun
<1> QED
  BY <1>1, Invariance, PTL

-----------------------------------------------------------------------------
(* The jobs: each step is one of DmaJobs, or changes nothing of them. *)

JobsTyped ==
    /\ [c \in Channel |-> UnitsLeft(chans[c])] \in [Channel -> Nat]
    /\ [c \in Channel |-> chans[c].transMode = ENDLESS] \in [Channel -> BOOLEAN]

\* The jobs of a state in the invariant have their types.
LEMMA InvJobsTyped == Inv => JobsTyped
<1> SUFFICES ASSUME Inv PROVE JobsTyped
  OBVIOUS
<1>1. ASSUME NEW c \in Channel
      PROVE  UnitsLeft(chans[c]) \in Nat
  BY DEF Inv, TypeOK, Chan, UnitsLeft
<1> QED
  BY <1>1 DEF JobsTyped

KeptOrBegun(c) == UnitsLeft(chans[c]) = 0 \/ UnitsLeft(chans'[c]) = UnitsLeft(chans[c])

\* A step that begins jobs at rest only, and acknowledges nothing.
LEMMA TriggersOnly ==
    ASSUME JobsTyped', intRaw \subseteq intRaw', \A c \in Channel : KeptOrBegun(c)
    PROVE  Jobs!Next
<1>1. Jobs!Trigger
  BY DEF Jobs!Trigger, Jobs!KeepsOrBegins, KeptOrBegun
<1> QED
  BY <1>1 DEF Jobs!Next, JobsTyped

\* The transfers.
LEMMA TransferJobs ==
    ASSUME Inv, JobsTyped', NEW c \in Channel, Transfer(c)
    PROVE  Jobs!Next
<1>1. PICK cs, nulled : Written(c, cs, nulled)
  BY TransferShape
<1> DEFINE new == transferred(cs, c, dreq')
           n == counted(cs[c]).transCount
<1>2. /\ \A d \in Channel \ {c} :
            UnitsLeft(cs[d]) = 0 \/ UnitsLeft(new[d]) = UnitsLeft(cs[d])
      /\ new[c].transMode = cs[c].transMode
      /\ n > 0 => UnitsLeft(new[c]) = n
  BY <1>1, TransferredFacts DEF Written
<1>3. chans' = new
  BY <1>1 DEF Written
<1> HIDE DEF new
<1>4. \A d \in Channel \ {c} : KeptOrBegun(d)
  BY <1>1, <1>2, <1>3 DEF Written, KeptOrBegun
<1>5. intRaw \subseteq intRaw'
  BY <1>1 DEF Written
<1>6. /\ n = IF chans[c].transMode = ENDLESS THEN chans[c].transCount
             ELSE chans[c].transCount - 1
      /\ n \in Int
  BY <1>1, CountedFacts DEF Written
<1>7. chans[c].busy /\ chans[c].transCount \in Int
  BY DEF Inv, TypeOK, Chan, ChanInv, AlarmOfActive, Transfer, Due
<1>8. CASE n > 0
  <2>1. c \in intRaw' => c \in intRaw
    BY <1>1, <1>6, <1>8 DEF Written, Completed
  <2>2. /\ UnitsLeft(chans[c]) > 0 /\ UnitsLeft(chans'[c]) > 0
        /\ UnitsLeft(chans'[c]) = IF chans'[c].transMode = ENDLESS THEN UnitsLeft(chans[c])
                                  ELSE UnitsLeft(chans[c]) - 1
    <3>1. chans'[c].transMode = chans[c].transMode /\ UnitsLeft(chans'[c]) = n
      BY <1>1, <1>2, <1>3, <1>8 DEF Written
    <3> HIDE DEF n
    <3> QED
      BY <3>1, <1>6, <1>7, <1>8 DEF UnitsLeft
  <2>3. Jobs!Unit(c)
    BY <1>4, <1>5, <2>1, <2>2 DEF Jobs!Unit, Jobs!KeepsOrBegins, KeptOrBegun
  <2> QED
    BY <2>3 DEF Jobs!Next, JobsTyped
<1>9. CASE ~(n > 0)
  <2>1. UnitsLeft(chans[c]) <= 1
    BY <1>6, <1>7, <1>9 DEF UnitsLeft
  <2>2. Jobs!LastUnit(c)
    BY <1>4, <1>5, <2>1 DEF Jobs!LastUnit, Jobs!KeepsOrBegins, KeptOrBegun
  <2> QED
    BY <2>2 DEF Jobs!Next, JobsTyped
<1> QED
  BY <1>8, <1>9

\* A channel that start, or a count, changed: it was at rest, or has its job still.
LEMMA StartKeeps ==
    ASSUME NEW ch, NEW req \in BOOLEAN, ChanInv(ch, req)
    PROVE  UnitsLeft(ch) = 0 \/ UnitsLeft(start(ch, req)) = UnitsLeft(ch)
<1> DEFINE s == start(ch, req)
<1>1. ch.busy => s = ch
  BY StartFacts
<1> QED
  BY <1>1 DEF UnitsLeft

\* The register writes.
LEMMA WritesJobs ==
    ASSUME Inv, JobsTyped', Writes
    PROVE  Jobs!Next
<1>1. chans \in [Channel -> Chan] /\ dreq \in BOOLEAN
  BY DEF Inv, TypeOK
<1>2. \A c \in Channel : ChanInv(chans[c], dreq)
  BY DEF Inv
<1>3. ASSUME NEW c \in Channel, NEW en \in BOOLEAN, NEW trig \in BOOLEAN,
             NEW f \in Config[c], Configure(c, f, en, trig)
      PROVE  Jobs!Next
  <2>1. \A d \in Channel : KeptOrBegun(d)
    BY <1>1, <1>3 DEF Configure, KeptOrBegun, UnitsLeft
  <2> QED
    BY <1>3, <2>1, TriggersOnly DEF Configure
<1>4. ASSUME NEW c \in Channel, NEW en \in BOOLEAN, SetEnable(c, en)
      PROVE  Jobs!Next
  <2> DEFINE set == [chans[c] EXCEPT !.en = en]
             s == ctrlWritten(set)
  <2>1. /\ set \in Chan /\ set.busy = chans[c].busy /\ set.treq = chans[c].treq
        /\ set.dest = chans[c].dest /\ set.transCount = chans[c].transCount
    BY <1>1 DEF Chan
  <2> HIDE DEF set
  <2>2. SameButAlarm(s, set)
    <3>1. Typed(set) /\ set.busy
      BY <1>2, <1>4, <2>1 DEF Typed, ChanInv, SetEnable
    <3> QED
      BY <1>1, <3>1, CtrlWrittenFacts
  <2> HIDE DEF s
  <2>3. UnitsLeft(s) = UnitsLeft(chans[c])
    BY <2>1, <2>2 DEF SameButAlarm, UnitsLeft
  <2>4. chans' = [chans EXCEPT ![c] = s]
    BY <1>4 DEF SetEnable, s, set
  <2>5. \A d \in Channel : KeptOrBegun(d)
    BY <1>1, <2>3, <2>4 DEF KeptOrBegun
  <2> QED
    BY <1>4, <2>5, TriggersOnly DEF SetEnable
<1>5. ASSUME NEW c \in Channel, NEW trig \in BOOLEAN, NEW v \in Counts[c],
             WriteCount(c, v, trig)
      PROVE  Jobs!Next
  <2> DEFINE s == IF trig THEN writeCountTrig(chans[c], v, dreq) ELSE writeCount(chans[c], v)
  <2>1. UnitsLeft(chans[c]) = 0 \/ UnitsLeft(s) = UnitsLeft(chans[c])
    BY <1>1, <1>2, CountsAssumption, WriteCountFacts, WriteCountTrigFacts
  <2>2. chans' = [chans EXCEPT ![c] = s]
    BY <1>5 DEF WriteCount
  <2> HIDE DEF s
  <2>3. \A d \in Channel : KeptOrBegun(d)
    BY <1>1, <2>1, <2>2 DEF KeptOrBegun
  <2> QED
    BY <1>5, <2>3, TriggersOnly DEF WriteCount
<1>6. ASSUME NEW c \in Channel, NEW null \in BOOLEAN, WriteAddrTrig(c, null)
      PROVE  Jobs!Next
  <2>1. \A d \in Channel : KeptOrBegun(d)
    BY <1>1, <1>2, <1>6, StartKeeps DEF WriteAddrTrig, KeptOrBegun
  <2> QED
    BY <1>6, <2>1, TriggersOnly DEF WriteAddrTrig
<1>7. ASSUME NEW mask \in SUBSET Channel, MultiChanTrigger(mask)
      PROVE  Jobs!Next
  <2>1. \A d \in Channel : KeptOrBegun(d)
    BY <1>1, <1>2, <1>7, StartKeeps DEF MultiChanTrigger, KeptOrBegun
  <2> QED
    BY <1>7, <2>1, TriggersOnly DEF MultiChanTrigger
<1>8. ASSUME NEW mask \in SUBSET Channel, ChanAbort(mask)
      PROVE  Jobs!Next
  <2>1. ASSUME NEW d \in Channel
        PROVE  UnitsLeft(chans'[d]) \in {0, UnitsLeft(chans[d])}
    <3>1. UnitsLeft(abort(chans[d])) = 0
      BY <1>1 DEF abort, UnitsLeft, Chan
    <3> QED
      BY <1>8, <3>1 DEF ChanAbort
  <2>2. Jobs!Abort
    BY <1>8, <2>1 DEF Jobs!Abort, ChanAbort
  <2> QED
    BY <2>2 DEF Jobs!Next, JobsTyped
<1>9. ASSUME NEW mask \in SUBSET Channel, ClearIntr(mask)
      PROVE  Jobs!Next
  <2>1. Jobs!Acknowledge
    BY <1>9 DEF Jobs!Acknowledge, ClearIntr
  <2> QED
    BY <2>1 DEF Jobs!Next, JobsTyped
<1>10. ASSUME NEW on \in BOOLEAN, SetTimer(on)
       PROVE  Jobs!Next
  BY <1>10, TriggersOnly DEF SetTimer, KeptOrBegun
<1> QED
  BY <1>3, <1>4, <1>5, <1>6, <1>7, <1>8, <1>9, <1>10 DEF Writes

\* The rise of DREQ links alarms, and no more.
LEMMA TakeJobs ==
    ASSUME Inv, JobsTyped', Take
    PROVE  Jobs!Next
<1>1. ASSUME NEW c \in Channel
      PROVE  UnitsLeft(chans'[c]) = UnitsLeft(chans[c])
  <2>1. chans[c] \in Chan
    BY DEF Inv, TypeOK
  <2>2. UnitsLeft(scheduleTransfer(chans[c], TRUE)) = UnitsLeft(chans[c])
    BY <2>1 DEF scheduleTransfer, UnitsLeft, Chan
  <2> QED
    BY <2>2 DEF Take
<1> QED
  BY <1>1, TriggersOnly DEF Take, KeptOrBegun

\* ImplementsJobs: the controller keeps the promises of DmaJobs.
THEOREM Implementation == Spec => ImplementsJobs
<1>1. Init => Jobs!Init
  <2> SUFFICES ASSUME Init PROVE Jobs!Init
    OBVIOUS
  <2>1. ASSUME NEW c \in Channel
        PROVE  UnitsLeft(chans[c]) = 0 /\ chans[c].transMode # ENDLESS
    BY DEF Init, AtReset, UnitsLeft, ENDLESS
  <2>2. intRaw = {}
    BY DEF Init
  <2> QED
    BY <2>1, <2>2 DEF Jobs!Init
<1>2. Inv /\ JobsTyped' /\ [Next]_vars => [Jobs!Next]_(Jobs!vars)
  <2> SUFFICES ASSUME Inv, JobsTyped', [Next]_vars
               PROVE  [Jobs!Next]_(Jobs!vars)
    OBVIOUS
  <2>1. CASE Writes
    BY <2>1, WritesJobs
  <2>2. CASE Take
    BY <2>2, TakeJobs
  <2>3. CASE \E c \in Channel : Transfer(c)
    BY <2>3, TransferJobs
  <2>4. CASE UNCHANGED <<chans, intRaw>>
    BY <2>4, TriggersOnly DEF KeptOrBegun
  <2>5. StartTick \/ TickDone \/ UNCHANGED vars => UNCHANGED <<chans, intRaw>>
    BY DEF StartTick, TickDone, vars, dmaVars
  <2> QED
    BY <2>1, <2>2, <2>3, <2>4, <2>5 DEF Next
<1> QED
  BY <1>1, <1>2, InvJobsTyped, Invariance, PTL DEF Spec, ImplementsJobs, Jobs!Spec
=============================================================================

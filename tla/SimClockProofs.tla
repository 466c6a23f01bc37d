--------------------------- MODULE SimClockProofs ---------------------------
(* Theorems about SimClock and AlarmList, for any finite set of alarms and any  *)
(* delays and bounds.  First the queue; then the pointers, of which it is shown *)
(* that they read as a queue from which no alarm is missing and into which no   *)
(* stale pointer leads, and that splicing them is what SimClock does to the     *)
(* queue.  What is shown of the queue holds of the pointers by that.            *)
EXTENDS MCSimClock, SequenceTheorems, WellFoundedInduction, FiniteSetTheorems, TLAPS

-----------------------------------------------------------------------------
(* Lemmas about the queue. *)

\* A non-empty set of naturals has a least element.
LEMMA LeastNatural ==
    ASSUME NEW T \in SUBSET Nat, T # {}
    PROVE  \E x \in T : \A y \in T : x <= y
<1> DEFINE R == {ss \in Nat \X Nat : ss[1] < ss[2]}
<1>1. IsWellFoundedOn(R, Nat)
  BY NatLessThanWellFounded DEF OpToRel
<1> HIDE DEF R
<1>2. PICK x \in T : \A y \in T : <<y, x>> \notin R
  BY <1>1, WFMin, Zenon
<1>3. ASSUME NEW y \in T PROVE x <= y
  <2>1. <<y, x>> \notin R
    BY <1>2
  <2>2. x \in Nat /\ y \in Nat
    OBVIOUS
  <2> QED BY <2>1, <2>2 DEF R
<1> QED BY <1>3

\* Taking out the item at k moves the later ones one place forward.
LEMMA RemoveAtFacts ==
    ASSUME NEW q \in Seq(Alarm), NEW k \in 1 .. Len(q)
    PROVE  /\ RemoveAt(q, k) \in Seq(Alarm)
           /\ Len(RemoveAt(q, k)) = Len(q) - 1
           /\ \A i \in 1 .. Len(q) - 1 :
                  RemoveAt(q, k)[i] = IF i < k THEN q[i] ELSE q[i + 1]
<1> DEFINE front == SubSeq(q, 1, k - 1)
           back  == SubSeq(q, k + 1, Len(q))
<1>1. /\ front \in Seq(Alarm) /\ Len(front) = k - 1
      /\ \A i \in 1 .. k - 1 : front[i] = q[i]
  BY SubSeqProperties
<1>2. /\ back \in Seq(Alarm) /\ Len(back) = Len(q) - k
      /\ \A i \in 1 .. Len(q) - k : back[i] = q[k + i]
  <2>1. \A i \in k + 1 .. Len(q) : q[i] \in Alarm
    OBVIOUS
  <2>2. k + 1 \in Int /\ Len(q) \in Int
    OBVIOUS
  <2>3. /\ back \in Seq(Alarm)
        /\ Len(back) = IF k + 1 <= Len(q) THEN Len(q) - (k + 1) + 1 ELSE 0
        /\ \A i \in 1 .. Len(q) - (k + 1) + 1 : back[i] = q[k + 1 + i - 1]
    BY <2>1, <2>2, SubSeqProperties
  <2> HIDE DEF back
  <2> QED BY <2>3
<1>3. RemoveAt(q, k) = front \o back
  BY DEF RemoveAt
<1> HIDE DEF front, back
<1>4. /\ front \o back \in Seq(Alarm)
      /\ Len(front \o back) = Len(front) + Len(back)
      /\ \A i \in 1 .. Len(front) + Len(back) : (front \o back)[i] =
            IF i <= Len(front) THEN front[i] ELSE back[i - Len(front)]
  BY <1>1, <1>2, ConcatProperties
<1>5. ASSUME NEW i \in 1 .. Len(q) - 1
      PROVE  (front \o back)[i] = IF i < k THEN q[i] ELSE q[i + 1]
  <2>1. CASE i < k
    BY <2>1, <1>1, <1>2, <1>4
  <2>2. CASE i >= k
    <3>1. i - Len(front) \in 1 .. Len(q) - k /\ k + (i - Len(front)) = i + 1
      BY <2>2, <1>1
    <3>2. (front \o back)[i] = back[i - Len(front)]
      BY <2>2, <1>1, <1>2, <1>4
    <3>3. back[i - Len(front)] = q[k + (i - Len(front))]
      BY <3>1, <1>2
    <3>4. (front \o back)[i] = q[i + 1]
      BY <3>1, <3>2, <3>3
    <3> QED BY <2>2, <3>4
  <2>3. i < k \/ i >= k
    OBVIOUS
  <2> QED BY <2>1, <2>2, <2>3
<1> QED BY <1>1, <1>2, <1>3, <1>4, <1>5

\* Putting an item in at k moves the ones from k on one place back.
LEMMA InsertAtFacts ==
    ASSUME NEW q \in Seq(Alarm), NEW k \in 1 .. Len(q) + 1, NEW a \in Alarm
    PROVE  /\ InsertAt(q, k, a) \in Seq(Alarm)
           /\ Len(InsertAt(q, k, a)) = Len(q) + 1
           /\ \A i \in 1 .. Len(q) + 1 : InsertAt(q, k, a)[i] =
                  IF i < k THEN q[i] ELSE IF i = k THEN a ELSE q[i - 1]
<1> DEFINE front == SubSeq(q, 1, k - 1)
           back  == SubSeq(q, k, Len(q))
           left  == front \o <<a>>
<1>1. /\ front \in Seq(Alarm) /\ Len(front) = k - 1
      /\ \A i \in 1 .. k - 1 : front[i] = q[i]
  BY SubSeqProperties
<1>2. /\ back \in Seq(Alarm) /\ Len(back) = Len(q) - k + 1
      /\ \A i \in 1 .. Len(q) - k + 1 : back[i] = q[k + i - 1]
  BY SubSeqProperties
<1>3. InsertAt(q, k, a) = left \o back
  BY DEF InsertAt
<1> HIDE DEF front, back
<1>4. /\ left \in Seq(Alarm) /\ Len(left) = k
      /\ \A i \in 1 .. k : left[i] = IF i < k THEN q[i] ELSE a
  <2>1. <<a>> \in Seq(Alarm) /\ Len(<<a>>) = 1 /\ <<a>>[1] = a
    OBVIOUS
  <2>2. /\ left \in Seq(Alarm) /\ Len(left) = Len(front) + 1
        /\ \A i \in 1 .. Len(front) + 1 : left[i] =
              IF i <= Len(front) THEN front[i] ELSE <<a>>[i - Len(front)]
    BY <1>1, <2>1, ConcatProperties
  <2> HIDE DEF left
  <2> QED BY <1>1, <2>1, <2>2
<1> HIDE DEF left
<1>5. /\ left \o back \in Seq(Alarm)
      /\ Len(left \o back) = Len(left) + Len(back)
      /\ \A i \in 1 .. Len(left) + Len(back) : (left \o back)[i] =
            IF i <= Len(left) THEN left[i] ELSE back[i - Len(left)]
  BY <1>2, <1>4, ConcatProperties
<1>6. ASSUME NEW i \in 1 .. Len(q) + 1
      PROVE  (left \o back)[i] =
                 IF i < k THEN q[i] ELSE IF i = k THEN a ELSE q[i - 1]
  <2>1. CASE i <= k
    BY <2>1, <1>2, <1>4, <1>5
  <2>2. CASE i > k
    <3>1. i - k \in 1 .. Len(q) - k + 1 /\ k + (i - k) - 1 = i - 1
      BY <2>2
    <3>2. (left \o back)[i] = back[i - k]
      BY <2>2, <1>2, <1>4, <1>5
    <3>3. back[i - k] = q[k + (i - k) - 1]
      BY <3>1, <1>2
    <3>4. (left \o back)[i] = q[i - 1]
      BY <3>1, <3>2, <3>3
    <3> QED BY <2>2, <3>4
  <2>3. i <= k \/ i > k
    OBVIOUS
  <2> QED BY <2>1, <2>2, <2>3
<1> QED BY <1>2, <1>3, <1>4, <1>5, <1>6

-----------------------------------------------------------------------------
(* What linkAlarm and unlinkAlarm do to a queue, alarm by alarm. *)

Distinct(q)    == \A i, j \in 1 .. Len(q) : q[i] = q[j] => i = j
Sorted(q, due) == \A i, j \in 1 .. Len(q) : i < j => due[q[i]] <= due[q[j]]
Holds(q, a)    == \E i \in 1 .. Len(q) : q[i] = a

\* Unlinking takes out the alarm, and it alone, and keeps the others in order.
LEMMA UnlinkFacts ==
    ASSUME NEW q \in Seq(Alarm), NEW a \in Alarm, Distinct(q),
           NEW due \in [Alarm -> Nat]
    PROVE  LET r == unlinkAlarm(q, a)
           IN  /\ r \in Seq(Alarm)
               /\ Distinct(r)
               /\ Sorted(q, due) => Sorted(r, due)
               /\ \A b \in Alarm : Holds(r, b) <=> Holds(q, b) /\ b # a
<1>1. CASE ~Holds(q, a)
  BY <1>1 DEF unlinkAlarm, Holds
<1>2. CASE Holds(q, a)
  <2> DEFINE k == CHOOSE i \in 1 .. Len(q) : q[i] = a
             r == RemoveAt(q, k)
  <2>1. k \in 1 .. Len(q) /\ q[k] = a
    BY <1>2 DEF Holds
  <2>2. unlinkAlarm(q, a) = r
    BY <1>2 DEF unlinkAlarm, Holds
  <2> HIDE DEF k
  <2>3. /\ r \in Seq(Alarm) /\ Len(r) = Len(q) - 1
        /\ \A i \in 1 .. Len(q) - 1 : r[i] = IF i < k THEN q[i] ELSE q[i + 1]
    BY <2>1, RemoveAtFacts
  <2> HIDE DEF r
  <2> DEFINE from(i) == IF i < k THEN i ELSE i + 1
  <2>4. \A i \in 1 .. Len(r) : /\ from(i) \in 1 .. Len(q) /\ from(i) # k
                               /\ r[i] = q[from(i)]
    <3> SUFFICES ASSUME NEW i \in 1 .. Len(r)
                 PROVE  /\ from(i) \in 1 .. Len(q) /\ from(i) # k
                        /\ r[i] = q[from(i)]
      OBVIOUS
    <3>1. i \in 1 .. Len(q) - 1 /\ r[i] = IF i < k THEN q[i] ELSE q[i + 1]
      BY <2>3
    <3>2. CASE i < k
      BY <2>1, <3>1, <3>2
    <3>3. CASE ~(i < k)
      BY <2>1, <3>1, <3>3
    <3> QED BY <3>2, <3>3
  <2>5. \A i, j \in 1 .. Len(r) : i < j => from(i) < from(j)
    BY <2>1, <2>3, SMTT(20)
  <2>6. \A m \in 1 .. Len(q) : m # k => \E i \in 1 .. Len(r) : from(i) = m
    <3>1. SUFFICES ASSUME NEW m \in 1 .. Len(q), m # k
                   PROVE  \E i \in 1 .. Len(r) : from(i) = m
      OBVIOUS
    <3>2. CASE m < k
      <4>1. m \in 1 .. Len(r) /\ from(m) = m
        BY <2>1, <2>3, <3>2
      <4> QED BY <4>1
    <3>3. CASE m > k
      <4>1. m - 1 \in 1 .. Len(r) /\ from(m - 1) = m
        BY <2>1, <2>3, <3>3
      <4> QED BY <4>1
    <3> QED BY <3>1, <3>2, <3>3, <2>1
  <2>7. \A i, j \in 1 .. Len(r) : from(i) = from(j) => i = j
    BY <2>1, <2>3, SMTT(20)
  <2> HIDE DEF from
  <2>8. Distinct(r)
    BY <2>4, <2>7 DEF Distinct
  <2>9. Sorted(q, due) => Sorted(r, due)
    BY <2>4, <2>5 DEF Sorted
  <2>10. \A b \in Alarm : Holds(r, b) <=> Holds(q, b) /\ b # a
    <3>1. ASSUME NEW b \in Alarm, Holds(r, b)
          PROVE  Holds(q, b) /\ b # a
      <4>1. PICK i \in 1 .. Len(r) : r[i] = b
        BY <3>1 DEF Holds
      <4>2. from(i) \in 1 .. Len(q) /\ from(i) # k /\ b = q[from(i)]
        BY <4>1, <2>4
      <4> QED BY <4>2, <2>1 DEF Holds, Distinct
    <3>2. ASSUME NEW b \in Alarm, Holds(q, b), b # a
          PROVE  Holds(r, b)
      <4>1. PICK m \in 1 .. Len(q) : q[m] = b
        BY <3>2 DEF Holds
      <4>2. PICK i \in 1 .. Len(r) : from(i) = m
        BY <4>1, <3>2, <2>1, <2>6
      <4> QED BY <4>1, <4>2, <2>4 DEF Holds
    <3> QED BY <3>1, <3>2
  <2> QED BY <2>2, <2>3, <2>8, <2>9, <2>10
<1> QED BY <1>1, <1>2

\* The walk of linkAlarm always stops somewhere.
LEMMA LinkPositionExists ==
    ASSUME NEW q \in Seq(Alarm), NEW due \in [Alarm -> Nat], NEW t \in Nat
    PROVE  \E i \in 1 .. Len(q) + 1 : IsLinkPosition(q, due, t, i)
<1> DEFINE later == {i \in 1 .. Len(q) : due[q[i]] >= t}
<1>1. \A i \in 1 .. Len(q) : due[q[i]] \in Nat
  OBVIOUS
<1>2. CASE later = {}
  <2>1. \A j \in 1 .. Len(q) : due[q[j]] < t
    BY <1>1, <1>2
  <2>2. Len(q) \in Nat
    OBVIOUS
  <2>3. IsLinkPosition(q, due, t, Len(q) + 1)
    BY <2>1, <2>2 DEF IsLinkPosition
  <2> QED BY <2>2, <2>3
<1>3. CASE later # {}
  <2>1. later \in SUBSET Nat
    OBVIOUS
  <2>2. PICK i \in later : \A j \in later : i <= j
    BY <1>3, <2>1, LeastNatural
  <2>3. i \in 1 .. Len(q) /\ due[q[i]] >= t
    BY <2>2
  <2>4. \A j \in 1 .. i - 1 : j \in 1 .. Len(q) /\ j \notin later
    BY <2>2, <2>3
  <2>5. \A j \in 1 .. i - 1 : due[q[j]] < t
    BY <2>4, <1>1
  <2>6. IsLinkPosition(q, due, t, i)
    BY <2>3, <2>5 DEF IsLinkPosition
  <2> QED BY <2>3, <2>6
<1> QED BY <1>2, <1>3

\* Linking puts in the alarm, and it alone, in the order of the deadlines.
LEMMA LinkFacts ==
    ASSUME NEW q \in Seq(Alarm), NEW a \in Alarm, Distinct(q), ~Holds(q, a),
           NEW due \in [Alarm -> Nat], NEW t \in Nat, Sorted(q, due)
    PROVE  LET r == linkAlarm(q, due, a, t)
           IN  /\ r \in Seq(Alarm)
               /\ Distinct(r)
               /\ Sorted(r, [due EXCEPT ![a] = t])
               /\ \A b \in Alarm : Holds(r, b) <=> Holds(q, b) \/ b = a
<1> DEFINE k == CHOOSE i \in 1 .. Len(q) + 1 : IsLinkPosition(q, due, t, i)
           r == InsertAt(q, k, a)
           new == [due EXCEPT ![a] = t]
<1>1. k \in 1 .. Len(q) + 1 /\ IsLinkPosition(q, due, t, k)
  BY LinkPositionExists
<1>2. linkAlarm(q, due, a, t) = r
  BY DEF linkAlarm
<1> HIDE DEF k
<1>3. /\ r \in Seq(Alarm) /\ Len(r) = Len(q) + 1
      /\ \A i \in 1 .. Len(q) + 1 : r[i] =
             IF i < k THEN q[i] ELSE IF i = k THEN a ELSE q[i - 1]
  BY <1>1, InsertAtFacts
<1> HIDE DEF r
<1> DEFINE from(i) == IF i < k THEN i ELSE i - 1
<1>a. k \in Int /\ Len(q) \in Nat /\ Len(r) = Len(q) + 1 /\ 1 <= k /\ k <= Len(r)
  BY <1>1, <1>3
<1>4. \A i \in 1 .. Len(r) : i # k => from(i) \in 1 .. Len(q) /\ r[i] = q[from(i)]
  <2>1. SUFFICES ASSUME NEW i \in 1 .. Len(r), i # k
                 PROVE  from(i) \in 1 .. Len(q) /\ r[i] = q[from(i)]
    OBVIOUS
  <2>2. CASE i < k
    BY <2>1, <2>2, <1>a, <1>3
  <2>3. CASE i > k
    BY <2>1, <2>3, <1>a, <1>3, SMTT(20)
  <2> QED BY <2>1, <2>2, <2>3, <1>a
<1>5. k \in 1 .. Len(r) /\ r[k] = a
  BY <1>1, <1>3
<1>6. \A i, j \in 1 .. Len(r) : i # k /\ j # k /\ i < j => from(i) < from(j)
  BY <1>a
<1>7. \A i, j \in 1 .. Len(r) : i # k /\ j # k /\ from(i) = from(j) => i = j
  BY <1>a
<1>8. \A m \in 1 .. Len(q) : \E i \in 1 .. Len(r) : i # k /\ from(i) = m
  <2>1. SUFFICES ASSUME NEW m \in 1 .. Len(q)
                 PROVE  \E i \in 1 .. Len(r) : i # k /\ from(i) = m
    OBVIOUS
  <2>2. CASE m < k
    <3>1. m \in 1 .. Len(r) /\ m # k /\ from(m) = m
      BY <1>1, <1>3, <2>2
    <3> QED BY <3>1
  <2>3. CASE m >= k
    <3>1. m + 1 \in 1 .. Len(r) /\ m + 1 # k /\ from(m + 1) = m
      BY <1>1, <1>3, <2>3
    <3> QED BY <3>1
  <2> QED BY <2>1, <2>2, <2>3, <1>1
<1>9. \A i \in 1 .. Len(r) : i < k => from(i) = i
  OBVIOUS
<1>10. \A i \in 1 .. Len(r) : i > k => from(i) = i - 1
  BY <1>1
<1> HIDE DEF from
<1>11. \A i \in 1 .. Len(r) : i # k => r[i] # a
  BY <1>4 DEF Holds
<1>12. Distinct(r)
  BY <1>4, <1>5, <1>7, <1>11 DEF Distinct
<1>13. \A b \in Alarm : Holds(r, b) <=> Holds(q, b) \/ b = a
  <2>1. ASSUME NEW b \in Alarm, Holds(r, b)
        PROVE  Holds(q, b) \/ b = a
    BY <2>1, <1>4, <1>5 DEF Holds
  <2>2. ASSUME NEW b \in Alarm, Holds(q, b)
        PROVE  Holds(r, b)
    <3>1. PICK m \in 1 .. Len(q) : q[m] = b
      BY <2>2 DEF Holds
    <3>2. PICK i \in 1 .. Len(r) : i # k /\ from(i) = m
      BY <1>8
    <3> QED BY <3>1, <3>2, <1>4 DEF Holds
  <2>3. Holds(r, a)
    BY <1>5 DEF Holds
  <2> QED BY <2>1, <2>2, <2>3
<1>14. /\ \A b \in Alarm : b # a => new[b] = due[b]
       /\ new[a] = t
       /\ \A b \in Alarm : due[b] \in Nat /\ new[b] \in Nat
  OBVIOUS
<1>15. Sorted(r, new)
  <2>1. SUFFICES ASSUME NEW i \in 1 .. Len(r), NEW j \in 1 .. Len(r), i < j
                 PROVE  new[r[i]] <= new[r[j]]
    BY DEF Sorted
  <2>2. r[i] \in Alarm /\ r[j] \in Alarm
    BY <1>3
  <2>3. i \in Int /\ j \in Int /\ k \in Int
    BY <1>1
  <2>4. CASE i # k /\ j # k
    <3>1. new[r[i]] = due[q[from(i)]] /\ new[r[j]] = due[q[from(j)]]
      BY <2>2, <2>4, <1>4, <1>11, <1>14
    <3>2. /\ from(i) \in 1 .. Len(q) /\ from(j) \in 1 .. Len(q)
          /\ from(i) < from(j)
      BY <2>1, <2>4, <1>4, <1>6
    <3> QED BY <3>1, <3>2 DEF Sorted
  <2>5. CASE j = k
    <3>1. i \in 1 .. k - 1 /\ i # k /\ from(i) = i
      BY <2>1, <2>3, <2>5, <1>9
    <3>2. due[q[i]] < t
      BY <3>1, <1>1 DEF IsLinkPosition
    <3>3. new[r[i]] = due[q[i]] /\ new[r[j]] = t
      BY <2>2, <2>5, <3>1, <1>4, <1>5, <1>11, <1>14
    <3> QED BY <3>2, <3>3, <2>2, <1>14
  <2>6. CASE i = k
    <3>1. j # k /\ from(j) = j - 1 /\ from(j) \in 1 .. Len(q) /\ k <= from(j)
      BY <2>1, <2>3, <2>6, <1>4, <1>10
    <3>2. k \in 1 .. Len(q)
      BY <3>1, <1>1
    <3>3. due[q[k]] >= t
      BY <3>2, <1>1 DEF IsLinkPosition
    <3>4. due[q[k]] <= due[q[from(j)]]
      <4>1. CASE k = from(j)
        BY <4>1, <3>2
      <4>2. CASE k < from(j)
        BY <4>2, <3>1, <3>2 DEF Sorted
      <4> QED BY <4>1, <4>2, <3>1, <3>2
    <3>5. new[r[i]] = t /\ new[r[j]] = due[q[from(j)]]
      BY <2>2, <2>6, <3>1, <1>4, <1>5, <1>11, <1>14
    <3>6. due[q[k]] \in Nat /\ due[q[from(j)]] \in Nat
      BY <3>1, <3>2
    <3> QED BY <3>3, <3>4, <3>5, <3>6
  <2> QED BY <2>4, <2>5, <2>6
<1> QED BY <1>2, <1>3, <1>12, <1>13, <1>15

-----------------------------------------------------------------------------
(* The inductive invariant: the four invariants of SimClock hold each other up. *)

Inv == TypeOK /\ LinkedOnce /\ QueueInOrder /\ NothingOverdue

USE NoneAssumption, DeltasAssumption, MaxNanosAssumption

LEMMA InvInit == Init => Inv
BY DEF Init, Inv, TypeOK, LinkedOnce, QueueInOrder, NothingOverdue

\* The invariant in the words of the lemmas about queues.
QueueFacts ==
    /\ TypeOK
    /\ Distinct(queue)
    /\ Sorted(queue, nanos)
    /\ \A b \in Alarm : Holds(queue, b) => scheduled[b] /\ nanos[b] >= nanosCounter
    /\ targetNanos # None => nanosCounter <= targetNanos

LEMMA InvAsQueueFacts == Inv <=> QueueFacts
<1>1. ASSUME Inv PROVE QueueFacts
  BY <1>1 DEF Inv, QueueFacts, LinkedOnce, QueueInOrder, NothingOverdue,
              Distinct, Sorted, Holds
<1>2. ASSUME QueueFacts PROVE Inv
  <2>1. \A i \in 1 .. Len(queue) : queue[i] \in Alarm /\ Holds(queue, queue[i])
    BY <1>2 DEF QueueFacts, TypeOK, Holds
  <2> QED BY <1>2, <2>1 DEF Inv, QueueFacts, LinkedOnce, QueueInOrder,
                           NothingOverdue, Distinct, Sorted
<1> QED BY <1>1, <1>2

LEMMA SchedulePreservesInv ==
    ASSUME Inv, NEW a \in Alarm, NEW delta \in Deltas, schedule(a, delta)
    PROVE  Inv'
<1> DEFINE rest == IF scheduled[a] THEN unlinkAlarm(queue, a) ELSE queue
           due  == nanosCounter + delta
<1>1. /\ TypeOK
      /\ Distinct(queue) /\ Sorted(queue, nanos)
      /\ \A b \in Alarm : Holds(queue, b) => scheduled[b] /\ nanos[b] >= nanosCounter
      /\ targetNanos # None => nanosCounter <= targetNanos
  BY InvAsQueueFacts DEF QueueFacts
<1>2. /\ nanosCounter \in Nat /\ due \in Nat /\ due >= nanosCounter
      /\ queue \in Seq(Alarm) /\ nanos \in [Alarm -> Nat]
  BY <1>1 DEF TypeOK
<1>3. /\ rest \in Seq(Alarm) /\ Distinct(rest) /\ Sorted(rest, nanos)
      /\ \A b \in Alarm : Holds(rest, b) <=> Holds(queue, b) /\ b # a
  <2>1. CASE scheduled[a]
    BY <2>1, <1>1, <1>2, UnlinkFacts
  <2>2. CASE ~scheduled[a]
    BY <2>2, <1>1, <1>2
  <2> QED BY <2>1, <2>2
<1>4. /\ queue' = linkAlarm(rest, nanos, a, due)
      /\ nanos' = [nanos EXCEPT ![a] = due]
      /\ scheduled' = [scheduled EXCEPT ![a] = TRUE]
      /\ UNCHANGED <<nanosCounter, targetNanos, running>>
  BY DEF schedule
<1> HIDE DEF rest
<1>5. /\ queue' \in Seq(Alarm) /\ Distinct(queue') /\ Sorted(queue', nanos')
      /\ \A b \in Alarm : Holds(queue', b) <=> Holds(rest, b) \/ b = a
  BY <1>2, <1>3, <1>4, LinkFacts
<1> HIDE DEF due
<1>6. TypeOK'
  BY <1>1, <1>2, <1>4, <1>5 DEF TypeOK
<1>7. \A b \in Alarm : Holds(queue', b) => scheduled'[b] /\ nanos'[b] >= nanosCounter'
  BY <1>1, <1>2, <1>3, <1>4, <1>5 DEF TypeOK
<1>8. targetNanos' # None => nanosCounter' <= targetNanos'
  BY <1>1, <1>4
<1>9. QueueFacts'
  BY <1>5, <1>6, <1>7, <1>8 DEF QueueFacts
<1> QED BY <1>9, InvAsQueueFacts, PTL

LEMMA CancelPreservesInv ==
    ASSUME Inv, NEW a \in Alarm, cancel(a)
    PROVE  Inv'
<1>1. /\ TypeOK
      /\ Distinct(queue) /\ Sorted(queue, nanos)
      /\ \A b \in Alarm : Holds(queue, b) => scheduled[b] /\ nanos[b] >= nanosCounter
      /\ targetNanos # None => nanosCounter <= targetNanos
  BY InvAsQueueFacts DEF QueueFacts
<1>2. queue \in Seq(Alarm) /\ nanos \in [Alarm -> Nat]
  BY <1>1 DEF TypeOK
<1>3. /\ queue' = unlinkAlarm(queue, a)
      /\ scheduled' = [scheduled EXCEPT ![a] = FALSE]
      /\ UNCHANGED <<nanosCounter, nanos, targetNanos, running>>
  BY DEF cancel
<1>4. /\ queue' \in Seq(Alarm) /\ Distinct(queue') /\ Sorted(queue', nanos)
      /\ \A b \in Alarm : Holds(queue', b) <=> Holds(queue, b) /\ b # a
  BY <1>1, <1>2, <1>3, UnlinkFacts
<1>5. TypeOK'
  BY <1>1, <1>3, <1>4 DEF TypeOK
<1>6. \A b \in Alarm : Holds(queue', b) => scheduled'[b] /\ nanos'[b] >= nanosCounter'
  BY <1>1, <1>3, <1>4 DEF TypeOK
<1>7. Sorted(queue', nanos') /\ (targetNanos' # None => nanosCounter' <= targetNanos')
  BY <1>1, <1>3, <1>4
<1>8. QueueFacts'
  BY <1>4, <1>5, <1>6, <1>7 DEF QueueFacts
<1> QED BY <1>8, InvAsQueueFacts, PTL

\* The alarm that fires is the earliest one, and it leaves the queue.
LEMMA FireFacts ==
    ASSUME Inv, FireAlarm
    PROVE  /\ queue # <<>> /\ Head(queue) \in Alarm /\ Head(queue) = queue[1]
           /\ nanosCounter' = nanos[Head(queue)]
           /\ nanos[Head(queue)] \in Nat
           /\ nanosCounter <= nanos[Head(queue)]
           /\ nanos[Head(queue)] <= targetNanos
           /\ queue' \in Seq(Alarm) /\ Len(queue') = Len(queue) - 1
           /\ \A i \in 1 .. Len(queue) - 1 : queue'[i] = queue[i + 1]
<1>1. queue # <<>> /\ queue \in Seq(Alarm) /\ nanos \in [Alarm -> Nat]
  BY DEF Inv, TypeOK, FireAlarm, HeadIsDue
<1>2. /\ Head(queue) \in Alarm /\ Tail(queue) \in Seq(Alarm)
      /\ Len(Tail(queue)) = Len(queue) - 1
      /\ \A i \in 1 .. Len(Tail(queue)) : Tail(queue)[i] = queue[i + 1]
  BY <1>1, HeadTailProperties
<1>3. Head(queue) = queue[1] /\ 1 \in 1 .. Len(queue)
  BY <1>1
<1>4. nanosCounter <= nanos[queue[1]]
  BY <1>3 DEF Inv, NothingOverdue, TypeOK
<1> QED BY <1>1, <1>2, <1>3, <1>4 DEF FireAlarm, HeadIsDue

LEMMA FirePreservesInv ==
    ASSUME Inv, FireAlarm
    PROVE  Inv'
<1> USE FireFacts
<1>0. UNCHANGED <<nanos, scheduled, targetNanos>> /\ targetNanos # None /\ running' = Head(queue)
  BY DEF FireAlarm
<1>a. \A i \in 1 .. Len(queue') : i + 1 \in 1 .. Len(queue) /\ queue'[i] = queue[i + 1]
  BY SMTT(20) DEF Inv, TypeOK
<1>1. TypeOK'
  BY <1>0 DEF Inv, TypeOK
<1>2. LinkedOnce'
  BY <1>0, <1>a DEF Inv, LinkedOnce
<1>3. QueueInOrder'
  BY <1>0, <1>a, SMTT(20) DEF Inv, QueueInOrder
<1>4. NothingOverdue'
  <2>1. ASSUME NEW i \in 1 .. Len(queue')
        PROVE  nanos'[queue'[i]] >= nanosCounter'
    <3>1. nanos[queue[1]] <= nanos[queue[i + 1]]
      BY <1>a DEF Inv, QueueInOrder
    <3>2. nanos[queue[1]] \in Nat /\ nanos[queue[i + 1]] \in Nat
      BY <1>a DEF Inv, TypeOK
    <3> QED BY <1>0, <1>a, <3>1, <3>2
  <2> QED BY <1>0, <2>1 DEF NothingOverdue
<1> QED BY <1>1, <1>2, <1>3, <1>4 DEF Inv

LEMMA NanosToNextAlarmNat == Inv => nanosToNextAlarm \in Nat
<1> SUFFICES ASSUME Inv PROVE nanosToNextAlarm \in Nat
  OBVIOUS
<1>1. CASE queue = <<>>
  BY <1>1 DEF nanosToNextAlarm
<1>2. CASE queue # <<>>
  <2>1. Head(queue) = queue[1] /\ 1 \in 1 .. Len(queue) /\ Head(queue) \in Alarm
    BY <1>2 DEF Inv, TypeOK
  <2>2. nanos[Head(queue)] \in Nat /\ nanosCounter \in Nat /\ nanos[Head(queue)] >= nanosCounter
    BY <2>1 DEF Inv, TypeOK, NothingOverdue
  <2> QED BY <1>2, <2>2 DEF nanosToNextAlarm
<1> QED BY <1>1, <1>2

LEMMA TickPreservesInv ==
    ASSUME Inv, Tick
    PROVE  Inv'
<1>1. PICK delta \in TickDeltas \cup {nanosToNextAlarm} : StartTick(delta)
  BY DEF Tick
<1>2. delta \in Nat
  BY NanosToNextAlarmNat
<1>3. /\ targetNanos' = nanosCounter + delta /\ nanosCounter \in Nat
      /\ UNCHANGED <<nanosCounter, queue, nanos, scheduled, running>>
  BY <1>1 DEF StartTick, Inv, TypeOK
<1>4. targetNanos' \in Nat /\ nanosCounter' <= targetNanos'
  BY <1>2, <1>3
<1> QED BY <1>3, <1>4 DEF Inv, TypeOK, LinkedOnce, QueueInOrder, NothingOverdue

\* When the head is not due nothing is, because the queue is in order.
LEMMA NothingIsDue ==
    ASSUME Inv, targetNanos # None, ~HeadIsDue
    PROVE  \A i \in 1 .. Len(queue) : nanos[queue[i]] > targetNanos
<1> SUFFICES ASSUME NEW i \in 1 .. Len(queue)
             PROVE  nanos[queue[i]] > targetNanos
  OBVIOUS
<1>1. queue # <<>> /\ Head(queue) = queue[1] /\ 1 \in 1 .. Len(queue)
  BY DEF Inv, TypeOK
<1>2. nanos[queue[1]] \in Nat /\ nanos[queue[i]] \in Nat /\ targetNanos \in Nat
  BY <1>1 DEF Inv, TypeOK
<1>3. nanos[queue[1]] > targetNanos
  BY <1>1, <1>2 DEF HeadIsDue
<1>4. nanos[queue[1]] <= nanos[queue[i]]
  <2>1. CASE i = 1
    BY <2>1, <1>2
  <2>2. CASE i # 1
    <3>1. 1 < i
      BY <2>2
    <3> QED BY <3>1, <1>1 DEF Inv, QueueInOrder
  <2> QED BY <2>1, <2>2
<1> QED BY <1>2, <1>3, <1>4

LEMMA TickDonePreservesInv ==
    ASSUME Inv, TickDone
    PROVE  Inv'
<1>1. /\ nanosCounter' = targetNanos /\ targetNanos' = None /\ targetNanos \in Nat
      /\ UNCHANGED <<queue, nanos, scheduled, running>>
  BY DEF TickDone, Inv, TypeOK
<1>2. \A i \in 1 .. Len(queue) : nanos[queue[i]] > targetNanos
  BY NothingIsDue DEF TickDone
<1>3. \A i \in 1 .. Len(queue) : nanos[queue[i]] \in Nat
  BY DEF Inv, TypeOK
<1> QED BY <1>1, <1>2, <1>3
        DEF Inv, TypeOK, LinkedOnce, QueueInOrder, NothingOverdue

LEMMA InvStep == Inv /\ [Next]_vars => Inv'
<1> SUFFICES ASSUME Inv, [Next]_vars PROVE Inv'
  OBVIOUS
<1>1. CASE \E a \in Alarm, delta \in Deltas : schedule(a, delta)
  BY <1>1, SchedulePreservesInv
<1>2. CASE \E a \in Alarm : cancel(a)
  BY <1>2, CancelPreservesInv
<1>3. CASE Tick
  BY <1>3, TickPreservesInv
<1>4. CASE FireAlarm
  BY <1>4, FirePreservesInv
<1>5. CASE CallbackReturns
  BY <1>5 DEF CallbackReturns, Inv, TypeOK, LinkedOnce, QueueInOrder, NothingOverdue
<1>6. CASE TickDone
  BY <1>6, TickDonePreservesInv
<1>7. CASE UNCHANGED vars
  BY <1>7 DEF vars, Inv, TypeOK, LinkedOnce, QueueInOrder, NothingOverdue
<1> QED BY <1>1, <1>2, <1>3, <1>4, <1>5, <1>6, <1>7 DEF Next

-----------------------------------------------------------------------------
(* What holds in every behaviour of the clock. *)

\* However callbacks schedule and cancel, the list never ties into a cycle, stays
\* in deadline order and holds no alarm whose time has passed: the invariant the
\* operations of SimulationClock keep up between them.
THEOREM InvHolds == Spec => []Inv
<1> QED BY InvInit, InvStep, PTL DEF Spec

\* The fields of SimulationClock and ClockAlarm keep their types.
THEOREM TypeCorrect == Spec => []TypeOK
<1>1. Inv => TypeOK
  BY DEF Inv
<1> QED BY <1>1, InvHolds, PTL

\* No alarm is linked twice, whatever the number of alarms and their delays.
THEOREM AlarmsLinkedOnce == Spec => []LinkedOnce
<1>1. Inv => LinkedOnce
  BY DEF Inv
<1> QED BY <1>1, InvHolds, PTL

\* tick() may stop at the first alarm that is not due.
THEOREM QueueAlwaysInOrder == Spec => []QueueInOrder
<1>1. Inv => QueueInOrder
  BY DEF Inv
<1> QED BY <1>1, InvHolds, PTL

\* tick() leaves no alarm behind and does not pass its own target.
THEOREM NeverOverdue == Spec => []NothingOverdue
<1>1. Inv => NothingOverdue
  BY DEF Inv
<1> QED BY <1>1, InvHolds, PTL

\* What tick() and schedule() rely on, together.
THEOREM QueueIsSound == Spec => []QueueSound
<1>1. Inv => QueueSound
  BY DEF Inv, QueueSound
<1> QED BY <1>1, InvHolds, PTL

\* The time read from the clock never decreases, although tick() assigns it the
\* deadline of each alarm it runs.
THEOREM TimeMonotonic == Spec => TimeNeverRunsBack
<1>1. Inv /\ [Next]_vars => [nanosCounter' >= nanosCounter]_vars
  <2> SUFFICES ASSUME Inv, Next PROVE nanosCounter' >= nanosCounter
    OBVIOUS
  <2>0. nanosCounter \in Nat
    BY DEF Inv, TypeOK
  <2>1. CASE UNCHANGED nanosCounter
    BY <2>0, <2>1
  <2>2. CASE FireAlarm
    BY <2>2, FireFacts
  <2>3. CASE TickDone
    BY <2>3 DEF TickDone, Inv, NothingOverdue, TypeOK
  <2>4. Next => UNCHANGED nanosCounter \/ FireAlarm \/ TickDone
    BY DEF Next, schedule, cancel, Tick, StartTick, CallbackReturns
  <2> QED BY <2>1, <2>2, <2>3, <2>4
<1> QED BY <1>1, InvHolds, PTL DEF Spec, TimeNeverRunsBack

-----------------------------------------------------------------------------
(* The queue implements the abstract clock. *)

LEMMA PendingDeadlineFacts ==
    ASSUME TypeOK
    PROVE  \A a \in Alarm :
              /\ Holds(queue, a) => PendingDeadline[a] = nanos[a] /\ nanos[a] \in Nat
              /\ ~Holds(queue, a) => PendingDeadline[a] = None
BY DEF TypeOK, PendingDeadline, InQueue, Holds

LEMMA RefinesSchedule ==
    ASSUME Inv, NEW a \in Alarm, NEW delta \in Deltas, schedule(a, delta)
    PROVE  Promise!Schedule(a)
<1> DEFINE due == nanosCounter + delta
           rest == IF scheduled[a] THEN unlinkAlarm(queue, a) ELSE queue
<1>1. QueueFacts /\ Inv'
  BY InvAsQueueFacts, SchedulePreservesInv
<1>2. /\ nanosCounter \in Nat /\ due \in Nat /\ due >= nanosCounter
      /\ queue \in Seq(Alarm) /\ nanos \in [Alarm -> Nat]
  BY <1>1 DEF QueueFacts, TypeOK
<1>3. /\ rest \in Seq(Alarm) /\ Distinct(rest) /\ Sorted(rest, nanos)
      /\ \A b \in Alarm : Holds(rest, b) <=> Holds(queue, b) /\ b # a
  <2>1. CASE scheduled[a]
    BY <2>1, <1>1, <1>2, UnlinkFacts DEF QueueFacts
  <2>2. CASE ~scheduled[a]
    BY <2>2, <1>1, <1>2 DEF QueueFacts
  <2> QED BY <2>1, <2>2
<1>4. /\ queue' = linkAlarm(rest, nanos, a, due)
      /\ nanos' = [nanos EXCEPT ![a] = due]
      /\ UNCHANGED nanosCounter
  BY DEF schedule
<1> HIDE DEF rest
<1>5. \A b \in Alarm : Holds(queue', b) <=> Holds(rest, b) \/ b = a
  BY <1>2, <1>3, <1>4, LinkFacts
<1> HIDE DEF due
<1>6. \A b \in Alarm : Holds(queue', b) <=> Holds(queue, b) \/ b = a
  BY <1>3, <1>5
<1>7. nanos'[a] = due /\ \A b \in Alarm : b # a => nanos'[b] = nanos[b]
  BY <1>2, <1>4
<1>8. PendingDeadline'[a] = due
  BY <1>6, <1>7 DEF PendingDeadline, InQueue, Holds
<1>9. \A b \in Alarm : b # a => PendingDeadline'[b] = PendingDeadline[b]
  BY <1>6, <1>7 DEF PendingDeadline, InQueue, Holds
<1>10. PendingDeadline' = [PendingDeadline EXCEPT ![a] = due]
  BY <1>8, <1>9 DEF PendingDeadline
<1> QED BY <1>2, <1>4, <1>8, <1>10 DEF Promise!Schedule

LEMMA RefinesCancel ==
    ASSUME Inv, NEW a \in Alarm, cancel(a)
    PROVE  Promise!Cancel(a)
<1>1. QueueFacts /\ queue \in Seq(Alarm) /\ nanos \in [Alarm -> Nat]
  BY InvAsQueueFacts DEF QueueFacts, TypeOK
<1>2. queue' = unlinkAlarm(queue, a) /\ nanos' = nanos /\ nanosCounter' = nanosCounter
  BY DEF cancel
<1>3. \A b \in Alarm : Holds(queue', b) <=> Holds(queue, b) /\ b # a
  BY <1>1, <1>2, UnlinkFacts DEF QueueFacts
<1>4. PendingDeadline'[a] = None
  BY <1>3 DEF PendingDeadline, InQueue, Holds
<1>5. \A b \in Alarm : b # a => PendingDeadline'[b] = PendingDeadline[b]
  BY <1>2, <1>3 DEF PendingDeadline, InQueue, Holds
<1>6. PendingDeadline' = [PendingDeadline EXCEPT ![a] = None]
  BY <1>4, <1>5 DEF PendingDeadline
<1> QED BY <1>2, <1>6 DEF Promise!Cancel

LEMMA RefinesFire ==
    ASSUME Inv, FireAlarm
    PROVE  Promise!Fire(Head(queue))
<1> DEFINE a == Head(queue)
<1>1. /\ queue # <<>> /\ queue \in Seq(Alarm) /\ a \in Alarm /\ a = queue[1]
      /\ nanosCounter' = nanos[a] /\ nanos' = nanos
      /\ Len(queue') = Len(queue) - 1
      /\ \A i \in 1 .. Len(queue) - 1 : queue'[i] = queue[i + 1]
      /\ 1 \in 1 .. Len(queue) /\ Len(queue) \in Nat
  BY FireFacts DEF FireAlarm, Inv, TypeOK
<1> HIDE DEF a
<1>2. Holds(queue, a)
  BY <1>1 DEF Holds
<1>3. \A b \in Alarm : Holds(queue', b) <=> Holds(queue, b) /\ b # a
  <2>1. ASSUME NEW b \in Alarm, Holds(queue', b)
        PROVE  Holds(queue, b) /\ b # a
    <3>1. PICK i \in 1 .. Len(queue) - 1 : queue'[i] = b
      BY <2>1, <1>1 DEF Holds
    <3>2. i + 1 \in 1 .. Len(queue) /\ i + 1 # 1 /\ queue[i + 1] = b
      BY <3>1, <1>1
    <3> QED BY <3>2, <1>1 DEF Holds, Inv, LinkedOnce
  <2>2. ASSUME NEW b \in Alarm, Holds(queue, b), b # a
        PROVE  Holds(queue', b)
    <3>1. PICK j \in 1 .. Len(queue) : queue[j] = b
      BY <2>2 DEF Holds
    <3>2. j - 1 \in 1 .. Len(queue') /\ j - 1 \in 1 .. Len(queue) - 1 /\ (j - 1) + 1 = j
      BY <3>1, <2>2, <1>1
    <3>3. queue'[j - 1] = b
      BY <3>1, <3>2, <1>1
    <3> QED BY <3>2, <3>3 DEF Holds
  <2> QED BY <2>1, <2>2
<1>4. \A b \in Alarm : Holds(queue, b) => nanos[a] <= nanos[b]
  <2>1. SUFFICES ASSUME NEW j \in 1 .. Len(queue)
                 PROVE  nanos[queue[1]] <= nanos[queue[j]]
    BY <1>1 DEF Holds
  <2>2. nanos[queue[1]] \in Nat
    BY <1>1 DEF Inv, TypeOK
  <2>3. j = 1 \/ 1 < j
    OBVIOUS
  <2> QED BY <2>2, <2>3, <1>1 DEF Inv, QueueInOrder
<1>5. \A b \in Alarm : /\ Holds(queue, b) => PendingDeadline[b] = nanos[b] /\ nanos[b] \in Nat
                       /\ ~Holds(queue, b) => PendingDeadline[b] = None
  BY PendingDeadlineFacts DEF Inv
<1>6. PendingDeadline' = [PendingDeadline EXCEPT ![a] = None]
  <2>1. PendingDeadline'[a] = None
    BY <1>1, <1>3 DEF PendingDeadline, InQueue, Holds
  <2>2. \A b \in Alarm : b # a => PendingDeadline'[b] = PendingDeadline[b]
    BY <1>1, <1>3 DEF PendingDeadline, InQueue, Holds
  <2> QED BY <2>1, <2>2 DEF PendingDeadline
<1>7. a \in Promise!Pending /\ PendingDeadline[a] = nanos[a]
  BY <1>1, <1>2, <1>5 DEF Promise!Pending
<1>8. \A b \in Promise!Pending : PendingDeadline[a] <= PendingDeadline[b]
  <2>1. SUFFICES ASSUME NEW b \in Promise!Pending
                 PROVE  PendingDeadline[a] <= PendingDeadline[b]
    OBVIOUS
  <2>2. b \in Alarm /\ Holds(queue, b)
    BY <1>5 DEF Promise!Pending
  <2> QED BY <2>2, <1>2, <1>1, <1>4, <1>5
<1>9. Promise!Fire(a)
  BY <1>1, <1>6, <1>7, <1>8 DEF Promise!Fire
<1> QED BY <1>9 DEF a

LEMMA RefinesAdvance ==
    ASSUME Inv, TickDone
    PROVE  Promise!Advance
<1>1. /\ nanosCounter' = targetNanos /\ targetNanos \in Nat /\ nanosCounter <= targetNanos
      /\ UNCHANGED <<queue, nanos>>
  BY DEF TickDone, Inv, TypeOK, NothingOverdue
<1>2. \A i \in 1 .. Len(queue) : nanos[queue[i]] > targetNanos
  BY NothingIsDue DEF TickDone
<1>3. \A a \in Promise!Pending : PendingDeadline[a] > targetNanos
  BY <1>2, PendingDeadlineFacts DEF Promise!Pending, Holds, Inv
<1>4. PendingDeadline' = PendingDeadline
  BY <1>1 DEF PendingDeadline, InQueue
<1> QED BY <1>1, <1>3, <1>4 DEF Promise!Advance, Inv, TypeOK

\* Every alarm fires once, at its deadline and in deadline order, unless it is
\* cancelled or rescheduled first: SimulationClock keeps AlarmClock's promise.
THEOREM KeepsPromise == Spec => ImplementsAlarmClock
<1>1. Init => Promise!Init
  BY DEF Init, Promise!Init, PendingDeadline, InQueue
<1>2. Inv /\ [Next]_vars => [Promise!Next]_(Promise!vars)
  <2> SUFFICES ASSUME Inv, [Next]_vars
               PROVE  Promise!Next \/ UNCHANGED Promise!vars
    OBVIOUS
  <2>1. CASE \E a \in Alarm, delta \in Deltas : schedule(a, delta)
    BY <2>1, RefinesSchedule DEF Promise!Next
  <2>2. CASE \E a \in Alarm : cancel(a)
    BY <2>2, RefinesCancel DEF Promise!Next
  <2>3. CASE FireAlarm
    BY <2>3, RefinesFire, FireFacts DEF Promise!Next
  <2>4. CASE TickDone
    BY <2>4, RefinesAdvance DEF Promise!Next
  <2>5. CASE Tick \/ CallbackReturns \/ UNCHANGED vars
    <3>1. UNCHANGED <<nanosCounter, queue, nanos>>
      BY <2>5 DEF Tick, StartTick, CallbackReturns, vars
    <3> QED BY <3>1 DEF Promise!vars, PendingDeadline, InQueue
  <2> QED BY <2>1, <2>2, <2>3, <2>4, <2>5 DEF Next
<1> QED BY <1>1, <1>2, InvHolds, PTL DEF Spec, ImplementsAlarmClock, Promise!Spec

-----------------------------------------------------------------------------
(* A list, read from its head. *)

Links == [Alarm -> Alarm \cup {None}]

\* The list that starts at head and goes on along nxt holds the alarms of s in
\* the order of s, each of them once, and ends after them.
IsChain(head, nxt, s) ==
    /\ s \in Seq(Alarm) /\ Distinct(s)
    /\ head = IF Len(s) = 0 THEN None ELSE s[1]
    /\ \A i \in 1 .. Len(s) : nxt[s[i]] = IF i = Len(s) THEN None ELSE s[i + 1]

IsWalk(f, head, nxt) ==
    f = [i \in Pointers!Steps |-> IF i = 1 THEN head
             ELSE IF f[i - 1] = None THEN None ELSE nxt[f[i - 1]]]

LEMMA SameOperators ==
    /\ \A S : Pointers!Cardinality(S) = Cardinality(S)
    /\ \A q, i : Pointers!Queue!RemoveAt(q, i) = RemoveAt(q, i)
    /\ \A q, i, a : Pointers!Queue!InsertAt(q, i, a) = InsertAt(q, i, a)
    /\ \A q, a : Pointers!Queue!unlinkAlarm(q, a) = unlinkAlarm(q, a)
    /\ \A q, due, a, t : Pointers!Queue!linkAlarm(q, due, a, t) = linkAlarm(q, due, a, t)
<1>1. \A S : Pointers!Cardinality(S) = Cardinality(S)
  BY DEF Pointers!Cardinality, Cardinality
<1>2. \A q, i : Pointers!Queue!RemoveAt(q, i) = RemoveAt(q, i)
  BY DEF Pointers!Queue!RemoveAt, RemoveAt
<1>3. \A q, i, a : Pointers!Queue!InsertAt(q, i, a) = InsertAt(q, i, a)
  BY DEF Pointers!Queue!InsertAt, InsertAt
<1>4. \A q, a : Pointers!Queue!unlinkAlarm(q, a) = unlinkAlarm(q, a)
  BY <1>2, Zenon DEF Pointers!Queue!unlinkAlarm, unlinkAlarm
<1>5. \A q, due, a, t : Pointers!Queue!linkAlarm(q, due, a, t) = linkAlarm(q, due, a, t)
  BY <1>3, Zenon DEF Pointers!Queue!linkAlarm, linkAlarm, Pointers!Queue!IsLinkPosition,
                     IsLinkPosition
<1> QED BY <1>1, <1>2, <1>3, <1>4, <1>5

\* The walk takes one step more than there are alarms.
LEMMA StepsAre ==
    /\ Cardinality(Alarm) \in Nat
    /\ Pointers!Steps = 1 .. Cardinality(Alarm) + 1
  BY AlarmAssumption, FS_CardinalityType, SameOperators DEF Pointers!Steps

LEMMA IntervalCount ==
    ASSUME NEW n \in Nat
    PROVE  IsFiniteSet(1 .. n) /\ Cardinality(1 .. n) = n
<1>1. 1 \in Int /\ n \in Int
  OBVIOUS
<1>2. /\ IsFiniteSet(1 .. n)
      /\ Cardinality(1 .. n) = IF 1 > n THEN 0 ELSE n - 1 + 1
  BY <1>1, FS_Interval, Zenon
<1> QED BY <1>2

\* A sequence that repeats no alarm is no longer than there are alarms.
LEMMA ChainFits ==
    ASSUME NEW s \in Seq(Alarm), Distinct(s)
    PROVE  Len(s) <= Cardinality(Alarm)
<1>1. Len(s) \in Nat /\ Cardinality(Alarm) \in Nat
  BY StepsAre
<1>2. IsFiniteSet(1 .. Len(s)) /\ Cardinality(1 .. Len(s)) = Len(s)
  BY <1>1, IntervalCount
<1>3. ASSUME Cardinality(Alarm) < Len(s) PROVE FALSE
  <2>1. s \in [1 .. Len(s) -> Alarm]
    OBVIOUS
  <2>2. \E x, y \in 1 .. Len(s) : x # y /\ s[x] = s[y]
    BY <1>2, <1>3, <2>1, AlarmAssumption, FS_PigeonHole
  <2> QED BY <2>2 DEF Distinct
<1> QED BY <1>1, <1>3

\* The recursion of the walk has a solution on a list, so Walk solves it.
LEMMA WalkUnfolds ==
    ASSUME NEW head, NEW nxt, NEW s, IsChain(head, nxt, s)
    PROVE  IsWalk(Pointers!Walk(head, nxt), head, nxt)
<1> DEFINE w == [i \in Pointers!Steps |-> IF i <= Len(s) THEN s[i] ELSE None]
<1>1. Pointers!Walk(head, nxt) = CHOOSE item : IsWalk(item, head, nxt)
  BY DEF Pointers!Walk, IsWalk
<1>2. /\ s \in Seq(Alarm) /\ Len(s) \in Nat
      /\ Cardinality(Alarm) \in Nat /\ Pointers!Steps = 1 .. Cardinality(Alarm) + 1
      /\ \A i \in 1 .. Len(s) : s[i] \in Alarm
  BY StepsAre DEF IsChain
<1>3. ASSUME NEW i \in Pointers!Steps
      PROVE  w[i] = IF i = 1 THEN head
                    ELSE IF w[i - 1] = None THEN None ELSE nxt[w[i - 1]]
  <2>1. CASE i = 1
    BY <1>2, <2>1 DEF IsChain
  <2>2. CASE i # 1 /\ i - 1 <= Len(s)
    <3>1. i - 1 \in Pointers!Steps /\ i - 1 \in 1 .. Len(s)
      BY <1>2, <2>2
    <3>2. w[i - 1] = s[i - 1] /\ s[i - 1] # None
      BY <1>2, <2>2, <3>1, NoneAssumption
    <3>3. nxt[s[i - 1]] = IF i - 1 = Len(s) THEN None ELSE s[i]
      BY <1>2, <3>1 DEF IsChain
    <3> QED BY <1>2, <2>2, <3>2, <3>3
  <2>3. CASE i # 1 /\ i - 1 > Len(s)
    <3>1. i - 1 \in Pointers!Steps /\ ~(i <= Len(s)) /\ ~(i - 1 <= Len(s))
      BY <1>2, <2>3
    <3> QED BY <2>3, <3>1
  <2> QED BY <1>2, <2>1, <2>2, <2>3
<1>4. IsWalk(w, head, nxt)
  BY <1>3 DEF IsWalk
<1> QED BY <1>1, <1>4, Zenon

\* Read along its pointers, a list is the sequence it holds, and the walk has
\* come to the end of it by its last step.
LEMMA WalkReads ==
    ASSUME NEW head, NEW nxt, NEW s, IsChain(head, nxt, s)
    PROVE  \A i \in Pointers!Steps : Pointers!Walk(head, nxt)[i] =
               IF i <= Len(s) THEN s[i] ELSE None
<1> DEFINE w == Pointers!Walk(head, nxt)
           Right(i) == w[i] = IF i <= Len(s) THEN s[i] ELSE None
           wrong == {i \in Pointers!Steps : ~Right(i)}
<1>1. /\ s \in Seq(Alarm) /\ Len(s) \in Nat
      /\ Cardinality(Alarm) \in Nat /\ Pointers!Steps = 1 .. Cardinality(Alarm) + 1
      /\ \A i \in 1 .. Len(s) : s[i] \in Alarm
  BY StepsAre DEF IsChain
<1>2. \A i \in Pointers!Steps : w[i] = IF i = 1 THEN head
          ELSE IF w[i - 1] = None THEN None ELSE nxt[w[i - 1]]
  <2> HIDE DEF w
  <2>1. IsWalk(w, head, nxt)
    BY WalkUnfolds DEF w
  <2> DEFINE step == [i \in Pointers!Steps |-> IF i = 1 THEN head
                         ELSE IF w[i - 1] = None THEN None ELSE nxt[w[i - 1]]]
  <2>2. w = step
    BY <2>1 DEF IsWalk
  <2>3. \A i \in Pointers!Steps : step[i] = IF i = 1 THEN head
            ELSE IF w[i - 1] = None THEN None ELSE nxt[w[i - 1]]
    OBVIOUS
  <2> HIDE DEF step
  <2> QED BY <2>2, <2>3
<1> HIDE DEF w
<1>3. ASSUME wrong # {} PROVE FALSE
  <2>1. wrong \in SUBSET Nat
    BY <1>1
  <2>2. PICK i \in wrong : \A j \in wrong : i <= j
    BY <1>3, <2>1, LeastNatural
  <2>3. i \in Pointers!Steps /\ ~Right(i) /\ i \in Nat /\ i >= 1
    BY <1>1, <2>2
  <2>4. CASE i = 1
    BY <1>1, <1>2, <2>3, <2>4 DEF IsChain
  <2>5. CASE i # 1
    <3>1. i - 1 \in Pointers!Steps
      BY <1>1, <2>3, <2>5
    <3>2. Right(i - 1)
      BY <2>2, <2>3, <3>1
    <3>3. w[i] = IF w[i - 1] = None THEN None ELSE nxt[w[i - 1]]
      BY <1>2, <2>3, <2>5
    <3>4. CASE i - 1 <= Len(s)
      <4>1. i - 1 \in 1 .. Len(s)
        BY <1>1, <2>3, <2>5, <3>4
      <4>2. w[i - 1] = s[i - 1] /\ s[i - 1] # None
        BY <1>1, <3>2, <3>4, <4>1, NoneAssumption
      <4>3. nxt[s[i - 1]] = IF i - 1 = Len(s) THEN None ELSE s[i]
        BY <1>1, <2>3, <4>1 DEF IsChain
      <4> QED BY <1>1, <2>3, <3>3, <3>4, <4>2, <4>3
    <3>5. CASE ~(i - 1 <= Len(s))
      BY <1>1, <2>3, <3>2, <3>3, <3>5
    <3> QED BY <3>4, <3>5
  <2> QED BY <2>4, <2>5
<1> QED BY <1>3 DEF w

LEMMA ChainReads ==
    ASSUME NEW head, NEW nxt, NEW s, IsChain(head, nxt, s)
    PROVE  /\ Pointers!Chain(head, nxt) = s
           /\ Pointers!Walk(head, nxt)[Pointers!Cardinality(Alarm) + 1] = None
<1> DEFINE w == Pointers!Walk(head, nxt)
           N == Cardinality(Alarm)
<1>1. /\ s \in Seq(Alarm) /\ Len(s) \in Nat
      /\ N \in Nat /\ Pointers!Steps = 1 .. N + 1
      /\ \A i \in 1 .. Len(s) : s[i] \in Alarm
  BY StepsAre DEF IsChain
<1>2. Len(s) <= N
  BY ChainFits DEF IsChain
<1>3. \A i \in Pointers!Steps : w[i] = IF i <= Len(s) THEN s[i] ELSE None
  BY WalkReads
<1> HIDE DEF w, N
<1>4. {i \in Pointers!Steps : w[i] # None} = 1 .. Len(s)
  BY <1>1, <1>2, <1>3, NoneAssumption
<1>5. Pointers!Cardinality({i \in Pointers!Steps : w[i] # None}) = Len(s)
  <2>1. Cardinality(1 .. Len(s)) = Len(s)
    BY <1>1, IntervalCount
  <2> QED BY <1>4, <2>1, SameOperators
<1>6. Pointers!Chain(head, nxt) = SubSeq(w, 1, Len(s))
  <2>1. Pointers!Chain(head, nxt) =
            SubSeq(w, 1, Pointers!Cardinality({i \in Pointers!Steps : w[i] # None}))
    BY Zenon DEF Pointers!Chain, w
  <2> QED BY <1>5, <2>1
<1>7. SubSeq(w, 1, Len(s)) = s
  <2>1. SubSeq(w, 1, Len(s)) = [i \in 1 .. Len(s) |-> w[i]]
    <3>1. SubSeq(w, 1, Len(s)) = [i \in 1 .. Len(s) - 1 + 1 |-> w[i + 1 - 1]]
      BY <1>1
    <3>2. Len(s) - 1 + 1 = Len(s) /\ \A i \in 1 .. Len(s) : i + 1 - 1 = i
      BY <1>1
    <3> QED BY <3>1, <3>2
  <2>2. \A i \in 1 .. Len(s) : w[i] = s[i]
    BY <1>1, <1>2, <1>3
  <2>3. s = [i \in 1 .. Len(s) |-> s[i]]
    BY <1>1
  <2> QED BY <2>1, <2>2, <2>3
<1>8. w[N + 1] = None
  BY <1>1, <1>2, <1>3
<1> QED BY <1>6, <1>7, <1>8, SameOperators DEF w, N
-----------------------------------------------------------------------------
(* Splicing. *)

LEMMA ItemsOf ==
    ASSUME NEW head, NEW nxt, NEW s, IsChain(head, nxt, s)
    PROVE  /\ s \in Seq(Alarm) /\ Len(s) \in Nat
           /\ \A i \in 1 .. Len(s) : s[i] \in Alarm
           /\ \A i \in 1 .. Len(s) : nxt[s[i]] = IF i = Len(s) THEN None ELSE s[i + 1]
           /\ \A i, j \in 1 .. Len(s) : s[i] = s[j] => i = j
           /\ DOMAIN s = 1 .. Len(s)
  BY DEF IsChain, Distinct

\* Taking an alarm out of the list takes it out of the queue.
LEMMA UnlinkChain ==
    ASSUME NEW head, NEW nxt \in Links, NEW s, IsChain(head, nxt, s), NEW a \in Alarm
    PROVE  LET l == Pointers!unlinkAlarm(Pointers!List(head, nxt), a)
           IN  l.next \in Links /\ IsChain(l.head, l.next, unlinkAlarm(s, a))
<1> DEFINE l == Pointers!unlinkAlarm(Pointers!List(head, nxt), a)
           at == {i \in DOMAIN s : s[i] = a}
<1>1. /\ s \in Seq(Alarm) /\ Len(s) \in Nat
      /\ \A i \in 1 .. Len(s) : s[i] \in Alarm
      /\ \A i, j \in 1 .. Len(s) : s[i] = s[j] => i = j
      /\ DOMAIN s = 1 .. Len(s)
  BY ItemsOf
<1>2. l = IF at = {} THEN [head |-> head, next |-> nxt]
          ELSE IF 1 \in at THEN [head |-> nxt[a], next |-> nxt]
          ELSE [head |-> head,
                next |-> [nxt EXCEPT ![s[(CHOOSE i \in at : TRUE) - 1]] = nxt[a]]]
  <2>1. Pointers!Chain(head, nxt) = s
    BY ChainReads
  <2> QED BY <2>1 DEF Pointers!unlinkAlarm, Pointers!List
<1> HIDE DEF l
<1>3. CASE ~Holds(s, a)
  <2>1. at = {} /\ unlinkAlarm(s, a) = s
    BY <1>1, <1>3 DEF Holds, unlinkAlarm
  <2> QED BY <1>2, <2>1 DEF l
<1>4. CASE Holds(s, a)
  <2> DEFINE k == CHOOSE i \in 1 .. Len(s) : s[i] = a
             r == RemoveAt(s, k)
  <2>1. k \in 1 .. Len(s) /\ s[k] = a
    BY <1>4 DEF Holds
  <2>2. unlinkAlarm(s, a) = r
    BY <1>4 DEF unlinkAlarm, Holds
  <2> HIDE DEF k
  <2>3. /\ r \in Seq(Alarm) /\ Len(r) = Len(s) - 1
        /\ \A i \in 1 .. Len(s) - 1 : r[i] = IF i < k THEN s[i] ELSE s[i + 1]
    BY <1>1, <2>1, RemoveAtFacts
  <2>4. Distinct(r)
    <3>1. [b \in Alarm |-> 0] \in [Alarm -> Nat]
      OBVIOUS
    <3>2. Distinct(s)
      BY DEF IsChain
    <3> QED BY <1>1, <2>2, <3>1, <3>2, UnlinkFacts
  <2> HIDE DEF r
  <2>5. at = {k}
    BY <1>1, <2>1
  <2>6. \A i \in 1 .. Len(s) : nxt[s[i]] = IF i = Len(s) THEN None ELSE s[i + 1]
    BY ItemsOf
  <2>10. /\ k \in Int /\ 1 <= k /\ k <= Len(s) /\ Len(s) \in Int /\ Len(r) = Len(s) - 1
         /\ \A i \in Int : i \in 1 .. Len(r) <=> 1 <= i /\ i < Len(s)
         /\ \A i \in 1 .. Len(r) : i \in Int /\ 1 <= i /\ i < Len(s)
    BY <1>1, <2>1, <2>3
  <2>11. \A i \in 1 .. Len(r) :
             (i < k => r[i] = s[i]) /\ (i >= k => r[i] = s[i + 1])
    BY <2>3, <2>10
  <2>7. head = s[1]
    BY <2>10 DEF IsChain
  <2>8. CASE k = 1
    <3>1. l = [head |-> nxt[a], next |-> nxt]
      BY <1>2, <2>5, <2>8
    <3>2. nxt[a] = IF Len(r) = 0 THEN None ELSE r[1]
      <4>1. nxt[a] = IF 1 = Len(s) THEN None ELSE s[1 + 1]
        BY <2>1, <2>6, <2>8
      <4>2. Len(s) # 1 => 1 \in 1 .. Len(r) /\ r[1] = s[1 + 1]
        BY <2>8, <2>10, <2>11
      <4> QED BY <2>10, <4>1, <4>2
    <3>3. \A i \in 1 .. Len(r) : nxt[r[i]] = IF i = Len(r) THEN None ELSE r[i + 1]
      <4>1. SUFFICES ASSUME NEW i \in 1 .. Len(r)
                     PROVE  nxt[r[i]] = IF i = Len(r) THEN None ELSE r[i + 1]
        OBVIOUS
      <4>2. r[i] = s[i + 1] /\ i + 1 \in 1 .. Len(s)
        BY <2>8, <2>10, <2>11, SMTT(20)
      <4>3. nxt[s[i + 1]] = IF i + 1 = Len(s) THEN None ELSE s[i + 1 + 1]
        BY <2>6, <4>2
      <4>4. ASSUME i # Len(r) PROVE r[i + 1] = s[i + 1 + 1]
        <5>1. i + 1 \in 1 .. Len(r) /\ i + 1 >= k
          BY <2>8, <2>10, <4>4
        <5> QED BY <2>11, <5>1
      <4> QED BY <2>10, <4>2, <4>3, <4>4
    <3> QED BY <2>2, <2>3, <2>4, <3>1, <3>2, <3>3 DEF IsChain, l
  <2>9. CASE k # 1
    <3> DEFINE new == [nxt EXCEPT ![s[k - 1]] = nxt[a]]
    <3>0. k - 1 \in 1 .. Len(s) /\ s[k - 1] \in Alarm
      BY <1>1, <2>9, <2>10
    <3>1. l = [head |-> head, next |-> new]
      <4>1. (CHOOSE i \in at : TRUE) = k
        BY <2>5
      <4>2. at # {} /\ 1 \notin at
        BY <2>5, <2>9
      <4> HIDE DEF at
      <4> QED BY <1>2, <4>1, <4>2
    <3>2. new \in Links
      <4>1. nxt[a] \in Alarm \cup {None}
        BY DEF Links
      <4> QED BY <4>1 DEF Links
    <3>3. /\ \A b \in Alarm : b # s[k - 1] => new[b] = nxt[b]
          /\ new[s[k - 1]] = nxt[a]
      BY <3>0 DEF Links
    <3> HIDE DEF new
    <3>4. head = r[1] /\ Len(r) # 0
      <4>1. 1 \in 1 .. Len(r) /\ 1 < k
        BY <2>9, <2>10
      <4> QED BY <2>7, <2>11, <4>1
    <3>5. \A i \in 1 .. Len(r) : new[r[i]] = IF i = Len(r) THEN None ELSE r[i + 1]
      <4>1. SUFFICES ASSUME NEW i \in 1 .. Len(r)
                     PROVE  new[r[i]] = IF i = Len(r) THEN None ELSE r[i + 1]
        OBVIOUS
      <4>2. CASE i < k - 1
        <5>1. /\ i \in 1 .. Len(r) /\ i + 1 \in 1 .. Len(r) /\ i \in 1 .. Len(s)
              /\ i < k /\ i + 1 < k /\ i # Len(r) /\ i # Len(s) /\ i # k - 1
          BY <2>10, <4>2
        <5>2. r[i] = s[i] /\ r[i + 1] = s[i + 1]
          BY <2>11, <5>1
        <5>3. s[i] # s[k - 1] /\ s[i] \in Alarm
          BY <1>1, <3>0, <5>1
        <5> QED BY <2>6, <3>3, <5>1, <5>2, <5>3
      <4>3. CASE i = k - 1
        <5>1. i < k /\ i + 1 = k /\ (i = Len(r) <=> k = Len(s))
          BY <2>10, <4>3
        <5>2. new[r[i]] = nxt[s[k]]
          BY <2>1, <2>11, <3>3, <4>3, <5>1
        <5>3. nxt[s[k]] = IF k = Len(s) THEN None ELSE s[k + 1]
          BY <2>1, <2>6
        <5>4. ASSUME i # Len(r) PROVE r[i + 1] = s[k + 1]
          <6>1. k \in 1 .. Len(r) /\ k >= k
            BY <2>10, <5>1, <5>4
          <6> QED BY <2>11, <5>1, <6>1
        <5> QED BY <5>1, <5>2, <5>3, <5>4
      <4>4. CASE i > k - 1
        <5>1. /\ i >= k /\ i + 1 \in 1 .. Len(s) /\ i + 1 # k - 1
              /\ (i = Len(r) <=> i + 1 = Len(s))
          BY <2>10, <4>4
        <5>2. r[i] = s[i + 1]
          BY <2>11, <5>1
        <5>3. s[i + 1] # s[k - 1] /\ s[i + 1] \in Alarm
          BY <1>1, <3>0, <5>1
        <5>4. new[r[i]] = IF i + 1 = Len(s) THEN None ELSE s[i + 1 + 1]
          BY <2>6, <3>3, <5>1, <5>2, <5>3
        <5>5. ASSUME i # Len(r) PROVE r[i + 1] = s[i + 1 + 1]
          <6>1. i + 1 \in 1 .. Len(r) /\ i + 1 >= k
            BY <2>10, <5>1, <5>5
          <6> QED BY <2>11, <6>1
        <5> QED BY <5>1, <5>4, <5>5
      <4>5. i < k - 1 \/ i = k - 1 \/ i > k - 1
        BY <2>10
      <4> QED BY <4>2, <4>3, <4>4, <4>5
    <3> QED BY <2>2, <2>3, <2>4, <3>1, <3>2, <3>4, <3>5 DEF IsChain, l
  <2> QED BY <2>8, <2>9
<1> QED BY <1>3, <1>4

\* The places that linkAlarm passes on its way to the one it links alarm a at.
Passed(s, due, a) == {i \in DOMAIN s : \A j \in 1 .. i : due[s[j]] < due[a]}

\* The walk for a place passes the items in front of the queue's place.
LEMMA PassedAre ==
    ASSUME NEW s \in Seq(Alarm), NEW a \in Alarm, ~Holds(s, a), NEW t \in Nat,
           NEW due \in [Alarm -> Nat], NEW k, IsLinkPosition(s, due, t, k)
    PROVE  Passed(s, [due EXCEPT ![a] = t], a) = 1 .. k - 1
<1> DEFINE new == [due EXCEPT ![a] = t]
           passed == {i \in DOMAIN s : \A j \in 1 .. i : new[s[j]] < new[a]}
<1>1. /\ Len(s) \in Nat /\ DOMAIN s = 1 .. Len(s)
      /\ k \in Int /\ 1 <= k /\ k <= Len(s) + 1
      /\ \A j \in 1 .. k - 1 : due[s[j]] < t
      /\ k <= Len(s) => due[s[k]] >= t
  BY DEF IsLinkPosition
<1>2. \A j \in 1 .. Len(s) : s[j] \in Alarm /\ s[j] # a
  BY DEF Holds
<1>3. new[a] = t /\ \A j \in 1 .. Len(s) : new[s[j]] = due[s[j]] /\ due[s[j]] \in Int
  BY <1>2
<1> HIDE DEF new
<1>4. ASSUME NEW i \in 1 .. k - 1 PROVE i \in passed
  <2>1. i \in 1 .. Len(s) /\ \A j \in 1 .. i : j \in 1 .. k - 1 /\ j \in 1 .. Len(s)
    BY <1>1
  <2> QED BY <1>1, <1>3, <2>1
<1>5. ASSUME NEW i \in passed PROVE i \in 1 .. k - 1
  <2>1. i \in 1 .. Len(s) /\ \A j \in 1 .. i : new[s[j]] < t
    BY <1>1, <1>3
  <2>2. ASSUME i >= k PROVE FALSE
    <3>1. k \in 1 .. i /\ k \in 1 .. Len(s)
      BY <1>1, <2>1, <2>2
    <3>2. due[s[k]] < t /\ due[s[k]] >= t /\ due[s[k]] \in Int
      BY <1>1, <1>3, <2>1, <3>1
    <3> QED BY <3>2
  <2> QED BY <1>1, <2>1, <2>2
<1>6. passed = 1 .. k - 1
  BY <1>4, <1>5
<1> QED BY <1>6 DEF new, Passed

\* Putting an alarm into the list puts it into the queue, at the same place.
LEMMA LinkChain ==
    ASSUME NEW head, NEW nxt \in Links, NEW s, IsChain(head, nxt, s),
           NEW a \in Alarm, ~Holds(s, a), NEW t \in Nat, NEW due \in [Alarm -> Nat]
    PROVE  LET l == Pointers!linkAlarm(Pointers!List(head, nxt), [due EXCEPT ![a] = t], a)
           IN  l.next \in Links /\ IsChain(l.head, l.next, linkAlarm(s, due, a, t))
<1> DEFINE new == [due EXCEPT ![a] = t]
           l == Pointers!linkAlarm(Pointers!List(head, nxt), new, a)
           passed == Passed(s, new, a)
           k == CHOOSE i \in 1 .. Len(s) + 1 : IsLinkPosition(s, due, t, i)
           r == InsertAt(s, k, a)
<1> HIDE DEF l, passed, new
<1>1. /\ s \in Seq(Alarm) /\ Len(s) \in Nat
      /\ \A i \in 1 .. Len(s) : s[i] \in Alarm
      /\ \A i, j \in 1 .. Len(s) : s[i] = s[j] => i = j
      /\ DOMAIN s = 1 .. Len(s)
  BY ItemsOf
<1>2. \A i \in 1 .. Len(s) : nxt[s[i]] = IF i = Len(s) THEN None ELSE s[i + 1]
  BY ItemsOf
<1>3. k \in 1 .. Len(s) + 1 /\ IsLinkPosition(s, due, t, k)
  BY <1>1, LinkPositionExists
<1>4. linkAlarm(s, due, a, t) = r
  BY DEF linkAlarm
<1> HIDE DEF k
<1>5. /\ r \in Seq(Alarm) /\ Len(r) = Len(s) + 1
      /\ \A i \in 1 .. Len(s) + 1 : r[i] =
             IF i < k THEN s[i] ELSE IF i = k THEN a ELSE s[i - 1]
  <2>1. s \in Seq(Alarm) /\ k \in 1 .. Len(s) + 1 /\ a \in Alarm
    BY <1>1, <1>3
  <2> HIDE DEF r
  <2>2. r = InsertAt(s, k, a)
    BY DEF r
  <2>3. /\ InsertAt(s, k, a) \in Seq(Alarm)
        /\ Len(InsertAt(s, k, a)) = Len(s) + 1
        /\ \A i \in 1 .. Len(s) + 1 : InsertAt(s, k, a)[i] =
               IF i < k THEN s[i] ELSE IF i = k THEN a ELSE s[i - 1]
    BY <2>1, InsertAtFacts
  <2> QED BY <2>2, <2>3
<1> HIDE DEF r
<1>6. /\ k \in Int /\ 1 <= k /\ k <= Len(s) + 1 /\ Len(s) \in Int /\ Len(r) = Len(s) + 1
      /\ \A i \in Int : i \in 1 .. Len(r) <=> 1 <= i /\ i <= Len(s) + 1
      /\ \A i \in Int : i \in 1 .. Len(s) <=> 1 <= i /\ i <= Len(s)
      /\ \A i \in 1 .. Len(r) : i \in Int
  BY <1>1, <1>3, <1>5
<1>7. /\ \A i \in 1 .. Len(r) : i < k => r[i] = s[i]
      /\ \A i \in 1 .. Len(r) : i > k => r[i] = s[i - 1]
      /\ k \in 1 .. Len(r) /\ r[k] = a
  BY <1>5, <1>6
<1>8. \A i \in 1 .. Len(s) : s[i] # a
  BY DEF Holds
<1>9. Distinct(r)
  <2>1. DEFINE from(i) == IF i < k THEN i ELSE i - 1
  <2>2. ASSUME NEW i \in 1 .. Len(r), i # k
        PROVE  from(i) \in 1 .. Len(s) /\ r[i] = s[from(i)]
    BY <1>6, <1>7, <2>2
  <2>3. ASSUME NEW i \in 1 .. Len(r), NEW j \in 1 .. Len(r), i # k, j # k, from(i) = from(j)
        PROVE  i = j
    BY <1>6, <2>3
  <2> HIDE DEF from
  <2> QED BY <1>1, <1>7, <1>8, <2>2, <2>3 DEF Distinct
<1>10. passed = 1 .. k - 1
  <2>1. s \in Seq(Alarm) /\ ~Holds(s, a)
    BY <1>1
  <2> QED BY <1>3, <2>1, PassedAre, ZenonT(30) DEF passed, new
<1>11. l = IF passed = {} THEN [head |-> a, next |-> [nxt EXCEPT ![a] = head]]
           ELSE [head |-> head,
                 next |-> [nxt EXCEPT ![s[Cardinality(passed)]] = a,
                                      ![a] = nxt[s[Cardinality(passed)]]]]
  <2>1. Pointers!Chain(head, nxt) = s
    BY ChainReads
  <2> QED BY <2>1, SameOperators DEF Pointers!linkAlarm, Pointers!List, Passed, l, passed
<1>12. ASSUME k = 1 PROVE l.next \in Links /\ IsChain(l.head, l.next, r)
  <2> DEFINE nx == [nxt EXCEPT ![a] = head]
  <2>1. l = [head |-> a, next |-> nx]
    BY <1>10, <1>11, <1>12
  <2>2. head \in Alarm \cup {None}
    <3>1. Len(s) # 0 => 1 \in 1 .. Len(s)
      BY <1>6
    <3> QED BY <1>1, <3>1 DEF IsChain
  <2>3. nx \in Links
    BY <2>2 DEF Links
  <2>4. nx[a] = head /\ \A b \in Alarm : b # a => nx[b] = nxt[b]
    BY DEF Links
  <2> HIDE DEF nx
  <2>5. a = r[1] /\ Len(r) # 0
    BY <1>6, <1>7, <1>12
  <2>6. \A i \in 1 .. Len(r) : nx[r[i]] = IF i = Len(r) THEN None ELSE r[i + 1]
    <3>1. SUFFICES ASSUME NEW i \in 1 .. Len(r)
                   PROVE  nx[r[i]] = IF i = Len(r) THEN None ELSE r[i + 1]
      OBVIOUS
    <3>2. ASSUME i # Len(r) PROVE r[i + 1] = s[i]
      <4>1. i + 1 \in 1 .. Len(r) /\ i + 1 > k /\ i + 1 - 1 = i
        BY <1>6, <1>12, <3>1, <3>2
      <4> QED BY <1>7, <4>1
    <3>3. CASE i = 1
      <4>1. nx[r[i]] = IF Len(s) = 0 THEN None ELSE s[1]
        BY <2>4, <2>5, <3>3 DEF IsChain
      <4> QED BY <1>6, <3>2, <3>3, <4>1
    <3>4. CASE i # 1
      <4>1. /\ i > k /\ i - 1 \in 1 .. Len(s) /\ (i = Len(r) <=> i - 1 = Len(s))
            /\ i - 1 + 1 = i
        BY <1>6, <1>12, <3>1, <3>4
      <4>2. nx[r[i]] = nxt[s[i - 1]]
        BY <1>1, <1>7, <1>8, <2>4, <4>1
      <4>3. nxt[s[i - 1]] = IF i - 1 = Len(s) THEN None ELSE s[i]
        BY <1>2, <4>1
      <4> QED BY <3>2, <4>1, <4>2, <4>3
    <3> QED BY <3>3, <3>4
  <2> QED BY <1>5, <1>9, <2>1, <2>3, <2>5, <2>6 DEF IsChain
<1>13. ASSUME k # 1 PROVE l.next \in Links /\ IsChain(l.head, l.next, r)
  <2> DEFINE nx == [nxt EXCEPT ![s[k - 1]] = a, ![a] = nxt[s[k - 1]]]
  <2>1. k - 1 \in Nat /\ k - 1 \in 1 .. Len(s) /\ k - 1 \in 1 .. k - 1
    BY <1>6, <1>13
  <2>2. Cardinality(passed) = k - 1 /\ passed # {}
    <3>1. Cardinality(1 .. k - 1) = k - 1
      BY <2>1, IntervalCount
    <3> QED BY <1>10, <2>1, <3>1
  <2>3. l = [head |-> head, next |-> nx]
    BY <1>11, <2>2
  <2>4. s[k - 1] \in Alarm /\ s[k - 1] # a /\ nxt[s[k - 1]] \in Alarm \cup {None}
    BY <1>1, <1>8, <2>1 DEF Links
  <2>5. nx \in Links
    BY <2>4 DEF Links
  <2>6. /\ nx[s[k - 1]] = a /\ nx[a] = nxt[s[k - 1]]
        /\ \A b \in Alarm : b # a /\ b # s[k - 1] => nx[b] = nxt[b]
    BY <2>4 DEF Links
  <2> HIDE DEF nx
  <2>7. head = r[1] /\ Len(r) # 0
    <3>1. 1 \in 1 .. Len(r) /\ 1 < k /\ Len(s) # 0
      BY <1>6, <1>13
    <3> QED BY <1>6, <1>7, <3>1 DEF IsChain
  <2>8. \A i \in 1 .. Len(r) : nx[r[i]] = IF i = Len(r) THEN None ELSE r[i + 1]
    <3>1. SUFFICES ASSUME NEW i \in 1 .. Len(r)
                   PROVE  nx[r[i]] = IF i = Len(r) THEN None ELSE r[i + 1]
      OBVIOUS
    <3>2. CASE i < k - 1
      <4>1. /\ i \in 1 .. Len(s) /\ i + 1 \in 1 .. Len(r) /\ i < k /\ i + 1 < k
            /\ i # Len(r) /\ i # Len(s) /\ i # k - 1
        BY <1>6, <3>1, <3>2
      <4>2. r[i] = s[i] /\ r[i + 1] = s[i + 1]
        BY <1>7, <3>1, <4>1
      <4>3. s[i] # s[k - 1] /\ s[i] \in Alarm /\ s[i] # a
        BY <1>1, <1>8, <2>1, <4>1
      <4> QED BY <1>2, <2>6, <4>1, <4>2, <4>3
    <3>3. CASE i = k - 1
      <4>1. i < k /\ i + 1 = k /\ i # Len(r)
        BY <1>6, <3>3
      <4>2. r[i] = s[k - 1] /\ r[i + 1] = a
        BY <1>7, <3>3, <4>1
      <4> QED BY <2>6, <4>1, <4>2
    <3>4. CASE i = k
      <4>1. nx[r[i]] = IF k - 1 = Len(s) THEN None ELSE s[k - 1 + 1]
        BY <1>2, <1>7, <2>1, <2>6, <3>4
      <4>2. ASSUME i # Len(r) PROVE r[i + 1] = s[k]
        <5>1. i + 1 \in 1 .. Len(r) /\ i + 1 > k /\ i + 1 - 1 = k
          BY <1>6, <3>1, <3>4, <4>2
        <5> QED BY <1>7, <5>1
      <4>3. k - 1 + 1 = k /\ (i = Len(r) <=> k - 1 = Len(s))
        BY <1>6, <3>4
      <4> QED BY <4>1, <4>2, <4>3
    <3>5. CASE i > k
      <4>1. /\ i - 1 \in 1 .. Len(s) /\ i - 1 # k - 1 /\ i - 1 + 1 = i
            /\ (i = Len(r) <=> i - 1 = Len(s))
        BY <1>6, <3>1, <3>5
      <4>2. r[i] = s[i - 1]
        BY <1>7, <3>1, <3>5
      <4>3. s[i - 1] # s[k - 1] /\ s[i - 1] \in Alarm /\ s[i - 1] # a
        BY <1>1, <1>8, <2>1, <4>1
      <4>4. nx[r[i]] = IF i - 1 = Len(s) THEN None ELSE s[i]
        BY <1>2, <2>6, <4>1, <4>2, <4>3, SMTT(20)
      <4>5. ASSUME i # Len(r) PROVE r[i + 1] = s[i]
        <5>1. i + 1 \in 1 .. Len(r) /\ i + 1 > k /\ i + 1 - 1 = i
          BY <1>6, <3>1, <3>5, <4>5
        <5> QED BY <1>7, <5>1
      <4> QED BY <4>1, <4>4, <4>5
    <3>6. i < k - 1 \/ i = k - 1 \/ i = k \/ i > k
      BY <1>6, <3>1
    <3> QED BY <3>2, <3>3, <3>4, <3>5, <3>6
  <2> QED BY <1>5, <1>9, <2>3, <2>5, <2>7, <2>8 DEF IsChain
<1>14. l.next \in Links /\ IsChain(l.head, l.next, r)
  BY <1>12, <1>13
<1> QED BY <1>4, <1>14 DEF l, new

LEMMA UnlinkIsList ==
    ASSUME NEW head, NEW nxt, NEW a
    PROVE  LET l == Pointers!unlinkAlarm(Pointers!List(head, nxt), a)
           IN  l = Pointers!List(l.head, l.next)
  BY DEF Pointers!unlinkAlarm, Pointers!List

-----------------------------------------------------------------------------
(* What holds of the list between any two steps. *)

Linked == Pointers!Chain(nextAlarm, next)

ListTypes ==
    /\ nextAlarm \in Alarm \cup {None}
    /\ next \in Links
    /\ listNanos \in [Alarm -> Nat]
    /\ listScheduled \in [Alarm -> BOOLEAN]
    /\ listCounter \in Nat
    /\ listTarget \in Nat \cup {None}
    /\ listRunning \in Alarm \cup {None}

\* The pointers form a list, and an alarm in it is marked as scheduled: schedule()
\* unlinks exactly those alarms, and would tie a loop with any other.
ListInv ==
    /\ ListTypes
    /\ IsChain(nextAlarm, next, Linked)
    /\ \A i \in 1 .. Len(Linked) : listScheduled[Linked[i]] = TRUE

\* The list after a step, if its pointers are known to form one.
LEMMA LinkedAfter ==
    ASSUME NEW s, IsChain(nextAlarm', next', s)
    PROVE  Linked' = s
  BY ChainReads DEF Linked

LEMMA ListInit == Pointers!Init => ListInv /\ Linked = <<>>
<1> SUFFICES ASSUME Pointers!Init PROVE ListInv /\ Linked = <<>>
  OBVIOUS
<1>1. IsChain(nextAlarm, next, <<>>)
  BY DEF Pointers!Init, IsChain, Distinct
<1>2. Linked = <<>>
  BY <1>1, ChainReads DEF Linked
<1>3. ListTypes
  BY DEF Pointers!Init, ListTypes, Links
<1> QED BY <1>1, <1>2, <1>3 DEF ListInv

LEMMA RefinesListCancel ==
    ASSUME ListInv, NEW a \in Alarm, Pointers!cancel(a)
    PROVE  ListInv' /\ Pointers!Queue!cancel(a)
<1> DEFINE l == Pointers!unlinkAlarm(Pointers!List(nextAlarm, next), a)
           q == unlinkAlarm(Linked, a)
<1>1. nextAlarm' = l.head /\ next' = l.next
  BY DEF Pointers!cancel, Pointers!IsList
<1>2. l.next \in Links /\ IsChain(l.head, l.next, q)
  BY UnlinkChain DEF ListInv, ListTypes
<1>3. Linked' = q /\ IsChain(nextAlarm', next', q)
  BY <1>1, <1>2, LinkedAfter
<1>4. \A b \in Alarm : Holds(q, b) <=> Holds(Linked, b) /\ b # a
  <2>1. [b \in Alarm |-> 0] \in [Alarm -> Nat]
    OBVIOUS
  <2>2. Linked \in Seq(Alarm) /\ Distinct(Linked)
    BY DEF ListInv, IsChain
  <2> QED BY <2>1, <2>2, UnlinkFacts
<1> HIDE DEF l, q
<1>5. ListTypes'
  <2>1. nextAlarm' \in Alarm \cup {None}
    <3>1. Len(q) \in Nat /\ q \in Seq(Alarm)
      BY <1>3 DEF IsChain
    <3> QED BY <1>3, <3>1 DEF IsChain
  <2>2. next' \in Links
    BY <1>1, <1>2
  <2> QED BY <2>1, <2>2 DEF ListInv, ListTypes, Pointers!cancel
<1>6. \A i \in 1 .. Len(q) : listScheduled'[q[i]] = TRUE
  <2>1. SUFFICES ASSUME NEW i \in 1 .. Len(q)
                 PROVE  listScheduled'[q[i]] = TRUE
    OBVIOUS
  <2>2. q[i] \in Alarm /\ Holds(q, q[i])
    BY <1>3 DEF IsChain, Holds
  <2>3. q[i] # a /\ Holds(Linked, q[i])
    BY <1>4, <2>2
  <2>4. listScheduled[q[i]] = TRUE
    BY <2>3 DEF Holds, ListInv
  <2> QED BY <2>2, <2>3, <2>4 DEF ListInv, ListTypes, Pointers!cancel
<1>7. ListInv'
  BY <1>3, <1>5, <1>6 DEF ListInv
<1>8. Pointers!Queue!cancel(a)
  <2>1. Pointers!Queue!unlinkAlarm(Pointers!Chain(nextAlarm, next), a) = q
    BY SameOperators DEF q, Linked
  <2>2. Pointers!Chain(nextAlarm, next)' = q
    BY <1>3 DEF Linked
  <2> QED BY <2>1, <2>2 DEF Pointers!cancel, Pointers!Queue!cancel, Pointers!CallerRuns,
                            Pointers!Queue!CallerRuns
<1> QED BY <1>7, <1>8

LEMMA RefinesListSchedule ==
    ASSUME ListInv, NEW a \in Alarm, NEW delta \in Deltas, Pointers!schedule(a, delta)
    PROVE  ListInv' /\ Pointers!Queue!schedule(a, delta)
<1> DEFINE old == Pointers!List(nextAlarm, next)
           rest == IF listScheduled[a] THEN Pointers!unlinkAlarm(old, a) ELSE old
           left == IF listScheduled[a] THEN unlinkAlarm(Linked, a) ELSE Linked
           due == listCounter + delta
           q == linkAlarm(left, listNanos, a, due)
           l == Pointers!linkAlarm(rest, [listNanos EXCEPT ![a] = due], a)
<1>1. /\ listNanos' = [listNanos EXCEPT ![a] = due]
      /\ nextAlarm' = l.head /\ next' = l.next
  BY DEF Pointers!schedule, Pointers!IsList
<1>2. due \in Nat
  BY DeltasAssumption DEF ListInv, ListTypes
<1>3. Linked \in Seq(Alarm) /\ Distinct(Linked) /\ IsChain(nextAlarm, next, Linked)
  BY DEF ListInv, IsChain
<1>4. /\ listScheduled[a] \in BOOLEAN /\ next \in Links /\ listNanos \in [Alarm -> Nat]
      /\ Holds(Linked, a) => listScheduled[a] = TRUE
  BY DEF ListInv, ListTypes, Holds
<1>5. /\ rest = Pointers!List(rest.head, rest.next) /\ rest.next \in Links
      /\ IsChain(rest.head, rest.next, left) /\ ~Holds(left, a)
      /\ \A b \in Alarm : Holds(left, b) => Holds(Linked, b)
  <2>1. CASE listScheduled[a] = TRUE
    <3> DEFINE u == Pointers!unlinkAlarm(old, a)
    <3>1. u = Pointers!List(u.head, u.next)
      BY UnlinkIsList
    <3>2. u.next \in Links /\ IsChain(u.head, u.next, unlinkAlarm(Linked, a))
      BY <1>3, <1>4, UnlinkChain
    <3>3. \A b \in Alarm : Holds(unlinkAlarm(Linked, a), b) <=> Holds(Linked, b) /\ b # a
      BY <1>3, <1>4, UnlinkFacts
    <3>4. rest = u /\ left = unlinkAlarm(Linked, a)
      BY <2>1
    <3> HIDE DEF u
    <3> QED BY <3>1, <3>2, <3>3, <3>4
  <2>2. CASE listScheduled[a] = FALSE
    <3>1. rest = old /\ left = Linked
      BY <2>2
    <3>2. old.head = nextAlarm /\ old.next = next /\ old = Pointers!List(old.head, old.next)
      BY DEF Pointers!List
    <3> HIDE DEF old
    <3> QED BY <1>3, <1>4, <2>2, <3>1, <3>2
  <2> QED BY <1>4, <2>1, <2>2
<1> HIDE DEF rest, left
<1>6. l.next \in Links /\ IsChain(l.head, l.next, q)
  <2>1. LET k == Pointers!linkAlarm(Pointers!List(rest.head, rest.next),
                                    [listNanos EXCEPT ![a] = due], a)
        IN  k.next \in Links /\ IsChain(k.head, k.next, linkAlarm(left, listNanos, a, due))
    <3> HIDE DEF due
    <3> QED BY <1>2, <1>4, <1>5, LinkChain
  <2> QED BY <1>5, <2>1
<1>7. Linked' = q /\ IsChain(nextAlarm', next', q)
  BY <1>1, <1>6, LinkedAfter
<1>8. \A b \in Alarm : Holds(q, b) => Holds(Linked, b) \/ b = a
  <2>1. \A i, j \in 1 .. Len(q) : q[i] = q[j] => i = j
    BY <1>7, ItemsOf
  <2>2. left \in Seq(Alarm)
    BY <1>5 DEF IsChain
  <2>3. \E i \in 1 .. Len(left) + 1 : IsLinkPosition(left, listNanos, due, i)
    BY <1>2, <1>4, <2>2, LinkPositionExists
  <2> DEFINE k == CHOOSE i \in 1 .. Len(left) + 1 : IsLinkPosition(left, listNanos, due, i)
  <2>4. k \in 1 .. Len(left) + 1 /\ q = InsertAt(left, k, a)
    BY <2>3 DEF linkAlarm
  <2> HIDE DEF k, q, due
  <2>5. /\ Len(q) = Len(left) + 1 /\ Len(left) \in Nat /\ k \in Int
        /\ \A i \in 1 .. Len(left) + 1 : q[i] =
               IF i < k THEN left[i] ELSE IF i = k THEN a ELSE left[i - 1]
    BY <2>2, <2>4, InsertAtFacts
  <2>6. ASSUME NEW b \in Alarm, Holds(q, b), b # a PROVE Holds(Linked, b)
    <3>1. PICK i \in 1 .. Len(q) : q[i] = b
      BY <2>6 DEF Holds
    <3>2. Holds(left, b)
      <4>1. CASE i < k
        <5>1. i \in 1 .. Len(left) /\ left[i] = b
          BY <2>4, <2>5, <3>1, <4>1
        <5> QED BY <5>1 DEF Holds
      <4>2. CASE i > k
        <5>1. i - 1 \in 1 .. Len(left) /\ left[i - 1] = b
          BY <2>4, <2>5, <3>1, <4>2
        <5> QED BY <5>1 DEF Holds
      <4>3. i # k
        BY <2>5, <2>6, <3>1
      <4> QED BY <2>5, <3>1, <4>1, <4>2, <4>3
    <3> QED BY <1>5, <3>2
  <2> QED BY <2>6
<1> HIDE DEF l, q
<1>9. ListTypes'
  <2>1. nextAlarm' \in Alarm \cup {None}
    <3>1. Len(q) \in Nat /\ q \in Seq(Alarm)
      BY <1>7 DEF IsChain
    <3> QED BY <1>7, <3>1 DEF IsChain
  <2>2. next' \in Links
    BY <1>1, <1>6
  <2>3. listNanos' \in [Alarm -> Nat]
    BY <1>1, <1>2, <1>4
  <2> QED BY <2>1, <2>2, <2>3 DEF ListInv, ListTypes, Pointers!schedule
<1>10. \A i \in 1 .. Len(q) : listScheduled'[q[i]] = TRUE
  <2>1. SUFFICES ASSUME NEW i \in 1 .. Len(q)
                 PROVE  listScheduled'[q[i]] = TRUE
    OBVIOUS
  <2>2. q[i] \in Alarm /\ Holds(q, q[i])
    BY <1>7 DEF IsChain, Holds
  <2>3. q[i] # a => listScheduled[q[i]] = TRUE
    BY <1>8, <2>2 DEF Holds, ListInv
  <2> QED BY <2>2, <2>3 DEF ListInv, ListTypes, Pointers!schedule
<1>11. ListInv'
  BY <1>7, <1>9, <1>10 DEF ListInv
<1>12. Pointers!Queue!schedule(a, delta)
  <2>1. Pointers!Chain(nextAlarm, next)' = q
    BY <1>7 DEF Linked
  <2>2. q = Pointers!Queue!linkAlarm(
                IF listScheduled[a]
                THEN Pointers!Queue!unlinkAlarm(Pointers!Chain(nextAlarm, next), a)
                ELSE Pointers!Chain(nextAlarm, next), listNanos, a, listCounter + delta)
    <3>1. left = IF listScheduled[a]
                 THEN Pointers!Queue!unlinkAlarm(Pointers!Chain(nextAlarm, next), a)
                 ELSE Pointers!Chain(nextAlarm, next)
      BY SameOperators DEF left, Linked
    <3> QED BY <3>1, SameOperators DEF q
  <2> QED BY <2>1, <2>2, <1>1 DEF Pointers!schedule, Pointers!Queue!schedule,
          Pointers!CallerRuns, Pointers!Queue!CallerRuns
<1> QED BY <1>11, <1>12

\* The head of the list is the head of the queue.
LEMMA HeadFacts ==
    ASSUME ListInv
    PROVE  /\ Linked \in Seq(Alarm)
           /\ nextAlarm = None <=> Linked = <<>>
           /\ Linked # <<>> => /\ nextAlarm = Head(Linked) /\ nextAlarm \in Alarm
                               /\ listNanos[nextAlarm] \in Nat
<1>1. Linked \in Seq(Alarm) /\ nextAlarm = IF Len(Linked) = 0 THEN None ELSE Linked[1]
  BY DEF ListInv, IsChain
<1>2. CASE Linked = <<>>
  BY <1>1, <1>2
<1>3. CASE Linked # <<>>
  <2>1. Len(Linked) # 0 /\ Head(Linked) = Linked[1] /\ Linked[1] \in Alarm
    BY <1>1, <1>3
  <2> QED BY <1>1, <1>3, <2>1, NoneAssumption DEF ListInv, ListTypes
<1> QED BY <1>2, <1>3

\* A step that leaves the pointers alone leaves the queue alone.
LEMMA SameList ==
    ASSUME ListInv, UNCHANGED <<nextAlarm, next, listNanos, listScheduled>>, ListTypes'
    PROVE  ListInv' /\ Linked' = Linked
<1>1. Linked' = Linked
  BY LinkedAfter DEF ListInv
<1> QED BY <1>1 DEF ListInv

LEMMA RefinesListFire ==
    ASSUME ListInv, Pointers!FireAlarm
    PROVE  ListInv' /\ Pointers!Queue!FireAlarm
<1>1. nextAlarm # None
  BY DEF Pointers!FireAlarm, Pointers!HeadIsDue
<1>2. /\ Linked \in Seq(Alarm) /\ Linked # <<>> /\ nextAlarm = Head(Linked)
      /\ nextAlarm \in Alarm /\ listNanos[nextAlarm] \in Nat
  BY <1>1, HeadFacts
<1> DEFINE q == Tail(Linked)
<1>3. /\ q \in Seq(Alarm) /\ Len(Linked) \in Nat /\ Len(q) = Len(Linked) - 1
      /\ \A i \in 1 .. Len(q) : q[i] = Linked[i + 1]
  BY <1>2
<1>4. /\ \A i \in 1 .. Len(Linked) :
             next[Linked[i]] = IF i = Len(Linked) THEN None ELSE Linked[i + 1]
      /\ \A i, j \in 1 .. Len(Linked) : Linked[i] = Linked[j] => i = j
      /\ \A i \in 1 .. Len(Linked) : Linked[i] \in Alarm
  BY ItemsOf DEF ListInv
<1>5. nextAlarm' = next[nextAlarm] /\ next' = next
  BY DEF Pointers!FireAlarm
<1> HIDE DEF q
<1>6. IsChain(nextAlarm', next', q)
  <2>1. \A i \in 1 .. Len(q) : i \in Int /\ i + 1 \in 1 .. Len(Linked)
    BY <1>3
  <2>2. Distinct(q)
    BY <1>3, <1>4, <2>1 DEF Distinct
  <2>3. nextAlarm' = IF Len(q) = 0 THEN None ELSE q[1]
    <3>1. nextAlarm = Linked[1] /\ 1 \in 1 .. Len(Linked)
      BY <1>2
    <3>2. nextAlarm' = IF 1 = Len(Linked) THEN None ELSE Linked[1 + 1]
      BY <1>4, <1>5, <3>1
    <3>3. Len(q) # 0 => 1 \in 1 .. Len(q)
      BY <1>3
    <3> QED BY <1>3, <3>2, <3>3
  <2>4. \A i \in 1 .. Len(q) : next'[q[i]] = IF i = Len(q) THEN None ELSE q[i + 1]
    <3>1. SUFFICES ASSUME NEW i \in 1 .. Len(q)
                   PROVE  next'[q[i]] = IF i = Len(q) THEN None ELSE q[i + 1]
      OBVIOUS
    <3>2. next'[q[i]] = IF i + 1 = Len(Linked) THEN None ELSE Linked[i + 1 + 1]
      BY <1>3, <1>4, <1>5, <2>1
    <3>3. i # Len(q) => i + 1 \in 1 .. Len(q)
      BY <1>3, <3>1
    <3> QED BY <1>3, <2>1, <3>2, <3>3
  <2> QED BY <1>3, <2>2, <2>3, <2>4 DEF IsChain
<1>7. Linked' = q
  BY <1>6, LinkedAfter
<1>8. ListTypes'
  BY <1>2, <1>5 DEF ListInv, ListTypes, Links, Pointers!FireAlarm
<1>9. \A i \in 1 .. Len(q) : listScheduled'[q[i]] = TRUE
  <2>1. \A i \in 1 .. Len(q) : i + 1 \in 1 .. Len(Linked) /\ q[i] = Linked[i + 1]
    BY <1>3
  <2> QED BY <2>1 DEF ListInv, Pointers!FireAlarm
<1>10. ListInv'
  BY <1>6, <1>7, <1>8, <1>9 DEF ListInv
<1>11. Pointers!Queue!FireAlarm
  BY <1>2, <1>7 DEF Linked, q, Pointers!FireAlarm, Pointers!HeadIsDue,
     Pointers!Queue!FireAlarm, Pointers!Queue!HeadIsDue
<1> QED BY <1>10, <1>11

LEMMA RefinesListTick ==
    ASSUME ListInv, Pointers!Tick
    PROVE  ListInv' /\ Pointers!Queue!Tick
<1>1. Pointers!nanosToNextAlarm = Pointers!Queue!nanosToNextAlarm
  BY HeadFacts DEF Linked, Pointers!nanosToNextAlarm, Pointers!Queue!nanosToNextAlarm
<1>2. PICK delta \in TickDeltas \cup {Pointers!nanosToNextAlarm} : Pointers!StartTick(delta)
  BY DEF Pointers!Tick
<1>3. listCounter + delta \in Nat
  <2>1. CASE delta \in TickDeltas
    BY <2>1, DeltasAssumption DEF ListInv, ListTypes
  <2>2. CASE delta = Pointers!nanosToNextAlarm
    BY <2>2, HeadFacts DEF Pointers!nanosToNextAlarm, ListInv, ListTypes
  <2> QED BY <1>2, <2>1, <2>2
<1>4. ListTypes'
  BY <1>2, <1>3 DEF Pointers!StartTick, Pointers!list, ListInv, ListTypes
<1>5. ListInv' /\ Linked' = Linked
  BY <1>2, <1>4, SameList DEF Pointers!StartTick, Pointers!list
<1>6. Pointers!Queue!StartTick(delta)
  BY <1>2, <1>5 DEF Linked, Pointers!StartTick, Pointers!list, Pointers!Queue!StartTick
<1> QED BY <1>1, <1>2, <1>5, <1>6 DEF Pointers!Queue!Tick

LEMMA RefinesListReturn ==
    ASSUME ListInv, Pointers!CallbackReturns
    PROVE  ListInv' /\ Pointers!Queue!CallbackReturns
<1>1. ListTypes'
  BY DEF Pointers!CallbackReturns, Pointers!list, ListInv, ListTypes
<1>2. ListInv' /\ Linked' = Linked
  BY <1>1, SameList DEF Pointers!CallbackReturns, Pointers!list
<1> QED BY <1>2 DEF Linked, Pointers!CallbackReturns, Pointers!list, Pointers!Queue!CallbackReturns

LEMMA RefinesListDone ==
    ASSUME ListInv, Pointers!TickDone
    PROVE  ListInv' /\ Pointers!Queue!TickDone
<1>1. listTarget \in Nat
  BY DEF Pointers!TickDone, ListInv, ListTypes
<1>2. ListTypes'
  BY <1>1 DEF Pointers!TickDone, Pointers!list, ListInv, ListTypes
<1>3. ListInv' /\ Linked' = Linked
  BY <1>2, SameList DEF Pointers!TickDone, Pointers!list
<1> QED BY <1>3, HeadFacts DEF Linked, Pointers!TickDone, Pointers!list, Pointers!HeadIsDue,
           Pointers!Queue!TickDone, Pointers!Queue!HeadIsDue

LEMMA ListStep ==
    ListInv /\ [Pointers!Next]_Pointers!vars =>
        ListInv' /\ [Pointers!Queue!Next]_Pointers!Queue!vars
<1> SUFFICES ASSUME ListInv, [Pointers!Next]_Pointers!vars
             PROVE  ListInv' /\ [Pointers!Queue!Next]_Pointers!Queue!vars
  OBVIOUS
<1>1. ASSUME NEW a \in Alarm, NEW delta \in Deltas, Pointers!schedule(a, delta)
      PROVE  ListInv' /\ Pointers!Queue!Next
  BY <1>1, RefinesListSchedule DEF Pointers!Queue!Next
<1>2. ASSUME NEW a \in Alarm, Pointers!cancel(a)
      PROVE  ListInv' /\ Pointers!Queue!Next
  BY <1>2, RefinesListCancel DEF Pointers!Queue!Next
<1>3. ASSUME Pointers!Tick PROVE ListInv' /\ Pointers!Queue!Next
  BY <1>3, RefinesListTick DEF Pointers!Queue!Next
<1>4. ASSUME Pointers!FireAlarm PROVE ListInv' /\ Pointers!Queue!Next
  BY <1>4, RefinesListFire DEF Pointers!Queue!Next
<1>5. ASSUME Pointers!CallbackReturns PROVE ListInv' /\ Pointers!Queue!Next
  BY <1>5, RefinesListReturn DEF Pointers!Queue!Next
<1>6. ASSUME Pointers!TickDone PROVE ListInv' /\ Pointers!Queue!Next
  BY <1>6, RefinesListDone DEF Pointers!Queue!Next
<1>7. ASSUME UNCHANGED Pointers!vars PROVE ListInv' /\ UNCHANGED Pointers!Queue!vars
  <2>1. ListTypes'
    BY <1>7 DEF Pointers!vars, ListInv, ListTypes
  <2>2. ListInv' /\ Linked' = Linked
    BY <1>7, <2>1, SameList DEF Pointers!vars
  <2> QED BY <1>7, <2>2 DEF Pointers!vars, Pointers!Queue!vars, Linked
<1> QED BY <1>1, <1>2, <1>3, <1>4, <1>5, <1>6, <1>7 DEF Pointers!Next

-----------------------------------------------------------------------------

\* Between any two steps of SimulationClock its pointers form a list of alarms,
\* each once and each marked as scheduled (linkAlarm, unlinkAlarm, tick).
THEOREM ListHolds == Pointers!Spec => []ListInv
<1>1. Pointers!Init => ListInv
  BY ListInit
<1>2. ListInv /\ [Pointers!Next]_Pointers!vars => ListInv'
  BY ListStep
<1> QED BY <1>1, <1>2, PTL DEF Pointers!Spec

\* The walks of linkAlarm and unlinkAlarm end after no more items than there are
\* alarms: no stale next pointer ever leads back into the list.
THEOREM WalksAlwaysEnd == Pointers!Spec => []WalksEnd
<1>1. ListInv => WalksEnd
  BY ChainReads DEF ListInv, WalksEnd, Pointers!WalksEnd
<1> QED BY <1>1, ListHolds, PTL

\* The pointers of SimulationClock implement the queue: every operation on them
\* is SimClock's operation on the sequence that the list reads as.
THEOREM ListIsQueue == Pointers!Spec => ImplementsQueue
<1>1. Pointers!Init => Pointers!Queue!Init
  <2>1. ASSUME Pointers!Init PROVE Pointers!Chain(nextAlarm, next) = <<>>
    BY <2>1, ListInit DEF Linked
  <2> QED BY <2>1 DEF Pointers!Init, Pointers!Queue!Init
<1>2. ListInv /\ [Pointers!Next]_Pointers!vars => [Pointers!Queue!Next]_Pointers!Queue!vars
  BY ListStep
<1>3. ImplementsQueue <=> Pointers!Queue!Spec
  BY DEF ImplementsQueue, Pointers!ImplementsQueue
<1> QED BY <1>1, <1>2, <1>3, ListHolds, PTL DEF Pointers!Spec, Pointers!Queue!Spec
=============================================================================

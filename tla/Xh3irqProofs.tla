---------------------------- MODULE Xh3irqProofs ----------------------------
(* Proofs about Xh3irq, for every set of interrupts, priorities and forceable *)
(* interrupts.  The stack of handlers and MEICONTEXT are two records of one   *)
(* history; the invariant says how each part of the one follows the other.    *)
EXTENDS Xh3irq, FiniteSetTheorems, SequenceTheorems, WellFoundedInduction, TLAPS

Candidate == [irq_number : Irq, priority : Prio]

-----------------------------------------------------------------------------
(* The inductive invariant. *)

\* Where a handler is that has been through GetIrq and serves what it found.
Serving == pc \in {"dispatch", "body", "disable"} \/ (pc = "exception" /\ mepc = "body")

\* Where the k-th handler may have broken in: SDK handlers run with MSTATUS.MIE set
\* only around the body.
BrokeInto(k) == IF k = 1 THEN {"main"} ELSE {"body", "disable"}

\* The stack is empty in the main program only, each handler knows where to return to,
\* and the one it broke into was serving an interrupt.
StackShape ==
    /\ stack = <<>> <=> pc = "main" \/ (pc = "exception" /\ mepc = "main")
    /\ pc = "exception" => mepc \in {"main", "body"}
    /\ pc = "save" => mepc \in BrokeInto(Len(stack))
    /\ pc # "save" /\ stack # <<>> => Frame.mepc \in BrokeInto(Len(stack))
    /\ pc \in {"restoreContext", "check", "mret"} => mepc = Frame.mepc
    /\ Serving /\ stack # <<>> => Frame.irq \in Irq
    /\ \A k \in 1 .. Len(stack) - 1 :
          stack[k].irq \in Irq /\ stack[k].mepc \in BrokeInto(k)

\* c is what the trap of the k-th handler left in MEICONTEXT: three levels, and the
\* interrupt of the handler that was broken into.
LeftByTrap(c, k) ==
    /\ c.preempt = Level(k) /\ c.ppreempt = Level(k - 1) /\ c.pppreempt = Level(k - 2)
    /\ c.mreteirq
    /\ k > 1 /\ ~IsSoft(stack[k - 1].irq) => c.irq = stack[k - 1].irq

\* Every frame holds that from SaveContext on; before that, and from RestoreContext
\* to mret, MEICONTEXT does.  An exception clears MRETEIRQ, so its mret restores nothing.
ContextsKept ==
    /\ \A k \in 1 .. Len(stack) :
          k < Len(stack) \/ pc \notin {"save", "saveContext"} => LeftByTrap(stack[k].context, k)
    /\ pc \in {"save", "saveContext", "check", "mret"} => LeftByTrap(meicontext, Len(stack))
    /\ Serving /\ stack # <<>> /\ ~IsSoft(Frame.irq) => meicontext.irq = Frame.irq
    /\ pc = "exception" => meicontext.mreteirq = FALSE

\* MEINEXT is the best candidate or hides one that could not preempt; it may be out of
\* date in no other way, though a trap and an mret change PPREEMPT and leave it.
NextShown ==
    /\ meinext # NOIRQ =>
          /\ meicand # <<>> /\ meinext = meicand[1].irq_number
          /\ meicand[1].priority >= meicontext.ppreempt
    /\ meinext = NOIRQ /\ meicand # <<>> => meicand[1].priority < meicontext.preempt
    /\ pc \in {"check", "mret"} /\ meinext = NOIRQ /\ meicand # <<>> =>
          meicand[1].priority < meicontext.ppreempt

\* DeliverableIsSeen, with what it is in the middle of executeInstruction.
Seen == mie /\ Deliverable => interruptsUpdated /\ ~checked

IInv ==
    /\ TypeOK /\ CandidatesExact
    /\ PreemptFollowsNesting /\ NestingClimbs
    /\ StackShape /\ ContextsKept /\ NextShown /\ Seen

-----------------------------------------------------------------------------
(* The arrays: what filter and sort keep. *)

Ordered(s) == \A j, k \in 1 .. Len(s) : j < k => Before(s[j], s[k])

\* Every non-empty set of naturals has a least element.
LEMMA LeastNumber ==
    ASSUME NEW T \in SUBSET Nat, T # {}
    PROVE  \E n \in T : \A m \in T : n <= m
<1> DEFINE Less == {ss \in Nat \X Nat : ss[1] < ss[2]}
<1>1. IsWellFoundedOn(Less, Nat)
  BY NatLessThanWellFounded DEF OpToRel
<1>2. \A n, m \in Nat : <<m, n>> \notin Less => n <= m
  OBVIOUS
<1> HIDE DEF Less
<1>3. PICK n \in T : \A m \in T : <<m, n>> \notin Less
  BY <1>1, WFMin, Zenon
<1>4. QED
  BY <1>2, <1>3

\* A strictly increasing map of 1 .. n onto itself leaves everything in its place.
LEMMA IncreasingIsIdentity ==
    ASSUME NEW n \in Nat, NEW f \in [1 .. n -> 1 .. n],
           \A j, k \in 1 .. n : j < k => f[j] < f[k],
           \A k \in 1 .. n : \E j \in 1 .. n : f[j] = k
    PROVE  \A j \in 1 .. n : f[j] = j
<1> DEFINE Moved == {j \in 1 .. n : f[j] # j}
<1> SUFFICES ASSUME Moved # {} PROVE FALSE
  OBVIOUS
<1>1. PICK j \in Moved : \A m \in Moved : j <= m
  <2>1. Moved \in SUBSET Nat
    OBVIOUS
  <2> HIDE DEF Moved
  <2>2. QED
    BY <2>1, LeastNumber
<1>2. PICK k \in 1 .. n : f[k] = j
  OBVIOUS
<1>3. CASE k < j
  BY <1>1, <1>2, <1>3
<1>4. CASE k > j
  <2>1. f[j] < j
    BY <1>2, <1>4
  <2>2. f[f[j]] = f[j]
    BY <1>1, <2>1
  <2>3. f[f[j]] < f[j]
    BY <2>1
  <2>4. QED
    BY <2>2, <2>3
<1>5. QED
  BY <1>1, <1>2, <1>3, <1>4

LEMMA IntervalFacts ==
    ASSUME NEW n \in Nat
    PROVE  IsFiniteSet(1 .. n) /\ Cardinality(1 .. n) = n
BY FS_Interval

\* filter keeps exactly what is not dropped, and the order.
LEMMA FilterFacts ==
    ASSUME NEW s \in Seq(Candidate), NEW D, NEW t \in filter(s, D)
    PROVE  /\ t \in Seq(Candidate)
           /\ \A j \in 1 .. Len(t) : \E k \in 1 .. Len(s) : t[j] = s[k] /\ s[k].irq_number \notin D
           /\ \A k \in 1 .. Len(s) : s[k].irq_number \notin D => \E j \in 1 .. Len(t) : t[j] = s[k]
           /\ Ordered(s) => Ordered(t)
           /\ (\A k \in 1 .. Len(s) : s[k].irq_number \notin D) => t = s
<1> DEFINE kept == {k \in DOMAIN s : s[k].irq_number \notin D}
           n == Cardinality(kept)
<1>1. IsFiniteSet(kept) /\ n \in Nat /\ kept \subseteq 1 .. Len(s)
  <2>1. IsFiniteSet(1 .. Len(s)) /\ kept \in SUBSET (1 .. Len(s))
    BY FS_Interval
  <2> HIDE DEF kept
  <2>2. IsFiniteSet(kept)
    BY <2>1, FS_Subset
  <2>3. QED
    BY <2>1, <2>2, FS_CardinalityType
<1>2. PICK at \in [1 .. n -> kept] :
        /\ \A j, k \in 1 .. n : j < k => at[j] < at[k]
        /\ t = [j \in 1 .. n |-> s[at[j]]]
  BY DEF filter
<1>3. at \in Injection(1 .. n, kept)
  <2>1. \A j \in 1 .. n : at[j] \in Int
    BY <1>1, <1>2
  <2>2. ASSUME NEW j \in 1 .. n, NEW k \in 1 .. n, at[j] = at[k], j # k
        PROVE  FALSE
    <3>1. j < k \/ k < j
      BY <1>1, <2>2
    <3>2. at[j] < at[k] \/ at[k] < at[j]
      BY <1>2, <3>1
    <3>3. QED
      BY <2>1, <2>2, <3>2
  <2>3. QED
    BY <1>2, <2>2 DEF Injection, IsInjective
<1>4. Cardinality(1 .. n) = n
  BY <1>1, FS_Interval
<1>5. \A k \in kept : \E j \in 1 .. n : at[j] = k
  <2> HIDE DEF kept
  <2>1. Cardinality(1 .. n) = Cardinality(kept)
    BY <1>4
  <2>2. at \in Surjection(1 .. n, kept)
    BY <1>1, <1>3, <2>1, FS_Injection
  <2>3. QED
    BY <2>2 DEF Surjection
<1>6. t \in Seq(Candidate) /\ Len(t) = n /\ \A j \in 1 .. n : at[j] \in 1 .. Len(s) /\ t[j] = s[at[j]]
  <2>1. \A j \in 1 .. n : at[j] \in 1 .. Len(s) /\ s[at[j]] \in Candidate
    BY <1>1, <1>2, SMTT(20)
  <2> HIDE DEF n
  <2>2. QED
    BY <1>1, <1>2, <2>1
<1>7. Ordered(s) => Ordered(t)
  BY <1>1, <1>2, <1>6 DEF Ordered
<1>8. ASSUME \A k \in 1 .. Len(s) : s[k].irq_number \notin D
      PROVE  t = s
  <2>1. kept = 1 .. Len(s)
    BY <1>8
  <2>2. n = Len(s)
    <3>1. Cardinality(1 .. Len(s)) = Len(s)
      BY IntervalFacts
    <3>2. QED
      BY <2>1, <3>1
  <2>3. \A j \in 1 .. n : at[j] = j
    BY <1>1, <1>2, <1>5, <2>1, <2>2, IncreasingIsIdentity
  <2>4. QED
    BY <1>2, <2>2, <2>3
<1>9. \A j \in 1 .. Len(t) : \E k \in 1 .. Len(s) : t[j] = s[k] /\ s[k].irq_number \notin D
  BY <1>2, <1>6
<1>10. ASSUME NEW k \in 1 .. Len(s), s[k].irq_number \notin D
       PROVE  \E j \in 1 .. Len(t) : t[j] = s[k]
  <2>1. k \in kept
    BY <1>10
  <2> HIDE DEF kept
  <2>2. PICK j \in 1 .. n : at[j] = k
    BY <1>5, <2>1
  <2>3. QED
    BY <1>6, <2>2
<1>11. QED
  BY <1>6, <1>7, <1>8, <1>9, <1>10

\* Sorting different interrupts puts them into order and loses none.
LEMMA SortFacts ==
    ASSUME NEW s \in Seq(Candidate), NEW t \in sort(s), Irq \subseteq Int, Prio \subseteq Int,
           \A j, k \in 1 .. Len(s) : j # k => s[j].irq_number # s[k].irq_number
    PROVE  /\ t \in Seq(Candidate)
           /\ \A j \in 1 .. Len(t) : \E k \in 1 .. Len(s) : t[j] = s[k]
           /\ \A k \in 1 .. Len(s) : \E j \in 1 .. Len(t) : t[j] = s[k]
           /\ Ordered(t)
<1> DEFINE n == Len(s)
<1>1. n \in Nat /\ IsFiniteSet(1 .. n)
  BY FS_Interval
<1>2. PICK p \in Bijection(1 .. n, 1 .. n) : t = [j \in 1 .. n |-> s[p[j]]]
  BY DEF sort
<1>3. p \in [1 .. n -> 1 .. n] /\ \A k \in 1 .. n : \E j \in 1 .. n : p[j] = k
  BY <1>2 DEF Bijection, Surjection
<1>5. \A j, k \in 1 .. n : j # k => p[j] # p[k]
  BY <1>2 DEF Bijection, Injection, IsInjective
<1>6. t \in Seq(Candidate) /\ Len(t) = n /\ \A j \in 1 .. n : t[j] = s[p[j]]
  <2>1. \A j \in 1 .. n : p[j] \in 1 .. n
    BY <1>3
  <2>2. \A j \in 1 .. n : s[j] \in Candidate
    OBVIOUS
  <2>3. QED
    BY <1>1, <1>2, <2>1, <2>2
<1>7. \A j, k \in 1 .. n : j < k => ~Before(t[k], t[j])
  BY DEF sort
<1>8. ASSUME NEW j \in 1 .. n, NEW k \in 1 .. n, j < k
      PROVE  Before(t[j], t[k])
  <2>1. t[j].irq_number # t[k].irq_number
    <3>1. p[j] \in 1 .. n /\ p[k] \in 1 .. n
      BY <1>3
    <3>2. j # k
      BY <1>1, <1>8
    <3>3. p[j] # p[k]
      BY <1>5, <3>2
    <3>4. QED
      BY <1>6, <3>1, <3>3
  <2>2. t[j] \in Candidate /\ t[k] \in Candidate
    BY <1>6
  <2>3. ~Before(t[k], t[j])
    BY <1>7, <1>8
  <2>4. /\ t[j].irq_number \in Int /\ t[k].irq_number \in Int
        /\ t[j].priority \in Int /\ t[k].priority \in Int
    BY <2>2 DEF Candidate
  <2>5. QED
    BY <2>1, <2>3, <2>4 DEF Before
<1>9. \A j \in 1 .. Len(t) : \E k \in 1 .. Len(s) : t[j] = s[k]
  BY <1>3, <1>6
<1>10. \A k \in 1 .. Len(s) : \E j \in 1 .. Len(t) : t[j] = s[k]
  BY <1>3, <1>6
<1>11. QED
  BY <1>6, <1>8, <1>9, <1>10 DEF Ordered

-----------------------------------------------------------------------------
(* The candidates: a sequence against the set it should list. *)

\* s lists the interrupts of S, each once, with their priorities in pr.
Lists(s, S, pr) ==
    /\ \A k \in 1 .. Len(s) : s[k].irq_number \in S /\ s[k].priority = pr[s[k].irq_number]
    /\ \A i \in S : \E k \in 1 .. Len(s) : s[k].irq_number = i
    /\ \A j, k \in 1 .. Len(s) : j # k => s[j].irq_number # s[k].irq_number

\* No interrupt of S is better than i.
IsBest(i, S, pr) ==
    /\ i \in S
    /\ \A j \in S : j # i => pr[i] > pr[j] \/ (pr[i] = pr[j] /\ i < j)

\* The numbers are numbers.
LEMMA Numbers ==
    /\ Irq \subseteq Int /\ Prio \subseteq Int /\ IsFiniteSet(Irq) /\ NOIRQ \notin Irq
    /\ \A p \in Prio : p \in 0 .. 15
<1>1. IsFiniteSet(0 .. 511) /\ Irq \in SUBSET (0 .. 511)
  <2>1. \A a, b \in Int : IsFiniteSet(a .. b)
    BY FS_Interval
  <2>2. 0 \in Int /\ 511 \in Int
    OBVIOUS
  <2>3. IsFiniteSet(0 .. 511)
    BY <2>1, <2>2, ZenonT(30)
  <2>4. QED
    BY <2>3, IrqAssumption
<1>2. IsFiniteSet(Irq)
  BY <1>1, FS_Subset, ZenonT(30)
<1>3. QED
  BY <1>2, IrqAssumption, PrioAssumption

\* In a list in order, no interrupt is twice.
LEMMA OrderedIsDistinct ==
    ASSUME NEW s \in Seq(Candidate), NEW pr, Ordered(s),
           \A k \in 1 .. Len(s) : s[k].priority = pr[s[k].irq_number]
    PROVE  \A j, k \in 1 .. Len(s) : j # k => s[j].irq_number # s[k].irq_number
<1> SUFFICES ASSUME NEW j \in 1 .. Len(s), NEW k \in 1 .. Len(s), j < k
             PROVE  s[j].irq_number # s[k].irq_number
  OBVIOUS
<1>1. Before(s[j], s[k])
  BY DEF Ordered
<1>2. s[j] \in Candidate /\ s[k] \in Candidate
  OBVIOUS
<1>3. /\ s[j].irq_number \in Int /\ s[k].irq_number \in Int
      /\ s[j].priority \in Int /\ s[k].priority \in Int
  BY <1>2, Numbers DEF Candidate
<1>4. QED
  BY <1>1, <1>3 DEF Before

LEMMA OrderedLists ==
    ASSUME NEW s \in Seq(Candidate), NEW S, NEW pr, Ordered(s),
           \A k \in 1 .. Len(s) : s[k].irq_number \in S /\ s[k].priority = pr[s[k].irq_number],
           \A i \in S : \E k \in 1 .. Len(s) : s[k].irq_number = i
    PROVE  Lists(s, S, pr)
<1>1. \A j, k \in 1 .. Len(s) : j # k => s[j].irq_number # s[k].irq_number
  BY OrderedIsDistinct
<1>2. QED
  BY <1>1 DEF Lists

\* CandidatesExact of any array, element by element.
Exact(s, S, pr) ==
    /\ {s[k].irq_number : k \in DOMAIN s} = S
    /\ \A k \in DOMAIN s : s[k].priority = pr[s[k].irq_number]
    /\ \A j, k \in DOMAIN s : j < k => Before(s[j], s[k])

LEMMA ExactFacts ==
    ASSUME NEW s \in Seq(Candidate), NEW S, NEW pr
    PROVE  Exact(s, S, pr) <=> Lists(s, S, pr) /\ Ordered(s)
<1>1. DOMAIN s = 1 .. Len(s)
  OBVIOUS
<1>2. {s[k].irq_number : k \in DOMAIN s} = S <=>
        /\ \A k \in 1 .. Len(s) : s[k].irq_number \in S
        /\ \A i \in S : \E k \in 1 .. Len(s) : s[k].irq_number = i
  BY <1>1
<1>3. Lists(s, S, pr) /\ Ordered(s) =>
        /\ {s[k].irq_number : k \in DOMAIN s} = S
        /\ \A k \in DOMAIN s : s[k].priority = pr[s[k].irq_number]
        /\ \A j, k \in DOMAIN s : j < k => Before(s[j], s[k])
  BY <1>1, <1>2 DEF Lists, Ordered
<1>4. ASSUME {s[k].irq_number : k \in DOMAIN s} = S,
             \A k \in DOMAIN s : s[k].priority = pr[s[k].irq_number],
             \A j, k \in DOMAIN s : j < k => Before(s[j], s[k])
      PROVE  Lists(s, S, pr) /\ Ordered(s)
  <2>1. Ordered(s)
    BY <1>1, <1>4 DEF Ordered
  <2>2. \A k \in 1 .. Len(s) : s[k].irq_number \in S /\ s[k].priority = pr[s[k].irq_number]
    BY <1>1, <1>2, <1>4
  <2>3. \A i \in S : \E k \in 1 .. Len(s) : s[k].irq_number = i
    BY <1>2, <1>4
  <2>4. QED
    BY <2>1, <2>2, <2>3, OrderedLists
<1>5. QED
  BY <1>3, <1>4 DEF Exact

\* The head of an ordered list is the best of what it lists.
LEMMA HeadIsBest ==
    ASSUME NEW s \in Seq(Candidate), NEW S \in SUBSET Irq, NEW pr \in [Irq -> Prio],
           Lists(s, S, pr), Ordered(s)
    PROVE  /\ s = <<>> <=> S = {}
           /\ s # <<>> => /\ IsBest(s[1].irq_number, S, pr)
                          /\ s[1].priority = pr[s[1].irq_number]
<1>1. s = <<>> <=> S = {}
  BY DEF Lists
<1>2. ASSUME s # <<>>
      PROVE  IsBest(s[1].irq_number, S, pr) /\ s[1].priority = pr[s[1].irq_number]
  <2>1. 1 \in 1 .. Len(s)
    BY <1>2
  <2>2. s[1].irq_number \in S /\ s[1].priority = pr[s[1].irq_number]
    BY <2>1 DEF Lists
  <2>3. ASSUME NEW j \in S, j # s[1].irq_number
        PROVE  \/ pr[s[1].irq_number] > pr[j]
               \/ pr[s[1].irq_number] = pr[j] /\ s[1].irq_number < j
    <3>1. PICK k \in 1 .. Len(s) : s[k].irq_number = j
      BY DEF Lists
    <3>2. Before(s[1], s[k])
      BY <2>1, <2>3, <3>1 DEF Ordered
    <3>3. s[k].priority = pr[j]
      BY <3>1 DEF Lists
    <3>4. QED
      BY <2>2, <3>1, <3>2, <3>3 DEF Before
  <2>4. QED
    BY <2>2, <2>3 DEF IsBest
<1>3. QED
  BY <1>1, <1>2

LEMMA BestIsUnique ==
    ASSUME NEW S \in SUBSET Irq, NEW pr \in [Irq -> Prio], NEW i, NEW j,
           IsBest(i, S, pr), IsBest(j, S, pr)
    PROVE  i = j
<1> SUFFICES ASSUME i # j PROVE FALSE
  OBVIOUS
<1>1. i \in Irq /\ j \in Irq /\ pr[i] \in Int /\ pr[j] \in Int
  BY Numbers DEF IsBest
<1>2. QED
  BY <1>1, Numbers DEF IsBest

\* filter takes its interrupts off the list.
LEMMA FilterLists ==
    ASSUME NEW s \in Seq(Candidate), NEW S \in SUBSET Irq, NEW pr \in [Irq -> Prio], NEW D,
           Lists(s, S, pr), Ordered(s), NEW t \in filter(s, D)
    PROVE  t \in Seq(Candidate) /\ Lists(t, S \ D, pr) /\ Ordered(t)
<1>1. /\ t \in Seq(Candidate) /\ Ordered(t)
      /\ \A j \in 1 .. Len(t) : \E k \in 1 .. Len(s) : t[j] = s[k] /\ s[k].irq_number \notin D
      /\ \A k \in 1 .. Len(s) : s[k].irq_number \notin D => \E j \in 1 .. Len(t) : t[j] = s[k]
  BY FilterFacts
<1>2. \A k \in 1 .. Len(t) : t[k].irq_number \in S \ D /\ t[k].priority = pr[t[k].irq_number]
  BY <1>1 DEF Lists
<1>3. ASSUME NEW i \in S \ D
      PROVE  \E k \in 1 .. Len(t) : t[k].irq_number = i
  <2>1. PICK k \in 1 .. Len(s) : s[k].irq_number = i
    BY DEF Lists
  <2>2. QED
    BY <1>1, <2>1
<1>4. QED
  BY <1>1, <1>2, <1>3, OrderedLists

\* sort only puts a list into order.
LEMMA SortLists ==
    ASSUME NEW s \in Seq(Candidate), NEW S, NEW pr, Lists(s, S, pr), NEW t \in sort(s)
    PROVE  t \in Seq(Candidate) /\ Lists(t, S, pr) /\ Ordered(t)
<1>1. /\ t \in Seq(Candidate) /\ Ordered(t)
      /\ \A j \in 1 .. Len(t) : \E k \in 1 .. Len(s) : t[j] = s[k]
      /\ \A k \in 1 .. Len(s) : \E j \in 1 .. Len(t) : t[j] = s[k]
  <2>1. \A j, k \in 1 .. Len(s) : j # k => s[j].irq_number # s[k].irq_number
    BY DEF Lists
  <2>2. QED
    BY <2>1, SortFacts, Numbers
<1>2. ASSUME NEW j \in 1 .. Len(t)
      PROVE  t[j].irq_number \in S /\ t[j].priority = pr[t[j].irq_number]
  <2>1. PICK k \in 1 .. Len(s) : t[j] = s[k]
    BY <1>1
  <2>2. QED
    BY <2>1 DEF Lists
<1>3. ASSUME NEW i \in S
      PROVE  \E k \in 1 .. Len(t) : t[k].irq_number = i
  <2>1. PICK k \in 1 .. Len(s) : s[k].irq_number = i
    BY DEF Lists
  <2>2. QED
    BY <1>1, <2>1
<1>4. QED
  BY <1>1, <1>2, <1>3, OrderedLists

NewCandidates(A, pr) == {[irq_number |-> i, priority |-> pr[i]] : i \in A}

\* What is appended for the interrupts of A lists A.
LEMMA AddedLists ==
    ASSUME NEW A \in SUBSET Irq, NEW pr \in [Irq -> Prio],
           NEW q, q = SetToSeq(NewCandidates(A, pr))
    PROVE  q \in Seq(Candidate) /\ Lists(q, A, pr)
<1> DEFINE Cand == {[irq_number |-> i, priority |-> pr[i]] : i \in A}
           n == Cardinality(Cand)
           f == [i \in A |-> [irq_number |-> i, priority |-> pr[i]]]
<1>1. IsFiniteSet(Cand) /\ n \in Nat
  <2>1. IsFiniteSet(A)
    BY Numbers, FS_Subset
  <2>2. f \in Surjection(A, Cand)
    BY DEF Surjection
  <2> HIDE DEF f, Cand
  <2>3. IsFiniteSet(Cand)
    BY <2>1, <2>2, FS_Surjection
  <2>4. QED
    BY <2>3, FS_CardinalityType
<1>2. q \in Injection(1 .. n, Cand)
  <2> HIDE DEF Cand
  <2>1. PICK g : g \in Bijection(1 .. n, Cand)
    BY <1>1, FS_CardinalityType DEF ExistsBijection
  <2>2. g \in [1 .. n -> Cand] /\ IsInjective(g)
    BY <2>1 DEF Bijection, Injection
  <2>3. q = CHOOSE h \in [1 .. n -> Cand] : IsInjective(h)
    BY DEF SetToSeq, Cand, NewCandidates
  <2>4. q \in [1 .. n -> Cand] /\ IsInjective(q)
    BY <2>2, <2>3
  <2>5. QED
    BY <2>4 DEF Injection
<1>3. q \in [1 .. n -> Cand] /\ \A j, k \in 1 .. n : q[j] = q[k] => j = k
  BY <1>2 DEF Injection, IsInjective
<1>4. \A c \in Cand : \E k \in 1 .. n : q[k] = c
  <2>1. Cardinality(1 .. n) = n
    BY <1>1, IntervalFacts
  <2> HIDE DEF Cand
  <2>2. q \in Surjection(1 .. n, Cand)
    BY <1>1, <1>2, <2>1, FS_Injection
  <2>3. QED
    BY <2>2 DEF Surjection
<1>5. Cand \subseteq Candidate
  BY DEF Candidate
<1>6. q \in Seq(Candidate) /\ Len(q) = n
  <2> HIDE DEF n, Cand
  <2>1. QED
    BY <1>1, <1>3, <1>5
<1>7. \A k \in 1 .. n :
        q[k] \in Cand /\ q[k].irq_number \in A /\ q[k].priority = pr[q[k].irq_number]
  <2>1. \A c \in Cand : c.irq_number \in A /\ c.priority = pr[c.irq_number]
    OBVIOUS
  <2> HIDE DEF Cand
  <2>2. QED
    BY <1>3, <2>1
<1>8. ASSUME NEW i \in A
      PROVE  \E k \in 1 .. n : q[k].irq_number = i
  <2>1. [irq_number |-> i, priority |-> pr[i]] \in Cand
    OBVIOUS
  <2> HIDE DEF Cand
  <2>2. QED
    BY <1>4, <2>1
<1>9. ASSUME NEW j \in 1 .. n, NEW k \in 1 .. n, q[j].irq_number = q[k].irq_number
      PROVE  j = k
  <2>1. \A c, d \in Cand : c.irq_number = d.irq_number => c = d
    OBVIOUS
  <2> HIDE DEF Cand
  <2>2. q[j] = q[k]
    BY <1>7, <1>9, <2>1
  <2>3. QED
    BY <1>3, <2>2
<1>10. QED
  BY <1>6, <1>7, <1>8, <1>9 DEF Lists

\* Two lists in a row.
LEMMA ConcatLists ==
    ASSUME NEW s \in Seq(Candidate), NEW S, NEW q \in Seq(Candidate), NEW A, NEW pr,
           Lists(s, S, pr), Lists(q, A, pr), S \cap A = {}
    PROVE  s \o q \in Seq(Candidate) /\ Lists(s \o q, S \cup A, pr)
<1> DEFINE t == s \o q
<1>1. /\ t \in Seq(Candidate) /\ Len(t) = Len(s) + Len(q)
      /\ \A k \in 1 .. Len(s) : t[k] = s[k]
      /\ \A k \in 1 .. Len(q) : t[Len(s) + k] = q[k]
  OBVIOUS
<1>2. \A k \in 1 .. Len(t) :
        \/ k \in 1 .. Len(s) /\ t[k] = s[k]
        \/ k - Len(s) \in 1 .. Len(q) /\ t[k] = q[k - Len(s)]
  <2> TAKE k \in 1 .. Len(t)
  <2>1. CASE k <= Len(s)
    BY <1>1, <2>1
  <2>2. CASE k > Len(s)
    <3>1. k - Len(s) \in 1 .. Len(q) /\ k = Len(s) + (k - Len(s))
      BY <1>1, <2>2
    <3>2. QED
      BY <1>1, <3>1
  <2>3. QED
    BY <1>1, <2>1, <2>2
<1> HIDE DEF t
<1>3. ASSUME NEW k \in 1 .. Len(t)
      PROVE  t[k].irq_number \in S \cup A /\ t[k].priority = pr[t[k].irq_number]
  <2>1. CASE k \in 1 .. Len(s) /\ t[k] = s[k]
    BY <2>1 DEF Lists
  <2>2. CASE k - Len(s) \in 1 .. Len(q) /\ t[k] = q[k - Len(s)]
    BY <2>2 DEF Lists
  <2>3. QED
    BY <1>2, <2>1, <2>2
<1>4. ASSUME NEW i \in S \cup A
      PROVE  \E k \in 1 .. Len(t) : t[k].irq_number = i
  <2>1. CASE i \in S
    <3>1. PICK k \in 1 .. Len(s) : s[k].irq_number = i
      BY <2>1 DEF Lists
    <3>2. k \in 1 .. Len(t) /\ t[k].irq_number = i
      BY <1>1, <3>1
    <3>3. QED
      BY <3>2
  <2>2. CASE i \in A
    <3>1. PICK k \in 1 .. Len(q) : q[k].irq_number = i
      BY <2>2 DEF Lists
    <3>2. Len(s) + k \in 1 .. Len(t) /\ t[Len(s) + k].irq_number = i
      BY <1>1, <3>1
    <3>3. QED
      BY <3>2
  <2>3. QED
    BY <2>1, <2>2
<1>5. ASSUME NEW j \in 1 .. Len(t), NEW k \in 1 .. Len(t), j # k
      PROVE  t[j].irq_number # t[k].irq_number
  <2>1. CASE j \in 1 .. Len(s) /\ t[j] = s[j] /\ k \in 1 .. Len(s) /\ t[k] = s[k]
    BY <1>5, <2>1 DEF Lists
  <2>2. CASE /\ j - Len(s) \in 1 .. Len(q) /\ t[j] = q[j - Len(s)]
             /\ k - Len(s) \in 1 .. Len(q) /\ t[k] = q[k - Len(s)]
    <3>1. j - Len(s) # k - Len(s)
      BY <1>1, <1>5
    <3>2. QED
      BY <2>2, <3>1, SMTT(20) DEF Lists
  <2>3. CASE /\ j \in 1 .. Len(s) /\ t[j] = s[j]
             /\ k - Len(s) \in 1 .. Len(q) /\ t[k] = q[k - Len(s)]
    BY <2>3 DEF Lists
  <2>4. CASE /\ k \in 1 .. Len(s) /\ t[k] = s[k]
             /\ j - Len(s) \in 1 .. Len(q) /\ t[j] = q[j - Len(s)]
    BY <2>4 DEF Lists
  <2>5. QED
    BY <1>2, <2>1, <2>2, <2>3, <2>4
<1>6. Lists(t, S \cup A, pr)
  BY <1>3, <1>4, <1>5 DEF Lists
<1>7. QED
  BY <1>1, <1>6 DEF t

\* Some interrupts are taken off the list, others are put on it, and it is sorted.
LEMMA UpdatedLists ==
    ASSUME NEW s \in Seq(Candidate), NEW S \in SUBSET Irq, NEW D, NEW A \in SUBSET Irq,
           NEW pr \in [Irq -> Prio], NEW new \in [Irq -> Prio],
           Lists(s, S, pr), Ordered(s), (S \ D) \cap A = {}, \A i \in S \ D : new[i] = pr[i],
           NEW kept \in filter(s, D),
           NEW t \in sort(kept \o SetToSeq(NewCandidates(A, new)))
    PROVE  t \in Seq(Candidate) /\ Lists(t, (S \ D) \cup A, new) /\ Ordered(t)
<1> DEFINE q == SetToSeq(NewCandidates(A, new))
<1>1. kept \in Seq(Candidate) /\ Lists(kept, S \ D, pr) /\ Ordered(kept)
  BY FilterLists
<1>2. Lists(kept, S \ D, new)
  BY <1>1 DEF Lists
<1>3. q \in Seq(Candidate) /\ Lists(q, A, new)
  BY AddedLists
<1>4. t \in sort(kept \o q)
  OBVIOUS
<1> HIDE DEF q
<1>5. kept \o q \in Seq(Candidate) /\ Lists(kept \o q, (S \ D) \cup A, new)
  BY <1>1, <1>2, <1>3, ConcatLists
<1>6. QED
  BY <1>4, <1>5, SortLists

\* A list of fewer interrupts has no better head; one of the same has the same head.
LEMMA Heads ==
    ASSUME NEW s \in Seq(Candidate), NEW S \in SUBSET Irq, NEW pr \in [Irq -> Prio],
           Lists(s, S, pr), Ordered(s),
           NEW t \in Seq(Candidate), NEW T \in SUBSET S, NEW new \in [Irq -> Prio],
           Lists(t, T, new), Ordered(t), \A i \in T : new[i] = pr[i]
    PROVE  /\ t # <<>> => s # <<>> /\ t[1].priority <= s[1].priority
           /\ T = S => /\ t = <<>> <=> s = <<>>
                       /\ t # <<>> => /\ t[1].irq_number = s[1].irq_number
                                      /\ t[1].priority = s[1].priority
<1>1. /\ s = <<>> <=> S = {}
      /\ s # <<>> => /\ IsBest(s[1].irq_number, S, pr)
                     /\ s[1].priority = pr[s[1].irq_number]
  BY HeadIsBest
<1>2. /\ t = <<>> <=> T = {}
      /\ t # <<>> => /\ IsBest(t[1].irq_number, T, new)
                     /\ t[1].priority = new[t[1].irq_number]
  BY HeadIsBest
<1>3. \A i \in Irq : pr[i] \in Int
  BY Numbers
<1>4. ASSUME t # <<>>
      PROVE  s # <<>> /\ t[1].priority <= s[1].priority
  <2>1. t[1].irq_number \in T
    BY <1>2, <1>4 DEF IsBest
  <2>2. s # <<>> /\ t[1].irq_number \in S /\ s[1].irq_number \in S
    BY <1>1, <2>1 DEF IsBest
  <2>3. pr[t[1].irq_number] <= pr[s[1].irq_number]
    <3>1. pr[t[1].irq_number] \in Int /\ pr[s[1].irq_number] \in Int
      BY <1>3, <2>2
    <3>2. CASE t[1].irq_number = s[1].irq_number
      BY <3>1, <3>2
    <3>3. CASE t[1].irq_number # s[1].irq_number
      BY <1>1, <2>2, <3>1, <3>3, SMTT(20) DEF IsBest
    <3>4. QED
      BY <3>2, <3>3
  <2>4. QED
    BY <1>1, <1>2, <1>4, <2>1, <2>2, <2>3
<1>5. ASSUME T = S, t # <<>>
      PROVE  t[1].irq_number = s[1].irq_number /\ t[1].priority = s[1].priority
  <2>1. IsBest(t[1].irq_number, S, pr) /\ IsBest(s[1].irq_number, S, pr)
    BY <1>1, <1>2, <1>5 DEF IsBest
  <2>2. t[1].irq_number = s[1].irq_number
    BY <2>1, BestIsUnique
  <2>3. t[1].irq_number \in T
    BY <1>2, <1>5 DEF IsBest
  <2>4. QED
    BY <1>1, <1>2, <1>4, <1>5, <2>2, <2>3
<1>6. QED
  BY <1>1, <1>2, <1>4, <1>5

-----------------------------------------------------------------------------
(* What a change of the arrays does to MEINEXT and to the head. *)

\* MEINEXT as updateMEINEXT leaves it.
Fresh ==
    meinext = IF meicand # <<>> /\ meicand[1].priority >= meicontext.ppreempt
              THEN meicand[1].irq_number
              ELSE NOIRQ

SameHead ==
    /\ meicand' = <<>> <=> meicand = <<>>
    /\ meicand' # <<>> => /\ meicand'[1].irq_number = meicand[1].irq_number
                          /\ meicand'[1].priority = meicand[1].priority

NoBetterHead ==
    meicand' # <<>> => meicand # <<>> /\ meicand'[1].priority <= meicand[1].priority

\* The arrays agree again, MEINEXT has been seen to if the head changed, and so has
\* interruptsUpdated if it is a better one.
ArraysFollowed ==
    /\ meipa' \subseteq Irq /\ meicand' \in Seq(Candidate)
    /\ CandidatesExact'
    /\ Fresh' \/ (SameHead /\ UNCHANGED meinext)
    /\ interruptsUpdated' \in BOOLEAN
    /\ interruptsUpdated => interruptsUpdated'
    /\ interruptsUpdated' \/ NoBetterHead

LEMMA CandidatesExactFacts ==
    /\ CandidatesExact <=> Exact(meicand, meiea \cap meipa, meipra)
    /\ CandidatesExact' <=> Exact(meicand', meiea' \cap meipa', meipra')
BY DEF CandidatesExact, Exact

LEMMA SetInterruptsFollowed ==
    ASSUME TypeOK, CandidatesExact, NEW lower \in SUBSET Irq, NEW raise \in SUBSET Irq,
           setInterrupts(lower, raise), UNCHANGED meiea,
           meipra' \in [Irq -> Prio], \A i \in meipa \ lower : meipra'[i] = meipra[i]
    PROVE  ArraysFollowed
<1> DEFINE dropped == lower \cap meipa
           added == {i \in raise \cap meiea' : i \notin meipa \ dropped}
           S == meiea \cap meipa
<1>1. /\ meicand \in Seq(Candidate) /\ meiea \subseteq Irq /\ meipa \subseteq Irq
      /\ meipra \in [Irq -> Prio] /\ interruptsUpdated \in BOOLEAN
  BY DEF TypeOK, Candidate
<1>2. Lists(meicand, S, meipra) /\ Ordered(meicand)
  BY <1>1, CandidatesExactFacts, ExactFacts
<1>3. /\ meipa' = (meipa \ dropped) \cup added
      /\ IF dropped \cup added # {} THEN updateMEINEXT ELSE UNCHANGED meinext
      /\ interruptsUpdated' = (interruptsUpdated \/ added # {})
  BY DEF setInterrupts
<1>4. PICK kept \in filter(meicand, dropped) :
        meicand' \in sort(kept \o SetToSeq(NewCandidates(added, meipra')))
  BY DEF setInterrupts, NewCandidates
<1>5. /\ added \in SUBSET Irq /\ (S \ dropped) \cap added = {} /\ S \in SUBSET Irq
      /\ \A i \in S \ dropped : meipra'[i] = meipra[i]
      /\ meiea' \cap meipa' = (S \ dropped) \cup added
  BY <1>1, <1>3
<1> HIDE DEF dropped, added, S
<1>6. /\ meicand' \in Seq(Candidate) /\ Ordered(meicand')
      /\ Lists(meicand', (S \ dropped) \cup added, meipra')
  BY <1>1, <1>2, <1>4, <1>5, UpdatedLists
<1>7. CandidatesExact'
  <2>1. Exact(meicand', meiea' \cap meipa', meipra')
    BY <1>5, <1>6, ExactFacts
  <2>2. QED
    BY <2>1, CandidatesExactFacts
<1>8. ASSUME added = {}
      PROVE  NoBetterHead /\ (dropped = {} => SameHead)
  <2> DEFINE T == S \ dropped
  <2>1. Lists(meicand', T, meipra')
    BY <1>6, <1>8
  <2>2. T \in SUBSET S /\ (dropped = {} => T = S) /\ \A i \in T : meipra'[i] = meipra[i]
    BY <1>5
  <2> HIDE DEF T
  <2>3. /\ meicand' # <<>> => meicand # <<>> /\ meicand'[1].priority <= meicand[1].priority
        /\ T = S => /\ meicand' = <<>> <=> meicand = <<>>
                    /\ meicand' # <<>> => /\ meicand'[1].irq_number = meicand[1].irq_number
                                          /\ meicand'[1].priority = meicand[1].priority
    BY <1>1, <1>2, <1>5, <1>6, <2>1, <2>2, Heads
  <2>4. QED
    BY <2>2, <2>3 DEF NoBetterHead, SameHead
<1>9. updateMEINEXT => Fresh'
  BY DEF updateMEINEXT, Fresh
<1>10. meipa' \subseteq Irq
  BY <1>1, <1>3, <1>5
<1>11. QED
  BY <1>1, <1>3, <1>6, <1>7, <1>8, <1>9, <1>10 DEF ArraysFollowed

-----------------------------------------------------------------------------
(* Steps that leave the stack of handlers alone. *)

\* What is known of a candidate and of a frame.
LEMMA ElementFacts ==
    /\ \A s \in Seq(Candidate) :
          s # <<>> => /\ s[1] \in Candidate /\ s[1].priority \in 0 .. 15
                     /\ s[1].irq_number \in Irq /\ s[1].irq_number # NOIRQ
    /\ \A s \in Seq(Frames) : \A k \in 1 .. Len(s) :
          /\ s[k] \in Frames /\ s[k].level \in 1 .. 16 /\ s[k].mepc \in Locations
          /\ s[k].context \in Contexts /\ s[k].irq \in Irq \cup {NOIRQ}
<1>1. \A s \in Seq(Candidate) : s # <<>> => s[1] \in Candidate
  OBVIOUS
<1>2. \A c \in Candidate : c.priority \in 0 .. 15 /\ c.irq_number \in Irq /\ c.irq_number # NOIRQ
  BY Numbers DEF Candidate
<1>3. \A s \in Seq(Frames) : \A k \in 1 .. Len(s) : s[k] \in Frames
  OBVIOUS
<1>4. \A f \in Frames : /\ f.level \in 1 .. 16 /\ f.mepc \in Locations
                        /\ f.context \in Contexts /\ f.irq \in Irq \cup {NOIRQ}
  BY DEF Frames
<1>5. QED
  BY <1>1, <1>2, <1>3, <1>4

LEMMA LevelsOrdered ==
    ASSUME TypeOK, PreemptFollowsNesting, NestingClimbs
    PROVE  /\ meicontext.ppreempt <= meicontext.preempt
           /\ stack # <<>> => meicontext.ppreempt < meicontext.preempt
<1>1. stack \in Seq(Frames) /\ \A k \in 1 .. Len(stack) : stack[k].level \in 1 .. 16
  BY ElementFacts DEF TypeOK
<1>2. CASE stack = <<>>
  BY <1>2 DEF PreemptFollowsNesting, Level
<1>3. CASE Len(stack) = 1
  BY <1>1, <1>3 DEF PreemptFollowsNesting, Level
<1>4. CASE Len(stack) > 1
  <2>1. Len(stack) \in 2 .. Len(stack) /\ Len(stack) - 1 \in 1 .. Len(stack)
    BY <1>1, <1>4
  <2>2. stack[Len(stack) - 1].level < stack[Len(stack)].level
    BY <2>1 DEF NestingClimbs
  <2>3. /\ meicontext.preempt = stack[Len(stack)].level
        /\ meicontext.ppreempt = stack[Len(stack) - 1].level
    BY <1>1, <1>4, <2>1 DEF PreemptFollowsNesting, Level
  <2>4. stack[Len(stack)].level \in 1 .. 16 /\ stack[Len(stack) - 1].level \in 1 .. 16
    <3>1. \A k \in 1 .. Len(stack) : stack[k].level \in 1 .. 16
      BY <1>1
    <3>2. Len(stack) \in 1 .. Len(stack) /\ Len(stack) - 1 \in 1 .. Len(stack)
      BY <2>1, <1>4
    <3>3. QED
      BY <3>1, <3>2, Zenon
  <2>5. meicontext.ppreempt < meicontext.preempt
    BY <2>2, <2>3
  <2>6. meicontext.ppreempt \in Int /\ meicontext.preempt \in Int
    BY DEF TypeOK, Contexts
  <2>7. QED
    BY <2>5, <2>6
<1>5. stack = <<>> \/ Len(stack) = 1 \/ Len(stack) > 1
  <2>1. stack \in Seq(Frames)
    BY <1>1
  <2>2. stack # <<>> => Len(stack) \in Nat \ {0}
    BY <2>1, EmptySeq
  <2>3. QED
    BY <2>2
<1>6. QED
  BY <1>2, <1>3, <1>4, <1>5

LEMMA FreshShows ==
    TypeOK /\ PreemptFollowsNesting /\ NestingClimbs /\ Fresh => NextShown
<1> SUFFICES ASSUME TypeOK, PreemptFollowsNesting, NestingClimbs, Fresh PROVE NextShown
  OBVIOUS
<1>1. /\ meicand \in Seq(Candidate)
      /\ meicontext.preempt \in Int /\ meicontext.ppreempt \in Int
      /\ meicontext.ppreempt <= meicontext.preempt
  BY LevelsOrdered DEF TypeOK, Candidate, Contexts
<1>2. meicand # <<>> => meicand[1].irq_number # NOIRQ /\ meicand[1].priority \in Int
  <2>1. meicand # <<>> => meicand[1] \in Candidate
    BY <1>1
  <2>2. QED
    BY <2>1, Numbers DEF Candidate
<1>3. QED
  BY <1>1, <1>2 DEF Fresh, NextShown

LEMMA SameHeadShows ==
    ASSUME TypeOK, NextShown, SameHead, UNCHANGED <<meinext, meicontext>>,
           pc' \in {"check", "mret"} => pc \in {"check", "mret"}
    PROVE  NextShown'
BY DEF NextShown, SameHead

\* The firmware stays where it is, or comes to the end of a handler's body.
Onward ==
    /\ UNCHANGED <<meicontext, mepc, stack>>
    /\ UNCHANGED pc \/ (pc = "body" /\ pc' = "disable")

\* It goes on in the same handler, around the body.
SameHandler ==
    /\ UNCHANGED <<meicontext, mepc, stack>>
    /\ \/ UNCHANGED pc
       \/ pc = "dispatch" /\ pc' = "body"
       \/ pc = "body" /\ pc' = "disable"
       \/ pc = "disable" /\ pc' = "getIrq"

LEMMA HandlersUntouched ==
    ASSUME IInv, SameHandler, UNCHANGED meipra \/ stack = <<>>
    PROVE  PreemptFollowsNesting' /\ NestingClimbs' /\ StackShape' /\ ContextsKept'
<1>1. PreemptFollowsNesting'
  BY DEF IInv, SameHandler, PreemptFollowsNesting, Level
<1>2. NestingClimbs'
  <2>1. CASE UNCHANGED meipra
    BY <2>1 DEF IInv, SameHandler, NestingClimbs
  <2>2. CASE stack = <<>>
    BY <2>2 DEF SameHandler, NestingClimbs
  <2>3. QED
    BY <2>1, <2>2
<1>3. StackShape'
  BY DEF IInv, SameHandler, StackShape, Serving, Frame, BrokeInto
<1>4. ContextsKept'
  BY DEF IInv, SameHandler, ContextsKept, LeftByTrap, Level, Serving, Frame, IsSoft
<1>5. QED
  BY <1>1, <1>2, <1>3, <1>4

\* A step that only changes the arrays.
LEMMA ArraysStep ==
    ASSUME IInv, ArraysFollowed, Onward, UNCHANGED <<meie, mie, mpie>>,
           meiea' \subseteq Irq, meifa' \subseteq Irq, line' \subseteq Irq,
           meipra' \in [Irq -> Prio], UNCHANGED meipra \/ stack = <<>>,
           waiting' \in BOOLEAN, checked' = FALSE
    PROVE  IInv'
<1>1. PreemptFollowsNesting' /\ NestingClimbs' /\ StackShape' /\ ContextsKept'
  BY HandlersUntouched DEF Onward, SameHandler
<1>2. TypeOK'
  <2>1. meinext' \in Irq \cup {NOIRQ}
    <3>1. CASE Fresh'
      BY <3>1, ElementFacts DEF Fresh, ArraysFollowed
    <3>2. CASE UNCHANGED meinext
      BY <3>2 DEF IInv, TypeOK
    <3>3. QED
      BY <3>1, <3>2 DEF ArraysFollowed
  <2>2. pc' \in Locations /\ (mie' => pc' \in {"main", "body", "disable"})
    BY DEF IInv, TypeOK, Onward, Locations
  <2>3. QED
    BY <2>1, <2>2 DEF IInv, TypeOK, Onward, ArraysFollowed, Candidate
<1>3. NextShown'
  <2>1. CASE Fresh'
    BY <1>1, <1>2, <2>1, FreshShows, PTL
  <2>2. CASE SameHead /\ UNCHANGED meinext
    BY <2>2, SameHeadShows DEF IInv, Onward
  <2>3. QED
    BY <2>1, <2>2 DEF ArraysFollowed
<1>4. Seen'
  <2>1. SUFFICES ASSUME mie', Deliverable' PROVE interruptsUpdated'
    BY DEF Seen
  <2>2. CASE NoBetterHead
    <3>1. /\ meicand \in Seq(Candidate) /\ meicand' \in Seq(Candidate)
          /\ meicontext.preempt \in Int
      BY DEF IInv, TypeOK, Contexts, ArraysFollowed, Candidate
    <3>2. \A s \in Seq(Candidate) : s # <<>> => s[1].priority \in Int
      BY ElementFacts
    <3>3. mie /\ Deliverable
      BY <2>1, <2>2, <3>1, <3>2 DEF NoBetterHead, Deliverable, Onward
    <3>4. QED
      BY <3>3 DEF IInv, Seen, ArraysFollowed
  <2>3. QED
    BY <2>2 DEF ArraysFollowed
<1>5. QED
  BY <1>1, <1>2, <1>3, <1>4 DEF IInv, ArraysFollowed

LEMMA RaiseStep ==
    ASSUME IInv, NEW i \in Irq, Raise(i)
    PROVE  IInv'
<1>1. TypeOK /\ CandidatesExact
  BY DEF IInv
<1>2. ArraysFollowed
  <2>1. setInterrupts({}, {i}) /\ UNCHANGED <<meiea, meipra>> /\ meipra' \in [Irq -> Prio]
    BY <1>1 DEF Raise, TypeOK
  <2>2. \A j \in meipa \ {} : meipra'[j] = meipra[j]
    BY <2>1
  <2>3. {} \in SUBSET Irq /\ {i} \in SUBSET Irq /\ UNCHANGED meiea
    BY <2>1
  <2>4. QED
    BY <1>1, <2>1, <2>2, <2>3, SetInterruptsFollowed
<1>3. Onward
  BY DEF Raise, Onward, mstatusVars
<1>4. QED
  BY <1>1, <1>2, <1>3, ArraysStep DEF Raise, TypeOK, mstatusVars

LEMMA LowerStep ==
    ASSUME IInv, NEW i \in Irq, Lower(i)
    PROVE  IInv'
<1>1. TypeOK /\ CandidatesExact
  BY DEF IInv
<1>2. ArraysFollowed
  <2>1. setInterrupts({i}, {}) /\ UNCHANGED <<meiea, meipra>> /\ meipra' \in [Irq -> Prio]
    BY <1>1 DEF Lower, TypeOK
  <2>2. \A j \in meipa \ {i} : meipra'[j] = meipra[j]
    BY <2>1
  <2>3. {} \in SUBSET Irq /\ {i} \in SUBSET Irq /\ UNCHANGED meiea
    BY <2>1
  <2>4. QED
    BY <1>1, <2>1, <2>2, <2>3, SetInterruptsFollowed
<1>3. Onward
  BY DEF Lower, Onward, mstatusVars
<1>4. QED
  BY <1>1, <1>2, <1>3, ArraysStep DEF Lower, TypeOK, mstatusVars

-----------------------------------------------------------------------------
(* The main program, which runs with no handler on the stack. *)

LEMMA MainIsBottom ==
    ASSUME IInv, pc = "main"
    PROVE  stack = <<>>
BY DEF IInv, StackShape

\* The array as it is, and nothing told.
LEMMA ArraysKept ==
    ASSUME TypeOK, CandidatesExact, UNCHANGED <<meicand, meinext, meipa, meipra>>,
           meiea' \cap meipa = meiea \cap meipa,
           interruptsUpdated' \in BOOLEAN, interruptsUpdated => interruptsUpdated'
    PROVE  ArraysFollowed
<1>1. CandidatesExact'
  BY CandidatesExactFacts
<1>2. \A s \in Seq(Candidate) : s # <<>> => s[1].priority \in Int
  BY ElementFacts
<1>3. meicand \in Seq(Candidate) /\ meipa \subseteq Irq
  BY DEF TypeOK, Candidate
<1>4. SameHead /\ NoBetterHead
  BY <1>2, <1>3 DEF SameHead, NoBetterHead
<1>5. QED
  BY <1>1, <1>3, <1>4 DEF ArraysFollowed

LEMMA SetEnabledFollowed ==
    ASSUME TypeOK, CandidatesExact, NEW i \in Irq, SetEnabled(i)
    PROVE  ArraysFollowed
<1> DEFINE S == meiea \cap meipa
           c == [irq_number |-> i, priority |-> meipra[i]]
<1>1. /\ meicand \in Seq(Candidate) /\ S \in SUBSET Irq /\ meipra \in [Irq -> Prio]
      /\ c \in Candidate /\ <<c>> \in Seq(Candidate) /\ meipa \subseteq Irq
  BY DEF TypeOK, Candidate
<1>2. CASE i \in meipa \ meiea
  <2>1. /\ meicand' \in sort(Append(meicand, c)) /\ updateMEINEXT /\ interruptsUpdated' = TRUE
        /\ meiea' \cap meipa' = S \cup {i} /\ UNCHANGED <<meipa, meipra>>
        /\ S \cap {i} = {}
    BY <1>2 DEF SetEnabled
  <2>2. Append(meicand, c) = meicand \o <<c>>
    BY <1>1
  <2>3. Lists(meicand, S, meipra)
    BY <1>1, CandidatesExactFacts, ExactFacts
  <2>4. Lists(<<c>>, {i}, meipra)
    BY DEF Lists
  <2> HIDE DEF S, c
  <2>5. meicand \o <<c>> \in Seq(Candidate) /\ Lists(meicand \o <<c>>, S \cup {i}, meipra)
    BY <1>1, <2>1, <2>3, <2>4, ConcatLists
  <2>6. /\ meicand' \in Seq(Candidate) /\ Ordered(meicand')
        /\ Lists(meicand', S \cup {i}, meipra)
    BY <2>1, <2>2, <2>5, SortLists
  <2>7. Exact(meicand', meiea' \cap meipa', meipra')
    BY <2>1, <2>6, ExactFacts
  <2>8. CandidatesExact' /\ Fresh'
    BY <2>1, <2>7, CandidatesExactFacts DEF updateMEINEXT, Fresh
  <2>9. QED
    BY <1>1, <2>1, <2>6, <2>8 DEF ArraysFollowed
<1>3. CASE i \notin meipa \ meiea
  <2>1. /\ UNCHANGED <<meicand, meinext, interruptsUpdated, meipa, meipra>>
        /\ meiea' \cap meipa = meiea \cap meipa
    BY <1>3 DEF SetEnabled
  <2>2. QED
    BY <2>1, ArraysKept DEF TypeOK
<1>4. QED
  BY <1>2, <1>3

LEMMA SetDisabledFollowed ==
    ASSUME TypeOK, CandidatesExact, NEW i \in Irq, SetDisabled(i)
    PROVE  ArraysFollowed
<1> DEFINE S == meiea \cap meipa
<1>1. /\ meicand \in Seq(Candidate) /\ S \in SUBSET Irq /\ meipra \in [Irq -> Prio]
      /\ meipa \subseteq Irq /\ interruptsUpdated \in BOOLEAN
  BY DEF TypeOK, Candidate
<1>2. CASE i \in meipa \cap meiea
  <2>1. /\ meicand' \in filter(meicand, {i}) /\ updateMEINEXT
        /\ UNCHANGED <<meipa, meipra, interruptsUpdated>>
        /\ meiea' \cap meipa' = S \ {i}
    BY <1>2 DEF SetDisabled
  <2>2. Lists(meicand, S, meipra) /\ Ordered(meicand)
    BY <1>1, CandidatesExactFacts, ExactFacts
  <2> HIDE DEF S
  <2>3. /\ meicand' \in Seq(Candidate) /\ Ordered(meicand')
        /\ Lists(meicand', S \ {i}, meipra)
    BY <1>1, <2>1, <2>2, FilterLists
  <2>4. Exact(meicand', meiea' \cap meipa', meipra')
    BY <2>1, <2>3, ExactFacts
  <2>5. CandidatesExact' /\ Fresh'
    BY <2>1, <2>4, CandidatesExactFacts DEF updateMEINEXT, Fresh
  <2>6. NoBetterHead
    <3>1. S \ {i} \in SUBSET S /\ \A j \in S \ {i} : meipra[j] = meipra[j]
      OBVIOUS
    <3>2. meicand' # <<>> => meicand # <<>> /\ meicand'[1].priority <= meicand[1].priority
      BY <1>1, <2>2, <2>3, <3>1, Heads
    <3>3. QED
      BY <3>2 DEF NoBetterHead
  <2>7. QED
    BY <1>1, <2>1, <2>3, <2>5, <2>6 DEF ArraysFollowed
<1>3. CASE i \notin meipa \cap meiea
  <2>1. /\ UNCHANGED <<meicand, meinext, interruptsUpdated, meipa, meipra>>
        /\ meiea' \cap meipa = meiea \cap meipa
    BY <1>3 DEF SetDisabled
  <2>2. QED
    BY <2>1, ArraysKept DEF TypeOK
<1>4. QED
  BY <1>2, <1>3

\* An instruction of the main program.
MainStep == checked /\ pc = "main" /\ checked' = FALSE /\ UNCHANGED line

LEMMA SetEnabledStep ==
    ASSUME IInv, MainStep, NEW i \in Irq, SetEnabled(i)
    PROVE  IInv'
<1>1. ArraysFollowed /\ TypeOK
  BY SetEnabledFollowed DEF IInv
<1>2. Onward
  BY DEF SetEnabled, Onward, mstatusVars
<1>3. QED
  BY <1>1, <1>2, ArraysStep DEF SetEnabled, MainStep, TypeOK, mstatusVars

LEMMA SetDisabledStep ==
    ASSUME IInv, MainStep, NEW i \in Irq, SetDisabled(i)
    PROVE  IInv'
<1>1. ArraysFollowed /\ TypeOK
  BY SetDisabledFollowed DEF IInv
<1>2. Onward
  BY DEF SetDisabled, Onward, mstatusVars
<1>3. QED
  BY <1>1, <1>2, ArraysStep DEF SetDisabled, MainStep, TypeOK, mstatusVars

LEMMA SetPriorityStep ==
    ASSUME IInv, MainStep, NEW i \in Irq, NEW p \in Prio, SetPriority(i, p)
    PROVE  IInv'
<1>1. TypeOK /\ CandidatesExact /\ stack = <<>>
  BY MainIsBottom DEF IInv, MainStep
<1>2. meipra' \in [Irq -> Prio]
  BY <1>1 DEF SetPriority, TypeOK
<1>3. ArraysFollowed
  <2>1. /\ Window(i, 4) \in SUBSET Irq /\ Window(i, 4) \cap meipa \in SUBSET Irq
        /\ i \in Window(i, 4)
    BY DEF Window
  <2>2. setInterrupts(Window(i, 4), Window(i, 4) \cap meipa) /\ UNCHANGED meiea
    BY DEF SetPriority
  <2>3. \A j \in meipa \ Window(i, 4) : meipra'[j] = meipra[j]
    BY <1>1, <2>1 DEF SetPriority, TypeOK
  <2>4. QED
    BY <1>1, <1>2, <2>1, <2>2, <2>3, SetInterruptsFollowed
<1>4. Onward
  BY DEF SetPriority, Onward, mstatusVars
<1>5. QED
  BY <1>1, <1>2, <1>3, <1>4, ArraysStep DEF SetPriority, MainStep, TypeOK, mstatusVars

LEMMA SetForcedStep ==
    ASSUME IInv, MainStep, NEW i \in Forceable, NEW forced \in BOOLEAN, SetForced(i, forced)
    PROVE  IInv'
<1>1. TypeOK /\ CandidatesExact /\ i \in Irq
  BY IrqAssumption DEF IInv
<1>2. meipra' \in [Irq -> Prio] /\ meifa' \subseteq Irq
  BY <1>1 DEF SetForced, TypeOK
<1>3. ArraysFollowed
  <2> DEFINE lower == {j \in Window(i, 16) : IsSoft(j) /\ j \notin meifa'}
             raise == Window(i, 16) \cap meifa'
  <2>1. lower \in SUBSET Irq /\ raise \in SUBSET Irq
    BY DEF Window
  <2>2. setInterrupts(lower, raise) /\ UNCHANGED <<meiea, meipra>>
    BY DEF SetForced
  <2> HIDE DEF lower, raise
  <2>3. \A j \in meipa \ lower : meipra'[j] = meipra[j]
    BY <2>2
  <2>4. QED
    BY <1>1, <1>2, <2>1, <2>2, <2>3, SetInterruptsFollowed
<1>4. Onward
  BY DEF SetForced, Onward, mstatusVars
<1>5. QED
  BY <1>1, <1>2, <1>3, <1>4, ArraysStep DEF SetForced, MainStep, TypeOK, mstatusVars

\* A step that only changes what is enabled, or what the core does next.
LEMMA EnablesStep ==
    ASSUME IInv, SameHandler, UNCHANGED xh3irqVars, line' \subseteq Irq,
           meie' \in BOOLEAN, mie' \in BOOLEAN, mpie' \in BOOLEAN,
           mie' => pc' \in {"main", "body", "disable"},
           interruptsUpdated' \in BOOLEAN, waiting' \in BOOLEAN, checked' = FALSE,
           mie' /\ meie' => (mie /\ meie) \/ interruptsUpdated',
           interruptsUpdated => interruptsUpdated'
    PROVE  IInv'
<1>1. PreemptFollowsNesting' /\ NestingClimbs' /\ StackShape' /\ ContextsKept'
  BY HandlersUntouched DEF xh3irqVars
<1>2. TypeOK'
  BY DEF IInv, TypeOK, SameHandler, xh3irqVars, Locations
<1>3. CandidatesExact'
  BY DEF IInv, CandidatesExact, xh3irqVars
<1>4. NextShown'
  BY DEF IInv, NextShown, SameHandler, xh3irqVars
<1>5. Seen'
  <2>1. SUFFICES ASSUME mie', Deliverable', ~interruptsUpdated' PROVE FALSE
    BY DEF Seen
  <2>2. mie /\ meie
    BY <2>1 DEF Deliverable
  <2>3. Deliverable
    BY <2>1, <2>2 DEF Deliverable, xh3irqVars, SameHandler
  <2>4. QED
    BY <2>1, <2>2, <2>3 DEF IInv, Seen
<1>6. QED
  BY <1>1, <1>2, <1>3, <1>4, <1>5 DEF IInv

LEMMA SetMeieStep ==
    ASSUME IInv, MainStep, NEW value \in BOOLEAN, SetMeie(value)
    PROVE  IInv'
<1>1. TypeOK
  BY DEF IInv
<1>2. SameHandler /\ UNCHANGED <<xh3irqVars, mie, mpie, waiting, line>> /\ checked' = FALSE
  BY DEF SetMeie, SameHandler, MainStep, mstatusVars
<1>3. line' \subseteq Irq /\ waiting' \in BOOLEAN /\ mpie' \in BOOLEAN /\ mie' \in BOOLEAN
  BY <1>1, <1>2 DEF TypeOK
<1>4. pc' = "main"
  BY DEF SetMeie, MainStep
<1>5. interruptsUpdated \in BOOLEAN /\ meie \in BOOLEAN
  BY <1>1 DEF TypeOK
<1>6. meie' = value /\ interruptsUpdated' = (interruptsUpdated \/ (value /\ ~meie))
  BY DEF SetMeie
<1>7. /\ meie' \in BOOLEAN /\ interruptsUpdated' \in BOOLEAN
      /\ meie' => meie \/ interruptsUpdated'
      /\ interruptsUpdated => interruptsUpdated'
  BY <1>5, <1>6
<1>8. mie' => mie
  BY <1>2
<1>9. QED
  BY <1>2, <1>3, <1>4, <1>7, <1>8, EnablesStep

LEMMA SetMieStep ==
    ASSUME IInv, MainStep, NEW value \in BOOLEAN, SetMie(value),
           UNCHANGED <<xh3irqVars, meicontext, meie, waiting, pc, stack>>
    PROVE  IInv'
<1>1. TypeOK
  BY DEF IInv
<1>2. SameHandler /\ UNCHANGED <<xh3irqVars, meie, mpie, waiting, line>> /\ checked' = FALSE
  BY DEF SetMie, SameHandler, MainStep
<1>3. line' \subseteq Irq /\ waiting' \in BOOLEAN /\ mpie' \in BOOLEAN /\ meie' \in BOOLEAN
  BY <1>1, <1>2 DEF TypeOK
<1>4. pc' = "main"
  BY DEF MainStep
<1>5. interruptsUpdated \in BOOLEAN /\ mie \in BOOLEAN
  BY <1>1 DEF TypeOK
<1>6. mie' = value /\ interruptsUpdated' = (interruptsUpdated \/ (value /\ ~mie))
  BY DEF SetMie
<1>7. /\ mie' \in BOOLEAN /\ interruptsUpdated' \in BOOLEAN
      /\ mie' => mie \/ interruptsUpdated'
      /\ interruptsUpdated => interruptsUpdated'
  BY <1>5, <1>6
<1>8. meie' => meie
  BY <1>2
<1>9. QED
  BY <1>2, <1>3, <1>4, <1>7, <1>8, EnablesStep

LEMMA WfiStep ==
    ASSUME IInv, MainStep, Wfi
    PROVE  IInv'
<1>1. TypeOK
  BY DEF IInv
<1>2. /\ SameHandler /\ UNCHANGED <<xh3irqVars, meie, mie, mpie, interruptsUpdated, line>>
      /\ checked' = FALSE /\ waiting' = TRUE /\ pc' = "main"
  BY DEF Wfi, SameHandler, MainStep, mstatusVars
<1>3. /\ line' \subseteq Irq /\ waiting' \in BOOLEAN /\ mpie' \in BOOLEAN /\ meie' \in BOOLEAN
      /\ mie' \in BOOLEAN /\ interruptsUpdated' \in BOOLEAN
  BY <1>1, <1>2 DEF TypeOK
<1>4. (mie' /\ meie' => mie /\ meie) /\ (interruptsUpdated => interruptsUpdated')
  BY <1>2
<1>5. QED
  BY <1>2, <1>3, <1>4, EnablesStep

\* An exception, in the main program or in an interrupt's own handler.
LEMMA EcallStep ==
    ASSUME IInv, checked, Ecall, pc \in {"main", "body"}, checked' = FALSE, UNCHANGED line
    PROVE  IInv'
<1>1. /\ TypeOK /\ CandidatesExact /\ PreemptFollowsNesting /\ NestingClimbs
      /\ StackShape /\ ContextsKept /\ NextShown
  BY DEF IInv
<1>2. /\ UNCHANGED <<meiea, meipa, meifa, meipra, meicand, meinext, meie,
                     interruptsUpdated, waiting, stack, line>>
      /\ mepc' = pc /\ mpie' = mie /\ mie' = FALSE /\ pc' = "exception"
      /\ meicontext' = [meicontext EXCEPT !.mreteirq = FALSE]
  BY DEF Ecall, trapEntry, xh3irqVars
<1>3. /\ meicontext' \in Contexts
      /\ meicontext'.preempt = meicontext.preempt
      /\ meicontext'.ppreempt = meicontext.ppreempt
      /\ meicontext'.irq = meicontext.irq /\ meicontext'.mreteirq = FALSE
  BY <1>1, <1>2 DEF TypeOK, Contexts
<1>4. TypeOK'
  BY <1>1, <1>2, <1>3 DEF TypeOK, Locations
<1>5. CandidatesExact'
  BY <1>1, <1>2 DEF CandidatesExact
<1>6. PreemptFollowsNesting' /\ NestingClimbs'
  BY <1>1, <1>2, <1>3 DEF PreemptFollowsNesting, NestingClimbs, Level
<1>7. StackShape'
  BY <1>1, <1>2 DEF StackShape, Serving, Frame, BrokeInto
<1>8. ContextsKept'
  BY <1>1, <1>2, <1>3 DEF ContextsKept, LeftByTrap, Level, Serving, Frame, IsSoft
<1>9. NextShown'
  BY <1>1, <1>2, <1>3 DEF NextShown
<1>10. Seen'
  BY <1>2 DEF Seen
<1>11. QED
  BY <1>4, <1>5, <1>6, <1>7, <1>8, <1>9, <1>10 DEF IInv

LEMMA MainActions ==
    ASSUME IInv, checked, Main, checked' = FALSE
    PROVE  IInv'
<1>1. MainStep
  BY DEF Main, MainStep
<1>2. CASE \E i \in Irq : SetEnabled(i) \/ SetDisabled(i)
  BY <1>1, <1>2, SetEnabledStep, SetDisabledStep
<1>3. CASE \E i \in Irq, p \in Prio : SetPriority(i, p)
  BY <1>1, <1>3, SetPriorityStep
<1>4. CASE \E i \in Forceable, forced \in BOOLEAN : SetForced(i, forced)
  BY <1>1, <1>4, SetForcedStep
<1>5. CASE \E value \in BOOLEAN : SetMeie(value)
  BY <1>1, <1>5, SetMeieStep
<1>6. CASE \E value \in BOOLEAN :
             SetMie(value) /\ UNCHANGED <<xh3irqVars, meicontext, meie, waiting, pc, stack>>
  BY <1>1, <1>6, SetMieStep
<1>7. CASE Wfi
  BY <1>1, <1>7, WfiStep
<1>8. CASE Ecall
  BY <1>1, <1>8, EcallStep DEF MainStep
<1>9. QED
  BY <1>2, <1>3, <1>4, <1>5, <1>6, <1>7, <1>8 DEF Main

-----------------------------------------------------------------------------
(* checkForInterrupts: the only step that puts a handler on the stack. *)

LEMMA GrownStack ==
    ASSUME stack \in Seq(Frames), NEW f \in Frames, stack' = Append(stack, f)
    PROVE  /\ stack' \in Seq(Frames) /\ Len(stack) \in Nat /\ Len(stack') = Len(stack) + 1
           /\ stack' # <<>> /\ stack'[Len(stack')] = f
           /\ \A k \in 1 .. Len(stack) : stack'[k] = stack[k]
<1>1. Len(stack) \in Nat
  BY LenProperties
<1>2. /\ stack' \in Seq(Frames) /\ Len(stack') = Len(stack) + 1
      /\ \A k \in 1 .. Len(stack) : stack'[k] = stack[k]
      /\ stack'[Len(stack) + 1] = f
  BY AppendProperties
<1>3. stack' # <<>>
  BY <1>1, <1>2
<1>4. QED
  BY <1>1, <1>2, <1>3

\* The best candidate, if it is the one MEINEXT shows.
LEMMA NextIsBest ==
    ASSUME TypeOK, CandidatesExact, NextShown, meinext # NOIRQ
    PROVE  /\ meinext \in Irq /\ meicand # <<>> /\ meicand[1].irq_number = meinext
           /\ meicand[1].priority = meipra[meinext] /\ meipra[meinext] \in 0 .. 15
<1>1. meinext \in Irq /\ meicand # <<>> /\ meicand[1].irq_number = meinext
  BY DEF TypeOK, NextShown
<1>2. 1 \in DOMAIN meicand
  <2>1. meicand \in Seq(Candidate)
    BY DEF TypeOK, Candidate
  <2>2. QED
    BY <1>1, <2>1
<1>3. meicand[1].priority = meipra[meinext]
  BY <1>1, <1>2 DEF CandidatesExact
<1>4. meipra[meinext] \in 0 .. 15
  BY <1>1, Numbers DEF TypeOK
<1>5. QED
  BY <1>1, <1>3, <1>4

\* The trap of an interrupt, from where the firmware lets one in.
LEMMA TakenStep ==
    ASSUME IInv, mie, Preempts, updateMEICONTEXT_priority_save, trapEntry(TRUE),
           UNCHANGED <<xh3irqVars, meie, line>>,
           interruptsUpdated' = FALSE, waiting' \in BOOLEAN, checked' \in BOOLEAN
    PROVE  IInv'
<1> DEFINE f == [level |-> meipra[meinext] + 1, mepc |-> "main", mpie |-> FALSE,
                 context |-> meicontext, irq |-> NOIRQ]
<1>0. PICK n \in Nat : n = Len(stack)
  BY LenProperties DEF IInv, TypeOK
<1>1. /\ TypeOK /\ CandidatesExact /\ PreemptFollowsNesting /\ NestingClimbs
      /\ StackShape /\ ContextsKept /\ NextShown
  BY DEF IInv
<1>2. /\ meinext # NOIRQ /\ meipra[meinext] >= meicontext.preempt
      /\ meipra[meinext] \in 0 .. 15 /\ meicand # <<>>
      /\ meicand[1].irq_number = meinext /\ meicand[1].priority = meipra[meinext]
  BY <1>1, NextIsBest DEF Preempts
<1>3. /\ meicontext \in Contexts /\ meicontext.preempt \in 0 .. 16
      /\ meicontext.ppreempt \in 0 .. 15
  BY <1>1 DEF TypeOK, Contexts
<1>4. meicontext.preempt \in 0 .. 15 /\ meicontext.preempt % 16 = meicontext.preempt
  BY <1>2, <1>3
<1>5. /\ meicontext' \in Contexts
      /\ meicontext'.preempt = meipra[meinext] + 1
      /\ meicontext'.ppreempt = meicontext.preempt
      /\ meicontext'.pppreempt = meicontext.ppreempt
      /\ meicontext'.mreteirq = TRUE
      /\ meicontext'.irq = meicontext.irq
  <2>1. meicontext' = [meicontext EXCEPT
                          !.pppreempt = meicontext.ppreempt, !.ppreempt = meicontext.preempt,
                          !.preempt = meipra[meinext] + 1, !.mreteirq = TRUE]
    BY <1>4 DEF updateMEICONTEXT_priority_save
  <2>2. meipra[meinext] + 1 \in 0 .. 16
    BY <1>2
  <2>3. QED
    BY <1>3, <1>4, <2>1, <2>2 DEF Contexts
<1>6. /\ mepc' = pc /\ mpie' = mie /\ mie' = FALSE /\ pc' = "save"
      /\ stack' = Append(stack, f)
  BY DEF trapEntry
<1>7. f \in Frames
  BY <1>2, <1>3 DEF Frames, Locations
<1>8. /\ f.level = meipra[meinext] + 1 /\ f.irq = NOIRQ
      /\ pc \in {"main", "body", "disable"}
  BY <1>1 DEF TypeOK
<1> HIDE DEF f
<1>9. /\ stack' \in Seq(Frames) /\ n \in Nat /\ Len(stack') = n + 1
      /\ stack' # <<>> /\ stack'[n + 1] = f
      /\ \A k \in 1 .. n : stack'[k] = stack[k]
  BY <1>0, <1>1, <1>6, <1>7, GrownStack DEF TypeOK
<1>10. /\ stack = <<>> <=> pc = "main"
       /\ stack = <<>> <=> n = 0
       /\ pc # "main" => Serving
  <2>1. stack = <<>> <=> n = 0
    BY <1>0, <1>1, EmptySeq DEF TypeOK
  <2>2. QED
    BY <1>1, <1>8, <2>1 DEF StackShape, Serving
<1>11. \A k \in Int : k <= n => Level(k)' = Level(k)
  BY <1>9 DEF Level
<1>12. Level(n + 1)' = f.level
  BY <1>9 DEF Level
<1>13. TypeOK'
  BY <1>1, <1>5, <1>6, <1>9 DEF TypeOK, xh3irqVars, Locations
<1>14. CandidatesExact'
  BY <1>1 DEF CandidatesExact, xh3irqVars
<1>15. PreemptFollowsNesting'
  <2>1. meicontext.preempt = Level(n)
    BY <1>0, <1>1 DEF PreemptFollowsNesting
  <2>2. Level(n + 1)' = f.level /\ Level(n)' = Level(n)
    BY <1>9, <1>11, <1>12
  <2>3. Len(stack') = n + 1 /\ Len(stack') - 1 = n
    BY <1>9
  <2>4. QED
    BY <1>5, <1>8, <2>1, <2>2, <2>3 DEF PreemptFollowsNesting, Level
<1>16. NestingClimbs'
  <2>1. SUFFICES ASSUME NEW k \in 2 .. n + 1
                 PROVE  /\ stack'[k - 1].level < stack'[k].level
                        /\ stack'[k].irq # NOIRQ =>
                              meipra'[stack'[k].irq] >= stack'[k - 1].level
    BY <1>9 DEF NestingClimbs
  <2>2. CASE k \in 2 .. n
    BY <1>0, <1>1, <1>9, <2>2 DEF NestingClimbs, xh3irqVars
  <2>3. CASE k = n + 1
    <3>1. stack[n].level = meicontext.preempt /\ stack'[n] = stack[n]
      BY <1>0, <1>1, <1>9, <2>3 DEF PreemptFollowsNesting, Level
    <3>2. stack'[k - 1] = stack[n] /\ stack'[k] = f
      BY <1>9, <2>3, <3>1
    <3>3. meicontext.preempt < f.level
      BY <1>2, <1>4, <1>8, SMTT(20)
    <3>4. QED
      BY <1>8, <3>1, <3>2, <3>3
  <2>4. QED
    BY <1>9, <2>2, <2>3
<1>17. StackShape'
  <2>1. mepc' \in BrokeInto(n + 1)
    BY <1>6, <1>8, <1>9, <1>10 DEF BrokeInto
  <2>2. ASSUME NEW k \in 1 .. n
        PROVE  stack'[k].irq \in Irq /\ stack'[k].mepc \in BrokeInto(k)
    <3>1. CASE k < n
      BY <1>0, <1>1, <1>9, <3>1 DEF StackShape
    <3>2. CASE k = n
      BY <1>0, <1>1, <1>8, <1>9, <1>10, <3>2 DEF StackShape, Frame
    <3>3. QED
      BY <1>9, <3>1, <3>2
  <2>3. ~Serving'
    BY <1>6 DEF Serving
  <2>4. \A k \in 1 .. Len(stack') - 1 : stack'[k].irq \in Irq /\ stack'[k].mepc \in BrokeInto(k)
    BY <1>9, <2>2
  <2>5. QED
    BY <1>6, <1>9, <2>1, <2>3, <2>4 DEF StackShape, BrokeInto
<1>18. ContextsKept'
  <2>1. ASSUME NEW k \in 1 .. n
        PROVE  LeftByTrap(stack[k].context, k)'
    <3>1. LeftByTrap(stack[k].context, k)
      BY <1>0, <1>1, <1>8 DEF ContextsKept
    <3>2. Level(k)' = Level(k) /\ Level(k - 1)' = Level(k - 1) /\ Level(k - 2)' = Level(k - 2)
      BY <1>9, <1>11
    <3>3. stack'[k] = stack[k] /\ (k > 1 => stack'[k - 1] = stack[k - 1])
      BY <1>9
    <3>4. QED
      BY <3>1, <3>2, <3>3 DEF LeftByTrap, IsSoft
  <2>2. LeftByTrap(meicontext, n + 1)'
    <3>1. meicontext.preempt = Level(n) /\ meicontext.ppreempt = Level(n - 1)
      BY <1>0, <1>1 DEF PreemptFollowsNesting
    <3>2. /\ Level(n + 1)' = f.level /\ Level(n)' = Level(n)
          /\ Level(n - 1)' = Level(n - 1)
      BY <1>9, <1>11, <1>12
    <3>3. n + 1 > 1 /\ ~IsSoft(stack'[n].irq) => meicontext'.irq = stack'[n].irq
      <4>1. n + 1 > 1 => stack # <<>> /\ n \in 1 .. n
        BY <1>9, <1>10
      <4>2. QED
        BY <1>0, <1>1, <1>5, <1>9, <1>10, <4>1 DEF ContextsKept, Frame
    <3>4. n + 1 - 1 = n /\ n + 1 - 2 = n - 1
      BY <1>9
    <3>5. QED
      BY <1>5, <1>8, <3>1, <3>2, <3>3, <3>4 DEF LeftByTrap, IsSoft
  <2>3. ~Serving'
    BY <1>6 DEF Serving
  <2>4. \A k \in 1 .. Len(stack') : k < Len(stack') => LeftByTrap(stack[k].context, k)'
    BY <1>9, <2>1
  <2>5. QED
    BY <1>6, <1>9, <2>2, <2>3, <2>4 DEF ContextsKept
<1>19. NextShown'
  BY <1>2, <1>5, <1>6 DEF NextShown, xh3irqVars
<1>20. Seen'
  BY <1>6 DEF Seen
<1>21. QED
  BY <1>13, <1>14, <1>15, <1>16, <1>17, <1>18, <1>19, <1>20 DEF IInv

LEMMA CheckForInterruptsStep ==
    ASSUME IInv, checkForInterrupts
    PROVE  IInv'
<1> DEFINE taken == interruptsUpdated /\ meie /\ Preempts
<1>1. /\ TypeOK /\ CandidatesExact /\ PreemptFollowsNesting /\ NestingClimbs
      /\ StackShape /\ ContextsKept /\ NextShown /\ Seen
  BY DEF IInv
<1>2. /\ interruptsUpdated' = FALSE /\ UNCHANGED <<xh3irqVars, meie, line>>
      /\ waiting' = (waiting /\ ~taken) /\ checked' = ~waiting'
      /\ IF taken /\ mie
         THEN updateMEICONTEXT_priority_save /\ trapEntry(TRUE)
         ELSE UNCHANGED <<meicontext, mstatusVars, pc, stack>>
  BY DEF checkForInterrupts
<1>3. waiting' \in BOOLEAN /\ checked' \in BOOLEAN
  BY <1>2
<1>4. CASE taken /\ mie
  BY <1>2, <1>3, <1>4, TakenStep
<1>5. CASE ~(taken /\ mie)
  <2>1. UNCHANGED <<meicontext, mie, mpie, mepc, pc, stack, meie, line>>
    BY <1>2, <1>5 DEF mstatusVars
  <2>2. UNCHANGED <<meiea, meipa, meifa, meipra, meicand, meinext>>
    BY <1>2 DEF xh3irqVars
  <2>3. TypeOK'
    BY <1>1, <1>2, <1>3, <2>1, <2>2 DEF TypeOK
  <2>4. PreemptFollowsNesting' /\ NestingClimbs' /\ StackShape' /\ ContextsKept'
    BY <2>1, <2>2, HandlersUntouched DEF SameHandler
  <2>5. CandidatesExact' /\ NextShown'
    BY <1>1, <2>1, <2>2 DEF CandidatesExact, NextShown
  <2>6. ~(mie /\ Deliverable)
    <3>1. SUFFICES ASSUME mie, Deliverable PROVE FALSE
      OBVIOUS
    <3>2. interruptsUpdated /\ meie /\ meicand # <<>> /\ meicand[1].priority >= meicontext.preempt
      BY <1>1, <3>1 DEF Seen, Deliverable
    <3>3. meicand[1].priority \in Int /\ meicontext.preempt \in Int
      <4>1. meicand \in Seq(Candidate) /\ meicontext.preempt \in Int
        BY <1>1 DEF TypeOK, Contexts, Candidate
      <4>2. QED
        BY <3>2, <4>1, ElementFacts
    <3>4. meinext # NOIRQ
      BY <1>1, <3>2, <3>3 DEF NextShown
    <3>5. meipra[meinext] = meicand[1].priority
      BY <1>1, <3>4, NextIsBest
    <3>6. Preempts
      BY <3>2, <3>4, <3>5 DEF Preempts
    <3>7. QED
      BY <1>5, <3>1, <3>2, <3>6
  <2>7. Seen'
    BY <2>1, <2>2, <2>6 DEF Seen, Deliverable
  <2>8. QED
    BY <2>3, <2>4, <2>5, <2>7 DEF IInv
<1>6. QED
  BY <1>4, <1>5

-----------------------------------------------------------------------------
(* The handler. *)

\* The parts of the handler that are not to be interrupted, and have a frame.
LEMMA InHandler ==
    ASSUME TypeOK, StackShape, pc \notin {"main", "exception"}
    PROVE  /\ stack # <<>> /\ Len(stack) \in Nat \ {0} /\ Len(stack) \in 1 .. Len(stack)
           /\ Frame \in Frames
           /\ pc \notin {"body", "disable"} => mie = FALSE
<1>1. stack \in Seq(Frames) /\ mie \in BOOLEAN
  BY DEF TypeOK
<1>2. stack # <<>>
  BY DEF StackShape
<1>3. Len(stack) \in Nat \ {0}
  BY <1>1, <1>2, EmptySeq
<1>4. Len(stack) \in 1 .. Len(stack)
  BY <1>3
<1>5. Frame \in Frames
  BY <1>1, <1>4, ElementOfSeq DEF Frame
<1>6. QED
  BY <1>1, <1>2, <1>3, <1>4, <1>5 DEF TypeOK

\* A change of the frame that runs.
LEMMA ChangedFrame ==
    ASSUME stack \in Seq(Frames), stack # <<>>, NEW f \in Frames,
           stack' = [stack EXCEPT ![Len(stack)] = f]
    PROVE  /\ stack' \in Seq(Frames) /\ Len(stack') = Len(stack) /\ stack' # <<>>
           /\ stack'[Len(stack)] = f
           /\ \A k \in 1 .. Len(stack) - 1 : stack'[k] = stack[k]
<1>1. Len(stack) \in Nat \ {0}
  BY EmptySeq
<1>2. Len(stack) \in 1 .. Len(stack)
  BY <1>1
<1>3. /\ stack' \in Seq(Frames) /\ Len(stack') = Len(stack)
      /\ \A j \in 1 .. Len(stack) : stack'[j] = IF j = Len(stack) THEN f ELSE stack[j]
  BY <1>2, ExceptSeq
<1>4. stack' # <<>>
  BY <1>1, <1>3, EmptySeq
<1>5. stack'[Len(stack)] = f
  BY <1>2, <1>3
<1>6. ASSUME NEW k \in 1 .. Len(stack) - 1
      PROVE  stack'[k] = stack[k]
  <2>1. k \in 1 .. Len(stack) /\ k # Len(stack)
    BY <1>1
  <2>2. QED
    BY <1>3, <2>1
<1>7. QED
  BY <1>3, <1>4, <1>5, <1>6

LEMMA DispatchStep ==
    ASSUME IInv, checked, Dispatch, checked' = FALSE
    PROVE  IInv'
<1>1. TypeOK
  BY DEF IInv
<1>2. /\ SameHandler /\ UNCHANGED <<xh3irqVars, meie, mpie, waiting, line>>
      /\ pc' = "body" /\ mie' = TRUE
      /\ interruptsUpdated' = (interruptsUpdated \/ ~mie)
  BY DEF SetMie, SameHandler, Dispatch, goto
<1>3. /\ line' \subseteq Irq /\ waiting' \in BOOLEAN /\ mpie' \in BOOLEAN /\ meie' \in BOOLEAN
      /\ interruptsUpdated \in BOOLEAN /\ mie \in BOOLEAN
  BY <1>1, <1>2 DEF TypeOK
<1>4. /\ interruptsUpdated' \in BOOLEAN /\ (mie' => mie \/ interruptsUpdated')
      /\ interruptsUpdated => interruptsUpdated'
  BY <1>2, <1>3
<1>5. meie' => meie
  BY <1>2
<1>6. mie' \in BOOLEAN
  BY <1>2
<1>7. QED
  BY <1>2, <1>3, <1>4, <1>5, <1>6, EnablesStep

LEMMA DisableStep ==
    ASSUME IInv, checked, Disable, checked' = FALSE
    PROVE  IInv'
<1>1. TypeOK
  BY DEF IInv
<1>2. /\ SameHandler /\ UNCHANGED <<xh3irqVars, meie, mpie, waiting, line>>
      /\ pc' = "getIrq" /\ mie' = FALSE
      /\ interruptsUpdated' = (interruptsUpdated \/ FALSE)
  BY DEF SetMie, SameHandler, Disable, goto
<1>3. /\ line' \subseteq Irq /\ waiting' \in BOOLEAN /\ mpie' \in BOOLEAN /\ meie' \in BOOLEAN
      /\ interruptsUpdated \in BOOLEAN
  BY <1>1, <1>2 DEF TypeOK
<1>4. interruptsUpdated' \in BOOLEAN /\ (interruptsUpdated => interruptsUpdated')
  BY <1>2, <1>3
<1>5. mie' \in BOOLEAN /\ ~mie'
  BY <1>2
<1>6. QED
  BY <1>2, <1>3, <1>4, <1>5, EnablesStep

LEMMA BodyEndsStep ==
    ASSUME IInv, checked, BodyEnds, checked' = FALSE
    PROVE  IInv'
<1>1. TypeOK /\ CandidatesExact
  BY DEF IInv
<1>2. ArraysFollowed
  <2> DEFINE lower == {i \in {Frame.irq} : ~IsSoft(i)}
  <2>1. setInterrupts(lower, {}) /\ UNCHANGED <<meiea, meipra>> /\ meipra' \in [Irq -> Prio]
    BY <1>1 DEF BodyEnds, TypeOK
  <2>2. lower \in SUBSET Irq
    BY InHandler DEF IInv, BodyEnds, StackShape, Serving
  <2> HIDE DEF lower
  <2>3. \A j \in meipa \ lower : meipra'[j] = meipra[j]
    BY <2>1
  <2>4. {} \in SUBSET Irq /\ UNCHANGED meiea
    BY <2>1
  <2>5. QED
    BY <1>1, <2>1, <2>2, <2>3, <2>4, SetInterruptsFollowed
<1>3. Onward
  BY DEF BodyEnds, Onward, mstatusVars, goto
<1>4. line' \subseteq Irq
  BY <1>1 DEF BodyEnds, TypeOK
<1>5. QED
  BY <1>1, <1>2, <1>3, <1>4, ArraysStep DEF BodyEnds, TypeOK, mstatusVars

\* Reading MEINEXT takes at most the interrupt it shows off the array.
LEMMA ReadFollowed ==
    ASSUME TypeOK, CandidatesExact, ReadMEINEXT
    PROVE  /\ meifa' \subseteq Irq /\ meipa' \subseteq Irq /\ UNCHANGED <<meiea, meipra>>
           /\ meicand' \in Seq(Candidate) /\ CandidatesExact'
           /\ meinext = NOIRQ \/ ~IsSoft(meinext) => meicand' = meicand
<1> DEFINE S == meiea \cap meipa
           read == IF meinext = NOIRQ THEN {} ELSE {meinext}
           dropped == {i \in read \cap meifa \cap meipa : IsSoft(i)}
<1>1. /\ meicand \in Seq(Candidate) /\ S \in SUBSET Irq /\ meipra \in [Irq -> Prio]
      /\ meipa \subseteq Irq /\ meifa \subseteq Irq
  BY DEF TypeOK, Candidate
<1>2. /\ meifa' = meifa \ read /\ meipa' = meipa \ dropped
      /\ meicand' \in filter(meicand, dropped) /\ UNCHANGED <<meiea, meipra>>
  BY DEF ReadMEINEXT
<1>3. /\ meiea' \cap meipa' = S \ dropped
      /\ meinext = NOIRQ \/ ~IsSoft(meinext) => dropped = {}
  BY <1>2
<1>4. Lists(meicand, S, meipra) /\ Ordered(meicand)
  BY <1>1, CandidatesExactFacts, ExactFacts
<1> HIDE DEF S, read, dropped
<1>5. /\ meicand' \in Seq(Candidate) /\ Ordered(meicand')
      /\ Lists(meicand', S \ dropped, meipra)
  BY <1>1, <1>2, <1>4, FilterLists
<1>6. CandidatesExact'
  <2>1. Exact(meicand', meiea' \cap meipa', meipra')
    BY <1>2, <1>3, <1>5, ExactFacts
  <2>2. QED
    BY <2>1, CandidatesExactFacts
<1>7. meinext = NOIRQ \/ ~IsSoft(meinext) => meicand' = meicand
  <2>1. SUFFICES ASSUME dropped = {} PROVE meicand' = meicand
    BY <1>3
  <2>2. \A k \in 1 .. Len(meicand) : meicand[k].irq_number \notin dropped
    BY <2>1
  <2>3. QED
    BY <1>1, <1>2, <2>2, FilterFacts
<1>8. QED
  BY <1>1, <1>2, <1>5, <1>6, <1>7

\* A step of the handler that runs: it changes no level, and only its own frame.
LEMMA SameLevels ==
    ASSUME stack \in Seq(Frames), Len(stack) \in Nat, Len(stack') = Len(stack),
           \A k \in 1 .. Len(stack) - 1 : stack'[k] = stack[k],
           stack # <<>> => stack'[Len(stack)].level = stack[Len(stack)].level
    PROVE  /\ \A k \in Int : k <= Len(stack) => Level(k)' = Level(k)
           /\ PreemptFollowsNesting /\ meicontext'.preempt = meicontext.preempt
                 /\ meicontext'.ppreempt = meicontext.ppreempt => PreemptFollowsNesting'
<1>0. PICK n \in Nat : n = Len(stack)
  OBVIOUS
<1>1. stack # <<>> <=> n > 0
  BY <1>0, EmptySeq
<1>2. \A k \in 1 .. n : stack'[k].level = stack[k].level
  BY <1>0, <1>1
<1>3. \A k \in Int : k <= n => Level(k)' = Level(k)
  BY <1>2 DEF Level
<1>4. ASSUME PreemptFollowsNesting, meicontext'.preempt = meicontext.preempt,
             meicontext'.ppreempt = meicontext.ppreempt
      PROVE  PreemptFollowsNesting'
  <2>1. Level(n)' = Level(n) /\ Level(n - 1)' = Level(n - 1)
    BY <1>3
  <2>2. QED
    BY <1>0, <1>4, <2>1 DEF PreemptFollowsNesting, Level
<1>5. QED
  BY <1>0, <1>3, <1>4

\* What the trap of a handler left in c, in terms of the next state.
LEMMA LeftAlike ==
    ASSUME NEW n \in Nat, \A k \in Int : k <= n => Level(k)' = Level(k),
           \A k \in 1 .. n - 1 : stack'[k].irq = stack[k].irq,
           NEW k \in 1 .. n, NEW c, LeftByTrap(c, k)
    PROVE  LeftByTrap(c, k)'
<1>1. Level(k)' = Level(k) /\ Level(k - 1)' = Level(k - 1) /\ Level(k - 2)' = Level(k - 2)
  OBVIOUS
<1>2. k > 1 => stack'[k - 1].irq = stack[k - 1].irq
  OBVIOUS
<1>3. QED
  BY <1>1, <1>2 DEF LeftByTrap, IsSoft

\* A step that writes the frame f of the handler that runs.
WritesFrame(f) ==
    /\ f \in Frames /\ f.level = Frame.level
    /\ stack' = [stack EXCEPT ![Len(stack)] = f]
    /\ meicontext'.preempt = meicontext.preempt /\ meicontext'.ppreempt = meicontext.ppreempt

LEMMA FrameWritten ==
    ASSUME IInv, pc \notin {"main", "exception"}, NEW f, WritesFrame(f),
           NEW n \in Nat, n = Len(stack)
    PROVE  /\ n \in 1 .. n /\ stack' \in Seq(Frames) /\ Len(stack') = n /\ stack' # <<>>
           /\ stack'[n] = f /\ \A k \in 1 .. n - 1 : stack'[k] = stack[k]
           /\ PreemptFollowsNesting'
           /\ \A c : \A k \in 1 .. n : LeftByTrap(c, k) => LeftByTrap(c, k)'
<1>1. TypeOK /\ PreemptFollowsNesting /\ StackShape /\ stack \in Seq(Frames)
  BY DEF IInv, TypeOK
<1>2. stack # <<>> /\ n \in 1 .. n /\ Frame = stack[n]
  BY <1>1, InHandler DEF Frame
<1>3. /\ stack' \in Seq(Frames) /\ Len(stack') = n /\ stack' # <<>>
      /\ stack'[n] = f /\ \A k \in 1 .. n - 1 : stack'[k] = stack[k]
  BY <1>1, <1>2, ChangedFrame DEF WritesFrame
<1>4. /\ \A k \in Int : k <= n => Level(k)' = Level(k)
      /\ PreemptFollowsNesting'
  BY <1>1, <1>2, <1>3, SameLevels DEF WritesFrame
<1>5. \A k \in 1 .. n - 1 : stack'[k].irq = stack[k].irq
  BY <1>3
<1>6. \A c : \A k \in 1 .. n : LeftByTrap(c, k) => LeftByTrap(c, k)'
  BY <1>4, <1>5, LeftAlike
<1>7. QED
  BY <1>2, <1>3, <1>4, <1>6

LEMMA SaveStep ==
    ASSUME IInv, checked, Save, checked' = FALSE
    PROVE  IInv'
<1> DEFINE f == [Frame EXCEPT !.mepc = mepc, !.mpie = mpie]
<1>1. /\ TypeOK /\ CandidatesExact /\ NestingClimbs
      /\ StackShape /\ ContextsKept /\ NextShown /\ stack \in Seq(Frames)
  BY DEF IInv, TypeOK
<1>2. /\ pc = "save" /\ pc' = "saveContext"
      /\ stack' = [stack EXCEPT ![Len(stack)].mepc = mepc, ![Len(stack)].mpie = mpie]
      /\ UNCHANGED <<meiea, meipa, meifa, meipra, meicand, meinext, meicontext, meie, mie, mpie,
                     mepc, interruptsUpdated, waiting, line>>
  BY DEF Save, goto, xh3irqVars, mstatusVars
<1>3. PICK n \in Nat : n = Len(stack) /\ n > 0
  BY <1>1, <1>2, InHandler
<1>4. Frame = stack[n] /\ Frame \in Frames /\ mie = FALSE /\ n \in 1 .. Len(stack)
  BY <1>1, <1>2, <1>3, InHandler DEF Frame
<1>5. /\ f \in Frames /\ f.level = stack[n].level /\ f.irq = stack[n].irq /\ f.mepc = mepc
      /\ stack' = [stack EXCEPT ![Len(stack)] = f]
  BY <1>1, <1>2, <1>3, <1>4 DEF TypeOK, Frames
<1> HIDE DEF f
<1>6. WritesFrame(f)
  BY <1>2, <1>4, <1>5 DEF WritesFrame
<1>7. /\ n \in 1 .. n /\ stack' \in Seq(Frames) /\ Len(stack') = n /\ stack' # <<>>
      /\ stack'[n] = f /\ \A k \in 1 .. n - 1 : stack'[k] = stack[k]
      /\ PreemptFollowsNesting'
      /\ \A c : \A k \in 1 .. n : LeftByTrap(c, k) => LeftByTrap(c, k)'
  BY <1>2, <1>3, <1>6, FrameWritten
<1>8. TypeOK'
  BY <1>1, <1>2, <1>4, <1>7 DEF TypeOK, Locations
<1>9. CandidatesExact' /\ NextShown'
  BY <1>1, <1>2 DEF CandidatesExact, NextShown
<1>10. NestingClimbs'
  <2>1. \A k \in 1 .. n : stack'[k].level = stack[k].level /\ stack'[k].irq = stack[k].irq
    BY <1>5, <1>7
  <2>2. QED
    BY <1>1, <1>2, <1>3, <1>7, <2>1 DEF NestingClimbs
<1>11. StackShape'
  <2>1. mepc \in BrokeInto(n)
    BY <1>1, <1>2, <1>3 DEF StackShape
  <2>2. Frame'.mepc = mepc
    BY <1>5, <1>7 DEF Frame
  <2>3. \A k \in 1 .. n - 1 : stack'[k].irq \in Irq /\ stack'[k].mepc \in BrokeInto(k)
    BY <1>1, <1>3, <1>7 DEF StackShape
  <2>4. QED
    BY <1>2, <1>7, <2>1, <2>2, <2>3 DEF StackShape, Serving, BrokeInto
<1>12. ContextsKept'
  <2>1. ASSUME NEW k \in 1 .. n, k < n
        PROVE  LeftByTrap(stack[k].context, k)'
    <3>1. LeftByTrap(stack[k].context, k) /\ stack'[k] = stack[k]
      BY <1>1, <1>3, <1>7, <2>1 DEF ContextsKept
    <3>2. QED
      BY <1>7, <3>1 DEF LeftByTrap, IsSoft
  <2>2. LeftByTrap(meicontext, n)'
    <3>1. LeftByTrap(meicontext, n)
      BY <1>1, <1>2, <1>3 DEF ContextsKept
    <3>2. QED
      BY <1>2, <1>7, <3>1 DEF LeftByTrap, IsSoft
  <2>3. QED
    BY <1>2, <1>7, <2>1, <2>2 DEF ContextsKept, Serving
<1>13. Seen'
  BY <1>2, <1>4 DEF Seen
<1>14. QED
  BY <1>7, <1>8, <1>9, <1>10, <1>11, <1>12, <1>13 DEF IInv

LEMMA SaveContextStep ==
    ASSUME IInv, checked, SaveContext, checked' = FALSE
    PROVE  IInv'
<1> DEFINE f == [Frame EXCEPT !.context = meicontext]
<1>1. /\ TypeOK /\ CandidatesExact /\ NestingClimbs
      /\ StackShape /\ ContextsKept /\ stack \in Seq(Frames)
  BY DEF IInv, TypeOK
<1>2. /\ pc = "saveContext" /\ pc' = "getIrq"
      /\ stack' = [stack EXCEPT ![Len(stack)].context = meicontext]
      /\ UNCHANGED <<meiea, meipa, meifa, meipra, meicand, meicontext, meie, mie, mpie,
                     mepc, waiting, line>>
      /\ updateMEINEXT /\ interruptsUpdated' = TRUE
  BY DEF SaveContext, goto, mstatusVars
<1>3. PICK n \in Nat : n = Len(stack) /\ n > 0
  BY <1>1, <1>2, InHandler
<1>4. Frame = stack[n] /\ Frame \in Frames /\ mie = FALSE /\ n \in 1 .. Len(stack)
  BY <1>1, <1>2, <1>3, InHandler DEF Frame
<1>5. /\ f \in Frames /\ f.level = stack[n].level /\ f.irq = stack[n].irq
      /\ f.mepc = stack[n].mepc /\ f.context = meicontext
      /\ stack' = [stack EXCEPT ![Len(stack)] = f]
  BY <1>1, <1>2, <1>3, <1>4 DEF TypeOK, Frames
<1> HIDE DEF f
<1>6. WritesFrame(f)
  BY <1>2, <1>4, <1>5 DEF WritesFrame
<1>7. /\ n \in 1 .. n /\ stack' \in Seq(Frames) /\ Len(stack') = n /\ stack' # <<>>
      /\ stack'[n] = f /\ \A k \in 1 .. n - 1 : stack'[k] = stack[k]
      /\ PreemptFollowsNesting'
      /\ \A c : \A k \in 1 .. n : LeftByTrap(c, k) => LeftByTrap(c, k)'
  BY <1>2, <1>3, <1>6, FrameWritten
<1>8. Fresh' /\ TypeOK'
  <2>1. Fresh'
    BY <1>2 DEF updateMEINEXT, Fresh
  <2>2. meinext' \in Irq \cup {NOIRQ}
    <3>1. meicand' \in Seq(Candidate)
      BY <1>1, <1>2 DEF TypeOK, Candidate
    <3>2. QED
      BY <2>1, <3>1, ElementFacts DEF Fresh
  <2>3. QED
    BY <1>1, <1>2, <1>4, <1>7, <2>1, <2>2 DEF TypeOK, Locations
<1>9. CandidatesExact'
  BY <1>1, <1>2 DEF CandidatesExact
<1>10. NestingClimbs'
  <2>1. \A k \in 1 .. n : stack'[k].level = stack[k].level /\ stack'[k].irq = stack[k].irq
    BY <1>5, <1>7
  <2>2. QED
    BY <1>1, <1>2, <1>3, <1>7, <2>1 DEF NestingClimbs
<1>11. StackShape'
  <2>1. stack[n].mepc \in BrokeInto(n)
    BY <1>1, <1>2, <1>3, <1>4 DEF StackShape
  <2>2. Frame'.mepc = stack[n].mepc
    BY <1>5, <1>7 DEF Frame
  <2>3. \A k \in 1 .. n - 1 : stack'[k].irq \in Irq /\ stack'[k].mepc \in BrokeInto(k)
    BY <1>1, <1>3, <1>7 DEF StackShape
  <2>4. QED
    BY <1>2, <1>7, <2>1, <2>2, <2>3 DEF StackShape, Serving, BrokeInto
<1>12. ContextsKept'
  <2>1. ASSUME NEW k \in 1 .. n
        PROVE  LeftByTrap(stack[k].context, k)'
    <3>1. CASE k < n
      <4>1. LeftByTrap(stack[k].context, k) /\ stack'[k] = stack[k]
        BY <1>1, <1>3, <1>7, <3>1 DEF ContextsKept
      <4>2. QED
        BY <1>7, <4>1 DEF LeftByTrap, IsSoft
    <3>2. CASE k = n
      <4>1. LeftByTrap(meicontext, n) /\ stack'[n].context = meicontext
        BY <1>1, <1>2, <1>3, <1>5, <1>7 DEF ContextsKept
      <4>2. LeftByTrap(meicontext, n)'
        BY <1>2, <1>7, <4>1 DEF LeftByTrap, IsSoft
      <4>3. QED
        BY <1>2, <3>2, <4>1, <4>2 DEF LeftByTrap, IsSoft
    <3>3. QED
      BY <3>1, <3>2
  <2>2. QED
    BY <1>2, <1>7, <2>1 DEF ContextsKept, Serving
<1>13. NextShown'
  BY <1>7, <1>8, <1>10, FreshShows, PTL
<1>14. Seen'
  BY <1>2, <1>4 DEF Seen
<1>15. QED
  BY <1>7, <1>8, <1>9, <1>10, <1>11, <1>12, <1>13, <1>14 DEF IInv

LEMMA GetIrqStep ==
    ASSUME IInv, checked, GetIrq, checked' = FALSE
    PROVE  IInv'
<1> DEFINE f == [Frame EXCEPT !.irq = meinext]
           top == IF meicand' # <<>> /\ meicand'[1].priority >= meicontext.ppreempt
                  THEN meicand'[1].irq_number ELSE NOIRQ
           shown == IF meicand' = meicand THEN meinext ELSE top
<1>1. /\ TypeOK /\ CandidatesExact /\ NestingClimbs /\ PreemptFollowsNesting
      /\ StackShape /\ ContextsKept /\ NextShown /\ stack \in Seq(Frames)
  BY DEF IInv, TypeOK
<1>2. /\ pc = "getIrq" /\ pc' = IF meinext = NOIRQ THEN "restore" ELSE "dispatch"
      /\ stack' = [stack EXCEPT ![Len(stack)].irq = meinext]
      /\ UNCHANGED <<meie, mie, mpie, mepc, waiting, line>>
      /\ ReadMEINEXT /\ updateMEINEXT /\ interruptsUpdated' = TRUE
      /\ meicontext' = [meicontext EXCEPT !.irq = shown]
  BY DEF GetIrq, goto, mstatusVars
<1>3. PICK n \in Nat : n = Len(stack) /\ n > 0
  BY <1>1, <1>2, InHandler
<1>4. /\ Frame = stack[n] /\ Frame \in Frames /\ mie = FALSE /\ n \in 1 .. Len(stack)
      /\ meinext \in Irq \cup {NOIRQ}
  BY <1>1, <1>2, <1>3, InHandler DEF Frame, TypeOK
<1>5. /\ f \in Frames /\ f.level = stack[n].level /\ f.irq = meinext
      /\ f.mepc = stack[n].mepc /\ f.context = stack[n].context
      /\ stack' = [stack EXCEPT ![Len(stack)] = f]
  BY <1>1, <1>2, <1>3, <1>4 DEF Frames
<1>6. /\ meifa' \subseteq Irq /\ meipa' \subseteq Irq /\ UNCHANGED <<meiea, meipra>>
      /\ meicand' \in Seq(Candidate) /\ CandidatesExact'
      /\ meinext = NOIRQ \/ ~IsSoft(meinext) => meicand' = meicand
  BY <1>1, <1>2, ReadFollowed
<1>7. top \in Irq \cup {NOIRQ} /\ shown \in Irq \cup {NOIRQ}
  BY <1>4, <1>6, ElementFacts
<1>8. meinext = NOIRQ \/ ~IsSoft(meinext) => shown = meinext
  BY <1>6
<1> HIDE DEF f, top, shown
<1>9. /\ meicontext' \in Contexts /\ meicontext'.irq = shown
      /\ meicontext'.preempt = meicontext.preempt
      /\ meicontext'.ppreempt = meicontext.ppreempt
  BY <1>1, <1>2, <1>7 DEF TypeOK, Contexts
<1>10. WritesFrame(f)
  BY <1>4, <1>5, <1>9 DEF WritesFrame
<1>11. /\ n \in 1 .. n /\ stack' \in Seq(Frames) /\ Len(stack') = n /\ stack' # <<>>
       /\ stack'[n] = f /\ \A k \in 1 .. n - 1 : stack'[k] = stack[k]
       /\ PreemptFollowsNesting'
       /\ \A c : \A k \in 1 .. n : LeftByTrap(c, k) => LeftByTrap(c, k)'
  BY <1>2, <1>3, <1>10, FrameWritten
<1>12. Fresh' /\ TypeOK'
  <2>1. Fresh'
    BY <1>2 DEF updateMEINEXT, Fresh
  <2>2. meinext' \in Irq \cup {NOIRQ}
    BY <1>6, <2>1, ElementFacts DEF Fresh
  <2>3. QED
    BY <1>1, <1>2, <1>4, <1>6, <1>9, <1>11, <2>1, <2>2 DEF TypeOK, Locations, Candidate
<1>13. NestingClimbs'
  <2>1. \A k \in 1 .. n : stack'[k].level = stack[k].level
    BY <1>5, <1>11
  <2>2. \A k \in 1 .. n - 1 : stack'[k].irq = stack[k].irq
    BY <1>11
  <2>3. ASSUME n >= 2, meinext # NOIRQ
        PROVE  meipra[meinext] >= stack[n - 1].level
    <3>1. meicontext.ppreempt = stack[n - 1].level
      BY <1>1, <1>3, <2>3 DEF PreemptFollowsNesting, Level
    <3>2. meicand[1].priority = meipra[meinext] /\ meicand[1].priority >= meicontext.ppreempt
      BY <1>1, <2>3, NextIsBest DEF NextShown
    <3>3. QED
      BY <3>1, <3>2
  <2>4. ASSUME NEW k \in 2 .. n
        PROVE  /\ stack'[k - 1].level < stack'[k].level
               /\ stack'[k].irq # NOIRQ => meipra'[stack'[k].irq] >= stack'[k - 1].level
    <3>1. k \in 1 .. n /\ k - 1 \in 1 .. n /\ k - 1 \in 1 .. n - 1
      BY <1>3
    <3>2. stack[k - 1].level < stack[k].level
      BY <1>1, <1>3 DEF NestingClimbs
    <3>3. CASE k = n
      BY <1>5, <1>6, <1>11, <2>1, <2>3, <3>1, <3>2, <3>3
    <3>4. CASE k # n
      <4>1. k \in 1 .. n - 1
        BY <3>4
      <4>2. stack[k].irq # NOIRQ => meipra[stack[k].irq] >= stack[k - 1].level
        BY <1>1, <1>3 DEF NestingClimbs
      <4>3. QED
        BY <1>6, <2>1, <2>2, <3>1, <3>2, <4>1, <4>2
    <3>5. QED
      BY <3>3, <3>4
  <2>5. QED
    BY <1>11, <2>4 DEF NestingClimbs
<1>14. StackShape'
  <2>1. stack[n].mepc \in BrokeInto(n)
    BY <1>1, <1>2, <1>3, <1>4 DEF StackShape
  <2>2. Frame'.mepc = stack[n].mepc /\ Frame'.irq = meinext
    BY <1>5, <1>11 DEF Frame
  <2>3. \A k \in 1 .. n - 1 : stack'[k].irq \in Irq /\ stack'[k].mepc \in BrokeInto(k)
    BY <1>1, <1>3, <1>11 DEF StackShape
  <2>4. Serving' => Frame'.irq \in Irq
    BY <1>2, <1>4, <2>2 DEF Serving
  <2>5. QED
    BY <1>2, <1>11, <2>1, <2>2, <2>3, <2>4 DEF StackShape, BrokeInto
<1>15. ContextsKept'
  <2>1. ASSUME NEW k \in 1 .. n
        PROVE  LeftByTrap(stack[k].context, k)'
    <3>1. LeftByTrap(stack[k].context, k) /\ stack'[k].context = stack[k].context
      BY <1>1, <1>2, <1>3, <1>5, <1>11 DEF ContextsKept
    <3>2. QED
      BY <1>11, <3>1 DEF LeftByTrap, IsSoft
  <2>2. Serving' /\ ~IsSoft(Frame'.irq) => meicontext'.irq = Frame'.irq
    <3>1. Frame'.irq = meinext
      BY <1>5, <1>11 DEF Frame
    <3>2. QED
      BY <1>8, <1>9, <3>1
  <2>3. QED
    BY <1>2, <1>11, <2>1, <2>2 DEF ContextsKept, IsSoft
<1>16. NextShown'
  BY <1>11, <1>12, <1>13, FreshShows, PTL
<1>17. Seen'
  BY <1>2, <1>4 DEF Seen
<1>18. QED
  BY <1>6, <1>11, <1>12, <1>13, <1>14, <1>15, <1>16, <1>17 DEF IInv

LEMMA RestoreStep ==
    ASSUME IInv, checked, Restore, checked' = FALSE
    PROVE  IInv'
<1>1. /\ TypeOK /\ CandidatesExact /\ NestingClimbs /\ PreemptFollowsNesting
      /\ StackShape /\ ContextsKept /\ NextShown
  BY DEF IInv
<1>2. /\ pc = "restore" /\ pc' = "restoreContext"
      /\ mepc' = Frame.mepc /\ mpie' = Frame.mpie
      /\ UNCHANGED <<meiea, meipa, meifa, meipra, meicand, meinext, meicontext, meie, mie,
                     interruptsUpdated, waiting, stack, line>>
  BY DEF Restore, goto, xh3irqVars
<1>3. stack # <<>> /\ Frame \in Frames /\ mie = FALSE
  BY <1>1, <1>2, InHandler
<1>4. TypeOK'
  BY <1>1, <1>2, <1>3 DEF TypeOK, Locations, Frames
<1>5. CandidatesExact' /\ NestingClimbs' /\ PreemptFollowsNesting' /\ NextShown'
  BY <1>1, <1>2 DEF CandidatesExact, NestingClimbs, PreemptFollowsNesting, NextShown, Level
<1>6. StackShape'
  BY <1>1, <1>2, <1>3 DEF StackShape, Serving, Frame, BrokeInto
<1>7. ContextsKept'
  BY <1>1, <1>2, <1>3 DEF ContextsKept, LeftByTrap, Level, Serving, IsSoft
<1>8. Seen'
  BY <1>2, <1>3 DEF Seen
<1>9. QED
  BY <1>4, <1>5, <1>6, <1>7, <1>8 DEF IInv

LEMMA RestoreContextStep ==
    ASSUME IInv, checked, RestoreContext, checked' = FALSE
    PROVE  IInv'
<1>1. /\ TypeOK /\ CandidatesExact /\ NestingClimbs /\ PreemptFollowsNesting
      /\ StackShape /\ ContextsKept
  BY DEF IInv
<1>2. /\ pc = "restoreContext" /\ pc' = "check" /\ meicontext' = Frame.context
      /\ UNCHANGED <<meiea, meipa, meifa, meipra, meicand, meie, mie, mpie, mepc,
                     waiting, stack, line>>
      /\ updateMEINEXT /\ interruptsUpdated' = TRUE
  BY DEF RestoreContext, goto, mstatusVars
<1>3. /\ stack # <<>> /\ Frame \in Frames /\ mie = FALSE /\ Len(stack) \in 1 .. Len(stack)
  BY <1>1, <1>2, InHandler
<1>4. LeftByTrap(Frame.context, Len(stack))
  BY <1>1, <1>2, <1>3 DEF ContextsKept, Frame
<1>5. Fresh' /\ TypeOK'
  <2>1. Fresh'
    BY <1>2 DEF updateMEINEXT, Fresh
  <2>2. meinext' \in Irq \cup {NOIRQ}
    <3>1. meicand' \in Seq(Candidate)
      BY <1>1, <1>2 DEF TypeOK, Candidate
    <3>2. QED
      BY <2>1, <3>1, ElementFacts DEF Fresh
  <2>3. QED
    BY <1>1, <1>2, <1>3, <2>1, <2>2 DEF TypeOK, Locations, Frames
<1>6. CandidatesExact' /\ NestingClimbs'
  BY <1>1, <1>2 DEF CandidatesExact, NestingClimbs
<1>7. PreemptFollowsNesting'
  BY <1>2, <1>4 DEF PreemptFollowsNesting, LeftByTrap, Level
<1>8. StackShape'
  BY <1>1, <1>2, <1>3 DEF StackShape, Serving, Frame, BrokeInto
<1>9. ContextsKept'
  <2>1. LeftByTrap(meicontext, Len(stack))'
    BY <1>2, <1>4 DEF LeftByTrap, Level, IsSoft
  <2>2. QED
    BY <1>1, <1>2, <1>3, <2>1 DEF ContextsKept, LeftByTrap, Level, Serving, IsSoft
<1>10. NextShown'
  BY <1>5, <1>6, <1>7, FreshShows, PTL
<1>11. Seen'
  BY <1>2, <1>3 DEF Seen
<1>12. QED
  BY <1>5, <1>6, <1>7, <1>8, <1>9, <1>10, <1>11 DEF IInv

LEMMA CheckStep ==
    ASSUME IInv, checked, Check, checked' = FALSE
    PROVE  IInv'
<1>1. /\ TypeOK /\ CandidatesExact /\ NestingClimbs /\ PreemptFollowsNesting
      /\ StackShape /\ ContextsKept /\ NextShown
  BY DEF IInv
<1>2. /\ pc = "check" /\ pc' = IF meinext = NOIRQ THEN "mret" ELSE "saveContext"
      /\ UNCHANGED <<meicontext, meie, mie, mpie, mepc, interruptsUpdated, waiting, stack, line>>
      /\ ReadMEINEXT
      /\ IF meicand' = meicand THEN UNCHANGED meinext ELSE updateMEINEXT
  BY DEF Check, goto, mstatusVars
<1>3. stack # <<>> /\ Frame \in Frames /\ mie = FALSE
  BY <1>1, <1>2, InHandler
<1>4. /\ meifa' \subseteq Irq /\ meipa' \subseteq Irq /\ UNCHANGED <<meiea, meipra>>
      /\ meicand' \in Seq(Candidate) /\ CandidatesExact'
      /\ meinext = NOIRQ \/ ~IsSoft(meinext) => meicand' = meicand
  BY <1>1, <1>2, ReadFollowed
<1>5. Fresh' \/ (UNCHANGED <<meicand, meinext>>)
  BY <1>2 DEF updateMEINEXT, Fresh
<1>6. TypeOK'
  <2>1. meinext' \in Irq \cup {NOIRQ}
    BY <1>1, <1>4, <1>5, ElementFacts DEF Fresh, TypeOK
  <2>2. QED
    BY <1>1, <1>2, <1>3, <1>4, <2>1 DEF TypeOK, Locations, Candidate
<1>7. NestingClimbs' /\ PreemptFollowsNesting'
  BY <1>1, <1>2, <1>4 DEF NestingClimbs, PreemptFollowsNesting, Level
<1>8. StackShape'
  BY <1>1, <1>2, <1>3 DEF StackShape, Serving, Frame, BrokeInto
<1>9. ContextsKept'
  BY <1>1, <1>2, <1>3 DEF ContextsKept, LeftByTrap, Level, Serving, IsSoft
<1>10. NextShown'
  <2>1. CASE Fresh'
    BY <1>6, <1>7, <2>1, FreshShows, PTL
  <2>2. CASE UNCHANGED <<meicand, meinext>>
    BY <1>1, <1>2, <2>2 DEF NextShown
  <2>3. QED
    BY <1>5, <2>1, <2>2
<1>11. Seen'
  BY <1>2, <1>3 DEF Seen
<1>12. QED
  BY <1>4, <1>6, <1>7, <1>8, <1>9, <1>10, <1>11 DEF IInv

\* The return from an exception, to where it happened.
LEMMA ExceptionReturns ==
    ASSUME IInv, checked, Mret, pc = "exception", checked' = FALSE
    PROVE  IInv'
<1>1. /\ TypeOK /\ CandidatesExact /\ NestingClimbs /\ PreemptFollowsNesting
      /\ StackShape /\ ContextsKept /\ NextShown
  BY DEF IInv
<1>2. /\ mie' = mpie /\ mpie' = TRUE /\ pc' = mepc /\ mepc \in {"main", "body"}
      /\ UNCHANGED <<meiea, meipa, meifa, meipra, meicand, meinext, meie, mepc,
                     waiting, stack, line>>
      /\ updateMEICONTEXT_priority_restore /\ interruptsUpdated' = TRUE
  BY <1>1 DEF Mret, goto, xh3irqVars, StackShape
<1>3. UNCHANGED meicontext
  BY <1>1, <1>2 DEF updateMEICONTEXT_priority_restore, ContextsKept
<1>4. TypeOK'
  BY <1>1, <1>2, <1>3 DEF TypeOK
<1>5. CandidatesExact' /\ NestingClimbs' /\ PreemptFollowsNesting'
  BY <1>1, <1>2, <1>3 DEF CandidatesExact, NestingClimbs, PreemptFollowsNesting, Level
<1>6. NextShown'
  BY <1>1, <1>2, <1>3 DEF NextShown
<1>7. StackShape'
  BY <1>1, <1>2 DEF StackShape, Serving, Frame, BrokeInto
<1>8. ContextsKept'
  BY <1>1, <1>2, <1>3 DEF ContextsKept, LeftByTrap, Level, Serving, IsSoft, Frame
<1>9. Seen'
  BY <1>2 DEF Seen
<1>10. QED
  BY <1>4, <1>5, <1>6, <1>7, <1>8, <1>9 DEF IInv

\* The levels below a handler are lower.
LEMMA LevelsClimb ==
    ASSUME TypeOK, NestingClimbs, NEW n \in Nat, n = Len(stack), n > 0
    PROVE  Level(n - 2) <= Level(n - 1)
<1>1. \A k \in 1 .. n : stack[k].level \in 1 .. 16
  BY ElementFacts DEF TypeOK
<1>2. CASE n = 1
  BY <1>2 DEF Level
<1>3. CASE n = 2
  <2>1. stack[1].level \in 1 .. 16
    BY <1>1, <1>3
  <2>2. QED
    BY <1>3, <2>1 DEF Level
<1>4. CASE n > 2
  <2>1. n - 1 \in 2 .. Len(stack) /\ n - 2 \in 1 .. n /\ n - 1 \in 1 .. n
    BY <1>4
  <2>2. stack[n - 2].level < stack[n - 1].level
    <3>1. (n - 1) - 1 = n - 2
      OBVIOUS
    <3>2. stack[(n - 1) - 1].level < stack[n - 1].level
      BY <2>1 DEF NestingClimbs
    <3>3. QED
      BY <3>1, <3>2
  <2>3. stack[n - 2].level \in 1 .. 16 /\ stack[n - 1].level \in 1 .. 16
    BY <1>1, <2>1, Zenon
  <2>4. Level(n - 2) = stack[n - 2].level /\ Level(n - 1) = stack[n - 1].level
    BY <1>4 DEF Level
  <2>5. \A a, b \in 1 .. 16 : a < b => a <= b
    OBVIOUS
  <2>6. QED
    BY <2>2, <2>3, <2>4, <2>5
<1>5. QED
  BY <1>2, <1>3, <1>4

\* The return from a handler, to what it broke into.
LEMMA HandlerReturns ==
    ASSUME IInv, checked, Mret, pc = "mret", checked' = FALSE
    PROVE  IInv'
<1>1. /\ TypeOK /\ CandidatesExact /\ NestingClimbs /\ PreemptFollowsNesting
      /\ StackShape /\ ContextsKept /\ NextShown /\ stack \in Seq(Frames)
  BY DEF IInv, TypeOK
<1>2. /\ mie' = mpie /\ mpie' = TRUE /\ pc' = mepc /\ stack' = Front(stack)
      /\ UNCHANGED <<meiea, meipa, meifa, meipra, meicand, meinext, meie, mepc,
                     waiting, line>>
      /\ updateMEICONTEXT_priority_restore /\ interruptsUpdated' = TRUE
  BY DEF Mret, goto, xh3irqVars
<1>3. PICK n \in Nat : n = Len(stack) /\ n > 0
  BY <1>1, InHandler
<1>4. /\ stack # <<>> /\ n \in 1 .. Len(stack) /\ Frame = stack[n]
      /\ \A k \in 1 .. n : stack[k] \in Frames
  BY <1>1, <1>3, InHandler DEF Frame
<1>5. /\ stack' \in Seq(Frames) /\ Len(stack') = n - 1
      /\ \A k \in 1 .. n - 1 : stack'[k] = stack[k]
  <2>1. stack' = SubSeq(stack, 1, n - 1)
    BY <1>2, <1>3 DEF Front
  <2>2. \A k \in 1 .. n - 1 : stack[k] \in Frames
    BY <1>4
  <2>3. QED
    BY <1>3, <2>1, <2>2, SubSeqProperties
<1>6. stack' = <<>> <=> n = 1
  BY <1>3, <1>5, EmptySeq, SMTT(20)
<1>7. LeftByTrap(meicontext, n)
  BY <1>1, <1>3 DEF ContextsKept
<1>8. /\ meicontext'.preempt = Level(n - 1) /\ meicontext'.ppreempt = Level(n - 2)
      /\ meicontext'.pppreempt = 0 /\ meicontext'.mreteirq = FALSE
      /\ meicontext'.irq = IF meicontext.irq = NOIRQ THEN 0 ELSE meicontext.irq
      /\ meicontext' \in Contexts
  <2>1. meicontext' = [preempt |-> meicontext.ppreempt, ppreempt |-> meicontext.pppreempt,
                       pppreempt |-> 0, mreteirq |-> FALSE,
                       irq |-> IF meicontext.irq = NOIRQ THEN 0 ELSE meicontext.irq]
    BY <1>2, <1>7 DEF updateMEICONTEXT_priority_restore, LeftByTrap
  <2>2. QED
    BY <1>1, <1>7, <2>1, SMTT(20) DEF LeftByTrap, TypeOK, Contexts
<1>9. mepc = stack[n].mepc /\ mepc \in BrokeInto(n)
  BY <1>1, <1>3, <1>4 DEF StackShape
<1>10. \A k \in Int : k <= n - 1 => Level(k)' = Level(k)
  BY <1>5 DEF Level
<1>11. pc' \in {"main", "body", "disable"} /\ (pc' = "main" <=> n = 1)
  BY <1>2, <1>9 DEF BrokeInto
<1>12. TypeOK'
  BY <1>1, <1>2, <1>5, <1>8, <1>11 DEF TypeOK, Locations
<1>13. CandidatesExact'
  BY <1>1, <1>2 DEF CandidatesExact
<1>14. PreemptFollowsNesting'
  <2>1. Level(n - 1)' = Level(n - 1) /\ Level(n - 2)' = Level(n - 2)
    BY <1>3, <1>10
  <2>2. Len(stack') = n - 1 /\ Len(stack') - 1 = n - 2
    BY <1>3, <1>5
  <2>3. QED
    BY <1>8, <2>1, <2>2 DEF PreemptFollowsNesting, Level
<1>15. NestingClimbs'
  <2>1. \A k \in 2 .. n - 1 : k \in 2 .. n /\ k \in 1 .. n - 1 /\ k - 1 \in 1 .. n - 1
    BY <1>3
  <2>2. QED
    BY <1>1, <1>2, <1>3, <1>5, <2>1 DEF NestingClimbs
<1>16. n > 1 => /\ n - 1 \in 1 .. n - 1 /\ stack'[n - 1] = stack[n - 1]
                /\ stack[n - 1].irq \in Irq /\ stack[n - 1].mepc \in BrokeInto(n - 1)
  <2>1. SUFFICES ASSUME n > 1
                 PROVE  /\ n - 1 \in 1 .. n - 1 /\ stack'[n - 1] = stack[n - 1]
                        /\ stack[n - 1].irq \in Irq /\ stack[n - 1].mepc \in BrokeInto(n - 1)
    OBVIOUS
  <2>2. n - 1 \in 1 .. n - 1
    BY <2>1
  <2>3. QED
    BY <1>1, <1>3, <1>5, <2>2 DEF StackShape
<1>17. StackShape'
  <2>1. \A k \in 1 .. (n - 1) - 1 : stack'[k].irq \in Irq /\ stack'[k].mepc \in BrokeInto(k)
    BY <1>1, <1>3, <1>5 DEF StackShape
  <2>2. n > 1 => Frame'.irq \in Irq /\ Frame'.mepc \in BrokeInto(n - 1)
    BY <1>5, <1>16 DEF Frame
  <2>3. stack' # <<>> => n > 1
    BY <1>3, <1>6
  <2>4. QED
    BY <1>5, <1>6, <1>11, <2>1, <2>2, <2>3 DEF StackShape, BrokeInto
<1>18. ContextsKept'
  <2>1. ASSUME NEW k \in 1 .. n - 1
        PROVE  LeftByTrap(stack[k].context, k)'
    <3>1. k < n /\ k \in 1 .. n /\ stack'[k] = stack[k]
      BY <1>3, <1>5
    <3>2. LeftByTrap(stack[k].context, k)
      BY <1>1, <1>3, <3>1 DEF ContextsKept
    <3>3. Level(k)' = Level(k) /\ Level(k - 1)' = Level(k - 1) /\ Level(k - 2)' = Level(k - 2)
      BY <1>3, <1>10
    <3>4. k > 1 => stack'[k - 1] = stack[k - 1]
      BY <1>3, <1>5
    <3>5. QED
      BY <3>1, <3>2, <3>3, <3>4 DEF LeftByTrap, IsSoft
  <2>2. stack' # <<>> /\ ~IsSoft(Frame'.irq) => meicontext'.irq = Frame'.irq
    <3>1. SUFFICES ASSUME stack' # <<>>, ~IsSoft(Frame'.irq) PROVE meicontext'.irq = Frame'.irq
      OBVIOUS
    <3>2. n > 1 /\ Frame'.irq = stack[n - 1].irq /\ stack[n - 1].irq # NOIRQ
      BY <1>3, <1>5, <1>6, <1>16, <3>1, Numbers DEF Frame
    <3>3. meicontext.irq = stack[n - 1].irq
      BY <1>7, <3>1, <3>2 DEF LeftByTrap
    <3>4. QED
      BY <1>8, <3>2, <3>3
  <2>3. QED
    BY <1>5, <1>11, <2>1, <2>2 DEF ContextsKept, IsSoft
<1>19. NextShown'
  <2>1. meicontext.ppreempt = Level(n - 1) /\ Level(n - 2) <= Level(n - 1)
    BY <1>1, <1>3, <1>7, LevelsClimb DEF LeftByTrap
  <2>2. /\ meicontext.ppreempt \in Int /\ meicontext'.ppreempt \in Int
        /\ meicontext'.ppreempt <= meicontext.ppreempt
        /\ meicontext'.preempt = meicontext.ppreempt
    BY <1>1, <1>8, <2>1 DEF TypeOK, Contexts
  <2>3. meicand # <<>> => meicand[1].priority \in Int
    <3>1. meicand \in Seq(Candidate)
      BY <1>1 DEF TypeOK, Candidate
    <3>2. QED
      BY <3>1, ElementFacts
  <2>4. QED
    BY <1>1, <1>2, <1>11, <2>2, <2>3 DEF NextShown
<1>20. Seen'
  BY <1>2 DEF Seen
<1>21. QED
  BY <1>12, <1>13, <1>14, <1>15, <1>17, <1>18, <1>19, <1>20 DEF IInv

-----------------------------------------------------------------------------
(* The theorems. *)

LEMMA InitInvariant == Init => IInv
<1> SUFFICES ASSUME Init PROVE IInv
  OBVIOUS
<1>1. TypeOK
  <2>1. meipra \in [Irq -> Prio]
    BY PrioAssumption DEF Init
  <2>2. meicontext \in Contexts
    BY DEF Init, Contexts
  <2>3. meicand \in Seq([irq_number : Irq, priority : Prio]) /\ stack \in Seq(Frames)
    BY EmptySeq DEF Init
  <2>4. /\ meie = FALSE /\ mie = FALSE /\ mpie = FALSE
        /\ interruptsUpdated = FALSE /\ waiting = FALSE /\ checked = FALSE
    BY DEF Init
  <2>5. /\ meiea \subseteq Irq /\ meipa \subseteq Irq /\ meifa \subseteq Irq
        /\ meinext \in Irq \cup {NOIRQ} /\ line \subseteq Irq
        /\ mepc \in Locations /\ pc \in Locations
    BY DEF Init, Locations
  <2>6. QED
    BY <2>1, <2>2, <2>3, <2>4, <2>5 DEF TypeOK
<1>2. CandidatesExact
  BY DEF Init, CandidatesExact
<1>3. PreemptFollowsNesting /\ NestingClimbs
  BY DEF Init, PreemptFollowsNesting, NestingClimbs, Level
<1>4. StackShape
  BY DEF Init, StackShape, Serving
<1>5. ContextsKept
  BY DEF Init, ContextsKept, Serving
<1>6. NextShown /\ Seen
  BY DEF Init, NextShown, Seen, Deliverable
<1>7. QED
  BY <1>1, <1>2, <1>3, <1>4, <1>5, <1>6 DEF IInv

LEMMA NextInvariant == IInv /\ [Next]_vars => IInv'
<1> SUFFICES ASSUME IInv, [Next]_vars PROVE IInv'
  OBVIOUS
<1>1. CASE \E i \in Irq : Raise(i) \/ Lower(i)
  BY <1>1, RaiseStep, LowerStep
<1>2. CASE checkForInterrupts
  BY <1>2, CheckForInterruptsStep
<1>3. CASE Instruction
  <2>1. checked /\ checked' = FALSE
    BY <1>3 DEF Instruction
  <2>2. CASE Main
    BY <2>1, <2>2, MainActions
  <2>3. CASE Save
    BY <2>1, <2>3, SaveStep
  <2>4. CASE SaveContext
    BY <2>1, <2>4, SaveContextStep
  <2>5. CASE GetIrq
    BY <2>1, <2>5, GetIrqStep
  <2>6. CASE Dispatch
    BY <2>1, <2>6, DispatchStep
  <2>7. CASE BodyTraps
    BY <2>1, <2>7, EcallStep DEF BodyTraps
  <2>8. CASE BodyEnds
    BY <2>1, <2>8, BodyEndsStep
  <2>9. CASE Disable
    BY <2>1, <2>9, DisableStep
  <2>10. CASE Restore
    BY <2>1, <2>10, RestoreStep
  <2>11. CASE RestoreContext
    BY <2>1, <2>11, RestoreContextStep
  <2>12. CASE Check
    BY <2>1, <2>12, CheckStep
  <2>13. CASE Mret
    BY <2>1, <2>13, ExceptionReturns, HandlerReturns DEF Mret
  <2>14. QED
    BY <1>3, <2>2, <2>3, <2>4, <2>5, <2>6, <2>7, <2>8, <2>9, <2>10, <2>11, <2>12,
       <2>13 DEF Instruction
<1>4. CASE UNCHANGED vars
  BY <1>4 DEF vars, xh3irqVars, mstatusVars, IInv, TypeOK, CandidatesExact,
     PreemptFollowsNesting, NestingClimbs, Level, StackShape, Serving, Frame, BrokeInto,
     ContextsKept, LeftByTrap, IsSoft, NextShown, Seen, Deliverable
<1>5. QED
  BY <1>1, <1>2, <1>3, <1>4 DEF Next

\* Every instruction, trap and device leaves the Xh3irq arrays, MEICONTEXT and the stack
\* of handlers as IInv says: the conjunction that is inductive (cpu.ts:180-330).
THEOREM Invariance == Spec => []IInv
BY InitInvariant, NextInvariant, PTL DEF Spec

\* The variables keep their types; in particular no level of MEICONTEXT outgrows its
\* field, however deep the handlers nest.
THEOREM TypesKept == Spec => []TypeOK
<1>1. IInv => TypeOK
  BY DEF IInv
<1>2. QED
  BY <1>1, Invariance, PTL

\* The Xh3irq arrays always list exactly the interrupts enabled and pending, in order,
\* whatever order they were raised, lowered, enabled, forced and read in (setInterrupt,
\* setInterruptEnabled, the MEIPRA and MEIFA writes and the reads of MEINEXT).
THEOREM CandidatesAlwaysExact == Spec => []CandidatesExact
<1>1. IInv => CandidatesExact
  BY DEF IInv
<1>2. QED
  BY <1>1, Invariance, PTL

\* MEICONTEXT's levels follow the nesting of the handlers through every trap, exception
\* and return, handlers only interrupt what is below them, and the context names the
\* interrupt that is served.
THEOREM NestingAlwaysSound == Spec => []NestingSound
<1>1. IInv => NestingSound
  <2>1. SUFFICES ASSUME IInv, pc = "body", ~IsSoft(Frame.irq) PROVE meicontext.irq = Frame.irq
    BY DEF IInv, NestingSound, ContextNamesIrq
  <2>2. QED
    BY <2>1 DEF IInv, ContextsKept, StackShape, Serving
<1>2. QED
  BY <1>1, Invariance, PTL

\* An interrupt that is enabled, pending and allowed to preempt is looked for by the next
\* instruction: interruptsUpdated is set whenever there is something to find.
THEOREM DeliverableAlwaysSeen == Spec => []DeliverableIsSeen
<1>1. IInv => DeliverableIsSeen
  BY DEF IInv, Seen, DeliverableIsSeen
<1>2. QED
  BY <1>1, Invariance, PTL
=============================================================================

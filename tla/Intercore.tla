----------------------------- MODULE Intercore ------------------------------
(* The spinlocks and doorbells of RPSIO (sio_rp2350.ts), and the firmware of *)
(* two cores that leave requests in each other's box with them: the boxes    *)
(* are guarded by spinlocks, and a bell tells the owner of a box to look.    *)
(* A register access is one step; so is a read or a write of a box.  The     *)
(* cores are those of SioFifo, whose FIFOs are not used here.                *)
EXTENDS SioFifo

CONSTANTS Lock, Bell, Sender, Guard
\* Sender[b] is the core that uses bell b, Guard[c] the spinlock of the box of c.

ASSUME FirmwareAssumption == Bell # {} /\ Sender \in [Bell -> Core] /\ Guard \in [Core -> Lock]

VARIABLES
    spinLock,    \* the spinlocks that are taken
    doorbellIn,  \* [Core -> its bells that are rung]
    bellIrq,     \* [Core -> the level of its SIO_IRQ_BELL]
    box,         \* [Core -> the requests left for it, by their bells]
    at,          \* [Thread -> where it is]
    job,         \* [Core -> what its main thread is at: target, bell, undo]
    copy,        \* [Thread -> the box as it read it]
    seen         \* [Core -> the bells its handler is answering]

registers == <<spinLock, doorbellIn, bellIrq>>
intercoreVars == <<registers, box, at, job, copy, seen>>

\* A core has a main thread and the handler of its bell interrupt.
Thread == Core \X {"main", "handler"}
Target(k) == IF k[2] = "main" THEN job[k[1]].target ELSE k[1]
NoJob(c) == [target |-> c, bell |-> CHOOSE b \in Bell : TRUE, undo |-> FALSE]
Goes(k, from, to) == at[k] = from /\ at' = [at EXCEPT ![k] = to]

IntercoreInit ==
    /\ spinLock = {}
    /\ doorbellIn = [c \in Core |-> {}]
    /\ bellIrq = [c \in Core |-> FALSE]
    /\ box = [c \in Core |-> {}]
    /\ at = [k \in Thread |-> "out"]
    /\ job = [c \in Core |-> NoJob(c)]
    /\ copy = [k \in Thread |-> {}]
    /\ seen = [c \in Core |-> {}]

-----------------------------------------------------------------------------
(* The registers. *)

\* Mistake: the lock that is read as free is not taken.
ReadSpinlockOnly(l) == l \notin spinLock /\ UNCHANGED spinLock

\* A read of SPINLOCKl takes it and is not 0, if nobody has it.
ReadSpinlock(l) == l \notin spinLock /\ spinLock' = spinLock \cup {l}
WriteSpinlock(l) == spinLock' = spinLock \ {l}

ringDoorbell(target, setMask, clearMask) ==
    /\ doorbellIn' = [doorbellIn EXCEPT ![target] = (@ \cup setMask) \ clearMask]
    /\ bellIrq' = [bellIrq EXCEPT ![target] = doorbellIn'[target] # {}]

\* DOORBELL_OUT_* when the target is the other core, DOORBELL_IN_* when it is the core itself.
WriteDoorbellSet(target, bells) == ringDoorbell(target, bells, {})
WriteDoorbellClr(target, bells) == ringDoorbell(target, {}, bells)

-----------------------------------------------------------------------------
(* The firmware.  A thread that wants a spinlock turns the core's interrupts *)
(* off, and turns them on again when it has given the lock back.             *)

Masked(c) == at[<<c, "main">>] \in {"lock", "read", "write", "unlock"}
Runs(k) == k[2] = "main" => at[<<k[1], "handler">>] = "out"

\* A request that is to be left in a box, or taken back.
Begin(c, target, b, undo) ==
    /\ Goes(<<c, "main">>, "out", "lock") /\ Sender[b] = c
    /\ job' = [job EXCEPT ![c] = [target |-> target, bell |-> b, undo |-> undo]]
    /\ UNCHANGED <<registers, box, copy, seen>>

Interrupt(c) ==
    /\ bellIrq[c] /\ ~Masked(c)
    /\ Goes(<<c, "handler">>, "out", "look")
    /\ UNCHANGED <<registers, box, job, copy, seen>>

Look(c) ==
    /\ Goes(<<c, "handler">>, "look", "answer")
    /\ seen' = [seen EXCEPT ![c] = doorbellIn[c]]
    /\ UNCHANGED <<registers, box, job, copy>>

Answer(c) ==
    /\ Goes(<<c, "handler">>, "answer", "lock")
    /\ WriteDoorbellClr(c, seen[c])
    /\ UNCHANGED <<spinLock, box, job, copy, seen>>

Acquire(k) ==
    /\ Goes(k, "lock", "read") /\ ReadSpinlock(Guard[Target(k)])
    /\ UNCHANGED <<doorbellIn, bellIrq, box, job, copy, seen>>

ReadBox(k) ==
    /\ Goes(k, "read", "write")
    /\ copy' = [copy EXCEPT ![k] = box[Target(k)]]
    /\ UNCHANGED <<registers, box, job, seen>>

\* The main thread leaves a request or takes it back, the handler takes what it has seen.
Edited(k) ==
    CASE k[2] = "handler" -> copy[k] \ seen[k[1]]
      [] k[2] = "main" /\ job[k[1]].undo -> copy[k] \ {job[k[1]].bell}
      [] k[2] = "main" /\ ~job[k[1]].undo -> copy[k] \cup {job[k[1]].bell}

WriteBox(k) ==
    /\ Goes(k, "write", "unlock")
    /\ box' = [box EXCEPT ![Target(k)] = Edited(k)]
    /\ copy' = [copy EXCEPT ![k] = {}]
    /\ seen' = IF k[2] = "handler" THEN [seen EXCEPT ![k[1]] = {}] ELSE seen
    /\ UNCHANGED <<registers, job>>

Give(k) ==
    /\ Goes(k, "unlock", IF k[2] = "main" THEN "ring" ELSE "out")
    /\ WriteSpinlock(Guard[Target(k)])
    /\ UNCHANGED <<doorbellIn, bellIrq, box, job, copy, seen>>

RingBell(c) ==
    /\ Goes(<<c, "main">>, "ring", "out")
    /\ IF job[c].undo THEN WriteDoorbellClr(job[c].target, {job[c].bell})
                      ELSE WriteDoorbellSet(job[c].target, {job[c].bell})
    /\ job' = [job EXCEPT ![c] = NoJob(c)]
    /\ UNCHANGED <<spinLock, box, copy, seen>>

IntercoreNext ==
    \/ \E c \in Core :
        \/ Runs(<<c, "main">>) /\ (RingBell(c) \/ \E t \in Core, b \in Bell, undo \in BOOLEAN : Begin(c, t, b, undo))
        \/ Interrupt(c) \/ Look(c) \/ Answer(c)
    \/ \E k \in Thread : Runs(k) /\ (Acquire(k) \/ ReadBox(k) \/ WriteBox(k) \/ Give(k))

IntercoreSpec == IntercoreInit /\ [][IntercoreNext]_intercoreVars

-----------------------------------------------------------------------------
(* Properties. *)

Critical == {"read", "write", "unlock"}

\* No two threads are at the box of a core at once, so none overwrites what
\* another has written there: a spinlock is given to one reader (sio_rp2350.ts:72).
MutualExclusion ==
    \A k, j \in Thread : k # j /\ at[k] \in Critical /\ at[j] \in Critical => Guard[Target(k)] # Guard[Target(j)]

\* No request is forgotten: of each, its bell is rung, or its sender is about to
\* ring, or the handler of its core has seen the bell and is about to take it,
\* however ringing, answering and taking back race.
Announced ==
    \A c \in Core : \A b \in box[c] :
        \/ b \in doorbellIn[c] /\ bellIrq[c]
        \/ at[<<c, "handler">>] \in {"answer", "lock", "read", "write"} /\ b \in seen[c]
        \/ LET s == Sender[b] IN at[<<s, "main">>] \in {"unlock", "ring"} /\ job[s] = [target |-> c, bell |-> b, undo |-> FALSE]

IntercoreSound == MutualExclusion /\ Announced
=============================================================================

------------------------------- MODULE RwLatch -------------------------------
(***************************************************************************)
(* ReaderWriterLatch (common/rwlatch.cpp), the latch every Page carries: a *)
(* monitor with a mutex and two condition variables.                       *)
(*                                                                         *)
(* What a thread does between taking mutex_ and releasing it, at the end   *)
(* of the call or in a wait, is one action.  A thread that waits is in the *)
(* set asleep; a notification, or nothing at all (a spurious wakeup),      *)
(* takes it out, and it evaluates its loop condition again.                *)
(***************************************************************************)
EXTENDS Integers, FiniteSets

CONSTANTS Threads,      \* the threads that use the latch
          MAX_READERS   \* UINT_MAX in the program

ASSUME LatchAssumption ==
    /\ IsFiniteSet(Threads)
    /\ MAX_READERS \in Nat \ {0}

VARIABLES
    reader_count_,     \* readers that hold the latch
    writer_entered_,   \* a writer holds the latch or waits for readers to leave
    pc,                \* pc[t]: where thread t is (see Places)
    asleep             \* threads that wait on a condition variable

vars == <<reader_count_, writer_entered_, pc, asleep>>

\* "wEnter" is the first loop of WLock, "wDrain" its second loop, "rEnter" the
\* loop of RLock; "writing" and "reading" hold the latch.
Places == {"idle", "wEnter", "wDrain", "writing", "rEnter", "reading"}

At(place) == {t \in Threads : pc[t] = place}

\* The threads that wait on each condition variable.
writer_ == asleep \cap At("wDrain")
reader_ == asleep \cap (At("wEnter") \cup At("rEnter"))

TypeOK ==
    /\ reader_count_ \in 0 .. MAX_READERS
    /\ writer_entered_ \in BOOLEAN
    /\ pc \in [Threads -> Places]
    /\ asleep \subseteq At("wEnter") \cup At("wDrain") \cup At("rEnter")

Init ==
    /\ reader_count_ = 0
    /\ writer_entered_ = FALSE
    /\ pc = [t \in Threads |-> "idle"]
    /\ asleep = {}

Goto(t, place) == pc' = [pc EXCEPT ![t] = place]
Awake(t, place) == pc[t] = place /\ t \notin asleep
wait(t) == asleep' = asleep \cup {t}

\* Afterwards, one thread of the wait set is awake, if there was one.
notify_one(waiters) ==
    IF waiters = {} THEN UNCHANGED asleep
    ELSE \E t \in waiters : asleep' = asleep \ {t}
notify_all(waiters) == asleep' = asleep \ waiters

-----------------------------------------------------------------------------

\* A thread calls WLock or RLock.
CallWLock(t) ==
    /\ pc[t] = "idle"
    /\ Goto(t, "wEnter")
    /\ UNCHANGED <<reader_count_, writer_entered_, asleep>>

CallRLock(t) ==
    /\ pc[t] = "idle"
    /\ Goto(t, "rEnter")
    /\ UNCHANGED <<reader_count_, writer_entered_, asleep>>

\* Mutant: WLock does not look for another writer.
MayEnterAnyTime == TRUE

\* The condition that ends the first loop of WLock.
MayEnter == ~writer_entered_

\* while (writer_entered_) reader_.wait(latch); then on to the second loop.
WLockEnter(t) ==
    /\ Awake(t, "wEnter")
    /\ \/ /\ ~MayEnter
          /\ wait(t)
          /\ UNCHANGED <<writer_entered_, pc>>
       \/ /\ MayEnter
          /\ writer_entered_' = TRUE
          /\ IF reader_count_ > 0
             THEN Goto(t, "wDrain") /\ wait(t)
             ELSE Goto(t, "writing") /\ UNCHANGED asleep
    /\ UNCHANGED reader_count_

\* while (reader_count_ > 0) writer_.wait(latch), after a wakeup.
WLockDrain(t) ==
    /\ Awake(t, "wDrain")
    /\ \/ reader_count_ > 0 /\ wait(t) /\ UNCHANGED pc
       \/ reader_count_ = 0 /\ Goto(t, "writing") /\ UNCHANGED asleep
    /\ UNCHANGED <<reader_count_, writer_entered_>>

\* Mutant: only one of the waiting threads is woken.
WUnlockOne(t) ==
    /\ pc[t] = "writing"
    /\ writer_entered_' = FALSE
    /\ notify_one(reader_)
    /\ Goto(t, "idle")
    /\ UNCHANGED reader_count_

WUnlock(t) ==
    /\ pc[t] = "writing"
    /\ writer_entered_' = FALSE
    /\ notify_all(reader_)
    /\ Goto(t, "idle")
    /\ UNCHANGED reader_count_

\* Mutant: RLock ignores a writer that waits or writes.
MayReadAnyTime == reader_count_ # MAX_READERS

\* The condition that ends the loop of RLock.
MayRead == ~writer_entered_ /\ reader_count_ # MAX_READERS

RLockEnter(t) ==
    /\ Awake(t, "rEnter")
    /\ \/ /\ ~MayRead
          /\ wait(t)
          /\ UNCHANGED <<reader_count_, pc>>
       \/ /\ MayRead
          /\ reader_count_' = reader_count_ + 1
          /\ Goto(t, "reading")
          /\ UNCHANGED asleep
    /\ UNCHANGED writer_entered_

\* Mutant: the writer is notified while a reader is still inside.
notifyTooEarly(count) ==
    IF writer_entered_
    THEN IF count = 1 THEN notify_one(writer_) ELSE UNCHANGED asleep
    ELSE IF count = MAX_READERS - 1 THEN notify_one(reader_) ELSE UNCHANGED asleep

\* Whom RUnlock wakes when it leaves count readers inside.
notifyAfterRead(count) ==
    IF writer_entered_
    THEN IF count = 0 THEN notify_one(writer_) ELSE UNCHANGED asleep
    ELSE IF count = MAX_READERS - 1 THEN notify_one(reader_) ELSE UNCHANGED asleep

RUnlock(t) ==
    /\ pc[t] = "reading"
    /\ reader_count_' = reader_count_ - 1
    /\ notifyAfterRead(reader_count_ - 1)
    /\ Goto(t, "idle")
    /\ UNCHANGED writer_entered_

\* A condition variable may wake a thread for no reason.
SpuriousWakeup(t) ==
    /\ t \in asleep
    /\ asleep' = asleep \ {t}
    /\ UNCHANGED <<reader_count_, writer_entered_, pc>>

\* What a thread inside a call, or holding the latch, goes on to do.
Proceed(t) == WLockEnter(t) \/ WLockDrain(t) \/ WUnlock(t) \/ RLockEnter(t) \/ RUnlock(t)

Next == \E t \in Threads : CallWLock(t) \/ CallRLock(t) \/ Proceed(t) \/ SpuriousWakeup(t)

Spec == Init /\ [][Next]_vars

\* A thread that is not asleep gets the mutex in the end, and does not hold the
\* latch forever.  Nothing makes threads call, or wakeups happen by themselves.
FairSpec == Spec /\ \A t \in Threads : WF_vars(Proceed(t))

-----------------------------------------------------------------------------

\* Readers and writers exclude each other, and writers one another.
MutualExclusion ==
    \A t, u \in Threads :
        pc[t] = "writing" /\ t # u => pc[u] \notin {"writing", "reading"}

\* The two fields say who is inside: the count is the number of readers, and
\* the flag belongs to exactly one writer, who keeps new readers out.
FieldsMatchHolders ==
    /\ reader_count_ = Cardinality(At("reading"))
    /\ writer_entered_ <=> At("wDrain") \cup At("writing") # {}
    /\ \A t, u \in At("wDrain") \cup At("writing") : t = u
    /\ At("writing") # {} => reader_count_ = 0

\* A writer that has set the flag gets the latch once the readers have left:
\* the last one's notification reaches it and no new reader slips in.
WriterGetsIn == \A t \in Threads : pc[t] = "wDrain" ~> pc[t] = "writing"

\* Nobody sleeps on after the latch was freed: a thread that wants it gets it,
\* or else writers keep coming in.
NoLostWakeup ==
    \A t \in Threads :
        /\ pc[t] = "rEnter" ~> pc[t] = "reading" \/ At("writing") # {}
        /\ pc[t] = "wEnter" ~> pc[t] = "writing" \/ At("wDrain") \cup At("writing") # {}

=============================================================================

---------------------------- MODULE RwLatchProofs ----------------------------
(***************************************************************************)
(* Mutual exclusion of ReaderWriterLatch for any number of threads and any *)
(* MAX_READERS.  The inductive invariant is TypeOK with FieldsMatchHolders:*)
(* mutual exclusion alone is not inductive, because WLock decides by       *)
(* reader_count_ and RLock by writer_entered_, never by who is inside.     *)
(***************************************************************************)
EXTENDS RwLatch, FiniteSetTheorems, TLAPS

LatchInv == TypeOK /\ FieldsMatchHolders

\* How the sets At(place) change when one thread moves: it leaves the place it
\* was at and arrives where it goes, and nobody else moves.
LEMMA MoveAt ==
    ASSUME NEW t \in Threads, pc \in [Threads -> Places],
           NEW to \in Places, Goto(t, to),
           NEW place \in Places
    PROVE  At(place)' = IF place = to THEN At(place) \cup {t}
                        ELSE IF place = pc[t] THEN At(place) \ {t}
                        ELSE At(place)
  BY DEF At, Goto

\* The sets At(place) are finite, so counting readers makes sense.
LEMMA AtFinite ==
    ASSUME NEW place \in Places
    PROVE  IsFiniteSet(At(place))
<1>1. At(place) \subseteq Threads
  BY DEF At
<1> QED
  BY <1>1, LatchAssumption, FS_Subset DEF LatchAssumption

\* A default-constructed latch satisfies the invariant.
LEMMA LatchInitial == Init => LatchInv
<1> SUFFICES ASSUME Init PROVE LatchInv
  OBVIOUS
<1>1. At("reading") = {} /\ At("wDrain") = {} /\ At("writing") = {}
  BY DEF Init, At
<1>2. Cardinality(At("reading")) = 0
  BY <1>1, FS_EmptySet
<1>3. TypeOK
  <2>1. 0 \in 0 .. MAX_READERS
    BY LatchAssumption
  <2>2. pc \in [Threads -> Places]
    BY DEF Init, Places
  <2>3. writer_entered_ \in BOOLEAN /\ asleep = {} /\ reader_count_ = 0
    BY DEF Init
  <2> QED
    BY <2>1, <2>2, <2>3 DEF TypeOK
<1>4. FieldsMatchHolders
  BY <1>1, <1>2 DEF Init, FieldsMatchHolders
<1> QED
  BY <1>3, <1>4 DEF LatchInv

\* One more reader is inside after RLock, one less after RUnlock.
LEMMA CountReaders ==
    ASSUME NEW t \in Threads
    PROVE  /\ t \notin At("reading") => Cardinality(At("reading") \cup {t}) = Cardinality(At("reading")) + 1
           /\ t \in At("reading") => Cardinality(At("reading") \ {t}) = Cardinality(At("reading")) - 1
           /\ t \in At("reading") => Cardinality(At("reading")) > 0
           /\ Cardinality(At("reading")) \in Nat
           /\ Cardinality(At("reading")) = 0 <=> At("reading") = {}
<1>1. IsFiniteSet(At("reading"))
  BY AtFinite DEF Places
<1>2. Cardinality(At("reading")) \in Nat
  BY <1>1, FS_CardinalityType
<1>3. Cardinality(At("reading")) = 0 <=> At("reading") = {}
  BY <1>1, FS_EmptySet
<1>4. t \notin At("reading") => Cardinality(At("reading") \cup {t}) = Cardinality(At("reading")) + 1
  BY <1>1, FS_AddElement
<1>5. t \in At("reading") => Cardinality(At("reading") \ {t}) = Cardinality(At("reading")) - 1
  BY <1>1, FS_RemoveElement
<1> QED
  BY <1>2, <1>3, <1>4, <1>5

\* Every step of every thread keeps the invariant.
LEMMA LatchStep == LatchInv /\ [Next]_vars => LatchInv'
<1> SUFFICES ASSUME LatchInv, [Next]_vars PROVE LatchInv'
  OBVIOUS
<1> USE DEF LatchInv
<1>0. MAX_READERS \in Nat \ {0} /\ pc \in [Threads -> Places] /\ asleep \subseteq Threads
  BY LatchAssumption DEF LatchAssumption, TypeOK, At
<1>1. ASSUME NEW t \in Threads, CallWLock(t) PROVE LatchInv'
  <2>1. /\ At("reading")' = At("reading") /\ At("writing")' = At("writing")
        /\ At("wDrain")' = At("wDrain") /\ At("rEnter")' = At("rEnter")
        /\ At("wEnter")' = At("wEnter") \cup {t}
    BY <1>0, <1>1, MoveAt DEF CallWLock, Places
  <2> QED
    BY <1>0, <1>1, <2>1 DEF CallWLock, TypeOK, FieldsMatchHolders, Goto, Places
<1>2. ASSUME NEW t \in Threads, CallRLock(t) PROVE LatchInv'
  <2>1. /\ At("reading")' = At("reading") /\ At("writing")' = At("writing")
        /\ At("wDrain")' = At("wDrain") /\ At("rEnter")' = At("rEnter") \cup {t}
        /\ At("wEnter")' = At("wEnter")
    BY <1>0, <1>2, MoveAt DEF CallRLock, Places
  <2> QED
    BY <1>0, <1>2, <2>1 DEF CallRLock, TypeOK, FieldsMatchHolders, Goto, Places
<1>3. ASSUME NEW t \in Threads, WLockEnter(t) PROVE LatchInv'
  <2>0. t \in At("wEnter") /\ t \notin asleep
    BY <1>3 DEF WLockEnter, MayEnter, Awake, At
  <2>1. CASE writer_entered_
    <3>1. UNCHANGED <<reader_count_, writer_entered_, pc>> /\ asleep' = asleep \cup {t}
      BY <1>3, <2>1 DEF WLockEnter, MayEnter, wait
    <3> QED
      BY <3>1, <2>0 DEF TypeOK, FieldsMatchHolders, At
  <2>2. CASE ~writer_entered_ /\ reader_count_ > 0
    <3>1. /\ writer_entered_' = TRUE /\ Goto(t, "wDrain")
          /\ asleep' = asleep \cup {t} /\ UNCHANGED reader_count_
      BY <1>3, <2>2 DEF WLockEnter, MayEnter, wait
    <3>2. /\ At("reading")' = At("reading") /\ At("writing")' = At("writing")
          /\ At("wDrain")' = At("wDrain") \cup {t} /\ At("rEnter")' = At("rEnter")
          /\ At("wEnter")' = At("wEnter") \ {t}
      BY <1>0, <2>0, <3>1, MoveAt DEF Places, At
    <3>3. At("wDrain") = {} /\ At("writing") = {}
      BY <2>2 DEF FieldsMatchHolders
    <3>4. TypeOK'
      BY <1>0, <3>1, <3>2 DEF TypeOK, Goto, Places
    <3>5. FieldsMatchHolders'
      BY <2>2, <3>1, <3>2, <3>3 DEF FieldsMatchHolders
    <3> QED
      BY <3>4, <3>5
  <2>3. CASE ~writer_entered_ /\ ~(reader_count_ > 0)
    <3>1. /\ writer_entered_' = TRUE /\ Goto(t, "writing")
          /\ asleep' = asleep /\ UNCHANGED reader_count_
      BY <1>3, <2>3 DEF WLockEnter, MayEnter
    <3>2. /\ At("reading")' = At("reading") /\ At("writing")' = At("writing") \cup {t}
          /\ At("wDrain")' = At("wDrain") /\ At("rEnter")' = At("rEnter")
          /\ At("wEnter")' = At("wEnter") \ {t}
      BY <1>0, <2>0, <3>1, MoveAt DEF Places, At
    <3>3. At("wDrain") = {} /\ At("writing") = {} /\ reader_count_ = 0
      BY <2>3 DEF FieldsMatchHolders, TypeOK
    <3>4. TypeOK'
      BY <1>0, <2>0, <3>1, <3>2 DEF TypeOK, Goto, Places
    <3>5. FieldsMatchHolders'
      BY <3>1, <3>2, <3>3 DEF FieldsMatchHolders
    <3> QED
      BY <3>4, <3>5
  <2> QED
    BY <2>1, <2>2, <2>3
<1>4. ASSUME NEW t \in Threads, WLockDrain(t) PROVE LatchInv'
  <2>0. t \in At("wDrain") /\ t \notin asleep
    BY <1>4 DEF WLockDrain, Awake, At
  <2>1. CASE reader_count_ > 0 /\ wait(t) /\ UNCHANGED pc
    <3>1. UNCHANGED <<reader_count_, writer_entered_, pc>> /\ asleep' = asleep \cup {t}
      BY <1>4, <2>1 DEF WLockDrain, wait
    <3> QED
      BY <3>1, <2>0 DEF TypeOK, FieldsMatchHolders, At
  <2>2. CASE reader_count_ = 0 /\ Goto(t, "writing") /\ UNCHANGED asleep
    <3>1. UNCHANGED <<reader_count_, writer_entered_>>
      BY <1>4 DEF WLockDrain
    <3>2. /\ At("reading")' = At("reading") /\ At("writing")' = At("writing") \cup {t}
          /\ At("wDrain")' = At("wDrain") \ {t} /\ At("rEnter")' = At("rEnter")
          /\ At("wEnter")' = At("wEnter")
      BY <1>0, <2>0, <2>2, MoveAt DEF Places, At
    <3>3. TypeOK'
      BY <1>0, <2>0, <2>2, <3>1, <3>2 DEF TypeOK, Goto, Places
    <3>4. FieldsMatchHolders'
      BY <2>0, <2>2, <3>1, <3>2 DEF FieldsMatchHolders
    <3> QED
      BY <3>3, <3>4
  <2> QED
    BY <1>4, <2>1, <2>2 DEF WLockDrain
<1>5. ASSUME NEW t \in Threads, WUnlock(t) PROVE LatchInv'
  <2>0. t \in At("writing")
    BY <1>5 DEF WUnlock, At
  <2>1. /\ At("reading")' = At("reading") /\ At("writing")' = At("writing") \ {t}
        /\ At("wDrain")' = At("wDrain") /\ At("rEnter")' = At("rEnter")
        /\ At("wEnter")' = At("wEnter")
    BY <1>0, <1>5, MoveAt DEF WUnlock, Places
  <2>2. /\ writer_entered_' = FALSE /\ UNCHANGED reader_count_
        /\ asleep' \subseteq asleep
    BY <1>5 DEF WUnlock, notify_all
  <2>3. At("writing") = {t} /\ At("wDrain") \subseteq {}
    <3>1. \A u \in At("wDrain") \cup At("writing") : u = t
      BY <2>0 DEF FieldsMatchHolders
    <3>2. t \notin At("wDrain")
      BY <2>0 DEF At
    <3> QED
      BY <3>1, <3>2, <2>0
  <2>4. TypeOK'
    BY <1>0, <1>5, <2>1, <2>2 DEF WUnlock, TypeOK, Goto, Places
  <2>5. FieldsMatchHolders'
    BY <2>1, <2>2, <2>3 DEF FieldsMatchHolders
  <2> QED
    BY <2>4, <2>5
<1>6. ASSUME NEW t \in Threads, RLockEnter(t) PROVE LatchInv'
  <2>0. t \in At("rEnter") /\ t \notin asleep /\ t \notin At("reading") /\ UNCHANGED writer_entered_
    BY <1>6 DEF RLockEnter, MayRead, Awake, At
  <2>1. CASE wait(t) /\ UNCHANGED <<reader_count_, pc>>
    BY <2>0, <2>1 DEF TypeOK, FieldsMatchHolders, At, wait
  <2>2. CASE /\ ~writer_entered_ /\ reader_count_ # MAX_READERS
             /\ reader_count_' = reader_count_ + 1
             /\ Goto(t, "reading")
             /\ UNCHANGED asleep
    <3>1. /\ At("reading")' = At("reading") \cup {t} /\ At("writing")' = At("writing")
          /\ At("wDrain")' = At("wDrain") /\ At("rEnter")' = At("rEnter") \ {t}
          /\ At("wEnter")' = At("wEnter")
      BY <1>0, <2>0, <2>2, MoveAt DEF Places, At
    <3>2. TypeOK'
      BY <1>0, <2>0, <2>2, <3>1 DEF TypeOK, Goto, Places
    <3>3. FieldsMatchHolders'
      BY <2>0, <2>2, <3>1, CountReaders DEF FieldsMatchHolders
    <3> QED
      BY <3>2, <3>3
  <2> QED
    BY <1>6, <2>1, <2>2 DEF RLockEnter, MayRead
<1>7. ASSUME NEW t \in Threads, RUnlock(t) PROVE LatchInv'
  <2>0. t \in At("reading")
    BY <1>7 DEF RUnlock, notifyAfterRead, At
  <2>1. /\ At("reading")' = At("reading") \ {t} /\ At("writing")' = At("writing")
        /\ At("wDrain")' = At("wDrain") /\ At("rEnter")' = At("rEnter")
        /\ At("wEnter")' = At("wEnter")
    BY <1>0, <1>7, MoveAt DEF RUnlock, notifyAfterRead, Places
  <2>2. /\ reader_count_' = reader_count_ - 1 /\ UNCHANGED writer_entered_
        /\ asleep' \subseteq asleep
    BY <1>7 DEF RUnlock, notifyAfterRead, notify_one
  <2>3. TypeOK'
    <3>1. reader_count_ > 0 /\ reader_count_ \in 0 .. MAX_READERS
      BY <2>0, CountReaders DEF TypeOK, FieldsMatchHolders
    <3>2. reader_count_' \in 0 .. MAX_READERS
      BY <1>0, <2>2, <3>1
    <3> QED
      BY <1>0, <1>7, <2>1, <2>2, <3>2 DEF RUnlock, notifyAfterRead, TypeOK, Goto, Places
  <2>4. FieldsMatchHolders'
    BY <2>0, <2>1, <2>2, CountReaders DEF FieldsMatchHolders
  <2> QED
    BY <2>3, <2>4
<1>8. ASSUME NEW t \in Threads, SpuriousWakeup(t) PROVE LatchInv'
  BY <1>8 DEF SpuriousWakeup, TypeOK, FieldsMatchHolders, At
<1>9. CASE UNCHANGED vars
  BY <1>9 DEF vars, TypeOK, FieldsMatchHolders, At
<1> QED
  BY <1>1, <1>2, <1>3, <1>4, <1>5, <1>6, <1>7, <1>8, <1>9 DEF Next, Proceed

\* The fields of the latch always say who is inside (rwlatch.cpp keeps no other
\* record of it), and reader_count_ neither underflows nor passes MAX_READERS.
THEOREM LatchFieldsCorrect == Spec => [](TypeOK /\ FieldsMatchHolders)
<1>1. Spec => []LatchInv
  BY LatchInitial, LatchStep, PTL DEF Spec
<1> QED
  BY <1>1, PTL DEF LatchInv

\* A writer is alone inside the latch.
THEOREM LatchExcludes == Spec => []MutualExclusion
<1>1. LatchInv => MutualExclusion
  <2> SUFFICES ASSUME LatchInv, NEW t \in Threads, NEW u \in Threads,
                      pc[t] = "writing", t # u
               PROVE  pc[u] # "writing" /\ pc[u] # "reading"
    BY DEF MutualExclusion
  <2>1. t \in At("writing")
    BY DEF At
  <2>2. u \notin At("writing")
    BY <2>1 DEF LatchInv, FieldsMatchHolders
  <2>3. At("reading") = {}
    BY <2>1, CountReaders DEF LatchInv, FieldsMatchHolders
  <2> QED
    BY <2>2, <2>3 DEF At
<1>2. Spec => []LatchInv
  BY LatchInitial, LatchStep, PTL DEF Spec
<1> QED
  BY <1>1, <1>2, PTL

=============================================================================

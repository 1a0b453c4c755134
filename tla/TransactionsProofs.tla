------------------------- MODULE TransactionsProofs -------------------------
(***************************************************************************)
(* Proofs about statements and transactions, for any number of client      *)
(* threads, transactions and writes and a table of any size.               *)
(***************************************************************************)
EXTENDS Transactions, SequenceTheorems, FiniteSetTheorems, WellFoundedInduction, TLAPS

-----------------------------------------------------------------------------
(* Slots                                                                   *)

LEMMA SlotsFacts ==
    /\ Capacity \in Nat \ {0} /\ MaxTxns \in Nat
    /\ Slots = 0 .. Capacity - 1 /\ Slots \subseteq Nat
    /\ IsFiniteSet(Slots) /\ Cardinality(Slots) = Capacity
<1>1. Capacity \in Nat \ {0} /\ MaxTxns \in Nat /\ Slots = 0 .. Capacity - 1
  BY TxnAssumption DEF Slots
<1>2. IsFiniteSet(Slots) /\ Cardinality(Slots) = Capacity
  BY <1>1, FS_Interval
<1> QED BY <1>1, <1>2

\* A set of slots that is not empty has a first one: the slot insert_record
\* takes, and the rid an executor writes next.
LEMMA FirstIsLeast ==
    ASSUME NEW S \in SUBSET Slots, S # {}
    PROVE  First(S) \in S /\ \A q \in S : First(S) <= q
<1> DEFINE R == OpToRel(<, Nat)
<1>1. IsWellFoundedOn(R, Nat)
  BY NatLessThanWellFounded
<1>2. \A a, b \in Nat : a < b => <<a, b>> \in R
  BY DEF OpToRel
<1> HIDE DEF R
<1>3. S \in SUBSET Nat
  BY SlotsFacts
<1>4. PICK m \in S : \A y \in S : <<y, m>> \notin R
  BY <1>1, <1>3, WFMin
<1>5. ASSUME NEW y \in S PROVE m <= y
  <2>1. m \in Nat /\ y \in Nat
    BY <1>3
  <2>2. ~(y < m)
    BY <1>2, <1>4, <2>1
  <2> QED BY <2>1, <2>2
<1>6. \E r \in S : \A q \in S : r <= q
  BY <1>5
<1> QED BY <1>6 DEF First

LEMMA FreeIsFirst ==
    ASSUME used \subseteq Slots, used # Slots
    PROVE  /\ FirstFree \in Slots \ used
           /\ \A q \in Slots : q < FirstFree => q \in used
<1>1. FirstFree = First(Slots \ used)
  BY DEF FirstFree, First
<1>2. FirstFree \in Slots \ used /\ \A q \in Slots \ used : FirstFree <= q
  BY <1>1, FirstIsLeast
<1> QED BY <1>2, SlotsFacts

-----------------------------------------------------------------------------
(* Transaction objects                                                     *)

Tables == [used : SUBSET Slots, data : [Slots -> Values]]

TxnRecs == [id : Ids, state : TransactionStates, txn_mode : BOOLEAN, thread : Threads,
            write_set : Seq(WriteRecords), deletes : BOOLEAN, before : Tables]

\* Only object o changes, and it stays the same transaction.
Touches(o, s, s2) ==
    /\ s2 \in Seq(TxnRecs)
    /\ Len(s2) = Len(s)
    /\ \A p \in 1 .. Len(s) : p # o => s2[p] = s[p]
    /\ s2[o].thread = s[o].thread
    /\ s2[o].id = s[o].id
    /\ s2[o].txn_mode = s[o].txn_mode

LEMMA NoHistoryType == NoHistory \in Tables
<1>1. (CHOOSE v \in Values : TRUE) \in Values
  BY TxnAssumption
<1> QED BY <1>1 DEF NoHistory, Tables

LEMMA ReplacedObject ==
    ASSUME NEW s \in Seq(TxnRecs), NEW o \in 1 .. Len(s), NEW r \in TxnRecs,
           r.thread = s[o].thread, r.id = s[o].id, r.txn_mode = s[o].txn_mode
    PROVE  Touches(o, s, [s EXCEPT ![o] = r]) /\ [s EXCEPT ![o] = r][o] = r
<1> DEFINE s2 == [s EXCEPT ![o] = r]
<1>1. /\ s2 \in Seq(TxnRecs) /\ Len(s2) = Len(s)
      /\ \A j \in 1 .. Len(s) : s2[j] = IF j = o THEN r ELSE s[j]
  BY ExceptSeq
<1> HIDE DEF s2
<1>2. Touches(o, s, s2) /\ s2[o] = r
  BY <1>1 DEF Touches
<1> QED BY <1>2 DEF s2

\* The objects after EndAs, AppendWriteRecord and the undo of a write.
Ended(s, o, state) ==
    [s EXCEPT ![o].state = state, ![o].write_set = <<>>,
              ![o].deletes = FALSE, ![o].before = NoHistory]
WithWrite(s, o, w, b) == [s EXCEPT ![o].write_set = Append(@, w), ![o].deletes = @ \/ b]
WithoutLast(s, o) == [s EXCEPT ![o].write_set = Front(@)]

LEMMA EndAsEffect ==
    ASSUME NEW s \in Seq(TxnRecs), NEW o \in 1 .. Len(s), NEW state \in TransactionStates, NEW s2,
           s2 = Ended(s, o, state)
    PROVE  Touches(o, s, s2) /\ s2[o].state = state /\ s2[o].write_set = <<>>
<1> DEFINE e == s[o]
           r == [e EXCEPT !.state = state, !.write_set = <<>>, !.deletes = FALSE,
                          !.before = NoHistory]
<1>1. e \in TxnRecs /\ s \in [1 .. Len(s) -> TxnRecs]
  BY ElementOfSeq, LenProperties
<1>2. s2 = [s EXCEPT ![o] = r]
  BY <1>1 DEF Ended
<1>3. <<>> \in Seq(WriteRecords) /\ FALSE \in BOOLEAN
  BY EmptySeq
<1>4. r \in TxnRecs /\ r.state = state /\ r.write_set = <<>> /\ r.thread = e.thread
      /\ r.id = e.id /\ r.txn_mode = e.txn_mode
  BY <1>1, <1>3, NoHistoryType DEF TxnRecs
<1> HIDE DEF r
<1>5. r.thread = s[o].thread /\ r.id = s[o].id /\ r.txn_mode = s[o].txn_mode
  BY <1>4
<1>6. Touches(o, s, s2) /\ s2[o] = r
  <2>1. Touches(o, s, [s EXCEPT ![o] = r]) /\ [s EXCEPT ![o] = r][o] = r
    BY <1>4, <1>5, ReplacedObject
  <2> QED BY <1>2, <2>1
<1> QED BY <1>4, <1>6

LEMMA LoggedEffect ==
    ASSUME NEW s \in Seq(TxnRecs), NEW o \in 1 .. Len(s), NEW w \in WriteRecords,
           NEW b \in BOOLEAN, NEW s2, s2 = WithWrite(s, o, w, b)
    PROVE  /\ Touches(o, s, s2) /\ s2[o].state = s[o].state
           /\ s2[o].write_set = Append(s[o].write_set, w)
           /\ s2[o].deletes <=> s[o].deletes \/ b
           /\ s2[o].before = s[o].before
<1> DEFINE e == s[o]
           ws == Append(e.write_set, w)
           d == e.deletes \/ b
           r == [e EXCEPT !.write_set = ws, !.deletes = d]
<1>1. e \in TxnRecs /\ s \in [1 .. Len(s) -> TxnRecs]
  BY ElementOfSeq, LenProperties
<1>2. s2 = [s EXCEPT ![o] = r]
  BY <1>1 DEF WithWrite
<1>3. ws \in Seq(WriteRecords) /\ d \in BOOLEAN
  BY <1>1, AppendProperties DEF TxnRecs
<1> HIDE DEF ws, d
<1>4. /\ r \in TxnRecs /\ r.state = e.state /\ r.write_set = ws /\ r.thread = e.thread
      /\ r.id = e.id /\ r.txn_mode = e.txn_mode /\ r.deletes = d /\ r.before = e.before
  BY <1>1, <1>3 DEF TxnRecs
<1> HIDE DEF r
<1>5. r.thread = s[o].thread /\ r.id = s[o].id /\ r.txn_mode = s[o].txn_mode
  BY <1>4
<1>6. Touches(o, s, s2) /\ s2[o] = r
  <2>1. Touches(o, s, [s EXCEPT ![o] = r]) /\ [s EXCEPT ![o] = r][o] = r
    BY <1>4, <1>5, ReplacedObject
  <2> QED BY <1>2, <2>1
<1>7. s2[o].deletes <=> s[o].deletes \/ b
  BY <1>4, <1>6 DEF d
<1> QED BY <1>4, <1>6, <1>7 DEF ws

LEMMA FrontEffect ==
    ASSUME NEW s \in Seq(TxnRecs), NEW o \in 1 .. Len(s), s[o].write_set # <<>>, NEW s2,
           s2 = WithoutLast(s, o)
    PROVE  /\ Touches(o, s, s2) /\ s2[o].state = s[o].state
           /\ s2[o].deletes = s[o].deletes
           /\ s2[o].before = s[o].before
           /\ Len(s[o].write_set) \in Nat \ {0}
           /\ Len(s2[o].write_set) = Len(s[o].write_set) - 1
           /\ \A i \in 1 .. Len(s[o].write_set) - 1 : s2[o].write_set[i] = s[o].write_set[i]
<1> DEFINE e == s[o]
           ws == Front(e.write_set)
           r == [e EXCEPT !.write_set = ws]
<1>0. e \in TxnRecs /\ s \in [1 .. Len(s) -> TxnRecs]
  BY ElementOfSeq, LenProperties
<1>1. e.write_set \in Seq(WriteRecords)
  BY <1>0 DEF TxnRecs
<1>2. s2 = [s EXCEPT ![o] = r]
  BY <1>0 DEF WithoutLast
<1>3. Len(e.write_set) \in Nat \ {0} /\ \A i \in 1 .. Len(e.write_set) : e.write_set[i] \in WriteRecords
  BY <1>1, EmptySeq, ElementOfSeq
<1>4. /\ ws \in Seq(WriteRecords)
      /\ Len(ws) = Len(e.write_set) - 1
      /\ \A i \in 1 .. Len(e.write_set) - 1 : ws[i] = e.write_set[i]
  BY <1>3, SubSeqProperties DEF Front
<1> HIDE DEF ws
<1>5. /\ r \in TxnRecs /\ r.state = e.state /\ r.write_set = ws /\ r.thread = e.thread
      /\ r.id = e.id /\ r.txn_mode = e.txn_mode /\ r.deletes = e.deletes /\ r.before = e.before
  BY <1>0, <1>4 DEF TxnRecs
<1> HIDE DEF r
<1>6. r.thread = s[o].thread /\ r.id = s[o].id /\ r.txn_mode = s[o].txn_mode
  BY <1>5
<1>7. Touches(o, s, s2) /\ s2[o] = r
  <2>1. Touches(o, s, [s EXCEPT ![o] = r]) /\ [s EXCEPT ![o] = r][o] = r
    BY <1>5, <1>6, ReplacedObject
  <2> QED BY <1>2, <2>1
<1> QED BY <1>3, <1>4, <1>5, <1>7

LEMMA AppendEffect ==
    ASSUME NEW s \in Seq(TxnRecs), NEW e \in TxnRecs, NEW s2, s2 = Append(s, e)
    PROVE  /\ s2 \in Seq(TxnRecs) /\ Len(s) \in Nat /\ Len(s2) = Len(s) + 1
           /\ \A p \in 1 .. Len(s) : s2[p] = s[p]
           /\ s2[Len(s) + 1] = e
BY AppendProperties, LenProperties

-----------------------------------------------------------------------------
(* Counting the slots in use below a slot                                  *)

Below(U, k) == {r \in U : r < k}
Count(U, k) == Cardinality(Below(U, k))

LEMMA CountFacts ==
    ASSUME NEW U \in SUBSET Slots, NEW k \in 0 .. Capacity
    PROVE  /\ IsFiniteSet(Below(U, k)) /\ Count(U, k) \in Nat /\ Count(U, k) <= k
           /\ Count(U, k) = k <=> \A q \in Slots : q < k => q \in U
<1> DEFINE B == Below(U, k)
           I == 0 .. k - 1
<1>1. Capacity \in Nat /\ k \in Nat /\ Slots = 0 .. Capacity - 1
  BY SlotsFacts
<1>2. IsFiniteSet(I) /\ Cardinality(I) = k
  BY <1>1, FS_Interval
<1>3. \A q : q \in I <=> q \in Slots /\ q < k
  BY <1>1
<1>4. B \subseteq I
  BY <1>3 DEF Below
<1>5. /\ IsFiniteSet(B) /\ Cardinality(B) <= k
      /\ Cardinality(I) = Cardinality(B) => I = B
  BY <1>2, <1>4, FS_Subset
<1>6. Cardinality(B) \in Nat
  BY <1>5, FS_CardinalityType
<1>7. I = B <=> \A q \in Slots : q < k => q \in U
  BY <1>3, <1>4 DEF Below
<1> QED BY <1>2, <1>5, <1>6, <1>7 DEF Count

LEMMA CountAdd ==
    ASSUME NEW U \in SUBSET Slots, NEW r \in Slots \ U, NEW k \in 0 .. Capacity
    PROVE  Count(U \cup {r}, k) = IF r < k THEN Count(U, k) + 1 ELSE Count(U, k)
<1>1. CASE r < k
  <2>1. Below(U \cup {r}, k) = Below(U, k) \cup {r} /\ r \notin Below(U, k)
    BY <1>1 DEF Below
  <2> QED BY <1>1, <2>1, CountFacts, FS_AddElement DEF Count
<1>2. CASE ~(r < k)
  <2>1. Below(U \cup {r}, k) = Below(U, k)
    BY <1>2 DEF Below
  <2> QED BY <1>2, <2>1 DEF Count
<1> QED BY <1>1, <1>2

LEMMA CountCut ==
    ASSUME NEW U \in SUBSET Slots, NEW r \in U, NEW k \in 0 .. Capacity
    PROVE  Count(U \ {r}, k) = IF r < k THEN Count(U, k) - 1 ELSE Count(U, k)
<1>1. CASE r < k
  <2>1. Below(U \ {r}, k) = Below(U, k) \ {r} /\ r \in Below(U, k)
    BY <1>1 DEF Below
  <2> QED BY <1>1, <2>1, CountFacts, FS_RemoveElement DEF Count
<1>2. CASE ~(r < k)
  <2>1. Below(U \ {r}, k) = Below(U, k)
    BY <1>2 DEF Below
  <2> QED BY <1>2, <2>1 DEF Count
<1> QED BY <1>1, <1>2

LEMMA CountAll ==
    ASSUME NEW U \in SUBSET Slots
    PROVE  Count(U, Capacity) = Cardinality(U)
<1>1. \A r \in U : r < Capacity
  BY SlotsFacts
<1>2. Below(U, Capacity) = U
  BY <1>1 DEF Below
<1> QED BY <1>2 DEF Count

\* U has as many slots in use as W, and no fewer up to any slot: the table may
\* only have moved forward.  This is what an undo that puts deleted records into
\* the first free slots keeps, and it is enough to find the slot of an insertion
\* that is undone later still in use.
Covers(U, W) ==
    /\ \A k \in 0 .. Capacity : Count(W, k) <= Count(U, k)
    /\ Count(W, Capacity) = Count(U, Capacity)

LEMMA CoversSelf ==
    ASSUME NEW U \in SUBSET Slots
    PROVE  Covers(U, U)
BY CountFacts DEF Covers

LEMMA CoversUndoInsert ==
    ASSUME NEW U \in SUBSET Slots, NEW W \in SUBSET Slots, NEW V \in SUBSET Slots,
           NEW r \in Slots \ V, W = V \cup {r}, \A q \in Slots : q < r => q \in W,
           Covers(U, W)
    PROVE  r \in U /\ Covers(U \ {r}, V)
<1>1. r + 1 \in 0 .. Capacity /\ r \in Nat /\ Slots \subseteq Nat /\ Capacity \in 0 .. Capacity
      /\ r < Capacity
  BY SlotsFacts
<1>2. \A q \in Slots : q < r + 1 => q \in W
  BY <1>1
<1>3. Count(W, r + 1) = r + 1
  BY <1>1, <1>2, CountFacts
<1>4. Count(U, r + 1) = r + 1
  <2>1. Count(W, r + 1) <= Count(U, r + 1)
    BY <1>1 DEF Covers
  <2>2. Count(U, r + 1) \in Nat /\ Count(U, r + 1) <= r + 1
    BY <1>1, CountFacts
  <2> QED BY <1>1, <1>3, <2>1, <2>2
<1>5. r \in U
  <2>1. \A q \in Slots : q < r + 1 => q \in U
    BY <1>1, <1>4, CountFacts
  <2> QED BY <1>1, <2>1
<1>6. ASSUME NEW k \in 0 .. Capacity
      PROVE  /\ Count(V, k) <= Count(U \ {r}, k)
             /\ k = Capacity => Count(V, k) = Count(U \ {r}, k)
  <2>1. Count(W, k) = IF r < k THEN Count(V, k) + 1 ELSE Count(V, k)
    BY CountAdd
  <2>2. Count(U \ {r}, k) = IF r < k THEN Count(U, k) - 1 ELSE Count(U, k)
    BY <1>5, CountCut
  <2>3. Count(V, k) \in Nat /\ Count(U, k) \in Nat /\ Count(W, k) <= Count(U, k)
        /\ (k = Capacity => Count(W, k) = Count(U, k))
    BY CountFacts DEF Covers
  <2> QED BY <1>1, <2>1, <2>2, <2>3
<1> QED BY <1>1, <1>5, <1>6 DEF Covers

LEMMA CoversUndoDelete ==
    ASSUME NEW U \in SUBSET Slots, NEW W \in SUBSET Slots, NEW V \in SUBSET Slots,
           NEW r \in V, W = V \ {r},
           NEW f \in Slots \ U, \A q \in Slots : q < f => q \in U,
           Covers(U, W)
    PROVE  Covers(U \cup {f}, V)
<1>1. /\ Slots \subseteq Nat /\ Capacity \in 0 .. Capacity /\ f < Capacity /\ r < Capacity
      /\ f \in Nat /\ r \in Nat
  BY SlotsFacts
<1>2. ASSUME NEW k \in 0 .. Capacity
      PROVE  /\ Count(V, k) <= Count(U \cup {f}, k)
             /\ k = Capacity => Count(V, k) = Count(U \cup {f}, k)
  <2>1. Count(W, k) = IF r < k THEN Count(V, k) - 1 ELSE Count(V, k)
    BY CountCut
  <2>2. Count(U \cup {f}, k) = IF f < k THEN Count(U, k) + 1 ELSE Count(U, k)
    BY CountAdd
  <2>3. /\ Count(V, k) \in Nat /\ Count(U, k) \in Nat /\ Count(W, k) <= Count(U, k)
        /\ (k = Capacity => Count(W, k) = Count(U, k))
        /\ Count(V, k) <= k
    BY CountFacts DEF Covers
  <2>4. ~(f < k) => Count(U, k) = k
    <3>1. ~(f < k) => \A q \in Slots : q < k => q \in U
      BY <1>1
    <3> QED BY <3>1, CountFacts
  <2> QED BY <1>1, <2>1, <2>2, <2>3, <2>4
<1> QED BY <1>1, <1>2 DEF Covers

-----------------------------------------------------------------------------
(* What the write set tells of the table                                   *)

\* Table b is what the logged write w made of table a.
Wrote(w, a, b) ==
    \/ /\ w.wtype = "insert"
       /\ w.rid \notin a.used /\ b.used = a.used \cup {w.rid}
       /\ \A q \in Slots : q < w.rid => q \in a.used
       /\ \A r \in Slots \ {w.rid} : b.data[r] = a.data[r]
    \/ /\ w.wtype = "delete"
       /\ w.rid \in a.used /\ b.used = a.used \ {w.rid}
       /\ b.data = a.data
    \/ /\ w.wtype = "update"
       /\ b.used = a.used
       /\ a.data[w.rid] = w.record
       /\ \A r \in Slots \ {w.rid} : b.data[r] = a.data[r]

\* The records of T are those that U and d hold.
Agrees(T, U, d) == U = T.used /\ \A r \in U : d[r] = T.data[r]

\* There are tables, one after each write in ws, that lead from "before" to one
\* that the table <<U, d>> covers, and that is the table itself unless deletions
\* are being undone.
Explained(ws, before, deletes, place, U, d) ==
    \E h \in [Nat -> Tables] :
        /\ h[0] = before
        /\ \A i \in 1 .. Len(ws) : /\ Wrote(ws[i], h[i - 1], h[i])
                                   /\ ws[i].wtype = "delete" => deletes
        /\ Covers(U, h[Len(ws)].used)
        /\ ~(place = "undo" /\ deletes) => Agrees(h[Len(ws)], U, d)

LEMMA ExplainedFresh ==
    ASSUME NEW before \in Tables, NEW place
    PROVE  Explained(<<>>, before, FALSE, place, before.used, before.data)
<1> DEFINE h == [i \in Nat |-> before]
<1>1. h \in [Nat -> Tables] /\ h[0] = before /\ before.used \in SUBSET Slots
  BY DEF Tables
<1>2. Covers(before.used, before.used)
  BY <1>1, CoversSelf
<1>3. Len(<<>>) = 0
  BY EmptySeq
<1> HIDE DEF h
<1>4. Agrees(h[0], before.used, before.data)
  BY <1>1 DEF Agrees
<1> QED BY <1>1, <1>2, <1>3, <1>4 DEF Explained

\* A write of the transaction: the chain grows by the table it leaves.
LEMMA ExplainedWrite ==
    ASSUME NEW ws \in Seq(WriteRecords), NEW w \in WriteRecords, NEW before,
           NEW del \in BOOLEAN, NEW del2 \in BOOLEAN,
           NEW U \in SUBSET Slots, NEW d \in [Slots -> Values],
           NEW U2 \in SUBSET Slots, NEW d2 \in [Slots -> Values],
           NEW place, place # "undo", NEW place2,
           Explained(ws, before, del, place, U, d),
           del2 <=> del \/ w.wtype = "delete",
           \/ /\ w.wtype = "insert" /\ w.rid \notin U /\ U2 = U \cup {w.rid}
              /\ \A q \in Slots : q < w.rid => q \in U
              /\ \A r \in Slots \ {w.rid} : d2[r] = d[r]
           \/ /\ w.wtype = "delete" /\ w.rid \in U /\ U2 = U \ {w.rid} /\ d2 = d
           \/ /\ w.wtype = "update" /\ w.rid \in U /\ U2 = U /\ d[w.rid] = w.record
              /\ \A r \in Slots \ {w.rid} : d2[r] = d[r]
    PROVE  Explained(Append(ws, w), before, del2, place2, U2, d2)
<1>1. PICK h \in [Nat -> Tables] :
        /\ h[0] = before
        /\ \A i \in 1 .. Len(ws) : /\ Wrote(ws[i], h[i - 1], h[i])
                                   /\ ws[i].wtype = "delete" => del
        /\ Agrees(h[Len(ws)], U, d)
  BY DEF Explained
<1> DEFINE n == Len(ws)
           a == h[n]
           b == [used |-> U2, data |-> [r \in Slots |-> IF r = w.rid THEN d2[r] ELSE a.data[r]]]
           h2 == [i \in Nat |-> IF i = n + 1 THEN b ELSE h[i]]
<1>2. n \in Nat /\ w.rid \in Slots /\ a \in Tables /\ w.wtype \in WTypes
  BY <1>1, LenProperties DEF WriteRecords
<1>3. /\ a.used = U /\ a.data \in [Slots -> Values] /\ \A r \in U : d[r] = a.data[r]
  BY <1>1, <1>2 DEF Agrees, Tables
<1>4. /\ b \in Tables /\ b.used = U2
      /\ \A r \in Slots : b.data[r] = IF r = w.rid THEN d2[r] ELSE a.data[r]
      /\ b.data \in [Slots -> Values]
  BY <1>2, <1>3 DEF Tables
<1> HIDE DEF b
<1>5. Wrote(w, a, b)
  <2>1. CASE w.wtype = "insert"
    BY <1>2, <1>3, <1>4, <2>1 DEF Wrote
  <2>2. CASE w.wtype = "delete"
    <3>1. d2 = d /\ w.rid \in U
      BY <2>2
    <3>2. \A r \in Slots : b.data[r] = a.data[r]
      BY <1>3, <1>4, <3>1
    <3>3. b.data = a.data
      BY <1>3, <1>4, <3>2
    <3> QED BY <1>2, <1>3, <1>4, <2>2, <3>3 DEF Wrote
  <2>3. CASE w.wtype = "update"
    BY <1>2, <1>3, <1>4, <2>3 DEF Wrote
  <2> QED BY <1>2, <2>1, <2>2, <2>3 DEF WTypes
<1>6. Agrees(b, U2, d2)
  <2>1. ASSUME NEW r \in U2 PROVE d2[r] = b.data[r]
    <3>1. CASE r = w.rid
      BY <1>4, <2>1, <3>1
    <3>2. CASE r # w.rid
      <4>1. r \in U /\ d2[r] = d[r]
        BY <3>2
      <4> QED BY <1>3, <1>4, <3>2, <4>1
    <3> QED BY <3>1, <3>2
  <2> QED BY <1>4, <2>1 DEF Agrees
<1>7. h2 \in [Nat -> Tables] /\ h2[n + 1] = b /\ \A i \in Nat : i # n + 1 => h2[i] = h[i]
  BY <1>2, <1>4
<1> HIDE DEF h2, a
<1>8. Len(Append(ws, w)) = n + 1
      /\ \A i \in 1 .. n + 1 : Append(ws, w)[i] = IF i <= n THEN ws[i] ELSE w
  BY <1>2, AppendProperties
<1>9. ASSUME NEW i \in 1 .. n + 1
      PROVE  /\ Wrote(Append(ws, w)[i], h2[i - 1], h2[i])
             /\ Append(ws, w)[i].wtype = "delete" => del2
  <2>1. CASE i = n + 1
    <3>1. Append(ws, w)[i] = w /\ h2[i] = b /\ i - 1 = n /\ i - 1 # n + 1 /\ i - 1 \in Nat
      BY <1>2, <1>7, <1>8, <2>1
    <3>2. h2[i - 1] = a
      BY <1>7, <3>1 DEF a
    <3> QED BY <1>5, <3>1, <3>2
  <2>2. CASE i # n + 1
    <3>1. /\ i \in 1 .. n /\ Append(ws, w)[i] = ws[i] /\ i \in Nat /\ i - 1 \in Nat
          /\ i - 1 # n + 1
      BY <1>2, <1>8, <2>2
    <3>2. h2[i] = h[i] /\ h2[i - 1] = h[i - 1]
      BY <1>7, <2>2, <3>1
    <3> QED BY <1>1, <3>1, <3>2
  <2> QED BY <2>1, <2>2
<1>10. h2[0] = before
  BY <1>1, <1>2, <1>7
<1>11. Covers(U2, h2[n + 1].used)
  BY <1>4, <1>7, CoversSelf
<1> QED BY <1>6, <1>7, <1>8, <1>9, <1>10, <1>11 DEF Explained

\* As long as nothing has been undone the place does not matter.
LEMMA ExplainedMoves ==
    ASSUME NEW ws, NEW before, NEW del, NEW place, place # "undo", NEW place2, NEW U, NEW d,
           Explained(ws, before, del, place, U, d)
    PROVE  Explained(ws, before, del, place2, U, d)
BY DEF Explained

\* The undo of the last write takes the table back along the chain.
LEMMA ExplainedUndo ==
    ASSUME NEW ws \in Seq(WriteRecords), NEW ws2, NEW n \in Nat \ {0}, Len(ws) = n,
           Len(ws2) = n - 1, \A i \in 1 .. n - 1 : ws2[i] = ws[i],
           NEW before, NEW del \in BOOLEAN,
           NEW U \in SUBSET Slots, NEW d \in [Slots -> Values],
           NEW U2 \in SUBSET Slots, NEW d2 \in [Slots -> Values],
           Explained(ws, before, del, "undo", U, d),
           \/ /\ ws[n].wtype = "insert" /\ U2 = U \ {ws[n].rid} /\ d2 = d
           \/ /\ ws[n].wtype = "delete"
              /\ \E f \in Slots \ U : U2 = U \cup {f} /\ \A q \in Slots : q < f => q \in U
           \/ /\ ws[n].wtype = "update" /\ U2 = U /\ d2 = [d EXCEPT ![ws[n].rid] = ws[n].record]
    PROVE  Explained(ws2, before, del, "undo", U2, d2)
<1>1. PICK h \in [Nat -> Tables] :
        /\ h[0] = before
        /\ \A i \in 1 .. n : /\ Wrote(ws[i], h[i - 1], h[i])
                             /\ ws[i].wtype = "delete" => del
        /\ Covers(U, h[n].used)
        /\ ~del => Agrees(h[n], U, d)
  BY DEF Explained
<1> DEFINE w == ws[n]
           a == h[n - 1]
           b == h[n]
<1>2. n \in 1 .. n /\ n - 1 \in Nat /\ w \in WriteRecords
  BY ElementOfSeq
<1>3. /\ a \in Tables /\ b \in Tables /\ Wrote(w, a, b) /\ (w.wtype = "delete" => del)
      /\ w.rid \in Slots /\ Covers(U, b.used) /\ (~del => Agrees(b, U, d))
  BY <1>1, <1>2 DEF WriteRecords
<1>4. a.used \in SUBSET Slots /\ b.used \in SUBSET Slots
  BY <1>3 DEF Tables
<1> HIDE DEF w, a, b
<1>w. w = ws[n]
  BY DEF w
<1>5. Covers(U2, a.used) /\ (~del => Agrees(a, U2, d2))
  <2>1. CASE w.wtype = "insert"
    <3>1. /\ w.rid \notin a.used /\ b.used = a.used \cup {w.rid}
          /\ \A q \in Slots : q < w.rid => q \in a.used
          /\ \A r \in Slots \ {w.rid} : b.data[r] = a.data[r]
          /\ U2 = U \ {w.rid} /\ d2 = d
      BY <1>3, <1>w, <2>1 DEF Wrote
    <3>2. Covers(U2, a.used)
      BY <1>3, <1>4, <3>1, CoversUndoInsert
    <3> QED BY <1>3, <1>4, <3>1, <3>2 DEF Agrees
  <2>2. CASE w.wtype = "delete"
    <3>1. w.rid \in a.used /\ b.used = a.used \ {w.rid}
      BY <1>3, <2>2 DEF Wrote
    <3>2. PICK f \in Slots \ U : U2 = U \cup {f} /\ \A q \in Slots : q < f => q \in U
      BY <1>w, <2>2
    <3> QED BY <1>3, <1>4, <2>2, <3>1, <3>2, CoversUndoDelete
  <2>3. CASE w.wtype = "update"
    <3>1. /\ b.used = a.used /\ a.data[w.rid] = w.record
          /\ \A r \in Slots \ {w.rid} : b.data[r] = a.data[r]
          /\ U2 = U /\ d2 = [d EXCEPT ![w.rid] = w.record]
      BY <1>3, <1>w, <2>3 DEF Wrote
    <3>2. \A r \in Slots : d2[r] = IF r = w.rid THEN w.record ELSE d[r]
      BY <3>1
    <3> QED BY <1>3, <1>4, <3>1, <3>2 DEF Agrees
  <2>4. w.wtype \in {"insert", "delete", "update"}
    BY <1>3 DEF Wrote
  <2> QED BY <2>1, <2>2, <2>3, <2>4
<1>6. \A i \in 1 .. n - 1 : /\ Wrote(ws2[i], h[i - 1], h[i])
                            /\ ws2[i].wtype = "delete" => del
  BY <1>1
<1> QED BY <1>1, <1>5, <1>6 DEF Explained, a

\* Once the write set is empty, as many slots are in use as before, and if
\* nothing was deleted the records are those that were there.
LEMMA ExplainedEnd ==
    ASSUME NEW before \in Tables, NEW del \in BOOLEAN, NEW place,
           NEW U \in SUBSET Slots, NEW d,
           Explained(<<>>, before, del, place, U, d)
    PROVE  /\ Cardinality(U) = Cardinality(before.used)
           /\ ~del => Agrees(before, U, d)
<1>1. Len(<<>>) = 0
  BY EmptySeq
<1>2. Covers(U, before.used) /\ (~del => Agrees(before, U, d))
  BY <1>1 DEF Explained
<1>3. before.used \in SUBSET Slots
  BY DEF Tables
<1>4. Count(before.used, Capacity) = Count(U, Capacity)
  BY <1>2 DEF Covers
<1> QED BY <1>2, <1>3, <1>4, CountAll

-----------------------------------------------------------------------------
(* The invariant of the transaction manager                                *)

TableOK == used \subseteq Slots /\ data \in [Slots -> Values]

ObjectsOK ==
    /\ txn \in Seq(TxnRecs)
    /\ Len(txn) <= MaxTxns
    /\ NothingToUndoOnceOver

ClientsOK ==
    /\ txn_map \in [Ids -> 0 .. Len(txn)]
    /\ txn_id \in [Threads -> Ids \cup {INVALID_TXN_ID}]
    /\ ctx \in [Threads -> 0 .. Len(txn)]
    /\ pc \in [Threads -> Places]
    /\ todo \in [Threads -> SUBSET Slots]

\* Every object but those that Begin has still to register has advanced
\* next_txn_id_ once: the counter stays within the bound of the objects.
Beginning == {t \in Threads : pc[t] = "begin"}
BeginsCounted ==
    /\ next_txn_id_ \in Nat
    /\ IsFiniteSet(Beginning)
    /\ next_txn_id_ + Cardinality(Beginning) <= Len(txn)

\* Between SetTransaction and its end a statement works in an object of its own
\* thread, which only that thread can end: GetTransaction asserts as much.
Busy == {"begin", "run", "delete", "update", "done", "undo"}
OwnTransactions ==
    \A t \in Threads : pc[t] \in Busy =>
        /\ ctx[t] \in 1 .. Len(txn)
        /\ txn[ctx[t]].thread = t
        /\ pc[t] # "undo" => Running(ctx[t])

\* A delete or update that has not ended has a rid to write.
SomethingToWrite == \A t \in Threads : pc[t] \in {"delete", "update"} => todo[t] # {}

TxnInv == TableOK /\ ObjectsOK /\ ClientsOK /\ BeginsCounted /\ OwnTransactions
          /\ SomethingToWrite

LEMMA TxnInvTypes == TxnInv => TypeOK
<1> SUFFICES ASSUME TxnInv PROVE TypeOK
  OBVIOUS
<1>1. txn \in Seq(TxnRecs) /\ DOMAIN txn = 1 .. Len(txn) /\ Len(txn) \in Nat /\ Len(txn) <= MaxTxns
  BY LenProperties DEF TxnInv, ObjectsOK
<1>2. \A o \in DOMAIN txn : txn[o] \in TxnRecs
  BY <1>1, ElementOfSeq
<1>3. next_txn_id_ \in 0 .. MaxTxns
  <2>1. Cardinality(Beginning) \in Nat
    BY FS_CardinalityType DEF TxnInv, BeginsCounted
  <2> QED BY <1>1, <2>1, SlotsFacts DEF TxnInv, BeginsCounted
<1> QED BY <1>1, <1>2, <1>3 DEF TxnInv, TableOK, ClientsOK, TypeOK, TxnRecs

LEMMA TxnInitial == Init => TxnInv
<1> SUFFICES ASSUME Init PROVE TxnInv
  OBVIOUS
<1>1. TableOK
  <2>1. PICK n \in 0 .. Len(Loaded) : used = 0 .. n - 1
    BY DEF Init
  <2>2. Len(Loaded) \in Nat /\ Len(Loaded) <= Capacity /\ Loaded \in [1 .. Len(Loaded) -> Values]
    BY TxnAssumption, LenProperties
  <2>3. (CHOOSE v \in Values : TRUE) \in Values
    BY TxnAssumption
  <2>4. used \subseteq Slots /\ \A r \in used : r + 1 \in 1 .. Len(Loaded)
    BY <2>1, <2>2, SlotsFacts
  <2>5. \A r \in used : Loaded[r + 1] \in Values
    BY <2>2, <2>4
  <2>6. data = [r \in Slots |-> IF r \in used THEN Loaded[r + 1] ELSE CHOOSE v \in Values : TRUE]
    BY DEF Init
  <2> HIDE DEF Slots
  <2> QED BY <2>3, <2>4, <2>5, <2>6 DEF TableOK
<1>2. txn = <<>> /\ Len(txn) = 0 /\ txn \in Seq(TxnRecs) /\ DOMAIN txn = {}
  BY EmptySeq DEF Init
<1>3. ObjectsOK
  BY <1>2, SlotsFacts DEF ObjectsOK, NothingToUndoOnceOver
<1>4. ClientsOK
  BY <1>2 DEF Init, ClientsOK, Places
<1>5. Beginning = {} /\ \A t \in Threads : pc[t] \notin Busy
  BY DEF Init, Beginning, Busy
<1> QED BY <1>1, <1>2, <1>3, <1>4, <1>5, FS_EmptySet
        DEF TxnInv, BeginsCounted, OwnTransactions, SomethingToWrite, Init, Busy

\* A step of thread t that leaves Begin aside: it ends or extends a transaction
\* of its own at most, so no other thread's is disturbed.
LEMMA ClientStep ==
    ASSUME TxnInv, NEW t \in Threads, NEW o \in 0 .. Len(txn), NEW x \in Places,
           x # "begin", pc[t] # "begin",
           \/ txn' = txn
           \/ \E p \in 1 .. Len(txn) :
                 /\ Touches(p, txn, txn') /\ txn[p].thread = t
                 /\ txn'[p].state # "DEFAULT" => txn'[p].write_set = <<>>,
           UNCHANGED <<txn_map, next_txn_id_, txn_id>>,
           TableOK',
           ctx' = [ctx EXCEPT ![t] = o],
           pc' = [pc EXCEPT ![t] = x],
           NEW z \in SUBSET Slots, todo' = [todo EXCEPT ![t] = z],
           x \in {"delete", "update"} => z # {},
           x \in Busy => /\ o \in 1 .. Len(txn) /\ txn[o].thread = t
                         /\ x # "undo" => txn'[o].state = "DEFAULT"
    PROVE  TxnInv'
<1>1. /\ txn \in Seq(TxnRecs) /\ Len(txn) <= MaxTxns /\ NothingToUndoOnceOver
      /\ Len(txn) \in Nat /\ DOMAIN txn = 1 .. Len(txn)
      /\ pc \in [Threads -> Places] /\ ctx \in [Threads -> 0 .. Len(txn)]
  BY LenProperties DEF TxnInv, ObjectsOK, ClientsOK
<1>2. /\ txn' \in Seq(TxnRecs) /\ Len(txn') = Len(txn) /\ DOMAIN txn' = 1 .. Len(txn)
      /\ \A p \in 1 .. Len(txn) :
            /\ txn'[p].thread = txn[p].thread
            /\ txn[p].thread # t => txn'[p] = txn[p]
            /\ txn'[p].state # "DEFAULT" => txn'[p].write_set = <<>>
  <2>1. CASE txn' = txn
    BY <1>1, <2>1 DEF NothingToUndoOnceOver, Running
  <2>2. CASE txn' # txn
    <3>1. PICK p \in 1 .. Len(txn) :
              /\ Touches(p, txn, txn') /\ txn[p].thread = t
              /\ txn'[p].state # "DEFAULT" => txn'[p].write_set = <<>>
      BY <2>2
    <3>2. txn' \in Seq(TxnRecs) /\ Len(txn') = Len(txn)
      BY <3>1 DEF Touches
    <3>3. DOMAIN txn' = 1 .. Len(txn)
      BY <3>2, LenProperties
    <3> QED BY <1>1, <3>1, <3>2, <3>3 DEF Touches, NothingToUndoOnceOver, Running
  <2> QED BY <2>1, <2>2
<1>3. ObjectsOK'
  BY <1>1, <1>2 DEF ObjectsOK, NothingToUndoOnceOver, Running
<1>4. ClientsOK'
  BY <1>1, <1>2 DEF TxnInv, ClientsOK
<1>5. BeginsCounted'
  <2>1. Beginning' = Beginning
    BY <1>1 DEF Beginning
  <2> QED BY <1>2, <2>1 DEF TxnInv, BeginsCounted
<1>6. OwnTransactions'
  <2>1. ASSUME NEW u \in Threads, pc'[u] \in Busy
        PROVE  /\ ctx'[u] \in 1 .. Len(txn')
               /\ txn'[ctx'[u]].thread = u
               /\ pc'[u] # "undo" => txn'[ctx'[u]].state = "DEFAULT"
    <3>1. CASE u = t
      BY <1>1, <1>2, <2>1, <3>1
    <3>2. CASE u # t
      BY <1>1, <1>2, <2>1, <3>2 DEF TxnInv, OwnTransactions, Running
    <3> QED BY <3>1, <3>2
  <2> QED BY <2>1 DEF OwnTransactions, Running
<1>7. SomethingToWrite'
  BY <1>1 DEF TxnInv, ClientsOK, SomethingToWrite
<1> QED BY <1>3, <1>4, <1>5, <1>6, <1>7 DEF TxnInv

LEMMA FreshType ==
    ASSUME TxnInv, NEW t \in Threads, NEW txn_mode \in BOOLEAN, next_txn_id_ \in Ids
    PROVE  FreshTransaction(t, txn_mode) \in TxnRecs
<1>1. [used |-> used, data |-> data] \in Tables
  BY DEF TxnInv, TableOK, Tables
<1>2. <<>> \in Seq(WriteRecords)
  BY EmptySeq
<1> QED BY <1>1, <1>2 DEF FreshTransaction, TxnRecs, TransactionStates

\* The first half of Begin.
LEMMA NewTransactionStep ==
    ASSUME TxnInv, NEW t \in Threads, NEW txn_mode \in BOOLEAN, pc[t] = "idle",
           NewTransaction(t, txn_mode),
           UNCHANGED <<table, txn_map, next_txn_id_, txn_id, todo>>
    PROVE  /\ TxnInv'
           /\ Len(txn') = Len(txn) + 1 /\ Len(txn) \in Nat
           /\ \A p \in 1 .. Len(txn) : txn'[p] = txn[p]
           /\ txn'[Len(txn) + 1] = FreshTransaction(t, txn_mode)
<1>1. /\ txn \in Seq(TxnRecs) /\ Len(txn) < MaxTxns /\ NothingToUndoOnceOver
      /\ Len(txn) \in Nat /\ DOMAIN txn = 1 .. Len(txn)
      /\ pc \in [Threads -> Places] /\ ctx \in [Threads -> 0 .. Len(txn)]
      /\ MaxTxns \in Nat
  BY LenProperties, SlotsFacts DEF TxnInv, ObjectsOK, ClientsOK, NewTransaction
<1>2. FreshTransaction(t, txn_mode) \in TxnRecs
  BY FreshType DEF NewTransaction
<1>3. /\ txn' \in Seq(TxnRecs) /\ Len(txn') = Len(txn) + 1
      /\ \A p \in 1 .. Len(txn) : txn'[p] = txn[p]
      /\ txn'[Len(txn) + 1] = FreshTransaction(t, txn_mode)
  BY <1>1, <1>2, AppendEffect DEF NewTransaction
<1>4. DOMAIN txn' = 1 .. Len(txn) + 1
  BY <1>3, LenProperties
<1>5. /\ FreshTransaction(t, txn_mode).state = "DEFAULT"
      /\ FreshTransaction(t, txn_mode).thread = t
  BY DEF FreshTransaction
<1>6. ctx' = [ctx EXCEPT ![t] = Len(txn) + 1] /\ pc' = [pc EXCEPT ![t] = "begin"]
  BY DEF NewTransaction
<1>7. TableOK'
  BY DEF TxnInv, TableOK, table
<1>8. ObjectsOK'
  <2>1. ASSUME NEW p \in DOMAIN txn', txn'[p].state # "DEFAULT" PROVE txn'[p].write_set = <<>>
    <3>1. p \in 1 .. Len(txn)
      BY <1>1, <1>3, <1>4, <1>5, <2>1
    <3> QED BY <1>1, <1>3, <2>1, <3>1 DEF NothingToUndoOnceOver, Running
  <2> QED BY <1>1, <1>3, <2>1 DEF ObjectsOK, NothingToUndoOnceOver, Running
<1>9. ClientsOK'
  <2>1. "begin" \in Places
    BY DEF Places
  <2>2. txn_map' \in [Ids -> 0 .. Len(txn')]
    BY <1>1, <1>3 DEF TxnInv, ClientsOK
  <2>3. ctx' \in [Threads -> 0 .. Len(txn')]
    BY <1>1, <1>3, <1>6
  <2> QED BY <1>1, <1>6, <2>1, <2>2, <2>3 DEF TxnInv, ClientsOK
<1>10. BeginsCounted'
  <2>1. Beginning' = Beginning \cup {t} /\ t \notin Beginning
    BY <1>1, <1>6 DEF Beginning
  <2>2. IsFiniteSet(Beginning) /\ Cardinality(Beginning) \in Nat
    BY FS_CardinalityType DEF TxnInv, BeginsCounted
  <2>3. IsFiniteSet(Beginning') /\ Cardinality(Beginning') = Cardinality(Beginning) + 1
    BY <2>1, <2>2, FS_AddElement
  <2> QED BY <1>1, <1>3, <2>2, <2>3 DEF TxnInv, BeginsCounted
<1>11. OwnTransactions'
  <2>1. ASSUME NEW u \in Threads, pc'[u] \in Busy
        PROVE  /\ ctx'[u] \in 1 .. Len(txn')
               /\ txn'[ctx'[u]].thread = u
               /\ pc'[u] # "undo" => txn'[ctx'[u]].state = "DEFAULT"
    <3>1. CASE u = t
      BY <1>1, <1>3, <1>5, <1>6, <3>1
    <3>2. CASE u # t
      <4>1. /\ pc'[u] = pc[u] /\ ctx'[u] = ctx[u] /\ ctx[u] \in 1 .. Len(txn)
            /\ txn[ctx[u]].thread = u /\ (pc[u] # "undo" => txn[ctx[u]].state = "DEFAULT")
        BY <1>1, <1>6, <2>1, <3>2 DEF TxnInv, OwnTransactions, Running
      <4> QED BY <1>1, <1>3, <4>1
    <3> QED BY <3>1, <3>2
  <2> QED BY <2>1 DEF OwnTransactions, Running
<1>12. SomethingToWrite'
  BY <1>1, <1>6 DEF TxnInv, ClientsOK, SomethingToWrite
<1> QED BY <1>1, <1>3, <1>7, <1>8, <1>9, <1>10, <1>11, <1>12 DEF TxnInv

\* Its second half.
LEMMA RegisterStep ==
    ASSUME TxnInv, NEW t \in Threads, Register(t)
    PROVE  TxnInv'
<1>1. /\ txn \in Seq(TxnRecs) /\ Len(txn) \in Nat
      /\ pc \in [Threads -> Places] /\ ctx \in [Threads -> 0 .. Len(txn)]
      /\ txn_map \in [Ids -> 0 .. Len(txn)]
      /\ txn_id \in [Threads -> Ids \cup {INVALID_TXN_ID}]
  BY LenProperties DEF TxnInv, ObjectsOK, ClientsOK
<1>2. /\ pc[t] = "begin"
      /\ next_txn_id_' = next_txn_id_ + 1
      /\ txn_map' = [txn_map EXCEPT ![txn[ctx[t]].id] = ctx[t]]
      /\ txn_id' = [txn_id EXCEPT ![t] = txn[ctx[t]].id]
      /\ pc' = [pc EXCEPT ![t] = IF txn[ctx[t]].txn_mode THEN "idle" ELSE "run"]
      /\ UNCHANGED <<used, data, txn, ctx, todo>>
  BY DEF Register, table
<1>3. ctx[t] \in 1 .. Len(txn) /\ txn[ctx[t]].thread = t /\ Running(ctx[t])
  BY <1>2 DEF TxnInv, OwnTransactions, Busy
<1>4. txn[ctx[t]].id \in Ids
  <2>1. txn[ctx[t]] \in TxnRecs
    BY <1>1, <1>3, ElementOfSeq
  <2> QED BY <2>1 DEF TxnRecs
<1>5. pc' \in [Threads -> Places] /\ pc'[t] \in {"idle", "run"} /\ \A u \in Threads \ {t} : pc'[u] = pc[u]
  BY <1>1, <1>2 DEF Places
<1>6. TableOK' /\ ObjectsOK'
  BY <1>2 DEF TxnInv, TableOK, ObjectsOK, NothingToUndoOnceOver, Running
<1>7. ClientsOK'
  BY <1>1, <1>2, <1>3, <1>4, <1>5 DEF TxnInv, ClientsOK
<1>8. BeginsCounted'
  <2>1. Beginning' = Beginning \ {t} /\ t \in Beginning
    BY <1>1, <1>2, <1>5 DEF Beginning
  <2>2. IsFiniteSet(Beginning) /\ Cardinality(Beginning) \in Nat
    BY FS_CardinalityType DEF TxnInv, BeginsCounted
  <2>3. IsFiniteSet(Beginning') /\ Cardinality(Beginning') = Cardinality(Beginning) - 1
    BY <2>1, <2>2, FS_RemoveElement
  <2> QED BY <1>1, <1>2, <2>2, <2>3 DEF TxnInv, BeginsCounted
<1>9. OwnTransactions'
  BY <1>1, <1>2, <1>3, <1>5 DEF TxnInv, OwnTransactions, Running
<1>10. SomethingToWrite'
  BY <1>1, <1>2, <1>5 DEF TxnInv, ClientsOK, SomethingToWrite
<1> QED BY <1>6, <1>7, <1>8, <1>9, <1>10 DEF TxnInv

LEMMA AssertFailsStep ==
    ASSUME TxnInv, NEW t \in Threads, AssertFails(t)
    PROVE  TxnInv'
<1>1. /\ pc' = [u \in Threads |-> "gone"]
      /\ UNCHANGED <<used, data, txn, txn_map, next_txn_id_, txn_id, ctx, todo>>
  BY DEF AssertFails, table
<1>2. TableOK' /\ ObjectsOK' /\ ClientsOK'
  BY <1>1 DEF TxnInv, TableOK, ObjectsOK, NothingToUndoOnceOver, Running, ClientsOK, Places
<1>3. Beginning' = {} /\ \A u \in Threads : pc'[u] \notin Busy
  BY <1>1 DEF Beginning, Busy
<1>4. Cardinality(Beginning) \in Nat /\ Len(txn) \in Nat
  BY FS_CardinalityType, LenProperties DEF TxnInv, BeginsCounted, ObjectsOK
<1> QED BY <1>1, <1>2, <1>3, <1>4, FS_EmptySet
        DEF TxnInv, BeginsCounted, OwnTransactions, SomethingToWrite, Busy


-----------------------------------------------------------------------------
(* A client that is alone                                                  *)

\* As long as no other client has begun a transaction, GetTransaction finds the
\* last object, statements work in it, and its write set explains the table.
OnlyInv(t) ==
    IsOnlyClient(t) /\ pc[t] # "gone" =>
        /\ pc[t] # "begin" => GetTransaction(t) \in {0, Len(txn)}
        /\ pc[t] \in Busy => ctx[t] = Len(txn)
        /\ pc[t] \in {"delete", "update"} => todo[t] \subseteq used
        /\ Len(txn) # 0 /\ Running(Len(txn)) =>
              Explained(txn[Len(txn)].write_set, txn[Len(txn)].before, txn[Len(txn)].deletes,
                        pc[t], used, data)

LEMMA InvFacts ==
    ASSUME TxnInv
    PROVE  /\ txn \in Seq(TxnRecs) /\ Len(txn) \in Nat /\ DOMAIN txn = 1 .. Len(txn)
           /\ Len(txn) <= MaxTxns
           /\ \A o \in 1 .. Len(txn) : /\ txn[o] \in TxnRecs
                                       /\ txn[o].write_set \in Seq(WriteRecords)
                                       /\ txn[o].before \in Tables
                                       /\ txn[o].deletes \in BOOLEAN
           /\ pc \in [Threads -> Places] /\ ctx \in [Threads -> 0 .. Len(txn)]
           /\ todo \in [Threads -> SUBSET Slots]
           /\ \A t \in Threads : GetTransaction(t) \in 0 .. Len(txn)
           /\ used \in SUBSET Slots /\ data \in [Slots -> Values]
<1>1. txn \in Seq(TxnRecs) /\ Len(txn) \in Nat /\ DOMAIN txn = 1 .. Len(txn) /\ Len(txn) <= MaxTxns
  BY LenProperties DEF TxnInv, ObjectsOK
<1>2. \A o \in 1 .. Len(txn) : txn[o] \in TxnRecs
  BY <1>1, ElementOfSeq
<1>3. \A t \in Threads : GetTransaction(t) \in 0 .. Len(txn)
  BY <1>1 DEF TxnInv, ClientsOK, GetTransaction
<1> QED BY <1>1, <1>2, <1>3 DEF TxnInv, ClientsOK, TableOK, TxnRecs

\* With one client no other thread is in a statement, nor can it get into one
\* without beginning a transaction.
LEMMA OtherThread ==
    ASSUME TxnInv, NEW t \in Threads, NEW u \in Threads, u # t, IsOnlyClient(t), Step(u)
    PROVE  ~IsOnlyClient(t)' \/ pc'[t] = "gone"
<1>1. \A o \in 1 .. Len(txn) : txn[o].thread # u
  BY InvFacts DEF IsOnlyClient
<1>2. pc[u] \notin Busy
  BY <1>1 DEF TxnInv, OwnTransactions
<1>3. OwnsTransaction(u) => GetTransaction(u) = 0
  BY <1>1, InvFacts DEF OwnsTransaction
<1>4. ASSUME NEW txn_mode \in BOOLEAN, pc[u] = "idle", NewTransaction(u, txn_mode),
             UNCHANGED <<table, txn_map, next_txn_id_, txn_id, todo>>
      PROVE  ~IsOnlyClient(t)'
  <2>1. /\ TxnInv' /\ Len(txn') = Len(txn) + 1 /\ Len(txn) \in Nat
        /\ txn'[Len(txn) + 1] = FreshTransaction(u, txn_mode)
    BY <1>4, NewTransactionStep
  <2>2. txn'[Len(txn) + 1].thread = u
    BY <2>1 DEF FreshTransaction
  <2>3. DOMAIN txn' = 1 .. Len(txn')
    BY <2>1, LenProperties DEF TxnInv, ObjectsOK
  <2> QED BY <2>1, <2>2, <2>3 DEF IsOnlyClient
<1>5. CASE Statement(u)
  BY <1>3, <1>4, <1>5 DEF Statement, NeedsTransaction
<1>6. CASE BeginStatement(u)
  BY <1>4, <1>6 DEF BeginStatement
<1>7. CASE CommitStatement(u) \/ AbortStatement(u)
  BY <1>3, <1>7 DEF CommitStatement, AbortStatement
<1>8. CASE AssertFails(u)
  BY <1>8 DEF AssertFails
<1>9. CASE Register(u)
  BY <1>2, <1>9 DEF Register, Busy
<1>10. CASE EndStatement(u) \/ Throw(u) \/ Select(u)
  BY <1>2, <1>10 DEF EndStatement, Throw, Select, Busy
<1>11. ASSUME NEW v \in Values, Insert(u, v) \/ Update(u, v) PROVE FALSE
  BY <1>2, <1>11 DEF Insert, Update, Busy
<1>12. ASSUME NEW op \in WTypes, NEW rids \in SUBSET Slots, Collect(u, op, rids) PROVE FALSE
  BY <1>2, <1>12 DEF Collect, Busy
<1>13. CASE Delete(u) \/ Undo(u) \/ EndAbort(u)
  BY <1>2, <1>13 DEF Delete, Undo, EndAbort, Busy
<1> QED BY <1>5, <1>6, <1>7, <1>8, <1>9, <1>10, <1>11, <1>12, <1>13 DEF Step

\* A step of t that writes neither the table nor an object, nor leaves Abort.
LEMMA MoveStep ==
    ASSUME TxnInv, NEW t \in Threads, OnlyInv(t),
           NEW o \in 0 .. Len(txn), NEW x \in Places, NEW z \in SUBSET Slots,
           x # "begin", pc[t] \notin {"begin", "undo"}, pc[t] # "gone",
           UNCHANGED <<used, data, txn, txn_map, next_txn_id_, txn_id>>,
           ctx' = [ctx EXCEPT ![t] = o],
           pc' = [pc EXCEPT ![t] = x],
           todo' = [todo EXCEPT ![t] = z],
           x \in {"delete", "update"} => z # {} /\ z \subseteq used,
           x \in Busy => /\ o \in 1 .. Len(txn) /\ txn[o].thread = t
                         /\ x # "undo" => Running(o)
                         /\ GetTransaction(t) = o \/ (pc[t] \in Busy /\ ctx[t] = o)
    PROVE  TxnInv' /\ OnlyInv(t)'
<1>1. TxnInv'
  <2>1. TableOK'
    BY DEF TxnInv, TableOK
  <2>2. x \in Busy => /\ o \in 1 .. Len(txn) /\ txn[o].thread = t
                      /\ x # "undo" => txn'[o].state = "DEFAULT"
    BY DEF Running
  <2> QED BY <2>1, <2>2, ClientStep
<1>2. pc'[t] = x /\ ctx'[t] = o /\ todo'[t] = z
  BY InvFacts
<1>3. ASSUME IsOnlyClient(t) PROVE OnlyInv(t)'
  <2>1. /\ GetTransaction(t) \in {0, Len(txn)} /\ (pc[t] \in Busy => ctx[t] = Len(txn))
        /\ Len(txn) # 0 /\ Running(Len(txn)) =>
              Explained(txn[Len(txn)].write_set, txn[Len(txn)].before, txn[Len(txn)].deletes,
                        pc[t], used, data)
    BY <1>3 DEF OnlyInv
  <2>2. GetTransaction(t)' = GetTransaction(t) /\ Running(Len(txn))' = Running(Len(txn))
    BY DEF GetTransaction, Running
  <2>3. Len(txn) # 0 /\ Running(Len(txn)) =>
              Explained(txn[Len(txn)].write_set, txn[Len(txn)].before, txn[Len(txn)].deletes,
                        x, used, data)
    BY <2>1, ExplainedMoves
  <2>4. x \in Busy => o = Len(txn)
    BY <2>1
  <2> QED BY <1>2, <2>1, <2>2, <2>3, <2>4 DEF OnlyInv
<1>4. IsOnlyClient(t)' = IsOnlyClient(t)
  BY DEF IsOnlyClient
<1>5. CASE ~IsOnlyClient(t)
  BY <1>1, <1>4, <1>5 DEF OnlyInv
<1> QED BY <1>1, <1>3, <1>5

\* commit, the end of a statement of its own and the end of Abort.
LEMMA OverStep ==
    ASSUME TxnInv, NEW t \in Threads, OnlyInv(t), NEW o \in 1 .. Len(txn),
           NEW state \in {"COMMITTED", "ABORTED"},
           pc[t] \notin {"begin", "gone"}, txn[o].thread = t,
           GetTransaction(t) = o \/ (pc[t] \in Busy /\ ctx[t] = o),
           EndAs(o, state),
           UNCHANGED <<used, data, txn_map, next_txn_id_, txn_id, ctx, todo>>,
           pc' = [pc EXCEPT ![t] = "idle"]
    PROVE  TxnInv' /\ OnlyInv(t)'
<1>1. Touches(o, txn, txn') /\ txn'[o].state = state /\ txn'[o].write_set = <<>>
  <2>1. state \in TransactionStates
    BY DEF TransactionStates
  <2>2. txn' = Ended(txn, o, state)
    BY DEF EndAs, Ended
  <2> QED BY <2>1, <2>2, InvFacts, EndAsEffect
<1>2. TxnInv'
  <2>1. TableOK'
    BY DEF TxnInv, TableOK
  <2>2. /\ ctx[t] \in 0 .. Len(txn) /\ todo[t] \in SUBSET Slots
        /\ ctx' = [ctx EXCEPT ![t] = ctx[t]] /\ todo' = [todo EXCEPT ![t] = todo[t]]
    BY InvFacts
  <2>3. "idle" \in Places /\ "idle" \notin Busy
    BY DEF Places, Busy
  <2>4. \E p \in 1 .. Len(txn) :
          /\ Touches(p, txn, txn') /\ txn[p].thread = t
          /\ txn'[p].state # "DEFAULT" => txn'[p].write_set = <<>>
    BY <1>1
  <2>5. pc[t] # "begin" /\ "idle" # "begin" /\ ("idle" \in {"delete", "update"} => todo[t] # {})
    OBVIOUS
  <2> QED BY <2>1, <2>2, <2>3, <2>4, <2>5, ClientStep
<1>3. pc'[t] = "idle" /\ Len(txn') = Len(txn)
  BY <1>1, InvFacts DEF Touches
<1>4. IsOnlyClient(t)' => IsOnlyClient(t)
  <2>1. DOMAIN txn' = 1 .. Len(txn) /\ DOMAIN txn = 1 .. Len(txn)
    BY <1>1, LenProperties, InvFacts DEF Touches
  <2>2. \A p \in 1 .. Len(txn) : txn'[p].thread = txn[p].thread
    BY <1>1 DEF Touches
  <2> QED BY <2>1, <2>2 DEF IsOnlyClient
<1>5. ASSUME IsOnlyClient(t) PROVE OnlyInv(t)'
  <2>1. o = Len(txn) /\ GetTransaction(t)' \in {0, Len(txn)}
    BY <1>5 DEF OnlyInv, GetTransaction
  <2> QED BY <1>1, <1>3, <2>1 DEF OnlyInv, Running, Busy
<1> QED BY <1>2, <1>4, <1>5 DEF OnlyInv

LEMMA NewTransactionOnly ==
    ASSUME TxnInv, NEW t \in Threads, OnlyInv(t), NEW txn_mode \in BOOLEAN, pc[t] = "idle",
           NewTransaction(t, txn_mode),
           UNCHANGED <<table, txn_map, next_txn_id_, txn_id, todo>>
    PROVE  TxnInv' /\ OnlyInv(t)'
<1>1. /\ TxnInv'
      /\ Len(txn') = Len(txn) + 1 /\ Len(txn) \in Nat
      /\ txn'[Len(txn) + 1] = FreshTransaction(t, txn_mode)
  BY NewTransactionStep
<1>2. pc'[t] = "begin" /\ ctx'[t] = Len(txn')
  BY <1>1, InvFacts DEF NewTransaction
<1> DEFINE before == [used |-> used, data |-> data]
<1>3. before \in Tables /\ before.used = used /\ before.data = data
  BY InvFacts DEF Tables
<1>4. used' = used /\ data' = data
  BY DEF table
<1>5. /\ txn'[Len(txn')].write_set = <<>>
      /\ txn'[Len(txn')].before = before
      /\ txn'[Len(txn')].deletes = FALSE
  BY <1>1 DEF FreshTransaction
<1> HIDE DEF before
<1>6. Explained(<<>>, before, FALSE, "begin", used, data)
  BY <1>3, ExplainedFresh
<1>7. Explained(txn'[Len(txn')].write_set, txn'[Len(txn')].before, txn'[Len(txn')].deletes,
                pc'[t], used', data')
  BY <1>2, <1>4, <1>5, <1>6
<1> QED BY <1>1, <1>2, <1>7 DEF OnlyInv

LEMMA RegisterOnly ==
    ASSUME TxnInv, NEW t \in Threads, OnlyInv(t), Register(t)
    PROVE  OnlyInv(t)'
<1>1. TxnInv'
  BY RegisterStep
<1>2. /\ pc[t] = "begin"
      /\ txn_map' = [txn_map EXCEPT ![txn[ctx[t]].id] = ctx[t]]
      /\ txn_id' = [txn_id EXCEPT ![t] = txn[ctx[t]].id]
      /\ UNCHANGED <<used, data, txn, ctx, todo>>
  BY DEF Register, table
<1>3. /\ pc'[t] \in {"idle", "run"}
      /\ ctx[t] \in 1 .. Len(txn)
  BY <1>2, InvFacts DEF Register, TxnInv, OwnTransactions, Busy
<1>4. txn[ctx[t]].id \in Ids
  BY <1>3, InvFacts DEF TxnRecs
<1>5. INVALID_TXN_ID \notin Ids
  BY SlotsFacts DEF INVALID_TXN_ID, Ids
<1>6. GetTransaction(t)' = ctx[t]
  <2>1. txn_map'[txn[ctx[t]].id] = ctx[t] /\ txn_id'[t] = txn[ctx[t]].id
    BY <1>2, <1>4 DEF TxnInv, ClientsOK
  <2> QED BY <1>4, <1>5, <2>1 DEF GetTransaction
<1>7. ASSUME IsOnlyClient(t) PROVE OnlyInv(t)'
  <2>1. /\ ctx[t] = Len(txn)
        /\ Len(txn) # 0 /\ Running(Len(txn)) =>
              Explained(txn[Len(txn)].write_set, txn[Len(txn)].before, txn[Len(txn)].deletes,
                        pc[t], used, data)
    BY <1>2, <1>7 DEF OnlyInv, Busy
  <2>2. Running(Len(txn))' = Running(Len(txn))
    BY <1>2 DEF Running
  <2>3. Len(txn) # 0 /\ Running(Len(txn)) =>
              Explained(txn[Len(txn)].write_set, txn[Len(txn)].before, txn[Len(txn)].deletes,
                        pc'[t], used, data)
    BY <1>2, <2>1, ExplainedMoves
  <2> QED BY <1>2, <1>3, <1>6, <2>1, <2>2, <2>3 DEF OnlyInv
<1>8. IsOnlyClient(t)' = IsOnlyClient(t)
  BY <1>2 DEF IsOnlyClient
<1> QED BY <1>7, <1>8 DEF OnlyInv

\* A write of an executor, logged in the transaction of the statement.
LEMMA WriteStep ==
    ASSUME TxnInv, NEW t \in Threads, OnlyInv(t),
           pc[t] \in {"run", "delete", "update"},
           NEW w \in WriteRecords, NEW x \in {"delete", "update", "done"}, NEW z \in SUBSET Slots,
           x # "done" => z # {} /\ (IsOnlyClient(t) => z \subseteq used'),
           Logged(ctx[t], w.wtype, w.rid, w.record),
           used' \in SUBSET Slots, data' \in [Slots -> Values],
           UNCHANGED <<txn_map, next_txn_id_, txn_id, ctx>>,
           pc' = [pc EXCEPT ![t] = x],
           todo' = [todo EXCEPT ![t] = z],
           \/ /\ w.wtype = "insert" /\ w.rid \notin used /\ used' = used \cup {w.rid}
              /\ \A q \in Slots : q < w.rid => q \in used
              /\ \A r \in Slots \ {w.rid} : data'[r] = data[r]
           \/ /\ w.wtype = "delete" /\ (IsOnlyClient(t) => w.rid \in used)
              /\ used' = used \ {w.rid} /\ data' = data
           \/ /\ w.wtype = "update" /\ (IsOnlyClient(t) => w.rid \in used)
              /\ used' = used /\ data[w.rid] = w.record
              /\ \A r \in Slots \ {w.rid} : data'[r] = data[r]
    PROVE  TxnInv' /\ OnlyInv(t)'
<1> DEFINE o == ctx[t]
           b == w.wtype = "delete"
<1>1. o \in 1 .. Len(txn) /\ txn[o].thread = t /\ Running(o)
  BY DEF TxnInv, OwnTransactions, Busy
<1>2. txn' = WithWrite(txn, o, w, b)
  <2>1. [wtype |-> w.wtype, rid |-> w.rid, record |-> w.record] = w
    BY DEF WriteRecords
  <2> QED BY <2>1 DEF Logged, WithWrite
<1>3. b \in BOOLEAN
  OBVIOUS
<1> HIDE DEF b
<1>4. /\ Touches(o, txn, txn') /\ txn'[o].state = txn[o].state
      /\ txn'[o].write_set = Append(txn[o].write_set, w)
      /\ txn'[o].deletes <=> txn[o].deletes \/ b
      /\ txn'[o].before = txn[o].before
  BY <1>1, <1>2, <1>3, InvFacts, LoggedEffect
<1>5. txn'[o].state = "DEFAULT" /\ Len(txn') = Len(txn) /\ txn' \in Seq(TxnRecs)
  BY <1>1, <1>4 DEF Running, Touches
<1>6. TxnInv'
  <2>1. TableOK' /\ x \in Places /\ x # "begin" /\ pc[t] # "begin"
    BY DEF TableOK, Places
  <2>2. /\ o \in 0 .. Len(txn) /\ ctx' = [ctx EXCEPT ![t] = o]
    BY <1>1, InvFacts
  <2>3. \E p \in 1 .. Len(txn) :
          /\ Touches(p, txn, txn') /\ txn[p].thread = t
          /\ txn'[p].state # "DEFAULT" => txn'[p].write_set = <<>>
    BY <1>1, <1>4, <1>5
  <2>4. x \in Busy => /\ o \in 1 .. Len(txn) /\ txn[o].thread = t
                      /\ x # "undo" => txn'[o].state = "DEFAULT"
    BY <1>1, <1>5
  <2>5. x \in {"delete", "update"} => z # {}
    OBVIOUS
  <2> QED BY <2>1, <2>2, <2>3, <2>4, <2>5, ClientStep
<1>7. IsOnlyClient(t)' => IsOnlyClient(t)
  <2>1. DOMAIN txn' = 1 .. Len(txn) /\ DOMAIN txn = 1 .. Len(txn)
    BY <1>5, LenProperties, InvFacts
  <2>2. \A p \in 1 .. Len(txn) : txn'[p].thread = txn[p].thread
    BY <1>4 DEF Touches
  <2> QED BY <2>1, <2>2 DEF IsOnlyClient
<1>8. ASSUME IsOnlyClient(t) PROVE OnlyInv(t)'
  <2>1. /\ o = Len(txn) /\ GetTransaction(t)' \in {0, Len(txn)}
        /\ Explained(txn[o].write_set, txn[o].before, txn[o].deletes, pc[t], used, data)
    BY <1>1, <1>8 DEF OnlyInv, GetTransaction, Busy
  <2>2. pc'[t] = x /\ todo'[t] = z /\ ctx'[t] = o
    BY InvFacts
  <2>3. txn'[o].deletes \in BOOLEAN
    <3>1. txn'[o] \in TxnRecs
      BY <1>1, <1>5, ElementOfSeq
    <3> QED BY <3>1 DEF TxnRecs
  <2>4. Explained(Append(txn[o].write_set, w), txn[o].before, txn'[o].deletes, x, used', data')
    <3>1. PICK U2, d2, del2 : U2 = used' /\ d2 = data' /\ del2 = txn'[o].deletes
      OBVIOUS
    <3>2. PICK ws, before, del, place :
              /\ ws = txn[o].write_set /\ before = txn[o].before
              /\ del = txn[o].deletes /\ place = pc[t]
      OBVIOUS
    <3>3. /\ ws \in Seq(WriteRecords) /\ del \in BOOLEAN /\ del2 \in BOOLEAN
          /\ place # "undo" /\ Explained(ws, before, del, place, used, data)
          /\ del2 <=> del \/ w.wtype = "delete"
          /\ used \in SUBSET Slots /\ data \in [Slots -> Values]
          /\ U2 \in SUBSET Slots /\ d2 \in [Slots -> Values]
      BY <1>1, <1>4, <2>1, <2>3, <3>1, <3>2, InvFacts DEF b
    <3>4. \/ /\ w.wtype = "insert" /\ w.rid \notin used /\ U2 = used \cup {w.rid}
             /\ \A q \in Slots : q < w.rid => q \in used
             /\ \A r \in Slots \ {w.rid} : d2[r] = data[r]
          \/ /\ w.wtype = "delete" /\ w.rid \in used /\ U2 = used \ {w.rid} /\ d2 = data
          \/ /\ w.wtype = "update" /\ w.rid \in used /\ U2 = used /\ data[w.rid] = w.record
             /\ \A r \in Slots \ {w.rid} : d2[r] = data[r]
      BY <1>8, <3>1
    <3>5. Explained(Append(ws, w), before, del2, x, U2, d2)
      BY <3>3, <3>4, ExplainedWrite
    <3> QED BY <3>1, <3>2, <3>5
  <2> QED BY <1>4, <1>5, <1>8, <2>1, <2>2, <2>4 DEF OnlyInv
<1> QED BY <1>6, <1>7, <1>8 DEF OnlyInv

\* The slot an executor writes next is one of those it has collected.
LEMMA NextToWrite ==
    ASSUME TxnInv, NEW t \in Threads, OnlyInv(t), pc[t] \in {"delete", "update"}
    PROVE  /\ First(todo[t]) \in todo[t] /\ First(todo[t]) \in Slots
           /\ IsOnlyClient(t) => todo[t] \subseteq used
BY FirstIsLeast, InvFacts DEF TxnInv, SomethingToWrite, OnlyInv

LEMMA InsertKeeps ==
    ASSUME TxnInv, NEW t \in Threads, OnlyInv(t), NEW v \in Values, Insert(t, v)
    PROVE  TxnInv' /\ OnlyInv(t)'
<1> DEFINE w == [wtype |-> "insert", rid |-> FirstFree, record |-> v]
<1>1. used \in SUBSET Slots /\ data \in [Slots -> Values] /\ used # Slots
  BY InvFacts DEF Insert
<1>2. FirstFree \in Slots \ used /\ \A q \in Slots : q < FirstFree => q \in used
  BY <1>1, FreeIsFirst
<1>3. w \in WriteRecords /\ w.wtype = "insert" /\ w.rid = FirstFree /\ w.record = v
  BY <1>2 DEF WriteRecords, WTypes
<1>4. /\ pc[t] = "run" /\ used' = used \cup {FirstFree}
      /\ data' = [data EXCEPT ![FirstFree] = v]
      /\ Logged(ctx[t], "insert", FirstFree, v)
      /\ pc' = [pc EXCEPT ![t] = "done"]
      /\ UNCHANGED <<txn_map, next_txn_id_, txn_id, ctx, todo>>
  BY DEF Insert, WriteSlot
<1>5. todo' = [todo EXCEPT ![t] = todo[t]] /\ todo[t] \in SUBSET Slots
  BY <1>4, InvFacts
<1>6. used' \in SUBSET Slots /\ data' \in [Slots -> Values]
      /\ \A r \in Slots \ {FirstFree} : data'[r] = data[r]
  BY <1>1, <1>2, <1>4
<1> HIDE DEF w
<1>7. /\ w.wtype = "insert" /\ w.rid \notin used /\ used' = used \cup {w.rid}
      /\ \A q \in Slots : q < w.rid => q \in used
      /\ \A r \in Slots \ {w.rid} : data'[r] = data[r]
  BY <1>2, <1>3, <1>4, <1>6
<1>8. /\ pc[t] \in {"run", "delete", "update"}
      /\ Logged(ctx[t], w.wtype, w.rid, w.record)
      /\ pc' = [pc EXCEPT ![t] = "done"] /\ todo' = [todo EXCEPT ![t] = todo[t]]
      /\ UNCHANGED <<txn_map, next_txn_id_, txn_id, ctx>>
      /\ used' \in SUBSET Slots /\ data' \in [Slots -> Values]
      /\ w \in WriteRecords
  BY <1>3, <1>4, <1>5, <1>6
<1>9. todo[t] \in SUBSET Slots
  BY <1>5
<1> QED BY <1>7, <1>8, <1>9, WriteStep

LEMMA DoneEffect ==
    ASSUME TxnInv, NEW t \in Threads, pc[t] \in {"delete", "update"}, NEW r \in todo[t], Done(t, r)
    PROVE  \E x \in {"delete", "update", "done"}, z \in SUBSET Slots :
              /\ pc' = [pc EXCEPT ![t] = x] /\ todo' = [todo EXCEPT ![t] = z]
              /\ z = todo[t] \ {r} /\ (x # "done" => z # {})
<1> DEFINE x == IF todo[t] = {r} THEN "done" ELSE pc[t]
           z == todo[t] \ {r}
<1>1. pc' = [pc EXCEPT ![t] = x] /\ todo' = [todo EXCEPT ![t] = z]
  BY InvFacts DEF Done
<1>2. x \in {"delete", "update", "done"} /\ z \in SUBSET Slots /\ (x # "done" => z # {})
  BY InvFacts
<1> QED BY <1>1, <1>2

LEMMA DeleteKeeps ==
    ASSUME TxnInv, NEW t \in Threads, OnlyInv(t), Delete(t)
    PROVE  TxnInv' /\ OnlyInv(t)'
<1> DEFINE r == First(todo[t])
           w == [wtype |-> "delete", rid |-> r, record |-> data[r]]
<1>1. /\ pc[t] = "delete" /\ used' = used \ {r}
      /\ Logged(ctx[t], "delete", r, data[r]) /\ Done(t, r)
      /\ UNCHANGED <<data, txn_map, next_txn_id_, txn_id, ctx>>
  BY DEF Delete
<1>2. r \in todo[t] /\ r \in Slots /\ (IsOnlyClient(t) => todo[t] \subseteq used)
  BY <1>1, NextToWrite
<1> HIDE DEF r
<1>3. used \in SUBSET Slots /\ data \in [Slots -> Values]
  BY InvFacts
<1>4. w \in WriteRecords /\ w.wtype = "delete" /\ w.rid = r /\ w.record = data[r]
  BY <1>2, <1>3 DEF WriteRecords, WTypes
<1> HIDE DEF w
<1>5. PICK x \in {"delete", "update", "done"}, z \in SUBSET Slots :
              /\ pc' = [pc EXCEPT ![t] = x] /\ todo' = [todo EXCEPT ![t] = z]
              /\ z = todo[t] \ {r} /\ (x # "done" => z # {})
  BY <1>1, <1>2, DoneEffect
<1>6. IsOnlyClient(t) => z \subseteq used' /\ r \in used
  BY <1>1, <1>2, <1>5
<1>7. used' \in SUBSET Slots /\ data' \in [Slots -> Values] /\ data' = data
  BY <1>1, <1>3
<1>8. /\ w.wtype = "delete" /\ (IsOnlyClient(t) => w.rid \in used)
      /\ used' = used \ {w.rid} /\ data' = data
  BY <1>1, <1>4, <1>6, <1>7
<1>9. /\ pc[t] \in {"run", "delete", "update"}
      /\ Logged(ctx[t], w.wtype, w.rid, w.record)
      /\ UNCHANGED <<txn_map, next_txn_id_, txn_id, ctx>>
  BY <1>1, <1>4
<1>10. x # "done" => z # {} /\ (IsOnlyClient(t) => z \subseteq used')
  BY <1>5, <1>6
<1>11. /\ used' \in SUBSET Slots /\ data' \in [Slots -> Values] /\ w \in WriteRecords
       /\ pc' = [pc EXCEPT ![t] = x] /\ todo' = [todo EXCEPT ![t] = z]
  BY <1>4, <1>5, <1>7
<1> QED BY <1>8, <1>9, <1>10, <1>11, WriteStep

LEMMA UpdateKeeps ==
    ASSUME TxnInv, NEW t \in Threads, OnlyInv(t), NEW v \in Values, Update(t, v)
    PROVE  TxnInv' /\ OnlyInv(t)'
<1> DEFINE r == First(todo[t])
           w == [wtype |-> "update", rid |-> r, record |-> data[r]]
<1>1. /\ pc[t] = "update" /\ data' = [data EXCEPT ![r] = v]
      /\ Logged(ctx[t], "update", r, data[r]) /\ Done(t, r)
      /\ UNCHANGED <<used, txn_map, next_txn_id_, txn_id, ctx>>
  BY DEF Update, WriteSlot
<1>2. r \in todo[t] /\ r \in Slots /\ (IsOnlyClient(t) => todo[t] \subseteq used)
  BY <1>1, NextToWrite
<1> HIDE DEF r
<1>3. used \in SUBSET Slots /\ data \in [Slots -> Values]
  BY InvFacts
<1>4. w \in WriteRecords /\ w.wtype = "update" /\ w.rid = r /\ w.record = data[r]
  BY <1>2, <1>3 DEF WriteRecords, WTypes
<1> HIDE DEF w
<1>5. PICK x \in {"delete", "update", "done"}, z \in SUBSET Slots :
              /\ pc' = [pc EXCEPT ![t] = x] /\ todo' = [todo EXCEPT ![t] = z]
              /\ z = todo[t] \ {r} /\ (x # "done" => z # {})
  BY <1>1, <1>2, DoneEffect
<1>6. IsOnlyClient(t) => z \subseteq used' /\ r \in used
  BY <1>1, <1>2, <1>5
<1>7. /\ used' \in SUBSET Slots /\ data' \in [Slots -> Values] /\ used' = used
      /\ \A q \in Slots \ {r} : data'[q] = data[q]
  BY <1>1, <1>3
<1>8. /\ w.wtype = "update" /\ (IsOnlyClient(t) => w.rid \in used)
      /\ used' = used /\ data[w.rid] = w.record
      /\ \A q \in Slots \ {w.rid} : data'[q] = data[q]
  BY <1>4, <1>6, <1>7
<1>9. /\ pc[t] \in {"run", "delete", "update"}
      /\ Logged(ctx[t], w.wtype, w.rid, w.record)
      /\ UNCHANGED <<txn_map, next_txn_id_, txn_id, ctx>>
  BY <1>1, <1>4
<1>10. x # "done" => z # {} /\ (IsOnlyClient(t) => z \subseteq used')
  BY <1>5, <1>6
<1>11. /\ used' \in SUBSET Slots /\ data' \in [Slots -> Values] /\ w \in WriteRecords
       /\ pc' = [pc EXCEPT ![t] = x] /\ todo' = [todo EXCEPT ![t] = z]
  BY <1>4, <1>5, <1>7
<1> QED BY <1>8, <1>9, <1>10, <1>11, WriteStep

\* A step of Abort.
LEMMA UndoKeeps ==
    ASSUME TxnInv, NEW t \in Threads, OnlyInv(t), Undo(t)
    PROVE  TxnInv' /\ OnlyInv(t)'
<1> DEFINE o == ctx[t]
           ws == txn[o].write_set
           n == Len(ws)
           w == ws[n]
<1>1. /\ pc[t] = "undo" /\ ws # <<>> /\ UndoWrite(o) /\ txn' = WithoutLast(txn, o)
      /\ UNCHANGED <<txn_map, next_txn_id_, txn_id, ctx, pc, todo>>
  BY DEF Undo, WithoutLast, client
<1>2. o \in 1 .. Len(txn) /\ txn[o].thread = t
  BY <1>1 DEF TxnInv, OwnTransactions, Busy
<1>3. /\ Touches(o, txn, txn') /\ txn'[o].state = txn[o].state
      /\ txn'[o].deletes = txn[o].deletes
      /\ txn'[o].before = txn[o].before
      /\ n \in Nat \ {0}
      /\ Len(txn'[o].write_set) = n - 1
      /\ \A i \in 1 .. n - 1 : txn'[o].write_set[i] = ws[i]
  <2>1. txn \in Seq(TxnRecs) /\ txn[o].write_set # <<>> /\ txn' = WithoutLast(txn, o)
    BY <1>1, InvFacts
  <2>2. PICK o1 \in 1 .. Len(txn) : o1 = o
    BY <1>2
  <2>3. PICK s2 : s2 = txn'
    OBVIOUS
  <2>4. txn[o1].write_set # <<>> /\ s2 = WithoutLast(txn, o1)
    BY <2>1, <2>2, <2>3
  <2> HIDE DEF o
  <2>5. /\ Touches(o1, txn, s2) /\ s2[o1].state = txn[o1].state
        /\ s2[o1].deletes = txn[o1].deletes
        /\ s2[o1].before = txn[o1].before
        /\ Len(txn[o1].write_set) \in Nat \ {0}
        /\ Len(s2[o1].write_set) = Len(txn[o1].write_set) - 1
        /\ \A i \in 1 .. Len(txn[o1].write_set) - 1 :
               s2[o1].write_set[i] = txn[o1].write_set[i]
    BY <2>1, <2>4, FrontEffect
  <2> QED BY <2>2, <2>3, <2>5
<1>4. txn[o].state = "DEFAULT"
  BY <1>1, <1>2, InvFacts DEF TxnInv, ObjectsOK, NothingToUndoOnceOver, Running
<1>5. ws \in Seq(WriteRecords) /\ w \in WriteRecords /\ w.rid \in Slots /\ w.record \in Values
  <2>1. ws \in Seq(WriteRecords)
    BY <1>2, InvFacts
  <2>2. w \in WriteRecords
    BY <1>3, <2>1, ElementOfSeq
  <2> QED BY <2>1, <2>2 DEF WriteRecords
<1>6. /\ used' \in SUBSET Slots /\ data' \in [Slots -> Values]
      /\ \/ /\ w.wtype = "insert" /\ used' = used \ {w.rid} /\ data' = data
         \/ /\ w.wtype = "delete"
            /\ \E f \in Slots \ used : used' = used \cup {f} /\ \A q \in Slots : q < f => q \in used
         \/ /\ w.wtype = "update" /\ used' = used /\ data' = [data EXCEPT ![w.rid] = w.record]
  <2>1. used \in SUBSET Slots /\ data \in [Slots -> Values] /\ Last(ws) = w
    BY InvFacts DEF Last
  <2>2. CASE w.wtype = "insert" /\ used' = used \ {w.rid} /\ UNCHANGED data
    BY <2>1, <2>2
  <2>3. CASE /\ w.wtype = "delete" /\ used # Slots
             /\ used' = used \cup {FirstFree} /\ WriteSlot(FirstFree, w.record)
    <3>1. FirstFree \in Slots \ used /\ \A q \in Slots : q < FirstFree => q \in used
      BY <2>1, <2>3, FreeIsFirst
    <3> QED BY <1>5, <2>1, <2>3, <3>1 DEF WriteSlot
  <2>4. CASE w.wtype = "update" /\ WriteSlot(w.rid, w.record) /\ UNCHANGED used
    BY <1>5, <2>1, <2>4 DEF WriteSlot
  <2> QED BY <1>1, <2>1, <2>2, <2>3, <2>4 DEF UndoWrite
<1>7. TxnInv'
  <2>1. TableOK' /\ "undo" \in Places /\ "undo" # "begin" /\ pc[t] # "begin"
    BY <1>1, <1>6 DEF TableOK, Places
  <2>2. /\ o \in 0 .. Len(txn) /\ ctx' = [ctx EXCEPT ![t] = o] /\ todo[t] \in SUBSET Slots
        /\ pc' = [pc EXCEPT ![t] = "undo"] /\ todo' = [todo EXCEPT ![t] = todo[t]]
    BY <1>1, <1>2, InvFacts
  <2>3. \E p \in 1 .. Len(txn) :
          /\ Touches(p, txn, txn') /\ txn[p].thread = t
          /\ txn'[p].state # "DEFAULT" => txn'[p].write_set = <<>>
    BY <1>2, <1>3, <1>4
  <2>4. "undo" \in {"delete", "update"} => todo[t] # {}
    OBVIOUS
  <2>5. UNCHANGED <<txn_map, next_txn_id_, txn_id>>
    BY <1>1
  <2> QED BY <1>2, <2>1, <2>2, <2>3, <2>4, <2>5, ClientStep
<1>8. Len(txn') = Len(txn) /\ txn' \in Seq(TxnRecs)
  BY <1>3 DEF Touches
<1>9. IsOnlyClient(t)' => IsOnlyClient(t)
  <2>1. DOMAIN txn' = 1 .. Len(txn) /\ DOMAIN txn = 1 .. Len(txn)
    BY <1>8, LenProperties, InvFacts
  <2>2. \A p \in 1 .. Len(txn) : txn'[p].thread = txn[p].thread
    BY <1>3 DEF Touches
  <2> QED BY <2>1, <2>2 DEF IsOnlyClient
<1>10. ASSUME IsOnlyClient(t) PROVE OnlyInv(t)'
  <2>1. /\ o = Len(txn) /\ GetTransaction(t)' \in {0, Len(txn)}
        /\ Explained(ws, txn[o].before, txn[o].deletes, "undo", used, data)
    BY <1>1, <1>2, <1>4, <1>10 DEF OnlyInv, GetTransaction, Busy, Running
  <2>2. Explained(txn'[o].write_set, txn[o].before, txn[o].deletes, "undo", used', data')
    <3>1. PICK U2, d2, ws2 : U2 = used' /\ d2 = data' /\ ws2 = txn'[o].write_set
      OBVIOUS
    <3>2. PICK ws1, before, del : ws1 = ws /\ before = txn[o].before /\ del = txn[o].deletes
      OBVIOUS
    <3>3. /\ ws1 \in Seq(WriteRecords) /\ del \in BOOLEAN /\ n \in Nat \ {0} /\ Len(ws1) = n
          /\ Len(ws2) = n - 1 /\ \A i \in 1 .. n - 1 : ws2[i] = ws1[i]
          /\ Explained(ws1, before, del, "undo", used, data)
          /\ used \in SUBSET Slots /\ data \in [Slots -> Values]
          /\ U2 \in SUBSET Slots /\ d2 \in [Slots -> Values]
      BY <1>2, <1>3, <1>5, <1>6, <2>1, <3>1, <3>2, InvFacts
    <3>4. \/ /\ ws1[n].wtype = "insert" /\ U2 = used \ {ws1[n].rid} /\ d2 = data
          \/ /\ ws1[n].wtype = "delete"
             /\ \E f \in Slots \ used : U2 = used \cup {f} /\ \A q \in Slots : q < f => q \in used
          \/ /\ ws1[n].wtype = "update" /\ U2 = used
             /\ d2 = [data EXCEPT ![ws1[n].rid] = ws1[n].record]
      BY <1>6, <3>1, <3>2
    <3> HIDE DEF n
    <3>5. Explained(ws2, before, del, "undo", U2, d2)
      BY <3>3, <3>4, ExplainedUndo
    <3> QED BY <3>1, <3>2, <3>5
  <2> QED BY <1>1, <1>3, <1>8, <1>10, <2>1, <2>2 DEF OnlyInv
<1> QED BY <1>7, <1>9, <1>10 DEF OnlyInv

-----------------------------------------------------------------------------
(* Every step                                                              *)

\* Objects are only added, and keep the thread that began them.
LEMMA ObjectsStay ==
    ASSUME TxnInv, NEW u \in Threads, Step(u)
    PROVE  DOMAIN txn \subseteq DOMAIN txn' /\ \A p \in DOMAIN txn : txn'[p].thread = txn[p].thread
<1>1. txn \in [1 .. Len(txn) -> TxnRecs] /\ txn \in Seq(TxnRecs) /\ Len(txn) \in Nat
      /\ DOMAIN txn = 1 .. Len(txn)
  BY InvFacts, LenProperties
<1>2. ASSUME NEW o, NEW state, EndAs(o, state)
      PROVE  DOMAIN txn \subseteq DOMAIN txn' /\ \A p \in DOMAIN txn : txn'[p].thread = txn[p].thread
  BY <1>1, <1>2 DEF EndAs, TxnRecs
<1>3. ASSUME NEW o, NEW wtype, NEW r, NEW record, Logged(o, wtype, r, record)
      PROVE  DOMAIN txn \subseteq DOMAIN txn' /\ \A p \in DOMAIN txn : txn'[p].thread = txn[p].thread
  BY <1>1, <1>3 DEF Logged, TxnRecs
<1>4. ASSUME NEW txn_mode \in BOOLEAN, pc[u] = "idle", NewTransaction(u, txn_mode),
             UNCHANGED <<table, txn_map, next_txn_id_, txn_id, todo>>
      PROVE  DOMAIN txn \subseteq DOMAIN txn' /\ \A p \in DOMAIN txn : txn'[p].thread = txn[p].thread
  <2>1. /\ TxnInv' /\ Len(txn') = Len(txn) + 1
        /\ \A p \in 1 .. Len(txn) : txn'[p] = txn[p]
    BY <1>4, NewTransactionStep
  <2>2. DOMAIN txn' = 1 .. Len(txn')
    BY <2>1, LenProperties DEF TxnInv, ObjectsOK
  <2> QED BY <1>1, <2>1, <2>2
<1>5. CASE Statement(u) \/ BeginStatement(u)
  BY <1>4, <1>5 DEF Statement, BeginStatement
<1>6. CASE CommitStatement(u)
  BY <1>2, <1>6 DEF CommitStatement
<1>7. CASE EndStatement(u)
  BY <1>2, <1>7 DEF EndStatement
<1>8. CASE EndAbort(u)
  BY <1>2, <1>8 DEF EndAbort
<1>9. CASE AbortStatement(u) \/ AssertFails(u) \/ Register(u) \/ Throw(u) \/ Select(u)
           \/ \E op \in WTypes, rids \in SUBSET Slots : Collect(u, op, rids)
  BY <1>9 DEF AbortStatement, AssertFails, Register, Throw, Select, Collect
<1>10. CASE Delete(u) \/ \E v \in Values : Insert(u, v) \/ Update(u, v)
  BY <1>3, <1>10 DEF Delete, Insert, Update
<1>11. CASE Undo(u)
  BY <1>1, <1>11 DEF Undo, TxnRecs
<1> QED BY <1>5, <1>6, <1>7, <1>8, <1>9, <1>10, <1>11 DEF Step

\* The invariants after a step of the thread itself ...
LEMMA OwnStep ==
    ASSUME TxnInv, NEW t \in Threads, OnlyInv(t), Step(t)
    PROVE  TxnInv' /\ OnlyInv(t)'
<1> USE DEF table
<1>1. /\ ctx[t] \in 0 .. Len(txn) /\ todo[t] \in SUBSET Slots /\ GetTransaction(t) \in 0 .. Len(txn)
      /\ ctx = [ctx EXCEPT ![t] = ctx[t]] /\ pc = [pc EXCEPT ![t] = pc[t]]
      /\ todo = [todo EXCEPT ![t] = todo[t]]
      /\ {} \in SUBSET Slots
  BY InvFacts
<1>2. pc[t] \in Busy => /\ ctx[t] \in 1 .. Len(txn) /\ txn[ctx[t]].thread = t
                        /\ pc[t] # "undo" => Running(ctx[t])
  BY DEF TxnInv, OwnTransactions
<1>3. /\ {"run", "done", "undo", "delete", "update"} \subseteq Busy
      /\ "idle" \notin Busy /\ Busy \subseteq Places /\ "idle" \in Places
  BY DEF Busy, Places
<1>4. CASE Statement(t)
  <2> DEFINE o == GetTransaction(t)
  <2>1. CASE NewTransaction(t, FALSE)
    BY <1>4, <2>1, NewTransactionOnly DEF Statement
  <2>2. CASE /\ ~NeedsTransaction(o) /\ ctx' = [ctx EXCEPT ![t] = o]
             /\ pc' = [pc EXCEPT ![t] = "run"] /\ UNCHANGED txn
    <3>1. o \in 1 .. Len(txn) /\ Running(o) /\ txn[o].thread = t
      BY <1>1, <1>4, <2>2 DEF Statement, NeedsTransaction, OwnsTransaction
    <3>2. pc[t] = "idle" /\ UNCHANGED <<used, data, txn, txn_map, next_txn_id_, txn_id, todo>>
      BY <1>4, <2>2 DEF Statement
    <3> HIDE DEF table
    <3> QED BY <1>1, <1>3, <2>2, <3>1, <3>2, MoveStep
  <2> QED BY <1>4, <2>1, <2>2 DEF Statement
<1>5. CASE BeginStatement(t)
  BY <1>5, NewTransactionOnly DEF BeginStatement
<1>6. CASE CommitStatement(t)
  <2>1. /\ pc[t] = "idle" /\ EndAs(GetTransaction(t), "COMMITTED")
        /\ GetTransaction(t) \in 1 .. Len(txn) /\ txn[GetTransaction(t)].thread = t
        /\ UNCHANGED <<used, data, txn_map, next_txn_id_, txn_id, ctx, pc, todo>>
    BY <1>1, <1>6 DEF CommitStatement, OwnsTransaction, client
  <2>2. pc' = [pc EXCEPT ![t] = "idle"]
    BY <1>1, <2>1
  <2> QED BY <2>1, <2>2, OverStep
<1>7. CASE AbortStatement(t)
  <2>1. /\ pc[t] = "idle" /\ GetTransaction(t) \in 1 .. Len(txn)
        /\ txn[GetTransaction(t)].thread = t
        /\ ctx' = [ctx EXCEPT ![t] = GetTransaction(t)]
        /\ pc' = [pc EXCEPT ![t] = "undo"]
        /\ UNCHANGED <<used, data, txn, txn_map, next_txn_id_, txn_id, todo>>
    BY <1>1, <1>7 DEF AbortStatement, OwnsTransaction
  <2> QED BY <1>1, <1>3, <2>1, MoveStep
<1>8. CASE AssertFails(t)
  BY <1>8, AssertFailsStep DEF AssertFails, OnlyInv
<1>9. CASE Register(t)
  BY <1>9, RegisterStep, RegisterOnly
<1>10. CASE EndStatement(t)
  <2>1. /\ pc[t] = "done" /\ pc' = [pc EXCEPT ![t] = "idle"]
        /\ UNCHANGED <<used, data, txn_map, next_txn_id_, txn_id, ctx, todo>>
        /\ txn' = txn \/ EndAs(ctx[t], "COMMITTED")
    BY <1>10 DEF EndStatement
  <2>2. CASE txn' = txn
    BY <1>1, <1>2, <1>3, <2>1, <2>2, MoveStep
  <2>3. CASE EndAs(ctx[t], "COMMITTED")
    BY <1>2, <1>3, <2>1, <2>3, OverStep
  <2> QED BY <2>1, <2>2, <2>3
<1>11. CASE Throw(t)
  <2>1. /\ pc[t] \in {"run", "delete", "update", "done"} /\ pc' = [pc EXCEPT ![t] = "idle"]
        /\ todo' = [todo EXCEPT ![t] = {}]
        /\ UNCHANGED <<used, data, txn, txn_map, next_txn_id_, txn_id, ctx>>
    BY <1>11 DEF Throw
  <2> QED BY <1>1, <1>2, <1>3, <2>1, MoveStep
<1>12. ASSUME NEW v \in Values, Insert(t, v) \/ Update(t, v) PROVE TxnInv' /\ OnlyInv(t)'
  BY <1>12, InsertKeeps, UpdateKeeps
<1>13. CASE Select(t)
  <2>1. /\ pc[t] = "run" /\ pc' = [pc EXCEPT ![t] = "done"]
        /\ UNCHANGED <<used, data, txn, txn_map, next_txn_id_, txn_id, ctx, todo>>
    BY <1>13 DEF Select
  <2> QED BY <1>1, <1>2, <1>3, <2>1, MoveStep
<1>14. ASSUME NEW op \in WTypes, NEW rids \in SUBSET Slots, Collect(t, op, rids)
       PROVE  TxnInv' /\ OnlyInv(t)'
  <2>1. /\ pc[t] = "run" /\ op \in {"delete", "update"} /\ rids # {} /\ rids \subseteq used
        /\ pc' = [pc EXCEPT ![t] = op] /\ todo' = [todo EXCEPT ![t] = rids]
        /\ UNCHANGED <<used, data, txn, txn_map, next_txn_id_, txn_id, ctx>>
    BY <1>14 DEF Collect, WTypes
  <2> QED BY <1>1, <1>2, <1>3, <2>1, MoveStep
<1>15. CASE Delete(t)
  BY <1>15, DeleteKeeps
<1>16. CASE Undo(t)
  BY <1>16, UndoKeeps
<1>17. CASE EndAbort(t)
  <2>1. /\ pc[t] = "undo" /\ EndAs(ctx[t], "ABORTED") /\ pc' = [pc EXCEPT ![t] = "idle"]
        /\ UNCHANGED <<used, data, txn_map, next_txn_id_, txn_id, ctx, todo>>
    BY <1>17 DEF EndAbort
  <2> QED BY <1>2, <1>3, <2>1, OverStep
<1> QED BY <1>4, <1>5, <1>6, <1>7, <1>8, <1>9, <1>10, <1>11, <1>12, <1>13, <1>14, <1>15,
           <1>16, <1>17 DEF Step

\* ... and of any thread.
Inv == TxnInv /\ \A t \in Threads : OnlyInv(t)

LEMMA InvInitial == Init => Inv
<1> SUFFICES ASSUME Init PROVE Inv
  OBVIOUS
<1>1. TxnInv
  BY TxnInitial
<1>2. Len(txn) = 0
  BY EmptySeq DEF Init
<1>3. \A t \in Threads : pc[t] = "idle" /\ GetTransaction(t) = 0
  BY DEF Init, GetTransaction
<1> QED BY <1>1, <1>2, <1>3 DEF Inv, OnlyInv, Busy

LEMMA InvStep == Inv /\ [Next]_vars => Inv'
<1> SUFFICES ASSUME Inv, [Next]_vars PROVE Inv'
  OBVIOUS
<1>1. CASE UNCHANGED vars
  BY <1>1 DEF vars, table, client, Inv, TxnInv, TableOK, ObjectsOK, NothingToUndoOnceOver, Running,
              ClientsOK, Beginning, BeginsCounted, OwnTransactions, SomethingToWrite,
              OnlyInv, IsOnlyClient, GetTransaction
<1>2. ASSUME NEW u \in Threads, Step(u) PROVE Inv'
  <2>1. TxnInv' /\ OnlyInv(u)'
    BY <1>2, OwnStep DEF Inv
  <2>2. ASSUME NEW t \in Threads, t # u PROVE OnlyInv(t)'
    <3>1. IsOnlyClient(t)' => IsOnlyClient(t)
      BY <1>2, ObjectsStay DEF IsOnlyClient, Inv
    <3>2. IsOnlyClient(t) => ~IsOnlyClient(t)' \/ pc'[t] = "gone"
      BY <1>2, <2>2, OtherThread DEF Inv
    <3> QED BY <3>1, <3>2 DEF OnlyInv
  <2> QED BY <2>1, <2>2 DEF Inv
<1> QED BY <1>1, <1>2 DEF Next

-----------------------------------------------------------------------------
(* Theorems                                                                *)

\* The invariant: transactions belong to their threads and are counted by
\* next_txn_id_, and the write set of a client that is alone explains how the
\* table came about since its transaction began.
THEOREM TransactionsCorrect == Spec => []Inv
BY InvInitial, InvStep, PTL DEF Spec

\* Every variable of interp_sql and the transaction manager keeps its type:
\* next_txn_id_ in particular never exceeds the number of transactions begun.
THEOREM TransactionTypes == Spec => []TypeOK
<1>1. Inv => TypeOK
  BY TxnInvTypes DEF Inv
<1> QED BY <1>1, TransactionsCorrect, PTL

\* A statement (interp_sql between SetTransaction and its end) works in a
\* transaction its own thread began and that no other has ended.
THEOREM StatementsLive == Spec => []StatementsRunInLiveTransaction
<1>1. Inv => StatementsRunInLiveTransaction
  BY DEF Inv, TxnInv, OwnTransactions, Busy, StatementsRunInLiveTransaction
<1> QED BY <1>1, TransactionsCorrect, PTL

\* Commit and Abort leave no write behind that a second call would undo.
THEOREM OverIsOver == Spec => []NothingToUndoOnceOver
<1>1. Inv => NothingToUndoOnceOver
  BY DEF Inv, TxnInv, ObjectsOK
<1> QED BY <1>1, TransactionsCorrect, PTL

\* What the write set of a lone client's transaction explains once it is empty.
LEMMA UndoneTable ==
    ASSUME Inv, NEW t \in Threads, Undone(t), IsOnlyClient(t)
    PROVE  /\ Cardinality(used) = Cardinality(txn[ctx[t]].before.used)
           /\ ~txn[ctx[t]].deletes =>
                 used = txn[ctx[t]].before.used /\ \A r \in used : data[r] = txn[ctx[t]].before.data[r]
<1> DEFINE o == ctx[t]
<1>1. /\ pc[t] = "undo" /\ Running(o) /\ txn[o].write_set = <<>> /\ o = Len(txn)
      /\ o \in 1 .. Len(txn)
  BY DEF Undone, Inv, TxnInv, OnlyInv, OwnTransactions, Busy
<1>2. Explained(<<>>, txn[o].before, txn[o].deletes, pc[t], used, data)
  BY <1>1 DEF Inv, OnlyInv
<1>3. txn[o].before \in Tables /\ txn[o].deletes \in BOOLEAN /\ used \in SUBSET Slots
  BY <1>1, InvFacts DEF Inv
<1> HIDE DEF o
<1>4. /\ Cardinality(used) = Cardinality(txn[o].before.used)
      /\ ~txn[o].deletes => Agrees(txn[o].before, used, data)
  BY <1>2, <1>3, ExplainedEnd
<1> QED BY <1>4 DEF Agrees, o

\* Abort of a lone client's transaction that deleted nothing puts every record
\* back under its own rid with its own value.
THEOREM AbortIsExact == Spec => []AbortRestoresTable
<1>1. Inv => AbortRestoresTable
  BY UndoneTable DEF AbortRestoresTable
<1> QED BY <1>1, TransactionsCorrect, PTL

\* Whatever a lone client's transaction did, its Abort leaves as many records as
\* there were when it began.
THEOREM AbortKeepsCount == Spec => []AbortRestoresCount
<1>1. Inv => AbortRestoresCount
  BY UndoneTable DEF AbortRestoresCount
<1> QED BY <1>1, TransactionsCorrect, PTL

=============================================================================

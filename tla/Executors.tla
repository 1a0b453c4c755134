----------------------------- MODULE Executors -----------------------------
(***************************************************************************)
(* The statements that write: QlManager (execution/execution_manager.cpp)  *)
(* and its insert, delete and update executors, with CREATE INDEX and DROP *)
(* INDEX.  Each statement is one action on the tables and their indexes,   *)
(* and stops in the middle where the code throws.  Select has the queries. *)
(*                                                                         *)
(* An index is an ordered map from keys to rids that keeps the first rid   *)
(* of a key and dies when its last key is deleted (root_page becomes -1,   *)
(* see IxIndex).  How its keys lie in leaves is left open.  A scan of a    *)
(* table without records returns a position that holds none (see RmScan),  *)
(* and the statements go on with the bytes that are there.                 *)
(***************************************************************************)
EXTENDS Integers, Sequences, FiniteSetsExt, Functions

CONSTANTS
    ColsOf,     \* table -> the sequence of its columns
    SlotsOf,    \* bound: table -> the number of records it can hold
    Vals,       \* column values, integers
    CondsOf,    \* table -> the conditions in WHERE clauses of DELETE and UPDATE
    Indexable,  \* <<table, column>> pairs that CREATE INDEX is used for
    MaxConds    \* bound: the length of these WHERE clauses

Tables == DOMAIN ColsOf

ASSUME ExecutorsAssumption ==
    /\ Vals \subseteq Int
    /\ \A t \in Tables : Len(ColsOf[t]) \in Nat /\ DOMAIN ColsOf[t] = 1 .. Len(ColsOf[t])
    /\ \A t \in Tables : SlotsOf[t] \in Nat
    /\ MaxConds \in Nat

ColSet(t) == Range(ColsOf[t])
Rids(t) == 1 .. SlotsOf[t]
Positions(t) == 0 .. SlotsOf[t]  \* 0 is where no record can be
RowsOf(t) == [ColSet(t) -> Vals]

VARIABLES
    tab,     \* the records: table -> rid -> row (a partial function)
    idx,     \* the indexes: <<table, column>> -> index (a partial function)
    filled,  \* tables that have had a record: their files have record pages
    threw,   \* history: tables on which a statement has stopped in the middle
    astray   \* history: tables that had no record when an index on them was
             \* created, until all their indexes are dropped

vars == <<tab, idx, filled, threw, astray>>

\* refused: history, an entry was refused because its key was there.
NewIndex == [map |-> <<>>, dead |-> FALSE, refused |-> FALSE]

\* The values of f, and those of g elsewhere.
Override(f, g) == [x \in DOMAIN f \cup DOMAIN g |-> IF x \in DOMAIN f THEN f[x] ELSE g[x]]
With(g, k, v) == Override([x \in {k} |-> v], g)
Without(f, k) == Restrict(f, DOMAIN f \ {k})

-----------------------------------------------------------------------------
(* Conditions                                                              *)

\* A condition compares a column with a value or with a column.
Col(t, c) == [tab |-> t, col |-> c]
CondVal(lhs, op, v) == [lhs |-> lhs, op |-> op, isval |-> TRUE, val |-> v, rhs |-> lhs]
CondCol(lhs, op, rhs) == [lhs |-> lhs, op |-> op, isval |-> FALSE, val |-> 0, rhs |-> rhs]
Ops == {"=", "<>", "<", ">", "<=", ">="}

Compare(x, op, y) ==
    \/ op = "=" /\ x = y
    \/ op = "<>" /\ x # y
    \/ op = "<" /\ x < y
    \/ op = ">" /\ x > y
    \/ op = "<=" /\ x <= y
    \/ op = ">=" /\ x >= y

eval_cond(cond, row) ==
    Compare(row[cond.lhs.col], cond.op, IF cond.isval THEN cond.val ELSE row[cond.rhs.col])

eval_conds(conds, row) == \A i \in DOMAIN conds : eval_cond(conds[i], row)

-----------------------------------------------------------------------------
(* Scans                                                                   *)

\* The integers in S, in ascending order.
Sorted(S) ==
    CHOOSE q \in [1 .. Cardinality(S) -> S] :
        \A i, j \in 1 .. Cardinality(S) : i < j => q[i] < q[j]

\* get_indexNo: the first condition of the form column op value whose column has
\* an index decides.
Usable(t, cond) == cond.isval /\ cond.op # "<>" /\ <<t, cond.lhs.col>> \in DOMAIN idx
IndexConds(t, conds) == {i \in DOMAIN conds : Usable(t, conds[i])}
get_indexNo(t, conds) ==
    IF IndexConds(t, conds) = {} THEN "none" ELSE conds[Min(IndexConds(t, conds))].lhs.col

\* What a statement on t sees where no record is.  scan: the positions that a scan
\* of t returns, which are its records.  If there are none it returns one position
\* all the same, past the slots of page 0 in a file without record pages, with a
\* slot number that is not initialised in others.  left: the bytes at this
\* position and at those that entries lead to, if no record is there.
Scanned(t) ==
    IF DOMAIN tab[t] # {} THEN {DOMAIN tab[t]}
    ELSE {{g} : g \in IF t \in filled THEN Positions(t) ELSE {0}}
Led(t) == UNION {Range(idx[i].map) : i \in {j \in DOMAIN idx : j[1] = t}}
Views(t) ==
    UNION {[scan : {S}, left : [(S \cup Led(t)) \ DOMAIN tab[t] -> RowsOf(t)]] : S \in Scanned(t)}

\* get_record does not look at the bitmap.
get_record(rows, left, rid) == IF rid \in DOMAIN rows THEN rows[rid] ELSE left[rid]

\* IndexScanExecutor::beginTuple: the keys from lower to upper.
InRange(k, cond) ==
    /\ cond.op \in {"=", ">", ">="} => k >= cond.val   \* lower_bound
    /\ cond.op \in {"=", "<", "<="} => k <= cond.val   \* upper_bound

\* The condition that bounds a scan of the index on c: the first that can.
Bounding(c, conds) ==
    {i \in DOMAIN conds : conds[i].isval /\ conds[i].op # "<>" /\ conds[i].lhs.col = c}

\* The ways to divide the keys of an index into leaves, each given by the last keys
\* of the leaves other than the last one.
Divisions(i) == SUBSET {k \in DOMAIN idx[i].map : \E j \in DOMAIN idx[i].map : j > k}

\* lower_bound lies behind the last key of its leaf, and there is another leaf: the
\* first get_rid of the scan throws.
BoundThrows(map, ends, cond) ==
    /\ cond.op \in {"=", ">", ">="}
    /\ \E e \in ends : e < cond.val /\ \A k \in DOMAIN map : k > e => k > cond.val
IndexThrows(i, ends, conds) ==
    \/ idx[i].dead
    \/ LET on == Bounding(i[2], conds)
       IN on # {} /\ BoundThrows(idx[i].map, ends, conds[Min(on)])

\* The rids at which the conditions hold: in the order of the index, or in the order
\* of the table.
IndexOrder(v, t, c, conds) ==
    LET on == Bounding(c, conds)
        map == idx[<<t, c>>].map
        keys == {k \in DOMAIN map : /\ on = {} \/ InRange(k, conds[Min(on)])
                                    /\ eval_conds(conds, get_record(tab[t], v.left, map[k]))}
    IN [i \in 1 .. Cardinality(keys) |-> map[Sorted(keys)[i]]]
SeqOrder(v, t, conds) ==
    Sorted({r \in v.scan : eval_conds(conds, get_record(tab[t], v.left, r))})

\* The rids a scan executor of t returns for conditions without columns of other
\* tables; useIx is the column of the index, or "none".
ScanRids(v, t, useIx, conds) ==
    IF useIx = "none" THEN SeqOrder(v, t, conds) ELSE IndexOrder(v, t, useIx, conds)

-----------------------------------------------------------------------------
(* Statements                                                              *)

\* The state of a statement under way on table t: its records, the bytes elsewhere,
\* the indexes, and whether it has thrown.
Start(t, v) == [rows |-> tab[t], left |-> v.left, idx |-> idx, thrown |-> FALSE]

\* insert_entry and delete_entry of index i; both throw if it is dead.
insert_entry(w, i, k, rid) ==
    IF w.thrown \/ w.idx[i].dead THEN [w EXCEPT !.thrown = TRUE]
    ELSE IF k \in DOMAIN w.idx[i].map THEN [w EXCEPT !.idx[i].refused = TRUE]
    ELSE [w EXCEPT !.idx[i].map = With(@, k, rid)]

delete_entry(w, i, k) ==
    IF w.thrown \/ w.idx[i].dead THEN [w EXCEPT !.thrown = TRUE]
    ELSE [w EXCEPT !.idx[i].map = Without(@, k),
                   !.idx[i].dead = DOMAIN w.idx[i].map \subseteq {k}]

\* The loops over the columns of t, for those of cs that have an index.
HasIndex(t, cs, c) == c \in cs /\ <<t, c>> \in DOMAIN idx
InsertAll(w, t, cs, rid, row) ==
    LET cols == ColsOf[t]
        after[n \in 0 .. Len(cols)] ==
            IF n = 0 THEN w
            ELSE IF HasIndex(t, cs, cols[n])
                 THEN insert_entry(after[n - 1], <<t, cols[n]>>, row[cols[n]], rid)
                 ELSE after[n - 1]
    IN after[Len(cols)]
DeleteAll(w, t, cs, row) ==
    LET cols == ColsOf[t]
        after[n \in 0 .. Len(cols)] ==
            IF n = 0 THEN w
            ELSE IF HasIndex(t, cs, cols[n])
                 THEN delete_entry(after[n - 1], <<t, cols[n]>>, row[cols[n]])
                 ELSE after[n - 1]
    IN after[Len(cols)]

Finish(t, w) ==
    /\ tab' = [tab EXCEPT ![t] = w.rows]
    /\ idx' = w.idx
    /\ threw' = IF w.thrown THEN threw \cup {t} ELSE threw
    /\ UNCHANGED astray

\* InsertExecutor::Next: the record, then the entries.
insert_into(t, row) ==
    /\ Rids(t) # DOMAIN tab[t]
    /\ LET rid == Min(Rids(t) \ DOMAIN tab[t])
           w == [Start(t, [left |-> <<>>]) EXCEPT !.rows = With(@, rid, row)]
       IN Finish(t, InsertAll(w, t, ColSet(t), rid, row))
    /\ filled' = filled \cup {t}

\* delete_record leaves the bytes and does nothing where no record is;
\* update_record writes in any case.
delete_record(w, rid) ==
    [w EXCEPT !.rows = Without(@, rid), !.left = With(@, rid, get_record(w.rows, w.left, rid))]
update_record(w, rid, row) ==
    IF rid \in DOMAIN w.rows THEN [w EXCEPT !.rows = With(@, rid, row)]
    ELSE [w EXCEPT !.left = With(@, rid, row)]

\* Mutant: only the record is deleted.
DeleteOneAlone(w, t, rid) == delete_record(w, rid)

\* DeleteExecutor::Next, for one rid: the entries, then the record.
DeleteOne(w, t, rid) ==
    LET d == IF w.thrown THEN w ELSE DeleteAll(w, t, ColSet(t), get_record(w.rows, w.left, rid))
    IN IF d.thrown THEN d ELSE delete_record(d, rid)

\* Mutant: the new entries are forgotten.
UpdateOneWithoutInsert(w, t, rid, set) ==
    LET old == get_record(w.rows, w.left, rid)
        d == IF w.thrown THEN w ELSE DeleteAll(w, t, DOMAIN set, old)
    IN IF d.thrown THEN d ELSE update_record(d, rid, Override(set, old))

\* UpdateExecutor::Next, for one rid: the entries of the columns that are set are
\* deleted, the record is changed, new entries are inserted.
UpdateOne(w, t, rid, set) ==
    LET old == get_record(w.rows, w.left, rid)
        row == Override(set, old)
        d == IF w.thrown THEN w ELSE DeleteAll(w, t, DOMAIN set, old)
    IN IF d.thrown THEN d ELSE InsertAll(update_record(d, rid, row), t, DOMAIN set, rid, row)

\* delete_from and update_set: the rids come from a scan that runs to its end
\* before anything is changed, so that nothing is if the scan throws.
Found(v, t, conds) == ScanRids(v, t, get_indexNo(t, conds), conds)
ScanThrows(t, conds, ends) ==
    LET c == get_indexNo(t, conds) IN c # "none" /\ IndexThrows(<<t, c>>, ends, conds)
ScanDivisions(t, conds) ==
    LET c == get_indexNo(t, conds) IN IF c = "none" THEN {{}} ELSE Divisions(<<t, c>>)

DeleteRids(v, t, rids) ==
    LET after[n \in 0 .. Len(rids)] ==
            IF n = 0 THEN Start(t, v) ELSE DeleteOne(after[n - 1], t, rids[n])
    IN after[Len(rids)]
UpdateRids(v, t, rids, set) ==
    LET after[n \in 0 .. Len(rids)] ==
            IF n = 0 THEN Start(t, v) ELSE UpdateOne(after[n - 1], t, rids[n], set)
    IN after[Len(rids)]

delete_from(t, conds) ==
    \E ends \in ScanDivisions(t, conds), v \in Views(t) :
        IF ScanThrows(t, conds, ends) THEN UNCHANGED vars
        ELSE Finish(t, DeleteRids(v, t, Found(v, t, conds))) /\ UNCHANGED filled

update_set(t, set, conds) ==
    \E ends \in ScanDivisions(t, conds), v \in Views(t) :
        IF ScanThrows(t, conds, ends) THEN UNCHANGED vars
        ELSE Finish(t, UpdateRids(v, t, Found(v, t, conds), set)) /\ UNCHANGED filled

\* SmManager::create_index and drop_index (see SmCatalog for their files).
IndexRids(w, t, c, rids) ==
    LET after[n \in 0 .. Len(rids)] ==
            IF n = 0 THEN w
            ELSE insert_entry(after[n - 1], <<t, c>>, get_record(w.rows, w.left, rids[n])[c], rids[n])
    IN after[Len(rids)]

create_index(t, c) ==
    /\ <<t, c>> \in Indexable \ DOMAIN idx
    /\ \E v \in Views(t) :
        LET w == [Start(t, v) EXCEPT !.idx = With(@, <<t, c>>, NewIndex)]
        IN idx' = IndexRids(w, t, c, SeqOrder(v, t, <<>>)).idx
    /\ astray' = IF DOMAIN tab[t] = {} THEN astray \cup {t} ELSE astray
    /\ UNCHANGED <<tab, filled, threw>>

drop_index(t, c) ==
    /\ <<t, c>> \in DOMAIN idx
    /\ idx' = Without(idx, <<t, c>>)
    /\ astray' = {s \in astray : s # t \/ \E i \in DOMAIN idx' : i[1] = t}
    /\ UNCHANGED <<tab, filled, threw>>

-----------------------------------------------------------------------------

Init ==
    /\ tab = [t \in Tables |-> <<>>] /\ idx = <<>>
    /\ filled = {} /\ threw = {} /\ astray = {}

\* WHERE clauses of the statements that write.
Wheres(t) == UNION {[1 .. n -> CondsOf[t]] : n \in 0 .. MaxConds}

\* SET clauses.
Sets(t) == UNION {[cs -> Vals] : cs \in SUBSET ColSet(t) \ {{}}}

Next ==
    \E t \in Tables :
        \/ \E row \in RowsOf(t) : insert_into(t, row)
        \/ \E conds \in Wheres(t) : delete_from(t, conds)
        \/ \E conds \in Wheres(t), set \in Sets(t) : update_set(t, set, conds)
        \/ \E c \in ColSet(t) : create_index(t, c) \/ drop_index(t, c)

Spec == Init /\ [][Next]_vars

-----------------------------------------------------------------------------
(* Properties                                                              *)

\* Created while its table has records, an index never leads to a wrong record: the
\* record behind each entry exists and has the key of the entry, also after
\* duplicate keys were refused, after the index died, after a statement stopped in
\* the middle and after DELETE and UPDATE on a table that has become empty.
\* create_index on an empty table makes an entry for a position without a record;
\* nothing is said of such a table until its indexes are dropped.
Sound(i) ==
    \A k \in DOMAIN idx[i].map :
        LET r == idx[i].map[k]
        IN r \in DOMAIN tab[i[1]] /\ tab[i[1]][r][i[2]] = k

EntriesPointAtTheirRows == \A i \in DOMAIN idx : i[1] \in astray \/ Sound(i)

\* An index that is alive and never refused a key has an entry for every record
\* of its table, as long as no statement on the table has thrown half-way and none
\* of its indexes was created while it was empty.
Complete(i) ==
    ~idx[i].dead /\ Range(idx[i].map) = DOMAIN tab[i[1]]

IndexHasEveryRow ==
    \A i \in DOMAIN idx :
        idx[i].dead \/ idx[i].refused \/ i[1] \in threw \cup astray \/ Complete(i)

=============================================================================

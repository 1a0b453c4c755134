------------------------------- MODULE Select -------------------------------
(***************************************************************************)
(* SELECT: QlManager::select_from (execution/execution_manager.cpp) and    *)
(* the executors it builds.  SELECT changes nothing: it is the operator    *)
(* select_from, which builds the operator tree of the code and pulls       *)
(* tuples from it, and is compared with the product of the tables          *)
(* restricted by the conditions, in every state that the statements of     *)
(* Executors reach.                                                        *)
(***************************************************************************)
EXTENDS Executors, SequencesExt, TLC

CONSTANTS Queries  \* SELECT statements: [tabs, conds, cols]

ASSUME SelectAssumption ==
    \A q \in Queries : Len(q.tabs) > 0 /\ IsInjective(q.tabs)

\* The table of a column that the statement does not qualify.
NoTab == "none"

Apply(f(_), s) == [i \in DOMAIN s |-> f(s[i])]

-----------------------------------------------------------------------------
(* Conditions between tables                                               *)

\* Mutant: the sides are exchanged and the operator is kept.
swap_opForgotten(op) == op

swap_op(op) == ("=" :> "=" @@ "<>" :> "<>" @@ "<" :> ">" @@ ">" :> "<" @@ "<=" :> ">=" @@ ">=" :> "<=")[op]

\* The conditions a scan of t works with: its own column on the left.
OnLeft(t, cond) ==
    IF cond.lhs.tab = t THEN cond
    ELSE [cond EXCEPT !.lhs = cond.rhs, !.rhs = cond.lhs, !.op = swap_op(cond.op)]

\* feed: columns of tables further left become the values of their current rows.
Feed(t, dict, cond) ==
    IF cond.isval \/ cond.rhs.tab = t THEN cond
    ELSE [cond EXCEPT !.isval = TRUE, !.val = dict[cond.rhs.tab][cond.rhs.col]]

-----------------------------------------------------------------------------
(* The plan and its execution                                              *)

\* check_column: an unqualified column belongs to the one table of the list that
\* has it; a qualified one has to exist, in any table of the database.
Owners(tabs, c) == {t \in Range(tabs) : c \in ColSet(t)}
ColumnError(tabs, tc) ==
    IF tc.tab = NoTab THEN \A t \in Owners(tabs, tc.col) : Owners(tabs, tc.col) # {t}
    ELSE tc.tab \notin Tables \/ tc.col \notin ColSet(tc.tab)
check_column(tabs, tc) ==
    IF tc.tab = NoTab THEN [tc EXCEPT !.tab = CHOOSE t \in Owners(tabs, tc.col) : TRUE] ELSE tc

check_where_clause(tabs, conds) ==
    Apply(LAMBDA cond : [cond EXCEPT !.lhs = check_column(tabs, @),
                                     !.rhs = check_column(tabs, @)], conds)
NameError(q) ==
    \/ \E i \in DOMAIN q.cols : ColumnError(q.tabs, q.cols[i])
    \/ \E i \in DOMAIN q.conds : \/ ColumnError(q.tabs, q.conds[i].lhs)
                                 \/ ColumnError(q.tabs, q.conds[i].rhs)

\* pop_conds: a condition goes to the scan of the last table that it mentions.
Mentions(tabs, i, cond) ==
    LET upTo == {tabs[j] : j \in 1 .. i}
    IN cond.lhs.tab \in upTo /\ (cond.isval \/ cond.rhs.tab \in upTo)
Solved(tabs, i, cond) == Mentions(tabs, i, cond) /\ (i = 1 \/ ~Mentions(tabs, i - 1, cond))

\* What a SELECT meets that the records do not determine: what each table shows
\* where no record is, and the leaves of the indexes.
Selections(S, F(_)) == {f \in [S -> UNION {F(x) : x \in S}] : \A x \in S : f[x] \in F(x)}
IndexesOf(tabs) == {i \in DOMAIN idx : i[1] \in Range(tabs)}
Settings(tabs) ==
    [see : Selections(Range(tabs), Views), ends : Selections(IndexesOf(tabs), Divisions)]

\* The plan: per table its conditions and its index.
Plan(tabs, conds, at) ==
    [i \in DOMAIN tabs |->
        LET mine == Apply(LAMBDA cond : OnLeft(tabs[i], cond),
                          SelectSeq(conds, LAMBDA cond : Solved(tabs, i, cond)))
            ix == get_indexNo(tabs[i], mine)
        IN [t |-> tabs[i], conds |-> mine, ix |-> ix, v |-> at.see[tabs[i]],
            ends |-> IF ix = "none" THEN {} ELSE at.ends[<<tabs[i], ix>>]]]

\* The operator tree is a chain of joins: join i has scan i on its left and join
\* i + 1, or the last scan, on its right.  rest[i] are the rids scan i has still
\* to return, the first being the current one; dict[i] what it was last fed; and
\* status is "rows" until an exception or a failed assert ends the statement.
IsEnd(s, i) == s.rest[i] = <<>>
Ended(s) == s.status # "rows"

\* The record that Next() of scan i returns.  A sequential scan past its end
\* returns the last record it has looked at; an index scan has an assert there.
CurRow(p, s, i) ==
    get_record(tab[p[i].t], p[i].v.left,
               IF ~IsEnd(s, i) THEN Head(s.rest[i]) ELSE Last(SeqOrder(p[i].v, p[i].t, <<>>)))

\* feed_right and, for the right side i + 1, feed.
FeedRight(p, s, i) ==
    IF IsEnd(s, i) /\ p[i].ix # "none" THEN [s EXCEPT !.status = "assert"]
    ELSE [s EXCEPT !.dict[i + 1] = (p[i].t :> CurRow(p, s, i)) @@ s.dict[i]]

LeftBegin(p, s, i) ==
    LET fed == Apply(LAMBDA cond : Feed(p[i].t, s.dict[i], cond), p[i].conds)
    IN IF p[i].ix # "none" /\ IndexThrows(<<p[i].t, p[i].ix>>, p[i].ends, fed)
       THEN [s EXCEPT !.status = "throws"]
       ELSE [s EXCEPT !.rest[i] = ScanRids(p[i].v, p[i].t, p[i].ix, fed)]

RECURSIVE BeginTuple(_, _, _), BeginLoop(_, _, _)
BeginTuple(p, s, i) ==
    LET l == LeftBegin(p, s, i)
    IN IF i = Len(p) \/ Ended(l) \/ IsEnd(l, i) THEN l
       ELSE BeginLoop(p, BeginTuple(p, FeedRight(p, l, i), i + 1), i)
BeginLoop(p, s, i) ==
    IF Ended(s) \/ ~IsEnd(s, i + 1) THEN s
    ELSE LET l == [s EXCEPT !.rest[i] = Tail(@)]
         IN IF IsEnd(l, i) THEN l
            ELSE BeginLoop(p, BeginTuple(p, FeedRight(p, l, i), i + 1), i)

\* The loop of nextTuple; the right side is fed and started again also when the
\* left one has ended.
RECURSIVE NextLoop(_, _, _)
NextLoop(p, s, i) ==
    IF Ended(s) \/ ~IsEnd(s, i + 1) THEN s
    ELSE LET l == FeedRight(p, [s EXCEPT !.rest[i] = Tail(@)], i)
             r == IF Ended(l) THEN l ELSE BeginTuple(p, l, i + 1)
         IN IF IsEnd(r, i) THEN r ELSE NextLoop(p, r, i)

RECURSIVE NextTuple(_, _, _)
NextTuple(p, s, i) ==
    IF i = Len(p) THEN [s EXCEPT !.rest[i] = Tail(@)]
    ELSE NextLoop(p, NextTuple(p, s, i + 1), i)

\* A record is the sequence of its values.  NestedLoopJoinExecutor: the columns
\* of the right side are moved behind those of the left, and Next() puts the two
\* records together.
Rec(v, t, r) == Apply(LAMBDA c : get_record(tab[t], v.left, r)[c], ColsOf[t])
ScanCols(t) == [k \in DOMAIN ColsOf[t] |-> [tab |-> t, col |-> ColsOf[t][k], offset |-> k]]

Moved(cols, len) == Apply(LAMBDA c : [c EXCEPT !.offset = @ + len], cols)

RECURSIVE JoinCols(_, _), JoinRec(_, _, _)
JoinCols(p, i) ==
    IF i = Len(p) THEN ScanCols(p[i].t)
    ELSE ScanCols(p[i].t) \o Moved(JoinCols(p, i + 1), Len(ColsOf[p[i].t]))
JoinRec(p, s, i) ==
    LET mine == Rec(p[i].v, p[i].t, Head(s.rest[i]))
    IN IF i = Len(p) THEN mine ELSE mine \o JoinRec(p, s, i + 1)

\* ProjectionExecutor: get_col finds each selected column, Next() copies it.
Project(cols, sel, rec) ==
    LET Pos(tc) == Min({k \in DOMAIN cols : cols[k].tab = tc.tab /\ cols[k].col = tc.col})
    IN Apply(LAMBDA tc : rec[cols[Pos(tc)].offset], sel)

\* The loop of select_from over the root: the rids of each tuple, and what is
\* printed of it.
RECURSIVE Collect(_, _, _, _)
Collect(p, sel, s, out) ==
    IF Ended(s) \/ IsEnd(s, 1) THEN [status |-> s.status, out |-> out]
    ELSE Collect(p, sel, NextTuple(p, s, 1),
                 Append(out, [rids |-> [i \in DOMAIN p |-> Head(s.rest[i])],
                              shown |-> Project(JoinCols(p, 1), sel, JoinRec(p, s, 1))]))

\* sel_cols: all columns for "select *".
SelCols(q) ==
    IF q.cols = <<>> THEN Apply(LAMBDA c : Col(c.tab, c.col), FlattenSeq(Apply(ScanCols, q.tabs)))
    ELSE Apply(LAMBDA tc : check_column(q.tabs, tc), q.cols)

\* status: "rows", an exception ("throws"), or an assert that fails and ends the
\* server; one of them checks that every condition has found its scan.
Outside(q) ==
    \E i \in DOMAIN q.conds :
        ~Mentions(q.tabs, Len(q.tabs), check_where_clause(q.tabs, q.conds)[i])

select_from(q, at) ==
    IF NameError(q) THEN [status |-> "throws", out |-> <<>>]
    ELSE IF Outside(q) THEN [status |-> "assert", out |-> <<>>]
    ELSE LET p == Plan(q.tabs, check_where_clause(q.tabs, q.conds), at)
             start == [rest |-> [i \in DOMAIN p |-> <<>>], dict |-> [i \in DOMAIN p |-> <<>>],
                       status |-> "rows"]
         IN Collect(p, SelCols(q), BeginTuple(p, start, 1), <<>>)

-----------------------------------------------------------------------------
(* Properties                                                              *)

\* The rows a SELECT stands for: the combinations of records that satisfy every
\* condition, where a table without records counts as one record of the bytes that
\* its scan finds.
At(q, at, tuple, tc) ==
    LET i == CHOOSE i \in DOMAIN q.tabs : q.tabs[i] = tc.tab
    IN get_record(tab[tc.tab], at.see[tc.tab].left, tuple[i])[tc.col]

Reference(q, at) ==
    LET conds == check_where_clause(q.tabs, q.conds)
        Tuples == Selections(DOMAIN q.tabs, LAMBDA i : at.see[q.tabs[i]].scan)
    IN {f \in Tuples : \A i \in DOMAIN conds :
            Compare(At(q, at, f, conds[i].lhs), conds[i].op,
                    IF conds[i].isval THEN conds[i].val ELSE At(q, at, f, conds[i].rhs))}

\* The plan of q reads a table that is not the last one through an index.
LeftIndex(q, at) ==
    LET p == Plan(q.tabs, check_where_clause(q.tabs, q.conds), at)
    IN \E i \in DOMAIN p : i < Len(p) /\ p[i].ix # "none"

\* The tables of q have records or never had one, and their indexes are complete
\* and lead to the right records.
Ready(q) ==
    /\ \A t \in Range(q.tabs) : DOMAIN tab[t] # {} \/ t \notin filled
    /\ \A i \in IndexesOf(q.tabs) : Complete(i) /\ Sound(i)

\* SELECT from such tables returns each combination of records that satisfies the
\* conditions once and no other, and prints its selected columns, in joins of any
\* number of tables.  A table that never had a record counts as one record of
\* leftover bytes (txn_manager_test.cpp:113 expects none); one that has become
\* empty begins its scans at a slot number that is not initialised, and nothing is
\* said of it.  SELECT throws only for a name it cannot resolve, or when a bound of
\* an index scan lies behind the last key of a leaf.  It ends the server only in two
\* ways: a condition on a table that is not in FROM stays behind (assert of
\* select_from), or the left side of a join is read through an index: nextTuple
\* feeds the right side also after the left one has ended, and the assert of
\* IndexScanExecutor::Next fails.
SelectIsRight ==
    \A q \in Queries : Ready(q) =>
        \A at \in Settings(q.tabs) :
            LET res == select_from(q, at)
            IN /\ res.status = "assert" => Outside(q) \/ LeftIndex(q, at)
               /\ res.status = "throws" => NameError(q) \/ \E i \in DOMAIN at.ends : at.ends[i] # {}
               /\ res.status = "rows" =>
                    /\ IsInjective(res.out)
                    /\ {o.rids : o \in Range(res.out)} = Reference(q, at)
                    /\ \A o \in Range(res.out) :
                          o.shown = Apply(LAMBDA tc : At(q, at, o.rids, tc), SelCols(q))

=============================================================================

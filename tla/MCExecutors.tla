---------------------------- MODULE MCExecutors ----------------------------
EXTENDS Select

MCColsOf == [t1 |-> <<"k">>, t2 |-> <<"k", "v">>, t3 |-> <<"w">>]
MCSlotsOf == [t1 |-> 2, t2 |-> 2, t3 |-> 1]
MCIndexable == {<<"t2", "k">>}

T1k == Col("t1", "k")
T2k == Col("t2", "k")
T2v == Col("t2", "v")
T3w == Col("t3", "w")
All == <<>>

\* A key, a bound that lies between two keys, and conditions without an index.
MCCondsOf ==
    [t1 |-> {CondVal(T1k, "<", 3)},
     t2 |-> {CondVal(T2k, "=", 1), CondVal(T2k, ">=", 2), CondCol(T2k, "<>", T2v)},
     t3 |-> {}]

Query(tabs, conds, cols) == [tabs |-> tabs, conds |-> conds, cols |-> cols]

\* One table, joins of two tables in both orders with the condition either way
\* round, joins of three tables with conditions between any two of them, column
\* names that are unknown, ambiguous or of another table, and a condition on a table
\* that is not in FROM.
MCQueries ==
    {Query(<<"t2">>, <<CondVal(T2k, op, v)>>, <<Col(NoTab, "v")>>) : op \in Ops, v \in 1 .. 3}
    \cup {Query(<<"t1", "t2">>, <<CondCol(T1k, op, T2k)>>, <<T2v, T1k>>) : op \in Ops}
    \cup {Query(<<"t2", "t1">>, <<CondCol(T1k, op, T2k), CondVal(T2v, "=", 3)>>, All) : op \in {"<", ">="}}
    \cup {Query(<<"t1", "t2">>, <<CondVal(T2k, ">", 1), CondVal(T2k, "<", 4)>>, <<T2k>>)}
    \cup {Query(<<"t1", "t2", "t3">>, <<CondCol(T1k, op, T3w), CondCol(T3w, ">=", T2v)>>, <<T3w, T2v, T1k>>) : op \in {"=", "<"}}
    \cup {Query(<<"t3", "t1", "t2">>, <<CondCol(T2v, "=", T3w), CondCol(T1k, "<>", T2k)>>, All)}
    \cup {Query(<<"t1", "t2">>, <<>>, <<Col(NoTab, c)>>) : c \in {"k", "v", "w"}}
    \cup {Query(<<"t1", "t2">>, <<CondVal(T1k, "=", 1)>>, All)}
    \cup {Query(<<"t2", "t1">>, <<CondVal(T2k, op, 2), CondCol(T1k, ">=", T2v)>>, All) : op \in {"<", ">="}}
    \cup {Query(<<"t1">>, <<CondVal(T1k, "=", 1), CondCol(T2k, "=", T1k)>>, All)}
=============================================================================

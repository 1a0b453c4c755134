------------------------------- MODULE Parser -------------------------------
(***************************************************************************)
(* yyparse: the table-driven parser bison generates from yacc.y, with the  *)
(* grammar's semantic actions, as the server calls it on one statement     *)
(* (rmdb.cpp: yy_scan_string, yyparse, interp_sql of ast::parse_tree).     *)
(*                                                                         *)
(* The statement is any sequence of at most MaxTokens tokens, chosen token *)
(* by token as yylex is called and ended by T_EOF.  What a token carries   *)
(* (the text of an identifier, the number of a literal) is abstracted to   *)
(* its position in the statement, so a tree that mixes up two names or two *)
(* literals is told apart from the right one.                              *)
(*                                                                         *)
(* Semantic values are modelled in full, as the C++ struct SemValue: the   *)
(* rules copy whole structs ($$ = $1 by default), a token leaves the other *)
(* members of yylval as they were, and the slots above the top of the      *)
(* stack keep what they held, which is where the default $$ of the empty   *)
(* rule comes from.                                                        *)
(***************************************************************************)
EXTENDS ParserTables, FiniteSetsExt, SequencesExt

CONSTANTS MaxTokens,    \* tokens of a statement before its end
          YYINITDEPTH   \* entries of the stacks: 200 in the code

VARIABLES toks,         \* the tokens yylex has returned, by name
          yychar,       \* the lookahead, a symbol number or YYEMPTY
          yylval,       \* the semantic value yylex writes into
          yyss,         \* the stack of states
          yyvs,         \* the array of semantic values under it
          parse_tree,   \* ast::parse_tree
          yyresult      \* what yyparse returned, or "running"

vars == <<toks, yychar, yylval, yyss, yyvs, parse_tree, yyresult>>

-----------------------------------------------------------------------------
(* Trees and semantic values (ast.h).                                      *)

Null == [type |-> "nullptr"]

\* The tree an earlier call left behind.
Stale == [type |-> "stale"]

\* A type with its length (0 for the fixed ones), and the three literals.
TypeLen(kind, len) == [type |-> kind, val |-> len]
Lit(kind, v) == [type |-> kind, val |-> v]
Col(t, c) == [type |-> "Col", tab |-> t, col |-> c]

ColDef(c, tl) == [type |-> "ColDef", col_name |-> c, type_len |-> tl]
SetClause(c, v) == [type |-> "SetClause", col_name |-> c, val |-> v]
BinaryExpr(l, o, r) == [type |-> "BinaryExpr", lhs |-> l, op |-> o, rhs |-> r]

CreateTable(t, fs) == [type |-> "CreateTable", tab_name |-> t, fields |-> fs]
DropTable(t) == [type |-> "DropTable", tab_name |-> t]
DescTable(t) == [type |-> "DescTable", tab_name |-> t]
CreateIndex(t, c) == [type |-> "CreateIndex", tab_name |-> t, col_name |-> c]
DropIndex(t, c) == [type |-> "DropIndex", tab_name |-> t, col_name |-> c]

InsertStmt(t, vs) == [type |-> "InsertStmt", tab_name |-> t, vals |-> vs]
DeleteStmt(t, cs) == [type |-> "DeleteStmt", tab_name |-> t, conds |-> cs]
UpdateStmt(t, ss, cs) ==
  [type |-> "UpdateStmt", tab_name |-> t, set_clauses |-> ss, conds |-> cs]
SelectStmt(cols, ts, cs) ==
  [type |-> "SelectStmt", cols |-> cols, tabs |-> ts, conds |-> cs]

\* struct SemValue, default-constructed.
SemValue == [sv_int |-> 0, sv_float |-> 0, sv_str |-> 0, sv_strs |-> <<>>,
             sv_node |-> Null, sv_comp_op |-> "none", sv_type_len |-> Null,
             sv_field |-> Null, sv_fields |-> <<>>, sv_expr |-> Null,
             sv_val |-> Null, sv_vals |-> <<>>, sv_col |-> Null,
             sv_cols |-> <<>>, sv_set_clause |-> Null,
             sv_set_clauses |-> <<>>, sv_cond |-> Null, sv_conds |-> <<>>]

\* yylex's rules for tokens with a value: one member of *yylval is written.
TokenValue(t, v) ==
  CASE t \in {"IDENTIFIER", "VALUE_STRING"} -> [yylval EXCEPT !.sv_str = v]
    [] t = "VALUE_INT"   -> [yylval EXCEPT !.sv_int = v]
    [] t = "VALUE_FLOAT" -> [yylval EXCEPT !.sv_float = v]
    [] OTHER -> yylval

-----------------------------------------------------------------------------
(* The semantic actions.  v is the default $$, S[k] is $k.                 *)

NodeOf == [n \in 10..14 |-> <<"TxnBegin", "TxnCommit", "TxnAbort",
                              "TxnRollback", "ShowTables">>[n - 9]]

TxnStmtAction(n, v) == [v EXCEPT !.sv_node = [type |-> NodeOf[n]]]

DdlAction(n, v, S) ==
  [v EXCEPT !.sv_node =
     CASE n = 15 -> CreateTable(S[3].sv_str, S[5].sv_fields)
       [] n = 16 -> DropTable(S[3].sv_str)
       [] n = 17 -> DescTable(S[2].sv_str)
       [] n = 18 -> CreateIndex(S[3].sv_str, S[5].sv_str)
       [] n = 19 -> DropIndex(S[3].sv_str, S[5].sv_str)]

DmlAction(n, v, S) ==
  [v EXCEPT !.sv_node =
     CASE n = 20 -> InsertStmt(S[3].sv_str, S[6].sv_vals)
       [] n = 21 -> DeleteStmt(S[3].sv_str, S[4].sv_conds)
       [] n = 22 -> UpdateStmt(S[2].sv_str, S[4].sv_set_clauses, S[5].sv_conds)
       [] n = 23 -> SelectStmt(S[2].sv_cols, S[4].sv_strs, S[5].sv_conds)]

FieldAction(n, v, S) ==
  CASE n = 26 -> [v EXCEPT !.sv_field = ColDef(S[1].sv_str, S[2].sv_type_len)]
    [] n = 27 -> [v EXCEPT !.sv_type_len = TypeLen("INT", 0)]
    [] n = 28 -> [v EXCEPT !.sv_type_len = TypeLen("CHAR", S[3].sv_int)]
    [] n = 29 -> [v EXCEPT !.sv_type_len = TypeLen("FLOAT", 0)]

ValueAction(n, v, S) ==
  [v EXCEPT !.sv_val =
     CASE n = 32 -> Lit("VALUE_INT", S[1].sv_int)
       [] n = 33 -> Lit("VALUE_FLOAT", S[1].sv_float)
       [] n = 34 -> Lit("VALUE_STRING", S[1].sv_str)]

CondAction(n, v, S) ==
  CASE n = 35 -> [v EXCEPT !.sv_cond =
                   BinaryExpr(S[1].sv_col, S[2].sv_comp_op, S[3].sv_expr)]
    [] n = 36 -> v
    [] n = 37 -> [v EXCEPT !.sv_conds = S[2].sv_conds]
    [] n = 40 -> [v EXCEPT !.sv_col = Col(S[1].sv_str, S[3].sv_str)]
    [] n = 41 -> [v EXCEPT !.sv_col = Col(0, S[1].sv_str)]

OpAction(n, v) == [v EXCEPT !.sv_comp_op =
                     <<"=", "<", ">", "NEQ", "LEQ", "GEQ">>[n - 43]]

ExprAction(n, v, S) ==
  [v EXCEPT !.sv_expr = IF n = 50 THEN S[1].sv_val ELSE S[1].sv_col]

SetAction(n, v, S) ==
  CASE n = 54 -> [v EXCEPT !.sv_set_clause = SetClause(S[1].sv_str, S[3].sv_val)]
    [] n = 55 -> [v EXCEPT !.sv_cols = <<>>]

\* List rules: the first element starts the vector, the others are pushed on
\* the vector of $1, which the default $$ already holds.
FieldList == <<"sv_fields", "sv_field">>
ValueList == <<"sv_vals", "sv_val">>
WhereClause == <<"sv_conds", "sv_cond">>
ColList == <<"sv_cols", "sv_col">>
SetClauses == <<"sv_set_clauses", "sv_set_clause">>
TableList == <<"sv_strs", "sv_str">>

ListMembers(n) ==
  CASE n \in {24, 25} -> FieldList
    [] n \in {30, 31} -> ValueList
    [] n \in {38, 39} -> WhereClause
    [] n \in {42, 43} -> ColList
    [] n \in {52, 53} -> SetClauses
    [] n \in {57, 58, 59} -> TableList

\* Mutant: the new element goes to the front of the vector.
PushFrontAction(n, v, S) ==
  LET m == ListMembers(n) IN
  IF yyr2[n] = 1 THEN [v EXCEPT ![m[1]] = <<S[1][m[2]]>>]
                 ELSE [v EXCEPT ![m[1]] = <<S[3][m[2]]>> \o v[m[1]]]

ListAction(n, v, S) ==
  LET m == ListMembers(n) IN
  IF yyr2[n] = 1 THEN [v EXCEPT ![m[1]] = <<S[1][m[2]]>>]
                 ELSE [v EXCEPT ![m[1]] = Append(@, S[3][m[2]])]

SemanticAction(n, v, S) ==
  CASE n \in 10..14 -> TxnStmtAction(n, v)
    [] n \in 15..19 -> DdlAction(n, v, S)
    [] n \in 20..23 -> DmlAction(n, v, S)
    [] n \in 26..29 -> FieldAction(n, v, S)
    [] n \in 32..34 -> ValueAction(n, v, S)
    [] n \in {35, 36, 37, 40, 41} -> CondAction(n, v, S)
    [] n \in 44..49 -> OpAction(n, v)
    [] n \in {50, 51} -> ExprAction(n, v, S)
    [] n \in {54, 55} -> SetAction(n, v, S)
    [] n \in {24, 25, 30, 31, 38, 39, 42, 43, 52, 53} \cup 57..59
         -> ListAction(n, v, S)
    [] OTHER -> v

-----------------------------------------------------------------------------
(* The driver.                                                             *)

YYEMPTY == -2
Running == yyresult = "running"

\* What yylex can return: every token of the grammar, never 0 ($end).
Tokens == 3..YYNTOKENS - 1

\* The state on top of the stack, and the number of entries under it.
Top == yyss[Len(yyss)]
Depth == Len(yyss)

\* A state that needs no lookahead reduces by its default rule.
IsDefault(s) == yypact[s] = YYPACT_NINF

\* The entry of a state for a symbol, if the tables have one.
HasEntry(s, sym) ==
  /\ ~IsDefault(s)
  /\ yypact[s] + sym \in 0..YYLAST
  /\ yycheck[yypact[s] + sym] = sym

Entry(s, sym) == yytable[yypact[s] + sym]

\* The grammar has no production for the token error, so recovery pops the
\* whole stack and yyparse gives up at the first error.
ASSUME NoErrorProduction ==
  \A s \in DOMAIN yypact : ~(HasEntry(s, 1) /\ Entry(s, 1) > 0)

\* Where a reduction to a symbol leads from the state it uncovers.
Goto(s, sym) ==
  LET lhs == sym - YYNTOKENS
      i == yypgoto[lhs] + s
  IN IF i \in 0..YYLAST /\ yycheck[i] = s THEN yytable[i] ELSE yydefgoto[lhs]

\* yynewstate and yysetstate: the state is pushed; a full stack is fatal,
\* because stacks of C++ objects are not relocated.
Enter(ss, s) ==
  /\ yyss' = Append(ss, s)
  /\ yyresult' = IF Len(ss) + 1 >= YYINITDEPTH THEN "exhausted"
                 ELSE IF s = YYFINAL THEN "accepted" ELSE "running"

\* Slot i of the array of values.
Slot(i) == IF i <= Len(yyvs) THEN yyvs[i] ELSE SemValue
Store(i, v) == IF i <= Len(yyvs) THEN [yyvs EXCEPT ![i] = v] ELSE Append(yyvs, v)

\* yybackup, when the state needs a lookahead and there is none.
Read ==
  /\ Running
  /\ ~IsDefault(Top)
  /\ yychar = YYEMPTY
  /\ \E t \in Tokens :
       /\ Len(toks) < MaxTokens \/ yytname[t] = "T_EOF"
       /\ yychar' = t
       /\ toks' = Append(toks, yytname[t])
       /\ yylval' = TokenValue(yytname[t], Len(toks) + 1)
  /\ UNCHANGED <<yyss, yyvs, parse_tree, yyresult>>

Shift ==
  /\ Running
  /\ yychar # YYEMPTY
  /\ HasEntry(Top, yychar)
  /\ Entry(Top, yychar) > 0
  /\ Enter(yyss, Entry(Top, yychar))
  /\ yyvs' = Store(Depth + 1, yylval)
  /\ yychar' = YYEMPTY
  /\ UNCHANGED <<toks, yylval, parse_tree>>

\* Mutant: a lookahead without an entry is an error at once.
ReduceRuleNoDefault ==
  IF IsDefault(Top) THEN yydefact[Top]
  ELSE IF HasEntry(Top, yychar) THEN -Entry(Top, yychar) ELSE 0

\* The rule the current state reduces by, 0 when it is an error.
ReduceRule ==
  IF ~IsDefault(Top) /\ HasEntry(Top, yychar) THEN -Entry(Top, yychar)
                                              ELSE yydefact[Top]

\* No lookahead is needed, or the one there is is not shifted.
Decided ==
  /\ Running
  /\ IsDefault(Top) \/ yychar # YYEMPTY
  /\ ~(yychar # YYEMPTY /\ HasEntry(Top, yychar) /\ Entry(Top, yychar) > 0)

\* Mutant: the symbols of the rule stay on the stack.
ReduceWithoutPop ==
  /\ Decided
  /\ ReduceRule > 5
  /\ LET n == ReduceRule
         base == Depth - yyr2[n]
         S == [k \in 1..yyr2[n] |-> Slot(base + k)]
     IN /\ Enter(yyss, Goto(yyss[base], yyr1[n]))
        /\ yyvs' = Store(Depth + 1, SemanticAction(n, Slot(base + 1), S))
  /\ UNCHANGED <<toks, yychar, yylval, parse_tree>>

\* yyreduce and the goto after it.
Reduce ==
  /\ Decided
  /\ ReduceRule > 5
  /\ LET n == ReduceRule
         base == Depth - yyr2[n]
         S == [k \in 1..yyr2[n] |-> Slot(base + k)]
     IN /\ Enter(SubSeq(yyss, 1, base), Goto(yyss[base], yyr1[n]))
        /\ yyvs' = Store(base + 1, SemanticAction(n, Slot(base + 1), S))
  /\ UNCHANGED <<toks, yychar, yylval, parse_tree>>

\* The rules of start publish the tree and accept at once.
Accept ==
  /\ Decided
  /\ ReduceRule \in 2..5
  /\ parse_tree' = CASE ReduceRule = 2 -> Slot(Depth - 1).sv_node
                     [] ReduceRule = 3 -> [type |-> "Help"]
                     [] OTHER -> Null
  /\ yyresult' = "accepted"
  /\ UNCHANGED <<toks, yychar, yylval, yyss, yyvs>>

\* yyerrlab, yyerrlab1 and yyabortlab.
Error ==
  /\ Decided
  /\ ReduceRule = 0
  /\ yyresult' = "rejected"
  /\ UNCHANGED <<toks, yychar, yylval, yyss, yyvs, parse_tree>>

\* The call is over; the next one starts with fresh stacks.
Return ==
  /\ ~Running
  /\ toks' = <<>>
  /\ yychar' = YYEMPTY
  /\ yylval' = SemValue
  /\ yyss' = <<0>>
  /\ yyvs' = <<SemValue>>
  /\ parse_tree' = Stale
  /\ yyresult' = "running"

Init ==
  /\ toks = <<>>
  /\ yychar = YYEMPTY
  /\ yylval = SemValue
  /\ yyss = <<0>>
  /\ yyvs = <<SemValue>>
  /\ parse_tree = Stale
  /\ yyresult = "running"

Next == Read \/ Shift \/ Reduce \/ Accept \/ Error \/ Return

Spec == Init /\ [][Next]_vars

-----------------------------------------------------------------------------
(* The stack.  It is a path of the automaton from state 0, so statements   *)
(* of any length need only as many entries as the automaton has on a path. *)

States == DOMAIN yypact
Longest == 13    \* entries of the stack, in the deepest statement

\* The rules a state reduces by, on some lookahead or on any.
RulesFrom(s) ==
  {n \in {yydefact[s]} \cup {-Entry(s, c) : c \in {d \in Tokens : HasEntry(s, d)}} : n > 5}

\* Behind(E, s)[k]: the states k entries under s, if neighbours are in E.
Behind(E, s) ==
  LET b[k \in 0..Longest] ==
        IF k = 0 THEN {s}
        ELSE LET above == b[k - 1] IN {e[1] : e \in {d \in E : d[2] \in above}}
  IN b

\* The neighbours on the stack: by shifts, and by the reductions that the
\* neighbours so far allow, until there are no more.
Shifted == {<<p[1], Entry(p[1], p[2])>> : p \in
              {q \in States \X Tokens : HasEntry(q[1], q[2]) /\ Entry(q[1], q[2]) > 0}}
Reduced(E) ==
  UNION {UNION {{<<b, Goto(b, yyr1[n])>> : b \in Behind(E, s)[yyr2[n]]} :
                  n \in RulesFrom(s)} : s \in States}
Neighbours ==
  LET N[k \in 0..Longest] ==
        IF k = 0 THEN Shifted ELSE LET E == N[k - 1] IN E \cup Reduced(E)
  IN N[Longest]

\* What the tables say: the neighbours are closed under both kinds of steps, no
\* rule pops more than there is, and no path is longer.
ASSUME StackAssumption ==
  LET E == Neighbours IN
  /\ 0 \in States
  /\ E \subseteq States \X States
  /\ Shifted \cup Reduced(E) \subseteq E
  /\ \A s \in States : \A n \in RulesFrom(s) :
       yyr2[n] \in 0..Longest /\ \A k \in 0..yyr2[n] - 1 : 0 \notin Behind(E, s)[k]
  /\ \A s \in States : Behind(E, s)[Longest] = {}

ASSUME DepthAssumption == YYINITDEPTH \in Nat /\ YYINITDEPTH > Longest

-----------------------------------------------------------------------------
(* The grammar of yacc.y, as a recogniser of the tokens read so far: each  *)
(* non-terminal maps a set of positions to the positions after it.  The    *)
(* end of the tokens absorbs whatever would have to follow, so that the    *)
(* tokens are viable when they begin some statement of the grammar.        *)

One(I, names) == {IF i > Len(toks) THEN i ELSE i + 1 :
                    i \in {j \in I : j > Len(toks) \/ toks[j] \in names}}

Name(I) == One(I, {"IDENTIFIER"})

List(Item(_), seps, I) ==
  FoldSet(LAMBDA x, J : J \cup Item(One(J, seps)), Item(I), 1..MaxTokens)

type(I) ==
  LET len == One(One(One(I, {"CHAR"}), {"("}), {"VALUE_INT"})
  IN One(I, {"INT", "FLOAT"}) \cup One(len, {")"})
field(I) == type(Name(I))
value(I) == One(I, {"VALUE_INT", "VALUE_FLOAT", "VALUE_STRING"})
col(I) == Name(I) \cup Name(One(Name(I), {"."}))
op(I) == One(I, {"=", "<", ">", "NEQ", "LEQ", "GEQ"})
condition(I) == LET e == op(col(I)) IN value(e) \cup col(e)
optWhereClause(I) == I \cup List(condition, {"AND"}, One(I, {"WHERE"}))
setClause(I) == value(One(Name(I), {"="}))
selector(I) == One(I, {"*"}) \cup List(col, {","}, I)
tableList(I) == List(Name, {",", "JOIN"}, I)

ddl(I) ==
  LET create == One(I, {"CREATE"})
      drop == One(I, {"DROP"})
      onIndex == One(create \cup drop, {"INDEX"})
  IN UNION {
       One(List(field, {","}, One(Name(One(create, {"TABLE"})), {"("})), {")"}),
       Name(One(drop, {"TABLE"})),
       Name(One(I, {"DESC"})),
       One(Name(One(Name(onIndex), {"("})), {")"})}

dml(I) ==
  LET into == Name(One(One(I, {"INSERT"}), {"INTO"}))
      vals == One(One(into, {"VALUES"}), {"("})
      set  == One(Name(One(I, {"UPDATE"})), {"SET"})
      from == One(selector(One(I, {"SELECT"})), {"FROM"})
  IN UNION {
       One(List(value, {","}, vals), {")"}),
       optWhereClause(Name(One(One(I, {"DELETE"}), {"FROM"}))),
       optWhereClause(List(setClause, {","}, set)),
       optWhereClause(tableList(from))}

start ==
  LET stmt == UNION {
        One(One({1}, {"SHOW"}), {"TABLES"}), ddl({1}), dml({1}),
        One({1}, {"TXN_BEGIN", "TXN_COMMIT", "TXN_ABORT", "TXN_ROLLBACK"})}
  IN One(stmt, {";"}) \cup One({1}, {"HELP", "EXIT", "T_EOF"})

Viable == Len(toks) + 1 \in start

-----------------------------------------------------------------------------
(* A tree written out as the statement it stands for: a sequence of tokens *)
(* with the position each one had, 0 when the tree does not carry it.      *)

K(name) == <<<<name, 0>>>>
V(name, pos) == <<<<name, pos>>>>
Id(pos) == V("IDENTIFIER", pos)

Join(seq, sep, Write(_)) ==
  FoldLeft(LAMBDA acc, x : IF acc = <<>> THEN Write(x) ELSE acc \o K(sep) \o Write(x),
           <<>>, seq)

WriteCol(c) == IF c.tab = 0 THEN Id(c.col) ELSE Id(c.tab) \o K(".") \o Id(c.col)
WriteExpr(e) == IF e.type = "Col" THEN WriteCol(e) ELSE V(e.type, e.val)
WriteType(t) == IF t.type = "CHAR"
                THEN K("CHAR") \o K("(") \o V("VALUE_INT", t.val) \o K(")")
                ELSE K(t.type)
WriteCond(c) == WriteCol(c.lhs) \o K(c.op) \o WriteExpr(c.rhs)
WriteWhere(cs) == IF cs = <<>> THEN <<>> ELSE K("WHERE") \o Join(cs, "AND", WriteCond)

WriteStmt(t) ==
  CASE t.type = "ShowTables" -> K("SHOW") \o K("TABLES")
    [] t.type = "TxnBegin" -> K("TXN_BEGIN")
    [] t.type = "TxnCommit" -> K("TXN_COMMIT")
    [] t.type = "TxnAbort" -> K("TXN_ABORT")
    [] t.type = "TxnRollback" -> K("TXN_ROLLBACK")
    [] t.type = "CreateTable" ->
         K("CREATE") \o K("TABLE") \o Id(t.tab_name) \o K("(")
           \o Join(t.fields, ",", LAMBDA f : Id(f.col_name) \o WriteType(f.type_len))
           \o K(")")
    [] t.type = "DropTable" -> K("DROP") \o K("TABLE") \o Id(t.tab_name)
    [] t.type = "DescTable" -> K("DESC") \o Id(t.tab_name)
    [] t.type \in {"CreateIndex", "DropIndex"} ->
         K(IF t.type = "CreateIndex" THEN "CREATE" ELSE "DROP") \o K("INDEX")
           \o Id(t.tab_name) \o K("(") \o Id(t.col_name) \o K(")")
    [] t.type = "InsertStmt" ->
         K("INSERT") \o K("INTO") \o Id(t.tab_name) \o K("VALUES") \o K("(")
           \o Join(t.vals, ",", WriteExpr) \o K(")")
    [] t.type = "DeleteStmt" ->
         K("DELETE") \o K("FROM") \o Id(t.tab_name) \o WriteWhere(t.conds)
    [] t.type = "UpdateStmt" ->
         K("UPDATE") \o Id(t.tab_name) \o K("SET")
           \o Join(t.set_clauses, ",",
                   LAMBDA c : Id(c.col_name) \o K("=") \o WriteExpr(c.val))
           \o WriteWhere(t.conds)
    [] t.type = "SelectStmt" ->
         K("SELECT") \o (IF t.cols = <<>> THEN K("*") ELSE Join(t.cols, ",", WriteCol))
           \o K("FROM") \o Join(t.tabs, ",", Id) \o WriteWhere(t.conds)

\* The tokens read, JOIN being another spelling of the comma between tables.
Statement ==
  [i \in 1..Len(toks) |->
     << IF toks[i] = "JOIN" THEN "," ELSE toks[i],
        IF toks[i] \in {"IDENTIFIER", "VALUE_INT", "VALUE_FLOAT", "VALUE_STRING"}
        THEN i ELSE 0 >>]

-----------------------------------------------------------------------------
(* Properties.                                                             *)

TypeOK ==
  /\ Len(toks) <= MaxTokens + 1
  /\ yychar \in 3..YYNTOKENS - 1 \cup {YYEMPTY}
  /\ yyresult \in {"running", "accepted", "rejected", "exhausted"}
  /\ \A i \in DOMAIN yyss : yyss[i] \in DOMAIN yypact
  /\ Depth <= YYINITDEPTH

(***************************************************************************)
(* The tree yyparse publishes is the statement it read: written out again  *)
(* it gives the same tokens, every name and literal in its place, lists in *)
(* their order, and no condition when there is no WHERE, although the      *)
(* empty optWhereClause ("ignore", yacc.y:218) takes its value from a slot *)
(* above the stack.  HELP gives Help; EXIT and an empty statement give no  *)
(* tree.                                                                   *)
(***************************************************************************)
TreeIsStatement ==
  yyresult = "accepted" =>
    CASE parse_tree.type = "Help" -> toks = <<"HELP">>
      [] parse_tree = Null -> toks \in {<<"EXIT">>, <<"T_EOF">>}
      [] OTHER -> /\ parse_tree # Stale
                  /\ Statement = WriteStmt(parse_tree) \o K(";")

(***************************************************************************)
(* The tables reject a statement only at a token no statement of the       *)
(* grammar could have there, and shift only tokens some statement has: the *)
(* first error is where the message of yyerror says it is, and no legal    *)
(* statement is refused.                                                   *)
(***************************************************************************)
RejectsExactlyTheUngrammatical ==
  /\ yyresult = "rejected" => ~Viable
  /\ yychar = YYEMPTY => Viable

(***************************************************************************)
(* Lists are left recursive, so the stack does not grow with the statement *)
(* and the fixed stack (which cannot be relocated) is never exhausted,     *)
(* however long the statement is.                                          *)
(***************************************************************************)
StackNeverExhausted == yyresult # "exhausted"

=============================================================================

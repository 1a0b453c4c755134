---------------------------- MODULE ParserTables ----------------------------
(***************************************************************************)
(* The LALR(1) tables of the SQL grammar, as bison generated them from     *)
(* yacc.y into yacc.tab.cpp: yypact/yytable/yycheck give the action of a   *)
(* state on a token, yydefact the reduction a state falls back on, yypgoto *)
(* and yydefgoto the state entered after a reduction, yyr1 and yyr2 the    *)
(* left-hand symbol and the length of each rule.  All arrays start at 0.   *)
(***************************************************************************)
EXTENDS Integers, Sequences

LOCAL Row(s) == [i \in 0..Len(s) - 1 |-> s[i + 1]]

YYFINAL == 39
YYLAST == 100
YYNTOKENS == 47
YYPACT_NINF == -68

\* The symbols: tokens are 0..YYNTOKENS-1, the rest are non-terminals.
yytname == Row(<<
  "$end", "error", "$undefined", "SHOW", "TABLES", "CREATE", "TABLE", "DROP",
  "DESC", "INSERT", "INTO", "VALUES", "DELETE", "FROM", "WHERE", "UPDATE",
  "SET", "SELECT", "INT", "CHAR", "FLOAT", "INDEX", "AND", "JOIN", "EXIT",
  "HELP", "TXN_BEGIN", "TXN_COMMIT", "TXN_ABORT", "TXN_ROLLBACK", "LEQ",
  "NEQ", "GEQ", "T_EOF", "IDENTIFIER", "VALUE_STRING", "VALUE_INT",
  "VALUE_FLOAT", ";", "(", ")", ",", ".", "=", "<", ">", "*", "$accept",
  "start", "stmt", "txnStmt", "dbStmt", "ddl", "dml", "fieldList", "field",
  "type", "valueList", "value", "condition", "optWhereClause", "whereClause",
  "col", "colList", "op", "expr", "setClauses", "setClause", "selector",
  "tableList", "tbName", "colName">>)

yypact == Row(<<
  40, 34, 7, 10, -20, 29, 37, -20, -2, -68, -68, -68, -68, -68, -68, -68,
  42, 13, -68, -68, -68, -68, -68, -20, -20, -20, -20, -68, -68, -20, -20,
  38, 11, -68, -68, 15, 49, 21, -68, -68, -68, 41, 43, -68, 44, 68, 67, 50,
  51, -20, 50, 50, 50, 50, 47, 51, -68, -68, -4, -68, 45, -68, -11, -68,
  -68, -16, -68, -1, 53, 54, 35, -68, 65, 46, 50, -68, 35, -20, -20, -68,
  -68, 50, -68, 56, -68, -68, -68, -68, -68, -68, -68, -6, -68, 51, -68,
  -68, -68, -68, -68, -68, 24, -68, -68, -68, -68, -68, 60, -68, 35, -68,
  -68, -68, -68, 57, -68, -68>>)

yydefact == Row(<<
  0, 0, 0, 0, 0, 0, 0, 0, 0, 4, 3, 10, 11, 12, 13, 5, 0, 0, 9, 6, 7, 8, 14,
  0, 0, 0, 0, 60, 17, 0, 0, 0, 61, 55, 42, 56, 0, 0, 41, 1, 2, 0, 0, 16, 0,
  0, 36, 0, 0, 0, 0, 0, 0, 0, 0, 0, 21, 61, 36, 52, 0, 43, 36, 57, 40, 0,
  24, 0, 0, 0, 0, 38, 37, 0, 0, 22, 0, 0, 0, 23, 15, 0, 27, 0, 29, 26, 18,
  19, 34, 32, 33, 0, 30, 0, 48, 47, 49, 44, 45, 46, 0, 53, 54, 59, 58, 25,
  0, 20, 0, 39, 50, 51, 35, 0, 31, 28>>)

yypgoto == Row(<<
  -68, -68, -68, -68, -68, -68, -68, -68, 17, -68, -68, -67, 6, -47, -68,
  -8, -68, -68, -68, -68, 26, -68, -68, -3, -45>>)

yydefgoto == Row(<<
  0, 16, 17, 18, 19, 20, 21, 65, 66, 85, 91, 92, 71, 56, 72, 73, 35, 100,
  112, 58, 59, 36, 62, 37, 38>>)

yytable == Row(<<
  34, 28, 60, 55, 31, 64, 67, 68, 69, 102, 55, 75, 77, 23, 27, 79, 25, 82,
  83, 84, 41, 42, 43, 44, 80, 81, 45, 46, 24, 60, 78, 26, 32, 110, 107,
  108, 67, 74, 22, 29, 61, 114, 39, 1, 33, 2, 63, 3, 4, 5, 30, 40, 6, -60,
  47, 7, 48, 8, 32, 88, 89, 90, 49, 50, 9, 10, 11, 12, 13, 14, 88, 89, 90,
  15, 103, 104, 94, 95, 96, 54, 51, 55, 52, 53, 57, 32, 70, 93, 76, 97, 98,
  99, 111, 86, 87, 106, 113, 115, 105, 109, 101>>)

yycheck == Row(<<
  8, 4, 47, 14, 7, 50, 51, 52, 53, 76, 14, 58, 23, 6, 34, 62, 6, 18, 19,
  20, 23, 24, 25, 26, 40, 41, 29, 30, 21, 74, 41, 21, 34, 100, 40, 41, 81,
  41, 4, 10, 48, 108, 0, 3, 46, 5, 49, 7, 8, 9, 13, 38, 12, 42, 16, 15, 41,
  17, 34, 35, 36, 37, 13, 42, 24, 25, 26, 27, 28, 29, 35, 36, 37, 33, 77,
  78, 30, 31, 32, 11, 39, 14, 39, 39, 34, 34, 39, 22, 43, 43, 44, 45, 100,
  40, 40, 39, 36, 40, 81, 93, 74>>)

yyr1 == Row(<<
  0, 47, 48, 48, 48, 48, 49, 49, 49, 49, 50, 50, 50, 50, 51, 52, 52, 52,
  52, 52, 53, 53, 53, 53, 54, 54, 55, 56, 56, 56, 57, 57, 58, 58, 58, 59,
  60, 60, 61, 61, 62, 62, 63, 63, 64, 64, 64, 64, 64, 64, 65, 65, 66, 66,
  67, 68, 68, 69, 69, 69, 70, 71>>)

yyr2 == Row(<<
  0, 2, 2, 1, 1, 1, 1, 1, 1, 1, 1, 1, 1, 1, 2, 6, 3, 2, 6, 6, 7, 4, 5, 5,
  1, 3, 2, 1, 4, 1, 1, 3, 1, 1, 1, 3, 0, 2, 1, 3, 3, 1, 1, 3, 1, 1, 1, 1,
  1, 1, 1, 1, 1, 3, 3, 1, 1, 1, 3, 3, 1, 1>>)

=============================================================================

------------------------------- MODULE Scanner ------------------------------
(***************************************************************************)
(* yylex: the scanner flex generates from lex.l, as yyparse calls it on    *)
(* the buffer yy_scan_string made of one statement.                        *)
(*                                                                         *)
(* The buffer is a sequence of characters followed by two NULs; statements *)
(* come from C strings, so there is no NUL inside.  A step is one round of *)
(* the scanner's loop: the automaton runs from the start state until it    *)
(* jams, backs up to the last accepting state, and the rule found is       *)
(* executed.  The rules that return nothing stay in the loop.  The value a *)
(* token carries is in module Parser (TokenValue).                         *)
(***************************************************************************)
EXTENDS ScannerTables, FiniteSets, FiniteSetsExt, SequencesExt

CONSTANT Texts      \* the statements handed to yy_scan_string

ASSUME TextsAssumption ==
  \A t \in Texts : \A i \in DOMAIN t : t[i] \in Char \ {"NUL"}

VARIABLES text,       \* the characters of the buffer
          yy_c_buf_p, \* position of the next character
          yy_start,   \* the start state, kept from statement to statement
          matched,    \* the round before: start state, first and last position, rule
          token       \* what yylex returned, "none" while it has not

vars == <<text, yy_c_buf_p, yy_start, matched, token>>

\* The start states of the conditions, as BEGIN computes them.
INITIAL == 1
STATE_COMMENT == 3

\* The character at a position, the buffer's NULs included.
CharAt(i) == IF i <= Len(text) THEN text[i] ELSE "NUL"

-----------------------------------------------------------------------------
(* The automaton.                                                          *)

\* The transition of state s on class c, inherited from yy_def if s has none.
RECURSIVE Delta(_, _)
Delta(s, c) ==
  IF yy_chk[yy_base[s] + c] = s THEN yy_nxt[yy_base[s] + c]
  ELSE Delta(yy_def[s], IF yy_def[s] >= FirstTemplate THEN yy_meta[c] ELSE c)

\* Where a run stands: a state, a position, the last accepting state seen and
\* its position.
Start == [state |-> yy_start, cp |-> yy_c_buf_p, last |-> 0, lastcp |-> 0]

\* Mutant: the position is noted after the character is taken.
AdvanceNotesLate(r) ==
  [state |-> Delta(r.state, yy_ec[CharAt(r.cp)]), cp |-> r.cp + 1,
   last |-> IF yy_accept[r.state] # 0 THEN r.state ELSE r.last,
   lastcp |-> IF yy_accept[r.state] # 0 THEN r.cp + 1 ELSE r.lastcp]

Advance(r) ==
  [state |-> Delta(r.state, yy_ec[CharAt(r.cp)]), cp |-> r.cp + 1,
   last |-> IF yy_accept[r.state] # 0 THEN r.state ELSE r.last,
   lastcp |-> IF yy_accept[r.state] # 0 THEN r.cp ELSE r.lastcp]

\* yy_match: until the automaton jams.
RECURSIVE RunToJam(_)
RunToJam(r) ==
  LET n == Advance(r) IN IF yy_base[n.state] = JamBase THEN n ELSE RunToJam(n)

\* yy_find_action: a state without a rule backs up to the last one with one.
FindAction(r) ==
  IF yy_accept[r.state] = 0 THEN [act |-> yy_accept[r.last], cp |-> r.lastcp]
                            ELSE [act |-> yy_accept[r.state], cp |-> r.cp]

\* yy_get_previous_state: the run over the characters before the NUL.
RECURSIVE yy_get_previous_state(_)
yy_get_previous_state(r) ==
  IF r.cp > Len(text) THEN r ELSE yy_get_previous_state(Advance(r))

Found == FindAction(RunToJam(Start))

\* The buffer's end was matched and nothing before it.
AtEnd == Found.act = YY_END_OF_BUFFER /\ Found.cp - yy_c_buf_p = 1

\* EOB_ACT_LAST_MATCH: text before the end is matched again without the end.
Match ==
  IF Found.act = YY_END_OF_BUFFER THEN FindAction(yy_get_previous_state(Start))
                                  ELSE Found

-----------------------------------------------------------------------------
(* The rules.                                                              *)

Keyword == <<"SHOW", "TXN_BEGIN", "TXN_COMMIT", "TXN_ABORT", "TXN_ROLLBACK",
             "TABLES", "CREATE", "TABLE", "DROP", "DESC", "INSERT", "INTO",
             "VALUES", "DELETE", "FROM", "WHERE", "UPDATE", "SET", "SELECT",
             "INT", "CHAR", "FLOAT", "INDEX", "AND", "JOIN", "EXIT", "HELP">>

\* What the action of a rule returns; comments, white space and unexpected
\* characters return nothing.
TokenOf(act) ==
  CASE act \in 8..34  -> Keyword[act - 7]
    [] act \in 35..37 -> <<"GEQ", "LEQ", "NEQ">>[act - 34]
    [] act = 38       -> text[yy_c_buf_p]
    [] act \in 39..42 -> <<"IDENTIFIER", "VALUE_INT", "VALUE_FLOAT",
                           "VALUE_STRING">>[act - 38]
    [] OTHER -> "none"

\* BEGIN in the actions of rules 1 and 2.
StartAfter(act) == CASE act = 1 -> STATE_COMMENT
                     [] act = 2 -> INITIAL
                     [] OTHER   -> yy_start

Round ==
  /\ token # "T_EOF"
  /\ ~AtEnd
  /\ LET m == Match
     IN /\ matched' = [sc |-> yy_start, from |-> yy_c_buf_p, to |-> m.cp - 1,
                       rule |-> m.act]
        /\ token' = TokenOf(m.act)
        /\ yy_start' = StartAfter(m.act)
        /\ yy_c_buf_p' = m.cp
  /\ UNCHANGED text

\* EOB_ACT_END_OF_FILE: the EOF rule of either condition.
EndOfFile ==
  /\ token # "T_EOF"
  /\ AtEnd
  /\ token' = "T_EOF"
  /\ UNCHANGED <<text, yy_c_buf_p, yy_start, matched>>

\* yy_scan_string made the buffer; the start state is what the statement
\* before left.
Init ==
  /\ text \in Texts
  /\ yy_c_buf_p = 1
  /\ yy_start \in {INITIAL, STATE_COMMENT}
  /\ matched = [sc |-> yy_start, from |-> 0, to |-> 0, rule |-> 0]
  /\ token = "none"

Next == Round \/ EndOfFile

Spec == Init /\ [][Next]_vars

-----------------------------------------------------------------------------
(* The rules of lex.l, as the language of each one.                        *)

digit == {"0", "1", "2", "3", "4", "5", "6", "7", "8", "9"}
single_op == {";", "(", ")", ",", "*", "=", ">", "<", "."}

Lowers == <<"a", "b", "c", "d", "e", "f", "g", "h", "i", "j", "k", "l", "m", "n",
            "o", "p", "q", "r", "s", "t", "u", "v", "w", "x", "y", "z">>
Uppers == <<"A", "B", "C", "D", "E", "F", "G", "H", "I", "J", "K", "L", "M", "N",
            "O", "P", "Q", "R", "S", "T", "U", "V", "W", "X", "Y", "Z">>
alpha == ToSet(Lowers) \cup ToSet(Uppers)

\* %option caseless
Upper(c) == IF c \in ToSet(Lowers) THEN Uppers[CHOOSE i \in 1..26 : Lowers[i] = c] ELSE c

\* The words of rules 8 to 34.
Words == <<
  <<"S","H","O","W">>, <<"B","E","G","I","N">>, <<"C","O","M","M","I","T">>,
  <<"A","B","O","R","T">>, <<"R","O","L","L","B","A","C","K">>,
  <<"T","A","B","L","E","S">>, <<"C","R","E","A","T","E">>,
  <<"T","A","B","L","E">>, <<"D","R","O","P">>, <<"D","E","S","C">>,
  <<"I","N","S","E","R","T">>, <<"I","N","T","O">>,
  <<"V","A","L","U","E","S">>, <<"D","E","L","E","T","E">>,
  <<"F","R","O","M">>, <<"W","H","E","R","E">>, <<"U","P","D","A","T","E">>,
  <<"S","E","T">>, <<"S","E","L","E","C","T">>, <<"I","N","T">>,
  <<"C","H","A","R">>, <<"F","L","O","A","T">>, <<"I","N","D","E","X">>,
  <<"A","N","D">>, <<"J","O","I","N">>, <<"E","X","I","T">>,
  <<"H","E","L","P">> >>

All(s, set) == \A i \in DOMAIN s : s[i] \in set
Digits(s) == s # <<>> /\ All(s, digit)
Unsigned(s) == IF s[1] \in {"+", "-"} THEN Tail(s) ELSE s

\* Whether a non-empty text is in the language of a rule of INITIAL.
InitialRule(r, s) ==
  CASE r = 1  -> s = <<"/", "*">>
    [] r = 5  -> Len(s) >= 2 /\ s[1] = "-" /\ s[2] = "-" /\ ~Contains(s, "\n")
    [] r = 6  -> All(s, {" ", "\t"})
    [] r = 7  -> s \in {<<"\r">>, <<"\n">>, <<"\r", "\n">>}
    [] r \in 8..34  -> [i \in DOMAIN s |-> Upper(s[i])] = Words[r - 7]
    [] r \in 35..37 -> s = << <<">", "=">>, <<"<", "=">>, <<"<", ">">> >>[r - 34]
    [] r = 38 -> Len(s) = 1 /\ s[1] \in single_op
    [] r = 39 -> s[1] \in alpha /\ All(s, alpha \cup digit \cup {"_"})
    [] r = 40 -> Digits(Unsigned(s))
    [] r = 41 -> LET u == Unsigned(s)
                 IN \E k \in DOMAIN u : /\ u[k] = "."
                                        /\ Digits(SubSeq(u, 1, k - 1))
                                        /\ All(SubSeq(u, k + 1, Len(u)), digit)
    [] r = 42 -> /\ Len(s) >= 2 /\ s[1] = "'" /\ s[Len(s)] = "'"
                 /\ ~Contains(SubSeq(s, 2, Len(s) - 1), "'")
    [] r = 43 -> Len(s) = 1 /\ s[1] # "\n"
    [] OTHER -> FALSE

\* The rules of the exclusive condition STATE_COMMENT.
CommentRule(r, s) ==
  CASE r = 2 -> s = <<"*", "/">>
    [] r = 3 -> Len(s) = 1 /\ s[1] # "*"
    [] r = 4 -> s = <<"*">>
    [] OTHER -> FALSE

\* The lengths the rules match at a position, and the first rule of a length.
RuleMatches(sc, r, s) ==
  IF sc = STATE_COMMENT THEN CommentRule(r, s) ELSE InitialRule(r, s)

RulesOf(sc, from, to) ==
  {r \in 1..43 : RuleMatches(sc, r, SubSeq(text, from, to))}

-----------------------------------------------------------------------------
(* Properties.                                                             *)

TypeOK ==
  /\ yy_c_buf_p \in 1..Len(text) + 1
  /\ yy_start \in {INITIAL, STATE_COMMENT}
  /\ matched.rule \in 0..43

(***************************************************************************)
(* What a round takes is the longest text some rule of lex.l matches there *)
(* and, of the rules that match it, the first: keywords in any case before *)
(* identifiers, but identifiers that only begin with one; a number keeps   *)
(* its sign and its fraction; a quote that is never closed is one          *)
(* unexpected character and not a string up to the end of the buffer.      *)
(***************************************************************************)
LongestMatchFirstRule ==
  matched.rule # 0 =>
    /\ matched.rule = Min(RulesOf(matched.sc, matched.from, matched.to) \cup {44})
    /\ \A to \in matched.to + 1..Len(text) :
         RulesOf(matched.sc, matched.from, to) = {}

=============================================================================

---------------------------- MODULE ParserProofs ----------------------------
(***************************************************************************)
(* Proof that the parser's fixed stack is enough for statements of every   *)
(* length.  The stack is a path of the automaton: neighbours on it are in  *)
(* Neighbours, a finite relation computed from the generated tables whose  *)
(* closure TLC evaluates (StackAssumption); everything that depends on the *)
(* statement, the tokens and the contents of the stack is proved here.     *)
(***************************************************************************)
EXTENDS Parser, SequenceTheorems, WellFoundedInduction, TLAPS

LEMMA LeastNumber ==
    ASSUME NEW S, S \subseteq Nat, S # {}
    PROVE  \E x \in S : \A y \in S : x <= y
<1> DEFINE R == {p \in Nat \X Nat : p[1] < p[2]}
<1>1. IsWellFoundedOn(R, Nat)
  BY NatLessThanWellFounded, Zenon DEF OpToRel
<1> HIDE DEF R
<1>2. PICK x \in S : \A y \in S : <<y, x>> \notin R
  BY <1>1, WFMin
<1>3. ASSUME NEW y \in S PROVE x <= y
  <2>1. y < x => <<y, x>> \in R
    BY DEF R
  <2> QED BY <1>2, <2>1
<1> QED BY <1>3

-----------------------------------------------------------------------------
(* What lies under a state                                                 *)

Under(E, x) == {e[1] : e \in {d \in E : d[2] \in x}}

IsBehind(f, E, s, n) == f = [k \in 0 .. n |-> IF k = 0 THEN {s} ELSE Under(E, f[k - 1])]

\* The recursive definition of Behind has a solution.
LEMMA BehindExists ==
    ASSUME NEW E, NEW s, NEW N \in Nat
    PROVE  \E f : IsBehind(f, E, s, N)
<1> DEFINE S == {n \in 0 .. N : ~\E f : IsBehind(f, E, s, n)}
<1> SUFFICES ASSUME S # {} PROVE FALSE
  <2>1. N \in 0 .. N
    OBVIOUS
  <2> QED BY <2>1
<1>1. PICK n \in S : \A m \in S : n <= m
  <2>1. S \subseteq Nat
    OBVIOUS
  <2> HIDE DEF S
  <2> QED BY <2>1, LeastNumber
<1>2. n # 0
  <2> DEFINE f == [k \in 0 .. 0 |-> {s}]
  <2>1. f = [k \in 0 .. 0 |-> IF k = 0 THEN {s} ELSE Under(E, f[k - 1])]
    OBVIOUS
  <2>2. IsBehind(f, E, s, 0)
    BY <2>1 DEF IsBehind
  <2> QED BY <2>2
<1>3. n \in 1 .. N /\ n - 1 \in 0 .. N /\ n - 1 \notin S
  BY <1>1, <1>2
<1>4. PICK f : IsBehind(f, E, s, n - 1)
  BY <1>3
<1> DEFINE g == [k \in 0 .. n |-> IF k = n THEN Under(E, f[n - 1]) ELSE f[k]]
<1>5. \A k \in 0 .. n - 1 : g[k] = f[k] /\ f[k] = IF k = 0 THEN {s} ELSE Under(E, f[k - 1])
  <2>1. f = [k \in 0 .. n - 1 |-> IF k = 0 THEN {s} ELSE Under(E, f[k - 1])]
    BY <1>4 DEF IsBehind
  <2>2. ASSUME NEW k \in 0 .. n - 1 PROVE f[k] = IF k = 0 THEN {s} ELSE Under(E, f[k - 1])
    BY <2>1
  <2>3. \A k \in 0 .. n - 1 : g[k] = f[k]
    BY <1>3
  <2> HIDE DEF g
  <2> QED BY <2>2, <2>3
<1>6. g[n] = Under(E, f[n - 1]) /\ g = [k \in 0 .. n |-> g[k]]
  BY <1>3
<1> HIDE DEF g
<1>7. ASSUME NEW k \in 0 .. n PROVE g[k] = IF k = 0 THEN {s} ELSE Under(E, g[k - 1])
  <2>1. CASE k = n
    <3>1. n - 1 \in 0 .. n - 1 /\ n # 0
      BY <1>3
    <3> QED BY <1>5, <1>6, <2>1, <3>1
  <2>2. CASE k # n
    <3>1. k \in 0 .. n - 1 /\ (k # 0 => k - 1 \in 0 .. n - 1)
      BY <1>3, <2>2
    <3> QED BY <1>5, <3>1
  <2> QED BY <2>1, <2>2
<1>8. IsBehind(g, E, s, n)
  BY <1>6, <1>7 DEF IsBehind
<1> QED BY <1>8

LEMMA BehindFacts ==
    ASSUME NEW E, NEW s
    PROVE  /\ Behind(E, s)[0] = {s}
           /\ \A k \in 1 .. Longest : Behind(E, s)[k] = Under(E, Behind(E, s)[k - 1])
<1> DEFINE N == Longest
           b == CHOOSE f : f = [k \in 0 .. N |-> IF k = 0 THEN {s} ELSE Under(E, f[k - 1])]
<1>1. N \in Nat
  BY DEF Longest
<1>2. Behind(E, s) = b
  BY DEF Behind, Under
<1> HIDE DEF N
<1>3. b = [k \in 0 .. N |-> IF k = 0 THEN {s} ELSE Under(E, b[k - 1])]
  <2>1. \E f : IsBehind(f, E, s, N)
    BY <1>1, BehindExists
  <2>2. \E f : f = [k \in 0 .. N |-> IF k = 0 THEN {s} ELSE Under(E, f[k - 1])]
    BY <2>1 DEF IsBehind
  <2> QED BY <2>2
<1> HIDE DEF b
<1>4. b[0] = {s} /\ \A k \in 1 .. N : b[k] = Under(E, b[k - 1])
  <2>1. ASSUME NEW k \in 0 .. N PROVE b[k] = IF k = 0 THEN {s} ELSE Under(E, b[k - 1])
    BY <1>3
  <2>2. 0 \in 0 .. N /\ \A k \in 1 .. N : k \in 0 .. N /\ k # 0
    BY <1>1
  <2> QED BY <2>1, <2>2
<1> QED BY <1>2, <1>4 DEF N

-----------------------------------------------------------------------------
(* The stack is a path                                                     *)

IsPath(ss) ==
    /\ ss \in Seq(States) /\ Len(ss) > 0 /\ ss[1] = 0
    /\ \A i \in 1 .. Len(ss) - 1 : <<ss[i], ss[i + 1]>> \in Neighbours

\* The entries under the top are among the states that can lie there.
LEMMA PathFacts ==
    ASSUME NEW ss, IsPath(ss), NEW k \in 0 .. Longest, k < Len(ss)
    PROVE  ss[Len(ss) - k] \in Behind(Neighbours, ss[Len(ss)])[k]
<1> DEFINE L == Len(ss)
           B == Behind(Neighbours, ss[L])
           S == {j \in 0 .. Longest : j < L /\ ss[L - j] \notin B[j]}
<1>1. L \in Nat /\ Longest \in Nat
  BY LenProperties DEF IsPath, Longest
<1> SUFFICES ASSUME S # {} PROVE FALSE
  OBVIOUS
<1>2. B[0] = {ss[L]} /\ \A j \in 1 .. Longest : B[j] = Under(Neighbours, B[j - 1])
  BY BehindFacts
<1> HIDE DEF B, L
<1>3. PICK j \in S : \A m \in S : j <= m
  <2>1. S \subseteq Nat
    OBVIOUS
  <2> HIDE DEF S
  <2> QED BY <2>1, LeastNumber
<1>4. j # 0
  BY <1>1, <1>2
<1>5. j \in 1 .. Longest /\ j - 1 \in 0 .. Longest /\ j < L /\ j - 1 < L /\ j - 1 \notin S
  BY <1>1, <1>3, <1>4
<1>6. ss[L - (j - 1)] \in B[j - 1]
  BY <1>5
<1> DEFINE i == L - j
<1>7. i \in 1 .. L - 1 /\ i + 1 = L - (j - 1)
  BY <1>1, <1>5
<1>8. <<ss[i], ss[i + 1]>> \in Neighbours
  BY <1>7 DEF IsPath, L
<1>9. ss[i] \in Under(Neighbours, B[j - 1])
  <2> DEFINE e == <<ss[i], ss[i + 1]>>
  <2>1. e[1] = ss[i] /\ e[2] \in B[j - 1] /\ e \in Neighbours
    BY <1>6, <1>7, <1>8
  <2> HIDE DEF e
  <2> QED BY <2>1 DEF Under
<1> QED BY <1>2, <1>5, <1>9

LEMMA TableFacts ==
    /\ 0 \in States /\ Longest \in Nat
    /\ \A e \in Neighbours : e[1] \in States /\ e[2] \in States
    /\ \A e \in Shifted : e \in Neighbours
    /\ \A e \in Reduced(Neighbours) : e \in Neighbours
    /\ \A s \in States : Behind(Neighbours, s)[Longest] = {}
    /\ \A s \in States : \A n \in RulesFrom(s) :
         yyr2[n] \in 0 .. Longest /\ \A k \in 0 .. yyr2[n] - 1 : 0 \notin Behind(Neighbours, s)[k]
BY StackAssumption DEF Longest

LEMMA PathBound ==
    ASSUME NEW ss, IsPath(ss)
    PROVE  Len(ss) \in Nat /\ Len(ss) <= Longest /\ ss[Len(ss)] \in States
<1>1. Len(ss) \in Nat /\ Longest \in Nat /\ ss[Len(ss)] \in States
  BY LenProperties, ElementOfSeq DEF IsPath, Longest
<1>2. Len(ss) <= Longest
  <2> SUFFICES ASSUME Longest < Len(ss) PROVE FALSE
    BY <1>1
  <2>1. ss[Len(ss) - Longest] \in Behind(Neighbours, ss[Len(ss)])[Longest]
    BY <1>1, PathFacts
  <2> QED BY <1>1, <2>1, TableFacts
<1> QED BY <1>1, <1>2

LEMMA PathAppend ==
    ASSUME NEW ss, IsPath(ss), NEW s, <<ss[Len(ss)], s>> \in Neighbours
    PROVE  IsPath(Append(ss, s))
<1> DEFINE e == <<ss[Len(ss)], s>>
           q == Append(ss, s)
<1>1. s \in States
  <2>1. e[2] = s /\ e \in Neighbours
    OBVIOUS
  <2> QED BY <2>1, TableFacts
<1>2. ss \in Seq(States) /\ Len(ss) \in Nat /\ Len(ss) > 0 /\ ss[1] = 0
  BY LenProperties DEF IsPath
<1>3. /\ q \in Seq(States) /\ Len(q) = Len(ss) + 1
      /\ \A i \in 1 .. Len(ss) : q[i] = ss[i]
      /\ q[Len(ss) + 1] = s
  BY <1>1, <1>2, AppendProperties
<1> HIDE DEF q
<1>4. ASSUME NEW i \in 1 .. Len(q) - 1 PROVE <<q[i], q[i + 1]>> \in Neighbours
  <2>1. CASE i = Len(ss)
    <3>1. q[i] = ss[Len(ss)] /\ q[i + 1] = s
      BY <1>2, <1>3, <2>1
    <3> QED BY <3>1
  <2>2. CASE i # Len(ss)
    <3>1. i \in 1 .. Len(ss) - 1 /\ i \in 1 .. Len(ss) /\ i + 1 \in 1 .. Len(ss)
      BY <1>2, <1>3, <2>2
    <3>2. q[i] = ss[i] /\ q[i + 1] = ss[i + 1]
      BY <1>3, <3>1
    <3> QED BY <3>1, <3>2 DEF IsPath
  <2> QED BY <2>1, <2>2
<1>5. q[1] = 0 /\ Len(q) > 0
  BY <1>2, <1>3
<1>6. IsPath(q)
  BY <1>3, <1>4, <1>5 DEF IsPath
<1> QED BY <1>6 DEF q

LEMMA PathPrefix ==
    ASSUME NEW ss, IsPath(ss), NEW n \in 1 .. Len(ss)
    PROVE  IsPath(SubSeq(ss, 1, n)) /\ Len(SubSeq(ss, 1, n)) = n /\ SubSeq(ss, 1, n)[n] = ss[n]
<1> DEFINE q == SubSeq(ss, 1, n)
<1>1. ss \in Seq(States) /\ Len(ss) \in Nat /\ ss[1] = 0
  BY LenProperties DEF IsPath
<1>2. q \in Seq(States) /\ Len(q) = n /\ \A i \in 1 .. n : q[i] = ss[i]
  BY <1>1, SubSeqProperties
<1> HIDE DEF q
<1>3. \A i \in 1 .. n - 1 : <<q[i], q[i + 1]>> \in Neighbours
  BY <1>1, <1>2 DEF IsPath
<1>4. IsPath(q)
  BY <1>1, <1>2, <1>3 DEF IsPath
<1> QED BY <1>2, <1>4 DEF q

-----------------------------------------------------------------------------
(* The parser                                                              *)

\* A path, and its next state fits in: what Enter does with them.
LEMMA EnterFacts ==
    ASSUME NEW ss, IsPath(ss), NEW s, <<ss[Len(ss)], s>> \in Neighbours, Enter(ss, s)
    PROVE  IsPath(yyss') /\ yyresult' # "exhausted"
<1>1. IsPath(Append(ss, s))
  BY PathAppend
<1>2. ss \in Seq(States) /\ s \in States
  <2>1. <<ss[Len(ss)], s>>[2] = s
    OBVIOUS
  <2> QED BY <2>1, TableFacts DEF IsPath
<1>3. Len(Append(ss, s)) = Len(ss) + 1
  BY <1>2, AppendProperties
<1>4. Len(ss) + 1 \in Nat /\ Len(ss) + 1 <= Longest
  BY <1>1, <1>3, PathBound
<1>5. ~(Len(ss) + 1 >= YYINITDEPTH)
  BY <1>4, DepthAssumption, TableFacts
<1> QED BY <1>1, <1>5 DEF Enter

StackInv == IsPath(yyss) /\ yychar \in Tokens \cup {YYEMPTY} /\ StackNeverExhausted

\* The stack is a path of the automaton from state 0 and a reduction pops only
\* what was pushed (yyparse in yacc.tab.cpp), for statements of any length.
THEOREM StackCorrect == Spec => []StackInv
<1>1. IsPath(<<0>>)
  <2>1. <<0>> \in Seq(States) /\ Len(<<0>>) = 1 /\ <<0>>[1] = 0
    BY TableFacts
  <2> QED BY <2>1 DEF IsPath
<1>2. Init => StackInv
  BY <1>1 DEF Init, StackInv, StackNeverExhausted
<1>3. StackInv /\ [Next]_vars => StackInv'
  <2> SUFFICES ASSUME StackInv, [Next]_vars PROVE StackInv'
    OBVIOUS
  <2>0. IsPath(yyss) /\ yychar \in Tokens \cup {YYEMPTY} /\ Top \in States /\ Depth \in Nat /\ Depth > 0
    BY PathBound DEF StackInv, Top, Depth, IsPath
  <2>1. CASE Read
    BY <2>1 DEF Read, StackInv, StackNeverExhausted
  <2>2. CASE Shift
    <3> DEFINE s == Entry(Top, yychar)
    <3>1. yychar \in Tokens /\ HasEntry(Top, yychar) /\ s > 0 /\ Enter(yyss, s) /\ yychar' = YYEMPTY
      BY <2>0, <2>2 DEF Shift
    <3>2. <<Top, s>> \in Shifted
      <4> DEFINE q == <<Top, yychar>>
      <4>1. q \in States \X Tokens /\ q[1] = Top /\ q[2] = yychar
        BY <2>0, <3>1
      <4> HIDE DEF q
      <4> QED BY <3>1, <4>1 DEF Shifted
    <3>3. <<Top, s>> \in Neighbours
      BY <3>2, TableFacts
    <3> HIDE DEF s
    <3>4. IsPath(yyss') /\ yyresult' # "exhausted"
      BY <2>0, <3>1, <3>3, EnterFacts DEF Top
    <3> QED BY <3>1, <3>4 DEF StackInv, StackNeverExhausted
  <2>3. CASE Reduce
    <3> DEFINE n == ReduceRule
               base == Depth - yyr2[n]
               b == yyss[base]
               s == Goto(b, yyr1[n])
    <3>1. Enter(SubSeq(yyss, 1, base), s) /\ yychar' = yychar /\ n > 5 /\ Decided
      BY <2>3 DEF Reduce
    <3>2. n \in RulesFrom(Top)
      <4>1. CASE ~IsDefault(Top) /\ HasEntry(Top, yychar)
        <5>1. yychar \in Tokens /\ n = -Entry(Top, yychar)
          BY <2>0, <3>1, <4>1 DEF Decided, ReduceRule
        <5> QED BY <3>1, <4>1, <5>1 DEF RulesFrom
      <4>2. CASE ~(~IsDefault(Top) /\ HasEntry(Top, yychar))
        <5>1. n = yydefact[Top]
          BY <4>2 DEF ReduceRule
        <5> QED BY <3>1, <5>1 DEF RulesFrom
      <4> QED BY <4>1, <4>2
    <3> HIDE DEF n
    <3>3. yyr2[n] \in 0 .. Longest /\ \A k \in 0 .. yyr2[n] - 1 : 0 \notin Behind(Neighbours, Top)[k]
      BY <2>0, <3>2, TableFacts
    <3>4. yyr2[n] < Depth
      <4> SUFFICES ASSUME ~(yyr2[n] < Depth) PROVE FALSE
        OBVIOUS
      <4> DEFINE k == Depth - 1
      <4>1. k \in 0 .. yyr2[n] - 1 /\ k \in 0 .. Longest /\ k < Depth /\ Depth - k = 1
        BY <2>0, <3>3, TableFacts
      <4> HIDE DEF k
      <4>2. yyss[Depth - k] \in Behind(Neighbours, Top)[k]
        BY <2>0, <4>1, PathFacts DEF Top, Depth
      <4>3. yyss[1] = 0
        BY <2>0 DEF IsPath
      <4> QED BY <3>3, <4>1, <4>2, <4>3
    <3>5. base \in 1 .. Len(yyss) /\ b \in Behind(Neighbours, Top)[yyr2[n]]
      <4>1. base \in 1 .. Len(yyss)
        BY <2>0, <3>3, <3>4, TableFacts DEF Depth
      <4>2. b \in Behind(Neighbours, Top)[yyr2[n]]
        BY <2>0, <3>3, <3>4, PathFacts DEF Top, Depth
      <4> QED BY <4>1, <4>2
    <3>6. <<b, s>> \in Neighbours
      <4> HIDE DEF b
      <4>1. <<b, s>> \in Reduced(Neighbours)
        BY <2>0, <3>2, <3>5 DEF Reduced
      <4> QED BY <4>1, TableFacts
    <3> HIDE DEF s
    <3> DEFINE q == SubSeq(yyss, 1, base)
    <3>7. IsPath(q) /\ Len(q) = base /\ q[base] = b
      BY <2>0, <3>5, PathPrefix
    <3> HIDE DEF q, base, b
    <3>8. <<q[Len(q)], s>> \in Neighbours
      BY <3>6, <3>7
    <3>9. Enter(q, s)
      BY <3>1 DEF q
    <3>10. IsPath(yyss') /\ yyresult' # "exhausted"
      BY <3>7, <3>8, <3>9, EnterFacts
    <3> QED BY <2>0, <3>1, <3>10 DEF StackInv, StackNeverExhausted
  <2>4. CASE Accept
    BY <2>4 DEF Accept, StackInv, StackNeverExhausted
  <2>5. CASE Error
    BY <2>5 DEF Error, StackInv, StackNeverExhausted
  <2>6. CASE Return
    BY <1>1, <2>6 DEF Return, StackInv, StackNeverExhausted
  <2>7. CASE UNCHANGED vars
    BY <2>7 DEF vars, StackInv, StackNeverExhausted
  <2> QED BY <2>1, <2>2, <2>3, <2>4, <2>5, <2>6, <2>7 DEF Next
<1> QED BY <1>2, <1>3, PTL DEF Spec

\* The stacks of yyparse are never exhausted, however long the statement is, as
\* long as they have one entry more than the longest path (the code has 200).
THEOREM StackSuffices == Spec => []StackNeverExhausted
BY StackCorrect, PTL DEF StackInv

=============================================================================

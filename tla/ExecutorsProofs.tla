-------------------------- MODULE ExecutorsProofs --------------------------
(***************************************************************************)
(* Proofs about the statements that write, for tables with any columns and *)
(* any number of records, any indexes, and WHERE clauses of any length:    *)
(* unless an index on the table was created while it was empty, entries    *)
(* lead to the record with their key, and an index that is alive and       *)
(* refused nothing has an entry for every record.                          *)
(*                                                                         *)
(* The loops of the executors are recursive functions on the number of     *)
(* turns; LoopExists and LoopInvariant are what the proofs know of them.   *)
(***************************************************************************)
EXTENDS Executors, FiniteSetTheorems, SequenceTheorems, WellFoundedInduction, TLAPS

-----------------------------------------------------------------------------
(* Loops                                                                   *)

LEMMA LeastNatural ==
    ASSUME NEW S, S \subseteq Nat, S # {}
    PROVE  \E x \in S : \A y \in S : x <= y
<1> DEFINE R == {ss \in Nat \X Nat : ss[1] < ss[2]}
<1>1. IsWellFoundedOn(R, Nat)
  BY NatLessThanWellFounded, Zenon DEF OpToRel
<1> HIDE DEF R
<1>2. PICK x \in S : \A y \in S : <<y, x>> \notin R
  BY <1>1, WFMin
<1>3. ASSUME NEW y \in S PROVE x <= y
  <2>1. x \in Nat /\ y \in Nat
    OBVIOUS
  <2>2. y < x => <<y, x>> \in R
    BY <2>1 DEF R
  <2> QED BY <1>2, <2>1, <2>2
<1> QED BY <1>3

\* What holds before the first turn and is kept by every turn holds after all:
\* W[n] are the values that are possible after n turns.
LEMMA LoopInvariant ==
    ASSUME NEW N \in Nat, NEW W, NEW f, f[0] \in W[0],
           \A n \in 1 .. N : f[n - 1] \in W[n - 1] => f[n] \in W[n]
    PROVE  \A n \in 0 .. N : f[n] \in W[n]
<1> SUFFICES ASSUME ~\A n \in 0 .. N : f[n] \in W[n] PROVE FALSE
  OBVIOUS
<1> DEFINE S == {n \in 0 .. N : f[n] \notin W[n]}
<1>1. S \subseteq Nat /\ S # {}
  OBVIOUS
<1>2. PICK n \in S : \A m \in S : n <= m
  BY <1>1, LeastNatural
<1>3. n \in 1 .. N /\ f[n] \notin W[n]
  OBVIOUS
<1>4. n - 1 \in 0 .. N /\ n - 1 \notin S
  BY <1>2, <1>3
<1>5. f[n - 1] \in W[n - 1]
  BY <1>4
<1> QED BY <1>3, <1>5

\* f has the values of a loop of N turns: G[n] is turn n.
IsLoop(f, N, base, G) == f = [n \in 0 .. N |-> IF n = 0 THEN base ELSE G[n][f[n - 1]]]

\* The recursive definition of a loop that starts in a state of W[0] and whose
\* turns lead from W[n - 1] to W[n] has a solution.
LEMMA LoopExists ==
    ASSUME NEW N \in Nat, NEW W, NEW G, NEW base \in W[0],
           \A n \in 1 .. N : \A w \in W[n - 1] : G[n][w] \in W[n]
    PROVE  \E f : IsLoop(f, N, base, G) /\ \A n \in 0 .. N : f[n] \in W[n]
<1> DEFINE Solves(f, m) == f = [n \in 0 .. m |-> IF n = 0 THEN base ELSE G[n][f[n - 1]]]
           S == {m \in 0 .. N : ~\E f : Solves(f, m)}
<1>1. S = {}
  <2> SUFFICES ASSUME S # {} PROVE FALSE
    OBVIOUS
  <2>1. S \subseteq Nat
    OBVIOUS
  <2>2. PICK m \in S : \A k \in S : m <= k
    BY <2>1, LeastNatural
  <2>3. m # 0
    <3> DEFINE g == [n \in 0 .. 0 |-> base]
    <3>1. g = [n \in 0 .. 0 |-> IF n = 0 THEN base ELSE G[n][g[n - 1]]]
      OBVIOUS
    <3> QED BY <3>1
  <2>4. m \in 1 .. N /\ m - 1 \in 0 .. N /\ m - 1 \notin S
    BY <2>2, <2>3
  <2>5. PICK f : f = [n \in 0 .. m - 1 |-> IF n = 0 THEN base ELSE G[n][f[n - 1]]]
    BY <2>4
  <2> DEFINE g == [n \in 0 .. m |-> IF n = m THEN G[m][f[m - 1]] ELSE f[n]]
  <2>6. \A n \in 0 .. m - 1 : f[n] = IF n = 0 THEN base ELSE G[n][f[n - 1]]
    BY <2>5
  <2>7. \A n \in 0 .. m - 1 : g[n] = f[n]
    BY <2>4
  <2>8. g[m] = G[m][f[m - 1]]
    BY <2>4
  <2>9. ASSUME NEW n \in 0 .. m PROVE g[n] = IF n = 0 THEN base ELSE G[n][g[n - 1]]
    <3>1. CASE n = m
      <4>1. g[m - 1] = f[m - 1] /\ m # 0
        BY <2>4, <2>7
      <4> HIDE DEF g
      <4> QED BY <2>8, <3>1, <4>1
    <3>2. CASE n # m
      <4>1. n \in 0 .. m - 1 /\ (n # 0 => n - 1 \in 0 .. m - 1)
        BY <2>4, <3>2
      <4> HIDE DEF g
      <4> QED BY <2>6, <2>7, <4>1
    <3> QED BY <3>1, <3>2
  <2>10. g = [n \in 0 .. m |-> IF n = 0 THEN base ELSE G[n][g[n - 1]]]
    <3>1. g = [n \in 0 .. m |-> g[n]]
      OBVIOUS
    <3> HIDE DEF g
    <3> QED BY <2>9, <3>1
  <2> QED BY <2>10
<1>2. PICK f : f = [n \in 0 .. N |-> IF n = 0 THEN base ELSE G[n][f[n - 1]]]
  <2>1. N \in 0 .. N /\ N \notin S
    BY <1>1
  <2> QED BY <2>1
<1>3. f[0] = base /\ \A n \in 1 .. N : f[n] = G[n][f[n - 1]]
  BY <1>2
<1>4. \A n \in 0 .. N : f[n] \in W[n]
  BY <1>3, LoopInvariant
<1> QED BY <1>2, <1>4 DEF IsLoop

-----------------------------------------------------------------------------
(* Sorted                                                                  *)

Ascends(q, n) == \A i, j \in 1 .. n : i < j => q[i] < q[j]

\* One more element fits somewhere into an ascending sequence.
LEMMA Placed ==
    ASSUME NEW n \in Nat, NEW T \in SUBSET Int, NEW q \in [1 .. n -> T], Ascends(q, n),
           NEW x \in Int, x \notin T
    PROVE  \E e \in [1 .. n + 1 -> T \cup {x}] : Ascends(e, n + 1)
<1> DEFINE S == {i \in 1 .. n : q[i] > x} \cup {n + 1}
<1>1. S \subseteq Nat /\ S # {}
  OBVIOUS
<1>2. PICK p \in S : \A i \in S : p <= i
  BY <1>1, LeastNatural
<1>3. p \in 1 .. n + 1
  OBVIOUS
<1>4. \A i \in 1 .. n : q[i] \in Int /\ q[i] # x
  OBVIOUS
<1>5. ASSUME NEW i \in 1 .. n, i < p PROVE q[i] < x
  <2>1. i \notin S
    BY <1>2, <1>3, <1>5
  <2>2. ~(q[i] > x)
    BY <2>1
  <2> QED BY <1>4, <2>2
<1>6. ASSUME NEW i \in 1 .. n, i >= p PROVE q[i] > x
  <2>1. q[p] > x /\ p \in 1 .. n
    BY <1>3, <1>6
  <2> QED BY <1>4, <1>6, <2>1 DEF Ascends
<1> DEFINE e == [i \in 1 .. n + 1 |-> IF i < p THEN q[i] ELSE IF i = p THEN x ELSE q[i - 1]]
<1>7. ASSUME NEW i \in 1 .. n + 1
      PROVE  /\ i < p => i \in 1 .. n /\ e[i] = q[i]
             /\ i = p => e[i] = x
             /\ i > p => i - 1 \in 1 .. n /\ i - 1 >= p /\ e[i] = q[i - 1]
  BY <1>3
<1>8. e \in [1 .. n + 1 -> T \cup {x}]
  BY <1>3
<1> HIDE DEF e, S
<1>9. ASSUME NEW i \in 1 .. n + 1, NEW j \in 1 .. n + 1, i < j PROVE e[i] < e[j]
  <2>1. CASE j < p
    BY <1>3, <1>7, <1>9, <2>1 DEF Ascends
  <2>2. CASE j = p
    BY <1>3, <1>5, <1>7, <1>9, <2>2
  <2>3. CASE j > p /\ i < p
    <3>1. q[i] < x /\ x < q[j - 1] /\ q[i] \in Int /\ q[j - 1] \in Int
      BY <1>4, <1>5, <1>6, <1>7, <2>3
    <3> QED BY <1>7, <2>3, <3>1
  <2>4. CASE j > p /\ i = p
    BY <1>6, <1>7, <2>4
  <2>5. CASE j > p /\ i > p
    BY <1>3, <1>7, <1>9, <2>5 DEF Ascends
  <2> QED BY <1>3, <2>1, <2>2, <2>3, <2>4, <2>5
<1> QED BY <1>8, <1>9 DEF Ascends

LEMMA SortedExists ==
    ASSUME NEW S, IsFiniteSet(S), S \subseteq Int
    PROVE  /\ Cardinality(S) \in Nat
           /\ \E q \in [1 .. Cardinality(S) -> S] : Ascends(q, Cardinality(S))
<1> DEFINE Ok(T) == \E q \in [1 .. Cardinality(T) -> T] : Ascends(q, Cardinality(T))
           B == {n \in Nat : \E T \in SUBSET S : Cardinality(T) = n /\ ~Ok(T)}
<1>1. \A T \in SUBSET S : IsFiniteSet(T) /\ Cardinality(T) \in Nat
  BY FS_Subset, FS_CardinalityType
<1>2. B = {}
  <2> SUFFICES ASSUME B # {} PROVE FALSE
    OBVIOUS
  <2>1. PICK n \in B : \A m \in B : n <= m
    BY LeastNatural
  <2>2. PICK T \in SUBSET S : Cardinality(T) = n /\ ~Ok(T)
    OBVIOUS
  <2>3. CASE T = {}
    <3>1. Cardinality(T) = 0
      BY <2>3, FS_EmptySet
    <3> DEFINE q == [i \in 1 .. 0 |-> 0]
    <3>2. q \in [1 .. 0 -> T] /\ Ascends(q, 0)
      BY DEF Ascends
    <3> QED BY <2>2, <3>1, <3>2
  <2>4. CASE T # {}
    <3>1. PICK x \in T : TRUE
      BY <2>4
    <3> DEFINE V == T \ {x}
    <3>2. Cardinality(V) = n - 1 /\ n \in Nat /\ V \in SUBSET S /\ IsFiniteSet(V)
      BY <1>1, <2>2, FS_RemoveElement
    <3>3. n - 1 \in Nat
      BY <1>1, <3>2
    <3>4. n - 1 \notin B
      BY <2>1, <3>2, <3>3
    <3>5. Ok(V)
      BY <3>2, <3>3, <3>4
    <3>6. PICK q \in [1 .. n - 1 -> V] : Ascends(q, n - 1)
      BY <3>2, <3>5
    <3>7. V \in SUBSET Int /\ x \in Int /\ x \notin V /\ V \cup {x} = T /\ (n - 1) + 1 = n
      BY <3>2
    <3> HIDE DEF V, Ok, B
    <3>8. \E e \in [1 .. (n - 1) + 1 -> V \cup {x}] : Ascends(e, (n - 1) + 1)
      BY <3>3, <3>6, <3>7, Placed
    <3>9. \E e \in [1 .. n -> T] : Ascends(e, n)
      BY <3>7, <3>8
    <3> QED BY <2>2, <3>9 DEF Ok
  <2> QED BY <2>3, <2>4
<1>3. Cardinality(S) \in Nat /\ Cardinality(S) \notin B /\ S \in SUBSET S
  BY <1>1, <1>2
<1> QED BY <1>3

\* Sorted enumerates the set, each element once.
LEMMA SortedFacts ==
    ASSUME NEW S, IsFiniteSet(S), S \subseteq Int
    PROVE  /\ Cardinality(S) \in Nat
           /\ Sorted(S) \in [1 .. Cardinality(S) -> S]
           /\ \A i, j \in 1 .. Cardinality(S) : Sorted(S)[i] = Sorted(S)[j] => i = j
           /\ \A x \in S : \E i \in 1 .. Cardinality(S) : Sorted(S)[i] = x
<1> DEFINE n == Cardinality(S)
           q == Sorted(S)
<1>1. n \in Nat /\ \E e \in [1 .. n -> S] : Ascends(e, n)
  BY SortedExists
<1>2. q \in [1 .. n -> S] /\ Ascends(q, n)
  BY <1>1 DEF Sorted, Ascends
<1> HIDE DEF q
<1>3. ASSUME NEW i \in 1 .. n, NEW j \in 1 .. n, q[i] = q[j] PROVE i = j
  <2>1. q[i] \in Int /\ q[j] \in Int
    BY <1>2
  <2> QED BY <1>1, <1>2, <1>3, <2>1 DEF Ascends
<1>4. q \in Injection(1 .. n, S)
  BY <1>2, <1>3 DEF Injection, IsInjective
<1>5. IsFiniteSet(1 .. n) /\ Cardinality(1 .. n) = n
  BY <1>1, FS_Interval
<1>6. q \in Surjection(1 .. n, S)
  BY <1>4, <1>5, FS_Injection
<1>7. \A x \in S : \E i \in 1 .. n : q[i] = x
  BY <1>6 DEF Surjection
<1> QED BY <1>1, <1>2, <1>3, <1>7 DEF q

-----------------------------------------------------------------------------
(* Indexes                                                                 *)

Partial(S, T) == UNION {[X -> T] : X \in SUBSET S}
Indexes ==
    {x \in [map : Partial(Vals, Nat), dead : BOOLEAN, refused : BOOLEAN] : IsFiniteSet(DOMAIN x.map)}

LEMMA PartialFacts ==
    ASSUME NEW S, NEW T, NEW f \in Partial(S, T)
    PROVE  /\ f = [x \in DOMAIN f |-> f[x]] /\ DOMAIN f \subseteq S
           /\ \A x \in DOMAIN f : f[x] \in T
BY DEF Partial

LEMMA PartialType ==
    ASSUME NEW S, NEW T, NEW X \in SUBSET S, NEW f \in [X -> T]
    PROVE  f \in Partial(S, T)
BY DEF Partial

\* g is f with the value v at k, or without k.
IsWith(g, f, k, v) ==
    DOMAIN g = DOMAIN f \cup {k} /\ g[k] = v /\ \A x \in DOMAIN f : x # k => g[x] = f[x]
IsWithout(g, f, k) == DOMAIN g = DOMAIN f \ {k} /\ \A x \in DOMAIN f \ {k} : g[x] = f[x]

LEMMA WithPartial ==
    ASSUME NEW S, NEW T, NEW f \in Partial(S, T), NEW k \in S, NEW v \in T
    PROVE  With(f, k, v) \in Partial(S, T) /\ IsWith(With(f, k, v), f, k, v)
<1> DEFINE g == With(f, k, v)
<1>1. /\ DOMAIN f \subseteq S /\ \A x \in DOMAIN f : f[x] \in T
  BY PartialFacts
<1>2. g = [x \in DOMAIN f \cup {k} |-> IF x = k THEN v ELSE f[x]]
  <2>1. {k} \cup DOMAIN f = DOMAIN f \cup {k}
    OBVIOUS
  <2> QED BY <2>1 DEF With, Override
<1> HIDE DEF g
<1>3. g \in [DOMAIN f \cup {k} -> T] /\ DOMAIN f \cup {k} \in SUBSET S
  BY <1>1, <1>2
<1>4. g \in Partial(S, T)
  BY <1>3, PartialType
<1> QED BY <1>2, <1>4 DEF g, IsWith

LEMMA WithoutPartial ==
    ASSUME NEW S, NEW T, NEW f \in Partial(S, T), NEW k
    PROVE  Without(f, k) \in Partial(S, T) /\ IsWithout(Without(f, k), f, k)
<1> DEFINE g == Without(f, k)
<1>1. /\ DOMAIN f \subseteq S /\ \A x \in DOMAIN f : f[x] \in T
  BY PartialFacts
<1>2. g = [x \in DOMAIN f \ {k} |-> f[x]]
  BY DEF Without, Restrict
<1> HIDE DEF g
<1>3. g \in [DOMAIN f \ {k} -> T] /\ DOMAIN f \ {k} \in SUBSET S
  BY <1>1, <1>2
<1>4. g \in Partial(S, T)
  BY <1>3, PartialType
<1> QED BY <1>2, <1>4 DEF g, IsWithout

LEMMA IndexFacts ==
    ASSUME NEW x \in Indexes
    PROVE  /\ x = [map |-> x.map, dead |-> x.dead, refused |-> x.refused]
           /\ x.map \in Partial(Vals, Nat) /\ x.dead \in BOOLEAN /\ x.refused \in BOOLEAN
           /\ IsFiniteSet(DOMAIN x.map)
BY DEF Indexes

LEMMA IndexType ==
    ASSUME NEW m \in Partial(Vals, Nat), IsFiniteSet(DOMAIN m), NEW d \in BOOLEAN, NEW r \in BOOLEAN
    PROVE  [map |-> m, dead |-> d, refused |-> r] \in Indexes
BY DEF Indexes

\* The entries of index x on column c lead to their records in R.
Points(x, c, R) == \A k \in DOMAIN x.map : x.map[k] \in DOMAIN R /\ R[x.map[k]][c] = k

\* It has entries for exactly the records in S, if it is to be relied on.
Covers(x, S) == x.dead \/ x.refused \/ Range(x.map) = S

\* What insert_entry and delete_entry make of an index that is alive.
Inserted(x, k, rid) ==
    IF k \in DOMAIN x.map THEN [x EXCEPT !.refused = TRUE] ELSE [x EXCEPT !.map = With(@, k, rid)]
Removed(x, k) == [x EXCEPT !.map = Without(@, k), !.dead = DOMAIN x.map \subseteq {k}]

LEMMA InsertedFacts ==
    ASSUME NEW x \in Indexes, NEW k \in Vals, NEW rid \in Nat
    PROVE  /\ Inserted(x, k, rid) \in Indexes
           /\ Inserted(x, k, rid).dead = x.dead
           /\ \/ Inserted(x, k, rid).refused /\ Inserted(x, k, rid).map = x.map
              \/ /\ Inserted(x, k, rid).refused = x.refused
                 /\ k \notin DOMAIN x.map /\ IsWith(Inserted(x, k, rid).map, x.map, k, rid)
<1> DEFINE y == Inserted(x, k, rid)
           m == With(x.map, k, rid)
<1>1. /\ x = [map |-> x.map, dead |-> x.dead, refused |-> x.refused]
      /\ x.map \in Partial(Vals, Nat) /\ x.dead \in BOOLEAN /\ x.refused \in BOOLEAN
      /\ IsFiniteSet(DOMAIN x.map)
  BY IndexFacts
<1>2. CASE k \in DOMAIN x.map
  <2>1. y = [map |-> x.map, dead |-> x.dead, refused |-> TRUE]
    BY <1>1, <1>2 DEF Inserted
  <2>2. y \in Indexes
    BY <1>1, <2>1, IndexType
  <2> HIDE DEF y
  <2>3. y.dead = x.dead /\ y.refused /\ y.map = x.map
    BY <2>1
  <2> QED BY <2>2, <2>3 DEF y
<1>3. CASE k \notin DOMAIN x.map
  <2>1. m \in Partial(Vals, Nat) /\ IsWith(m, x.map, k, rid)
    BY <1>1, WithPartial
  <2>2. y = [map |-> m, dead |-> x.dead, refused |-> x.refused]
    BY <1>1, <1>3 DEF Inserted
  <2> HIDE DEF m
  <2>3. IsFiniteSet(DOMAIN m)
    BY <1>1, <2>1, FS_AddElement DEF IsWith
  <2>4. y \in Indexes
    BY <1>1, <2>1, <2>2, <2>3, IndexType
  <2> HIDE DEF y
  <2>5. y.dead = x.dead /\ y.refused = x.refused /\ y.map = m
    BY <2>2
  <2> QED BY <1>3, <2>1, <2>4, <2>5 DEF y
<1> QED BY <1>2, <1>3

LEMMA InsertedPoints ==
    ASSUME NEW x \in Indexes, NEW c, NEW R, NEW rid \in DOMAIN R, rid \in Nat,
           R[rid][c] \in Vals, Points(x, c, R)
    PROVE  /\ Points(Inserted(x, R[rid][c], rid), c, R)
           /\ \A S : Covers(x, S) => Covers(Inserted(x, R[rid][c], rid), S \cup {rid})
<1> DEFINE k == R[rid][c]
           y == Inserted(x, k, rid)
<1>1. /\ y.dead = x.dead
      /\ \/ y.refused /\ y.map = x.map
         \/ y.refused = x.refused /\ k \notin DOMAIN x.map /\ IsWith(y.map, x.map, k, rid)
  BY InsertedFacts
<1> HIDE DEF y
<1>2. CASE y.refused /\ y.map = x.map
  <2>1. Points(y, c, R) /\ \A S : Covers(y, S)
    BY <1>2 DEF Points, Covers
  <2> QED BY <2>1 DEF y
<1>3. CASE y.refused = x.refused /\ k \notin DOMAIN x.map /\ IsWith(y.map, x.map, k, rid)
  <2>1. Points(y, c, R)
    BY <1>3 DEF Points, IsWith
  <2>2. Range(y.map) = Range(x.map) \cup {rid}
    BY <1>3 DEF Range, IsWith
  <2>3. \A S : Covers(x, S) => Covers(y, S \cup {rid})
    BY <1>1, <1>3, <2>2 DEF Covers
  <2> QED BY <2>1, <2>3 DEF y
<1> QED BY <1>1, <1>2, <1>3

LEMMA RemovedFacts ==
    ASSUME NEW x \in Indexes, NEW k
    PROVE  /\ Removed(x, k) \in Indexes
           /\ Removed(x, k).refused = x.refused /\ IsWithout(Removed(x, k).map, x.map, k)
           /\ DOMAIN x.map = {} => Removed(x, k).dead = TRUE
<1> DEFINE y == Removed(x, k)
           m == Without(x.map, k)
           b == DOMAIN x.map \subseteq {k}
<1>1. /\ x = [map |-> x.map, dead |-> x.dead, refused |-> x.refused]
      /\ x.map \in Partial(Vals, Nat) /\ x.dead \in BOOLEAN /\ x.refused \in BOOLEAN
      /\ IsFiniteSet(DOMAIN x.map)
  BY IndexFacts
<1>2. m \in Partial(Vals, Nat) /\ IsWithout(m, x.map, k)
  BY <1>1, WithoutPartial
<1>3. b \in BOOLEAN /\ (DOMAIN x.map = {} => b = TRUE)
  OBVIOUS
<1>4. y = [map |-> m, dead |-> b, refused |-> x.refused]
  <2>1. y = [x EXCEPT !.map = m, !.dead = b]
    BY DEF Removed
  <2> HIDE DEF m, b, y
  <2> QED BY <1>1, <2>1
<1> HIDE DEF m, b
<1>5. IsFiniteSet(DOMAIN m)
  BY <1>1, <1>2, FS_Subset DEF IsWithout
<1>6. y \in Indexes
  BY <1>1, <1>2, <1>3, <1>4, <1>5, IndexType
<1> HIDE DEF y
<1>7. y.map = m /\ y.dead = b /\ y.refused = x.refused
  BY <1>4
<1> QED BY <1>2, <1>3, <1>6, <1>7 DEF y

LEMMA RemovedPoints ==
    ASSUME NEW x \in Indexes, NEW k, NEW c, NEW R, Points(x, c, R)
    PROVE  Points(Removed(x, k), c, R)
<1>1. IsWithout(Removed(x, k).map, x.map, k)
  BY RemovedFacts
<1> QED BY <1>1 DEF Points, IsWithout

LEMMA RemovedCovers ==
    ASSUME NEW x \in Indexes, ~x.dead, NEW c, NEW R, NEW rid \in DOMAIN R, Points(x, c, R),
           Covers(x, DOMAIN R) \/ (Covers(x, DOMAIN R \ {rid}) /\ R[rid][c] \notin DOMAIN x.map)
    PROVE  Covers(Removed(x, R[rid][c]), DOMAIN R \ {rid})
<1> DEFINE k == R[rid][c]
           y == Removed(x, k)
<1>1. y.refused = x.refused /\ IsWithout(y.map, x.map, k)
  BY RemovedFacts
<1> HIDE DEF y
<1>2. CASE x.refused
  BY <1>1, <1>2 DEF Covers, y
<1>3. CASE Range(x.map) = DOMAIN R
  <2>1. PICK z \in DOMAIN x.map : x.map[z] = rid
    BY <1>3 DEF Range
  <2>2. z = k
    BY <2>1 DEF Points
  <2>3. \A u \in DOMAIN x.map : x.map[u] = rid => u = k
    BY DEF Points
  <2>4. Range(y.map) = Range(x.map) \ {rid}
    BY <1>1, <2>1, <2>2, <2>3 DEF Range, IsWithout
  <2> QED BY <1>3, <2>4 DEF Covers, y
<1>4. CASE Range(x.map) = DOMAIN R \ {rid} /\ k \notin DOMAIN x.map
  <2>1. Range(y.map) = Range(x.map)
    BY <1>1, <1>4 DEF Range, IsWithout
  <2> QED BY <1>4, <2>1 DEF Covers, y
<1> QED BY <1>2, <1>3, <1>4 DEF Covers

-----------------------------------------------------------------------------
(* Statements under way                                                    *)

Ids == UNION {{<<t, c>> : c \in ColSet(t)} : t \in Tables}
ExecType ==
    /\ tab = [t \in Tables |-> tab[t]]
    /\ \A t \in Tables : tab[t] \in Partial(Rids(t), RowsOf(t))
    /\ DOMAIN idx \subseteq Ids /\ idx \in [DOMAIN idx -> Indexes]

LEMMA IdFacts ==
    ASSUME DOMAIN idx \subseteq Ids, NEW i \in DOMAIN idx
    PROVE  i = <<i[1], i[2]>> /\ i[1] \in Tables /\ i[2] \in ColSet(i[1])
BY DEF Ids

\* A statement on t, with the indexes I.
Work(t, I) ==
    [rows : Partial(Rids(t), RowsOf(t)), left : Partial(Nat, RowsOf(t)), idx : [I -> Indexes],
     thrown : BOOLEAN]

SetIndex(w, i, y) == [w EXCEPT !.idx[i] = y]
SetThrown(w) == [w EXCEPT !.thrown = TRUE]

\* v is w with y for index i.
Changed(v, w, i, y) ==
    /\ v.rows = w.rows /\ v.left = w.left /\ v.thrown = w.thrown /\ v.idx[i] = y
    /\ \A j \in DOMAIN w.idx : j # i => v.idx[j] = w.idx[j]

LEMMA SetIndexFacts ==
    ASSUME NEW t, NEW I, NEW w \in Work(t, I), NEW i \in I, NEW y \in Indexes
    PROVE  SetIndex(w, i, y) \in Work(t, I) /\ Changed(SetIndex(w, i, y), w, i, y)
<1> DEFINE v == SetIndex(w, i, y)
<1>1. w.idx \in [I -> Indexes]
  BY DEF Work
<1>2. v = [w EXCEPT !.idx = [w.idx EXCEPT ![i] = y]]
  BY <1>1 DEF SetIndex, Work
<1> DEFINE x == [w.idx EXCEPT ![i] = y]
<1>3. x \in [I -> Indexes] /\ x[i] = y /\ (\A j \in I : j # i => x[j] = w.idx[j]) /\ DOMAIN w.idx = I
  BY <1>1
<1> HIDE DEF x
<1>4. v \in Work(t, I) /\ v.idx = x /\ v.rows = w.rows /\ v.left = w.left /\ v.thrown = w.thrown
  BY <1>2, <1>3 DEF Work, x
<1> HIDE DEF v
<1>5. Changed(v, w, i, y)
  BY <1>3, <1>4 DEF Changed
<1> QED BY <1>4, <1>5 DEF v

LEMMA DeleteForm ==
    ASSUME NEW t, NEW I, NEW w \in Work(t, I), NEW i \in I, NEW k
    PROVE  /\ w.thrown \/ w.idx[i].dead => delete_entry(w, i, k) = SetThrown(w)
           /\ ~(w.thrown \/ w.idx[i].dead) =>
                 delete_entry(w, i, k) = SetIndex(w, i, Removed(w.idx[i], k))
<1>1. w.idx \in [I -> Indexes] /\ w.idx[i] \in Indexes
  BY DEF Work
<1>2. ASSUME ~(w.thrown \/ w.idx[i].dead)
      PROVE delete_entry(w, i, k) = SetIndex(w, i, Removed(w.idx[i], k))
  BY <1>1, <1>2 DEF delete_entry, SetIndex, Removed, Work, Indexes
<1> QED BY <1>2 DEF delete_entry, SetThrown

LEMMA InsertForm ==
    ASSUME NEW t, NEW I, NEW w \in Work(t, I), NEW i \in I, NEW k, NEW rid
    PROVE  /\ w.thrown \/ w.idx[i].dead => insert_entry(w, i, k, rid) = SetThrown(w)
           /\ ~(w.thrown \/ w.idx[i].dead) =>
                 insert_entry(w, i, k, rid) = SetIndex(w, i, Inserted(w.idx[i], k, rid))
<1>1. w.idx \in [I -> Indexes] /\ w.idx[i] \in Indexes
  BY DEF Work
<1>2. ASSUME ~(w.thrown \/ w.idx[i].dead)
      PROVE insert_entry(w, i, k, rid) = SetIndex(w, i, Inserted(w.idx[i], k, rid))
  BY <1>1, <1>2 DEF insert_entry, SetIndex, Inserted, Work, Indexes
<1> QED BY <1>2 DEF insert_entry, SetThrown

\* The records are R and the bytes elsewhere L; unless t is astray, the entries of
\* every index of t lead to their records, and the indexes have entries for all of
\* them, those on the columns in A for all but rid.  The indexes of other tables
\* are as they were.
Trusted(w, t, R, rid, A, c) ==
    \/ t \in astray
    \/ /\ Points(w.idx[<<t, c>>], c, R)
       /\ \/ w.thrown \/ t \in threw
          \/ Covers(w.idx[<<t, c>>], IF c \in A THEN DOMAIN R \ {rid} ELSE DOMAIN R)
State(w, t, R, L, rid, A) ==
    /\ w \in Work(t, DOMAIN idx) /\ w.rows = R /\ w.left = L
    /\ \A i \in DOMAIN idx : i[1] # t => w.idx[i] = idx[i]
    /\ \A c \in ColSet(t) : <<t, c>> \in DOMAIN idx => Trusted(w, t, R, rid, A, c)

\* The indexes on the columns in A have no entry for the keys of row, and are dead
\* if there are no records.
Gone(w, t, R, row, A) ==
    \A c \in A : <<t, c>> \in DOMAIN idx =>
        \/ w.thrown
        \/ /\ row[c] \notin DOMAIN w.idx[<<t, c>>].map
           /\ t \in astray \/ DOMAIN R # {} \/ w.idx[<<t, c>>].dead

\* A statement reads row where the record rid is, or the bytes in a table that is
\* astray or has no records.
Reads(t, R, rid, row) == t \in astray \/ DOMAIN R = {} \/ (rid \in DOMAIN R /\ row = R[rid])

LEMMA ThrownState ==
    ASSUME NEW t, NEW w, NEW R, NEW L, NEW rid, NEW row, NEW A, NEW B, State(w, t, R, L, rid, A)
    PROVE  /\ State(SetThrown(w), t, R, L, rid, B) /\ Gone(SetThrown(w), t, R, row, B)
           /\ SetThrown(w).thrown = TRUE
<1> DEFINE v == SetThrown(w)
<1>1. w \in Work(t, DOMAIN idx)
  BY DEF State
<1>2. /\ v \in Work(t, DOMAIN idx) /\ v.rows = w.rows /\ v.left = w.left
      /\ v.idx = w.idx /\ v.thrown = TRUE
  BY <1>1 DEF SetThrown, Work
<1> HIDE DEF v
<1>3. State(v, t, R, L, rid, B) /\ Gone(v, t, R, row, B)
  BY <1>2 DEF State, Trusted, Gone
<1> QED BY <1>2, <1>3 DEF v

\* One turn of the loop that deletes the entries of row ...
LEMMA DeleteTurn ==
    ASSUME NEW t, NEW w, NEW R, NEW L, NEW rid, NEW row, NEW A, NEW c \in ColSet(t),
           Reads(t, R, rid, row),
           State(w, t, R, L, rid, A), Gone(w, t, R, row, A), <<t, c>> \in DOMAIN idx
    PROVE  /\ State(delete_entry(w, <<t, c>>, row[c]), t, R, L, rid, A \cup {c})
           /\ Gone(delete_entry(w, <<t, c>>, row[c]), t, R, row, A \cup {c})
<1> DEFINE i == <<t, c>>
           k == row[c]
           v == delete_entry(w, i, k)
           x == w.idx[i]
<1>1. w \in Work(t, DOMAIN idx) /\ w.rows = R /\ w.left = L /\ x \in Indexes
  BY DEF State, Work
<1>2. CASE w.thrown \/ x.dead
  <2>1. v = SetThrown(w)
    BY <1>1, <1>2, DeleteForm
  <2>2. /\ State(SetThrown(w), t, R, L, rid, A \cup {c})
        /\ Gone(SetThrown(w), t, R, row, A \cup {c})
    BY ThrownState
  <2> QED BY <2>1, <2>2
<1>3. CASE ~(w.thrown \/ x.dead)
  <2> DEFINE y == Removed(x, k)
  <2>1. v = SetIndex(w, i, y)
    BY <1>1, <1>3, DeleteForm
  <2>2. y \in Indexes /\ k \notin DOMAIN y.map /\ (DOMAIN x.map = {} => y.dead)
    BY <1>1, RemovedFacts DEF IsWithout
  <2>3. v \in Work(t, DOMAIN idx) /\ Changed(v, w, i, y)
    <3> HIDE DEF y
    <3> QED BY <1>1, <2>1, <2>2, SetIndexFacts
  <2> HIDE DEF v
  <2>4. DOMAIN w.idx = DOMAIN idx
    BY <1>1 DEF Work
  <2>5. ASSUME NEW d, d # c, <<t, d>> \in DOMAIN idx PROVE v.idx[<<t, d>>] = w.idx[<<t, d>>]
    <3>1. <<t, d>> # i
      BY <2>5
    <3> QED BY <2>3, <2>4, <2>5, <3>1 DEF Changed
  <2>6. ASSUME t \notin astray
        PROVE  /\ Points(y, c, R) /\ (DOMAIN R = {} => y.dead)
               /\ t \in threw \/ Covers(y, DOMAIN R \ {rid})
    <3>1. Points(x, c, R) /\ (t \in threw \/ Covers(x, IF c \in A THEN DOMAIN R \ {rid} ELSE DOMAIN R))
      BY <1>3, <2>6 DEF State, Trusted
    <3>2. Points(y, c, R)
      BY <1>1, <3>1, RemovedPoints
    <3>3. DOMAIN R = {} => y.dead
      BY <2>2, <3>1 DEF Points
    <3>4. CASE DOMAIN R = {}
      <4> HIDE DEF y
      <4> QED BY <3>2, <3>3, <3>4 DEF Covers
    <3>5. CASE DOMAIN R # {}
      <4>1. rid \in DOMAIN R /\ k = R[rid][c]
        BY <2>6, <3>5 DEF Reads
      <4>2. c \in A => R[rid][c] \notin DOMAIN x.map
        BY <1>3, <4>1 DEF Gone
      <4>3. t \in threw \/ Covers(x, DOMAIN R) \/ (Covers(x, DOMAIN R \ {rid}) /\ R[rid][c] \notin DOMAIN x.map)
        BY <3>1, <4>2
      <4>4. t \in threw \/ Covers(Removed(x, R[rid][c]), DOMAIN R \ {rid})
        <5> HIDE DEF x
        <5> QED BY <1>1, <1>3, <3>1, <4>1, <4>3, RemovedCovers
      <4> QED BY <3>2, <3>5, <4>1, <4>4
    <3> QED BY <3>4, <3>5
  <2> HIDE DEF y
  <2>7. \A j \in DOMAIN idx : j[1] # t => v.idx[j] = idx[j]
    <3>1. \A j \in DOMAIN idx : j[1] # t => j # i
      OBVIOUS
    <3> QED BY <2>3, <2>4, <3>1 DEF Changed, State
  <2>8. v.rows = R /\ v.left = L /\ v.thrown = w.thrown /\ v.idx[i] = y
    BY <1>1, <2>3 DEF Changed
  <2>9. ASSUME NEW d \in ColSet(t), <<t, d>> \in DOMAIN idx PROVE Trusted(v, t, R, rid, A \cup {c}, d)
    <3>1. CASE d = c
      BY <2>6, <2>8, <3>1 DEF Trusted
    <3>2. CASE d # c
      <4>1. v.idx[<<t, d>>] = w.idx[<<t, d>>] /\ Trusted(w, t, R, rid, A, d)
        BY <2>5, <2>9, <3>2 DEF State
      <4> QED BY <2>8, <3>2, <4>1 DEF Trusted
    <3> QED BY <3>1, <3>2
  <2>10. State(v, t, R, L, rid, A \cup {c})
    BY <2>3, <2>7, <2>8, <2>9 DEF State
  <2>11. Gone(v, t, R, row, A \cup {c})
    <3> SUFFICES ASSUME NEW d \in A \cup {c}, <<t, d>> \in DOMAIN idx
                 PROVE  \/ v.thrown
                        \/ /\ row[d] \notin DOMAIN v.idx[<<t, d>>].map
                           /\ t \in astray \/ DOMAIN R # {} \/ v.idx[<<t, d>>].dead
      BY DEF Gone
    <3>1. CASE d = c
      BY <2>2, <2>6, <2>8, <3>1
    <3>2. CASE d # c
      <4>1. d \in A /\ v.idx[<<t, d>>] = w.idx[<<t, d>>]
        BY <2>5, <3>2
      <4> QED BY <2>8, <4>1 DEF Gone
    <3> QED BY <3>1, <3>2
  <2> QED BY <2>10, <2>11 DEF v
<1> QED BY <1>2, <1>3

\* ... and of the loop that inserts them.
LEMMA InsertTurn ==
    ASSUME NEW t, NEW w, NEW R, NEW L, NEW rid \in Nat, NEW row, NEW A, NEW c \in ColSet(t),
           row[c] \in Vals, State(w, t, R, L, rid, A), <<t, c>> \in DOMAIN idx,
           \/ t \in astray
           \/ rid \in DOMAIN R /\ row = R[rid]
           \/ w.thrown \/ w.idx[<<t, c>>].dead
    PROVE  /\ State(insert_entry(w, <<t, c>>, row[c], rid), t, R, L, rid, A \ {c})
           /\ w.thrown \/ w.idx[<<t, c>>].dead => insert_entry(w, <<t, c>>, row[c], rid).thrown
<1> DEFINE i == <<t, c>>
           k == row[c]
           v == insert_entry(w, i, k, rid)
           x == w.idx[i]
<1>1. w \in Work(t, DOMAIN idx) /\ w.rows = R /\ w.left = L /\ x \in Indexes
  BY DEF State, Work
<1>2. CASE w.thrown \/ x.dead
  <2>1. v = SetThrown(w)
    BY <1>1, <1>2, InsertForm
  <2> QED BY <2>1, ThrownState
<1>3. CASE ~(w.thrown \/ x.dead)
  <2> DEFINE y == Inserted(x, k, rid)
  <2>1. v = SetIndex(w, i, y)
    BY <1>1, <1>3, InsertForm
  <2>2. y \in Indexes
    BY <1>1, InsertedFacts
  <2>3. v \in Work(t, DOMAIN idx) /\ Changed(v, w, i, y)
    <3> HIDE DEF y
    <3> QED BY <1>1, <2>1, <2>2, SetIndexFacts
  <2> HIDE DEF v
  <2>4. DOMAIN w.idx = DOMAIN idx
    BY <1>1 DEF Work
  <2>5. ASSUME NEW d, d # c, <<t, d>> \in DOMAIN idx PROVE v.idx[<<t, d>>] = w.idx[<<t, d>>]
    <3>1. <<t, d>> # i
      BY <2>5
    <3> QED BY <2>3, <2>4, <2>5, <3>1 DEF Changed
  <2>6. ASSUME t \notin astray PROVE Points(y, c, R) /\ (t \in threw \/ Covers(y, DOMAIN R))
    <3>1. /\ Points(x, c, R)
          /\ t \in threw \/ Covers(x, DOMAIN R \ {rid}) \/ Covers(x, DOMAIN R)
      BY <1>3, <2>6 DEF State, Trusted
    <3>2. rid \in DOMAIN R /\ k = R[rid][c] /\ R[rid][c] \in Vals
      BY <1>3, <2>6
    <3>3. (DOMAIN R \ {rid}) \cup {rid} = DOMAIN R /\ DOMAIN R \cup {rid} = DOMAIN R
      BY <3>2
    <3>4. Points(y, c, R) /\ \A S : Covers(x, S) => Covers(y, S \cup {rid})
      <4> HIDE DEF x
      <4>1. /\ Points(Inserted(x, R[rid][c], rid), c, R)
            /\ \A S : Covers(x, S) => Covers(Inserted(x, R[rid][c], rid), S \cup {rid})
        BY <1>1, <3>1, <3>2, InsertedPoints
      <4> QED BY <3>2, <4>1
    <3> QED BY <3>1, <3>3, <3>4
  <2> HIDE DEF y
  <2>7. \A j \in DOMAIN idx : j[1] # t => v.idx[j] = idx[j]
    <3>1. \A j \in DOMAIN idx : j[1] # t => j # i
      OBVIOUS
    <3> QED BY <2>3, <2>4, <3>1 DEF Changed, State
  <2>8. v.rows = R /\ v.left = L /\ v.thrown = w.thrown /\ v.idx[i] = y
    BY <1>1, <2>3 DEF Changed
  <2>9. ASSUME NEW d \in ColSet(t), <<t, d>> \in DOMAIN idx PROVE Trusted(v, t, R, rid, A \ {c}, d)
    <3>1. CASE d = c
      BY <2>6, <2>8, <3>1 DEF Trusted
    <3>2. CASE d # c
      <4>1. v.idx[<<t, d>>] = w.idx[<<t, d>>] /\ Trusted(w, t, R, rid, A, d)
        BY <2>5, <2>9, <3>2 DEF State
      <4> QED BY <2>8, <3>2, <4>1 DEF Trusted
    <3> QED BY <3>1, <3>2
  <2>10. State(v, t, R, L, rid, A \ {c})
    BY <2>3, <2>7, <2>8, <2>9 DEF State
  <2> QED BY <1>3, <2>10 DEF v
<1> QED BY <1>2, <1>3

-----------------------------------------------------------------------------
(* The loops over the columns                                              *)

LEMMA Columns ==
    ASSUME NEW t \in Tables
    PROVE  /\ Len(ColsOf[t]) \in Nat /\ DOMAIN ColsOf[t] = 1 .. Len(ColsOf[t])
           /\ \A n \in 1 .. Len(ColsOf[t]) : ColsOf[t][n] \in ColSet(t)
           /\ \A c \in ColSet(t) : \E n \in 1 .. Len(ColsOf[t]) : ColsOf[t][n] = c
BY ExecutorsAssumption DEF ColSet, Range

\* The columns before turn n + 1 of a loop over the columns.
Seen(t, n) == {ColsOf[t][m] : m \in 1 .. n}

LEMMA SeenFacts ==
    ASSUME NEW t \in Tables
    PROVE  /\ Seen(t, 0) = {} /\ Seen(t, Len(ColsOf[t])) = ColSet(t)
           /\ \A n \in 1 .. Len(ColsOf[t]) : Seen(t, n) = Seen(t, n - 1) \cup {ColsOf[t][n]}
<1> DEFINE N == Len(ColsOf[t])
<1>1. N \in Nat
  BY Columns
<1>2. Seen(t, 0) = {}
  BY DEF Seen
<1>3. Seen(t, N) = ColSet(t)
  BY Columns DEF Seen
<1>4. ASSUME NEW n \in 1 .. N PROVE Seen(t, n) = Seen(t, n - 1) \cup {ColsOf[t][n]}
  <2>1. 1 .. n = (1 .. n - 1) \cup {n}
    BY <1>1
  <2> QED BY <2>1 DEF Seen
<1> QED BY <1>2, <1>3, <1>4

LEMMA DeleteAllFacts ==
    ASSUME NEW t \in Tables, NEW cs \in SUBSET ColSet(t), NEW w, NEW R, NEW L, NEW rid, NEW row,
           Reads(t, R, rid, row), State(w, t, R, L, rid, {})
    PROVE  /\ State(DeleteAll(w, t, cs, row), t, R, L, rid, cs)
           /\ Gone(DeleteAll(w, t, cs, row), t, R, row, cs)
<1> DEFINE N == Len(ColsOf[t])
           Turn(x, n) == IF HasIndex(t, cs, ColsOf[t][n])
                         THEN delete_entry(x, <<t, ColsOf[t][n]>>, row[ColsOf[t][n]]) ELSE x
           Ok(x, n) == /\ State(x, t, R, L, rid, Seen(t, n) \cap cs)
                       /\ Gone(x, t, R, row, Seen(t, n) \cap cs)
           Wk == Work(t, DOMAIN idx)
           W == [n \in 0 .. N |-> {x \in Wk : Ok(x, n)}]
           G == [n \in 1 .. N |-> [x \in Wk |-> Turn(x, n)]]
<1>1. N \in Nat
  BY Columns
<1>2. ASSUME NEW n \in 1 .. N, NEW x, Ok(x, n - 1) PROVE Ok(Turn(x, n), n)
  <2> DEFINE c == ColsOf[t][n]
             A == Seen(t, n - 1) \cap cs
             B == Seen(t, n) \cap cs
  <2>1. c \in ColSet(t) /\ Seen(t, n) = Seen(t, n - 1) \cup {c}
    BY Columns, SeenFacts
  <2>2. State(x, t, R, L, rid, A) /\ Gone(x, t, R, row, A)
    BY <1>2
  <2>3. CASE HasIndex(t, cs, c)
    <3>1. B = A \cup {c} /\ <<t, c>> \in DOMAIN idx
      BY <2>1, <2>3 DEF HasIndex
    <3>2. Turn(x, n) = delete_entry(x, <<t, c>>, row[c])
      BY <2>3
    <3> HIDE DEF A, B, c, Turn
    <3>3. /\ State(delete_entry(x, <<t, c>>, row[c]), t, R, L, rid, A \cup {c})
          /\ Gone(delete_entry(x, <<t, c>>, row[c]), t, R, row, A \cup {c})
      BY <2>1, <2>2, <3>1, DeleteTurn
    <3> QED BY <3>1, <3>2, <3>3 DEF B
  <2>4. CASE ~HasIndex(t, cs, c)
    <3>1. \A d \in B : <<t, d>> \in DOMAIN idx => d \in A
      BY <2>1, <2>4 DEF HasIndex
    <3>2. \A d \in A : d \in B
      BY <2>1
    <3>3. Turn(x, n) = x
      BY <2>4
    <3> HIDE DEF A, B, Turn
    <3>4. State(x, t, R, L, rid, B) /\ Gone(x, t, R, row, B)
      BY <2>2, <3>1, <3>2 DEF State, Trusted, Gone
    <3> QED BY <3>3, <3>4 DEF B
  <2> QED BY <2>3, <2>4
<1>3. Ok(w, 0)
  BY SeenFacts DEF Gone
<1>4. \A x, n : Ok(x, n) => x \in Wk
  BY DEF State
<1>5. w \in W[0] /\ \A n \in 1 .. N : \A x \in W[n - 1] : G[n][x] \in W[n]
  <2> HIDE DEF Ok, Wk, Turn
  <2>1. w \in W[0]
    BY <1>1, <1>3, <1>4
  <2>2. ASSUME NEW n \in 1 .. N, NEW x \in W[n - 1] PROVE G[n][x] \in W[n]
    <3>1. x \in Wk /\ Ok(x, n - 1)
      BY <1>1
    <3>2. G[n][x] = Turn(x, n)
      BY <3>1
    <3>3. Ok(Turn(x, n), n)
      BY <1>2, <3>1
    <3> QED BY <1>1, <1>4, <3>2, <3>3
  <2> QED BY <2>1, <2>2
<1>6. \E f : f = [n \in 0 .. N |-> IF n = 0 THEN w ELSE Turn(f[n - 1], n)]
  <2>1. PICK f : IsLoop(f, N, w, G) /\ \A n \in 0 .. N : f[n] \in W[n]
    <3> HIDE DEF W, G, N
    <3> QED BY <1>1, <1>5, LoopExists
  <2> HIDE DEF Ok, Wk, Turn
  <2>2. ASSUME NEW n \in 0 .. N, n # 0 PROVE G[n][f[n - 1]] = Turn(f[n - 1], n)
    <3>1. n \in 1 .. N /\ n - 1 \in 0 .. N
      BY <1>1, <2>2
    <3>2. f[n - 1] \in Wk
      BY <2>1, <3>1
    <3> QED BY <3>1, <3>2
  <2> HIDE DEF W, G, N
  <2> QED BY <2>1, <2>2 DEF IsLoop
<1> DEFINE after == CHOOSE f : f = [n \in 0 .. N |-> IF n = 0 THEN w ELSE Turn(f[n - 1], n)]
<1>7. DeleteAll(w, t, cs, row) = after[N]
  BY DEF DeleteAll
<1>8. after = [n \in 0 .. N |-> IF n = 0 THEN w ELSE Turn(after[n - 1], n)]
  <2> HIDE DEF Turn, N
  <2> QED BY <1>6
<1> HIDE DEF after
<1>9. after[0] \in W[0] /\ \A n \in 1 .. N : after[n - 1] \in W[n - 1] => after[n] \in W[n]
  <2> HIDE DEF Turn, Ok, Wk
  <2>1. after[0] = w
    BY <1>1, <1>8
  <2>2. ASSUME NEW n \in 1 .. N, after[n - 1] \in W[n - 1] PROVE after[n] \in W[n]
    <3>1. n \in 0 .. N /\ n - 1 \in 0 .. N /\ n # 0
      BY <1>1
    <3>2. after[n] = Turn(after[n - 1], n)
      BY <1>8, <3>1
    <3>3. Ok(after[n - 1], n - 1)
      BY <2>2, <3>1
    <3>4. Ok(after[n], n)
      BY <1>2, <3>2, <3>3
    <3> QED BY <1>4, <3>1, <3>4
  <2> QED BY <1>5, <2>1, <2>2
<1>10. after[N] \in W[N]
  <2> HIDE DEF W, N
  <2>1. \A n \in 0 .. N : after[n] \in W[n]
    BY <1>1, <1>9, LoopInvariant
  <2> QED BY <1>1, <2>1
<1>11. Ok(after[N], N)
  <2> HIDE DEF Ok, Wk
  <2> QED BY <1>1, <1>10
<1>12. Seen(t, N) \cap cs = cs
  BY SeenFacts
<1> QED BY <1>7, <1>11, <1>12

\* The first turn throws: every index on a column in cs is dead.
Dying(w, t, cs) == \A c \in cs : <<t, c>> \in DOMAIN idx => w.thrown \/ w.idx[<<t, c>>].dead

LEMMA InsertAllFacts ==
    ASSUME NEW t \in Tables, NEW cs \in SUBSET ColSet(t), NEW w, NEW R, NEW L, NEW rid \in Nat,
           NEW row, \A c \in ColSet(t) : row[c] \in Vals, State(w, t, R, L, rid, cs),
           t \in astray \/ (rid \in DOMAIN R /\ row = R[rid]) \/ Dying(w, t, cs)
    PROVE  State(InsertAll(w, t, cs, rid, row), t, R, L, rid, {})
<1> DEFINE N == Len(ColsOf[t])
           Turn(x, n) == IF HasIndex(t, cs, ColsOf[t][n])
                         THEN insert_entry(x, <<t, ColsOf[t][n]>>, row[ColsOf[t][n]], rid) ELSE x
           Safe(x) == t \in astray \/ (rid \in DOMAIN R /\ row = R[rid]) \/ Dying(x, t, cs)
           Ok(x, n) == State(x, t, R, L, rid, cs \ Seen(t, n)) /\ Safe(x)
           Wk == Work(t, DOMAIN idx)
           W == [n \in 0 .. N |-> {x \in Wk : Ok(x, n)}]
           G == [n \in 1 .. N |-> [x \in Wk |-> Turn(x, n)]]
<1>1. N \in Nat
  BY Columns
<1>2. ASSUME NEW n \in 1 .. N, NEW x, Ok(x, n - 1) PROVE Ok(Turn(x, n), n)
  <2> DEFINE c == ColsOf[t][n]
             A == cs \ Seen(t, n - 1)
             B == cs \ Seen(t, n)
  <2>1. c \in ColSet(t) /\ Seen(t, n) = Seen(t, n - 1) \cup {c}
    BY Columns, SeenFacts
  <2>2. State(x, t, R, L, rid, A) /\ Safe(x)
    BY <1>2
  <2>3. CASE HasIndex(t, cs, c)
    <3> DEFINE v == insert_entry(x, <<t, c>>, row[c], rid)
    <3>1. B = A \ {c} /\ <<t, c>> \in DOMAIN idx /\ c \in cs
      BY <2>1, <2>3 DEF HasIndex
    <3>2. Turn(x, n) = v
      BY <2>3
    <3> HIDE DEF A, B, c, Turn
    <3>3. row[c] \in Vals
      BY <2>1
    <3>4. /\ t \in astray \/ (rid \in DOMAIN R /\ row = R[rid]) \/ x.thrown \/ x.idx[<<t, c>>].dead
          /\ t \in astray \/ (rid \in DOMAIN R /\ row = R[rid]) \/ Dying(x, t, cs)
      BY <2>2, <3>1 DEF Dying
    <3>5. /\ State(v, t, R, L, rid, A \ {c})
          /\ x.thrown \/ x.idx[<<t, c>>].dead => v.thrown
      BY <2>1, <2>2, <3>1, <3>3, <3>4, InsertTurn
    <3> HIDE DEF v
    <3>6. Safe(v)
      BY <3>1, <3>4, <3>5 DEF Dying
    <3> QED BY <3>1, <3>2, <3>5, <3>6 DEF B
  <2>4. CASE ~HasIndex(t, cs, c)
    <3>1. \A d \in A : <<t, d>> \in DOMAIN idx => d \in B
      BY <2>1, <2>4 DEF HasIndex
    <3>2. \A d \in B : d \in A
      BY <2>1
    <3>3. Turn(x, n) = x
      BY <2>4
    <3> HIDE DEF A, B, Turn
    <3>4. State(x, t, R, L, rid, B)
      BY <2>2, <3>1, <3>2 DEF State, Trusted
    <3> HIDE DEF Safe
    <3> QED BY <2>2, <3>3, <3>4 DEF B
  <2> QED BY <2>3, <2>4
<1>3. Ok(w, 0)
  <2>1. cs \ Seen(t, 0) = cs
    BY SeenFacts
  <2> QED BY <2>1
<1>4. \A x, n : Ok(x, n) => x \in Wk
  BY DEF State
<1>5. w \in W[0] /\ \A n \in 1 .. N : \A x \in W[n - 1] : G[n][x] \in W[n]
  <2> HIDE DEF Ok, Wk, Turn
  <2>1. w \in W[0]
    BY <1>1, <1>3, <1>4
  <2>2. ASSUME NEW n \in 1 .. N, NEW x \in W[n - 1] PROVE G[n][x] \in W[n]
    <3>1. x \in Wk /\ Ok(x, n - 1)
      BY <1>1
    <3>2. G[n][x] = Turn(x, n)
      BY <3>1
    <3>3. Ok(Turn(x, n), n)
      BY <1>2, <3>1
    <3> QED BY <1>1, <1>4, <3>2, <3>3
  <2> QED BY <2>1, <2>2
<1>6. \E f : f = [n \in 0 .. N |-> IF n = 0 THEN w ELSE Turn(f[n - 1], n)]
  <2>1. PICK f : IsLoop(f, N, w, G) /\ \A n \in 0 .. N : f[n] \in W[n]
    <3> HIDE DEF W, G, N
    <3> QED BY <1>1, <1>5, LoopExists
  <2> HIDE DEF Ok, Wk, Turn
  <2>2. ASSUME NEW n \in 0 .. N, n # 0 PROVE G[n][f[n - 1]] = Turn(f[n - 1], n)
    <3>1. n \in 1 .. N /\ n - 1 \in 0 .. N
      BY <1>1, <2>2
    <3>2. f[n - 1] \in Wk
      BY <2>1, <3>1
    <3> QED BY <3>1, <3>2
  <2> HIDE DEF W, G, N
  <2> QED BY <2>1, <2>2 DEF IsLoop
<1> DEFINE after == CHOOSE f : f = [n \in 0 .. N |-> IF n = 0 THEN w ELSE Turn(f[n - 1], n)]
<1>7. InsertAll(w, t, cs, rid, row) = after[N]
  BY DEF InsertAll
<1>8. after = [n \in 0 .. N |-> IF n = 0 THEN w ELSE Turn(after[n - 1], n)]
  <2> HIDE DEF Turn, N
  <2> QED BY <1>6
<1> HIDE DEF after
<1>9. after[0] \in W[0] /\ \A n \in 1 .. N : after[n - 1] \in W[n - 1] => after[n] \in W[n]
  <2> HIDE DEF Turn, Ok, Wk
  <2>1. after[0] = w
    BY <1>1, <1>8
  <2>2. ASSUME NEW n \in 1 .. N, after[n - 1] \in W[n - 1] PROVE after[n] \in W[n]
    <3>1. n \in 0 .. N /\ n - 1 \in 0 .. N /\ n # 0
      BY <1>1
    <3>2. after[n] = Turn(after[n - 1], n)
      BY <1>8, <3>1
    <3>3. Ok(after[n - 1], n - 1)
      BY <2>2, <3>1
    <3>4. Ok(after[n], n)
      BY <1>2, <3>2, <3>3
    <3> QED BY <1>4, <3>1, <3>4
  <2> QED BY <1>5, <2>1, <2>2
<1>10. after[N] \in W[N]
  <2> HIDE DEF W, N
  <2>1. \A n \in 0 .. N : after[n] \in W[n]
    BY <1>1, <1>9, LoopInvariant
  <2> QED BY <1>1, <2>1
<1>11. Ok(after[N], N)
  <2> HIDE DEF Ok, Wk
  <2> QED BY <1>1, <1>10
<1>12. cs \ Seen(t, N) = {}
  BY SeenFacts
<1> QED BY <1>7, <1>11, <1>12

-----------------------------------------------------------------------------
(* One record of DELETE or UPDATE                                          *)

\* A statement between two records.
Fine(w, t) == State(w, t, w.rows, w.left, 0, {})

LEMMA AnyRid ==
    ASSUME NEW w, NEW t, NEW R, NEW L, NEW r, NEW s, State(w, t, R, L, r, {})
    PROVE  State(w, t, R, L, s, {}) /\ w.rows = R /\ w.left = L
BY DEF State, Trusted

\* Once a statement has thrown, only that entries lead to their records matters.
LEMMA ThrownFine ==
    ASSUME NEW t, NEW w, NEW R, NEW L, NEW rid, NEW A, State(w, t, R, L, rid, A), w.thrown
    PROVE  Fine(w, t)
BY DEF Fine, State, Trusted

\* A statement with other records and other bytes.
Moved(v, w, R, L) == v.rows = R /\ v.left = L /\ v.idx = w.idx /\ v.thrown = w.thrown

LEMMA MovedFacts ==
    ASSUME NEW t, NEW I, NEW w \in Work(t, I),
           NEW R \in Partial(Rids(t), RowsOf(t)), NEW L \in Partial(Nat, RowsOf(t))
    PROVE  /\ [w EXCEPT !.rows = R] \in Work(t, I) /\ Moved([w EXCEPT !.rows = R], w, R, w.left)
           /\ [w EXCEPT !.left = L] \in Work(t, I) /\ Moved([w EXCEPT !.left = L], w, w.rows, L)
           /\ [w EXCEPT !.rows = R, !.left = L] \in Work(t, I)
           /\ Moved([w EXCEPT !.rows = R, !.left = L], w, R, L)
BY DEF Work, Moved

\* What a statement reads, and where.
Here(w, rid) == rid \in DOMAIN w.rows \cup DOMAIN w.left

LEMMA ReadFacts ==
    ASSUME NEW t \in Tables, NEW I, NEW w \in Work(t, I), NEW rid, Here(w, rid)
    PROVE  /\ rid \in Nat /\ get_record(w.rows, w.left, rid) \in RowsOf(t)
           /\ rid \in DOMAIN w.rows => rid \in Rids(t) /\ get_record(w.rows, w.left, rid) = w.rows[rid]
<1>1. w.rows \in Partial(Rids(t), RowsOf(t)) /\ w.left \in Partial(Nat, RowsOf(t))
  BY DEF Work
<1>2. /\ DOMAIN w.rows \subseteq Rids(t) /\ \A r \in DOMAIN w.rows : w.rows[r] \in RowsOf(t)
      /\ DOMAIN w.left \subseteq Nat /\ \A r \in DOMAIN w.left : w.left[r] \in RowsOf(t)
  BY <1>1, PartialFacts
<1>3. Rids(t) \subseteq Nat
  BY ExecutorsAssumption DEF Rids
<1> QED BY <1>2, <1>3 DEF Here, get_record

LEMMA DeleteOneFacts ==
    ASSUME NEW t \in Tables, NEW w, Fine(w, t), NEW rid, w.thrown \/ Here(w, rid),
           w.thrown \/ t \in astray \/ DOMAIN w.rows = {} \/ rid \in DOMAIN w.rows
    PROVE  /\ Fine(DeleteOne(w, t, rid), t)
           /\ \/ DeleteOne(w, t, rid).thrown
              \/ /\ DOMAIN DeleteOne(w, t, rid).rows = DOMAIN w.rows \ {rid}
                 /\ \A r : Here(w, r) => Here(DeleteOne(w, t, rid), r)
<1> DEFINE v == DeleteOne(w, t, rid)
           R == w.rows
           L == w.left
           row == get_record(R, L, rid)
           d == DeleteAll(w, t, ColSet(t), row)
           Q == Without(R, rid)
           M == With(L, rid, row)
<1>1. CASE w.thrown
  <2>1. v = w
    BY <1>1 DEF DeleteOne
  <2> QED BY <1>1, <2>1
<1>2. CASE ~w.thrown
  <2>1. State(w, t, R, L, rid, {}) /\ w \in Work(t, DOMAIN idx)
    BY AnyRid DEF Fine, State
  <2>2. R \in Partial(Rids(t), RowsOf(t)) /\ L \in Partial(Nat, RowsOf(t))
    BY <2>1 DEF Work
  <2>3. rid \in Nat /\ row \in RowsOf(t) /\ (rid \in DOMAIN R => row = R[rid])
    BY <1>2, <2>1, ReadFacts
  <2>4. v = IF d.thrown THEN d ELSE delete_record(d, rid)
    BY <1>2 DEF DeleteOne
  <2> HIDE DEF R, L, row, v
  <2>5. Reads(t, R, rid, row)
    BY <1>2, <2>3 DEF Reads, R
  <2>6. State(d, t, R, L, rid, ColSet(t)) /\ Gone(d, t, R, row, ColSet(t))
    BY <2>1, <2>5, DeleteAllFacts
  <2> HIDE DEF d
  <2>7. CASE d.thrown
    <3>1. v = d
      BY <2>4, <2>7
    <3> QED BY <2>6, <2>7, <3>1, ThrownFine DEF v
  <2>8. CASE ~d.thrown
    <3>1. d \in Work(t, DOMAIN idx) /\ d.rows = R /\ d.left = L
      BY <2>6 DEF State
    <3>2. v = [d EXCEPT !.rows = Q, !.left = M]
      BY <2>4, <2>8, <3>1 DEF delete_record, row
    <3>3. Q \in Partial(Rids(t), RowsOf(t)) /\ IsWithout(Q, R, rid)
      BY <2>2, WithoutPartial
    <3>4. M \in Partial(Nat, RowsOf(t)) /\ IsWith(M, L, rid, row)
      BY <2>2, <2>3, WithPartial
    <3> HIDE DEF Q, M
    <3>5. v \in Work(t, DOMAIN idx) /\ Moved(v, d, Q, M)
      BY <3>1, <3>2, <3>3, <3>4, MovedFacts
    <3>6. \A i \in DOMAIN idx : i[1] # t => v.idx[i] = idx[i]
      BY <2>6, <3>5 DEF State, Moved
    <3>7. ASSUME NEW c \in ColSet(t), <<t, c>> \in DOMAIN idx PROVE Trusted(v, t, Q, 0, {}, c)
      <4> DEFINE x == d.idx[<<t, c>>]
      <4> SUFFICES ASSUME t \notin astray
                   PROVE  Points(v.idx[<<t, c>>], c, Q) /\ (t \in threw \/ Covers(v.idx[<<t, c>>], DOMAIN Q))
        BY DEF Trusted
      <4>1. Points(x, c, R) /\ (t \in threw \/ Covers(x, DOMAIN R \ {rid})) /\ row[c] \notin DOMAIN x.map
        BY <2>6, <2>8, <3>7 DEF State, Trusted, Gone
      <4> HIDE DEF x
      <4>2. \A k \in DOMAIN x.map : x.map[k] # rid
        BY <2>3, <4>1 DEF Points
      <4>3. Points(x, c, Q)
        BY <3>3, <4>1, <4>2 DEF Points, IsWithout
      <4>4. t \in threw \/ Covers(x, DOMAIN Q)
        BY <3>3, <4>1 DEF IsWithout
      <4>5. v.idx[<<t, c>>] = x
        BY <3>5 DEF Moved, x
      <4> QED BY <4>3, <4>4, <4>5
    <3>8. Fine(v, t)
      BY <3>5, <3>6, <3>7 DEF Fine, State, Moved
    <3>9. DOMAIN v.rows = DOMAIN R \ {rid} /\ DOMAIN v.left = DOMAIN L \cup {rid}
      BY <3>3, <3>4, <3>5 DEF IsWith, IsWithout, Moved
    <3> QED BY <3>8, <3>9 DEF v, R, L, Here
  <2> QED BY <2>7, <2>8
<1> QED BY <1>1, <1>2

\* The row that UPDATE writes.
LEMMA SetFacts ==
    ASSUME NEW t \in Tables, NEW set \in Sets(t), NEW old \in RowsOf(t)
    PROVE  /\ DOMAIN set \in SUBSET ColSet(t) /\ Override(set, old) \in RowsOf(t)
           /\ \A c \in ColSet(t) : c \notin DOMAIN set => Override(set, old)[c] = old[c]
<1>1. DOMAIN set \in SUBSET ColSet(t) /\ set \in [DOMAIN set -> Vals]
  BY DEF Sets
<1>2. old \in [ColSet(t) -> Vals]
  BY DEF RowsOf
<1>3. DOMAIN set \cup DOMAIN old = ColSet(t)
  BY <1>1, <1>2
<1>4. Override(set, old) = [x \in ColSet(t) |-> IF x \in DOMAIN set THEN set[x] ELSE old[x]]
  BY <1>3 DEF Override
<1>5. \A x \in ColSet(t) : (IF x \in DOMAIN set THEN set[x] ELSE old[x]) \in Vals
  BY <1>1, <1>2
<1> QED BY <1>1, <1>4, <1>5 DEF RowsOf

LEMMA UpdateOneFacts ==
    ASSUME NEW t \in Tables, NEW set \in Sets(t), NEW w, Fine(w, t), NEW rid, w.thrown \/ Here(w, rid),
           w.thrown \/ t \in astray \/ DOMAIN w.rows = {} \/ rid \in DOMAIN w.rows
    PROVE  /\ Fine(UpdateOne(w, t, rid, set), t)
           /\ \/ UpdateOne(w, t, rid, set).thrown
              \/ /\ DOMAIN UpdateOne(w, t, rid, set).rows = DOMAIN w.rows
                 /\ \A r : Here(w, r) => Here(UpdateOne(w, t, rid, set), r)
<1> DEFINE v == UpdateOne(w, t, rid, set)
           R == w.rows
           L == w.left
           cs == DOMAIN set
           old == get_record(R, L, rid)
           row == Override(set, old)
           d == DeleteAll(w, t, cs, old)
           u == update_record(d, rid, row)
<1>1. CASE w.thrown
  <2>1. v = w
    BY <1>1 DEF UpdateOne
  <2> QED BY <1>1, <2>1
<1>2. CASE ~w.thrown
  <2>1. State(w, t, R, L, rid, {}) /\ w \in Work(t, DOMAIN idx)
    BY AnyRid DEF Fine, State
  <2>2. R \in Partial(Rids(t), RowsOf(t)) /\ L \in Partial(Nat, RowsOf(t))
    BY <2>1 DEF Work
  <2>3. /\ rid \in Nat /\ old \in RowsOf(t)
        /\ rid \in DOMAIN R => rid \in Rids(t) /\ old = R[rid]
    BY <1>2, <2>1, ReadFacts
  <2>4. v = IF d.thrown THEN d ELSE InsertAll(u, t, cs, rid, row)
    BY <1>2 DEF UpdateOne
  <2>5. rid \in DOMAIN R \cup DOMAIN L
    BY <1>2 DEF Here
  <2> HIDE DEF R, L, old, v
  <2>6. /\ cs \in SUBSET ColSet(t) /\ row \in RowsOf(t)
        /\ \A c \in ColSet(t) : c \notin cs => row[c] = old[c]
    BY <2>3, SetFacts
  <2>7. Reads(t, R, rid, old)
    BY <1>2, <2>3 DEF Reads, R
  <2> HIDE DEF cs, row
  <2>8. State(d, t, R, L, rid, cs) /\ Gone(d, t, R, old, cs)
    BY <2>1, <2>6, <2>7, DeleteAllFacts
  <2>9. \A c \in ColSet(t) : row[c] \in Vals
    BY <2>6 DEF RowsOf
  <2> HIDE DEF d
  <2>10. CASE d.thrown
    <3>1. v = d
      BY <2>4, <2>10
    <3> QED BY <2>8, <2>10, <3>1, ThrownFine DEF v
  <2>11. ASSUME ~d.thrown, NEW Q, NEW M, State(u, t, Q, M, rid, cs), DOMAIN Q = DOMAIN R,
                DOMAIN L \subseteq DOMAIN M,
                t \in astray \/ (rid \in DOMAIN Q /\ row = Q[rid]) \/ Dying(u, t, cs)
         PROVE  Fine(v, t) /\ DOMAIN v.rows = DOMAIN R /\ \A r : Here(w, r) => Here(v, r)
    <3> HIDE DEF u
    <3>1. State(InsertAll(u, t, cs, rid, row), t, Q, M, rid, {})
      BY <2>3, <2>6, <2>9, <2>11, InsertAllFacts
    <3>2. State(v, t, Q, M, rid, {})
      BY <2>4, <2>11, <3>1
    <3>3. State(v, t, Q, M, 0, {}) /\ v.rows = Q /\ v.left = M
      BY <3>2, AnyRid
    <3>4. Fine(v, t)
      BY <3>3 DEF Fine
    <3> QED BY <2>11, <3>3, <3>4 DEF Here, R, L
  <2>12. CASE ~d.thrown /\ rid \in DOMAIN R
    <3> DEFINE Q == With(R, rid, row)
    <3>1. d \in Work(t, DOMAIN idx) /\ d.rows = R /\ d.left = L
      BY <2>8 DEF State
    <3>2. u = [d EXCEPT !.rows = Q]
      BY <2>12, <3>1 DEF update_record
    <3>3. Q \in Partial(Rids(t), RowsOf(t)) /\ IsWith(Q, R, rid, row)
      BY <2>2, <2>3, <2>6, <2>12, WithPartial
    <3>4. /\ DOMAIN Q = DOMAIN R /\ rid \in DOMAIN Q /\ row = Q[rid]
          /\ \A r \in DOMAIN R : r # rid => Q[r] = R[r]
      BY <2>12, <3>3 DEF IsWith
    <3> HIDE DEF Q, u
    <3>5. u \in Work(t, DOMAIN idx) /\ Moved(u, d, Q, L)
      BY <2>2, <3>1, <3>2, <3>3, MovedFacts
    <3>6. ASSUME NEW c \in ColSet(t), <<t, c>> \in DOMAIN idx PROVE Trusted(u, t, Q, rid, cs, c)
      <4> DEFINE x == d.idx[<<t, c>>]
                 S == IF c \in cs THEN DOMAIN R \ {rid} ELSE DOMAIN R
      <4> SUFFICES ASSUME t \notin astray
                   PROVE  /\ Points(u.idx[<<t, c>>], c, Q)
                          /\ t \in threw \/ Covers(u.idx[<<t, c>>], IF c \in cs THEN DOMAIN Q \ {rid} ELSE DOMAIN Q)
        BY DEF Trusted
      <4>1. Points(x, c, R) /\ (t \in threw \/ Covers(x, S)) /\ (c \in cs => old[c] \notin DOMAIN x.map)
        BY <2>8, <2>12, <3>6 DEF State, Trusted, Gone
      <4> HIDE DEF x
      <4>2. Points(x, c, Q)
        BY <2>3, <2>6, <2>12, <3>4, <4>1 DEF Points
      <4>3. u.idx[<<t, c>>] = x
        BY <3>5 DEF Moved, x
      <4> QED BY <3>4, <4>1, <4>2, <4>3
    <3>7. State(u, t, Q, L, rid, cs)
      BY <2>8, <3>5, <3>6 DEF State, Moved
    <3> QED BY <2>11, <2>12, <3>4, <3>7 DEF v, R
  <2>13. CASE ~d.thrown /\ rid \notin DOMAIN R
    <3> DEFINE M == With(L, rid, row)
    <3>1. d \in Work(t, DOMAIN idx) /\ d.rows = R /\ d.left = L
      BY <2>8 DEF State
    <3>2. u = [d EXCEPT !.left = M]
      BY <2>13, <3>1 DEF update_record
    <3>3. M \in Partial(Nat, RowsOf(t)) /\ IsWith(M, L, rid, row)
      BY <2>2, <2>3, <2>6, WithPartial
    <3> HIDE DEF M, u
    <3>4. u \in Work(t, DOMAIN idx) /\ Moved(u, d, R, M)
      BY <2>2, <3>1, <3>2, <3>3, MovedFacts
    <3>5. State(u, t, R, M, rid, cs)
      BY <2>8, <3>4 DEF State, Trusted, Moved
    <3>6. t \in astray \/ DOMAIN R = {}
      BY <1>2, <2>13 DEF R
    <3>7. t \in astray \/ Dying(u, t, cs)
      BY <2>8, <3>4, <3>6 DEF Gone, Dying, Moved
    <3>8. DOMAIN L \subseteq DOMAIN M
      BY <3>3 DEF IsWith
    <3> QED BY <2>11, <2>13, <3>5, <3>7, <3>8 DEF v, R
  <2> QED BY <2>10, <2>12, <2>13
<1> QED BY <1>1, <1>2

-----------------------------------------------------------------------------
(* The beginning and the end of a statement                                *)

ExecInv == ExecType /\ EntriesPointAtTheirRows /\ IndexHasEveryRow

LEMMA StartFacts ==
    ASSUME NEW t \in Tables, ExecInv, NEW v, v.left \in Partial(Nat, RowsOf(t))
    PROVE  /\ Fine(Start(t, v), t) /\ Start(t, v) \in Work(t, DOMAIN idx)
           /\ Start(t, v).rows = tab[t] /\ Start(t, v).left = v.left
           /\ Start(t, v).idx = idx /\ ~Start(t, v).thrown
<1> DEFINE w == Start(t, v)
<1>1. w.rows = tab[t] /\ w.left = v.left /\ w.idx = idx /\ w.thrown = FALSE
  BY DEF Start
<1>2. w \in Work(t, DOMAIN idx)
  BY DEF Start, Work, ExecInv, ExecType
<1> HIDE DEF w
<1>3. ASSUME NEW c \in ColSet(t), <<t, c>> \in DOMAIN idx, t \notin astray
      PROVE  Points(idx[<<t, c>>], c, tab[t]) /\ (t \in threw \/ Covers(idx[<<t, c>>], DOMAIN tab[t]))
  <2> DEFINE i == <<t, c>>
  <2>1. i[1] = t /\ i[2] = c /\ i \in DOMAIN idx
    BY <1>3
  <2> HIDE DEF i
  <2>2. Points(idx[i], c, tab[t])
    BY <1>3, <2>1 DEF ExecInv, EntriesPointAtTheirRows, Sound, Points
  <2>3. t \in threw \/ Covers(idx[i], DOMAIN tab[t])
    BY <1>3, <2>1 DEF ExecInv, IndexHasEveryRow, Covers, Complete
  <2> QED BY <2>2, <2>3 DEF i
<1>4. Fine(w, t)
  BY <1>1, <1>2, <1>3 DEF Fine, State, Trusted
<1> QED BY <1>1, <1>2, <1>4 DEF w

LEMMA FinishFacts ==
    ASSUME NEW t \in Tables, ExecInv, NEW w, Fine(w, t), Finish(t, w)
    PROVE  ExecInv'
<1>1. /\ w \in Work(t, DOMAIN idx) /\ w.rows \in Partial(Rids(t), RowsOf(t))
      /\ w.idx \in [DOMAIN idx -> Indexes]
  BY DEF Fine, State, Work
<1>2. /\ tab' = [tab EXCEPT ![t] = w.rows] /\ idx' = w.idx /\ threw \subseteq threw'
      /\ (w.thrown => t \in threw') /\ astray' = astray
  BY DEF Finish
<1>3. DOMAIN idx' = DOMAIN idx /\ DOMAIN idx \subseteq Ids
  BY <1>1, <1>2 DEF ExecInv, ExecType
<1>4. tab'[t] = w.rows /\ \A s \in Tables : s # t => tab'[s] = tab[s]
  BY <1>2 DEF ExecInv, ExecType
<1>5. ExecType'
  <2>1. tab' = [s \in Tables |-> tab'[s]]
    BY <1>2 DEF ExecInv, ExecType
  <2>2. \A s \in Tables : tab'[s] \in Partial(Rids(s), RowsOf(s))
    BY <1>1, <1>4 DEF ExecInv, ExecType
  <2> QED BY <1>1, <1>2, <1>3, <2>1, <2>2 DEF ExecType
<1>6. ASSUME NEW i \in DOMAIN idx, i[1] \notin astray
      PROVE  /\ \A k \in DOMAIN w.idx[i].map :
                   w.idx[i].map[k] \in DOMAIN tab'[i[1]] /\ tab'[i[1]][w.idx[i].map[k]][i[2]] = k
             /\ \/ w.idx[i].dead \/ w.idx[i].refused \/ i[1] \in threw'
                \/ ~w.idx[i].dead /\ Range(w.idx[i].map) = DOMAIN tab'[i[1]]
  <2>1. i = <<i[1], i[2]>> /\ i[1] \in Tables /\ i[2] \in ColSet(i[1])
    BY <1>3, IdFacts
  <2>2. CASE i[1] # t
    <3>1. w.idx[i] = idx[i] /\ tab'[i[1]] = tab[i[1]]
      BY <1>4, <2>1, <2>2 DEF Fine, State
    <3> QED BY <1>2, <1>6, <3>1 DEF ExecInv, EntriesPointAtTheirRows, Sound, IndexHasEveryRow, Complete
  <2>3. CASE i[1] = t
    <3> DEFINE c == i[2]
    <3>1. i = <<t, c>> /\ c \in ColSet(t)
      BY <2>1, <2>3
    <3> HIDE DEF c
    <3>2. Points(w.idx[i], c, w.rows) /\ (w.thrown \/ t \in threw \/ Covers(w.idx[i], DOMAIN w.rows))
      BY <1>6, <2>3, <3>1 DEF Fine, State, Trusted
    <3>3. i[2] = c
      BY DEF c
    <3> QED BY <1>2, <1>4, <2>3, <3>2, <3>3 DEF Points, Covers
  <2> QED BY <2>2, <2>3
<1>7. EntriesPointAtTheirRows'
  BY <1>2, <1>3, <1>6 DEF EntriesPointAtTheirRows, Sound
<1>8. IndexHasEveryRow'
  BY <1>2, <1>3, <1>6 DEF IndexHasEveryRow, Complete
<1> QED BY <1>5, <1>7, <1>8 DEF ExecInv

-----------------------------------------------------------------------------
(* Scans                                                                   *)

\* The positions that a scan with view v returns: different records of t, unless t
\* is astray or has no records.
IsScan(rids, v, t) ==
    /\ Len(rids) \in Nat
    /\ \A n \in 1 .. Len(rids) : rids[n] \in DOMAIN tab[t] \cup DOMAIN v.left
    /\ \/ t \in astray \/ DOMAIN tab[t] = {}
       \/ /\ \A n \in 1 .. Len(rids) : rids[n] \in DOMAIN tab[t]
          /\ \A m, n \in 1 .. Len(rids) : rids[m] = rids[n] => m = n

LEMMA LenOfFunction ==
    ASSUME NEW S, NEW n \in Nat, NEW q \in [1 .. n -> S]
    PROVE  Len(q) = n
<1>1. q \in Seq(S) /\ DOMAIN q = 1 .. n
  BY SeqDef
<1>2. Len(q) \in Nat /\ DOMAIN q = 1 .. Len(q)
  BY <1>1, LenProperties
<1> QED BY <1>1, <1>2

LEMMA FiniteTable ==
    ASSUME NEW t \in Tables, ExecInv
    PROVE  IsFiniteSet(DOMAIN tab[t]) /\ DOMAIN tab[t] \subseteq Nat
<1>1. tab[t] \in Partial(Rids(t), RowsOf(t))
  BY DEF ExecInv, ExecType
<1>2. DOMAIN tab[t] \subseteq Rids(t)
  BY <1>1, PartialFacts
<1>3. IsFiniteSet(Rids(t)) /\ Rids(t) \subseteq Nat
  <2>1. SlotsOf[t] \in Int /\ SlotsOf[t] \in Nat
    BY ExecutorsAssumption
  <2>2. IsFiniteSet(1 .. SlotsOf[t])
    BY <2>1, FS_Interval
  <2> QED BY <2>1, <2>2 DEF Rids
<1> QED BY <1>2, <1>3, FS_Subset

LEMMA EntryFacts ==
    ASSUME NEW t \in Tables, ExecInv, NEW c, <<t, c>> \in DOMAIN idx
    PROVE  /\ c \in ColSet(t)
           /\ idx[<<t, c>>].map \in Partial(Vals, Nat) /\ IsFiniteSet(DOMAIN idx[<<t, c>>].map)
           /\ \A k \in DOMAIN idx[<<t, c>>].map : idx[<<t, c>>].map[k] \in Led(t)
           /\ t \in astray \/ Points(idx[<<t, c>>], c, tab[t])
<1> DEFINE i == <<t, c>>
<1>1. i[1] = t /\ i[2] = c /\ i \in DOMAIN idx
  OBVIOUS
<1> HIDE DEF i
<1>2. c \in ColSet(t)
  BY <1>1, IdFacts DEF ExecInv, ExecType
<1>3. idx[i] \in Indexes
  BY <1>1 DEF ExecInv, ExecType
<1>4. idx[i].map \in Partial(Vals, Nat) /\ IsFiniteSet(DOMAIN idx[i].map)
  BY <1>3, IndexFacts
<1>5. \A k \in DOMAIN idx[i].map : idx[i].map[k] \in Led(t)
  BY <1>1 DEF Led, Range
<1>6. t \in astray \/ Points(idx[i], c, tab[t])
  BY <1>1 DEF ExecInv, EntriesPointAtTheirRows, Sound, Points
<1> QED BY <1>2, <1>4, <1>5, <1>6 DEF i

LEMMA ViewFacts ==
    ASSUME NEW t \in Tables, ExecInv, NEW v \in Views(t)
    PROVE  /\ v.left \in Partial(Nat, RowsOf(t))
           /\ IsFiniteSet(v.scan) /\ v.scan \subseteq Nat
           /\ v.scan \cup Led(t) \subseteq DOMAIN tab[t] \cup DOMAIN v.left
           /\ DOMAIN tab[t] # {} => v.scan = DOMAIN tab[t]
<1>1. PICK S \in Scanned(t) : v \in [scan : {S}, left : [(S \cup Led(t)) \ DOMAIN tab[t] -> RowsOf(t)]]
  BY DEF Views
<1>2. v.scan = S /\ v.left \in [(S \cup Led(t)) \ DOMAIN tab[t] -> RowsOf(t)]
  BY <1>1
<1>3. IsFiniteSet(S) /\ S \subseteq Nat /\ (DOMAIN tab[t] # {} => S = DOMAIN tab[t])
  <2>1. CASE DOMAIN tab[t] # {}
    BY <2>1, FiniteTable DEF Scanned
  <2>2. CASE DOMAIN tab[t] = {}
    <3>1. PICK g \in Positions(t) \cup {0} : S = {g}
      BY <2>2 DEF Scanned
    <3>2. g \in Nat
      BY ExecutorsAssumption DEF Positions
    <3> QED BY <2>2, <3>1, <3>2, FS_Singleton
  <2> QED BY <2>1, <2>2
<1>4. Led(t) \subseteq Nat
  <2> SUFFICES ASSUME NEW i \in DOMAIN idx, NEW k \in DOMAIN idx[i].map PROVE idx[i].map[k] \in Nat
    BY DEF Led, Range
  <2>1. idx[i].map \in Partial(Vals, Nat)
    BY IndexFacts DEF ExecInv, ExecType
  <2> QED BY <2>1, PartialFacts
<1>5. v.left \in Partial(Nat, RowsOf(t))
  <2> DEFINE X == (S \cup Led(t)) \ DOMAIN tab[t]
  <2>1. X \in SUBSET Nat /\ v.left \in [X -> RowsOf(t)]
    BY <1>2, <1>3, <1>4
  <2> HIDE DEF X
  <2> QED BY <2>1, PartialType
<1> QED BY <1>2, <1>3, <1>5

LEMMA SeqScan ==
    ASSUME NEW t \in Tables, ExecInv, NEW v \in Views(t), NEW conds
    PROVE  IsScan(SeqOrder(v, t, conds), v, t)
<1> DEFINE S == {r \in v.scan : eval_conds(conds, get_record(tab[t], v.left, r))}
           q == Sorted(S)
<1>1. S \subseteq v.scan
  OBVIOUS
<1>2. SeqOrder(v, t, conds) = q
  BY DEF SeqOrder
<1> HIDE DEF S
<1>3. IsFiniteSet(S) /\ S \subseteq Int
  BY <1>1, ViewFacts, FS_Subset
<1>4. /\ Cardinality(S) \in Nat /\ q \in [1 .. Cardinality(S) -> S]
      /\ \A i, j \in 1 .. Cardinality(S) : q[i] = q[j] => i = j
  BY <1>3, SortedFacts
<1> HIDE DEF q
<1>5. Len(q) = Cardinality(S)
  BY <1>4, LenOfFunction
<1>6. S \subseteq DOMAIN tab[t] \cup DOMAIN v.left /\ (DOMAIN tab[t] # {} => S \subseteq DOMAIN tab[t])
  BY <1>1, ViewFacts
<1>7. IsScan(q, v, t)
  BY <1>4, <1>5, <1>6 DEF IsScan
<1> QED BY <1>2, <1>7

LEMMA MinIsLeast ==
    ASSUME NEW S, S \subseteq Nat, S # {}
    PROVE  Min(S) \in S
<1>1. \E x \in S : \A y \in S : x <= y
  BY LeastNatural
<1> QED BY <1>1 DEF Min

LEMMA IndexScan ==
    ASSUME NEW t \in Tables, ExecInv, NEW v \in Views(t), NEW c, <<t, c>> \in DOMAIN idx, NEW conds
    PROVE  IsScan(IndexOrder(v, t, c, conds), v, t)
<1> DEFINE on == Bounding(c, conds)
           map == idx[<<t, c>>].map
           keys == {k \in DOMAIN map : /\ on = {} \/ InRange(k, conds[Min(on)])
                                       /\ eval_conds(conds, get_record(tab[t], v.left, map[k]))}
           q == Sorted(keys)
           N == Cardinality(keys)
           rids == [i \in 1 .. N |-> map[q[i]]]
           R == tab[t]
<1>1. IndexOrder(v, t, c, conds) = rids
  BY DEF IndexOrder
<1>2. keys \subseteq DOMAIN map
  OBVIOUS
<1>3. /\ map \in Partial(Vals, Nat) /\ IsFiniteSet(DOMAIN map)
      /\ \A k \in DOMAIN map : map[k] \in Led(t)
      /\ t \in astray \/ \A k \in DOMAIN map : map[k] \in DOMAIN R /\ R[map[k]][c] = k
  BY EntryFacts DEF Points
<1> HIDE DEF keys, map, R
<1>4. DOMAIN map \subseteq Int
  BY <1>3, PartialFacts, ExecutorsAssumption
<1>5. IsFiniteSet(keys) /\ keys \subseteq Int
  BY <1>2, <1>3, <1>4, FS_Subset
<1>6. /\ N \in Nat /\ q \in [1 .. N -> keys]
      /\ \A i, j \in 1 .. N : q[i] = q[j] => i = j
  BY <1>5, SortedFacts
<1> HIDE DEF q, N
<1>7. \A i \in 1 .. N : q[i] \in DOMAIN map /\ rids[i] = map[q[i]]
  BY <1>2, <1>6
<1>8. rids \in [1 .. N -> Led(t)]
  BY <1>3, <1>7
<1>9. Len(rids) = N
  BY <1>6, <1>8, LenOfFunction
<1>10. \A i \in 1 .. N : rids[i] \in DOMAIN R \cup DOMAIN v.left
  BY <1>8, ViewFacts DEF R
<1> HIDE DEF rids
<1>11. t \in astray \/ \A i \in 1 .. N : rids[i] \in DOMAIN R /\ R[rids[i]][c] = q[i]
  BY <1>3, <1>7
<1>12. IsScan(rids, v, t)
  BY <1>6, <1>9, <1>10, <1>11 DEF IsScan, R
<1> QED BY <1>1, <1>12

LEMMA FoundFacts ==
    ASSUME NEW t \in Tables, ExecInv, NEW v \in Views(t), NEW conds \in Wheres(t)
    PROVE  IsScan(Found(v, t, conds), v, t)
<1> DEFINE u == get_indexNo(t, conds)
           S == IndexConds(t, conds)
<1>1. Found(v, t, conds) = IF u = "none" THEN SeqOrder(v, t, conds) ELSE IndexOrder(v, t, u, conds)
  BY DEF Found, ScanRids
<1>2. CASE u = "none"
  BY <1>1, <1>2, SeqScan
<1>3. CASE u # "none"
  <2>1. S # {} /\ u = conds[Min(S)].lhs.col
    BY <1>3 DEF get_indexNo
  <2>2. DOMAIN conds \subseteq Nat
    BY ExecutorsAssumption DEF Wheres
  <2>3. S \subseteq DOMAIN conds /\ \A i \in S : Usable(t, conds[i])
    BY DEF IndexConds
  <2> HIDE DEF S, u
  <2>4. Min(S) \in S
    BY <2>1, <2>2, <2>3, MinIsLeast
  <2>5. <<t, u>> \in DOMAIN idx
    BY <2>1, <2>3, <2>4 DEF Usable
  <2> QED BY <1>1, <1>3, <2>5, IndexScan
<1> QED BY <1>2, <1>3

-----------------------------------------------------------------------------
(* DELETE, UPDATE, INSERT                                                  *)

\* The rest of the positions, from number n on, can be read, and if there are
\* records they are different records.
Ahead(x, t, rids, n) ==
    \/ x.thrown
    \/ /\ \A m \in n .. Len(rids) : Here(x, rids[m])
       /\ \/ t \in astray \/ DOMAIN x.rows = {}
          \/ /\ \A m \in n .. Len(rids) : rids[m] \in DOMAIN x.rows
             /\ \A l, m \in n .. Len(rids) : rids[l] = rids[m] => l = m

LEMMA StartAhead ==
    ASSUME NEW t \in Tables, ExecInv, NEW v \in Views(t), NEW rids, IsScan(rids, v, t)
    PROVE  Fine(Start(t, v), t) /\ Ahead(Start(t, v), t, rids, 1)
<1> DEFINE w == Start(t, v)
<1>1. v.left \in Partial(Nat, RowsOf(t))
  BY ViewFacts
<1>2. Fine(w, t) /\ w.rows = tab[t] /\ w.left = v.left
  BY <1>1, StartFacts
<1> HIDE DEF w
<1>3. Ahead(w, t, rids, 1)
  BY <1>2 DEF Ahead, IsScan, Here
<1> QED BY <1>2, <1>3 DEF w

\* What a turn needs, and what it leaves for the next one.
LEMMA AheadFacts ==
    ASSUME NEW t, NEW rids, Len(rids) \in Nat, NEW n \in 1 .. Len(rids), NEW x, Ahead(x, t, rids, n)
    PROVE  /\ x.thrown \/ Here(x, rids[n])
           /\ x.thrown \/ t \in astray \/ DOMAIN x.rows = {} \/ rids[n] \in DOMAIN x.rows
           /\ \A y : \/ y.thrown
                     \/ /\ ~x.thrown /\ \A r : Here(x, r) => Here(y, r)
                        /\ DOMAIN y.rows = DOMAIN x.rows \/ DOMAIN y.rows = DOMAIN x.rows \ {rids[n]}
                     => Ahead(y, t, rids, n + 1)
<1> DEFINE N == Len(rids)
<1>1. n \in n .. N /\ \A m \in n + 1 .. N : m \in n .. N /\ m # n
  OBVIOUS
<1>2. /\ x.thrown \/ Here(x, rids[n])
      /\ x.thrown \/ t \in astray \/ DOMAIN x.rows = {} \/ rids[n] \in DOMAIN x.rows
  BY <1>1 DEF Ahead
<1>3. ASSUME NEW y, ~y.thrown, ~x.thrown, \A r : Here(x, r) => Here(y, r),
             DOMAIN y.rows = DOMAIN x.rows \/ DOMAIN y.rows = DOMAIN x.rows \ {rids[n]}
      PROVE  Ahead(y, t, rids, n + 1)
  <2>1. \A m \in n + 1 .. N : Here(y, rids[m])
    BY <1>1, <1>3 DEF Ahead
  <2>2. CASE t \in astray \/ DOMAIN x.rows = {}
    BY <1>3, <2>1, <2>2 DEF Ahead
  <2>3. CASE /\ \A m \in n .. N : rids[m] \in DOMAIN x.rows
             /\ \A l, m \in n .. N : rids[l] = rids[m] => l = m
    <3>1. ASSUME NEW m \in n + 1 .. N PROVE rids[m] \in DOMAIN y.rows
      BY <1>1, <1>3, <2>3
    <3>2. \A l, m \in n + 1 .. N : rids[l] = rids[m] => l = m
      BY <1>1, <2>3
    <3> QED BY <2>1, <3>1, <3>2 DEF Ahead
  <2> QED BY <1>3, <2>2, <2>3 DEF Ahead
<1> QED BY <1>2, <1>3 DEF Ahead


LEMMA DeleteRidsFacts ==
    ASSUME NEW t \in Tables, ExecInv, NEW v \in Views(t), NEW rids, IsScan(rids, v, t)
    PROVE  Fine(DeleteRids(v, t, rids), t)
<1> DEFINE N == Len(rids)
           w == Start(t, v)
           Turn(x, n) == DeleteOne(x, t, rids[n])
           Ok(x, n) == Fine(x, t) /\ Ahead(x, t, rids, n + 1)
           Wk == Work(t, DOMAIN idx)
           W == [n \in 0 .. N |-> {x \in Wk : Ok(x, n)}]
           G == [n \in 1 .. N |-> [x \in Wk |-> Turn(x, n)]]
<1>1. N \in Nat
  BY DEF IsScan
<1>2. ASSUME NEW n \in 1 .. N, NEW x, Ok(x, n - 1) PROVE Ok(Turn(x, n), n)
  <2> DEFINE y == DeleteOne(x, t, rids[n])
  <2>1. Fine(x, t) /\ Ahead(x, t, rids, n)
    <3>1. (n - 1) + 1 = n
      OBVIOUS
    <3> QED BY <1>2, <3>1
  <2>2. /\ x.thrown \/ Here(x, rids[n])
        /\ x.thrown \/ t \in astray \/ DOMAIN x.rows = {} \/ rids[n] \in DOMAIN x.rows
    BY <1>1, <2>1, AheadFacts
  <2>3. /\ Fine(y, t)
        /\ \/ y.thrown
           \/ DOMAIN y.rows = DOMAIN x.rows \ {rids[n]} /\ \A r : Here(x, r) => Here(y, r)
    BY <2>1, <2>2, DeleteOneFacts
  <2>4. x.thrown => y = x
    BY DEF DeleteOne
  <2> HIDE DEF y
  <2>5. Ahead(y, t, rids, n + 1)
    BY <1>1, <2>1, <2>3, <2>4, AheadFacts
  <2> QED BY <2>3, <2>5 DEF y
<1>3. Ok(w, 0)
  <2>1. 0 + 1 = 1
    OBVIOUS
  <2> QED BY <2>1, StartAhead
<1>4. \A x, n : Ok(x, n) => x \in Wk
  BY DEF Fine, State
<1>5. w \in W[0] /\ \A n \in 1 .. N : \A x \in W[n - 1] : G[n][x] \in W[n]
  <2> HIDE DEF Ok, Wk, Turn
  <2>1. w \in W[0]
    BY <1>1, <1>3, <1>4
  <2>2. ASSUME NEW n \in 1 .. N, NEW x \in W[n - 1] PROVE G[n][x] \in W[n]
    <3>1. x \in Wk /\ Ok(x, n - 1)
      BY <1>1
    <3>2. G[n][x] = Turn(x, n)
      BY <3>1
    <3>3. Ok(Turn(x, n), n)
      BY <1>2, <3>1
    <3> QED BY <1>1, <1>4, <3>2, <3>3
  <2> QED BY <2>1, <2>2
<1>6. \E f : f = [n \in 0 .. N |-> IF n = 0 THEN w ELSE Turn(f[n - 1], n)]
  <2>1. PICK f : IsLoop(f, N, w, G) /\ \A n \in 0 .. N : f[n] \in W[n]
    <3> HIDE DEF W, G, N
    <3> QED BY <1>1, <1>5, LoopExists
  <2> HIDE DEF Ok, Wk, Turn
  <2>2. ASSUME NEW n \in 0 .. N, n # 0 PROVE G[n][f[n - 1]] = Turn(f[n - 1], n)
    <3>1. n \in 1 .. N /\ n - 1 \in 0 .. N
      BY <1>1, <2>2
    <3>2. f[n - 1] \in Wk
      BY <2>1, <3>1
    <3> QED BY <3>1, <3>2
  <2> HIDE DEF W, G, N
  <2> QED BY <2>1, <2>2 DEF IsLoop
<1> DEFINE after == CHOOSE f : f = [n \in 0 .. N |-> IF n = 0 THEN w ELSE Turn(f[n - 1], n)]
<1>7. DeleteRids(v, t, rids) = after[N]
  BY DEF DeleteRids
<1>8. after = [n \in 0 .. N |-> IF n = 0 THEN w ELSE Turn(after[n - 1], n)]
  <2> HIDE DEF Turn, N
  <2> QED BY <1>6
<1> HIDE DEF after
<1>9. after[0] \in W[0] /\ \A n \in 1 .. N : after[n - 1] \in W[n - 1] => after[n] \in W[n]
  <2> HIDE DEF Turn, Ok, Wk
  <2>1. after[0] = w
    BY <1>1, <1>8
  <2>2. ASSUME NEW n \in 1 .. N, after[n - 1] \in W[n - 1] PROVE after[n] \in W[n]
    <3>1. n \in 0 .. N /\ n - 1 \in 0 .. N /\ n # 0
      BY <1>1
    <3>2. after[n] = Turn(after[n - 1], n)
      BY <1>8, <3>1
    <3>3. Ok(after[n - 1], n - 1)
      BY <2>2, <3>1
    <3>4. Ok(after[n], n)
      BY <1>2, <3>2, <3>3
    <3> QED BY <1>4, <3>1, <3>4
  <2> QED BY <1>5, <2>1, <2>2
<1>10. after[N] \in W[N]
  <2> HIDE DEF W, N
  <2>1. \A n \in 0 .. N : after[n] \in W[n]
    BY <1>1, <1>9, LoopInvariant
  <2> QED BY <1>1, <2>1
<1>11. Ok(after[N], N)
  <2> HIDE DEF Ok, Wk
  <2> QED BY <1>1, <1>10
<1> QED BY <1>7, <1>11

LEMMA UpdateRidsFacts ==
    ASSUME NEW t \in Tables, ExecInv, NEW set \in Sets(t), NEW v \in Views(t), NEW rids, IsScan(rids, v, t)
    PROVE  Fine(UpdateRids(v, t, rids, set), t)
<1> DEFINE N == Len(rids)
           w == Start(t, v)
           Turn(x, n) == UpdateOne(x, t, rids[n], set)
           Ok(x, n) == Fine(x, t) /\ Ahead(x, t, rids, n + 1)
           Wk == Work(t, DOMAIN idx)
           W == [n \in 0 .. N |-> {x \in Wk : Ok(x, n)}]
           G == [n \in 1 .. N |-> [x \in Wk |-> Turn(x, n)]]
<1>1. N \in Nat
  BY DEF IsScan
<1>2. ASSUME NEW n \in 1 .. N, NEW x, Ok(x, n - 1) PROVE Ok(Turn(x, n), n)
  <2> DEFINE y == UpdateOne(x, t, rids[n], set)
  <2>1. Fine(x, t) /\ Ahead(x, t, rids, n)
    <3>1. (n - 1) + 1 = n
      OBVIOUS
    <3> QED BY <1>2, <3>1
  <2>2. /\ x.thrown \/ Here(x, rids[n])
        /\ x.thrown \/ t \in astray \/ DOMAIN x.rows = {} \/ rids[n] \in DOMAIN x.rows
    BY <1>1, <2>1, AheadFacts
  <2>3. /\ Fine(y, t)
        /\ y.thrown \/ (DOMAIN y.rows = DOMAIN x.rows /\ \A r : Here(x, r) => Here(y, r))
    BY <2>1, <2>2, UpdateOneFacts
  <2>4. x.thrown => y = x
    BY DEF UpdateOne
  <2> HIDE DEF y
  <2>5. Ahead(y, t, rids, n + 1)
    BY <1>1, <2>1, <2>3, <2>4, AheadFacts
  <2> QED BY <2>3, <2>5 DEF y
<1>3. Ok(w, 0)
  <2>1. 0 + 1 = 1
    OBVIOUS
  <2> QED BY <2>1, StartAhead
<1>4. \A x, n : Ok(x, n) => x \in Wk
  BY DEF Fine, State
<1>5. w \in W[0] /\ \A n \in 1 .. N : \A x \in W[n - 1] : G[n][x] \in W[n]
  <2> HIDE DEF Ok, Wk, Turn
  <2>1. w \in W[0]
    BY <1>1, <1>3, <1>4
  <2>2. ASSUME NEW n \in 1 .. N, NEW x \in W[n - 1] PROVE G[n][x] \in W[n]
    <3>1. x \in Wk /\ Ok(x, n - 1)
      BY <1>1
    <3>2. G[n][x] = Turn(x, n)
      BY <3>1
    <3>3. Ok(Turn(x, n), n)
      BY <1>2, <3>1
    <3> QED BY <1>1, <1>4, <3>2, <3>3
  <2> QED BY <2>1, <2>2
<1>6. \E f : f = [n \in 0 .. N |-> IF n = 0 THEN w ELSE Turn(f[n - 1], n)]
  <2>1. PICK f : IsLoop(f, N, w, G) /\ \A n \in 0 .. N : f[n] \in W[n]
    <3> HIDE DEF W, G, N
    <3> QED BY <1>1, <1>5, LoopExists
  <2> HIDE DEF Ok, Wk, Turn
  <2>2. ASSUME NEW n \in 0 .. N, n # 0 PROVE G[n][f[n - 1]] = Turn(f[n - 1], n)
    <3>1. n \in 1 .. N /\ n - 1 \in 0 .. N
      BY <1>1, <2>2
    <3>2. f[n - 1] \in Wk
      BY <2>1, <3>1
    <3> QED BY <3>1, <3>2
  <2> HIDE DEF W, G, N
  <2> QED BY <2>1, <2>2 DEF IsLoop
<1> DEFINE after == CHOOSE f : f = [n \in 0 .. N |-> IF n = 0 THEN w ELSE Turn(f[n - 1], n)]
<1>7. UpdateRids(v, t, rids, set) = after[N]
  BY DEF UpdateRids
<1>8. after = [n \in 0 .. N |-> IF n = 0 THEN w ELSE Turn(after[n - 1], n)]
  <2> HIDE DEF Turn, N
  <2> QED BY <1>6
<1> HIDE DEF after
<1>9. after[0] \in W[0] /\ \A n \in 1 .. N : after[n - 1] \in W[n - 1] => after[n] \in W[n]
  <2> HIDE DEF Turn, Ok, Wk
  <2>1. after[0] = w
    BY <1>1, <1>8
  <2>2. ASSUME NEW n \in 1 .. N, after[n - 1] \in W[n - 1] PROVE after[n] \in W[n]
    <3>1. n \in 0 .. N /\ n - 1 \in 0 .. N /\ n # 0
      BY <1>1
    <3>2. after[n] = Turn(after[n - 1], n)
      BY <1>8, <3>1
    <3>3. Ok(after[n - 1], n - 1)
      BY <2>2, <3>1
    <3>4. Ok(after[n], n)
      BY <1>2, <3>2, <3>3
    <3> QED BY <1>4, <3>1, <3>4
  <2> QED BY <1>5, <2>1, <2>2
<1>10. after[N] \in W[N]
  <2> HIDE DEF W, N
  <2>1. \A n \in 0 .. N : after[n] \in W[n]
    BY <1>1, <1>9, LoopInvariant
  <2> QED BY <1>1, <2>1
<1>11. Ok(after[N], N)
  <2> HIDE DEF Ok, Wk
  <2> QED BY <1>1, <1>10
<1> QED BY <1>7, <1>11

LEMMA EmptyMap ==
    ASSUME NEW S, NEW T
    PROVE  <<>> \in Partial(S, T) /\ DOMAIN <<>> = {} /\ Range(<<>>) = {}
<1>1. DOMAIN <<>> = {} /\ <<>> \in [{} -> T]
  OBVIOUS
<1>2. <<>> \in Partial(S, T)
  BY <1>1, PartialType
<1> QED BY <1>1, <1>2 DEF Range

LEMMA InsertKeeps ==
    ASSUME NEW t \in Tables, ExecInv, NEW row \in RowsOf(t), insert_into(t, row)
    PROVE  ExecInv'
<1> DEFINE R == tab[t]
           L == <<>>
           rid == Min(Rids(t) \ DOMAIN R)
           s == Start(t, [left |-> L])
           Q == With(R, rid, row)
           w == [s EXCEPT !.rows = Q]
           v == InsertAll(w, t, ColSet(t), rid, row)
<1>1. R \in Partial(Rids(t), RowsOf(t)) /\ L \in Partial(Nat, RowsOf(t))
  BY EmptyMap DEF ExecInv, ExecType
<1>2. /\ Fine(s, t) /\ s \in Work(t, DOMAIN idx) /\ s.rows = R /\ s.left = L
      /\ s.idx = idx /\ ~s.thrown
  <2> DEFINE b == [left |-> L]
  <2>1. b.left = L
    OBVIOUS
  <2> HIDE DEF b, L
  <2>2. /\ Fine(Start(t, b), t) /\ Start(t, b) \in Work(t, DOMAIN idx) /\ Start(t, b).rows = R
        /\ Start(t, b).left = L /\ Start(t, b).idx = idx /\ ~Start(t, b).thrown
    BY <1>1, <2>1, StartFacts
  <2> QED BY <2>2 DEF b
<1>3. Finish(t, v)
  <2>1. [s EXCEPT !.rows = With(@, rid, row)] = w
    BY <1>2
  <2>2. Finish(t, InsertAll([s EXCEPT !.rows = With(@, rid, row)], t, ColSet(t), rid, row))
    BY DEF insert_into
  <2> QED BY <2>1, <2>2
<1>4. rid \in Rids(t) \ DOMAIN R /\ rid \in Nat
  <2>1. DOMAIN R \subseteq Rids(t) /\ Rids(t) # DOMAIN R
    BY <1>1, PartialFacts DEF insert_into
  <2>2. Rids(t) \subseteq Nat
    BY ExecutorsAssumption DEF Rids
  <2> DEFINE S == Rids(t) \ DOMAIN R
  <2>3. S \subseteq Nat /\ S # {}
    BY <2>1, <2>2
  <2> HIDE DEF S
  <2>4. Min(S) \in S
    BY <2>3, MinIsLeast
  <2> QED BY <2>2, <2>4 DEF S
<1> HIDE DEF R, L, rid, s
<1>5. Q \in Partial(Rids(t), RowsOf(t)) /\ IsWith(Q, R, rid, row)
  BY <1>1, <1>4, WithPartial
<1> HIDE DEF Q
<1>6. w \in Work(t, DOMAIN idx) /\ Moved(w, s, Q, L)
  BY <1>1, <1>2, <1>5, MovedFacts
<1> HIDE DEF w
<1>7. row = Q[rid] /\ rid \in DOMAIN Q /\ DOMAIN Q \ {rid} = DOMAIN R
  BY <1>4, <1>5 DEF IsWith
<1>8. ASSUME NEW c \in ColSet(t), <<t, c>> \in DOMAIN idx PROVE Trusted(w, t, Q, rid, ColSet(t), c)
  <2> DEFINE x == s.idx[<<t, c>>]
  <2> SUFFICES ASSUME t \notin astray
               PROVE  /\ Points(w.idx[<<t, c>>], c, Q)
                      /\ t \in threw \/ Covers(w.idx[<<t, c>>], DOMAIN Q \ {rid})
    BY DEF Trusted
  <2>1. Points(x, c, R) /\ (t \in threw \/ Covers(x, DOMAIN R))
    BY <1>2, <1>8 DEF Fine, State, Trusted
  <2> HIDE DEF x
  <2>2. Points(x, c, Q)
    BY <1>4, <1>5, <2>1 DEF Points, IsWith
  <2>3. w.idx[<<t, c>>] = x
    BY <1>6 DEF Moved, x
  <2> QED BY <1>7, <2>1, <2>2, <2>3
<1>9. State(w, t, Q, L, rid, ColSet(t))
  BY <1>2, <1>6, <1>8 DEF State, Fine, Moved
<1>10. \A c \in ColSet(t) : row[c] \in Vals
  BY DEF RowsOf
<1>11. State(v, t, Q, L, rid, {})
  <2>1. ColSet(t) \in SUBSET ColSet(t)
    OBVIOUS
  <2> QED BY <1>4, <1>7, <1>9, <1>10, <2>1, InsertAllFacts
<1> HIDE DEF v
<1>12. State(v, t, Q, L, 0, {}) /\ v.rows = Q /\ v.left = L
  BY <1>11, AnyRid
<1>13. Fine(v, t)
  BY <1>12 DEF Fine
<1> QED BY <1>3, <1>13, FinishFacts

-----------------------------------------------------------------------------
(* CREATE INDEX and DROP INDEX                                             *)

\* A new index, when entries for the positions in S are in it.
Grown(x, t, c, S) ==
    /\ x \in Work(t, DOMAIN idx \cup {<<t, c>>}) /\ ~x.thrown
    /\ \A i \in DOMAIN idx : i # <<t, c>> => x.idx[i] = idx[i]
    /\ ~x.idx[<<t, c>>].dead
    /\ DOMAIN tab[t] = {} \/ (Points(x.idx[<<t, c>>], c, tab[t]) /\ Covers(x.idx[<<t, c>>], S))

LEMMA GrowTurn ==
    ASSUME NEW t \in Tables, NEW c \in ColSet(t), NEW rid \in Nat, NEW row \in RowsOf(t), NEW x, NEW S,
           Grown(x, t, c, S), DOMAIN tab[t] = {} \/ (rid \in DOMAIN tab[t] /\ row = tab[t][rid])
    PROVE  Grown(insert_entry(x, <<t, c>>, row[c], rid), t, c, S \cup {rid})
<1> DEFINE i == <<t, c>>
           k == row[c]
           I == DOMAIN idx \cup {i}
           v == insert_entry(x, i, k, rid)
           z == x.idx[i]
           y == Inserted(z, k, rid)
           R == tab[t]
<1>1. x \in Work(t, I) /\ z \in Indexes /\ DOMAIN x.idx = I /\ ~x.thrown /\ ~z.dead
  BY DEF Grown, Work
<1>2. v = SetIndex(x, i, y)
  BY <1>1, InsertForm
<1>3. k \in Vals
  BY DEF RowsOf
<1>4. y \in Indexes /\ ~y.dead
  BY <1>1, <1>3, InsertedFacts
<1>5. DOMAIN R = {} \/ (Points(y, c, R) /\ Covers(y, S \cup {rid}))
  <2> SUFFICES ASSUME DOMAIN R # {} PROVE Points(y, c, R) /\ Covers(y, S \cup {rid})
    OBVIOUS
  <2>1. rid \in DOMAIN R /\ k = R[rid][c] /\ Points(z, c, R) /\ Covers(z, S)
    BY DEF Grown
  <2> HIDE DEF z, R, k
  <2>2. /\ Points(Inserted(z, R[rid][c], rid), c, R)
        /\ Covers(Inserted(z, R[rid][c], rid), S \cup {rid})
    BY <1>1, <1>3, <2>1, InsertedPoints
  <2> QED BY <2>1, <2>2
<1> HIDE DEF y
<1>6. v \in Work(t, I) /\ Changed(v, x, i, y)
  <2>1. i \in I
    OBVIOUS
  <2> HIDE DEF i, I, v
  <2>2. SetIndex(x, i, y) \in Work(t, I) /\ Changed(SetIndex(x, i, y), x, i, y)
    BY <1>1, <1>4, <2>1, SetIndexFacts
  <2> QED BY <1>2, <2>2
<1> HIDE DEF v
<1>7. Grown(v, t, c, S \cup {rid})
  BY <1>1, <1>4, <1>5, <1>6 DEF Grown, Changed
<1> QED BY <1>7 DEF v

LEMMA IndexRidsFacts ==
    ASSUME NEW t \in Tables, NEW c \in ColSet(t), NEW rids, Len(rids) \in Nat, NEW w,
           Grown(w, t, c, {}), w.rows = tab[t], \A n \in 1 .. Len(rids) : Here(w, rids[n]),
           DOMAIN tab[t] = {} \/ \A n \in 1 .. Len(rids) : rids[n] \in DOMAIN tab[t]
    PROVE  Grown(IndexRids(w, t, c, rids), t, c, {rids[m] : m \in 1 .. Len(rids)})
<1> DEFINE N == Len(rids)
           Turn(x, n) == insert_entry(x, <<t, c>>, get_record(w.rows, w.left, rids[n])[c], rids[n])
           Ok(x, n) == Grown(x, t, c, {rids[m] : m \in 1 .. n})
           Wk == Work(t, DOMAIN idx \cup {<<t, c>>})
           W == [n \in 0 .. N |-> {x \in Wk : Ok(x, n)}]
           G == [n \in 1 .. N |-> [x \in Wk |-> Turn(x, n)]]
<1>1. N \in Nat
  OBVIOUS
<1>2. ASSUME NEW n \in 1 .. N, NEW x, Ok(x, n - 1) PROVE Ok(Turn(x, n), n)
  <2> DEFINE A == {rids[m] : m \in 1 .. n - 1}
             B == {rids[m] : m \in 1 .. n}
             rid == rids[n]
             row == get_record(w.rows, w.left, rid)
  <2>1. /\ rid \in Nat /\ row \in RowsOf(t)
        /\ DOMAIN tab[t] = {} \/ (rid \in DOMAIN tab[t] /\ row = tab[t][rid])
    <3>1. w \in Work(t, DOMAIN idx \cup {<<t, c>>})
      BY DEF Grown
    <3> QED BY <3>1, ReadFacts
  <2>2. B = A \cup {rid}
    <3>1. 1 .. n = (1 .. n - 1) \cup {n}
      BY <1>1
    <3> QED BY <3>1
  <2>3. Grown(x, t, c, A)
    BY <1>2
  <2>4. Turn(x, n) = insert_entry(x, <<t, c>>, row[c], rid)
    OBVIOUS
  <2> HIDE DEF A, B, rid, row, Turn
  <2>5. Grown(insert_entry(x, <<t, c>>, row[c], rid), t, c, A \cup {rid})
    BY <2>1, <2>3, GrowTurn
  <2> QED BY <2>2, <2>4, <2>5 DEF B
<1>3. Ok(w, 0)
  <2>1. {rids[m] : m \in 1 .. 0} = {}
    OBVIOUS
  <2> QED BY <2>1
<1>4. \A x, n : Ok(x, n) => x \in Wk
  BY DEF Grown
<1>5. w \in W[0] /\ \A n \in 1 .. N : \A x \in W[n - 1] : G[n][x] \in W[n]
  <2> HIDE DEF Ok, Wk, Turn
  <2>1. w \in W[0]
    BY <1>1, <1>3, <1>4
  <2>2. ASSUME NEW n \in 1 .. N, NEW x \in W[n - 1] PROVE G[n][x] \in W[n]
    <3>1. x \in Wk /\ Ok(x, n - 1)
      BY <1>1
    <3>2. G[n][x] = Turn(x, n)
      BY <3>1
    <3>3. Ok(Turn(x, n), n)
      BY <1>2, <3>1
    <3> QED BY <1>1, <1>4, <3>2, <3>3
  <2> QED BY <2>1, <2>2
<1>6. \E f : f = [n \in 0 .. N |-> IF n = 0 THEN w ELSE Turn(f[n - 1], n)]
  <2>1. PICK f : IsLoop(f, N, w, G) /\ \A n \in 0 .. N : f[n] \in W[n]
    <3> HIDE DEF W, G, N
    <3> QED BY <1>1, <1>5, LoopExists
  <2> HIDE DEF Ok, Wk, Turn
  <2>2. ASSUME NEW n \in 0 .. N, n # 0 PROVE G[n][f[n - 1]] = Turn(f[n - 1], n)
    <3>1. n \in 1 .. N /\ n - 1 \in 0 .. N
      BY <1>1, <2>2
    <3>2. f[n - 1] \in Wk
      BY <2>1, <3>1
    <3> QED BY <3>1, <3>2
  <2> HIDE DEF W, G, N
  <2> QED BY <2>1, <2>2 DEF IsLoop
<1> DEFINE after == CHOOSE f : f = [n \in 0 .. N |-> IF n = 0 THEN w ELSE Turn(f[n - 1], n)]
<1>7. IndexRids(w, t, c, rids) = after[N]
  BY DEF IndexRids
<1>8. after = [n \in 0 .. N |-> IF n = 0 THEN w ELSE Turn(after[n - 1], n)]
  <2> HIDE DEF Turn, N
  <2> QED BY <1>6
<1> HIDE DEF after
<1>9. after[0] \in W[0] /\ \A n \in 1 .. N : after[n - 1] \in W[n - 1] => after[n] \in W[n]
  <2> HIDE DEF Turn, Ok, Wk
  <2>1. after[0] = w
    BY <1>1, <1>8
  <2>2. ASSUME NEW n \in 1 .. N, after[n - 1] \in W[n - 1] PROVE after[n] \in W[n]
    <3>1. n \in 0 .. N /\ n - 1 \in 0 .. N /\ n # 0
      BY <1>1
    <3>2. after[n] = Turn(after[n - 1], n)
      BY <1>8, <3>1
    <3>3. Ok(after[n - 1], n - 1)
      BY <2>2, <3>1
    <3>4. Ok(after[n], n)
      BY <1>2, <3>2, <3>3
    <3> QED BY <1>4, <3>1, <3>4
  <2> QED BY <1>5, <2>1, <2>2
<1>10. after[N] \in W[N]
  <2> HIDE DEF W, N
  <2>1. \A n \in 0 .. N : after[n] \in W[n]
    BY <1>1, <1>9, LoopInvariant
  <2> QED BY <1>1, <2>1
<1>11. Ok(after[N], N)
  <2> HIDE DEF Ok, Wk
  <2> QED BY <1>1, <1>10
<1> QED BY <1>7, <1>11

LEMMA CreateKeeps ==
    ASSUME NEW t \in Tables, ExecInv, NEW c \in ColSet(t), create_index(t, c)
    PROVE  ExecInv'
<1> DEFINE i == <<t, c>>
<1>1. PICK b \in Views(t) :
          idx' = IndexRids([Start(t, b) EXCEPT !.idx = With(@, i, NewIndex)], t, c, SeqOrder(b, t, <<>>)).idx
  BY DEF create_index
<1> DEFINE s == Start(t, b)
           f == With(idx, i, NewIndex)
           w == [s EXCEPT !.idx = f]
           rids == SeqOrder(b, t, <<>>)
           v == IndexRids(w, t, c, rids)
           S == {rids[m] : m \in 1 .. Len(rids)}
<1>2. /\ i \notin DOMAIN idx /\ tab' = tab /\ threw' = threw
      /\ astray \subseteq astray' /\ (DOMAIN tab[t] = {} => t \in astray')
  BY DEF create_index
<1>3. idx' = v.idx
  <2>1. [s EXCEPT !.idx = With(@, i, NewIndex)] = w
    BY DEF Start
  <2> QED BY <1>1, <2>1
<1>4. /\ s \in Work(t, DOMAIN idx) /\ s.rows = tab[t] /\ s.left = b.left /\ s.idx = idx
      /\ ~s.thrown
  <2>1. b.left \in Partial(Nat, RowsOf(t))
    BY ViewFacts
  <2> QED BY <2>1, StartFacts
<1>5. idx \in Partial(Ids, Indexes) /\ i \in Ids
  <2>1. idx \in Partial(Ids, Indexes)
    BY PartialType DEF ExecInv, ExecType
  <2> QED BY <2>1 DEF Ids
<1>6. /\ NewIndex \in Indexes /\ ~NewIndex.dead
      /\ Points(NewIndex, c, tab[t]) /\ Covers(NewIndex, {})
  <2>1. <<>> \in Partial(Vals, Nat) /\ DOMAIN <<>> = {} /\ Range(<<>>) = {} /\ IsFiniteSet({})
    BY EmptyMap, FS_EmptySet
  <2>2. NewIndex.map = <<>> /\ NewIndex.dead = FALSE /\ NewIndex \in Indexes
    BY <2>1, IndexType DEF NewIndex
  <2> QED BY <2>1, <2>2 DEF Points, Covers
<1>7. f \in Partial(Ids, Indexes) /\ IsWith(f, idx, i, NewIndex)
  BY <1>5, <1>6, WithPartial
<1> HIDE DEF f, s
<1>8. f \in [DOMAIN idx \cup {i} -> Indexes]
  <2>1. f = [x \in DOMAIN f |-> f[x]] /\ \A x \in DOMAIN f : f[x] \in Indexes
    BY <1>7, PartialFacts
  <2>2. DOMAIN f = DOMAIN idx \cup {i}
    BY <1>7 DEF IsWith
  <2> QED BY <2>1, <2>2
<1>9. /\ w \in Work(t, DOMAIN idx \cup {i}) /\ w.idx = f /\ w.thrown = s.thrown
      /\ w.rows = tab[t] /\ w.left = b.left
  BY <1>4, <1>8 DEF Work
<1> HIDE DEF w
<1>10. Grown(w, t, c, {})
  BY <1>4, <1>6, <1>7, <1>9 DEF Grown, IsWith
<1>11. IsScan(rids, b, t)
  BY SeqScan
<1>12. DOMAIN tab[t] = {} \/ (S = DOMAIN tab[t] /\ \A n \in 1 .. Len(rids) : rids[n] \in DOMAIN tab[t])
  <2> SUFFICES ASSUME DOMAIN tab[t] # {}
               PROVE  S = DOMAIN tab[t] /\ \A n \in 1 .. Len(rids) : rids[n] \in DOMAIN tab[t]
    OBVIOUS
  <2>1. b.scan = DOMAIN tab[t]
    BY ViewFacts
  <2>2. rids = Sorted(DOMAIN tab[t])
    <3>1. {r \in b.scan : eval_conds(<<>>, get_record(tab[t], b.left, r))} = b.scan
      BY DEF eval_conds
    <3> QED BY <2>1, <3>1 DEF SeqOrder
  <2> DEFINE D == DOMAIN tab[t]
             n == Cardinality(D)
  <2>3. IsFiniteSet(D) /\ D \subseteq Int
    BY FiniteTable
  <2>4. n \in Nat /\ rids \in [1 .. n -> D] /\ \A x \in D : \E j \in 1 .. n : rids[j] = x
    BY <2>2, <2>3, SortedFacts
  <2> HIDE DEF rids, D, n
  <2>5. Len(rids) = n
    BY <2>4, LenOfFunction
  <2>6. S = D /\ \A j \in 1 .. Len(rids) : rids[j] \in D
    BY <2>4, <2>5
  <2> QED BY <2>6 DEF D
<1> HIDE DEF rids
<1>13. Len(rids) \in Nat /\ \A n \in 1 .. Len(rids) : Here(w, rids[n])
  BY <1>9, <1>11 DEF IsScan, Here
<1>14. Grown(v, t, c, S)
  BY <1>9, <1>10, <1>12, <1>13, IndexRidsFacts
<1> HIDE DEF v, S
<1>15. /\ v.idx \in [DOMAIN idx \cup {i} -> Indexes] /\ \A j \in DOMAIN idx : v.idx[j] = idx[j]
       /\ ~v.idx[i].dead
       /\ DOMAIN tab[t] = {} \/ (Points(v.idx[i], c, tab[t]) /\ Covers(v.idx[i], DOMAIN tab[t]))
  BY <1>2, <1>12, <1>14 DEF Grown, Work
<1>16. ExecType'
  BY <1>2, <1>3, <1>5, <1>15 DEF ExecInv, ExecType
<1>17. i[1] = t /\ i[2] = c
  OBVIOUS
<1> HIDE DEF i
<1>18. EntriesPointAtTheirRows'
  <2> SUFFICES ASSUME NEW j \in DOMAIN idx', j[1] \notin astray'
               PROVE  \A k \in DOMAIN idx'[j].map :
                          idx'[j].map[k] \in DOMAIN tab[j[1]] /\ tab[j[1]][idx'[j].map[k]][j[2]] = k
    BY <1>2 DEF EntriesPointAtTheirRows, Sound
  <2>1. j = i \/ (j \in DOMAIN idx /\ idx'[j] = idx[j])
    BY <1>3, <1>15
  <2>2. CASE j = i
    BY <1>2, <1>3, <1>15, <1>17, <2>2 DEF Points
  <2>3. CASE j \in DOMAIN idx /\ idx'[j] = idx[j]
    BY <1>2, <2>3 DEF ExecInv, EntriesPointAtTheirRows, Sound
  <2> QED BY <2>1, <2>2, <2>3
<1>19. IndexHasEveryRow'
  BY <1>2, <1>3, <1>15, <1>17 DEF ExecInv, IndexHasEveryRow, Complete, Covers
<1> QED BY <1>16, <1>18, <1>19 DEF ExecInv

LEMMA DropKeeps ==
    ASSUME NEW t \in Tables, ExecInv, NEW c \in ColSet(t), drop_index(t, c)
    PROVE  ExecInv'
<1> DEFINE i == <<t, c>>
           f == Without(idx, i)
<1>1. idx' = f /\ tab' = tab /\ threw' = threw
  BY DEF drop_index
<1>2. \A j \in DOMAIN idx' : j[1] \in astray => j[1] \in astray'
  BY DEF drop_index
<1>3. idx \in Partial(Ids, Indexes)
  BY PartialType DEF ExecInv, ExecType
<1>4. f \in Partial(Ids, Indexes) /\ IsWithout(f, idx, i)
  BY <1>3, WithoutPartial
<1> HIDE DEF f, i
<1>5. f = [x \in DOMAIN f |-> f[x]] /\ DOMAIN f \subseteq Ids /\ \A x \in DOMAIN f : f[x] \in Indexes
  BY <1>4, PartialFacts
<1>6. f \in [DOMAIN f -> Indexes]
  BY <1>5
<1>7. ExecType'
  BY <1>1, <1>5, <1>6 DEF ExecInv, ExecType
<1>8. \A j \in DOMAIN f : j \in DOMAIN idx /\ f[j] = idx[j]
  BY <1>4 DEF IsWithout
<1>9. EntriesPointAtTheirRows'
  BY <1>1, <1>2, <1>8 DEF ExecInv, EntriesPointAtTheirRows, Sound
<1>10. IndexHasEveryRow'
  BY <1>1, <1>2, <1>8 DEF ExecInv, IndexHasEveryRow, Complete
<1> QED BY <1>7, <1>9, <1>10 DEF ExecInv

-----------------------------------------------------------------------------
(* Theorems                                                                *)

LEMMA SameKeeps ==
    ASSUME ExecInv, UNCHANGED vars
    PROVE  ExecInv'
BY DEF vars, ExecInv, ExecType, EntriesPointAtTheirRows, Sound, IndexHasEveryRow, Complete

\* The tables hold rows and the indexes entries, whatever statements have run; and
\* on tables none of whose indexes was created while they were empty, entries lead
\* to their records and indexes are complete.  QlManager and its executors, for every
\* choice of tables, columns, values and WHERE clauses, with scans of empty tables
\* and whatever bytes these return.
THEOREM ExecCorrect == Spec => []ExecInv
<1>1. Init => ExecInv
  <2> SUFFICES ASSUME Init PROVE ExecInv
    OBVIOUS
  <2>1. \A t \in Tables : tab[t] \in Partial(Rids(t), RowsOf(t))
    BY EmptyMap DEF Init
  <2>2. DOMAIN idx = {} /\ idx \in [DOMAIN idx -> Indexes]
    BY DEF Init
  <2>3. tab = [t \in Tables |-> tab[t]]
    BY DEF Init
  <2> QED BY <2>1, <2>2, <2>3 DEF ExecInv, ExecType, EntriesPointAtTheirRows, IndexHasEveryRow
<1>2. ExecInv /\ [Next]_vars => ExecInv'
  <2> SUFFICES ASSUME ExecInv, [Next]_vars PROVE ExecInv'
    OBVIOUS
  <2>1. ASSUME NEW t \in Tables, NEW row \in RowsOf(t), insert_into(t, row) PROVE ExecInv'
    BY <2>1, InsertKeeps
  <2>2. ASSUME NEW t \in Tables, NEW conds \in Wheres(t), delete_from(t, conds) PROVE ExecInv'
    <3>1. CASE UNCHANGED vars
      BY <3>1, SameKeeps
    <3>2. ASSUME NEW v \in Views(t), Finish(t, DeleteRids(v, t, Found(v, t, conds))) PROVE ExecInv'
      <4>1. Fine(DeleteRids(v, t, Found(v, t, conds)), t)
        BY FoundFacts, DeleteRidsFacts
      <4> QED BY <3>2, <4>1, FinishFacts
    <3> QED BY <2>2, <3>1, <3>2 DEF delete_from
  <2>3. ASSUME NEW t \in Tables, NEW conds \in Wheres(t), NEW set \in Sets(t), update_set(t, set, conds)
        PROVE  ExecInv'
    <3>1. CASE UNCHANGED vars
      BY <3>1, SameKeeps
    <3>2. ASSUME NEW v \in Views(t), Finish(t, UpdateRids(v, t, Found(v, t, conds), set)) PROVE ExecInv'
      <4>1. Fine(UpdateRids(v, t, Found(v, t, conds), set), t)
        BY FoundFacts, UpdateRidsFacts
      <4> QED BY <3>2, <4>1, FinishFacts
    <3> QED BY <2>3, <3>1, <3>2 DEF update_set
  <2>4. ASSUME NEW t \in Tables, NEW c \in ColSet(t), create_index(t, c) PROVE ExecInv'
    BY <2>4, CreateKeeps
  <2>5. ASSUME NEW t \in Tables, NEW c \in ColSet(t), drop_index(t, c) PROVE ExecInv'
    BY <2>5, DropKeeps
  <2>6. CASE UNCHANGED vars
    BY <2>6, SameKeeps
  <2> QED BY <2>1, <2>2, <2>3, <2>4, <2>5, <2>6 DEF Next
<1> QED BY <1>1, <1>2, PTL DEF Spec

\* The record behind an entry of an index exists and has the key of the entry, also
\* after refused keys, dead indexes, statements that stopped in the middle, and DELETE
\* and UPDATE on a table that has become empty, unless an index on the table was
\* created while it had no record (InsertExecutor, DeleteExecutor,
\* UpdateExecutor::Next; SmManager::create_index).
THEOREM EntriesPoint == Spec => []EntriesPointAtTheirRows
BY ExecCorrect, PTL DEF ExecInv

\* An index that is alive and refused no key has an entry for every record of its
\* table, unless a statement on the table has thrown or an index on it was created
\* while it had no record (the loops over tab_.cols in the three executors).
THEOREM IndexComplete == Spec => []IndexHasEveryRow
BY ExecCorrect, PTL DEF ExecInv
=============================================================================

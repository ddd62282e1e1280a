--------------------------- MODULE VectorSearchReads ---------------------------
(***************************************************************************)
(* What the reads of VectorSearch return, for any partitions, rows, limit   *)
(* and lists.  The listings are numbered by the size of what comes before;  *)
(* a merged answer is followed back to the rows it was drawn from, and a    *)
(* fused one to the lists.  Each part ends in a lemma that says of a state  *)
(* which of its properties are enough for the read to answer as it should.  *)
(***************************************************************************)
EXTENDS VectorSearch, FiniteSetTheorems, SequenceTheorems, WellFoundedInduction, TLAPS

-----------------------------------------------------------------------------
(* Sequences and their numbers                                             *)

\* A set of numbers has a least element.
LEMMA Least ==
    ASSUME NEW S \in SUBSET Nat, S # {}
    PROVE  \E x \in S : \A y \in S : x <= y
<1> DEFINE R == OpToRel(<, Nat)
<1>1. IsWellFoundedOn(R, Nat)
  BY NatLessThanWellFounded
<1>2. \A x, y \in Nat : <<y, x>> \in R <=> y < x
  BY DEF OpToRel
<1> HIDE DEF R
<1>3. PICK x \in S : \A y \in S : ~ (<<y, x>> \in R)
  BY <1>1, WFMin
<1>4. \A y \in S : y \in Nat /\ x \in Nat /\ ~(y < x)
  BY <1>2, <1>3
<1>5. \A y \in S : x <= y
  BY <1>4
<1> QED
  BY <1>5

LEMMA MinIs ==
    ASSUME NEW S \in SUBSET Nat, S # {}
    PROVE  Min(S) \in S /\ \A y \in S : Min(S) <= y
BY Least DEF Min

LEMMA MaxIs ==
    ASSUME NEW n \in Nat, NEW S \in SUBSET (1 .. n), S # {}
    PROVE  Max(S) \in S
<1> DEFINE T == {n - x : x \in S}
<1>1. T \in SUBSET Nat /\ T # {}
  <2>1. \A x \in S : x \in 1 .. n /\ n - x \in Nat
    OBVIOUS
  <2> QED
    BY <2>1
<1>2. PICK t \in T : \A u \in T : t <= u
  BY <1>1, Least
<1>3. PICK x \in S : t = n - x
  BY <1>2
<1>4. \A y \in S : n - x <= n - y
  BY <1>2, <1>3
<1>5. \A y \in S : x >= y
  BY <1>4
<1> QED
  BY <1>5 DEF Max

\* What RemoveAt makes of a sequence.
LEMMA Removed ==
    ASSUME NEW S, NEW s \in Seq(S), NEW i \in 1 .. Len(s)
    PROVE  /\ RemoveAt(s, i) \in Seq(S) /\ Len(RemoveAt(s, i)) = Len(s) - 1
           /\ \A j \in 1 .. Len(s) - 1 : RemoveAt(s, i)[j] = IF j < i THEN s[j] ELSE s[j + 1]
<1> DEFINE a == SubSeq(s, 1, i - 1)  b == SubSeq(s, i + 1, Len(s))
<1>0. Len(s) \in Nat /\ \A j \in 1 .. Len(s) : s[j] \in S
  BY ElementOfSeq, LenProperties
<1>1. a \in Seq(S) /\ Len(a) = i - 1 /\ \A j \in 1 .. i - 1 : a[j] = s[j]
  <2>1. \A j \in 1 .. i - 1 : s[j] \in S
    BY <1>0
  <2>2. /\ a \in Seq(S) /\ Len(a) = IF 1 <= i - 1 THEN (i - 1) - 1 + 1 ELSE 0
        /\ \A j \in 1 .. (i - 1) - 1 + 1 : a[j] = s[1 + j - 1]
    BY <1>0, <2>1, SubSeqProperties
  <2> QED
    BY <1>0, <2>2
<1>2. b \in Seq(S) /\ Len(b) = Len(s) - i /\ \A j \in 1 .. Len(s) - i : b[j] = s[i + j]
  <2>1. \A j \in i + 1 .. Len(s) : s[j] \in S
    BY <1>0
  <2>2. /\ b \in Seq(S) /\ Len(b) = IF i + 1 <= Len(s) THEN Len(s) - (i + 1) + 1 ELSE 0
        /\ \A j \in 1 .. Len(s) - (i + 1) + 1 : b[j] = s[(i + 1) + j - 1]
    BY <1>0, <2>1, SubSeqProperties
  <2> QED
    BY <1>0, <2>2
<1> HIDE DEF a, b
<1>3. /\ a \o b \in Seq(S) /\ Len(a \o b) = Len(a) + Len(b)
      /\ \A j \in 1 .. Len(a) + Len(b) : (a \o b)[j] = IF j <= Len(a) THEN a[j] ELSE b[j - Len(a)]
  BY <1>1, <1>2, ConcatProperties
<1>4. RemoveAt(s, i) = a \o b
  BY DEF RemoveAt, a, b
<1>5. \A j \in 1 .. Len(s) - 1 : (a \o b)[j] = IF j < i THEN s[j] ELSE s[j + 1]
  <2> TAKE j \in 1 .. Len(s) - 1
  <2>1. CASE j < i
    BY <1>0, <1>1, <1>2, <1>3, <2>1
  <2>2. CASE ~(j < i)
    <3>1. (a \o b)[j] = b[j - (i - 1)]
      BY <1>0, <1>1, <1>2, <1>3, <2>2
    <3>2. j - (i - 1) \in 1 .. Len(s) - i /\ i + (j - (i - 1)) = j + 1
      BY <1>0, <2>2
    <3> QED
      BY <1>2, <2>2, <3>1, <3>2
  <2> QED
    BY <2>1, <2>2
<1> QED
  BY <1>0, <1>1, <1>2, <1>3, <1>4, <1>5

\* Induction, of a set instead of an operator.
LEMMA Upward ==
    ASSUME NEW S, 0 \in S, \A n \in Nat : n \in S => n + 1 \in S
    PROVE  \A n \in Nat : n \in S
<1> SUFFICES ASSUME NEW m \in Nat, m \notin S PROVE FALSE
  OBVIOUS
<1> DEFINE B == {n \in Nat : n \notin S}
<1>1. B \in SUBSET Nat /\ B # {}
  OBVIOUS
<1>2. PICK x \in B : \A y \in B : x <= y
  <2> HIDE DEF B
  <2> QED BY <1>1, Least
<1>3. x # 0 /\ x \in Nat
  OBVIOUS
<1>4. x - 1 \in Nat /\ x - 1 \in S
  BY <1>2, <1>3
<1>5. (x - 1) + 1 \in S
  BY <1>4
<1> QED
  BY <1>3, <1>5

-----------------------------------------------------------------------------
(* Orders: the elements of a finite set, listed from first to last         *)

\* The number of elements that a strict total order puts before x numbers S.
Position(S, R) == [x \in S |-> Cardinality({y \in S : <<y, x>> \in R}) + 1]

\* R puts any two elements of S in order.
StrictOrder(S, R) ==
    /\ \A x \in S : <<x, x>> \notin R
    /\ \A x, y, z \in S : <<x, y>> \in R /\ <<y, z>> \in R => <<x, z>> \in R
    /\ \A x, y \in S : x # y => <<x, y>> \in R \/ <<y, x>> \in R

\* The positions are the numbers up to the size of S, each once.
LEMMA Positions ==
    ASSUME NEW S, IsFiniteSet(S), NEW R, StrictOrder(S, R)
    PROVE  /\ Cardinality(S) \in Nat
           /\ Position(S, R) \in Bijection(S, 1 .. Cardinality(S))
           /\ \A x, y \in S : <<x, y>> \in R <=> Position(S, R)[x] < Position(S, R)[y]
<1> DEFINE N == Cardinality(S)
           Below(x) == {y \in S : <<y, x>> \in R}
           f == Position(S, R)
<1>1. N \in Nat
  BY FS_CardinalityType
<1>2. ASSUME NEW x \in S
      PROVE  IsFiniteSet(Below(x)) /\ Cardinality(Below(x)) \in Nat /\ Cardinality(Below(x)) + 1 \in 1 .. N
  <2>1. IsFiniteSet(Below(x)) /\ Cardinality(Below(x)) \in Nat
    BY FS_Subset, FS_CardinalityType
  <2>2. Below(x) \in SUBSET (S \ {x})
    BY DEF StrictOrder
  <2>3. IsFiniteSet(S \ {x}) /\ Cardinality(S \ {x}) = N - 1
    BY FS_RemoveElement
  <2> DEFINE c == Cardinality(Below(x))  T == S \ {x}
  <2>4. c <= N - 1
    <3>1. c <= Cardinality(T)
      <4> HIDE DEF Below, T
      <4> QED BY <2>2, <2>3, FS_Subset DEF T
    <3> QED BY <2>3, <3>1
  <2> HIDE DEF Below, N, c
  <2>5. c \in Nat /\ c <= N - 1
    BY <2>1, <2>4 DEF c
  <2>6. c + 1 \in 1 .. N
    BY <1>1, <2>5
  <2> QED BY <2>1, <2>6 DEF c
<1>3. ASSUME NEW x \in S, NEW y \in S, <<x, y>> \in R
      PROVE  Cardinality(Below(x)) < Cardinality(Below(y))
  <2>1. Below(x) \cup {x} \subseteq Below(y) /\ x \notin Below(x)
    BY <1>3 DEF StrictOrder
  <2>2. Cardinality(Below(x) \cup {x}) = Cardinality(Below(x)) + 1
    BY <1>2, <2>1, FS_AddElement
  <2>3. Cardinality(Below(x) \cup {x}) <= Cardinality(Below(y))
    BY <1>2, <2>1, FS_Subset
  <2> HIDE DEF Below
  <2> QED BY <1>2, <2>2, <2>3
<1>4. f = [x \in S |-> Cardinality(Below(x)) + 1]
  BY DEF Position
<1> HIDE DEF Below, f, N
<1>5. \A x, y \in S : <<x, y>> \in R => f[x] < f[y]
  BY <1>2, <1>3, <1>4
<1>6. f \in [S -> 1 .. N]
  BY <1>2, <1>4
<1>7. \A x, y \in S : f[x] < f[y] => <<x, y>> \in R
  <2> SUFFICES ASSUME NEW x \in S, NEW y \in S, f[x] < f[y], <<x, y>> \notin R PROVE FALSE
    OBVIOUS
  <2>1. f[x] \in 1 .. N /\ f[y] \in 1 .. N
    BY <1>6
  <2>2. x # y
    BY <1>1, <2>1
  <2>3. <<y, x>> \in R
    BY <2>2 DEF StrictOrder
  <2>4. f[y] < f[x]
    BY <1>5, <2>3
  <2> QED BY <1>1, <2>1, <2>4
<1>8. \A x, y \in S : f[x] = f[y] => x = y
  <2> SUFFICES ASSUME NEW x \in S, NEW y \in S, f[x] = f[y], x # y PROVE FALSE
    OBVIOUS
  <2>1. f[x] < f[y] \/ f[y] < f[x]
    BY <1>5 DEF StrictOrder
  <2>2. f[x] \in 1 .. N /\ f[y] \in 1 .. N
    BY <1>6
  <2> QED BY <1>1, <2>1, <2>2
<1>9. f \in Injection(S, 1 .. N)
  BY <1>6, <1>8 DEF Injection, IsInjective
<1>10. IsFiniteSet(1 .. N) /\ Cardinality(1 .. N) = N
  BY <1>1, FS_Interval
<1>11. f \in Surjection(S, 1 .. N)
  BY <1>9, <1>10, FS_Injection DEF N
<1> QED
  BY <1>1, <1>5, <1>7, <1>9, <1>11 DEF Bijection, f, N

\* A function on the first n numbers is a sequence.
LEMMA Listing ==
    ASSUME NEW n \in Nat, NEW S, NEW f \in [1 .. n -> S]
    PROVE  f \in Seq(S) /\ Len(f) = n
  OBVIOUS

\* f lists the elements of the finite set S, each once.
Enumerates(f, S) ==
    /\ f \in Seq(S) /\ Cardinality(S) \in Nat /\ Len(f) = Cardinality(S) /\ DOMAIN f = 1 .. Len(f)
    /\ \A n \in 1 .. Len(f) : f[n] \in S
    /\ \A x \in S : \E n \in 1 .. Len(f) : f[n] = x
    /\ \A m, n \in 1 .. Len(f) : f[m] = f[n] => m = n

\* ... in the order R.
Follows(f, S, R) == Enumerates(f, S) /\ \A m, n \in 1 .. Len(f) : m < n <=> <<f[m], f[n]>> \in R

\* What InOrder makes of S, for the order R.
LEMMA OrderingFollows ==
    ASSUME NEW S, IsFiniteSet(S), NEW R, StrictOrder(S, R), NEW f,
           f = [n \in 1 .. Cardinality(S) |->
                  CHOOSE x \in S : Cardinality({y \in S : <<y, x>> \in R}) = n - 1]
    PROVE  Follows(f, S, R)
<1> DEFINE N == Cardinality(S)
           g == Position(S, R)
           Below(x) == {y \in S : <<y, x>> \in R}
<1>1. /\ N \in Nat /\ g \in Bijection(S, 1 .. N)
      /\ \A x, y \in S : <<x, y>> \in R <=> g[x] < g[y]
  BY Positions
<1>2. /\ \A x \in S : g[x] \in 1 .. N
      /\ \A x, y \in S : g[x] = g[y] => x = y
      /\ \A n \in 1 .. N : \E x \in S : g[x] = n
  BY <1>1 DEF Bijection, Injection, Surjection, IsInjective
<1>3. \A x \in S : g[x] = Cardinality(Below(x)) + 1 /\ Cardinality(Below(x)) \in Nat
  <2> TAKE x \in S
  <2>1. IsFiniteSet(Below(x)) /\ Cardinality(Below(x)) \in Nat
    BY FS_Subset, FS_CardinalityType
  <2> QED BY <2>1 DEF Position
<1>4. f = [n \in 1 .. N |-> CHOOSE x \in S : Cardinality(Below(x)) = n - 1]
  OBVIOUS
<1> HIDE DEF N, g, Below
<1>5. ASSUME NEW n \in 1 .. N PROVE f[n] \in S /\ g[f[n]] = n
  <2>1. PICK x \in S : g[x] = n
    BY <1>2
  <2>2. Cardinality(Below(x)) = n - 1
    BY <1>1, <1>3, <2>1
  <2>3. f[n] = CHOOSE z \in S : Cardinality(Below(z)) = n - 1
    BY <1>4
  <2>4. f[n] \in S /\ Cardinality(Below(f[n])) = n - 1
    BY <2>2, <2>3
  <2>5. g[f[n]] = n - 1 + 1
    BY <1>3, <2>4
  <2> QED BY <1>1, <2>4, <2>5
<1>6. ASSUME NEW x \in S PROVE \E n \in 1 .. N : f[n] = x
  <2>1. g[x] \in 1 .. N
    BY <1>2
  <2>2. f[g[x]] \in S /\ g[f[g[x]]] = g[x]
    BY <1>5, <2>1
  <2>3. f[g[x]] = x
    BY <1>2, <2>2
  <2> QED BY <2>1, <2>3
<1>7. \A m, n \in 1 .. N : f[m] = f[n] => m = n
  BY <1>5
<1>8. ASSUME NEW m \in 1 .. N, NEW n \in 1 .. N PROVE m < n <=> <<f[m], f[n]>> \in R
  <2>1. f[m] \in S /\ g[f[m]] = m /\ f[n] \in S /\ g[f[n]] = n
    BY <1>5
  <2> QED BY <1>1, <2>1
<1>9. f \in Seq(S) /\ Len(f) = N /\ DOMAIN f = 1 .. N
  <2> DEFINE e(n) == CHOOSE x \in S : Cardinality(Below(x)) = n - 1
  <2>1. f = [n \in 1 .. N |-> e(n)]
    BY <1>4
  <2>2. \A n \in 1 .. N : f[n] = e(n)
    BY <2>1
  <2> HIDE DEF e
  <2>3. \A n \in 1 .. N : e(n) \in S
    BY <1>5, <2>2
  <2>4. f \in [1 .. N -> S]
    BY <2>1, <2>3
  <2> QED BY <1>1, <2>1, <2>4, Listing
<1> QED BY <1>1, <1>5, <1>6, <1>7, <1>8, <1>9 DEF N, Follows, Enumerates

\* A listing that is found tells the size of what it lists.
LEMMA EnumeratesBy ==
    ASSUME NEW n \in Nat, NEW S, NEW f \in [1 .. n -> S],
           \A x \in S : \E i \in 1 .. n : f[i] = x,
           \A i, j \in 1 .. n : f[i] = f[j] => i = j
    PROVE  Enumerates(f, S) /\ IsFiniteSet(S) /\ Cardinality(S) = n /\ Len(f) = n
<1>1. f \in Bijection(1 .. n, S)
  BY DEF Bijection, Injection, Surjection, IsInjective
<1>2. IsFiniteSet(1 .. n) /\ Cardinality(1 .. n) = n
  BY FS_Interval
<1>3. IsFiniteSet(S) /\ Cardinality(S) = n
  BY <1>1, <1>2, FS_Bijection DEF ExistsBijection
<1>4. f \in Seq(S) /\ Len(f) = n /\ DOMAIN f = 1 .. n
  BY Listing
<1> QED
  BY <1>3, <1>4 DEF Enumerates

\* Keys and places are listed in increasing order.
LEMMA AscendingIs ==
    ASSUME NEW S \in SUBSET Nat, IsFiniteSet(S)
    PROVE  /\ Enumerates(Ascending(S), S)
           /\ \A m, n \in 1 .. Len(Ascending(S)) : m < n <=> Ascending(S)[m] < Ascending(S)[n]
<1> DEFINE R == {p \in S \X S : p[1] < p[2]}
           f == Ascending(S)
<1>1. \A x, y \in S : <<x, y>> \in R <=> x < y
  OBVIOUS
<1>2. f = [n \in 1 .. Cardinality(S) |->
             CHOOSE x \in S : Cardinality({y \in S : y < x}) = n - 1]
  BY DEF Ascending, InOrder
<1>3. \A x \in S : {y \in S : y < x} = {y \in S : <<y, x>> \in R}
  BY <1>1
<1>4. f = [n \in 1 .. Cardinality(S) |->
             CHOOSE x \in S : Cardinality({y \in S : <<y, x>> \in R}) = n - 1]
  BY <1>2, <1>3, Zenon
<1> HIDE DEF R, f
<1>5. StrictOrder(S, R)
  BY <1>1 DEF StrictOrder
<1>6. IsFiniteSet(S)
  OBVIOUS
<1>7. Follows(f, S, R)
  BY <1>4, <1>5, <1>6, OrderingFollows
<1>8. Enumerates(f, S)
  BY <1>7 DEF Follows
<1>9. ASSUME NEW m \in 1 .. Len(f), NEW n \in 1 .. Len(f) PROVE m < n <=> f[m] < f[n]
  <2>1. f[m] \in S /\ f[n] \in S
    BY <1>8 DEF Enumerates
  <2>2. m < n <=> <<f[m], f[n]>> \in R
    BY <1>7 DEF Follows
  <2> QED BY <1>1, <2>1, <2>2
<1> QED BY <1>8, <1>9 DEF f

\* d: the scores are similarities.
Better(d, a, b) == IF d THEN a > b ELSE a < b

\* The rows are sorted, and equal ones stay in the order in which they were.
LEMMA SortIs ==
    ASSUME NEW T, NEW rows \in Seq(T), \A i \in 1 .. Len(rows) : rows[i].score \in Int, NEW d \in BOOLEAN
    PROVE  \E o : /\ Enumerates(o, 1 .. Len(rows)) /\ Len(o) = Len(rows)
                  /\ StableSort(rows, d) = [n \in 1 .. Len(rows) |-> rows[o[n]]]
                  /\ \A m, n \in 1 .. Len(rows) :
                        m < n => \/ Better(d, rows[o[m]].score, rows[o[n]].score)
                                 \/ rows[o[m]].score = rows[o[n]].score /\ o[m] < o[n]
<1> DEFINE S == 1 .. Len(rows)
           before(i, j) == \/ Better(d, rows[i].score, rows[j].score)
                           \/ (rows[i].score = rows[j].score /\ i < j)
           R == {p \in S \X S : before(p[1], p[2])}
           f == InOrder(S, before)
<1>0. Len(rows) \in Nat /\ DOMAIN rows = S
  BY LenProperties
<1>1. IsFiniteSet(S) /\ Cardinality(S) = Len(rows)
  BY <1>0, FS_Interval
<1>2. \A x, y \in S : <<x, y>> \in R <=> before(x, y)
  OBVIOUS
<1>3. f = [n \in 1 .. Cardinality(S) |->
             CHOOSE x \in S : Cardinality({y \in S : before(y, x)}) = n - 1]
  BY DEF InOrder
<1>4. \A x \in S : {y \in S : before(y, x)} = {y \in S : <<y, x>> \in R}
  BY <1>2
<1>5. f = [n \in 1 .. Cardinality(S) |->
             CHOOSE x \in S : Cardinality({y \in S : <<y, x>> \in R}) = n - 1]
  BY <1>3, <1>4, Zenon
<1>6. StableSort(rows, d) = [n \in DOMAIN f |-> rows[f[n]]]
  BY <1>0 DEF StableSort, Better
<1>7. StrictOrder(S, R)
  <2> DEFINE s(x) == rows[x].score
  <2>1. \A x \in S : x \in Int /\ s(x) \in Int
    BY <1>0
  <2>2. \A x, y \in S : <<x, y>> \in R <=> Better(d, s(x), s(y)) \/ (s(x) = s(y) /\ x < y)
    BY <1>2
  <2> HIDE DEF R, f, s, S
  <2>3. CASE d
    <3>1. \A x, y \in S : <<x, y>> \in R <=> s(x) > s(y) \/ (s(x) = s(y) /\ x < y)
      BY <2>2, <2>3 DEF Better
    <3> QED BY <2>1, <3>1 DEF StrictOrder
  <2>4. CASE ~d
    <3>1. \A x, y \in S : <<x, y>> \in R <=> s(x) < s(y) \/ (s(x) = s(y) /\ x < y)
      BY <2>2, <2>4 DEF Better
    <3> QED BY <2>1, <3>1 DEF StrictOrder
  <2> QED BY <2>3, <2>4
<1> HIDE DEF R, f
<1>8. Follows(f, S, R)
  <2> HIDE DEF S
  <2> QED BY <1>1, <1>5, <1>7, OrderingFollows
<1>9. Enumerates(f, S) /\ Len(f) = Len(rows) /\ DOMAIN f = S
  BY <1>1, <1>8 DEF Follows, Enumerates
<1>10. \A m, n \in S : m < n => before(f[m], f[n])
  <2> HIDE DEF before, S
  <2>1. \A m, n \in S : f[m] \in S /\ f[n] \in S /\ (m < n <=> <<f[m], f[n]>> \in R)
    BY <1>8, <1>9 DEF Follows, Enumerates
  <2> QED BY <1>2, <2>1
<1> QED BY <1>6, <1>9, <1>10

\* Of finitely many scores one is the best.
LEMMA BestOf ==
    ASSUME NEW S \in SUBSET Int, IsFiniteSet(S), S # {}, NEW d \in BOOLEAN
    PROVE  \E x \in S : \A y \in S : ~Better(d, y, x)
<1> DEFINE R == {p \in S \X S : Better(d, p[1], p[2])}
           f == [n \in 1 .. Cardinality(S) |-> CHOOSE x \in S : Cardinality({y \in S : <<y, x>> \in R}) = n - 1]
<1>1. \A x, y \in S : <<x, y>> \in R <=> Better(d, x, y)
  OBVIOUS
<1> HIDE DEF R
<1>2. StrictOrder(S, R)
  <2>1. CASE d
    BY <1>1, <2>1 DEF StrictOrder, Better
  <2>2. CASE ~d
    BY <1>1, <2>2 DEF StrictOrder, Better
  <2> QED BY <2>1, <2>2
<1>3. f = [n \in 1 .. Cardinality(S) |-> CHOOSE x \in S : Cardinality({y \in S : <<y, x>> \in R}) = n - 1]
  OBVIOUS
<1> HIDE DEF f
<1>4. Follows(f, S, R)
  BY <1>2, <1>3, OrderingFollows
<1>5. /\ Len(f) \in Nat /\ \A n \in 1 .. Len(f) : f[n] \in S
      /\ \A x \in S : \E n \in 1 .. Len(f) : f[n] = x
      /\ \A m, n \in 1 .. Len(f) : m < n <=> <<f[m], f[n]>> \in R
  BY <1>4 DEF Follows, Enumerates
<1>6. 1 \in 1 .. Len(f)
  <2>1. PICK x \in S : TRUE
    OBVIOUS
  <2>2. PICK n \in 1 .. Len(f) : f[n] = x
    BY <1>5, <2>1
  <2> QED BY <1>5
<1>7. ASSUME NEW y \in S PROVE ~Better(d, y, f[1])
  <2>1. PICK n \in 1 .. Len(f) : f[n] = y
    BY <1>5
  <2>2. ~(n < 1)
    OBVIOUS
  <2>3. <<y, f[1]>> \notin R
    BY <1>5, <1>6, <2>1, <2>2
  <2> QED BY <1>1, <1>5, <1>6, <2>3
<1> QED BY <1>5, <1>6, <1>7

-----------------------------------------------------------------------------
(* Sequences that are joined, mapped, cut and rid of duplicates            *)

\* <<i, j>> is the place of the j-th element of the i-th sequence.
Places(seqs, m) == {p \in (1 .. m) \X Nat : p[2] \in 1 .. Len(seqs[p[1]])}
Earlier(p, q) == p[1] < q[1] \/ (p[1] = q[1] /\ p[2] < q[2])

\* o lists the places of the first m sequences, in their order, and f what is there.
Joins(f, o, seqs, m) ==
    /\ Enumerates(o, Places(seqs, m)) /\ IsFiniteSet(Places(seqs, m))
    /\ Len(f) = Len(o)
    /\ \A k \in 1 .. Len(o) : f[k] = seqs[o[k][1]][o[k][2]]
    /\ \A j, k \in 1 .. Len(o) : j < k => Earlier(o[j], o[k])

\* No sequences join to none ...
LEMMA JoinsNone ==
    ASSUME NEW seqs PROVE Joins(<<>>, <<>>, seqs, 0) /\ Places(seqs, 0) = {}
<1>1. Places(seqs, 0) = {}
  BY DEF Places
<1>2. <<>> \in [1 .. 0 -> {}]
  OBVIOUS
<1>3. Enumerates(<<>>, {}) /\ IsFiniteSet({})
  BY <1>2, EnumeratesBy
<1> QED
  BY <1>1, <1>3 DEF Joins

\* ... and what m sequences join to, with one more.
LEMMA JoinsOneMore ==
    ASSUME NEW T, NEW seqs \in Seq(Seq(T)), NEW m \in Nat, m + 1 \in 1 .. Len(seqs),
           NEW f \in Seq(T), NEW o, Joins(f, o, seqs, m)
    PROVE  \E p : Joins(f \o seqs[m + 1], p, seqs, m + 1)
<1> DEFINE s == seqs[m + 1]
           a == Len(o)
           b == Len(s)
           p == [k \in 1 .. a + b |-> IF k <= a THEN o[k] ELSE <<m + 1, k - a>>]
           P == Places(seqs, m)
           Q == Places(seqs, m + 1)
<1>1. s \in Seq(T) /\ b \in Nat /\ b = Len(s)
  <2>1. s \in Seq(T)
    BY ElementOfSeq
  <2> QED BY <2>1, LenProperties
<1>2. /\ a \in Nat /\ Len(f) = a
      /\ \A k \in 1 .. a : o[k] \in P /\ f[k] = seqs[o[k][1]][o[k][2]]
      /\ \A x \in P : \E k \in 1 .. a : o[k] = x
      /\ \A i, j \in 1 .. a : o[i] = o[j] => i = j
      /\ \A i, j \in 1 .. a : i < j => Earlier(o[i], o[j])
  BY DEF Joins, Enumerates
<1>3. /\ f \o s \in Seq(T) /\ Len(f \o s) = a + b
      /\ \A j \in 1 .. a + b : (f \o s)[j] = IF j <= a THEN f[j] ELSE s[j - a]
  <2>1. /\ f \o s \in Seq(T) /\ Len(f \o s) = Len(f) + Len(s)
        /\ \A j \in 1 .. Len(f) + Len(s) : (f \o s)[j] = IF j <= Len(f) THEN f[j] ELSE s[j - Len(f)]
    <3> HIDE DEF s
    <3> QED BY <1>1, ConcatProperties
  <2>2. Len(f) = a /\ Len(s) = b
    BY <1>2
  <2> HIDE DEF s, a, b
  <2> QED BY <2>1, <2>2
<1>4. \A x : x \in Q <=> x \in P \/ \E n \in 1 .. b : x = <<m + 1, n>>
  <2>1. ASSUME NEW x \in Q PROVE x \in P \/ \E n \in 1 .. b : x = <<m + 1, n>>
    <3>1. x \in (1 .. m + 1) \X Nat /\ x[2] \in 1 .. Len(seqs[x[1]])
      BY DEF Places
    <3>2. CASE x[1] = m + 1
      BY <3>1, <3>2
    <3>3. CASE x[1] # m + 1
      <4>1. x[1] \in 1 .. m
        BY <3>1, <3>3
      <4>2. x \in (1 .. m) \X Nat
        BY <3>1, <4>1
      <4> QED BY <3>1, <4>2 DEF Places
    <3> QED BY <3>2, <3>3
  <2>2. ASSUME NEW x \in P PROVE x \in Q
    <3>1. x \in (1 .. m) \X Nat /\ x[2] \in 1 .. Len(seqs[x[1]])
      BY DEF Places
    <3>2. x \in (1 .. m + 1) \X Nat
      BY <3>1
    <3> QED BY <3>1, <3>2 DEF Places
  <2>3. ASSUME NEW n \in 1 .. b PROVE <<m + 1, n>> \in Q
    <3>1. <<m + 1, n>> \in (1 .. m + 1) \X Nat
      BY <1>1
    <3> QED BY <3>1 DEF Places
  <2> QED BY <2>1, <2>2, <2>3
<1>5. \A x \in P : x[1] \in Nat /\ x[1] <= m
  BY DEF Places
<1> HIDE DEF P, Q, a, b, s
<1>6. \A k \in 1 .. a + b : \/ k \in 1 .. a /\ p[k] = o[k]
                            \/ k - a \in 1 .. b /\ ~(k <= a) /\ p[k] = <<m + 1, k - a>>
  BY <1>1, <1>2
<1>7. p \in [1 .. a + b -> Q]
  BY <1>2, <1>4, <1>6
<1>8. \A k \in 1 .. a : k \in 1 .. a + b /\ p[k] = o[k]
  BY <1>1, <1>2
<1>9. \A n \in 1 .. b : a + n \in 1 .. a + b /\ p[a + n] = <<m + 1, n>>
  BY <1>1, <1>2
<1> HIDE DEF p
<1>10. \A x \in Q : \E k \in 1 .. a + b : p[k] = x
  <2> TAKE x \in Q
  <2>1. CASE x \in P
    <3>1. PICK k \in 1 .. a : o[k] = x
      BY <1>2, <2>1
    <3> QED BY <1>8, <3>1
  <2>2. CASE \E n \in 1 .. b : x = <<m + 1, n>>
    <3>1. PICK n \in 1 .. b : x = <<m + 1, n>>
      BY <2>2
    <3> QED BY <1>9, <3>1
  <2> QED BY <1>4, <2>1, <2>2
<1>11. ASSUME NEW i \in 1 .. a + b, NEW j \in 1 .. a + b, p[i] = p[j] PROVE i = j
  <2>1. CASE i \in 1 .. a /\ p[i] = o[i] /\ j \in 1 .. a /\ p[j] = o[j]
    BY <1>2, <1>11, <2>1
  <2>2. CASE p[i] = <<m + 1, i - a>> /\ p[j] = <<m + 1, j - a>>
    <3>1. p[i][2] = i - a /\ p[j][2] = j - a
      BY <2>2
    <3>2. i \in Nat /\ j \in Nat
      BY <1>1, <1>2
    <3> QED BY <1>2, <1>11, <3>1, <3>2
  <2>3. \A k \in 1 .. a : o[k][1] # m + 1
    BY <1>2, <1>5
  <2>4. CASE i \in 1 .. a /\ p[i] = o[i] /\ p[j] = <<m + 1, j - a>>
    <3>1. p[j][1] = m + 1
      BY <2>4
    <3> QED BY <1>11, <2>3, <2>4, <3>1
  <2>5. CASE j \in 1 .. a /\ p[j] = o[j] /\ p[i] = <<m + 1, i - a>>
    <3>1. p[i][1] = m + 1
      BY <2>5
    <3> QED BY <1>11, <2>3, <2>5, <3>1
  <2> QED BY <1>6, <2>1, <2>2, <2>4, <2>5
<1>12. Enumerates(p, Q) /\ IsFiniteSet(Q) /\ Len(p) = a + b
  <2>1. a + b \in Nat /\ \A i, j \in 1 .. a + b : p[i] = p[j] => i = j
    BY <1>1, <1>2, <1>11
  <2> QED BY <1>7, <1>10, <2>1, EnumeratesBy
<1>13. ASSUME NEW k \in 1 .. a + b PROVE (f \o s)[k] = seqs[p[k][1]][p[k][2]]
  <2>1. CASE k \in 1 .. a /\ p[k] = o[k]
    BY <1>2, <1>3, <2>1
  <2>2. CASE ~(k <= a) /\ p[k] = <<m + 1, k - a>>
    BY <1>3, <2>2 DEF s
  <2> QED BY <1>6, <2>1, <2>2
<1>14. ASSUME NEW i \in 1 .. a + b, NEW j \in 1 .. a + b, i < j PROVE Earlier(p[i], p[j])
  <2>1. CASE j \in 1 .. a /\ p[j] = o[j]
    <3>1. i \in 1 .. a
      BY <1>14, <2>1, <1>2
    <3> QED BY <1>2, <1>8, <1>14, <2>1, <3>1
  <2>2. CASE ~(j <= a) /\ p[j] = <<m + 1, j - a>>
    <3>1. CASE i \in 1 .. a /\ p[i] = o[i]
      <4>1. p[i][1] < p[j][1]
        BY <1>2, <1>5, <2>2, <3>1
      <4> QED BY <4>1 DEF Earlier
    <3>2. CASE p[i] = <<m + 1, i - a>>
      BY <1>2, <1>14, <2>2, <3>2 DEF Earlier
    <3> QED BY <1>6, <3>1, <3>2
  <2> QED BY <1>6, <2>1, <2>2
<1>15. Joins(f \o s, p, seqs, m + 1)
  BY <1>3, <1>12, <1>13, <1>14 DEF Joins, Q
<1> QED BY <1>15 DEF s

\* The partial results of FlattenSeq, as far as n.
Flattening(g, seqs, n) ==
    g = [i \in 1 .. n |-> IF i = 1 THEN seqs[i] ELSE g[i - 1] \o seqs[i]]

\* The partial results are those of a function that exists.
LEMMA FlatteningExists ==
    ASSUME NEW seqs, NEW n \in Nat
    PROVE  \E g : Flattening(g, seqs, n)
<1> DEFINE S == {m \in Nat : \E g : Flattening(g, seqs, m)}
<1>1. 0 \in S
  <2>1. Flattening(<<>>, seqs, 0)
    BY DEF Flattening
  <2> QED BY <2>1
<1>2. ASSUME NEW m \in Nat, m \in S PROVE m + 1 \in S
  <2>1. PICK g : Flattening(g, seqs, m)
    BY <1>2
  <2> DEFINE e(i) == IF i = 1 THEN seqs[i] ELSE g[i - 1] \o seqs[i]
             h == [i \in 1 .. m + 1 |-> e(i)]
  <2>2. \A i \in 1 .. m : g[i] = e(i)
    BY <2>1 DEF Flattening
  <2>3. \A i \in 1 .. m : h[i] = e(i)
    <3> HIDE DEF e
    <3> QED OBVIOUS
  <2> HIDE DEF h
  <2>4. \A i \in 1 .. m : h[i] = g[i]
    BY <2>2, <2>3
  <2>5. \A i \in 1 .. m + 1 : e(i) = IF i = 1 THEN seqs[i] ELSE h[i - 1] \o seqs[i]
    BY <2>4
  <2>6. h = [i \in 1 .. m + 1 |-> IF i = 1 THEN seqs[i] ELSE h[i - 1] \o seqs[i]]
    <3> DEFINE d(i) == IF i = 1 THEN seqs[i] ELSE h[i - 1] \o seqs[i]
    <3>1. \A i \in 1 .. m + 1 : e(i) = d(i)
      BY <2>5
    <3>2. h = [i \in 1 .. m + 1 |-> e(i)]
      BY DEF h
    <3> HIDE DEF e, d
    <3>3. h = [i \in 1 .. m + 1 |-> d(i)]
      BY <3>1, <3>2
    <3> QED BY <3>3 DEF d
  <2>7. Flattening(h, seqs, m + 1)
    BY <2>6 DEF Flattening
  <2> QED BY <2>7
<1> HIDE DEF S
<1>3. \A m \in Nat : m \in S
  BY <1>1, <1>2, Upward
<1> QED BY <1>3 DEF S

\* What FlattenSeq makes of a sequence of sequences.
LEMMA FlattenIs ==
    ASSUME NEW T, NEW seqs \in Seq(Seq(T))
    PROVE  /\ FlattenSeq(seqs) \in Seq(T)
           /\ \E o : Joins(FlattenSeq(seqs), o, seqs, Len(seqs))
<1> DEFINE N == Len(seqs)
<1>0. N \in Nat
  BY LenProperties
<1>1. CASE N = 0
  <2>1. seqs = <<>>
    BY <1>1, EmptySeq
  <2>2. FlattenSeq(seqs) = <<>>
    BY <1>1, <2>1 DEF FlattenSeq
  <2>3. Joins(<<>>, <<>>, seqs, 0) /\ <<>> \in Seq(T)
    BY JoinsNone
  <2> QED BY <1>1, <2>2, <2>3
<1>2. CASE N # 0
  <2> DEFINE g == CHOOSE flatten : flatten = [i \in 1 .. N |-> IF i = 1 THEN seqs[i] ELSE flatten[i - 1] \o seqs[i]]
  <2>1. FlattenSeq(seqs) = g[N]
    BY <1>2 DEF FlattenSeq
  <2>2. g = [i \in 1 .. N |-> IF i = 1 THEN seqs[i] ELSE g[i - 1] \o seqs[i]]
    BY <1>0, FlatteningExists, Zenon DEF Flattening
  <2> HIDE DEF g
  <2>3. g[1] = seqs[1] /\ \A i \in 1 .. N : i # 1 => g[i] = g[i - 1] \o seqs[i]
    <3>1. 1 \in 1 .. N
      BY <1>0, <1>2
    <3> DEFINE e(i) == IF i = 1 THEN seqs[i] ELSE g[i - 1] \o seqs[i]
    <3>2. g = [i \in 1 .. N |-> e(i)]
      BY <2>2
    <3>3. e(1) = seqs[1] /\ \A i \in 1 .. N : i # 1 => e(i) = g[i - 1] \o seqs[i]
      OBVIOUS
    <3> HIDE DEF e
    <3> QED BY <3>1, <3>2, <3>3
  <2> DEFINE S == {m \in Nat : m + 1 <= N => g[m + 1] \in Seq(T) /\ \E o : Joins(g[m + 1], o, seqs, m + 1)}
  <2>4. 0 \in S
    <3>1. \E p : Joins(<<>> \o seqs[1], p, seqs, 1)
      <4>1. <<>> \in Seq(T) /\ 0 + 1 \in 1 .. Len(seqs) /\ 0 \in Nat
        BY <1>0, <1>2
      <4>2. Joins(<<>>, <<>>, seqs, 0)
        BY JoinsNone
      <4>3. \E p : Joins(<<>> \o seqs[0 + 1], p, seqs, 0 + 1)
        BY <4>1, <4>2, JoinsOneMore
      <4> QED BY <4>3
    <3>2. seqs[1] \in Seq(T)
      BY <1>0, <1>2, ElementOfSeq
    <3>3. <<>> \o seqs[1] = seqs[1]
      BY <3>2, ConcatEmptySeq
    <3> QED BY <2>3, <3>1, <3>2, <3>3
  <2>5. ASSUME NEW m \in Nat, m \in S PROVE m + 1 \in S
    <3> SUFFICES ASSUME m + 2 <= N
                 PROVE  g[m + 2] \in Seq(T) /\ \E o : Joins(g[m + 2], o, seqs, m + 2)
      OBVIOUS
    <3>1. g[m + 1] \in Seq(T)
      BY <1>0, <2>5
    <3>2. PICK o : Joins(g[m + 1], o, seqs, m + 1)
      BY <1>0, <2>5
    <3>3. g[m + 2] = g[m + 1] \o seqs[m + 2]
      <4>1. m + 2 \in 1 .. N /\ m + 2 # 1 /\ (m + 2) - 1 = m + 1
        BY <1>0
      <4> QED BY <2>3, <4>1
    <3>4. seqs[m + 2] \in Seq(T)
      BY <1>0, ElementOfSeq
    <3>5. g[m + 2] \in Seq(T)
      BY <3>1, <3>3, <3>4, ConcatProperties
    <3>6. \E p : Joins(g[m + 1] \o seqs[(m + 1) + 1], p, seqs, (m + 1) + 1)
      <4>1. m + 1 \in Nat /\ (m + 1) + 1 \in 1 .. Len(seqs)
        BY <1>0
      <4> QED BY <3>1, <3>2, <4>1, JoinsOneMore
    <3>7. (m + 1) + 1 = m + 2
      OBVIOUS
    <3> QED BY <3>3, <3>5, <3>6, <3>7
  <2> HIDE DEF S
  <2>6. \A m \in Nat : m \in S
    BY <2>4, <2>5, Upward
  <2>7. N - 1 \in Nat /\ (N - 1) + 1 = N
    BY <1>0, <1>2
  <2>8. g[N] \in Seq(T) /\ \E o : Joins(g[N], o, seqs, N)
    <3>1. N - 1 \in S /\ (N - 1) + 1 <= N
      BY <1>0, <2>6, <2>7
    <3>2. g[(N - 1) + 1] \in Seq(T) /\ \E o : Joins(g[(N - 1) + 1], o, seqs, (N - 1) + 1)
      BY <3>1 DEF S
    <3> QED BY <2>7, <3>2
  <2> QED BY <2>1, <2>8
<1> QED BY <1>1, <1>2

Least2(m, n) == IF m < n THEN m ELSE n

\* What Cut leaves: the first rows, and no more than the limit.
LEMMA CutIs ==
    ASSUME NEW T, NEW s \in Seq(T), NEW limit \in Nat
    PROVE  /\ Cut(s, limit) \in Seq(T)
           /\ Len(Cut(s, limit)) = Least2(limit, Len(s)) /\ Len(Cut(s, limit)) \in Nat
           /\ Len(Cut(s, limit)) <= limit /\ Len(Cut(s, limit)) <= Len(s)
           /\ \A i \in 1 .. Len(Cut(s, limit)) : i \in 1 .. Len(s) /\ Cut(s, limit)[i] = s[i]
<1> DEFINE n == Least2(limit, Len(s))
           c == SubSeq(s, 1, n)
<1>1. Len(s) \in Nat /\ n \in Nat /\ n <= limit /\ n <= Len(s)
  BY LenProperties DEF Least2
<1>2. Cut(s, limit) = c
  BY DEF Cut, Least2
<1>3. \A i \in 1 .. n : s[i] \in T
  BY <1>1, ElementOfSeq
<1>4. /\ c \in Seq(T) /\ Len(c) = IF 1 <= n THEN n - 1 + 1 ELSE 0
      /\ \A i \in 1 .. n - 1 + 1 : c[i] = s[1 + i - 1]
  <2> HIDE DEF n
  <2> QED BY <1>1, <1>3, SubSeqProperties
<1> HIDE DEF n, c
<1>5. Len(c) = n /\ \A i \in 1 .. n : c[i] = s[i]
  BY <1>1, <1>4
<1> QED BY <1>1, <1>2, <1>4, <1>5 DEF n

\* Mapping the elements of a listing.
LEMMA MappedIs ==
    ASSUME NEW T, NEW S, NEW rows, \A i \in S : rows[i] \in T, NEW o \in Seq(S),
           NEW r, r = [n \in 1 .. Len(o) |-> rows[o[n]]]
    PROVE  r \in Seq(T) /\ Len(r) = Len(o) /\ Len(o) \in Nat /\ DOMAIN r = 1 .. Len(o)
           /\ \A n \in 1 .. Len(o) : o[n] \in S /\ r[n] = rows[o[n]]
<1>1. Len(o) \in Nat /\ \A n \in 1 .. Len(o) : o[n] \in S
  BY ElementOfSeq, LenProperties
<1>2. r \in [1 .. Len(o) -> T]
  BY <1>1
<1>3. r \in Seq(T) /\ Len(r) = Len(o)
  <2> QED BY <1>1, <1>2, Listing
<1> QED BY <1>1, <1>3

\* The places at which an id is met first.
Firsts(rows) == {i \in 1 .. Len(rows) : \A j \in 1 .. i - 1 : rows[j].id # rows[i].id}

\* No id is in the list twice.
Distinct(list) == \A i, j \in 1 .. Len(list) : list[i].id = list[j].id => i = j

\* Deduped keeps the first row of every id, in the order of the rows.
DedupedBy(r, o, rows) ==
    /\ Len(r) \in Nat /\ Len(r) = Len(o) /\ Len(r) = Cardinality(Firsts(rows))
    /\ \A n \in 1 .. Len(r) : o[n] \in Firsts(rows) /\ r[n] = rows[o[n]]
    /\ \A m, n \in 1 .. Len(r) : m < n <=> o[m] < o[n]
    /\ \A m, n \in 1 .. Len(r) : r[m].id = r[n].id => m = n
    /\ \A i \in 1 .. Len(rows) : \E n \in 1 .. Len(r) : o[n] <= i /\ r[n].id = rows[i].id

\* Every id stays once, at its first row.
LEMMA DedupedIs ==
    ASSUME NEW T, NEW rows \in Seq(T)
    PROVE  /\ Deduped(rows) \in Seq(T)
           /\ \E o : DedupedBy(Deduped(rows), o, rows)
<1> DEFINE F == Firsts(rows)
           o == Ascending(F)
           r == Deduped(rows)
<1>0. Len(rows) \in Nat /\ DOMAIN rows = 1 .. Len(rows) /\ \A i \in 1 .. Len(rows) : rows[i] \in T
  BY ElementOfSeq, LenProperties
<1>1. F \in SUBSET Nat /\ IsFiniteSet(F) /\ \A i \in F : i \in 1 .. Len(rows)
  <2>1. IsFiniteSet(1 .. Len(rows))
    BY <1>0, FS_Interval
  <2>2. F \in SUBSET (1 .. Len(rows))
    BY DEF Firsts
  <2>3. F \in SUBSET Nat /\ \A i \in F : i \in 1 .. Len(rows)
    BY <1>0 DEF Firsts
  <2> HIDE DEF F
  <2>4. IsFiniteSet(F)
    BY <2>1, <2>2, FS_Subset
  <2> QED BY <2>3, <2>4
<1>2. Enumerates(o, F) /\ \A m, n \in 1 .. Len(o) : m < n <=> o[m] < o[n]
  <2> HIDE DEF F
  <2> QED BY <1>1, AscendingIs
<1>3. r = [n \in 1 .. Len(o) |-> rows[o[n]]]
  <2>1. F = {i \in DOMAIN rows : \A j \in 1 .. i - 1 : rows[j].id # rows[i].id}
    BY <1>0 DEF Firsts
  <2>2. r = [i \in DOMAIN o |-> rows[o[i]]]
    BY <2>1, Zenon DEF Deduped
  <2> QED BY <1>2, <2>2 DEF Enumerates
<1>4. o \in Seq(F) /\ \A i \in F : rows[i] \in T
  BY <1>0, <1>1, <1>2 DEF Enumerates
<1> HIDE DEF r, o, F
<1>5. r \in Seq(T) /\ Len(r) = Len(o) /\ Len(r) \in Nat /\ \A n \in 1 .. Len(r) : o[n] \in F /\ r[n] = rows[o[n]]
  BY <1>3, <1>4, MappedIs
<1>6. \A m, n \in 1 .. Len(r) : r[m].id = r[n].id => m = n
  <2> SUFFICES ASSUME NEW m \in 1 .. Len(r), NEW n \in 1 .. Len(r), m < n, r[m].id = r[n].id PROVE FALSE
    BY <1>5
  <2>1. o[m] < o[n] /\ o[m] \in F /\ o[n] \in F
    BY <1>2, <1>5
  <2>2. o[m] \in 1 .. o[n] - 1
    <3>1. o[m] \in 1 .. Len(rows) /\ o[n] \in 1 .. Len(rows)
      BY <1>1, <2>1
    <3> QED BY <1>0, <2>1, <3>1
  <2>3. rows[o[m]].id # rows[o[n]].id
    BY <2>1, <2>2 DEF F, Firsts
  <2> QED BY <1>5, <2>3
<1>7. ASSUME NEW i \in 1 .. Len(rows)
      PROVE  \E n \in 1 .. Len(r) : o[n] <= i /\ r[n].id = rows[i].id
  <2> DEFINE E == {j \in 1 .. Len(rows) : rows[j].id = rows[i].id}
  <2>1. E \in SUBSET Nat /\ E # {} /\ i \in E
    OBVIOUS
  <2>2. PICK j \in E : \A k \in E : j <= k
    <3> HIDE DEF E
    <3> QED BY <2>1, Least
  <2>3. j \in F
    BY <1>0, <2>2 DEF F, Firsts
  <2>4. PICK n \in 1 .. Len(o) : o[n] = j
    BY <1>2, <2>3 DEF Enumerates
  <2>5. j <= i /\ rows[j].id = rows[i].id
    BY <2>1, <2>2
  <2> QED BY <1>5, <2>4, <2>5
<1>8. DedupedBy(r, o, rows)
  BY <1>2, <1>5, <1>6, <1>7 DEF DedupedBy, Enumerates, F
<1> QED BY <1>5, <1>8 DEF r

\* r has the first `limit` of the rows by score.
TopBy(r, o, rows, d, limit) ==
    /\ Len(r) \in Nat /\ Len(r) = Least2(limit, Len(rows))
    /\ \A n \in 1 .. Len(r) : o[n] \in 1 .. Len(rows) /\ r[n] = rows[o[n]]
    /\ \A m, n \in 1 .. Len(r) : o[m] = o[n] => m = n
    /\ \A m, n \in 1 .. Len(r) : m < n => ~Better(d, r[n].score, r[m].score)
    /\ \A i \in 1 .. Len(rows) :
          \/ \E n \in 1 .. Len(r) : o[n] = i
          \/ Len(r) = limit /\ \A n \in 1 .. Len(r) : ~Better(d, rows[i].score, r[n].score)

\* Sorting and cutting leave the best.
LEMMA TopIs ==
    ASSUME NEW T, NEW rows \in Seq(T), \A i \in 1 .. Len(rows) : rows[i].score \in Int,
           NEW d \in BOOLEAN, NEW limit \in Nat
    PROVE  /\ StableSort(rows, d) \in Seq(T)
           /\ Cut(StableSort(rows, d), limit) \in Seq(T)
           /\ \E o : TopBy(Cut(StableSort(rows, d), limit), o, rows, d, limit)
<1> DEFINE s == StableSort(rows, d)
           r == Cut(s, limit)
           N == Len(rows)
<1>0. N \in Nat /\ \A i \in 1 .. N : rows[i] \in T
  BY ElementOfSeq, LenProperties
<1>1. PICK o : /\ Enumerates(o, 1 .. N) /\ Len(o) = N
               /\ s = [n \in 1 .. N |-> rows[o[n]]]
               /\ \A m, n \in 1 .. N :
                     m < n => \/ Better(d, rows[o[m]].score, rows[o[n]].score)
                              \/ rows[o[m]].score = rows[o[n]].score /\ o[m] < o[n]
  BY SortIs
<1> HIDE DEF s
<1>2. s \in Seq(T) /\ Len(s) = N /\ \A n \in 1 .. N : o[n] \in 1 .. N /\ s[n] = rows[o[n]]
  <2>1. o \in Seq(1 .. N) /\ s = [n \in 1 .. Len(o) |-> rows[o[n]]]
    BY <1>1 DEF Enumerates
  <2> HIDE DEF N
  <2> QED BY <1>0, <1>1, <2>1, MappedIs
<1>3. /\ r \in Seq(T) /\ Len(r) = Least2(limit, N) /\ Len(r) \in Nat
      /\ Len(r) <= limit /\ Len(r) <= N
      /\ \A i \in 1 .. Len(r) : i \in 1 .. N /\ r[i] = s[i]
  BY <1>2, CutIs
<1> HIDE DEF r, N
<1>4. \A n \in 1 .. Len(r) : o[n] \in 1 .. N /\ r[n] = rows[o[n]]
  BY <1>2, <1>3
<1>5. \A n \in 1 .. N : rows[o[n]].score \in Int
  BY <1>2 DEF N
<1>6. ASSUME NEW m \in 1 .. N, NEW n \in 1 .. N, m < n
      PROVE  ~Better(d, rows[o[n]].score, rows[o[m]].score)
  <2>1. \/ Better(d, rows[o[m]].score, rows[o[n]].score)
        \/ rows[o[m]].score = rows[o[n]].score
    BY <1>1, <1>6
  <2>2. CASE d
    BY <1>5, <2>1, <2>2 DEF Better
  <2>3. CASE ~d
    BY <1>5, <2>1, <2>3 DEF Better
  <2> QED BY <2>2, <2>3
<1>7. \A m, n \in 1 .. Len(r) : o[m] = o[n] => m = n
  BY <1>1, <1>3 DEF Enumerates
<1>8. \A m, n \in 1 .. Len(r) : m < n => ~Better(d, r[n].score, r[m].score)
  BY <1>3, <1>4, <1>6
<1>9. ASSUME NEW i \in 1 .. N, ~ \E n \in 1 .. Len(r) : o[n] = i
      PROVE  Len(r) = limit /\ \A n \in 1 .. Len(r) : ~Better(d, rows[i].score, r[n].score)
  <2>1. PICK k \in 1 .. N : o[k] = i
    BY <1>1 DEF Enumerates
  <2>2. k \notin 1 .. Len(r)
    BY <1>9, <2>1
  <2>3. Len(r) < k
    BY <1>0, <1>3, <2>2
  <2>4. Len(r) = limit
    BY <1>0, <1>3, <2>3 DEF Least2
  <2>5. \A n \in 1 .. Len(r) : n < k /\ n \in 1 .. N
    BY <1>0, <1>3, <2>3
  <2> QED BY <1>4, <1>6, <2>1, <2>4, <2>5
<1>10. TopBy(r, o, rows, d, limit)
  BY <1>3, <1>4, <1>7, <1>8, <1>9 DEF TopBy, N
<1> QED BY <1>2, <1>3, <1>10 DEF r, s

-----------------------------------------------------------------------------
(* Sums and products over finite sets                                      *)

\* The element that a fold takes first.
Pick(s) == CHOOSE x \in s : TRUE

\* g folds the subsets of S, b being the result for the empty one.
FoldsTo(g, S, V, b, e) ==
    /\ g \in [SUBSET S -> V]
    /\ \A s \in SUBSET S : g[s] = IF s = {} THEN b ELSE e[<<s, g[s \ {Pick(s)}]>>]

\* A function defined on the subsets of a finite set, each from one with an element less.
LEMMA FoldExists ==
    ASSUME NEW S, IsFiniteSet(S), NEW V, NEW b \in V, NEW e \in [(SUBSET S) \X V -> V]
    PROVE  \E g : FoldsTo(g, S, V, b, e)
<1> DEFINE Of(n) == {s \in SUBSET S : Cardinality(s) <= n}
           Rec(g, D) == \A s \in D : g[s] = IF s = {} THEN b ELSE e[<<s, g[s \ {Pick(s)}]>>]
           I == {n \in Nat : \E g \in [Of(n) -> V] : Rec(g, Of(n))}
<1>1. \A s \in SUBSET S : IsFiniteSet(s) /\ Cardinality(s) \in Nat /\ Cardinality(s) <= Cardinality(S)
  BY FS_Subset, FS_CardinalityType
<1>2. \A s \in SUBSET S : s # {} => /\ Pick(s) \in s /\ s \ {Pick(s)} \in SUBSET S
                                    /\ Cardinality(s \ {Pick(s)}) = Cardinality(s) - 1
  <2> TAKE s \in SUBSET S
  <2> HAVE s # {}
  <2>1. Pick(s) \in s
    BY DEF Pick
  <2> QED BY <1>1, <2>1, FS_RemoveElement
<1>3. \A s \in SUBSET S : Cardinality(s) = 0 <=> s = {}
  BY <1>1, FS_EmptySet
<1>4. 0 \in I
  <2> DEFINE g == [s \in Of(0) |-> b]
  <2>1. g \in [Of(0) -> V]
    OBVIOUS
  <2>2. \A s \in Of(0) : s = {} /\ g[s] = b
    BY <1>1, <1>3
  <2>3. Rec(g, Of(0))
    BY <2>2
  <2> HIDE DEF g, Rec, Of
  <2> QED BY <2>1, <2>3
<1>5. ASSUME NEW n \in Nat, n \in I PROVE n + 1 \in I
  <2>1. PICK g \in [Of(n) -> V] : Rec(g, Of(n))
    BY <1>5
  <2> DEFINE v(s) == IF s = {} THEN b ELSE e[<<s, g[s \ {Pick(s)}]>>]
             h == [s \in Of(n + 1) |-> v(s)]
  <2>2. \A s \in Of(n + 1) : s # {} => s \ {Pick(s)} \in Of(n)
    BY <1>1, <1>2
  <2>3. \A s \in Of(n + 1) : s \in SUBSET S /\ v(s) \in V
    BY <2>2
  <2>4. \A s \in Of(n) : s \in Of(n + 1) /\ g[s] = v(s)
    <3> TAKE s \in Of(n)
    <3>1. s \in SUBSET S /\ Cardinality(s) \in Nat /\ Cardinality(s) <= n + 1
      BY <1>1
    <3>2. g[s] = v(s)
      BY <2>1
    <3> QED BY <3>1, <3>2
  <2> HIDE DEF Of
  <2>5. h \in [Of(n + 1) -> V] /\ \A s \in Of(n + 1) : h[s] = v(s)
    <3> HIDE DEF v
    <3> QED BY <2>3
  <2> HIDE DEF h
  <2>6. \A s \in Of(n) : h[s] = g[s]
    BY <2>4, <2>5
  <2>7. Rec(h, Of(n + 1))
    <3> SUFFICES ASSUME NEW s \in Of(n + 1)
                 PROVE  h[s] = IF s = {} THEN b ELSE e[<<s, h[s \ {Pick(s)}]>>]
      OBVIOUS
    <3> QED BY <2>2, <2>5, <2>6
  <2> HIDE DEF Rec
  <2> QED BY <2>5, <2>7
<1> HIDE DEF I
<1>6. Cardinality(S) \in I
  <2>1. \A n \in Nat : n \in I
    BY <1>4, <1>5, Upward
  <2> QED BY <2>1, FS_CardinalityType
<1>7. Of(Cardinality(S)) = SUBSET S
  BY <1>1
<1> HIDE DEF Of
<1>8. \E g \in [SUBSET S -> V] : Rec(g, SUBSET S)
  BY <1>6, <1>7 DEF I
<1> QED BY <1>8 DEF FoldsTo

\* Of what holds of the empty set, and of a set if it holds of one with an element less.
LEMMA FoldInduction ==
    ASSUME NEW S, IsFiniteSet(S), NEW G, {} \in G,
           \A s \in SUBSET S : s # {} /\ s \ {Pick(s)} \in G => s \in G
    PROVE  \A s \in SUBSET S : s \in G
<1> DEFINE I == {n \in Nat : \A s \in SUBSET S : Cardinality(s) <= n => s \in G}
<1>1. \A s \in SUBSET S : IsFiniteSet(s) /\ Cardinality(s) \in Nat
  BY FS_Subset, FS_CardinalityType
<1>2. \A s \in SUBSET S : Cardinality(s) = 0 <=> s = {}
  BY <1>1, FS_EmptySet
<1>3. 0 \in I
  BY <1>1, <1>2
<1>4. ASSUME NEW n \in Nat, n \in I PROVE n + 1 \in I
  <2> SUFFICES ASSUME NEW s \in SUBSET S, Cardinality(s) <= n + 1 PROVE s \in G
    OBVIOUS
  <2>1. CASE s = {}
    BY <2>1
  <2>2. CASE s # {}
    <3>1. Pick(s) \in s
      BY <2>2 DEF Pick
    <3>2. Cardinality(s \ {Pick(s)}) = Cardinality(s) - 1
      BY <1>1, <3>1, FS_RemoveElement
    <3>3. s \ {Pick(s)} \in SUBSET S /\ Cardinality(s \ {Pick(s)}) <= n
      BY <1>1, <3>2
    <3>4. s \ {Pick(s)} \in G
      BY <1>4, <3>3
    <3> QED BY <2>2, <3>4
  <2> QED BY <2>1, <2>2
<1> HIDE DEF I
<1>5. \A n \in Nat : n \in I
  BY <1>3, <1>4, Upward
<1>6. ASSUME NEW s \in SUBSET S PROVE s \in G
  <2>1. Cardinality(s) \in I /\ Cardinality(s) \in Nat
    BY <1>1, <1>5
  <2> QED BY <2>1 DEF I
<1> QED BY <1>6

\* i has the sums over the subsets of S.
SumsOver(i, S, f) ==
    \A s \in SUBSET S : i[s] = IF s = {} THEN 0 ELSE f[Pick(s)] + i[s \ {Pick(s)}]

\* The sum of a function on a finite set.
LEMMA SumIs ==
    ASSUME NEW S, IsFiniteSet(S), NEW f \in [S -> Int]
    PROVE  SumFunction(f) \in Int /\ \E i \in [SUBSET S -> Int] : SumsOver(i, S, f) /\ SumFunction(f) = i[S]
<1> DEFINE it == CHOOSE iter : iter = [s \in SUBSET (DOMAIN f) |->
                    IF s = {} THEN 0 ELSE f[CHOOSE x \in s : TRUE] + iter[s \ {CHOOSE x \in s : TRUE}]]
           e == [p \in (SUBSET S) \X Int |-> IF p[1] = {} THEN 0 ELSE f[Pick(p[1])] + p[2]]
<1>1. SumFunction(f) = it[DOMAIN f]
  BY DEF SumFunction, SumFunctionOnSet, FoldFunctionOnSet, MapThenFoldSet
<1>2. DOMAIN f = S
  OBVIOUS
<1>3. \A s \in SUBSET S : s # {} => Pick(s) \in S /\ f[Pick(s)] \in Int /\ s \ {Pick(s)} \in SUBSET S
  BY DEF Pick
<1>4. e \in [(SUBSET S) \X Int -> Int] /\ \A s \in SUBSET S, v \in Int : s # {} => e[<<s, v>>] = f[Pick(s)] + v
  <2>1. \A p \in (SUBSET S) \X Int : (IF p[1] = {} THEN 0 ELSE f[Pick(p[1])] + p[2]) \in Int
    BY <1>3
  <2> QED BY <2>1
<1> HIDE DEF e
<1>5. PICK g \in [SUBSET S -> Int] :
         \A s \in SUBSET S : g[s] = IF s = {} THEN 0 ELSE e[<<s, g[s \ {Pick(s)}]>>]
  <2>1. 0 \in Int
    OBVIOUS
  <2>2. e \in [(SUBSET S) \X Int -> Int]
    BY <1>4
  <2>3. \E g : FoldsTo(g, S, Int, 0, e)
    BY <2>1, <2>2, FoldExists
  <2> QED BY <2>3 DEF FoldsTo
<1>6. SumsOver(g, S, f)
  BY <1>3, <1>4, <1>5 DEF SumsOver
<1>7. g = [s \in SUBSET S |-> IF s = {} THEN 0 ELSE f[Pick(s)] + g[s \ {Pick(s)}]]
  BY <1>6 DEF SumsOver
<1>8. it = [s \in SUBSET S |-> IF s = {} THEN 0 ELSE f[Pick(s)] + it[s \ {Pick(s)}]]
  <2>1. g = [s \in SUBSET (DOMAIN f) |->
               IF s = {} THEN 0 ELSE f[CHOOSE x \in s : TRUE] + g[s \ {CHOOSE x \in s : TRUE}]]
    BY <1>2, <1>7, Zenon DEF Pick
  <2>2. it = [s \in SUBSET (DOMAIN f) |->
                IF s = {} THEN 0 ELSE f[CHOOSE x \in s : TRUE] + it[s \ {CHOOSE x \in s : TRUE}]]
    BY <2>1, Zenon
  <2> QED BY <1>2, <2>2, Zenon DEF Pick
<1> HIDE DEF it
<1>9. SumsOver(it, S, f)
  BY <1>8 DEF SumsOver
<1> DEFINE G == {s \in SUBSET S : it[s] \in Int}
<1>10. {} \in G /\ \A s \in SUBSET S : s # {} /\ s \ {Pick(s)} \in G => s \in G
  <2>1. it[{}] = 0 /\ {} \in SUBSET S
    BY <1>9 DEF SumsOver
  <2>2. ASSUME NEW s \in SUBSET S, s # {}, it[s \ {Pick(s)}] \in Int PROVE it[s] \in Int
    <3>1. it[s] = f[Pick(s)] + it[s \ {Pick(s)}]
      BY <1>9, <2>2 DEF SumsOver
    <3> QED BY <1>3, <2>2, <3>1
  <2> QED BY <2>1, <2>2
<1>11. \A s \in SUBSET S : s \in G
  <2> HIDE DEF G
  <2> QED BY <1>10, FoldInduction
<1>12. it \in [SUBSET S -> Int]
  <2>1. \A s \in SUBSET S : it[s] \in Int
    BY <1>11
  <2>2. it = [s \in SUBSET S |-> it[s]]
    BY <1>8
  <2> QED BY <2>1, <2>2
<1>13. it[S] \in Int
  BY <1>12
<1> QED BY <1>1, <1>2, <1>9, <1>12, <1>13

\* A sum is no less than another if every term is.
LEMMA SumsCompare ==
    ASSUME NEW S, IsFiniteSet(S), NEW f \in [S -> Int], NEW g \in [S -> Int],
           \A x \in S : f[x] <= g[x]
    PROVE  SumFunction(f) <= SumFunction(g)
<1>1. PICK i \in [SUBSET S -> Int] : SumsOver(i, S, f) /\ SumFunction(f) = i[S]
  BY SumIs
<1>2. PICK j \in [SUBSET S -> Int] : SumsOver(j, S, g) /\ SumFunction(g) = j[S]
  BY SumIs
<1> DEFINE G == {s \in SUBSET S : i[s] <= j[s]}
<1>3. {} \in G
  <2>1. {} \in SUBSET S /\ i[{}] = 0 /\ j[{}] = 0
    BY <1>1, <1>2 DEF SumsOver
  <2> QED BY <2>1
<1>4. ASSUME NEW s \in SUBSET S, s # {}, s \ {Pick(s)} \in G PROVE s \in G
  <2>1. Pick(s) \in S /\ s \ {Pick(s)} \in SUBSET S
    BY <1>4 DEF Pick
  <2>2. i[s] = f[Pick(s)] + i[s \ {Pick(s)}] /\ j[s] = g[Pick(s)] + j[s \ {Pick(s)}]
    BY <1>1, <1>2, <1>4 DEF SumsOver
  <2>3. /\ f[Pick(s)] \in Int /\ g[Pick(s)] \in Int /\ f[Pick(s)] <= g[Pick(s)]
        /\ i[s \ {Pick(s)}] \in Int /\ j[s \ {Pick(s)}] \in Int
        /\ i[s \ {Pick(s)}] <= j[s \ {Pick(s)}]
    BY <1>4, <2>1
  <2>4. i[s] <= j[s]
    BY <2>2, <2>3
  <2> QED BY <2>4
<1> HIDE DEF G
<1>5. \A s \in SUBSET S : s \in G
  BY <1>3, <1>4, FoldInduction
<1>6. i[S] <= j[S]
  BY <1>5 DEF G
<1> QED BY <1>1, <1>2, <1>6

\* The product of a function on a finite set is a number.
LEMMA ProductIs ==
    ASSUME NEW S, IsFiniteSet(S), NEW f \in [S -> Nat]
    PROVE  Product(f) \in Nat
<1> DEFINE it == CHOOSE iter : iter = [s \in SUBSET (DOMAIN f) |->
                    IF s = {} THEN 1 ELSE f[CHOOSE x \in s : TRUE] * iter[s \ {CHOOSE x \in s : TRUE}]]
           e == [p \in (SUBSET S) \X Nat |-> IF p[1] = {} THEN 1 ELSE f[Pick(p[1])] * p[2]]
<1>1. Product(f) = it[DOMAIN f]
  BY DEF Product, FoldFunction, FoldFunctionOnSet, MapThenFoldSet
<1>2. DOMAIN f = S
  OBVIOUS
<1>3. \A s \in SUBSET S : s # {} => Pick(s) \in S /\ f[Pick(s)] \in Nat /\ s \ {Pick(s)} \in SUBSET S
  BY DEF Pick
<1>4. e \in [(SUBSET S) \X Nat -> Nat] /\ \A s \in SUBSET S, v \in Nat : s # {} => e[<<s, v>>] = f[Pick(s)] * v
  <2>1. \A p \in (SUBSET S) \X Nat : (IF p[1] = {} THEN 1 ELSE f[Pick(p[1])] * p[2]) \in Nat
    BY <1>3
  <2> QED BY <2>1
<1> HIDE DEF e
<1>5. PICK g \in [SUBSET S -> Nat] :
         \A s \in SUBSET S : g[s] = IF s = {} THEN 1 ELSE e[<<s, g[s \ {Pick(s)}]>>]
  <2>1. 1 \in Nat
    OBVIOUS
  <2>2. e \in [(SUBSET S) \X Nat -> Nat]
    BY <1>4
  <2>3. \E g : FoldsTo(g, S, Nat, 1, e)
    BY <2>1, <2>2, FoldExists
  <2> QED BY <2>3 DEF FoldsTo
<1>6. \A s \in SUBSET S : g[s] = IF s = {} THEN 1 ELSE f[Pick(s)] * g[s \ {Pick(s)}]
  BY <1>3, <1>4, <1>5
<1>7. g = [s \in SUBSET S |-> IF s = {} THEN 1 ELSE f[Pick(s)] * g[s \ {Pick(s)}]]
  BY <1>6
<1>8. it = [s \in SUBSET S |-> IF s = {} THEN 1 ELSE f[Pick(s)] * it[s \ {Pick(s)}]]
  <2>1. g = [s \in SUBSET (DOMAIN f) |->
               IF s = {} THEN 1 ELSE f[CHOOSE x \in s : TRUE] * g[s \ {CHOOSE x \in s : TRUE}]]
    BY <1>2, <1>7, Zenon DEF Pick
  <2>2. it = [s \in SUBSET (DOMAIN f) |->
                IF s = {} THEN 1 ELSE f[CHOOSE x \in s : TRUE] * it[s \ {CHOOSE x \in s : TRUE}]]
    BY <2>1, Zenon
  <2> QED BY <1>2, <2>2, Zenon DEF Pick
<1> HIDE DEF it
<1>9. \A s \in SUBSET S : it[s] = IF s = {} THEN 1 ELSE f[Pick(s)] * it[s \ {Pick(s)}]
  BY <1>8
<1> DEFINE G == {s \in SUBSET S : it[s] \in Nat}
<1>10. {} \in G /\ \A s \in SUBSET S : s # {} /\ s \ {Pick(s)} \in G => s \in G
  <2>1. it[{}] = 1 /\ {} \in SUBSET S
    BY <1>9
  <2>2. ASSUME NEW s \in SUBSET S, s # {}, it[s \ {Pick(s)}] \in Nat PROVE it[s] \in Nat
    <3>1. it[s] = f[Pick(s)] * it[s \ {Pick(s)}]
      BY <1>9, <2>2
    <3> QED BY <1>3, <2>2, <3>1
  <2> QED BY <2>1, <2>2
<1>11. \A s \in SUBSET S : s \in G
  <2> HIDE DEF G
  <2> QED BY <1>10, FoldInduction
<1> QED BY <1>1, <1>2, <1>11

-----------------------------------------------------------------------------
(* Partitions, metrics and the hits of a partition                         *)

\* The metric of the last document about the field is one, and no default matters.
LEMMA MetricIs ==
    ASSUME NEW docs \in Seq(IndexDocs), OfVec(docs) # {}
    PROVE  /\ \A d : LastMetric(docs, d) \in Metrics
           /\ \A d, e : LastMetric(docs, d) = LastMetric(docs, e)
<1>1. Len(docs) \in Nat /\ DOMAIN docs = 1 .. Len(docs) /\ \A i \in DOMAIN docs : docs[i] \in IndexDocs
  BY ElementOfSeq, LenProperties
<1>2. Max(OfVec(docs)) \in OfVec(docs)
  BY <1>1, MaxIs DEF OfVec
<1>3. docs[Max(OfVec(docs))].metric \in Metrics
  BY <1>1, <1>2 DEF OfVec, IndexDocs
<1> QED
  BY <1>3 DEF LastMetric

\* The catalog's partitions.
LEMMA PartsAre ==
    ASSUME CatalogOK
    PROVE  /\ Len(parts) \in Nat /\ DOMAIN parts = 1 .. Len(parts)
           /\ \A i \in DOMAIN parts : parts[i] \in PartNames /\ parts[i] \in ToSet(parts)
           /\ ToSet(parts) \subseteq PartNames
<1>1. parts \in Seq(PartNames)
  BY DEF CatalogOK
<1>2. Len(parts) \in Nat /\ DOMAIN parts = 1 .. Len(parts) /\ \A i \in DOMAIN parts : parts[i] \in PartNames
  BY <1>1, ElementOfSeq, LenProperties
<1> QED
  BY <1>2 DEF ToSet

\* An element of a search's answer.
Hit == [id : Keys \cup {0}, score : Int, shows : SUBSET {Scalar, Extra}]

\* Scores are numbers.
LEMMA ScoreIs ==
    ASSUME NEW m \in Metrics, NEW q \in Int, NEW v \in Int
    PROVE  Score(m, q, v) \in Int
<1>1. CASE m = "L2"
  <2>1. Score(m, q, v) = (q - v) * (q - v)
    BY <1>1 DEF Score
  <2>2. q - v \in Int
    OBVIOUS
  <2> QED BY <2>1, <2>2
<1>2. CASE m = "IP"
  <2>1. Score(m, q, v) = q * v
    BY <1>2 DEF Score
  <2> QED BY <2>1
<1>3. CASE m = "COSINE"
  <2>1. Score(m, q, v) = Sign(q) * Sign(v)
    BY <1>3 DEF Score
  <2>2. Sign(q) \in Int /\ Sign(v) \in Int
    BY DEF Sign
  <2> QED BY <2>1, <2>2
<1> QED BY <1>1, <1>2, <1>3, SearchAssumption

\* The rows of a partition.
LEMMA StoredIs ==
    ASSUME RowsOK, NEW p \in PartNames
    PROVE  /\ Stored(p) \in SUBSET Keys /\ Stored(p) \in SUBSET Nat /\ IsFiniteSet(Stored(p))
           /\ Cardinality(Stored(p)) \in Nat
           /\ \A k \in Stored(p) : store[p][k] \in Rows /\ k # 0
<1>1. Stored(p) \in SUBSET Keys /\ \A k \in Stored(p) : store[p][k] \in Rows
  BY DEF RowsOK
<1>2. IsFiniteSet(Keys) /\ Keys \subseteq Nat \ {0}
  BY SearchAssumption
<1>3. IsFiniteSet(Stored(p))
  BY <1>1, <1>2, FS_Subset
<1>4. Cardinality(Stored(p)) \in Nat
  BY <1>3, FS_CardinalityType
<1> QED BY <1>1, <1>2, <1>3, <1>4

\* The score that zvec gives a row.
ScoreOf(p, q, k) == Score(engine[p], q, store[p][k].at)

\* What zvec answers: the best rows of one partition.
HitsBy(h, p, q, limit) ==
    /\ h \in Seq([key : Keys, score : Int])
    /\ Len(h) \in Nat /\ Len(h) = Least2(limit, Cardinality(Stored(p)))
    /\ \A n \in 1 .. Len(h) : h[n].key \in Stored(p) /\ h[n].score = ScoreOf(p, q, h[n].key)
    /\ \A m, n \in 1 .. Len(h) : h[m].key = h[n].key => m = n
    /\ \A m, n \in 1 .. Len(h) : m < n => ~Better(Descending(engine[p]), h[n].score, h[m].score)
    /\ \A k \in Stored(p) :
          \/ \E n \in 1 .. Len(h) : h[n].key = k
          \/ Len(h) = limit /\ \A n \in 1 .. Len(h) :
                                  ~Better(Descending(engine[p]), ScoreOf(p, q, k), h[n].score)

\* The engine answers with the best rows of the partition.
LEMMA HitsAre ==
    ASSUME CatalogOK, RowsOK, NEW p \in PartNames, NEW q \in Int, NEW limit \in Nat
    PROVE  HitsBy(EngineQuery(p, q, limit), p, q, limit)
<1> DEFINE S == Stored(p)
           o == Ascending(S)
           T == [key : Keys, score : Int]
           s == [i \in DOMAIN o |-> [key |-> o[i], score |-> Score(engine[p], q, store[p][o[i]].at)]]
           d == Descending(engine[p])
           r == EngineQuery(p, q, limit)
<1>0. /\ S \in SUBSET Keys /\ S \in SUBSET Nat /\ IsFiniteSet(S) /\ Cardinality(S) \in Nat
      /\ \A k \in S : store[p][k] \in Rows
  BY StoredIs
<1>1. \A k \in S : ScoreOf(p, q, k) \in Int
  <2> TAKE k \in S
  <2>1. engine[p] \in Metrics /\ store[p][k].at \in Int
    BY <1>0, SearchAssumption DEF CatalogOK, Rows
  <2> QED BY <2>1, ScoreIs DEF ScoreOf
<1>2. Enumerates(o, S)
  <2> HIDE DEF S
  <2> QED BY <1>0, AscendingIs
<1>3. r = Cut(StableSort(s, d), limit)
  BY DEF EngineQuery
<1> HIDE DEF S, o, r
<1>4. DOMAIN o = 1 .. Len(o) /\ Len(o) = Cardinality(S) /\ \A n \in 1 .. Len(o) : o[n] \in S
  BY <1>2 DEF Enumerates
<1>5. s = [i \in 1 .. Len(o) |-> [key |-> o[i], score |-> ScoreOf(p, q, o[i])]]
  BY <1>4 DEF ScoreOf
<1>6. \A i \in 1 .. Len(o) : s[i] = [key |-> o[i], score |-> ScoreOf(p, q, o[i])]
  BY <1>5
<1>7. s \in [1 .. Len(o) -> T]
  <2>1. \A i \in 1 .. Len(o) : [key |-> o[i], score |-> ScoreOf(p, q, o[i])] \in T
    BY <1>0, <1>1, <1>4
  <2> QED BY <1>5, <2>1
<1> HIDE DEF s
<1>8. s \in Seq(T) /\ Len(s) = Len(o) /\ \A i \in 1 .. Len(s) : s[i].key = o[i] /\ s[i].score = ScoreOf(p, q, o[i])
  <2>1. s \in Seq(T) /\ Len(s) = Len(o)
    BY <1>0, <1>4, <1>7, Listing
  <2>2. \A i \in 1 .. Len(o) : s[i].key = o[i] /\ s[i].score = ScoreOf(p, q, o[i])
    <3> TAKE i \in 1 .. Len(o)
    <3>1. s[i] = [key |-> o[i], score |-> ScoreOf(p, q, o[i])]
      BY <1>6
    <3> QED BY <3>1
  <2> QED BY <2>1, <2>2
<1>9. \A i \in 1 .. Len(s) : s[i].score \in Int
  BY <1>1, <1>4, <1>8
<1>10. d \in BOOLEAN
  BY DEF Descending
<1> HIDE DEF d, T
<1>11. r \in Seq(T) /\ \E w : TopBy(r, w, s, d, limit)
  BY <1>3, <1>8, <1>9, <1>10, TopIs
<1>12. PICK w : TopBy(r, w, s, d, limit)
  BY <1>11
<1>13. /\ Len(r) \in Nat /\ Len(r) = Least2(limit, Cardinality(S))
       /\ \A n \in 1 .. Len(r) : w[n] \in 1 .. Len(s) /\ r[n] = s[w[n]]
       /\ \A m, n \in 1 .. Len(r) : w[m] = w[n] => m = n
       /\ \A m, n \in 1 .. Len(r) : m < n => ~Better(d, r[n].score, r[m].score)
       /\ \A i \in 1 .. Len(s) :
             \/ \E n \in 1 .. Len(r) : w[n] = i
             \/ Len(r) = limit /\ \A n \in 1 .. Len(r) : ~Better(d, s[i].score, r[n].score)
  BY <1>4, <1>8, <1>12 DEF TopBy
<1>14. \A n \in 1 .. Len(r) : r[n].key \in S /\ r[n].score = ScoreOf(p, q, r[n].key) /\ r[n].key = o[w[n]]
  BY <1>4, <1>8, <1>13
<1>15. \A m, n \in 1 .. Len(r) : r[m].key = r[n].key => m = n
  <2>1. \A i, j \in 1 .. Len(o) : o[i] = o[j] => i = j
    BY <1>2 DEF Enumerates
  <2> SUFFICES ASSUME NEW m \in 1 .. Len(r), NEW n \in 1 .. Len(r), r[m].key = r[n].key PROVE m = n
    OBVIOUS
  <2>2. o[w[m]] = o[w[n]] /\ w[m] \in 1 .. Len(o) /\ w[n] \in 1 .. Len(o)
    BY <1>8, <1>13, <1>14
  <2>3. w[m] = w[n]
    BY <2>1, <2>2
  <2> QED BY <1>13, <2>3
<1>16. ASSUME NEW k \in S
       PROVE  \/ \E n \in 1 .. Len(r) : r[n].key = k
              \/ Len(r) = limit /\ \A n \in 1 .. Len(r) : ~Better(d, ScoreOf(p, q, k), r[n].score)
  <2>1. PICK i \in 1 .. Len(s) : s[i].key = k /\ s[i].score = ScoreOf(p, q, k)
    BY <1>2, <1>8 DEF Enumerates
  <2>2. CASE \E n \in 1 .. Len(r) : w[n] = i
    BY <1>13, <2>1, <2>2
  <2>3. CASE Len(r) = limit /\ \A n \in 1 .. Len(r) : ~Better(d, s[i].score, r[n].score)
    BY <2>1, <2>3
  <2> QED BY <1>13, <2>2, <2>3
<1>17. HitsBy(r, p, q, limit)
  BY <1>11, <1>13, <1>14, <1>15, <1>16 DEF HitsBy, S, d, T
<1> QED BY <1>17 DEF r

\* The id that is shown is the key, or zero.
LEMMA ShownIs ==
    ASSUME RowsOK, NEW p \in PartNames, NEW k \in Stored(p), NEW c, NEW out
    PROVE  /\ Shown(p, k, c, out).id \in {k, 0} /\ Shown(p, k, c, out).id \in Keys \cup {0}
           /\ Shown(p, k, c, out).shows \in SUBSET {Scalar, Extra}
           /\ c # {} \/ store[p][k].column # "zero" => Shown(p, k, c, out).id = k
<1>1. k \in Keys /\ store[p][k] \in Rows
  BY DEF RowsOK
<1>2. store[p][k].fields \in SUBSET {Scalar, Extra}
  BY <1>1 DEF Rows
<1> QED BY <1>1, <1>2 DEF Shown

\* The entities of one partition, h[n].key being the key of the n-th.
EntitiesBy(e, h, p, q, limit, out) ==
    /\ e \in Seq(Hit) /\ Len(e) = Len(h) /\ HitsBy(h, p, q, limit)
    /\ \A n \in 1 .. Len(h) : /\ e[n].id = Shown(p, h[n].key, Columns(out), out).id
                              /\ e[n].score = h[n].score

\* Each of them becomes an entity with its id and its score.
LEMMA EntitiesAre ==
    ASSUME CatalogOK, RowsOK, NEW p \in PartNames, NEW q \in Int, NEW limit \in Nat, NEW out
    PROVE  EntitiesBy(Entities(p, q, limit, out), EngineQuery(p, q, limit), p, q, limit, out)
<1> DEFINE h == EngineQuery(p, q, limit)
           e == Entities(p, q, limit, out)
           x(i) == Shown(p, h[i].key, Columns(out), out)
<1>1. HitsBy(h, p, q, limit)
  BY HitsAre
<1>2. e = [i \in DOMAIN h |-> [id |-> x(i).id, shows |-> x(i).shows, score |-> h[i].score]]
  BY DEF Entities
<1> HIDE DEF h, e
<1>3. h \in Seq([key : Keys, score : Int]) /\ Len(h) \in Nat /\ \A n \in 1 .. Len(h) : h[n].key \in Stored(p)
  BY <1>1 DEF HitsBy
<1>4. DOMAIN h = 1 .. Len(h) /\ \A n \in 1 .. Len(h) : h[n].score \in Int
  <2>1. \A n \in 1 .. Len(h) : h[n] \in [key : Keys, score : Int]
    BY <1>3, ElementOfSeq
  <2> QED BY <1>3, <2>1, LenProperties
<1>5. \A n \in 1 .. Len(h) : x(n).id \in Keys \cup {0} /\ x(n).shows \in SUBSET {Scalar, Extra}
  BY <1>3, ShownIs
<1> HIDE DEF x
<1>6. \A n \in 1 .. Len(h) : e[n] = [id |-> x(n).id, shows |-> x(n).shows, score |-> h[n].score]
  BY <1>2, <1>4
<1>7. e \in [1 .. Len(h) -> Hit]
  <2>1. \A n \in 1 .. Len(h) : [id |-> x(n).id, shows |-> x(n).shows, score |-> h[n].score] \in Hit
    BY <1>4, <1>5 DEF Hit
  <2> QED BY <1>2, <1>4, <2>1
<1>8. e \in Seq(Hit) /\ Len(e) = Len(h)
  BY <1>3, <1>7, Listing
<1>9. \A n \in 1 .. Len(h) : e[n].id = x(n).id /\ e[n].score = h[n].score
  <2> TAKE n \in 1 .. Len(h)
  <2>1. e[n] = [id |-> x(n).id, shows |-> x(n).shows, score |-> h[n].score]
    BY <1>6
  <2> QED BY <2>1
<1>10. EntitiesBy(e, h, p, q, limit, out)
  BY <1>1, <1>8, <1>9 DEF EntitiesBy, x
<1> QED BY <1>10 DEF e, h

\* The partitions' answers, before they are merged.
Answers(ps, q, limit, out) == [i \in DOMAIN ps |-> Entities(ps[i], q, limit, out)]

\* Merging them gives hits.
LEMMA MergedIs ==
    ASSUME CatalogOK, RowsOK, NEW ps \in Seq(PartNames), NEW q \in Int, NEW limit \in Nat, NEW out
    PROVE  /\ Len(ps) \in Nat /\ Len(Answers(ps, q, limit, out)) = Len(ps)
           /\ \A i \in 1 .. Len(ps) : /\ ps[i] \in PartNames
                                      /\ Answers(ps, q, limit, out)[i] = Entities(ps[i], q, limit, out)
           /\ Merged(ps, q, limit, out) \in Seq(Hit)
           /\ \E o : Joins(Merged(ps, q, limit, out), o, Answers(ps, q, limit, out), Len(ps))
<1> DEFINE a == Answers(ps, q, limit, out)
<1>1. Len(ps) \in Nat /\ DOMAIN ps = 1 .. Len(ps) /\ \A i \in 1 .. Len(ps) : ps[i] \in PartNames
  BY ElementOfSeq, LenProperties
<1>2. \A i \in 1 .. Len(ps) : Entities(ps[i], q, limit, out) \in Seq(Hit)
  BY <1>1, EntitiesAre DEF EntitiesBy
<1>3. a = [i \in 1 .. Len(ps) |-> Entities(ps[i], q, limit, out)]
  BY <1>1 DEF Answers
<1>4. a \in [1 .. Len(ps) -> Seq(Hit)]
  BY <1>2, <1>3
<1>5. Merged(ps, q, limit, out) = FlattenSeq(a)
  BY DEF Merged, Answers
<1> HIDE DEF a
<1>6. a \in Seq(Seq(Hit)) /\ Len(a) = Len(ps)
  BY <1>1, <1>4, Listing
<1>7. FlattenSeq(a) \in Seq(Hit) /\ \E o : Joins(FlattenSeq(a), o, a, Len(a))
  BY <1>6, FlattenIs
<1>8. \A i \in 1 .. Len(ps) : a[i] = Entities(ps[i], q, limit, out)
  BY <1>3
<1> QED BY <1>1, <1>5, <1>6, <1>7, <1>8 DEF a

\* A search answers with hits, no id twice: all that the lists of a hybrid search need.
LEMMA SearchIs ==
    ASSUME CatalogOK, RowsOK, NEW ps \in Seq(PartNames), NEW q \in Int, NEW limit \in Nat, NEW out
    PROVE  Search(ps, q, limit, out) \in Seq(Hit) /\ Distinct(Search(ps, q, limit, out))
<1> DEFINE m == Merged(ps, q, limit, out)  d == Descending(SortMetric)
<1>1. m \in Seq(Hit)
  BY MergedIs
<1>2. d \in BOOLEAN
  BY DEF Descending
<1>3. Search(ps, q, limit, out) = Cut(Deduped(StableSort(m, d)), limit)
  BY DEF Search
<1> HIDE DEF m, d
<1>4. \A i \in 1 .. Len(m) : m[i].score \in Int
  <2> TAKE i \in 1 .. Len(m)
  <2>1. m[i] \in Hit
    BY <1>1, ElementOfSeq
  <2> QED BY <2>1 DEF Hit
<1>5. StableSort(m, d) \in Seq(Hit)
  BY <1>1, <1>2, <1>4, TopIs
<1> DEFINE r == Deduped(StableSort(m, d))
<1>6. r \in Seq(Hit) /\ \E o : DedupedBy(r, o, StableSort(m, d))
  BY <1>5, DedupedIs
<1> HIDE DEF r
<1>7. \A i, j \in 1 .. Len(r) : r[i].id = r[j].id => i = j
  BY <1>6 DEF DedupedBy
<1>8. /\ Cut(r, limit) \in Seq(Hit)
      /\ \A i \in 1 .. Len(Cut(r, limit)) : i \in 1 .. Len(r) /\ Cut(r, limit)[i] = r[i]
  BY <1>6, CutIs
<1>9. Distinct(Cut(r, limit))
  BY <1>7, <1>8 DEF Distinct
<1> QED BY <1>3, <1>8, <1>9 DEF r

-----------------------------------------------------------------------------
(* query                                                                   *)

\* The rows of the partitions, by partition and key.
StoredIn(ps) == {pk \in ToSet(ps) \X Keys : pk[2] \in Stored(pk[1])}

\* src[k] is the partition and the key of the k-th merged row; a row that is missing
\* is no better than the limit rows that its partition answered with.
Drawn(m, src, ps, q, limit, out) ==
    /\ m \in Seq(Hit) /\ Len(m) \in Nat
    /\ src \in [1 .. Len(m) -> StoredIn(ps)]
    /\ \A j, k \in 1 .. Len(m) : src[j] = src[k] => j = k
    /\ \A k \in 1 .. Len(m) : /\ m[k].id = Shown(src[k][1], src[k][2], Columns(out), out).id
                              /\ m[k].score = ScoreOf(src[k][1], q, src[k][2])
    /\ \A pk \in StoredIn(ps) :
          \/ \E k \in 1 .. Len(m) : src[k] = pk
          \/ \E K \in SUBSET (1 .. Len(m)) :
                /\ Cardinality(K) = limit
                /\ \A k \in K : /\ src[k][1] = pk[1]
                                /\ ~Better(Descending(engine[pk[1]]), ScoreOf(pk[1], q, pk[2]), m[k].score)

\* There are finitely many of them.
LEMMA StoredInIs ==
    ASSUME CatalogOK, RowsOK, NEW ps \in Seq(PartNames)
    PROVE  /\ Len(ps) \in Nat /\ DOMAIN ps = 1 .. Len(ps)
           /\ \A pk \in StoredIn(ps) : /\ pk[1] \in PartNames /\ pk[2] \in Stored(pk[1])
                                       /\ pk = <<pk[1], pk[2]>> /\ \E i \in 1 .. Len(ps) : pk[1] = ps[i]
           /\ \A i \in 1 .. Len(ps) : ps[i] \in PartNames /\ \A k \in Stored(ps[i]) : <<ps[i], k>> \in StoredIn(ps)
           /\ IsFiniteSet(StoredIn(ps)) /\ Cardinality(StoredIn(ps)) \in Nat
<1>1. Len(ps) \in Nat /\ DOMAIN ps = 1 .. Len(ps) /\ \A i \in 1 .. Len(ps) : ps[i] \in PartNames
  BY ElementOfSeq, LenProperties
<1>2. \A p : p \in ToSet(ps) <=> \E i \in 1 .. Len(ps) : p = ps[i]
  BY <1>1 DEF ToSet
<1>3. \A pk \in StoredIn(ps) : pk \in ToSet(ps) \X Keys /\ pk[2] \in Stored(pk[1]) /\ pk[1] \in ToSet(ps)
  BY DEF StoredIn
<1>4. ASSUME NEW i \in 1 .. Len(ps), NEW k \in Stored(ps[i]) PROVE <<ps[i], k>> \in StoredIn(ps)
  <2>1. ps[i] \in ToSet(ps) /\ ps[i] \in PartNames
    BY <1>1, <1>2
  <2>2. k \in Keys
    BY <2>1, StoredIs
  <2> QED BY <2>1, <2>2 DEF StoredIn
<1>5. IsFiniteSet(StoredIn(ps))
  <2>1. StoredIn(ps) \in SUBSET (PartNames \X Keys)
    BY <1>1, <1>2 DEF StoredIn
  <2>2. IsFiniteSet(PartNames \X Keys)
    BY SearchAssumption, FS_Product
  <2> QED BY <2>1, <2>2, FS_Subset
<1>6. Cardinality(StoredIn(ps)) \in Nat
  BY <1>5, FS_CardinalityType
<1> QED BY <1>1, <1>2, <1>3, <1>4, <1>5, <1>6

\* No row is merged twice, and one that is not was beaten in its partition.
LEMMA MergedDrawn ==
    ASSUME CatalogOK, RowsOK, NEW ps \in Seq(PartNames), IsInjective(ps),
           NEW q \in Int, NEW limit \in Nat, NEW out
    PROVE  \E src : Drawn(Merged(ps, q, limit, out), src, ps, q, limit, out)
<1> DEFINE m == Merged(ps, q, limit, out)
           a == Answers(ps, q, limit, out)
           h(i) == EngineQuery(ps[i], q, limit)
           P == Places(a, Len(ps))
<1>1. /\ Len(ps) \in Nat /\ m \in Seq(Hit)
      /\ \A i \in 1 .. Len(ps) : ps[i] \in PartNames /\ a[i] = Entities(ps[i], q, limit, out)
  BY MergedIs
<1>2. PICK o : Joins(m, o, a, Len(ps))
  BY MergedIs
<1>3. \A i \in 1 .. Len(ps) : EntitiesBy(a[i], h(i), ps[i], q, limit, out)
  BY <1>1, EntitiesAre
<1> HIDE DEF m, a, h, P
<1>4. \A i \in 1 .. Len(ps) :
         /\ Len(h(i)) \in Nat /\ Len(a[i]) = Len(h(i)) /\ HitsBy(h(i), ps[i], q, limit)
         /\ \A n \in 1 .. Len(h(i)) :
               /\ h(i)[n].key \in Stored(ps[i])
               /\ a[i][n].id = Shown(ps[i], h(i)[n].key, Columns(out), out).id
               /\ a[i][n].score = ScoreOf(ps[i], q, h(i)[n].key)
  BY <1>3 DEF EntitiesBy, HitsBy
<1>5. \A x : x \in P <=> \E i \in 1 .. Len(ps) : \E n \in 1 .. Len(h(i)) : x = <<i, n>>
  <2>1. ASSUME NEW x \in P PROVE \E i \in 1 .. Len(ps) : \E n \in 1 .. Len(h(i)) : x = <<i, n>>
    <3>1. x \in (1 .. Len(ps)) \X Nat /\ x[2] \in 1 .. Len(a[x[1]])
      BY DEF P, Places
    <3> QED BY <1>4, <3>1
  <2>2. ASSUME NEW i \in 1 .. Len(ps), NEW n \in 1 .. Len(h(i)) PROVE <<i, n>> \in P
    BY <1>4 DEF P, Places
  <2> QED BY <2>1, <2>2
<1>6. /\ Len(o) = Len(m) /\ Len(m) \in Nat
      /\ \A k \in 1 .. Len(m) : o[k] \in P /\ m[k] = a[o[k][1]][o[k][2]]
      /\ \A x \in P : \E k \in 1 .. Len(m) : o[k] = x
      /\ \A j, k \in 1 .. Len(m) : o[j] = o[k] => j = k
  BY <1>2 DEF Joins, Enumerates, P
<1>7. \A k \in 1 .. Len(m) : /\ o[k][1] \in 1 .. Len(ps) /\ o[k][2] \in 1 .. Len(h(o[k][1]))
                             /\ o[k] = <<o[k][1], o[k][2]>>
  BY <1>5, <1>6
<1> DEFINE from(k) == <<ps[o[k][1]], h(o[k][1])[o[k][2]].key>>
           src == [k \in 1 .. Len(m) |-> from(k)]
<1>8. \A k \in 1 .. Len(m) : from(k) \in StoredIn(ps)
  BY <1>4, <1>7, StoredInIs
<1>9. \A k \in 1 .. Len(m) : src[k] = from(k)
  <2> HIDE DEF from
  <2> QED OBVIOUS
<1>10. src \in [1 .. Len(m) -> StoredIn(ps)]
  <2> HIDE DEF from
  <2> QED BY <1>8
<1> HIDE DEF src
<1>11. \A k \in 1 .. Len(m) : src[k][1] = ps[o[k][1]] /\ src[k][2] = h(o[k][1])[o[k][2]].key
  BY <1>9
<1>12. ASSUME NEW j \in 1 .. Len(m), NEW k \in 1 .. Len(m), src[j] = src[k] PROVE j = k
  <2>1. ps[o[j][1]] = ps[o[k][1]]
    BY <1>11, <1>12
  <2>2. o[j][1] = o[k][1]
    <3>1. DOMAIN ps = 1 .. Len(ps)
      BY LenProperties
    <3> QED BY <1>7, <2>1, <3>1 DEF IsInjective
  <2>3. h(o[j][1])[o[j][2]].key = h(o[k][1])[o[k][2]].key
    BY <1>11, <1>12
  <2>4. \A x, y \in 1 .. Len(h(o[j][1])) : h(o[j][1])[x].key = h(o[j][1])[y].key => x = y
    BY <1>4, <1>7 DEF HitsBy
  <2>5. o[j][2] = o[k][2]
    <3>1. PICK i : i = o[j][1] /\ i = o[k][1]
      BY <2>2
    <3>2. h(i)[o[j][2]].key = h(i)[o[k][2]].key
      BY <2>3, <3>1
    <3>3. o[j][2] \in 1 .. Len(h(i)) /\ o[k][2] \in 1 .. Len(h(i))
      BY <1>7, <3>1
    <3>4. \A x, y \in 1 .. Len(h(i)) : h(i)[x].key = h(i)[y].key => x = y
      BY <2>4, <3>1
    <3> QED BY <3>2, <3>3, <3>4
  <2>6. o[j] = o[k]
    BY <1>7, <2>2, <2>5
  <2> QED BY <1>6, <2>6
<1>13. ASSUME NEW k \in 1 .. Len(m)
       PROVE  /\ m[k].id = Shown(src[k][1], src[k][2], Columns(out), out).id
              /\ m[k].score = ScoreOf(src[k][1], q, src[k][2])
  <2> DEFINE i == o[k][1]  n == o[k][2]
  <2>1. i \in 1 .. Len(ps) /\ n \in 1 .. Len(h(i)) /\ m[k] = a[i][n]
    BY <1>6, <1>7
  <2>2. src[k][1] = ps[i] /\ src[k][2] = h(i)[n].key
    BY <1>11
  <2> HIDE DEF i, n
  <2> QED BY <1>4, <2>1, <2>2
<1>14. ASSUME NEW i \in 1 .. Len(ps), NEW n \in 1 .. Len(h(i))
       PROVE  \E k \in 1 .. Len(m) : o[k] = <<i, n>> /\ src[k] = <<ps[i], h(i)[n].key>>
                                     /\ m[k].score = h(i)[n].score
  <2>1. PICK k \in 1 .. Len(m) : o[k] = <<i, n>>
    BY <1>5, <1>6
  <2>2. o[k][1] = i /\ o[k][2] = n
    BY <2>1
  <2>3. src[k] = <<ps[i], h(i)[n].key>>
    BY <1>9, <2>2
  <2>4. m[k].score = ScoreOf(ps[i], q, h(i)[n].key)
    BY <1>13, <2>3
  <2>5. h(i)[n].score = ScoreOf(ps[i], q, h(i)[n].key)
    BY <1>4 DEF HitsBy
  <2> QED BY <2>1, <2>3, <2>4, <2>5
<1>15. ASSUME NEW pk \in StoredIn(ps), ~ \E k \in 1 .. Len(m) : src[k] = pk
       PROVE  \E K \in SUBSET (1 .. Len(m)) :
                 /\ Cardinality(K) = limit
                 /\ \A k \in K : /\ src[k][1] = pk[1]
                                 /\ ~Better(Descending(engine[pk[1]]), ScoreOf(pk[1], q, pk[2]), m[k].score)
  <2>1. pk[2] \in Stored(pk[1]) /\ pk = <<pk[1], pk[2]>>
    BY StoredInIs
  <2>2. PICK i \in 1 .. Len(ps) : pk[1] = ps[i]
    BY StoredInIs
  <2>3. \/ \E n \in 1 .. Len(h(i)) : h(i)[n].key = pk[2]
        \/ Len(h(i)) = limit /\ \A n \in 1 .. Len(h(i)) :
                                   ~Better(Descending(engine[pk[1]]), ScoreOf(pk[1], q, pk[2]), h(i)[n].score)
    <3>1. HitsBy(h(i), pk[1], q, limit)
      BY <1>4, <2>2
    <3> QED BY <2>1, <3>1 DEF HitsBy
  <2>4. ~ \E n \in 1 .. Len(h(i)) : h(i)[n].key = pk[2]
    <3> SUFFICES ASSUME NEW n \in 1 .. Len(h(i)), h(i)[n].key = pk[2] PROVE FALSE
      OBVIOUS
    <3>1. PICK k \in 1 .. Len(m) : src[k] = <<ps[i], h(i)[n].key>>
      BY <1>14
    <3>2. src[k] = pk
      BY <2>1, <2>2, <3>1
    <3> QED BY <1>15, <3>2
  <2>5. Len(h(i)) = limit /\ \A n \in 1 .. limit :
                                ~Better(Descending(engine[pk[1]]), ScoreOf(pk[1], q, pk[2]), h(i)[n].score)
    BY <2>3, <2>4
  <2> DEFINE at(n) == CHOOSE k \in 1 .. Len(m) : o[k] = <<i, n>>
             f == [n \in 1 .. limit |-> at(n)]
             K == {f[n] : n \in 1 .. limit}
  <2>6. \A n \in 1 .. limit : at(n) \in 1 .. Len(m) /\ o[at(n)] = <<i, n>>
    BY <1>14, <2>5
  <2> HIDE DEF at
  <2>7. \A n \in 1 .. limit : f[n] \in 1 .. Len(m) /\ o[f[n]] = <<i, n>>
    BY <2>6
  <2>8. f \in [1 .. limit -> K]
    BY <2>7
  <2>9. \A x \in K : \E n \in 1 .. limit : f[n] = x
    OBVIOUS
  <2> HIDE DEF f
  <2>10. \A x \in K : x \in 1 .. Len(m) /\ \E n \in 1 .. limit : f[n] = x /\ o[x] = <<i, n>>
    BY <2>7
  <2>11. \A x, y \in 1 .. limit : f[x] = f[y] => x = y
    <3> SUFFICES ASSUME NEW x \in 1 .. limit, NEW y \in 1 .. limit, f[x] = f[y] PROVE x = y
      OBVIOUS
    <3>1. <<i, x>> = <<i, y>>
      BY <2>7
    <3> QED BY <3>1
  <2> HIDE DEF K
  <2>12. Cardinality(K) = limit
    BY <2>8, <2>9, <2>11, EnumeratesBy
  <2>13. ASSUME NEW k \in K
         PROVE  /\ src[k][1] = pk[1]
                /\ ~Better(Descending(engine[pk[1]]), ScoreOf(pk[1], q, pk[2]), m[k].score)
    <3>1. PICK n \in 1 .. limit : o[k] = <<i, n>>
      BY <2>10
    <3>2. PICK j \in 1 .. Len(m) : o[j] = <<i, n>> /\ src[j] = <<ps[i], h(i)[n].key>> /\ m[j].score = h(i)[n].score
      BY <1>14, <2>5
    <3>3. j = k
      <4>1. k \in 1 .. Len(m) /\ o[j] = o[k]
        BY <2>10, <3>1, <3>2
      <4> QED BY <1>6, <4>1
    <3>4. src[k][1] = ps[i]
      BY <3>2, <3>3
    <3> QED BY <2>2, <2>5, <3>2, <3>3, <3>4
  <2>14. K \in SUBSET (1 .. Len(m))
    BY <2>10
  <2> QED BY <2>12, <2>13, <2>14
<1>16. Drawn(m, src, ps, q, limit, out)
  BY <1>1, <1>6, <1>10, <1>12, <1>13, <1>15 DEF Drawn
<1> QED BY <1>16 DEF m

\* A query merges every row of every partition as long as the limit allows.
LEMMA QueryHolds ==
    ASSUME CatalogOK, RowsOK
    PROVE  QueryReturnsEveryRow
<1> DEFINE S == StoredIn(parts)
           all == {"id", Scalar, Vec}
<1>1. parts \in Seq(PartNames) /\ IsInjective(parts) /\ 0 \in Int
  BY DEF CatalogOK
<1>2. IsFiniteSet(S) /\ Cardinality(S) \in Nat
  BY <1>1, StoredInIs
<1>3. S = {pk \in ToSet(parts) \X Keys : pk[2] \in Stored(pk[1])}
  BY DEF StoredIn
<1>4. {1, Cardinality(Keys), Cardinality(PartNames \X Keys)} \subseteq Nat
  BY SearchAssumption, FS_Product, FS_CardinalityType
<1> SUFFICES ASSUME NEW limit \in Nat
             PROVE  /\ Len(Query(parts, limit, {})) = (IF Cardinality(S) < limit THEN Cardinality(S) ELSE limit)
                    /\ \A k \in Keys : Cardinality({i \in DOMAIN Query(parts, limit, {}) : Query(parts, limit, {})[i].id = k})
                                          <= Cardinality({pk \in S : pk[2] = k})
  BY <1>3, <1>4 DEF QueryReturnsEveryRow
<1> DEFINE m == Merged(parts, 0, limit, all)
           r == Query(parts, limit, {})
<1>5. r = Cut(m, limit)
  BY DEF Query
<1>6. PICK src : Drawn(m, src, parts, 0, limit, all)
  BY <1>1, MergedDrawn
<1> HIDE DEF S, m, r, all
<1>7. /\ m \in Seq(Hit) /\ Len(m) \in Nat
      /\ src \in [1 .. Len(m) -> S]
      /\ \A j, k \in 1 .. Len(m) : src[j] = src[k] => j = k
  BY <1>6 DEF Drawn, S
<1>8. /\ r \in Seq(Hit) /\ Len(r) = Least2(limit, Len(m)) /\ Len(r) \in Nat
      /\ \A i \in 1 .. Len(r) : i \in 1 .. Len(m) /\ r[i] = m[i]
  BY <1>5, <1>7, CutIs
<1>9. src \in Injection(1 .. Len(m), S)
  BY <1>7 DEF Injection, IsInjective
<1>10. Cardinality(1 .. Len(m)) = Len(m) /\ IsFiniteSet(1 .. Len(m))
  <2>1. 1 \in Int /\ Len(m) \in Int /\ (IF 1 > Len(m) THEN 0 ELSE Len(m) - 1 + 1) = Len(m)
    BY <1>7
  <2> QED BY <2>1, FS_Interval
<1>11. Len(m) <= Cardinality(S) /\ (src \in Surjection(1 .. Len(m), S) => Len(m) = Cardinality(S))
  BY <1>2, <1>9, <1>10, FS_Injection
<1>12. Len(m) = Cardinality(S) \/ Len(m) >= limit
  <2>1. CASE \A pk \in S : \E k \in 1 .. Len(m) : src[k] = pk
    <3>1. src \in Surjection(1 .. Len(m), S)
      BY <1>7, <2>1 DEF Surjection
    <3> QED BY <1>11, <3>1
  <2>2. CASE ~ \A pk \in S : \E k \in 1 .. Len(m) : src[k] = pk
    <3>1. PICK pk \in S : ~ \E k \in 1 .. Len(m) : src[k] = pk
      BY <2>2
    <3>2. PICK K \in SUBSET (1 .. Len(m)) : Cardinality(K) = limit
      BY <1>6, <3>1 DEF Drawn, S
    <3>3. limit <= Len(m)
      BY <1>10, <3>2, FS_Subset
    <3> QED BY <1>7, <3>3
  <2> QED BY <2>1, <2>2
<1>13. Len(r) = (IF Cardinality(S) < limit THEN Cardinality(S) ELSE limit)
  BY <1>2, <1>7, <1>8, <1>11, <1>12 DEF Least2
<1>14. ASSUME NEW i \in 1 .. Len(r) PROVE r[i].id = src[i][2]
  <2>1. i \in 1 .. Len(m) /\ r[i] = m[i]
    BY <1>8
  <2>2. m[i].id = Shown(src[i][1], src[i][2], Columns(all), all).id
    BY <1>6, <2>1 DEF Drawn
  <2>3. src[i][1] \in PartNames /\ src[i][2] \in Stored(src[i][1])
    BY <1>1, <1>7, <2>1, StoredInIs DEF S
  <2>4. Columns(all) # {}
    BY DEF Columns, all
  <2>5. Shown(src[i][1], src[i][2], Columns(all), all).id = src[i][2]
    BY <2>3, <2>4, ShownIs
  <2> QED BY <2>1, <2>2, <2>5
<1>15. ASSUME NEW k \in Keys
       PROVE  Cardinality({i \in DOMAIN r : r[i].id = k}) <= Cardinality({pk \in S : pk[2] = k})
  <2> DEFINE A == {i \in DOMAIN r : r[i].id = k}
             B == {pk \in S : pk[2] = k}
             f == [i \in A |-> src[i]]
  <2>1. DOMAIN r = 1 .. Len(r)
    BY <1>8, LenProperties
  <2>2. \A i \in A : i \in 1 .. Len(m) /\ src[i] \in B
    BY <1>7, <1>8, <1>14, <2>1
  <2>3. IsFiniteSet(B)
    <3>1. B \in SUBSET S
      OBVIOUS
    <3> HIDE DEF B
    <3> QED BY <1>2, <3>1, FS_Subset
  <2> HIDE DEF A, B
  <2>4. f \in Injection(A, B)
    BY <1>7, <2>2 DEF Injection, IsInjective
  <2>5. Cardinality(A) <= Cardinality(B)
    BY <2>3, <2>4, FS_Injection
  <2> QED BY <2>5 DEF A, B
<1> QED BY <1>13, <1>15 DEF r

-----------------------------------------------------------------------------
(* get                                                                     *)

\* The partition and the key that each entity of a get is drawn from: a key that
\* no earlier partition answered for.  No key is drawn twice, and all are drawn.
Draws(f, r, ids, fetch, out) ==
    /\ Len(r) \in Nat /\ DOMAIN r = 1 .. Len(r)
    /\ \A k \in 1 .. Len(r) : /\ f[k][1] \in 1 .. Len(parts) /\ f[k][2] \in Fresh(parts, f[k][1], ids, fetch)
                              /\ r[k] = FetchedEntity(parts[f[k][1]], f[k][2], out)
    /\ \A i \in 1 .. Len(parts) : \A x \in Fresh(parts, i, ids, fetch) :
          \E k \in 1 .. Len(r) : f[k][1] = i /\ f[k][2] = x
    /\ \A j, k \in 1 .. Len(r) : f[j][2] = f[k][2] => j = k

\* A key of a get is of one partition only: of the first that answers for it.
LEMMA FirstAnswer ==
    ASSUME CatalogOK, NEW ids \in SUBSET Keys, NEW fetch \in [ToSet(parts) -> FetchKinds]
    PROVE  /\ \A i \in 1 .. Len(parts) : Fresh(parts, i, ids, fetch) \in SUBSET ids
           /\ \A i \in 1 .. Len(parts) : Fresh(parts, i, ids, fetch) \in SUBSET Fetched(parts[i], ids, fetch)
           /\ \A i, j \in 1 .. Len(parts) : \A x \in Fresh(parts, i, ids, fetch) \cap Fresh(parts, j, ids, fetch) : i = j
           /\ \A i \in 1 .. Len(parts) : \A x \in Fetched(parts[i], ids, fetch) :
                 \E j \in 1 .. i : x \in Fresh(parts, j, ids, fetch)
<1> DEFINE N == Len(parts)
           found(i) == Fetched(parts[i], ids, fetch)
           fresh(i) == Fresh(parts, i, ids, fetch)
<1>1. N \in Nat /\ DOMAIN parts = 1 .. N /\ \A i \in 1 .. N : parts[i] \in ToSet(parts)
  BY PartsAre
<1>2. \A i \in 1 .. N : found(i) \in SUBSET ids
  BY <1>1 DEF Fetched, FetchKinds
<1>3. \A i \in 1 .. N : fresh(i) = found(i) \ UNION {found(j) : j \in 1 .. i - 1}
  BY DEF Fresh
<1> HIDE DEF N, found, fresh
<1>4. \A i \in 1 .. N : fresh(i) \in SUBSET ids /\ fresh(i) \in SUBSET found(i)
  BY <1>2, <1>3
<1>5. \A i, j \in 1 .. N : \A x \in fresh(i) \cap fresh(j) : ~(i < j)
  <2> SUFFICES ASSUME NEW i \in 1 .. N, NEW j \in 1 .. N, NEW x \in fresh(i) \cap fresh(j), i < j PROVE FALSE
    OBVIOUS
  <2>1. x \in found(i) /\ i \in 1 .. j - 1
    BY <1>1, <1>4
  <2>2. x \in UNION {found(n) : n \in 1 .. j - 1}
    BY <2>1
  <2> QED BY <1>3, <2>2
<1>6. \A i, j \in 1 .. N : \A x \in fresh(i) \cap fresh(j) : i = j
  <2> SUFFICES ASSUME NEW i \in 1 .. N, NEW j \in 1 .. N, NEW x \in fresh(i) \cap fresh(j) PROVE i = j
    OBVIOUS
  <2>1. ~(i < j) /\ ~(j < i)
    BY <1>5
  <2> QED BY <1>1, <2>1
<1>7. ASSUME NEW i \in 1 .. N, NEW x \in found(i) PROVE \E j \in 1 .. i : x \in fresh(j)
  <2> DEFINE B == {j \in 1 .. i : x \in found(j)}
  <2>1. B \in SUBSET Nat /\ B # {}
    BY <1>1, <1>7
  <2>2. PICK j \in B : \A n \in B : j <= n
    <3> HIDE DEF B
    <3> QED BY <2>1, Least
  <2>3. j \in 1 .. i /\ j \in 1 .. N /\ x \in found(j)
    BY <1>1
  <2>4. \A n \in 1 .. j - 1 : n \in 1 .. i /\ ~(j <= n)
    BY <1>1, <2>3
  <2>5. \A n \in 1 .. j - 1 : x \notin found(n)
    BY <2>2, <2>4
  <2> HIDE DEF B
  <2> QED BY <1>3, <2>3, <2>5
<1> QED BY <1>4, <1>6, <1>7, Zenon DEF N, found, fresh

\* The entities of a get are drawn so, in whatever way zvec answers.
LEMMA GetRowsAre ==
    ASSUME CatalogOK, RowsOK,
           NEW ids \in SUBSET Keys, NEW fetch \in [ToSet(parts) -> FetchKinds], NEW out \in Outs
    PROVE  \E f : Draws(f, GetRows(parts, ids, fetch, out), ids, fetch, out)
<1> DEFINE N == Len(parts)
           fresh(i) == Fresh(parts, i, ids, fetch)
           order(i) == Ascending(fresh(i))
           row(i, n) == FetchedEntity(parts[i], order(i)[n], out)
           rows(i) == [n \in DOMAIN order(i) |-> row(i, n)]
           a == [i \in DOMAIN parts |-> rows(i)]
           r == GetRows(parts, ids, fetch, out)
           T == [id : Keys \cup {0, Nameless}, shows : SUBSET {Scalar, Extra}]
<1>1. N \in Nat /\ DOMAIN parts = 1 .. N /\ \A i \in 1 .. N : parts[i] \in PartNames
  BY PartsAre
<1>2. r = FlattenSeq(a)
  BY Zenon DEF GetRows
<1>3. \A i, j \in 1 .. N : \A x \in fresh(i) \cap fresh(j) : i = j
  BY FirstAnswer
<1>4. \A i \in 1 .. N : fresh(i) \in SUBSET Keys /\ Enumerates(order(i), fresh(i))
  <2> TAKE i \in 1 .. N
  <2>1. fresh(i) \in SUBSET ids
    BY FirstAnswer
  <2>2. IsFiniteSet(Keys) /\ Keys \subseteq Nat
    BY SearchAssumption
  <2> HIDE DEF fresh
  <2>3. fresh(i) \in SUBSET Nat /\ IsFiniteSet(fresh(i))
    BY <2>1, <2>2, FS_Subset
  <2> QED BY <2>1, <2>3, AscendingIs
<1> HIDE DEF N, a, r, T, fresh, order
<1>5. \A i \in 1 .. N : /\ Len(order(i)) \in Nat /\ DOMAIN order(i) = 1 .. Len(order(i))
                        /\ \A n \in 1 .. Len(order(i)) : order(i)[n] \in fresh(i)
                        /\ \A x \in fresh(i) : \E n \in 1 .. Len(order(i)) : order(i)[n] = x
                        /\ \A m, n \in 1 .. Len(order(i)) : order(i)[m] = order(i)[n] => m = n
  BY <1>4 DEF Enumerates
<1>6. ASSUME NEW p \in PartNames, NEW k \in Keys PROVE FetchedEntity(p, k, out) \in T
  <2>1. CASE k \in Stored(p)
    <3>1. store[p][k].fields \in SUBSET {Scalar, Extra}
      BY <2>1 DEF RowsOK, Rows
    <3> QED BY <2>1, <3>1 DEF FetchedEntity, Shown, T
  <2>2. CASE k \notin Stored(p)
    BY <2>2 DEF FetchedEntity, T
  <2> QED BY <2>1, <2>2
<1>7. \A i \in 1 .. N : \A n \in 1 .. Len(order(i)) : row(i, n) \in T
  BY <1>1, <1>4, <1>5, <1>6
<1> HIDE DEF row
<1>8. \A i \in 1 .. N : rows(i) \in Seq(T) /\ Len(rows(i)) = Len(order(i))
                        /\ \A n \in 1 .. Len(order(i)) : rows(i)[n] = row(i, n)
  <2> TAKE i \in 1 .. N
  <2>1. rows(i) \in [1 .. Len(order(i)) -> T] /\ Len(order(i)) \in Nat
    BY <1>5, <1>7
  <2>2. \A n \in 1 .. Len(order(i)) : rows(i)[n] = row(i, n)
    BY <1>5
  <2> HIDE DEF rows
  <2> QED BY <2>1, <2>2, Listing
<1> HIDE DEF rows
<1>9. a \in Seq(Seq(T)) /\ Len(a) = N /\ \A i \in 1 .. N : a[i] = rows(i)
  <2>1. a = [i \in 1 .. N |-> rows(i)]
    BY <1>1 DEF a
  <2>2. a \in [1 .. N -> Seq(T)]
    BY <1>8, <2>1
  <2> QED BY <1>1, <2>1, <2>2, Listing
<1>10. r \in Seq(T) /\ \E o : Joins(r, o, a, N)
  BY <1>2, <1>9, FlattenIs
<1>11. PICK o : Joins(r, o, a, N)
  BY <1>10
<1> DEFINE P == Places(a, N)
<1>12. \A x : x \in P <=> \E i \in 1 .. N : \E n \in 1 .. Len(order(i)) : x = <<i, n>>
  <2>1. ASSUME NEW x \in P PROVE \E i \in 1 .. N : \E n \in 1 .. Len(order(i)) : x = <<i, n>>
    <3>1. x \in (1 .. N) \X Nat /\ x[2] \in 1 .. Len(a[x[1]])
      BY DEF Places
    <3> QED BY <1>8, <1>9, <3>1
  <2>2. ASSUME NEW i \in 1 .. N, NEW n \in 1 .. Len(order(i)) PROVE <<i, n>> \in P
    BY <1>5, <1>8, <1>9 DEF Places
  <2> QED BY <2>1, <2>2
<1>13. /\ Len(o) = Len(r) /\ Len(r) \in Nat
       /\ \A k \in 1 .. Len(r) : o[k] \in P /\ r[k] = a[o[k][1]][o[k][2]]
       /\ \A x \in P : \E k \in 1 .. Len(r) : o[k] = x
       /\ \A j, k \in 1 .. Len(r) : o[j] = o[k] => j = k
  BY <1>11 DEF Joins, Enumerates
<1> HIDE DEF P
<1>14. \A k \in 1 .. Len(r) : o[k][1] \in 1 .. N /\ o[k][2] \in 1 .. Len(order(o[k][1]))
                              /\ o[k] = <<o[k][1], o[k][2]>> /\ r[k] = row(o[k][1], o[k][2])
  <2> TAKE k \in 1 .. Len(r)
  <2>1. o[k][1] \in 1 .. N /\ o[k][2] \in 1 .. Len(order(o[k][1])) /\ o[k] = <<o[k][1], o[k][2]>>
    BY <1>12, <1>13
  <2>2. PICK i \in 1 .. N, n \in Nat : o[k] = <<i, n>> /\ n \in 1 .. Len(order(i))
    BY <1>5, <2>1
  <2>3. a[i] = rows(i) /\ rows(i)[n] = row(i, n)
    BY <1>8, <1>9, <2>2
  <2>4. r[k] = a[i][n] /\ o[k][1] = i /\ o[k][2] = n
    BY <1>13, <2>2
  <2> QED BY <2>1, <2>3, <2>4
<1> DEFINE key(k) == order(o[k][1])[o[k][2]]
           f == [k \in 1 .. Len(r) |-> <<o[k][1], key(k)>>]
<1>15. \A k \in 1 .. Len(r) : /\ o[k][1] \in 1 .. N /\ key(k) \in fresh(o[k][1])
                              /\ r[k] = FetchedEntity(parts[o[k][1]], key(k), out)
  BY <1>5, <1>14 DEF row
<1>16. ASSUME NEW j \in 1 .. Len(r), NEW k \in 1 .. Len(r), key(j) = key(k) PROVE j = k
  <2>1. o[j][1] = o[k][1]
    BY <1>3, <1>15, <1>16
  <2>2. PICK i \in 1 .. N : i = o[j][1] /\ i = o[k][1]
    BY <1>14, <2>1
  <2>3. o[j][2] \in 1 .. Len(order(i)) /\ o[k][2] \in 1 .. Len(order(i)) /\ order(i)[o[j][2]] = order(i)[o[k][2]]
    BY <1>14, <1>16, <2>2
  <2>4. o[j][2] = o[k][2]
    BY <1>5, <2>3
  <2>5. o[j] = o[k]
    BY <1>14, <2>1, <2>4
  <2> QED BY <1>13, <2>5
<1>17. ASSUME NEW i \in 1 .. N, NEW x \in fresh(i) PROVE \E k \in 1 .. Len(r) : o[k][1] = i /\ key(k) = x
  <2>1. PICK n \in 1 .. Len(order(i)) : order(i)[n] = x
    BY <1>5
  <2>2. PICK k \in 1 .. Len(r) : o[k] = <<i, n>>
    BY <1>12, <1>13
  <2> QED BY <2>1, <2>2
<1> HIDE DEF key
<1>18. \A k \in 1 .. Len(r) : f[k][1] = o[k][1] /\ f[k][2] = key(k)
  OBVIOUS
<1>19. DOMAIN r = 1 .. Len(r)
  BY <1>10, LenProperties
<1> HIDE DEF f
<1>20. \A k \in 1 .. Len(r) : /\ f[k][1] \in 1 .. N /\ f[k][2] \in fresh(f[k][1])
                              /\ r[k] = FetchedEntity(parts[f[k][1]], f[k][2], out)
  BY <1>15, <1>18
<1>21. \A i \in 1 .. N : \A x \in fresh(i) : \E k \in 1 .. Len(r) : f[k][1] = i /\ f[k][2] = x
  BY <1>17, <1>18
<1>22. \A j, k \in 1 .. Len(r) : f[j][2] = f[k][2] => j = k
  BY <1>16, <1>18
<1>23. Draws(f, r, ids, fetch, out)
  BY <1>13, <1>19, <1>20, <1>21, <1>22, Zenon DEF Draws, N, fresh
<1> QED BY <1>23 DEF r

\* No key column was added to a partition that had rows, where every partition had it.
KeysMirrored ==
    ~legacy => \A p \in PartNames : mirrored[p] /\ \A k \in Stored(p) : store[p][k].column # "zero"

\* What a get answers, if no partition answers for a key that it does not have:
\* every key of a partition that can be read, under its own key, with the fields.
LEMMA GetComplete ==
    ASSUME CatalogOK, RowsOK, KeysMirrored,
           NEW ids \in SUBSET Keys, NEW fetch \in [ToSet(parts) -> FetchKinds], NEW out \in Outs,
           \A i \in 1 .. Len(parts) : Fresh(parts, i, ids, fetch) \in SUBSET Stored(parts[i])
    PROVE  LET r == GetRows(parts, ids, fetch, out)
               good == {p \in ToSet(parts) : fetch[p] # "raises"}
               stored == ids \cap UNION {Stored(p) : p \in good}
           IN /\ Len(r) = Cardinality(stored)
              /\ ~legacy => Ids(r) = stored
              /\ \A i \in DOMAIN r : \E p \in good, k \in stored :
                    /\ k \in Stored(p) /\ r[i].id \in {k, 0}
                    /\ store[p][k].fields \cap (IF out = {} THEN {Scalar, Extra} ELSE out) \subseteq r[i].shows
<1> DEFINE N == Len(parts)
           r == GetRows(parts, ids, fetch, out)
           good == {p \in ToSet(parts) : fetch[p] # "raises"}
           stored == ids \cap UNION {Stored(p) : p \in good}
           fresh(i) == Fresh(parts, i, ids, fetch)
<1>1. /\ N \in Nat /\ \A i \in 1 .. N : parts[i] \in PartNames /\ parts[i] \in ToSet(parts)
      /\ \A p \in ToSet(parts) : \E i \in 1 .. N : p = parts[i]
  BY PartsAre DEF ToSet
<1>2. \A i \in 1 .. N : \A x \in fresh(i) : x \in Stored(parts[i]) /\ parts[i] \in good /\ x \in stored
  <2> TAKE i \in 1 .. N
  <2> TAKE x \in fresh(i)
  <2>1. x \in Stored(parts[i]) /\ x \in ids /\ x \in Fetched(parts[i], ids, fetch)
    BY FirstAnswer
  <2>2. fetch[parts[i]] # "raises"
    BY <2>1 DEF Fetched
  <2> QED BY <1>1, <2>1, <2>2
<1>3. ASSUME NEW x \in stored PROVE \E i \in 1 .. N : x \in fresh(i)
  <2>1. PICK p \in good : x \in Stored(p)
    OBVIOUS
  <2>2. PICK i \in 1 .. N : p = parts[i]
    BY <1>1
  <2>3. fetch[p] \in {"plain", "bare"}
    BY DEF FetchKinds
  <2>4. x \in Fetched(parts[i], ids, fetch)
    BY <2>1, <2>2, <2>3 DEF Fetched
  <2>5. PICK j \in 1 .. i : x \in fresh(j)
    BY <2>4, FirstAnswer
  <2> QED BY <1>1, <2>5
<1>4. PICK f : Draws(f, r, ids, fetch, out)
  BY GetRowsAre
<1> DEFINE key(k) == f[k][2]
           part(k) == parts[f[k][1]]
<1>5. /\ Len(r) \in Nat /\ DOMAIN r = 1 .. Len(r)
      /\ \A k \in 1 .. Len(r) : /\ f[k][1] \in 1 .. N /\ key(k) \in fresh(f[k][1])
                                /\ r[k] = FetchedEntity(part(k), key(k), out)
      /\ \A i \in 1 .. N : \A x \in fresh(i) : \E k \in 1 .. Len(r) : f[k][1] = i /\ key(k) = x
      /\ \A j, k \in 1 .. Len(r) : key(j) = key(k) => j = k
  BY <1>4, Zenon DEF Draws
<1> HIDE DEF N, r, fresh, good, stored
<1>6. \A k \in 1 .. Len(r) : /\ part(k) \in PartNames /\ part(k) \in good
                             /\ key(k) \in Stored(part(k)) /\ key(k) \in stored
                             /\ r[k] = Shown(part(k), key(k), {}, out)
  BY <1>1, <1>2, <1>5 DEF FetchedEntity
<1>7. \A x \in stored : \E k \in 1 .. Len(r) : key(k) = x
  BY <1>3, <1>5
<1>8. ASSUME NEW p \in PartNames, NEW k \in Stored(p)
      PROVE  /\ Shown(p, k, {}, out).id \in {k, 0}
             /\ ~legacy => Shown(p, k, {}, out).id = k
             /\ store[p][k].fields \cap (IF out = {} THEN {Scalar, Extra} ELSE out) \subseteq Shown(p, k, {}, out).shows
  <2>1. ~legacy => store[p][k].column # "zero"
    BY DEF KeysMirrored
  <2> QED BY <2>1 DEF Shown
<1> DEFINE g == [k \in 1 .. Len(r) |-> key(k)]
<1>9. Len(r) = Cardinality(stored)
  <2>1. g \in [1 .. Len(r) -> stored] /\ \A k \in 1 .. Len(r) : g[k] = key(k)
    BY <1>6
  <2> HIDE DEF g, key
  <2>2. \A x \in stored : \E k \in 1 .. Len(r) : g[k] = x
    BY <1>7, <2>1
  <2>3. \A j, k \in 1 .. Len(r) : g[j] = g[k] => j = k
    BY <1>5, <2>1
  <2>4. Len(r) \in Nat
    BY <1>5
  <2>5. Enumerates(g, stored) /\ Len(g) = Len(r)
    BY <2>1, <2>2, <2>3, <2>4, EnumeratesBy
  <2> QED BY <2>5 DEF Enumerates
<1> HIDE DEF key, part
<1>10. ~legacy => Ids(r) = stored
  <2> SUFFICES ASSUME ~legacy PROVE Ids(r) = stored
    OBVIOUS
  <2>1. \A k \in 1 .. Len(r) : r[k].id = key(k)
    BY <1>6, <1>8
  <2> QED BY <1>5, <1>6, <1>7, <2>1 DEF Ids
<1>11. \A i \in DOMAIN r : \E p \in good, k \in stored :
          /\ k \in Stored(p) /\ r[i].id \in {k, 0}
          /\ store[p][k].fields \cap (IF out = {} THEN {Scalar, Extra} ELSE out) \subseteq r[i].shows
  BY <1>5, <1>6, <1>8
<1> QED BY <1>9, <1>10, <1>11 DEF r, stored, good

\* A key is fetched from the first partition that answers for it; if none does
\* without having it, from the first that has it.
LEMMA GetHolds ==
    ASSUME CatalogOK, RowsOK, KeysMirrored
    PROVE  GetFindsEveryKey
<1> SUFFICES ASSUME NEW g \in Gets, NEW fetch \in [ToSet(parts) -> FetchKinds], NEW pkType \in PkTypes
             PROVE  LET r == Get(parts, g.ids, fetch, pkType, g.out)
                        good == {p \in ToSet(parts) : fetch[p] # "raises"}
                        plain == \A p \in good : fetch[p] = "plain"
                        stored == g.ids \cap UNION {Stored(p) : p \in good}
                    IN /\ r.raised => pkType = "Int64" /\ ~plain
                       /\ ~r.raised /\ (plain \/ pkType = "Int64") =>
                             /\ Len(r.rows) = Cardinality(stored)
                             /\ ~legacy => Ids(r.rows) = stored
                             /\ \A i \in DOMAIN r.rows : \E p \in good, k \in stored :
                                   /\ k \in Stored(p) /\ r.rows[i].id \in {k, 0}
                                   /\ store[p][k].fields \cap (IF g.out = {} THEN {Scalar, Extra} ELSE g.out)
                                         \subseteq r.rows[i].shows
                       /\ pkType = "VarChar" =>
                             \A i \in DOMAIN parts :
                                fetch[parts[i]] # "raises" /\ (\A j \in 1 .. i - 1 : fetch[parts[j]] # "bare")
                                   => g.ids \cap Stored(parts[i]) \subseteq Ids(r.rows)
  BY Zenon DEF GetFindsEveryKey
<1> DEFINE N == Len(parts)
           ids == g.ids
           out == g.out
           r == Get(parts, ids, fetch, pkType, out)
           rows == GetRows(parts, ids, fetch, out)
           good == {p \in ToSet(parts) : fetch[p] # "raises"}
           plain == \A p \in good : fetch[p] = "plain"
           stored == ids \cap UNION {Stored(p) : p \in good}
           fresh(i) == Fresh(parts, i, ids, fetch)
           own == \A i \in 1 .. N : fresh(i) \in SUBSET Stored(parts[i])
<1>1. ids \in SUBSET Keys /\ out \in Outs
  BY GetAssumption
<1>2. /\ N \in Nat /\ DOMAIN parts = 1 .. N
      /\ \A i \in 1 .. N : parts[i] \in PartNames /\ parts[i] \in ToSet(parts)
  BY PartsAre
<1>3. r = IF pkType = "Int64" /\ ~own THEN [raised |-> TRUE, rows |-> <<>>] ELSE [raised |-> FALSE, rows |-> rows]
  BY <1>2 DEF Get
<1>4. plain => own
  <2> SUFFICES ASSUME plain, NEW i \in 1 .. N, NEW x \in fresh(i) PROVE x \in Stored(parts[i])
    OBVIOUS
  <2>1. x \in Fetched(parts[i], ids, fetch)
    BY <1>1, FirstAnswer
  <2>2. fetch[parts[i]] \in {"plain", "raises"}
    BY <1>2
  <2> QED BY <2>1, <2>2 DEF Fetched
<1>5. own => /\ Len(rows) = Cardinality(stored)
             /\ ~legacy => Ids(rows) = stored
             /\ \A i \in DOMAIN rows : \E p \in good, k \in stored :
                   /\ k \in Stored(p) /\ rows[i].id \in {k, 0}
                   /\ store[p][k].fields \cap (IF out = {} THEN {Scalar, Extra} ELSE out) \subseteq rows[i].shows
  <2> HIDE DEF ids, out
  <2> QED BY <1>1, GetComplete
<1>6. ASSUME pkType = "VarChar", NEW i \in 1 .. N, fetch[parts[i]] # "raises",
             \A j \in 1 .. i - 1 : fetch[parts[j]] # "bare",
             NEW x \in ids \cap Stored(parts[i])
      PROVE  x \in Ids(rows)
  <2>1. ~legacy
    BY <1>6 DEF PkTypes
  <2>2. x \in Fetched(parts[i], ids, fetch)
    BY <1>2, <1>6 DEF Fetched, FetchKinds
  <2>3. PICK j \in 1 .. i : x \in fresh(j)
    BY <1>1, <2>2, FirstAnswer
  <2>4. j \in 1 .. N /\ x \in Fetched(parts[j], ids, fetch)
    <3>1. j \in 1 .. N
      BY <1>2
    <3> QED BY <1>1, <2>3, <3>1, FirstAnswer
  <2>5. x \in Stored(parts[j])
    <3>1. CASE j = i
      BY <3>1
    <3>2. CASE j # i
      <4>1. fetch[parts[j]] # "bare"
        BY <1>2, <1>6, <3>2
      <4>2. fetch[parts[j]] \in {"plain", "raises"}
        BY <1>2, <2>4, <4>1 DEF FetchKinds
      <4> QED BY <2>4, <4>2 DEF Fetched
    <3> QED BY <3>1, <3>2
  <2>6. PICK f : Draws(f, rows, ids, fetch, out)
    <3> HIDE DEF ids, out
    <3> QED BY <1>1, GetRowsAre
  <2>7. PICK k \in 1 .. Len(rows) : f[k][1] = j /\ f[k][2] = x
    <3>1. \A n \in 1 .. N : \A y \in fresh(n) : \E m \in 1 .. Len(rows) : f[m][1] = n /\ f[m][2] = y
      BY <2>6, Zenon DEF Draws
    <3> HIDE DEF N, fresh, rows
    <3> QED BY <2>3, <2>4, <3>1
  <2>8. k \in DOMAIN rows /\ rows[k] = FetchedEntity(parts[j], x, out)
    BY <2>6, <2>7, Zenon DEF Draws
  <2>9. store[parts[j]][x].column # "zero"
    BY <1>2, <2>1, <2>4, <2>5 DEF KeysMirrored
  <2>10. FetchedEntity(parts[j], x, out).id = x
    BY <2>5, <2>9 DEF FetchedEntity, Shown
  <2> QED BY <2>8, <2>10 DEF Ids
<1> HIDE DEF N, ids, out, r, rows, good, plain, stored, own
<1>7. r.raised \in BOOLEAN /\ (r.raised => pkType = "Int64" /\ ~own) /\ (~r.raised => r.rows = rows)
      /\ (~r.raised /\ pkType = "Int64" => own) /\ (pkType = "VarChar" => ~r.raised)
  BY <1>3
<1>8. r.raised => pkType = "Int64" /\ ~plain
  BY <1>4, <1>7
<1>9. ~r.raised /\ (plain \/ pkType = "Int64") =>
         /\ Len(r.rows) = Cardinality(stored)
         /\ ~legacy => Ids(r.rows) = stored
         /\ \A i \in DOMAIN r.rows : \E p \in good, k \in stored :
               /\ k \in Stored(p) /\ r.rows[i].id \in {k, 0}
               /\ store[p][k].fields \cap (IF out = {} THEN {Scalar, Extra} ELSE out) \subseteq r.rows[i].shows
  BY <1>4, <1>5, <1>7
<1>10. pkType = "VarChar" =>
          \A i \in DOMAIN parts :
             fetch[parts[i]] # "raises" /\ (\A j \in 1 .. i - 1 : fetch[parts[j]] # "bare")
                => ids \cap Stored(parts[i]) \subseteq Ids(r.rows)
  BY <1>2, <1>6, <1>7
<1> QED BY <1>8, <1>9, <1>10, Zenon DEF r, good, plain, stored, ids, out

-----------------------------------------------------------------------------
(* search                                                                  *)

\* The keys of the partitions ...
KeysIn(ps) == UNION {Stored(p) : p \in ToSet(ps)}
\* ... and the score of a row, by partition and key.
ScoreIn(pk, q) == ScoreOf(pk[1], q, pk[2])

\* What Search returns, if zvec and the catalog agree on the metric.
NearestBy(r, ps, q, limit, d) ==
    /\ Len(r) \in Nat /\ DOMAIN r = 1 .. Len(r)
    /\ Len(r) = (IF Cardinality(KeysIn(ps)) < limit THEN Cardinality(KeysIn(ps)) ELSE limit)
    /\ \A i, j \in 1 .. Len(r) : i < j => r[i].id # r[j].id /\ ~Better(d, r[j].score, r[i].score)
    /\ \A i \in 1 .. Len(r) : \E pk \in StoredIn(ps) : r[i].id = pk[2] /\ r[i].score = ScoreIn(pk, q)
    /\ \A i \in 1 .. Len(r), pk \in StoredIn(ps) :
          Better(d, ScoreIn(pk, q), r[i].score) => \E n \in 1 .. i - 1 : r[n].id = pk[2]

\* The rows s, sorted, and those of them that are kept.
LEMMA NearestOf ==
    ASSUME CatalogOK, RowsOK, NEW ps \in Seq(PartNames), NEW q \in Int, NEW limit \in Nat, NEW out,
           NEW d \in BOOLEAN, NEW m, NEW src, Drawn(m, src, ps, q, limit, out),
           \A pk \in StoredIn(ps) : /\ Shown(pk[1], pk[2], Columns(out), out).id = pk[2]
                                    /\ Descending(engine[pk[1]]) = d /\ ScoreIn(pk, q) \in Int
    PROVE  NearestBy(Cut(Deduped(StableSort(m, d)), limit), ps, q, limit, d)
<1> DEFINE S == StoredIn(ps)  M == Len(m)  s == StableSort(m, d)  u == Deduped(s)  r == Cut(u, limit)
           sc(pk) == ScoreIn(pk, q)
<1>1. /\ m \in Seq(Hit) /\ M \in Nat
      /\ src \in [1 .. M -> S]
      /\ \A j, k \in 1 .. M : src[j] = src[k] => j = k
      /\ \A k \in 1 .. M : m[k].id = src[k][2] /\ m[k].score = sc(src[k])
      /\ \A pk \in S :
          \/ \E k \in 1 .. M : src[k] = pk
          \/ \E K \in SUBSET (1 .. M) :
                /\ Cardinality(K) = limit
                /\ \A k \in K : src[k][1] = pk[1] /\ ~Better(d, sc(pk), m[k].score)
  <2>1. /\ m \in Seq(Hit) /\ M \in Nat
        /\ src \in [1 .. M -> S]
        /\ \A j, k \in 1 .. M : src[j] = src[k] => j = k
    BY DEF Drawn
  <2>2. ASSUME NEW k \in 1 .. M PROVE m[k].id = src[k][2] /\ m[k].score = sc(src[k])
    <3>1. /\ m[k].id = Shown(src[k][1], src[k][2], Columns(out), out).id
          /\ m[k].score = ScoreOf(src[k][1], q, src[k][2])
      BY DEF Drawn
    <3>2. src[k] \in S
      BY <2>1
    <3> QED BY <3>1, <3>2 DEF ScoreIn
  <2>3. ASSUME NEW pk \in S
        PROVE  \/ \E k \in 1 .. M : src[k] = pk
               \/ \E K \in SUBSET (1 .. M) :
                     /\ Cardinality(K) = limit
                     /\ \A k \in K : src[k][1] = pk[1] /\ ~Better(d, sc(pk), m[k].score)
    <3>1. \/ \E k \in 1 .. M : src[k] = pk
          \/ \E K \in SUBSET (1 .. M) :
                /\ Cardinality(K) = limit
                /\ \A k \in K : /\ src[k][1] = pk[1]
                                /\ ~Better(Descending(engine[pk[1]]), ScoreOf(pk[1], q, pk[2]), m[k].score)
      BY DEF Drawn
    <3>2. Descending(engine[pk[1]]) = d /\ ScoreOf(pk[1], q, pk[2]) = sc(pk)
      BY DEF ScoreIn
    <3> QED BY <3>1, <3>2
  <2> QED BY <2>1, <2>2, <2>3
<1>2. \A pk \in S : sc(pk) \in Int /\ pk = <<pk[1], pk[2]>>
  BY StoredInIs
<1> HIDE DEF S, sc
<1>3. \A k \in 1 .. M : src[k] \in S /\ m[k].score \in Int
  BY <1>1, <1>2
<1>4. PICK o : /\ Enumerates(o, 1 .. M) /\ Len(o) = M
               /\ s = [n \in 1 .. M |-> m[o[n]]]
               /\ \A x, y \in 1 .. M : x < y => \/ Better(d, m[o[x]].score, m[o[y]].score)
                                                \/ m[o[x]].score = m[o[y]].score /\ o[x] < o[y]
  <2>1. m \in Seq(Hit) /\ \A i \in 1 .. Len(m) : m[i].score \in Int
    BY <1>1, <1>3
  <2> QED BY <2>1, SortIs
<1>5. s \in Seq(Hit) /\ Len(s) = M
  <2>1. \A k \in 1 .. M : m[k] \in Hit
    BY <1>1, ElementOfSeq
  <2>2. \A n \in 1 .. M : o[n] \in 1 .. M
    BY <1>4 DEF Enumerates
  <2>3. s \in [1 .. M -> Hit]
    BY <1>4, <2>1, <2>2
  <2> HIDE DEF s, M
  <2> QED BY <1>1, <2>3, Listing
<1>6. \A n \in 1 .. M : o[n] \in 1 .. M /\ s[n] = m[o[n]]
  BY <1>4 DEF Enumerates
<1> HIDE DEF M, s
<1>7. \A x \in 1 .. M : \E y \in 1 .. M : o[y] = x /\ s[y] = m[x]
  <2>1. \A x \in 1 .. M : \E y \in 1 .. Len(o) : o[y] = x
    BY <1>4 DEF Enumerates
  <2> QED BY <1>4, <1>6, <2>1
<1>8. \A n \in 1 .. M : s[n].score \in Int
  BY <1>3, <1>6
<1>9. ASSUME NEW x \in 1 .. M, NEW y \in 1 .. M, Better(d, s[x].score, s[y].score) PROVE x < y
  <2> SUFFICES ASSUME ~(x < y) PROVE FALSE
    OBVIOUS
  <2>1. x = y \/ y < x
    BY <1>1
  <2>2. s[x].score = s[y].score \/ Better(d, s[y].score, s[x].score)
    BY <1>4, <1>6, <2>1
  <2>3. s[x].score \in Int /\ s[y].score \in Int
    BY <1>8
  <2>4. CASE d
    BY <1>9, <2>2, <2>3, <2>4 DEF Better
  <2>5. CASE ~d
    BY <1>9, <2>2, <2>3, <2>5 DEF Better
  <2> QED BY <2>4, <2>5
<1>10. u \in Seq(Hit) /\ \E w : DedupedBy(u, w, s)
  BY <1>5, DedupedIs
<1>11. PICK w : DedupedBy(u, w, s)
  BY <1>10
<1> HIDE DEF u
<1>12. /\ Len(u) \in Nat
       /\ \A n \in 1 .. Len(u) : w[n] \in Firsts(s) /\ u[n] = s[w[n]]
       /\ \A x, y \in 1 .. Len(u) : x < y <=> w[x] < w[y]
       /\ \A x, y \in 1 .. Len(u) : u[x].id = u[y].id => x = y
       /\ \A i \in 1 .. M : \E n \in 1 .. Len(u) : w[n] <= i /\ u[n].id = s[i].id
  BY <1>5, <1>11 DEF DedupedBy
<1>13. \A n \in 1 .. Len(u) : w[n] \in 1 .. M /\ u[n] = s[w[n]] /\ u[n].score \in Int
  BY <1>5, <1>8, <1>12 DEF Firsts
<1>14. /\ r \in Seq(Hit) /\ Len(r) = Least2(limit, Len(u)) /\ Len(r) \in Nat /\ Len(r) <= limit
       /\ \A i \in 1 .. Len(r) : i \in 1 .. Len(u) /\ r[i] = u[i]
  BY <1>10, CutIs
<1> HIDE DEF r
\* A stored row that is nearer than the i-th has its key among the i-1 before it.
<1>15. ASSUME NEW i \in 1 .. Len(r), NEW k \in 1 .. M, Better(d, m[k].score, r[i].score)
       PROVE  \E n \in 1 .. i - 1 : r[n].id = src[k][2]
  <2>1. i \in 1 .. Len(u) /\ r[i] = s[w[i]] /\ w[i] \in 1 .. M
    BY <1>13, <1>14
  <2>2. PICK y \in 1 .. M : s[y] = m[k]
    BY <1>7
  <2>3. y < w[i]
    BY <1>9, <1>15, <2>1, <2>2
  <2>4. PICK n \in 1 .. Len(u) : w[n] <= y /\ u[n].id = s[y].id
    BY <1>12
  <2>5. w[n] < w[i]
    BY <1>13, <2>1, <2>3, <2>4
  <2>6. n < i
    BY <1>12, <2>1, <2>5
  <2>7. n \in 1 .. i - 1 /\ n \in 1 .. Len(r)
    BY <1>14, <2>6
  <2>8. r[n].id = src[k][2]
    BY <1>1, <1>14, <2>2, <2>4, <2>7
  <2> QED BY <2>7, <2>8
\* The rows of one partition that are drawn have different keys.
<1>16. ASSUME NEW K \in SUBSET (1 .. M), NEW p, \A k \in K : src[k][1] = p, NEW n \in Nat,
              \A k \in K : \E j \in 1 .. n : u[j].id = src[k][2]
       PROVE  Cardinality(K) <= n
  <2> DEFINE at(k) == CHOOSE j \in 1 .. n : u[j].id = src[k][2]
             f == [k \in K |-> at(k)]
  <2>1. \A k \in K : at(k) \in 1 .. n /\ u[at(k)].id = src[k][2]
    BY <1>16
  <2> HIDE DEF at
  <2>2. ASSUME NEW j \in K, NEW k \in K, f[j] = f[k] PROVE j = k
    <3>1. src[j][2] = src[k][2] /\ src[j][1] = src[k][1]
      <4>1. at(j) = at(k)
        BY <2>2
      <4>2. u[at(j)].id = src[j][2] /\ u[at(k)].id = src[k][2]
        BY <2>1
      <4>3. src[j][1] = p /\ src[k][1] = p
        BY <1>16
      <4> QED BY <4>1, <4>2, <4>3
    <3>2. src[j] = <<src[j][1], src[j][2]>> /\ src[k] = <<src[k][1], src[k][2]>>
      BY <1>2, <1>3
    <3>3. src[j] = src[k]
      BY <3>1, <3>2
    <3> QED BY <1>1, <3>3
  <2>3. f \in Injection(K, 1 .. n)
    BY <2>1, <2>2 DEF Injection, IsInjective
  <2>4. IsFiniteSet(1 .. n) /\ Cardinality(1 .. n) = n
    BY FS_Interval
  <2> QED BY <2>3, <2>4, FS_Injection
<1>17. ASSUME NEW i \in 1 .. Len(r), NEW pk \in S, Better(d, sc(pk), r[i].score)
       PROVE  \E n \in 1 .. i - 1 : r[n].id = pk[2]
  <2>0. r[i].score \in Int /\ sc(pk) \in Int /\ i \in Nat /\ i <= limit /\ i - 1 \in Nat
    BY <1>2, <1>13, <1>14
  <2>1. CASE \E k \in 1 .. M : src[k] = pk
    <3>1. PICK k \in 1 .. M : src[k] = pk
      BY <2>1
    <3>2. m[k].score = sc(pk)
      BY <1>1, <3>1
    <3> QED BY <1>15, <1>17, <3>1, <3>2
  <2>2. CASE \E K \in SUBSET (1 .. M) :
                /\ Cardinality(K) = limit
                /\ \A k \in K : src[k][1] = pk[1] /\ ~Better(d, sc(pk), m[k].score)
    <3>1. PICK K \in SUBSET (1 .. M) : /\ Cardinality(K) = limit
                                       /\ \A k \in K : src[k][1] = pk[1] /\ ~Better(d, sc(pk), m[k].score)
      BY <2>2
    <3>2. ASSUME NEW k \in K PROVE \E j \in 1 .. i - 1 : u[j].id = src[k][2]
      <4>1. m[k].score \in Int /\ ~Better(d, sc(pk), m[k].score)
        BY <1>3, <3>1
      <4>2. Better(d, m[k].score, r[i].score)
        <5>1. CASE d
          BY <1>17, <2>0, <4>1, <5>1 DEF Better
        <5>2. CASE ~d
          BY <1>17, <2>0, <4>1, <5>2 DEF Better
        <5> QED BY <5>1, <5>2
      <4>3. PICK j \in 1 .. i - 1 : r[j].id = src[k][2]
        BY <1>15, <4>2
      <4>4. j \in 1 .. Len(r)
        BY <1>14
      <4> QED BY <1>14, <4>3, <4>4
    <3>3. limit <= i - 1
      BY <1>16, <2>0, <3>1, <3>2
    <3> QED BY <2>0, <3>3
  <2> QED BY <1>1, <2>1, <2>2
<1> DEFINE KK == KeysIn(ps)
<1>18. /\ \A pk \in S : pk[2] \in KK
       /\ \A k \in KK : \E p : <<p, k>> \in S
  <2>1. \A pk \in S : pk[1] \in ToSet(ps) /\ pk[2] \in Stored(pk[1])
    BY DEF S, StoredIn
  <2>2. ASSUME NEW k \in KK PROVE \E p : <<p, k>> \in S
    <3>1. PICK p \in ToSet(ps) : k \in Stored(p)
      BY DEF KeysIn
    <3>2. PICK i \in 1 .. Len(ps) : p = ps[i]
      BY LenProperties DEF ToSet
    <3>3. <<p, k>> \in S
      BY <3>1, <3>2, StoredInIs DEF S
    <3> QED BY <3>3
  <2> QED BY <2>1, <2>2 DEF KeysIn
<1>19. IsFiniteSet(KK) /\ Cardinality(KK) \in Nat
  <2>1. ASSUME NEW p \in ToSet(ps) PROVE Stored(p) \in SUBSET Keys
    <3>1. p \in PartNames
      BY ElementOfSeq, LenProperties DEF ToSet
    <3> QED BY <3>1, StoredIs
  <2>2. KK \in SUBSET Keys
    BY <2>1 DEF KeysIn
  <2> HIDE DEF KK
  <2> QED BY <2>2, SearchAssumption, FS_Subset, FS_CardinalityType
<1> HIDE DEF KK
<1>20. \A n \in 1 .. Len(u) : \E k \in 1 .. M : u[n] = m[k] /\ u[n].id \in KK
  <2> TAKE n \in 1 .. Len(u)
  <2>1. PICK k \in 1 .. M : u[n] = m[k]
    <3>1. w[n] \in 1 .. M /\ u[n] = s[w[n]]
      BY <1>13
    <3> QED BY <1>6, <3>1
  <2>2. m[k].id \in KK
    BY <1>1, <1>3, <1>18
  <2> QED BY <2>1, <2>2
<1> DEFINE g == [n \in 1 .. Len(u) |-> u[n].id]
<1>21. g \in Injection(1 .. Len(u), KK)
  BY <1>12, <1>20 DEF Injection, IsInjective
<1>22. IsFiniteSet(1 .. Len(u)) /\ Cardinality(1 .. Len(u)) = Len(u)
  <2>1. 1 \in Int /\ Len(u) \in Int /\ (IF 1 > Len(u) THEN 0 ELSE Len(u) - 1 + 1) = Len(u)
    BY <1>12
  <2> QED BY <2>1, FS_Interval
<1>23. Len(u) <= Cardinality(KK) /\ (g \in Surjection(1 .. Len(u), KK) => Len(u) = Cardinality(KK))
  <2> HIDE DEF g
  <2> QED BY <1>19, <1>21, <1>22, FS_Injection
<1>24. Len(u) = Cardinality(KK) \/ limit <= Len(u)
  <2>1. CASE \A k \in KK : \E n \in 1 .. Len(u) : u[n].id = k
    <3>1. \A k \in KK : \E n \in 1 .. Len(u) : g[n] = k
      BY <2>1
    <3> HIDE DEF g
    <3>2. g \in Surjection(1 .. Len(u), KK)
      BY <1>21, <3>1 DEF Injection, Surjection
    <3> QED BY <1>23, <3>2
  <2>2. CASE ~ \A k \in KK : \E n \in 1 .. Len(u) : u[n].id = k
    <3>1. PICK k \in KK : ~ \E n \in 1 .. Len(u) : u[n].id = k
      BY <2>2
    <3>2. PICK p : <<p, k>> \in S
      BY <1>18
    <3>3. \A x \in 1 .. M : \E n \in 1 .. Len(u) : u[n].id = src[x][2]
      <4> TAKE x \in 1 .. M
      <4>1. PICK y \in 1 .. M : s[y] = m[x]
        BY <1>7
      <4>2. PICK n \in 1 .. Len(u) : u[n].id = s[y].id
        BY <1>12
      <4> QED BY <1>1, <4>1, <4>2
    <3>4. ~ \E x \in 1 .. M : src[x] = <<p, k>>
      <4> SUFFICES ASSUME NEW x \in 1 .. M, src[x] = <<p, k>> PROVE FALSE
        OBVIOUS
      <4>1. src[x][2] = k
        OBVIOUS
      <4> QED BY <3>1, <3>3, <4>1
    <3>5. PICK K \in SUBSET (1 .. M) : Cardinality(K) = limit /\ \A x \in K : src[x][1] = <<p, k>>[1]
      BY <1>1, <3>2, <3>4
    <3>6. Cardinality(K) <= Len(u)
      <4>1. /\ Len(u) \in Nat /\ K \in SUBSET (1 .. M) /\ \A x \in K : src[x][1] = p
            /\ \A x \in K : \E n \in 1 .. Len(u) : u[n].id = src[x][2]
        BY <1>12, <3>3, <3>5
      <4> QED BY <1>16, <4>1
    <3> QED BY <3>5, <3>6
  <2> QED BY <2>1, <2>2
<1>25. Len(r) = (IF Cardinality(KK) < limit THEN Cardinality(KK) ELSE limit)
  BY <1>12, <1>14, <1>19, <1>23, <1>24 DEF Least2
<1>26. ASSUME NEW i \in 1 .. Len(r), NEW j \in 1 .. Len(r), i < j
       PROVE  r[i].id # r[j].id /\ ~Better(d, r[j].score, r[i].score)
  <2>1. /\ i \in 1 .. Len(u) /\ j \in 1 .. Len(u) /\ r[i] = s[w[i]] /\ r[j] = s[w[j]]
        /\ w[i] \in 1 .. M /\ w[j] \in 1 .. M /\ r[i] = u[i] /\ r[j] = u[j]
    BY <1>13, <1>14
  <2>2. r[i].id # r[j].id
    BY <1>12, <1>26, <2>1
  <2>3. w[i] < w[j]
    BY <1>12, <1>26, <2>1
  <2>4. ~(w[j] < w[i])
    BY <2>1, <2>3, <1>1
  <2> QED BY <1>9, <2>1, <2>2, <2>4
<1>27. ASSUME NEW i \in 1 .. Len(r) PROVE \E pk \in S : r[i].id = pk[2] /\ r[i].score = sc(pk)
  <2>1. PICK k \in 1 .. M : r[i] = m[k]
    BY <1>14, <1>20
  <2> QED BY <1>1, <1>3, <2>1
<1>28. DOMAIN r = 1 .. Len(r)
  BY <1>14, LenProperties
<1>29. NearestBy(r, ps, q, limit, d)
  BY <1>14, <1>17, <1>25, <1>26, <1>27, <1>28 DEF NearestBy, S, sc, KK
<1> QED BY <1>29 DEF r, u, s

\* zvec ranks every partition by the metric of the merge, and no id is zero: a key
\* that is not among the first `limit` has as many better ones ahead of it.
LEMMA SearchHolds ==
    ASSUME CatalogOK, RowsOK, KeysMirrored, EngineFollowsCatalog
    PROVE  SearchFindsNearest
<1> SUFFICES ASSUME AtRest,
                    NEW ps \in {parts} \cup {<<p>> : p \in ToSet(parts)}, NEW q \in Queries, NEW limit \in Limits,
                    NEW out \in {o \in {{}, {Scalar}} : KeySafe(o)}
             PROVE  LET r == Search(ps, q, limit, out)
                        keys == UNION {Stored(p) : p \in ToSet(ps)}
                        scores(k) == {Score(SortMetric, q, store[p][k].at) : p \in {x \in ToSet(ps) : k \in Stored(x)}}
                        best(k) == CHOOSE s \in scores(k) : \A t \in scores(k) : ~Closer(SortMetric, t, s)
                        n == Cardinality(keys)
                    IN /\ Len(r) = (IF n < limit THEN n ELSE limit)
                       /\ \A i, j \in DOMAIN r : i < j => /\ r[i].id # r[j].id
                                                          /\ ~Closer(SortMetric, r[j].score, r[i].score)
                       /\ \A i \in DOMAIN r : /\ r[i].id \in keys /\ r[i].score = best(r[i].id)
                                              /\ \A k \in keys \ Ids(r) : ~Closer(SortMetric, best(k), r[i].score)
  BY DEF SearchFindsNearest
<1> DEFINE r == Search(ps, q, limit, out)
           keys == KeysIn(ps)
           scores(k) == {Score(SortMetric, q, store[p][k].at) : p \in {x \in ToSet(ps) : k \in Stored(x)}}
           best(k) == CHOOSE s \in scores(k) : \A t \in scores(k) : ~Closer(SortMetric, t, s)
           d == Descending(SortMetric)
           S == StoredIn(ps)
<1>1. /\ parts \in Seq(PartNames) /\ IsInjective(parts)
      /\ \A p \in ToSet(parts) : p \in PartNames /\ engine[p] = SortMetric
  BY PartsAre DEF CatalogOK, EngineFollowsCatalog
<1>2. ps \in Seq(PartNames) /\ IsInjective(ps) /\ ToSet(ps) \subseteq ToSet(parts)
  <2>1. CASE ps = parts
    BY <1>1, <2>1
  <2>2. CASE ps \in {<<p>> : p \in ToSet(parts)}
    <3>1. PICK p \in ToSet(parts) : ps = <<p>>
      BY <2>2
    <3>2. ps \in Seq(PartNames) /\ DOMAIN ps = {1} /\ ps[1] = p
      BY <1>1, <3>1
    <3> QED BY <3>2 DEF IsInjective, ToSet
  <2> QED BY <2>1, <2>2
<1>3. q \in Int /\ limit \in Nat /\ d \in BOOLEAN
  BY SearchAssumption DEF Limits, Descending
<1>4. \A x, y : Closer(SortMetric, x, y) <=> Better(d, x, y)
  BY DEF Closer, Better
<1>5. \A p \in ToSet(ps) : \A k : ScoreOf(p, q, k) = Score(SortMetric, q, store[p][k].at)
  BY <1>1, <1>2 DEF ScoreOf
<1>6. ASSUME NEW p \in ToSet(ps), NEW k \in Stored(p)
      PROVE  /\ p \in PartNames /\ ScoreOf(p, q, k) \in Int
             /\ Descending(engine[p]) = d
             /\ Shown(p, k, Columns(out), out).id = k
  <2>1. p \in PartNames /\ engine[p] = SortMetric /\ engine[p] \in Metrics
    BY <1>1, <1>2 DEF CatalogOK
  <2>2. store[p][k].at \in Int
    BY <2>1, StoredIs, SearchAssumption DEF Rows
  <2>3. ScoreOf(p, q, k) \in Int
    BY <1>3, <2>1, <2>2, ScoreIs DEF ScoreOf
  <2>4. Columns(out) # {} \/ store[p][k].column # "zero"
    BY <2>1 DEF KeySafe, KeysMirrored
  <2>5. Shown(p, k, Columns(out), out).id = k
    BY <2>1, <2>4, ShownIs
  <2> QED BY <2>1, <2>3, <2>5
<1>7. \A pk \in S : /\ pk[1] \in ToSet(ps) /\ pk[2] \in Stored(pk[1])
                    /\ Shown(pk[1], pk[2], Columns(out), out).id = pk[2]
                    /\ Descending(engine[pk[1]]) = d /\ ScoreIn(pk, q) \in Int
  BY <1>6 DEF StoredIn, ScoreIn
<1>8. PICK src : Drawn(Merged(ps, q, limit, out), src, ps, q, limit, out)
  BY <1>2, <1>3, MergedDrawn
<1>9. r = Cut(Deduped(StableSort(Merged(ps, q, limit, out), d)), limit)
  BY DEF Search
<1> HIDE DEF r, d
<1>10. NearestBy(r, ps, q, limit, d)
  BY <1>2, <1>3, <1>7, <1>8, <1>9, NearestOf
<1>11. ASSUME NEW k \in keys
       PROVE  best(k) \in scores(k) /\ \A t \in scores(k) : ~Better(d, t, best(k))
  <2> DEFINE P == {x \in ToSet(ps) : k \in Stored(x)}
             f == [p \in P |-> Score(SortMetric, q, store[p][k].at)]
  <2>1. P # {}
    BY DEF KeysIn
  <2>2. IsFiniteSet(P)
    <3>1. P \in SUBSET PartNames
      BY <1>6
    <3> HIDE DEF P
    <3> QED BY <3>1, SearchAssumption, FS_Subset
  <2>3. \A p \in P : Score(SortMetric, q, store[p][k].at) \in Int
    BY <1>5, <1>6
  <2>4. scores(k) \in SUBSET Int /\ scores(k) # {}
    BY <2>1, <2>3
  <2>5. IsFiniteSet(scores(k))
    <3>1. f \in Surjection(P, scores(k))
      <4>1. \A p \in P : f[p] = Score(SortMetric, q, store[p][k].at) /\ f[p] \in scores(k)
        OBVIOUS
      <4>2. f \in [P -> scores(k)]
        BY <4>1
      <4>3. \A t \in scores(k) : \E p \in P : t = f[p]
        BY <4>1
      <4> HIDE DEF f, P, scores
      <4> QED BY <4>2, <4>3 DEF Surjection
    <3> HIDE DEF f, P, scores
    <3> QED BY <2>2, <3>1, FS_Surjection
  <2> HIDE DEF P, f, scores
  <2>6. PICK s \in scores(k) : \A t \in scores(k) : ~Better(d, t, s)
    BY <1>3, <2>4, <2>5, BestOf
  <2>7. \A t \in scores(k) : ~Closer(SortMetric, t, s)
    BY <1>4, <2>6
  <2>8. best(k) \in scores(k) /\ \A t \in scores(k) : ~Closer(SortMetric, t, best(k))
    BY <2>7
  <2> QED BY <1>4, <2>8
<1>12. ASSUME NEW pk \in S PROVE pk[2] \in keys /\ ScoreIn(pk, q) \in scores(pk[2])
  <2>1. pk[1] \in ToSet(ps) /\ pk[2] \in Stored(pk[1])
    BY <1>7
  <2>2. ScoreIn(pk, q) = Score(SortMetric, q, store[pk[1]][pk[2]].at)
    BY <1>5, <2>1 DEF ScoreIn
  <2> QED BY <2>1, <2>2 DEF KeysIn
<1>13. ASSUME NEW k \in keys, NEW t \in scores(k) PROVE \E pk \in S : pk[2] = k /\ ScoreIn(pk, q) = t
  <2>1. PICK p \in ToSet(ps) : k \in Stored(p) /\ t = Score(SortMetric, q, store[p][k].at)
    OBVIOUS
  <2>2. <<p, k>> \in S
    <3>1. k \in Keys
      BY <1>6, <2>1, StoredIs
    <3> QED BY <2>1, <3>1 DEF StoredIn
  <2>3. ScoreIn(<<p, k>>, q) = t
    BY <1>5, <2>1 DEF ScoreIn
  <2> QED BY <2>2, <2>3
<1> HIDE DEF scores, best, keys, S
<1>14. /\ Len(r) \in Nat /\ DOMAIN r = 1 .. Len(r)
       /\ Len(r) = (IF Cardinality(keys) < limit THEN Cardinality(keys) ELSE limit)
       /\ \A i, j \in 1 .. Len(r) : i < j => r[i].id # r[j].id /\ ~Better(d, r[j].score, r[i].score)
       /\ \A i \in 1 .. Len(r) : \E pk \in S : r[i].id = pk[2] /\ r[i].score = ScoreIn(pk, q)
       /\ \A i \in 1 .. Len(r), pk \in S :
             Better(d, ScoreIn(pk, q), r[i].score) => \E n \in 1 .. i - 1 : r[n].id = pk[2]
  BY <1>10 DEF NearestBy, keys, S
<1>15. ASSUME NEW i \in DOMAIN r PROVE r[i].id \in keys /\ r[i].score = best(r[i].id)
  <2>1. PICK pk \in S : r[i].id = pk[2] /\ r[i].score = ScoreIn(pk, q)
    BY <1>14
  <2>2. r[i].id \in keys /\ r[i].score \in scores(r[i].id) /\ r[i].score \in Int
    BY <1>7, <1>12, <2>1
  <2>3. best(r[i].id) \in scores(r[i].id) /\ ~Better(d, r[i].score, best(r[i].id))
    BY <1>11, <2>2
  <2>4. PICK bk \in S : bk[2] = r[i].id /\ ScoreIn(bk, q) = best(r[i].id)
    BY <1>13, <2>2, <2>3
  <2>5. ~Better(d, best(r[i].id), r[i].score)
    <3> SUFFICES ASSUME Better(d, best(r[i].id), r[i].score) PROVE FALSE
      OBVIOUS
    <3>1. i \in 1 .. Len(r)
      BY <1>14
    <3>2. PICK n \in 1 .. i - 1 : r[n].id = r[i].id
      BY <1>14, <2>4, <3>1
    <3>3. n \in 1 .. Len(r) /\ n < i
      BY <1>14, <3>1
    <3> QED BY <1>14, <3>1, <3>2, <3>3
  <2>6. best(r[i].id) \in Int
    BY <1>7, <2>4
  <2>7. CASE d
    BY <2>2, <2>3, <2>5, <2>6, <2>7 DEF Better
  <2>8. CASE ~d
    BY <2>2, <2>3, <2>5, <2>6, <2>8 DEF Better
  <2> QED BY <2>2, <2>7, <2>8
<1>16. ASSUME NEW i \in DOMAIN r, NEW k \in keys \ Ids(r) PROVE ~Better(d, best(k), r[i].score)
  <2> SUFFICES ASSUME Better(d, best(k), r[i].score) PROVE FALSE
    OBVIOUS
  <2>1. PICK pk \in S : pk[2] = k /\ ScoreIn(pk, q) = best(k)
    BY <1>11, <1>13
  <2>2. i \in 1 .. Len(r)
    BY <1>14
  <2>3. PICK n \in 1 .. i - 1 : r[n].id = k
    BY <1>14, <2>1, <2>2
  <2>4. n \in DOMAIN r
    BY <1>14, <2>2
  <2> QED BY <2>3, <2>4 DEF Ids
<1>17. /\ \A i, j \in DOMAIN r : i < j => r[i].id # r[j].id /\ ~Closer(SortMetric, r[j].score, r[i].score)
       /\ \A i \in DOMAIN r : /\ r[i].id \in keys /\ r[i].score = best(r[i].id)
                              /\ \A k \in keys \ Ids(r) : ~Closer(SortMetric, best(k), r[i].score)
  BY <1>4, <1>14, <1>15, <1>16
<1>18. keys = UNION {Stored(p) : p \in ToSet(ps)}
  BY DEF keys, KeysIn
<1> QED BY <1>14, <1>17, <1>18, Zenon DEF r, best, scores

-----------------------------------------------------------------------------
(* hybrid_search: the fusion of the lists                                  *)

\* RankIn is the place of an id.
LEMMA IdsAre ==
    ASSUME NEW T, NEW list \in Seq(T)
    PROVE  /\ Len(list) \in Nat /\ DOMAIN list = 1 .. Len(list)
           /\ \A i \in 1 .. Len(list) : list[i] \in T /\ list[i].id \in Ids(list)
           /\ \A id \in Ids(list) : RankIn(list, id) \in 1 .. Len(list) /\ list[RankIn(list, id)].id = id
           /\ Distinct(list) => \A i \in 1 .. Len(list) : RankIn(list, list[i].id) = i
<1>1. Len(list) \in Nat /\ DOMAIN list = 1 .. Len(list) /\ \A i \in 1 .. Len(list) : list[i] \in T
  BY ElementOfSeq, LenProperties
<1>2. \A i \in 1 .. Len(list) : list[i].id \in Ids(list)
  BY <1>1 DEF Ids
<1>3. ASSUME NEW id \in Ids(list)
      PROVE  RankIn(list, id) \in 1 .. Len(list) /\ list[RankIn(list, id)].id = id
  <2>1. \E i \in DOMAIN list : list[i].id = id
    BY DEF Ids
  <2>2. RankIn(list, id) \in DOMAIN list /\ list[RankIn(list, id)].id = id
    BY <2>1 DEF RankIn
  <2> QED BY <1>1, <2>2
<1>4. ASSUME Distinct(list), NEW i \in 1 .. Len(list) PROVE RankIn(list, list[i].id) = i
  BY <1>2, <1>3, <1>4 DEF Distinct
<1> QED BY <1>1, <1>2, <1>3, <1>4

\* Fused lists every id once; one whose total is no less than that of another, and
\* which is ahead of it wherever the other is, was met first and stays ahead.
LEMMA FusedKeeps ==
    ASSUME NEW lists \in Seq(Seq(Hit)), \A n \in 1 .. Len(lists) : Distinct(lists[n]),
           NEW total, \A id \in AllIds(lists) : total[id] \in Int
    PROVE  /\ Len(Fused(lists, total)) = Cardinality(Ids(Fused(lists, total)))
           /\ Ids(Fused(lists, total)) = AllIds(lists)
           /\ \A x, y \in AllIds(lists) :
                 /\ total[y] <= total[x]
                 /\ \A n \in 1 .. Len(lists) : y \in Ids(lists[n]) => Ahead(lists[n], x, y)
                 => ~Ahead(Fused(lists, total), y, x)
<1> DEFINE N == Len(lists)
           F == FlattenSeq(lists)
           met == Deduped(F)
           scored == [i \in DOMAIN met |-> [id |-> met[i].id, score |-> total[met[i].id]]]
           f == Fused(lists, total)
           A == AllIds(lists)
           T == [id : Keys \cup {0}, score : Int]
<1>1. /\ N \in Nat /\ DOMAIN lists = 1 .. N
      /\ \A n \in 1 .. N : lists[n] \in Seq(Hit)
  BY ElementOfSeq, LenProperties
<1>2. F \in Seq(Hit) /\ \E o : Joins(F, o, lists, N)
  BY FlattenIs
<1>3. PICK o : Joins(F, o, lists, N)
  BY <1>2
<1>4. f = StableSort(scored, TRUE)
  BY DEF Fused
<1> HIDE DEF F, f
<1>5. met \in Seq(Hit) /\ \E w : DedupedBy(met, w, F)
  BY <1>2, DedupedIs
<1>6. PICK w : DedupedBy(met, w, F)
  BY <1>5
<1> DEFINE K == Len(met)
<1> HIDE DEF met
<1>7. /\ K \in Nat
      /\ \A n \in 1 .. K : w[n] \in Firsts(F) /\ met[n] = F[w[n]]
      /\ \A a, b \in 1 .. K : a < b <=> w[a] < w[b]
      /\ \A a, b \in 1 .. K : met[a].id = met[b].id => a = b
      /\ \A i \in 1 .. Len(F) : \E n \in 1 .. K : met[n].id = F[i].id
  BY <1>6 DEF DedupedBy
<1>8. /\ Len(o) = Len(F) /\ Len(F) \in Nat
      /\ \A k \in 1 .. Len(F) : o[k] \in Places(lists, N) /\ F[k] = lists[o[k][1]][o[k][2]]
      /\ \A x \in Places(lists, N) : \E k \in 1 .. Len(F) : o[k] = x
      /\ \A j, k \in 1 .. Len(F) : j < k => Earlier(o[j], o[k])
  BY <1>2, <1>3, LenProperties DEF Joins, Enumerates
<1>9. ASSUME NEW n \in 1 .. N, NEW i \in 1 .. Len(lists[n])
      PROVE  \E k \in 1 .. Len(F) : o[k] = <<n, i>> /\ F[k].id = lists[n][i].id
  <2>1. Len(lists[n]) \in Nat
    BY <1>1, LenProperties
  <2>2. <<n, i>> \in Places(lists, N)
    BY <2>1 DEF Places
  <2>3. PICK k \in 1 .. Len(F) : o[k] = <<n, i>>
    BY <1>8, <2>2
  <2>4. F[k] = lists[n][i]
    BY <1>8, <2>3
  <2> QED BY <2>3, <2>4
<1>10. ASSUME NEW k \in 1 .. Len(F)
       PROVE  \E n \in 1 .. N : \E i \in 1 .. Len(lists[n]) : o[k] = <<n, i>> /\ F[k].id = lists[n][i].id
  <2>1. o[k] \in (1 .. N) \X Nat /\ o[k][2] \in 1 .. Len(lists[o[k][1]])
    BY <1>8 DEF Places
  <2> HIDE DEF N
  <2>2. o[k] = <<o[k][1], o[k][2]>> /\ o[k][1] \in 1 .. N /\ o[k][2] \in Nat
    BY <2>1
  <2>3. PICK n \in 1 .. N, i \in Nat : o[k] = <<n, i>>
    BY <2>2
  <2>4. i \in 1 .. Len(lists[n]) /\ F[k] = lists[n][i]
    BY <1>8, <2>1, <2>3
  <2> QED BY <2>3, <2>4
<1> HIDE DEF N
<1>11. \A id : id \in A <=> \E n \in 1 .. N : \E i \in 1 .. Len(lists[n]) : id = lists[n][i].id
  <2>1. \A n \in 1 .. N : DOMAIN lists[n] = 1 .. Len(lists[n])
    BY <1>1, LenProperties
  <2>2. \A id : id \in A <=> \E n \in DOMAIN lists : id \in Ids(lists[n])
    BY Zenon DEF AllIds
  <2>3. \A n \in 1 .. N : \A id : id \in Ids(lists[n]) <=> \E i \in 1 .. Len(lists[n]) : id = lists[n][i].id
    BY <2>1 DEF Ids
  <2>4. DOMAIN lists = 1 .. N
    BY <1>1
  <2> HIDE DEF A
  <2> QED BY <2>2, <2>3, <2>4
<1> HIDE DEF A, K
<1>12. \A n \in 1 .. K : met[n].id \in A
  <2> TAKE n \in 1 .. K
  <2>1. w[n] \in 1 .. Len(F) /\ met[n] = F[w[n]]
    BY <1>7 DEF Firsts, K
  <2>2. PICK m \in 1 .. N : \E i \in 1 .. Len(lists[m]) : F[w[n]].id = lists[m][i].id
    BY <1>10, <2>1
  <2>3. PICK i \in 1 .. Len(lists[m]) : F[w[n]].id = lists[m][i].id
    BY <2>2
  <2> QED BY <1>11, <2>1, <2>3
<1>13. \A id \in A : \E n \in 1 .. K : met[n].id = id
  <2> TAKE id \in A
  <2>1. PICK n \in 1 .. N : \E i \in 1 .. Len(lists[n]) : id = lists[n][i].id
    BY <1>11
  <2>2. PICK i \in 1 .. Len(lists[n]) : id = lists[n][i].id
    BY <2>1
  <2>3. PICK k \in 1 .. Len(F) : F[k].id = id
    BY <1>9, <2>2
  <2> QED BY <1>7, <2>3
<1>14. \A id \in A : total[id] \in Int
  BY DEF A
<1>15. scored = [i \in 1 .. K |-> [id |-> met[i].id, score |-> total[met[i].id]]]
  BY <1>5, LenProperties DEF K
<1> HIDE DEF scored
<1>16. scored \in [1 .. K -> T] /\ \A i \in 1 .. K : scored[i].id = met[i].id /\ scored[i].score = total[met[i].id]
  <2>1. ASSUME NEW i \in 1 .. K
        PROVE  [id |-> met[i].id, score |-> total[met[i].id]] \in T
    <3>1. met[i] \in Hit
      BY <1>5, ElementOfSeq DEF K
    <3> QED BY <1>12, <1>14, <3>1 DEF Hit
  <2>2. ASSUME NEW i \in 1 .. K PROVE scored[i].id = met[i].id /\ scored[i].score = total[met[i].id]
    <3>1. scored[i] = [id |-> met[i].id, score |-> total[met[i].id]]
      BY <1>15
    <3> QED BY <3>1
  <2> QED BY <1>15, <2>1, <2>2
<1>17. scored \in Seq(T) /\ Len(scored) = K
  BY <1>7, <1>16, Listing
<1>18. \A i \in 1 .. Len(scored) : scored[i].score \in Int
  BY <1>12, <1>14, <1>16, <1>17
<1> HIDE DEF T
<1>19. PICK v : /\ Enumerates(v, 1 .. K) /\ Len(v) = K
                /\ f = [n \in 1 .. K |-> scored[v[n]]]
                /\ \A a, b \in 1 .. K :
                      a < b => \/ Better(TRUE, scored[v[a]].score, scored[v[b]].score)
                               \/ scored[v[a]].score = scored[v[b]].score /\ v[a] < v[b]
  <2>1. TRUE \in BOOLEAN
    OBVIOUS
  <2>2. \E v : /\ Enumerates(v, 1 .. Len(scored)) /\ Len(v) = Len(scored)
               /\ StableSort(scored, TRUE) = [n \in 1 .. Len(scored) |-> scored[v[n]]]
               /\ \A a, b \in 1 .. Len(scored) :
                     a < b => \/ Better(TRUE, scored[v[a]].score, scored[v[b]].score)
                              \/ scored[v[a]].score = scored[v[b]].score /\ v[a] < v[b]
    BY <1>17, <1>18, <2>1, SortIs
  <2> QED BY <1>4, <1>17, <2>2
<1>20. /\ \A n \in 1 .. K : v[n] \in 1 .. K
       /\ \A m \in 1 .. K : \E n \in 1 .. K : v[n] = m
       /\ \A m, n \in 1 .. K : v[m] = v[n] => m = n
  BY <1>19 DEF Enumerates
<1>21. \A n \in 1 .. K : f[n].id = met[v[n]].id
  BY <1>16, <1>19, <1>20
<1>22. f \in Seq(T) /\ Len(f) = K
  <2>1. f \in [1 .. K -> T]
    BY <1>16, <1>19, <1>20
  <2> QED BY <1>7, <2>1, Listing DEF K
<1>23. Ids(f) = A
  <2>1. DOMAIN f = 1 .. K
    BY <1>19
  <2>2. \A n \in 1 .. K : f[n].id \in A
    BY <1>12, <1>20, <1>21
  <2>3. \A id \in A : \E n \in 1 .. K : f[n].id = id
    <3> TAKE id \in A
    <3>1. PICK m \in 1 .. K : met[m].id = id
      BY <1>13
    <3>2. PICK n \in 1 .. K : v[n] = m
      BY <1>20
    <3> QED BY <1>21, <3>1, <3>2
  <2> QED BY <2>1, <2>2, <2>3 DEF Ids
<1> DEFINE g == [n \in 1 .. K |-> f[n].id]
<1>24. Cardinality(A) = K
  <2>1. \A n \in 1 .. K : g[n] = met[v[n]].id
    BY <1>21
  <2>2. \A n \in 1 .. K : f[n].id \in A
    BY <1>12, <1>20, <1>21
  <2>3. g \in [1 .. K -> A]
    BY <2>2
  <2> HIDE DEF g
  <2>4. \A id \in A : \E n \in 1 .. K : g[n] = id
    <3> TAKE id \in A
    <3>1. PICK m \in 1 .. K : met[m].id = id
      BY <1>13
    <3>2. PICK n \in 1 .. K : v[n] = m
      BY <1>20
    <3> QED BY <2>1, <3>1, <3>2
  <2>5. ASSUME NEW m \in 1 .. K, NEW n \in 1 .. K, g[m] = g[n] PROVE m = n
    <3>1. v[m] \in 1 .. K /\ v[n] \in 1 .. K /\ met[v[m]].id = met[v[n]].id
      BY <1>20, <2>1, <2>5
    <3>2. v[m] = v[n]
      BY <1>7, <3>1 DEF K
    <3> QED BY <1>20, <3>2
  <2>6. K \in Nat
    BY <1>7
  <2> QED BY <2>3, <2>4, <2>5, <2>6, EnumeratesBy
<1>25. ASSUME NEW x \in A, NEW y \in A, total[y] <= total[x],
              \A n \in 1 .. N : y \in Ids(lists[n]) => Ahead(lists[n], x, y),
              Ahead(f, y, x)
       PROVE  FALSE
  <2> DEFINE a == RankIn(f, y)  b == RankIn(f, x)
  <2>1. a \in 1 .. K /\ b \in 1 .. K /\ f[a].id = y /\ f[b].id = x /\ a < b
    BY <1>22, <1>23, <1>25, IdsAre DEF Ahead
  <2> HIDE DEF a, b
  <2>2. v[a] \in 1 .. K /\ v[b] \in 1 .. K /\ met[v[a]].id = y /\ met[v[b]].id = x
    BY <1>20, <1>21, <2>1
  <2>3. v[a] < v[b]
    <3>1. scored[v[a]].score = total[y] /\ scored[v[b]].score = total[x]
      BY <1>16, <2>2
    <3>2. \/ Better(TRUE, total[y], total[x])
          \/ total[y] = total[x] /\ v[a] < v[b]
      BY <1>19, <2>1, <3>1
    <3>3. total[y] \in Int /\ total[x] \in Int
      BY <1>14
    <3> QED BY <1>25, <3>2, <3>3 DEF Better
  <2> DEFINE k == w[v[a]]  l == w[v[b]]
  <2>4. k < l /\ k \in 1 .. Len(F) /\ l \in 1 .. Len(F) /\ l \in Firsts(F) /\ F[k].id = y /\ F[l].id = x
    <3>1. k < l
      BY <1>7, <2>2, <2>3 DEF K
    <3>2. k \in Firsts(F) /\ l \in Firsts(F) /\ met[v[a]] = F[k] /\ met[v[b]] = F[l]
      BY <1>7, <2>2 DEF K
    <3> QED BY <2>2, <3>1, <3>2 DEF Firsts
  <2> HIDE DEF k, l
  <2>5. PICK n \in 1 .. N : \E i \in 1 .. Len(lists[n]) : o[k] = <<n, i>> /\ F[k].id = lists[n][i].id
    BY <1>10, <2>4
  <2>6. PICK i \in 1 .. Len(lists[n]) : o[k] = <<n, i>> /\ F[k].id = lists[n][i].id
    BY <2>5
  <2>7. lists[n] \in Seq(Hit) /\ Distinct(lists[n])
    BY <1>1 DEF N
  <2>8. y \in Ids(lists[n]) /\ RankIn(lists[n], y) = i
    BY <2>4, <2>6, <2>7, IdsAre
  <2>9. Ahead(lists[n], x, y)
    BY <1>25, <2>8
  <2> DEFINE j == RankIn(lists[n], x)
  <2>10. j \in 1 .. Len(lists[n]) /\ lists[n][j].id = x /\ j < i
    BY <2>7, <2>8, <2>9, IdsAre DEF Ahead
  <2> HIDE DEF j
  <2>11. PICK h \in 1 .. Len(F) : o[h] = <<n, j>> /\ F[h].id = x
    BY <1>9, <2>10
  <2>12. Len(lists[n]) \in Nat /\ n \in Nat
    BY <2>7, LenProperties
  <2>13. h < k
    <3>1. h # k
      <4>1. <<n, j>> # <<n, i>>
        BY <2>10, <2>12
      <4> QED BY <2>6, <2>11, <4>1
    <3>2. ~(k < h)
      <4> SUFFICES ASSUME k < h PROVE FALSE
        OBVIOUS
      <4>1. Earlier(<<n, i>>, <<n, j>>)
        BY <1>8, <2>4, <2>6, <2>11
      <4>2. n < n \/ i < j
        BY <4>1 DEF Earlier
      <4> QED BY <2>10, <2>12, <4>2
    <3> QED BY <1>8, <2>4, <3>1, <3>2
  <2>14. h \in 1 .. l - 1
    BY <1>8, <2>4, <2>13
  <2>15. F[h].id # F[l].id
    BY <2>4, <2>14 DEF Firsts
  <2> QED BY <2>4, <2>11, <2>15
<1>26. Len(f) = Cardinality(Ids(f)) /\ Ids(f) = A
  BY <1>22, <1>23, <1>24
<1> QED BY <1>25, <1>26 DEF N, f, A

\* The lists of a hybrid search: hits, each key at most once.
RankedOK ==
    /\ ranked \in Seq(Seq(Hit))
    /\ \A n \in 1 .. Len(ranked) : Distinct(ranked[n])

\* The lists and their hits.
LEMMA RankedIs ==
    ASSUME RankedOK
    PROVE  /\ Len(ranked) \in Nat /\ DOMAIN ranked = 1 .. Len(ranked) /\ IsFiniteSet(DOMAIN ranked)
           /\ \A n \in 1 .. Len(ranked) :
                 /\ ranked[n] \in Seq(Hit) /\ Distinct(ranked[n])
                 /\ Len(ranked[n]) \in Nat /\ DOMAIN ranked[n] = 1 .. Len(ranked[n])
                 /\ \A i \in 1 .. Len(ranked[n]) : ranked[n][i] \in Hit /\ ranked[n][i].score \in Int
<1>1. Len(ranked) \in Nat /\ DOMAIN ranked = 1 .. Len(ranked)
  BY LenProperties DEF RankedOK
<1>2. IsFiniteSet(1 .. Len(ranked))
  BY <1>1, FS_Interval
<1>3. ASSUME NEW n \in 1 .. Len(ranked)
      PROVE  /\ ranked[n] \in Seq(Hit) /\ Distinct(ranked[n])
             /\ Len(ranked[n]) \in Nat /\ DOMAIN ranked[n] = 1 .. Len(ranked[n])
             /\ \A i \in 1 .. Len(ranked[n]) : ranked[n][i] \in Hit /\ ranked[n][i].score \in Int
  <2>1. ranked[n] \in Seq(Hit) /\ Distinct(ranked[n])
    BY ElementOfSeq DEF RankedOK
  <2>2. \A i \in 1 .. Len(ranked[n]) : ranked[n][i] \in Hit
    BY <2>1, ElementOfSeq
  <2> QED BY <2>1, <2>2, LenProperties DEF Hit
<1> QED BY <1>1, <1>2, <1>3

\* A smaller rank is no smaller a share, rounding included.
LEMMA Shares ==
    ASSUME NEW u \in Nat, NEW b \in Nat, NEW c \in Nat, 0 < b, b <= c
    PROVE  u \div c <= u \div b
<1> DEFINE p == u \div b  q == u \div c
<1>1. p \in Nat /\ b * p <= u /\ u < b * (p + 1)
  OBVIOUS
<1>2. q \in Nat /\ c * q <= u
  OBVIOUS
<1> HIDE DEF p, q
<1>3. ASSUME p < q PROVE FALSE
  <2>1. b * (p + 1) <= b * q
    BY <1>1, <1>2, <1>3
  <2>2. b * q <= c * q
    BY <1>2
  <2>3. b * (p + 1) \in Nat /\ b * q \in Nat /\ c * q \in Nat
    BY <1>1, <1>2
  <2> QED BY <1>1, <1>2, <2>1, <2>2, <2>3
<1>4. q <= p
  BY <1>1, <1>2, <1>3
<1> QED BY <1>4 DEF p, q

\* The common denominator.
LEMMA UnitIs == RrfUnit \in Nat
<1> DEFINE f == [r \in 1 .. MaxLimit |-> RrfK + r]
<1>1. f \in [1 .. MaxLimit -> Nat]
  BY SearchAssumption
<1>2. IsFiniteSet(1 .. MaxLimit)
  BY SearchAssumption, FS_Interval
<1>3. RrfUnit = Product(f)
  BY DEF RrfUnit
<1> HIDE DEF f
<1> QED BY <1>1, <1>2, <1>3, ProductIs

\* Reciprocal ranks: who is ahead in a list has the larger share of it.
LEMMA RrfHolds ==
    ASSUME RankedOK
    PROVE  /\ Len(RrfFuse(ranked)) = Cardinality(Ids(RrfFuse(ranked)))
           /\ Ids(RrfFuse(ranked)) = AllIds(ranked)
           /\ \A x, y \in AllIds(ranked) :
                 (\A n \in DOMAIN ranked : y \in Ids(ranked[n]) => Ahead(ranked[n], x, y))
                 => ~Ahead(RrfFuse(ranked), y, x)
<1> DEFINE D == DOMAIN ranked
           A == AllIds(ranked)
           part(n, id) == IF id \in Ids(ranked[n]) THEN RrfUnit \div (RrfK + RankIn(ranked[n], id)) ELSE 0
           terms(id) == [n \in D |-> part(n, id)]
           total == [id \in A |-> SumFunction(terms(id))]
<1>1. /\ Len(ranked) \in Nat /\ D = 1 .. Len(ranked) /\ IsFiniteSet(D)
      /\ \A n \in D : ranked[n] \in Seq(Hit) /\ Distinct(ranked[n])
  BY RankedIs
<1>2. RrfFuse(ranked) = Fused(ranked, total)
  BY DEF RrfFuse
<1>3. ASSUME NEW n \in D, NEW id \in Ids(ranked[n])
      PROVE  /\ RrfK + RankIn(ranked[n], id) \in Nat /\ 0 < RrfK + RankIn(ranked[n], id)
             /\ RankIn(ranked[n], id) \in Nat
  <2>1. RankIn(ranked[n], id) \in 1 .. Len(ranked[n]) /\ Len(ranked[n]) \in Nat
    BY <1>1, <1>3, IdsAre
  <2> QED BY <2>1, SearchAssumption
<1>4. \A n \in D : \A id : part(n, id) \in Nat
  <2> SUFFICES ASSUME NEW n \in D, NEW id PROVE part(n, id) \in Nat
    OBVIOUS
  <2>1. CASE id \in Ids(ranked[n])
    <3> DEFINE c == RrfK + RankIn(ranked[n], id)
    <3>1. c \in Nat /\ 0 < c
      BY <1>3, <2>1
    <3>2. part(n, id) = RrfUnit \div c
      BY <2>1
    <3> HIDE DEF c
    <3>3. RrfUnit \div c \in Nat
      BY <3>1, UnitIs
    <3> QED BY <3>2, <3>3
  <2>2. CASE id \notin Ids(ranked[n])
    BY <2>2
  <2> QED BY <2>1, <2>2
<1>5. ASSUME NEW n \in D, NEW x, NEW y, y \in Ids(ranked[n]) => Ahead(ranked[n], x, y)
      PROVE  part(n, y) <= part(n, x)
  <2>1. CASE y \in Ids(ranked[n])
    <3> DEFINE b == RrfK + RankIn(ranked[n], x)  c == RrfK + RankIn(ranked[n], y)
    <3>1. x \in Ids(ranked[n]) /\ RankIn(ranked[n], x) < RankIn(ranked[n], y)
      BY <1>5, <2>1 DEF Ahead
    <3>2. b \in Nat /\ c \in Nat /\ 0 < b /\ b <= c
      BY <1>3, <2>1, <3>1, SearchAssumption
    <3>3. part(n, y) = RrfUnit \div c /\ part(n, x) = RrfUnit \div b
      BY <2>1, <3>1
    <3> HIDE DEF b, c
    <3>4. RrfUnit \div c <= RrfUnit \div b
      BY <3>2, UnitIs, Shares
    <3> HIDE DEF part
    <3> QED BY <3>3, <3>4
  <2>2. CASE y \notin Ids(ranked[n])
    <3>1. part(n, y) = 0
      BY <2>2
    <3>2. part(n, x) \in Nat
      BY <1>4
    <3> HIDE DEF part
    <3> QED BY <3>1, <3>2
  <2> QED BY <2>1, <2>2
<1> HIDE DEF part
<1>6. \A id : terms(id) \in [D -> Int]
  <2> TAKE id
  <2>1. \A n \in D : part(n, id) \in Int
    BY <1>4
  <2> QED BY <2>1
<1>7. ASSUME NEW x \in A, NEW y \in A,
             \A n \in D : y \in Ids(ranked[n]) => Ahead(ranked[n], x, y)
      PROVE  total[y] <= total[x]
  <2>1. \A n \in D : part(n, y) <= part(n, x)
    BY <1>5, <1>7
  <2>2. \A n \in D : terms(y)[n] <= terms(x)[n]
    BY <2>1
  <2>3. terms(x) \in [D -> Int] /\ terms(y) \in [D -> Int]
    BY <1>6
  <2>4. total[x] = SumFunction(terms(x)) /\ total[y] = SumFunction(terms(y))
    OBVIOUS
  <2> HIDE DEF terms, D, total, A
  <2>5. SumFunction(terms(y)) <= SumFunction(terms(x))
    BY <1>1, <2>2, <2>3, SumsCompare
  <2> QED BY <2>4, <2>5
<1>8. \A id \in A : total[id] \in Int
  <2> TAKE id \in A
  <2>1. total[id] = SumFunction(terms(id))
    OBVIOUS
  <2>2. terms(id) \in [D -> Int]
    BY <1>6
  <2> HIDE DEF terms, D, total, A
  <2>3. SumFunction(terms(id)) \in Int
    BY <1>1, <2>2, SumIs
  <2> QED BY <2>1, <2>3
<1> HIDE DEF terms, total
<1>9. ranked \in Seq(Seq(Hit)) /\ \A n \in 1 .. Len(ranked) : Distinct(ranked[n])
  BY DEF RankedOK
<1>10. /\ Len(Fused(ranked, total)) = Cardinality(Ids(Fused(ranked, total)))
       /\ Ids(Fused(ranked, total)) = AllIds(ranked)
       /\ \A x, y \in AllIds(ranked) :
             /\ total[y] <= total[x]
             /\ \A n \in 1 .. Len(ranked) : y \in Ids(ranked[n]) => Ahead(ranked[n], x, y)
             => ~Ahead(Fused(ranked, total), y, x)
  BY <1>8, <1>9, FusedKeeps
<1>11. ASSUME NEW x \in A, NEW y \in A,
              \A n \in D : y \in Ids(ranked[n]) => Ahead(ranked[n], x, y)
       PROVE  ~Ahead(RrfFuse(ranked), y, x)
  <2>1. \A n \in 1 .. Len(ranked) : y \in Ids(ranked[n]) => Ahead(ranked[n], x, y)
    BY <1>1, <1>11
  <2>2. total[y] <= total[x]
    BY <1>7, <1>11
  <2> QED BY <1>2, <1>10, <2>1, <2>2
<1> QED BY <1>2, <1>10, <1>11

\* The largest magnitude of a list, by which its scores are divided.
LEMMA LargestIs ==
    ASSUME NEW list \in Seq(Hit)
    PROVE  Largest(list) \in Nat
<1> DEFINE M == {Magnitude(list[i].score) : i \in DOMAIN list}
           S == {0} \cup M
           f == [i \in DOMAIN list |-> Magnitude(list[i].score)]
<1>1. /\ Len(list) \in Nat /\ DOMAIN list = 1 .. Len(list)
      /\ \A i \in DOMAIN list : list[i].score \in Int
  <2>1. Len(list) \in Nat /\ DOMAIN list = 1 .. Len(list) /\ \A i \in DOMAIN list : list[i] \in Hit
    BY ElementOfSeq, LenProperties
  <2>2. \A h \in Hit : h.score \in Int
    BY DEF Hit
  <2> QED BY <2>1, <2>2
<1>2. \A i \in DOMAIN list : Magnitude(list[i].score) \in Nat
  BY <1>1 DEF Magnitude
<1>3. IsFiniteSet(M)
  <2>1. f \in Surjection(DOMAIN list, M)
    BY DEF Surjection
  <2>2. IsFiniteSet(DOMAIN list)
    BY <1>1, FS_Interval
  <2> HIDE DEF f, M
  <2> QED BY <2>1, <2>2, FS_Surjection
<1>4. IsFiniteSet(S) /\ S \in SUBSET Nat /\ S # {}
  <2>1. M \in SUBSET Nat
    BY <1>2
  <2> HIDE DEF M
  <2>2. S = M \cup {0}
    OBVIOUS
  <2>3. IsFiniteSet(M \cup {0})
    BY <1>3, FS_AddElement
  <2>4. 0 \in S
    OBVIOUS
  <2> HIDE DEF S
  <2> QED BY <2>1, <2>2, <2>3, <2>4
<1>5. Largest(list) = IF Max(S) = 0 THEN 1 ELSE Max(S)
  BY DEF Largest
<1> HIDE DEF S
<1>6. \E x \in S : \A y \in S : x >= y
  <2>1. S \in SUBSET Int /\ TRUE \in BOOLEAN
    BY <1>4
  <2>2. PICK x \in S : \A y \in S : ~Better(TRUE, y, x)
    BY <1>4, <2>1, BestOf
  <2>3. \A y \in S : x >= y
    BY <2>1, <2>2 DEF Better
  <2> QED BY <2>3
<1>7. Max(S) \in S
  BY <1>6 DEF Max
<1>8. Max(S) \in Nat
  BY <1>4, <1>7
<1> QED BY <1>5, <1>8

\* Scaling by a weight and by the other lists keeps the order.
LEMMA Scaled ==
    ASSUME NEW w \in Nat, NEW o \in Nat, NEW a \in Int, NEW b \in Int, a <= b
    PROVE  w * a * o <= w * b * o /\ w * a * o \in Int
<1>1. w * a <= w * b /\ w * a \in Int /\ w * b \in Int
  OBVIOUS
<1> DEFINE c == w * a  d == w * b
<1> HIDE DEF c, d
<1>2. c \in Int /\ d \in Int /\ c <= d
  BY <1>1 DEF c, d
<1>3. c * o <= d * o /\ c * o \in Int
  BY <1>2
<1> QED BY <1>3 DEF c, d

\* Weights: who is ahead in a list of descending scores has the larger share of it.
LEMMA WeightedHolds ==
    ASSUME RankedOK, NEW m \in Nat, NEW weights \in [1 .. m -> Nat]
    PROVE  LET w == WeightedFuse(ranked, weights)
               zipped == {n \in DOMAIN ranked : n <= Len(weights)}
               similar == \A n \in DOMAIN ranked : \A i, j \in DOMAIN ranked[n] :
                             i < j => ranked[n][i].score >= ranked[n][j].score
           IN  /\ Len(w) = Cardinality(Ids(w)) /\ Ids(w) = AllIds([n \in zipped |-> ranked[n]])
               /\ similar => \A x, y \in Ids(w) :
                                (\A n \in zipped : Ahead(ranked[n], x, y)) => ~Ahead(w, y, x)
<1> DEFINE w == WeightedFuse(ranked, weights)
           n == IF Len(weights) < Len(ranked) THEN Len(weights) ELSE Len(ranked)
           D == 1 .. n
           Z == SubSeq(ranked, 1, n)
           A == AllIds(Z)
           similar == \A k \in DOMAIN ranked : \A i, j \in DOMAIN ranked[k] :
                         i < j => ranked[k][i].score >= ranked[k][j].score
           others(i) == Product([j \in D \ {i} |-> Largest(ranked[j])])
           part(i, id) == IF id \in Ids(ranked[i])
                          THEN weights[i] * ranked[i][RankIn(ranked[i], id)].score * others(i) ELSE 0
           terms(id) == [i \in D |-> part(i, id)]
           total == [id \in A |-> SumFunction(terms(id))]
<1>1. /\ Len(ranked) \in Nat /\ DOMAIN ranked = 1 .. Len(ranked)
      /\ \A i \in 1 .. Len(ranked) :
            /\ ranked[i] \in Seq(Hit) /\ Distinct(ranked[i])
            /\ Len(ranked[i]) \in Nat /\ DOMAIN ranked[i] = 1 .. Len(ranked[i])
            /\ \A j \in 1 .. Len(ranked[i]) : ranked[i][j].score \in Int
  BY RankedIs
<1>2. Len(weights) = m
  BY Listing
<1>3. /\ n \in Nat /\ IsFiniteSet(D)
      /\ \A i \in D : i \in 1 .. Len(ranked) /\ weights[i] \in Nat
  <2>1. n \in Nat /\ n <= m /\ n <= Len(ranked)
    BY <1>1, <1>2
  <2> HIDE DEF n
  <2>2. \A i \in D : i \in 1 .. Len(ranked) /\ i \in 1 .. m
    BY <1>1, <2>1
  <2>3. IsFiniteSet(1 .. n)
    BY <2>1, FS_Interval
  <2>4. \A i \in 1 .. m : weights[i] \in Nat
    OBVIOUS
  <2> QED BY <2>1, <2>2, <2>3, <2>4
<1>4. \A i \in DOMAIN ranked : i <= Len(weights) <=> i \in D
  BY <1>1, <1>2
<1>5. w = Fused(Z, total)
  BY DEF WeightedFuse
<1> HIDE DEF n, w
<1>6. Z \in Seq(Seq(Hit)) /\ Len(Z) = n /\ DOMAIN Z = D /\ \A i \in D : Z[i] = ranked[i]
  <2>1. \A i \in 1 .. n : ranked[i] \in Seq(Hit)
    BY <1>1, <1>3
  <2>2. /\ Z \in Seq(Seq(Hit)) /\ Len(Z) = IF 1 <= n THEN n - 1 + 1 ELSE 0
        /\ \A i \in 1 .. n - 1 + 1 : Z[i] = ranked[1 + i - 1]
    BY <1>3, <2>1, SubSeqProperties
  <2>3. Len(Z) = n /\ \A i \in D : Z[i] = ranked[i]
    BY <1>3, <2>2
  <2> QED BY <2>2, <2>3, LenProperties
<1> HIDE DEF Z
<1>7. \A i \in 1 .. Len(Z) : Distinct(Z[i])
  BY <1>1, <1>3, <1>6
<1>8. \A i \in D : others(i) \in Nat
  <2> TAKE i \in D
  <2> DEFINE f == [j \in D \ {i} |-> Largest(ranked[j])]
  <2>1. f \in [D \ {i} -> Nat]
    <3>1. \A j \in D \ {i} : Largest(ranked[j]) \in Nat
      BY <1>1, <1>3, LargestIs
    <3> QED BY <3>1
  <2>2. IsFiniteSet(D \ {i})
    BY <1>3, FS_Subset
  <2>3. others(i) = Product(f)
    OBVIOUS
  <2> HIDE DEF f, others, D
  <2> QED BY <2>1, <2>2, <2>3, ProductIs
<1> HIDE DEF others
<1>9. ASSUME NEW i \in D, NEW id \in Ids(ranked[i])
      PROVE  /\ RankIn(ranked[i], id) \in DOMAIN ranked[i] /\ RankIn(ranked[i], id) \in Nat
             /\ ranked[i][RankIn(ranked[i], id)].score \in Int
             /\ part(i, id) = weights[i] * ranked[i][RankIn(ranked[i], id)].score * others(i)
  <2>1. ranked[i] \in Seq(Hit) /\ i \in 1 .. Len(ranked)
    BY <1>1, <1>3
  <2>2. RankIn(ranked[i], id) \in 1 .. Len(ranked[i])
    BY <2>1, <1>9, IdsAre
  <2> QED BY <1>1, <1>9, <2>1, <2>2
<1>10. \A i \in D : \A id : part(i, id) \in Int
  <2> SUFFICES ASSUME NEW i \in D, NEW id PROVE part(i, id) \in Int
    OBVIOUS
  <2>1. CASE id \in Ids(ranked[i])
    <3> DEFINE s == ranked[i][RankIn(ranked[i], id)].score
    <3>1. s \in Int /\ weights[i] \in Nat /\ others(i) \in Nat /\ part(i, id) = weights[i] * s * others(i)
      BY <1>3, <1>8, <1>9, <2>1
    <3> HIDE DEF s, part
    <3>2. s <= s
      BY <3>1
    <3>3. weights[i] * s * others(i) \in Int
      BY <3>1, <3>2, Scaled
    <3> QED BY <3>1, <3>3
  <2>2. CASE id \notin Ids(ranked[i])
    BY <2>2
  <2> QED BY <2>1, <2>2
<1>11. ASSUME similar, NEW i \in D, NEW x, NEW y, Ahead(ranked[i], x, y)
       PROVE  part(i, y) <= part(i, x)
  <2> DEFINE a == ranked[i][RankIn(ranked[i], y)].score
             b == ranked[i][RankIn(ranked[i], x)].score
  <2>1. x \in Ids(ranked[i]) /\ y \in Ids(ranked[i]) /\ RankIn(ranked[i], x) < RankIn(ranked[i], y)
    BY <1>11 DEF Ahead
  <2>2. /\ a \in Int /\ b \in Int
        /\ part(i, y) = weights[i] * a * others(i) /\ part(i, x) = weights[i] * b * others(i)
    BY <1>9, <2>1
  <2>3. a <= b
    <3>1. i \in DOMAIN ranked
      BY <1>1, <1>3
    <3>2. b >= a
      BY <1>9, <1>11, <2>1, <3>1
    <3> HIDE DEF a, b
    <3> QED BY <2>2, <3>2
  <2> HIDE DEF a, b, part
  <2>4. weights[i] \in Nat /\ others(i) \in Nat
    BY <1>3, <1>8
  <2>5. weights[i] * a * others(i) <= weights[i] * b * others(i)
    BY <2>2, <2>3, <2>4, Scaled
  <2> QED BY <2>2, <2>5
<1> HIDE DEF part
<1>12. \A id : terms(id) \in [D -> Int]
  <2> TAKE id
  <2>1. \A i \in D : part(i, id) \in Int
    BY <1>10
  <2> QED BY <2>1
<1>13. \A id \in A : total[id] = SumFunction(terms(id))
  OBVIOUS
<1>14. \A id \in A : total[id] \in Int
  <2> TAKE id \in A
  <2>1. terms(id) \in [D -> Int]
    BY <1>12
  <2> HIDE DEF terms, D, total, A
  <2>2. SumFunction(terms(id)) \in Int
    BY <1>3, <2>1, SumIs
  <2> QED BY <1>13, <2>2
<1>15. ASSUME similar, NEW x \in A, NEW y \in A, \A i \in D : Ahead(ranked[i], x, y)
       PROVE  total[y] <= total[x]
  <2>1. \A i \in D : terms(y)[i] <= terms(x)[i]
    BY <1>11, <1>15
  <2>2. terms(x) \in [D -> Int] /\ terms(y) \in [D -> Int]
    BY <1>12
  <2> HIDE DEF terms, D, total, A
  <2>3. SumFunction(terms(y)) <= SumFunction(terms(x))
    BY <1>3, <2>1, <2>2, SumsCompare
  <2> QED BY <1>13, <2>3
<1> HIDE DEF terms, total
<1>16. /\ Len(Fused(Z, total)) = Cardinality(Ids(Fused(Z, total)))
       /\ Ids(Fused(Z, total)) = A
       /\ \A x, y \in A :
             /\ total[y] <= total[x]
             /\ \A i \in 1 .. Len(Z) : y \in Ids(Z[i]) => Ahead(Z[i], x, y)
             => ~Ahead(Fused(Z, total), y, x)
  BY <1>6, <1>7, <1>14, FusedKeeps
<1> DEFINE zipped == {i \in DOMAIN ranked : i <= Len(weights)}
<1>17. zipped = D
  BY <1>1, <1>3, <1>4
<1>18. A = AllIds([i \in zipped |-> ranked[i]])
  <2> DEFINE g == [i \in zipped |-> ranked[i]]
  <2>1. DOMAIN g = D /\ \A i \in D : g[i] = Z[i]
    BY <1>6, <1>17
  <2> HIDE DEF g
  <2>2. \A id : id \in AllIds(g) <=> \E i \in DOMAIN g : id \in Ids(g[i])
    BY Zenon DEF AllIds
  <2>3. \A id : id \in A <=> \E i \in DOMAIN Z : id \in Ids(Z[i])
    BY Zenon DEF AllIds
  <2>4. A = AllIds(g)
    <3> HIDE DEF A
    <3> QED BY <1>6, <2>1, <2>2, <2>3
  <2> QED BY <2>4 DEF g
<1> HIDE DEF A, zipped
<1>19. ASSUME similar, NEW x \in Ids(w), NEW y \in Ids(w), \A i \in zipped : Ahead(ranked[i], x, y)
       PROVE  ~Ahead(w, y, x)
  <2>1. x \in A /\ y \in A
    BY <1>5, <1>16
  <2>2. total[y] <= total[x]
    BY <1>15, <1>17, <1>19, <2>1
  <2>3. \A i \in 1 .. Len(Z) : Ahead(Z[i], x, y)
    BY <1>6, <1>17, <1>19
  <2> QED BY <1>5, <1>16, <2>1, <2>2, <2>3
<1>20. Len(w) = Cardinality(Ids(w)) /\ Ids(w) = AllIds([i \in zipped |-> ranked[i]])
  BY <1>5, <1>16, <1>18
<1> HIDE DEF similar
<1>21. similar => \A x, y \in Ids(w) : (\A i \in zipped : Ahead(ranked[i], x, y)) => ~Ahead(w, y, x)
  BY <1>19
<1> QED BY <1>20, <1>21 DEF w, zipped, similar

\* ranked holds hits that fuse as FusionKeepsAgreement says.
LEMMA FusionHolds ==
    ASSUME RankedOK
    PROVE  FusionKeepsAgreement
<1>1. \A weights \in UNION {[1 .. n -> 1 .. 2] : n \in 0 .. MaxOps} :
         \E m \in Nat : weights \in [1 .. m -> Nat]
  <2> TAKE weights \in UNION {[1 .. n -> 1 .. 2] : n \in 0 .. MaxOps}
  <2>1. PICK m \in 0 .. MaxOps : weights \in [1 .. m -> 1 .. 2]
    OBVIOUS
  <2>2. m \in Nat /\ weights \in [1 .. m -> Nat]
    BY <2>1, SearchAssumption
  <2> QED BY <2>2
<1>2. ASSUME NEW weights \in UNION {[1 .. n -> 1 .. 2] : n \in 0 .. MaxOps}
      PROVE  LET w == WeightedFuse(ranked, weights)
                 zipped == {n \in DOMAIN ranked : n <= Len(weights)}
                 similar == \A n \in DOMAIN ranked : \A i, j \in DOMAIN ranked[n] :
                               i < j => ranked[n][i].score >= ranked[n][j].score
             IN  /\ Len(w) = Cardinality(Ids(w)) /\ Ids(w) = AllIds([n \in zipped |-> ranked[n]])
                 /\ similar => \A x, y \in Ids(w) :
                                  (\A n \in zipped : Ahead(ranked[n], x, y)) => ~Ahead(w, y, x)
  <2>1. PICK m \in Nat : weights \in [1 .. m -> Nat]
    BY <1>1
  <2> QED BY <2>1, WeightedHolds
<1> QED BY <1>2, RrfHolds DEF FusionKeepsAgreement
=============================================================================

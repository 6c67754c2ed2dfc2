---------------------------- MODULE AdminProofs -----------------------------
(***************************************************************************)
(* The reads of the admin API: pages, counts and the store of the tests,   *)
(* for every number of rows, every filter and every size of a page, while  *)
(* the table changes under the reader.                                     *)
(***************************************************************************)
EXTENDS AdminAPI, TLAPS, FiniteSetTheorems

-----------------------------------------------------------------------------
(***************************************************************************)
(* Where a row is in a sorted list.                                        *)
(***************************************************************************)

\* S can be sorted by at: finitely many rows, each with a time.
Sortable(S, at) == IsFiniteSet(S) /\ \A i \in S : at[i] \in Nat

\* The rows of S that are not older than j, j among them, and their number: the
\* last place of the list that j may be at.
Upto(S, at, j) == {i \in S : at[i] >= at[j]}
Position(S, at, j) == Cardinality(Upto(S, at, j))

\* A set of numbers has a least one.
LEMMA LeastNumber ==
  ASSUME NEW T, T \subseteq Nat, T # {}
  PROVE  \E m \in T : \A n \in T : m <= n
<1>1. PICK m \in T : \A n \in T : <<n, m>> \notin OpToRel(<, Nat)
  BY NatLessThanWellFounded, WFMin, Zenon
<1>2. \A n \in T : ~ (n < m)
  BY <1>1, Zenon DEF OpToRel
<1>. QED  BY <1>2

\* The size of a union of disjoint sets.
LEMMA DisjointUnion ==
  ASSUME NEW S, IsFiniteSet(S), NEW T, IsFiniteSet(T), S \cap T = {}
  PROVE  IsFiniteSet(S \cup T) /\ Cardinality(S \cup T) = Cardinality(S) + Cardinality(T)
<1>1. Cardinality(S) \in Nat /\ Cardinality(T) \in Nat
  BY FS_CardinalityType, Zenon
<1>. QED  BY <1>1, FS_Union, FS_EmptySet

\* The size of any union.
LEMMA UnionBound ==
  ASSUME NEW S, IsFiniteSet(S), NEW T, IsFiniteSet(T)
  PROVE  IsFiniteSet(S \cup T) /\ Cardinality(S \cup T) <= Cardinality(S) + Cardinality(T)
<1>1. S \cap T \in SUBSET S
  BY Zenon
<1>2. Cardinality(S) \in Nat /\ Cardinality(T) \in Nat /\ Cardinality(S \cap T) \in Nat
  BY <1>1, FS_Subset, FS_CardinalityType, Zenon
<1>3. /\ IsFiniteSet(S \cup T)
      /\ Cardinality(S \cup T) = Cardinality(S) + Cardinality(T) - Cardinality(S \cap T)
  BY FS_Union, Zenon
<1>. QED  BY <1>2, <1>3

\* What is left of a set.
LEMMA Remainder ==
  ASSUME NEW S, IsFiniteSet(S), NEW A, A \subseteq S
  PROVE  /\ IsFiniteSet(A) /\ IsFiniteSet(S \ A)
         /\ Cardinality(S) \in Nat /\ Cardinality(A) \in Nat /\ Cardinality(S \ A) \in Nat
         /\ Cardinality(S) = Cardinality(A) + Cardinality(S \ A)
         /\ Cardinality(S \ A) = 0 <=> A = S
<1>1. A \in SUBSET S /\ S \ A \in SUBSET S /\ A \cap (S \ A) = {} /\ A \cup (S \ A) = S
  BY Zenon
<1>2. IsFiniteSet(A) /\ IsFiniteSet(S \ A)
  BY <1>1, FS_Subset, Zenon
<1>3. Cardinality(S) \in Nat /\ Cardinality(A) \in Nat /\ Cardinality(S \ A) \in Nat
  BY <1>2, FS_CardinalityType, Zenon
<1>4. Cardinality(S) = Cardinality(A) + Cardinality(S \ A)
  <2>1. PICK B : B = S \ A
    BY Zenon
  <2>2. IsFiniteSet(B) /\ A \cap B = {} /\ A \cup B = S
    BY <1>1, <1>2, <2>1, Zenon
  <2>3. Cardinality(A \cup B) = Cardinality(A) + Cardinality(B)
    BY <1>2, <2>2, DisjointUnion, Zenon
  <2>. QED  BY <2>1, <2>2, <2>3, Zenon
<1>5. Cardinality(S \ A) = 0 <=> S \ A = {}
  BY <1>2, FS_EmptySet, Zenon
<1>. QED  BY <1>1, <1>2, <1>3, <1>4, <1>5, Zenon

\* Positions start at 1 and end with the length of the list.
LEMMA PositionRange ==
  ASSUME NEW S, NEW at, Sortable(S, at), NEW j \in S
  PROVE  /\ IsFiniteSet(Upto(S, at, j)) /\ Position(S, at, j) \in Nat
         /\ Position(S, at, j) >= 1 /\ Position(S, at, j) <= Cardinality(S)
<1>1. Upto(S, at, j) \in SUBSET S /\ j \in Upto(S, at, j)
  BY DEF Upto, Sortable
<1>2. IsFiniteSet(Upto(S, at, j)) /\ Cardinality(Upto(S, at, j)) <= Cardinality(S)
  BY <1>1, FS_Subset, Zenon DEF Sortable
<1>3. Cardinality(Upto(S, at, j)) \in Nat /\ Cardinality(Upto(S, at, j)) # 0
  BY <1>1, <1>2, FS_CardinalityType, FS_EmptySet, Zenon
<1>. QED  BY <1>2, <1>3 DEF Position

\* A row that sorts before another one is before it in the list.
LEMMA PositionOrder ==
  ASSUME NEW S, NEW at, Sortable(S, at), NEW i \in S, NEW j \in S, at[i] > at[j]
  PROVE  Position(S, at, i) < Position(S, at, j)
<1>1. Upto(S, at, i) \in SUBSET Upto(S, at, j) /\ j \in Upto(S, at, j) /\ j \notin Upto(S, at, i)
  BY DEF Upto, Sortable
<1>2. /\ Cardinality(Upto(S, at, i)) <= Cardinality(Upto(S, at, j))
      /\ Cardinality(Upto(S, at, j)) # Cardinality(Upto(S, at, i))
  BY <1>1, PositionRange, FS_Subset, Zenon
<1>. QED  BY <1>2, PositionRange DEF Position

\* A set of rows has a newest one.
LEMMA Newest ==
  ASSUME NEW S, NEW at, Sortable(S, at), NEW R, R \subseteq S, R # {}
  PROVE  \E x \in R : \A j \in R : at[x] >= at[j]
<1>. DEFINE V == {Position(S, at, i) : i \in R}
<1>1. V \subseteq Nat /\ V # {}
  BY PositionRange, Zenon
<1>2. PICK m \in V : \A k \in V : m <= k
  BY <1>1, LeastNumber, Zenon
<1>3. PICK x \in R : Position(S, at, x) = m
  BY <1>2, Zenon
<1>4. ASSUME NEW j \in R PROVE at[x] >= at[j]
  <2>1. Position(S, at, x) <= Position(S, at, j)
    BY <1>2, <1>3, Zenon
  <2>2. ~ (Position(S, at, j) < Position(S, at, x))
    BY <2>1, PositionRange
  <2>3. ~ (at[j] > at[x])
    BY <2>2, PositionOrder, Zenon
  <2>. QED  BY <2>3 DEF Sortable
<1>. QED  BY <1>4, Zenon

\* The size of a page is positive, and a limit in its range is the size.
LEMMA PageSizeRange ==
  ASSUME NEW limit \in Int
  PROVE  /\ PageSize(limit) \in Nat /\ PageSize(limit) >= 1
         /\ limit \in 1..MaxPage => PageSize(limit) = limit
         /\ limit \notin 1..MaxPage => PageSize(limit) = DefaultPage
<1>1. MaxPage \in Nat /\ DefaultPage \in 1..MaxPage
  BY AdminAssumption, Zenon
<1>. QED  BY <1>1 DEF PageSize

\* A choice of the first rows of a list.
LEMMA FirstRows ==
  ASSUME NEW S, NEW at, Sortable(S, at), NEW n, NEW A \in First(S, at, n)
  PROVE  /\ A \subseteq S /\ Sortable(A, at) /\ Sortable(S \ A, at) /\ Cardinality(A) = n
         /\ \A i \in A, j \in S \ A : at[i] >= at[j]
         /\ Cardinality(A) \in Nat /\ Cardinality(S \ A) \in Nat /\ Cardinality(S) \in Nat
         /\ Cardinality(S) = Cardinality(A) + Cardinality(S \ A)
         /\ Cardinality(S \ A) = 0 <=> A = S
<1>1. A \subseteq S /\ Cardinality(A) = n /\ \A i \in A, j \in S \ A : at[i] >= at[j]
  BY Zenon DEF First, InOrder
<1>2. /\ IsFiniteSet(A) /\ IsFiniteSet(S \ A)
      /\ Cardinality(A) \in Nat /\ Cardinality(S \ A) \in Nat /\ Cardinality(S) \in Nat
      /\ Cardinality(S) = Cardinality(A) + Cardinality(S \ A)
      /\ Cardinality(S \ A) = 0 <=> A = S
  BY <1>1, Remainder, Zenon DEF Sortable
<1>3. Sortable(A, at) /\ Sortable(S \ A, at)
  BY <1>1, <1>2, Zenon DEF Sortable
<1>. QED  BY <1>1, <1>2, <1>3, Zenon

\* There is one choice of all the rows, and one of none.
LEMMA FirstAll ==
  ASSUME NEW S, NEW at, Sortable(S, at)
  PROVE  First(S, at, Cardinality(S)) = {S} /\ First(S, at, 0) = {{}}
<1>1. S \in First(S, at, Cardinality(S))
  BY Zenon DEF First, InOrder
<1>2. ASSUME NEW A \in First(S, at, Cardinality(S)) PROVE A = S
  <2>1. A \in SUBSET S /\ Cardinality(A) = Cardinality(S)
    BY Zenon DEF First
  <2>. QED  BY <2>1, FS_Subset, Zenon DEF Sortable
<1>3. {} \in First(S, at, 0)
  BY FS_EmptySet, Zenon DEF First, InOrder
<1>4. ASSUME NEW A \in First(S, at, 0) PROVE A = {}
  <2>1. A \in SUBSET S /\ Cardinality(A) = 0
    BY Zenon DEF First
  <2>2. IsFiniteSet(A)
    BY <2>1, FS_Subset, Zenon DEF Sortable
  <2>. QED  BY <2>1, <2>2, FS_EmptySet, Zenon
<1>. QED  BY <1>1, <1>2, <1>3, <1>4, Zenon

\* The first rows can be continued to any number of them.
LEMMA FirstGrows ==
  ASSUME NEW S, NEW at, Sortable(S, at), NEW m \in Nat, NEW T \in First(S, at, m),
         NEW k \in Nat, m <= k, k <= Cardinality(S)
  PROVE  \E U \in First(S, at, k) : T \subseteq U
<1>. DEFINE Bad == {n \in Nat : m <= n /\ n <= Cardinality(S) /\ ~ \E U \in First(S, at, n) : T \subseteq U}
<1>. SUFFICES ASSUME Bad # {} PROVE FALSE
  BY Zenon
<1>1. PICK n \in Bad : \A h \in Bad : n <= h
  <2>1. Bad \subseteq Nat
    BY Zenon
  <2>. HIDE DEF Bad
  <2>. QED  BY <2>1, LeastNumber, Zenon
<1>2. n # m
  BY <1>1, Zenon
<1>3. Cardinality(S) \in Nat
  BY FS_CardinalityType, Zenon DEF Sortable
<1>4. n - 1 \in Nat /\ m <= n - 1 /\ n - 1 < Cardinality(S) /\ n - 1 <= Cardinality(S) /\ ~ (n <= n - 1) /\ n = (n - 1) + 1
  BY <1>1, <1>2, <1>3
<1>5. PICK U \in First(S, at, n - 1) : T \subseteq U
  BY <1>1, <1>4, Zenon
<1>6. /\ U \subseteq S /\ IsFiniteSet(U) /\ Cardinality(U) = n - 1
      /\ \A i \in U, j \in S \ U : at[i] >= at[j]
  <2>1. U \in SUBSET S /\ Cardinality(U) = n - 1 /\ \A i \in U, j \in S \ U : at[i] >= at[j]
    BY Zenon DEF First, InOrder
  <2>. QED  BY <2>1, FS_Subset, Zenon DEF Sortable
<1>7. S \ U # {} /\ S \ U \subseteq S
  <2>1. U # S
    BY <1>4, <1>6
  <2>. QED  BY <1>6, <2>1, Zenon
<1>8. PICK x \in S \ U : \A j \in S \ U : at[x] >= at[j]
  BY <1>7, Newest, Zenon
<1>9. Cardinality(U \cup {x}) = n
  <2>1. Cardinality(U \cup {x}) = Cardinality(U) + 1
    BY <1>6, <1>8, FS_AddElement, Zenon
  <2>. QED  BY <1>4, <1>6, <2>1, Zenon
<1>10. U \cup {x} \in First(S, at, n)
  BY <1>6, <1>8, <1>9, Zenon DEF First, InOrder
<1>. QED  BY <1>1, <1>5, <1>10, Zenon

-----------------------------------------------------------------------------
(***************************************************************************)
(* The two stores.                                                         *)
(***************************************************************************)

\* What one page of Postgres is cut from, and how each store cuts it.
Rests(S, at, offset) == Behind(S, at, Lesser(offset, Cardinality(S)))
Cut(T, at, limit) == First(T, at, Lesser(PageSize(limit), Cardinality(T)))
FakeCut(T, at, limit) == IF limit > 0 /\ limit < Cardinality(T) THEN First(T, at, limit) ELSE {T}

\* The store of the tests steps over the offset as Postgres does.
LEMMA FakeRestIs ==
  ASSUME NEW S, NEW at, Sortable(S, at), NEW offset \in Nat
  PROVE  FakeRest(S, at, offset) = Rests(S, at, offset)
<1>1. Cardinality(S) \in Nat
  BY FS_CardinalityType, Zenon DEF Sortable
<1>2. Behind(S, at, Cardinality(S)) = {{}} /\ Behind(S, at, 0) = {S}
  <2>1. ASSUME NEW n, NEW A, First(S, at, n) = {A} PROVE Behind(S, at, n) = {S \ A}
    BY <2>1, Zenon DEF Behind
  <2>2. S \ S = {} /\ S \ {} = S
    BY Zenon
  <2>3. First(S, at, Cardinality(S)) = {S} /\ First(S, at, 0) = {{}}
    BY FirstAll, Zenon
  <2>4. Behind(S, at, Cardinality(S)) = {S \ S}
    BY <2>1, <2>3, Zenon
  <2>5. Behind(S, at, 0) = {S \ {}}
    BY <2>1, <2>3, Zenon
  <2>. QED  BY <2>2, <2>4, <2>5
<1>3. CASE offset >= Cardinality(S)
  <2>1. Lesser(offset, Cardinality(S)) = Cardinality(S)
    BY <1>1, <1>3 DEF Lesser
  <2>2. ~ (offset < Cardinality(S))
    BY <1>1, <1>3
  <2>3. FakeRest(S, at, offset) = {{}}
    BY <1>3, <2>2, Zenon DEF FakeRest
  <2>. QED  BY <1>2, <2>1, <2>3, Zenon DEF Rests
<1>4. CASE offset < Cardinality(S) /\ offset > 0
  <2>1. Lesser(offset, Cardinality(S)) = offset /\ ~ (offset >= Cardinality(S))
    BY <1>1, <1>4 DEF Lesser
  <2>2. FakeRest(S, at, offset) = Behind(S, at, offset)
    BY <1>4, <2>1, Zenon DEF FakeRest
  <2>. QED  BY <2>1, <2>2, Zenon DEF Rests
<1>5. CASE offset < Cardinality(S) /\ ~ (offset > 0)
  <2>1. offset = 0 /\ Lesser(offset, Cardinality(S)) = 0 /\ ~ (offset >= Cardinality(S))
    BY <1>1, <1>5 DEF Lesser
  <2>2. FakeRest(S, at, offset) = {S}
    BY <1>5, <2>1, Zenon DEF FakeRest
  <2>. QED  BY <1>2, <2>1, <2>2, Zenon DEF Rests
<1>6. offset >= Cardinality(S) \/ offset < Cardinality(S)
  BY <1>1
<1>. QED  BY <1>3, <1>4, <1>5, <1>6, Zenon

\* How many rows are behind the offset.
LEMMA RestSize ==
  ASSUME NEW S, NEW at, Sortable(S, at), NEW offset \in Nat, NEW T \in Rests(S, at, offset)
  PROVE  /\ Sortable(T, at) /\ Cardinality(T) \in Nat
         /\ Cardinality(S) <= offset + DefaultPage => Cardinality(T) <= DefaultPage
<1>1. PICK A \in First(S, at, Lesser(offset, Cardinality(S))) : T = S \ A
  BY Zenon DEF Rests, Behind
<1>2. /\ Sortable(T, at) /\ Cardinality(A) = Lesser(offset, Cardinality(S))
      /\ Cardinality(A) \in Nat /\ Cardinality(T) \in Nat /\ Cardinality(S) \in Nat
      /\ Cardinality(S) = Cardinality(A) + Cardinality(T)
  <2>1. PICK n : n = Lesser(offset, Cardinality(S))
    BY Zenon
  <2>2. A \in First(S, at, n)
    BY <2>1, Zenon
  <2>3. /\ Sortable(S \ A, at) /\ Cardinality(A) = n
        /\ Cardinality(A) \in Nat /\ Cardinality(S \ A) \in Nat /\ Cardinality(S) \in Nat
        /\ Cardinality(S) = Cardinality(A) + Cardinality(S \ A)
    <3>1. A \in SUBSET S /\ Cardinality(A) = n
      BY <2>2, Zenon DEF First
    <3>. QED  BY <3>1, Remainder, Zenon DEF Sortable
  <2>. QED  BY <1>1, <2>1, <2>3, Zenon
<1>3. DefaultPage \in Nat
  <2>1. MaxPage \in Nat /\ DefaultPage \in 1..MaxPage
    BY AdminAssumption, Zenon
  <2>. QED  BY <2>1
<1>. QED  BY <1>2, <1>3 DEF Lesser

\* The cuts are the same where the limit is in its range or the rest is short; for
\* another limit the fake cuts more off.
LEMMA CutsAgree ==
  ASSUME NEW T, NEW at, Sortable(T, at), NEW limit \in Int
  PROVE  /\ limit \in 1..MaxPage \/ Cardinality(T) <= DefaultPage => Cut(T, at, limit) = FakeCut(T, at, limit)
         /\ \A P \in Cut(T, at, limit) : \E U \in FakeCut(T, at, limit) : P \subseteq U
<1>0. MaxPage \in Nat /\ DefaultPage \in 1..MaxPage /\ DefaultPage \in Nat
  <2>1. MaxPage \in Nat /\ DefaultPage \in 1..MaxPage
    BY AdminAssumption, Zenon
  <2>. QED  BY <2>1
<1>1. Cardinality(T) \in Nat /\ First(T, at, Cardinality(T)) = {T}
  BY FS_CardinalityType, FirstAll, Zenon DEF Sortable
<1>2. CASE limit \in 1..MaxPage
  <2>1. PageSize(limit) = limit /\ limit > 0 /\ limit \in Nat
    BY <1>0, <1>2, PageSizeRange
  <2>2. Lesser(limit, Cardinality(T)) = IF limit < Cardinality(T) THEN limit ELSE Cardinality(T)
    BY <1>1, <2>1 DEF Lesser
  <2>3. Cut(T, at, limit) = FakeCut(T, at, limit)
    BY <1>1, <2>1, <2>2, Zenon DEF Cut, FakeCut
  <2>. QED  BY <2>3, Zenon
<1>3. CASE limit \notin 1..MaxPage /\ Cardinality(T) <= DefaultPage
  <2>1. PageSize(limit) = DefaultPage /\ ~ (limit > 0 /\ limit < Cardinality(T))
    BY <1>0, <1>1, <1>3, PageSizeRange
  <2>2. Lesser(DefaultPage, Cardinality(T)) = Cardinality(T)
    BY <1>0, <1>1, <1>3 DEF Lesser
  <2>3. Cut(T, at, limit) = {T} /\ FakeCut(T, at, limit) = {T}
    BY <1>1, <2>1, <2>2, Zenon DEF Cut, FakeCut
  <2>. QED  BY <2>3, Zenon
<1>4. CASE limit \notin 1..MaxPage /\ ~ (Cardinality(T) <= DefaultPage)
  <2>1. PageSize(limit) = DefaultPage /\ Lesser(DefaultPage, Cardinality(T)) = DefaultPage
    BY <1>0, <1>1, <1>4, PageSizeRange DEF Lesser
  <2>2. SUFFICES ASSUME NEW P \in First(T, at, DefaultPage) PROVE \E U \in FakeCut(T, at, limit) : P \subseteq U
    BY <1>4, <2>1, Zenon DEF Cut
  <2>3. CASE limit > 0 /\ limit < Cardinality(T)
    <3>1. limit \in Nat /\ DefaultPage <= limit /\ limit <= Cardinality(T)
      BY <1>0, <1>1, <1>4, <2>3
    <3>2. \E U \in First(T, at, limit) : P \subseteq U
      BY <1>0, <3>1, FirstGrows, Zenon
    <3>. QED  BY <2>3, <3>2, Zenon DEF FakeCut
  <2>4. CASE ~ (limit > 0 /\ limit < Cardinality(T))
    BY <2>4, Zenon DEF First, FakeCut
  <2>. QED  BY <2>3, <2>4, Zenon
<1>. QED  BY <1>2, <1>3, <1>4, Zenon

\* So the pages are.
LEMMA StoresAgree ==
  ASSUME NEW S, Sortable(S, created), NEW limit \in Int, NEW offset \in Nat
  PROVE  SamePages(S, limit, offset)
<1>. DEFINE R == Rests(S, created, offset)
<1>1. FakeList(S, created, limit, offset) = UNION {FakeCut(T, created, limit) : T \in R}
  <2>1. FakeRest(S, created, offset) = R
    BY FakeRestIs, Zenon
  <2>. QED  BY <2>1, Zenon DEF FakeList, FakeCut
<1>2. Pages(S, created, limit, offset) = UNION {Cut(T, created, limit) : T \in R}
  BY Zenon DEF Pages, Cut, Rests, Behind
<1>3. \A T \in R : /\ limit \in 1..MaxPage \/ Cardinality(S) <= offset + DefaultPage =>
                        Cut(T, created, limit) = FakeCut(T, created, limit)
                   /\ \A P \in Cut(T, created, limit) : \E U \in FakeCut(T, created, limit) : P \subseteq U
  <2>. SUFFICES ASSUME NEW T \in R
                PROVE  /\ limit \in 1..MaxPage \/ Cardinality(S) <= offset + DefaultPage =>
                            Cut(T, created, limit) = FakeCut(T, created, limit)
                       /\ \A P \in Cut(T, created, limit) : \E U \in FakeCut(T, created, limit) : P \subseteq U
    BY Zenon
  <2>1. Sortable(T, created) /\ (Cardinality(S) <= offset + DefaultPage => Cardinality(T) <= DefaultPage)
    BY RestSize, Zenon
  <2>. QED  BY <2>1, CutsAgree, Zenon
<1>. HIDE DEF R
<1>4. ASSUME limit \in 1..MaxPage \/ Cardinality(S) <= offset + DefaultPage
      PROVE  UNION {FakeCut(T, created, limit) : T \in R} = UNION {Cut(T, created, limit) : T \in R}
  BY <1>3, <1>4, Zenon
<1>5. ASSUME NEW P, P \in UNION {Cut(T, created, limit) : T \in R}
      PROVE  \E U \in UNION {FakeCut(T, created, limit) : T \in R} : P \subseteq U
  <2>1. PICK T \in R : P \in Cut(T, created, limit)
    BY <1>5, Zenon
  <2>2. PICK U \in FakeCut(T, created, limit) : P \subseteq U
    BY <1>3, <2>1, Zenon
  <2>3. U \in UNION {FakeCut(X, created, limit) : X \in R}
    BY <2>2, Zenon
  <2>. QED  BY <2>2, <2>3, Zenon
<1>. QED  BY <1>1, <1>2, <1>4, <1>5, Zenon DEF SamePages

-----------------------------------------------------------------------------
(***************************************************************************)
(* The client that reads page by page.                                     *)
(***************************************************************************)

\* The rows it will not get: they are up to its offset by now.
Missed(S, at, w) == {j \in w.stay \ w.seen : Position(S, at, j) <= w.offset}

\* What holds while it reads S: the rows that stay are in the list, alone with
\* their time, and it has missed at most one for each that left its place.
OnTrack(S, at, w) ==
  /\ w.stay \subseteq S /\ \A j \in w.stay : Alone(S, at, j)
  /\ Cardinality(Missed(S, at, w)) <= w.left

\* The client after its list has changed to T and D has left, and after a page.
Changed(w, D, T, bt) == [w EXCEPT !.stay = {j \in @ \ D : Alone(T, bt, j)}, !.left = @ + Cardinality(D)]
Turned(w, page) == [w EXCEPT !.offset = @ + Cardinality(page), !.seen = @ \cup page]

WalkInv ==
  /\ walk.pc = "idle" => walk.offset = 0
  /\ walk.pc = "reading" => OnTrack(Listing(walk.list), SortKey(walk.list), walk)
  /\ WalkComplete

\* The list has changed from S to T: what is not in D keeps its order.
Rearranged(S, at, T, bt, D) ==
  /\ Sortable(S, at) /\ Sortable(T, bt) /\ D \subseteq S /\ S \ D \subseteq T
  /\ \A i, k \in S \ D : at[i] >= at[k] => bt[i] >= bt[k]

\* A row moves up by at most one place for each row that has left.
LEMMA MovesUp ==
  ASSUME NEW S, NEW at, NEW T, NEW bt, NEW D, Rearranged(S, at, T, bt, D), NEW y \in S \ D
  PROVE  Position(S, at, y) <= Position(T, bt, y) + Cardinality(D)
<1>. DEFINE U == Upto(S, at, y)
            V == Upto(T, bt, y)
<1>1. Sortable(S, at) /\ Sortable(T, bt) /\ y \in S /\ y \in T /\ D \in SUBSET S
  BY Zenon DEF Rearranged
<1>2. IsFiniteSet(U) /\ IsFiniteSet(V) /\ IsFiniteSet(D)
  BY <1>1, PositionRange, FS_Subset, Zenon DEF Sortable
<1>3. U \in SUBSET (V \cup D)
  BY Zenon DEF Rearranged, Upto
<1>. HIDE DEF U, V
<1>4. IsFiniteSet(V \cup D) /\ Cardinality(V \cup D) <= Cardinality(V) + Cardinality(D)
  BY <1>2, UnionBound, Zenon
<1>5. Cardinality(U) <= Cardinality(V \cup D)
  BY <1>3, <1>4, FS_Subset, Zenon
<1>6. /\ Cardinality(U) \in Nat /\ Cardinality(V) \in Nat /\ Cardinality(D) \in Nat
      /\ Cardinality(V \cup D) \in Nat
  BY <1>2, <1>4, FS_CardinalityType, Zenon
<1>7. Cardinality(U) <= Cardinality(V) + Cardinality(D)
  BY <1>4, <1>5, <1>6
<1>. QED  BY <1>7, Zenon DEF U, V, Position

\* So at most one row that is alone with its time moves up past the offset for
\* each row that has left.
LEMMA MovedUp ==
  ASSUME NEW S, NEW at, NEW T, NEW bt, NEW D, Rearranged(S, at, T, bt, D),
         NEW n \in Nat, NEW Y, Y \subseteq S \ D, \A i, j \in Y : at[i] = at[j] => i = j,
         \A y \in Y : Position(S, at, y) > n /\ Position(T, bt, y) <= n
  PROVE  IsFiniteSet(Y) /\ IsFiniteSet(D) /\ Cardinality(Y) <= Cardinality(D)
<1>1. Sortable(S, at) /\ Sortable(T, bt) /\ D \in SUBSET S /\ Y \in SUBSET S /\ S \ D \subseteq T
  BY Zenon DEF Rearranged
<1>2. IsFiniteSet(Y) /\ IsFiniteSet(D) /\ Cardinality(Y) \in Nat /\ Cardinality(D) \in Nat
  BY <1>1, FS_Subset, FS_CardinalityType, Zenon DEF Sortable
<1>3. CASE Y = {}
  BY <1>2, <1>3, FS_EmptySet
<1>4. CASE Y # {}
  <2>1. PICK x \in Y : \A j \in Y : at[x] >= at[j]
    BY <1>1, <1>4, Newest, Zenon
  <2>2. PICK z \in Y : \A j \in Y : at[j] >= at[z]
    <3>. DEFINE V == {at[i] : i \in Y}
    <3>0. \A i \in Y : at[i] \in Nat
      BY <1>1, Zenon DEF Sortable
    <3>1. V \subseteq Nat /\ V # {}
      <4>1. PICK i \in Y : TRUE
        BY <1>4, Zenon
      <4>2. at[i] \in V
        BY Zenon
      <4>3. V \subseteq Nat
        BY <3>0, Zenon
      <4>. QED  BY <4>2, <4>3, Zenon
    <3>2. PICK m \in V : \A k \in V : m <= k
      BY <3>1, LeastNumber, Zenon
    <3>3. PICK z \in Y : at[z] = m
      BY <3>2, Zenon
    <3>4. \A j \in Y : at[j] >= at[z]
      BY <3>1, <3>2, <3>3
    <3>. QED  BY <3>4, Zenon
  <2>3. x \in S /\ z \in S /\ z \in S \ D /\ z \in T
    BY <1>1, Zenon
  <2>. DEFINE A == Upto(S, at, x)
              B == Y \ {x}
  <2>4. A \cap B = {}
    <3>1. ASSUME NEW j \in B PROVE ~ (at[j] >= at[x])
      <4>1. at[x] >= at[j] /\ at[j] # at[x] /\ at[j] \in Nat /\ at[x] \in Nat
        BY <1>1, <2>1, <2>3, Zenon DEF Sortable
      <4>. QED  BY <4>1
    <3>. QED  BY <3>1, Zenon DEF Upto
  <2>5. A \cup B \in SUBSET Upto(S, at, z)
    <3>1. ASSUME NEW j \in A PROVE j \in Upto(S, at, z)
      <4>1. j \in S /\ at[j] >= at[x] /\ at[x] >= at[z] /\ at[j] \in Nat /\ at[x] \in Nat /\ at[z] \in Nat
        BY <1>1, <2>2, <2>3, Zenon DEF Upto, Sortable
      <4>. QED  BY <4>1 DEF Upto
    <3>2. ASSUME NEW j \in B PROVE j \in Upto(S, at, z)
      BY <1>1, <2>2, Zenon DEF Upto
    <3>. QED  BY <3>1, <3>2, Zenon
  <2>6. /\ IsFiniteSet(A) /\ Cardinality(A) \in Nat /\ Cardinality(A) > n
        /\ IsFiniteSet(Upto(S, at, z)) /\ Cardinality(Upto(S, at, z)) \in Nat
    BY <1>1, <2>3, PositionRange, Zenon DEF Position
  <2>7. IsFiniteSet(B) /\ Cardinality(B) = Cardinality(Y) - 1
    BY <1>2, FS_RemoveElement
  <2>8. Cardinality(A \cup B) = Cardinality(A) + Cardinality(B)
    <3>. HIDE DEF A, B
    <3>. QED  BY <2>4, <2>6, <2>7, DisjointUnion, Zenon
  <2>9. Cardinality(A \cup B) <= Cardinality(Upto(S, at, z))
    BY <2>5, <2>6, FS_Subset, Zenon
  <2>10. Cardinality(Upto(S, at, z)) <= Position(T, bt, z) + Cardinality(D)
    BY <2>3, MovesUp, Zenon DEF Position
  <2>11. Position(T, bt, z) <= n /\ Position(T, bt, z) \in Nat
    BY <1>1, <2>3, PositionRange, Zenon
  <2>. HIDE DEF A, B
  <2>. QED  BY <1>2, <2>6, <2>7, <2>8, <2>9, <2>10, <2>11
<1>. QED  BY <1>3, <1>4, Zenon

\* What a change of the table does to the client.
LEMMA WalkChange ==
  ASSUME NEW S, NEW at, NEW T, NEW bt, NEW D, Rearranged(S, at, T, bt, D),
         NEW w \in Walk, OnTrack(S, at, w),
         NEW v, v = Changed(w, D, T, bt)
  PROVE  v \in Walk /\ OnTrack(T, bt, v)
<1>. DEFINE X == Missed(S, at, w)
            Y == {y \in v.stay : Position(S, at, y) > w.offset /\ Position(T, bt, y) <= w.offset}
<1>0. Sortable(S, at) /\ Sortable(T, bt) /\ D \subseteq S /\ S \ D \subseteq T
  BY Zenon DEF Rearranged
<1>1. /\ w.offset \in Nat /\ w.left \in Nat /\ w.stay \subseteq Jobs /\ w.stay \subseteq S
      /\ v.stay = {j \in w.stay \ D : Alone(T, bt, j)} /\ v.seen = w.seen /\ v.offset = w.offset
      /\ v.left = w.left + Cardinality(D)
  BY Zenon DEF Walk, Changed, OnTrack
<1>2. IsFiniteSet(Y) /\ IsFiniteSet(D) /\ Cardinality(Y) <= Cardinality(D)
  <2>1. Y \subseteq S \ D /\ \A y \in Y : Position(S, at, y) > w.offset /\ Position(T, bt, y) <= w.offset
    BY <1>1, Zenon
  <2>2. \A i, j \in Y : at[i] = at[j] => i = j
    BY <1>1, Zenon DEF OnTrack, Alone
  <2>. HIDE DEF Y
  <2>. QED  BY <1>1, <2>1, <2>2, MovedUp, Zenon
<1>3. X \in SUBSET S /\ IsFiniteSet(X)
  <2>1. X \in SUBSET S
    BY <1>1, Zenon DEF Missed
  <2>. QED  BY <1>0, <2>1, FS_Subset, Zenon DEF Sortable
<1>4. Cardinality(X) \in Nat /\ Cardinality(Y) \in Nat /\ Cardinality(D) \in Nat
  BY <1>2, <1>3, FS_CardinalityType, Zenon
<1>5. Missed(T, bt, v) \in SUBSET (X \cup Y)
  <2>. SUFFICES ASSUME NEW j \in Missed(T, bt, v), ~ (Position(S, at, j) <= w.offset) PROVE j \in Y
    BY <1>1, Zenon DEF Missed
  <2>1. j \in v.stay /\ j \in S /\ Position(T, bt, j) <= w.offset
    BY <1>1, Zenon DEF Missed
  <2>2. Position(S, at, j) > w.offset
    <3>1. Position(S, at, j) \in Nat
      BY <1>0, <2>1, PositionRange, Zenon
    <3>. QED  BY <1>1, <3>1
  <2>. QED  BY <2>1, <2>2, Zenon
<1>6. IsFiniteSet(X \cup Y) /\ Cardinality(X \cup Y) <= Cardinality(X) + Cardinality(Y)
  <2>. HIDE DEF X, Y
  <2>. QED  BY <1>2, <1>3, UnionBound, Zenon
<1>7. Cardinality(Missed(T, bt, v)) <= Cardinality(X \cup Y)
  BY <1>5, <1>6, FS_Subset, Zenon
<1>8. Cardinality(Missed(T, bt, v)) \in Nat /\ Cardinality(X \cup Y) \in Nat
  BY <1>5, <1>6, FS_Subset, FS_CardinalityType, Zenon
<1>9. v \in Walk
  <2>1. v.stay \in SUBSET Jobs /\ w.left + Cardinality(D) \in Nat
    <3>1. w.left + Cardinality(D) \in Nat
      BY <1>1, <1>4
    <3>. QED  BY <1>1, <3>1, Zenon
  <2>. QED  BY <1>1, <2>1, Zenon DEF Walk, Changed
<1>10. Cardinality(X) <= w.left
  BY Zenon DEF OnTrack
<1>11. Cardinality(Missed(T, bt, v)) <= v.left
  <2>. HIDE DEF X, Y
  <2>. QED  BY <1>1, <1>2, <1>4, <1>6, <1>7, <1>8, <1>10
<1>12. v.stay \subseteq T /\ \A j \in v.stay : Alone(T, bt, j)
  BY <1>0, <1>1, Zenon
<1>. QED  BY <1>9, <1>11, <1>12, Zenon DEF OnTrack

\* A row that is alone with its time is skipped only if it is up to the offset,
\* and is neither skipped nor on the page only if it is behind both.
LEMMA PagePlace ==
  ASSUME NEW S, NEW at, Sortable(S, at), NEW A, A \subseteq S, NEW P, P \subseteq S \ A,
         \A i \in A, j \in S \ A : at[i] >= at[j],
         \A i \in P, j \in (S \ A) \ P : at[i] >= at[j],
         NEW j \in S, Alone(S, at, j)
  PROVE  /\ j \in A => Position(S, at, j) <= Cardinality(A)
         /\ j \notin A /\ j \notin P => Position(S, at, j) > Cardinality(A) + Cardinality(P)
<1>1. A \in SUBSET S /\ P \in SUBSET S /\ A \cap P = {}
  BY Zenon
<1>2. /\ IsFiniteSet(A) /\ IsFiniteSet(P) /\ IsFiniteSet(Upto(S, at, j))
      /\ Position(S, at, j) \in Nat
  BY <1>1, PositionRange, FS_Subset, Zenon DEF Sortable
<1>3. Cardinality(A) \in Nat /\ Cardinality(P) \in Nat
  BY <1>2, FS_CardinalityType, Zenon
<1>4. ASSUME j \in A PROVE Position(S, at, j) <= Cardinality(A)
  <2>1. ASSUME NEW i \in S, i \notin A PROVE ~ (at[i] >= at[j])
    <3>1. at[j] >= at[i] /\ at[i] # at[j] /\ at[i] \in Nat /\ at[j] \in Nat
      BY <1>4, <2>1, Zenon DEF Alone, Sortable
    <3>. QED  BY <3>1
  <2>2. Upto(S, at, j) \in SUBSET A
    BY <2>1, Zenon DEF Upto
  <2>. QED  BY <1>2, <2>2, FS_Subset, Zenon DEF Position
<1>5. ASSUME j \notin A, j \notin P PROVE Position(S, at, j) > Cardinality(A) + Cardinality(P)
  <2>1. IsFiniteSet(A \cup P) /\ Cardinality(A \cup P) = Cardinality(A) + Cardinality(P)
    BY <1>1, <1>2, DisjointUnion, Zenon
  <2>2. A \cup P \in SUBSET Upto(S, at, j)
    BY <1>1, <1>5, Zenon DEF Upto
  <2>3. j \in Upto(S, at, j) /\ j \notin A \cup P
    BY <1>5 DEF Upto, Sortable
  <2>4. /\ Cardinality(A \cup P) <= Cardinality(Upto(S, at, j))
        /\ Cardinality(A \cup P) # Cardinality(Upto(S, at, j))
    BY <1>2, <2>2, <2>3, FS_Subset, Zenon
  <2>. QED  BY <1>2, <1>3, <2>1, <2>4 DEF Position
<1>. QED  BY <1>4, <1>5, Zenon

\* What is skipped and what is on a page.
LEMMA PageRows ==
  ASSUME NEW S, NEW at, Sortable(S, at), NEW limit \in Int, NEW offset \in Nat,
         NEW page, page \in Pages(S, at, limit, offset)
  PROVE  \E A : /\ A \subseteq S /\ page \subseteq S \ A
                /\ \A i \in A, j \in S \ A : at[i] >= at[j]
                /\ \A i \in page, j \in (S \ A) \ page : at[i] >= at[j]
                /\ IsFiniteSet(page) /\ Cardinality(page) \in Nat /\ Cardinality(A) \in Nat
                /\ Cardinality(A) <= offset
                /\ Cardinality(A) = offset \/ A = S
                /\ page = {} => A = S
<1>1. PICK A : /\ A \in First(S, at, Lesser(offset, Cardinality(S)))
               /\ page \in First(S \ A, at, Lesser(PageSize(limit), Cardinality(S \ A)))
  BY Zenon DEF Pages
<1>2. /\ A \subseteq S /\ Cardinality(A) = Lesser(offset, Cardinality(S))
      /\ \A i \in A, j \in S \ A : at[i] >= at[j]
  BY <1>1, Zenon DEF First, InOrder
<1>3. /\ page \subseteq S \ A /\ Cardinality(page) = Lesser(PageSize(limit), Cardinality(S \ A))
      /\ \A i \in page, j \in (S \ A) \ page : at[i] >= at[j]
  BY <1>1, Zenon DEF First, InOrder
<1>4. /\ IsFiniteSet(S \ A) /\ Cardinality(S) \in Nat /\ Cardinality(A) \in Nat /\ Cardinality(S \ A) \in Nat
      /\ Cardinality(S) = Cardinality(A) + Cardinality(S \ A)
      /\ Cardinality(S \ A) = 0 <=> A = S
  BY <1>2, Remainder, Zenon DEF Sortable
<1>5. IsFiniteSet(page) /\ Cardinality(page) \in Nat
  BY <1>3, <1>4, Remainder, Zenon
<1>6. Cardinality(A) <= offset /\ (Cardinality(A) = offset \/ Cardinality(S \ A) = 0)
  BY <1>2, <1>4 DEF Lesser
<1>7. ASSUME page = {} PROVE Cardinality(S \ A) = 0
  <2>1. Cardinality(page) = 0
    BY <1>7, FS_EmptySet, Zenon
  <2>2. PageSize(limit) \in Nat /\ PageSize(limit) >= 1
    BY PageSizeRange, Zenon
  <2>. QED  BY <1>3, <1>4, <2>1, <2>2 DEF Lesser
<1>. QED  BY <1>2, <1>3, <1>4, <1>5, <1>6, <1>7, Zenon

\* What a page does to the client.
LEMMA WalkPage ==
  ASSUME NEW S, NEW at, Sortable(S, at), NEW limit \in Int, S \subseteq Jobs,
         NEW w \in Walk, OnTrack(S, at, w),
         NEW page, page \in Pages(S, at, limit, w.offset),
         NEW v, v = Turned(w, page)
  PROVE  /\ v \in Walk /\ OnTrack(S, at, v)
         /\ page = {} => Cardinality(w.stay \ w.seen) <= w.left
<1>0. w.offset \in Nat /\ w.left \in Nat /\ w.stay \subseteq S
  BY Zenon DEF Walk, OnTrack
<1>1. PICK A : /\ A \subseteq S /\ page \subseteq S \ A
               /\ \A i \in A, j \in S \ A : at[i] >= at[j]
               /\ \A i \in page, j \in (S \ A) \ page : at[i] >= at[j]
               /\ IsFiniteSet(page) /\ Cardinality(page) \in Nat /\ Cardinality(A) \in Nat
               /\ Cardinality(A) <= w.offset
               /\ Cardinality(A) = w.offset \/ A = S
               /\ page = {} => A = S
  BY <1>0, PageRows, Zenon
<1>2. /\ v.stay = w.stay /\ v.seen = w.seen \cup page /\ v.offset = w.offset + Cardinality(page) /\ v.left = w.left
      /\ v \in Walk
  <2>1. w.offset + Cardinality(page) \in Nat
    BY <1>0, <1>1
  <2>2. w.seen \cup page \in SUBSET Jobs
    BY <1>1, Zenon DEF Walk
  <2>. QED  BY <2>1, <2>2, Zenon DEF Walk, Turned
<1>3. Missed(S, at, w) \in SUBSET S /\ IsFiniteSet(Missed(S, at, w)) /\ Cardinality(Missed(S, at, w)) \in Nat
  <2>1. Missed(S, at, w) \in SUBSET S
    BY <1>0, Zenon DEF Missed
  <2>. QED  BY <2>1, FS_Subset, FS_CardinalityType, Zenon DEF Sortable
<1>4. ASSUME NEW j \in w.stay
      PROVE  /\ Position(S, at, j) \in Nat
             /\ j \in A => Position(S, at, j) <= Cardinality(A)
             /\ j \notin A /\ j \notin page => Position(S, at, j) > Cardinality(A) + Cardinality(page)
  <2>1. j \in S /\ Alone(S, at, j)
    BY Zenon DEF OnTrack
  <2>2. Position(S, at, j) \in Nat
    BY <2>1, PositionRange, Zenon
  <2>. QED  BY <1>1, <2>1, <2>2, PagePlace, Zenon
<1>5. Missed(S, at, v) \in SUBSET Missed(S, at, w)
  <2>. SUFFICES ASSUME NEW j \in Missed(S, at, v) PROVE j \in Missed(S, at, w)
    BY Zenon
  <2>1. j \in S /\ j \in w.stay \ w.seen /\ j \notin page /\ Position(S, at, j) <= w.offset + Cardinality(page)
    BY <1>0, <1>2, Zenon DEF Missed
  <2>2. j \in A
    <3>. SUFFICES ASSUME j \notin A PROVE FALSE
      BY Zenon
    <3>1. Cardinality(A) = w.offset /\ Position(S, at, j) > Cardinality(A) + Cardinality(page) /\ Position(S, at, j) \in Nat
      BY <1>1, <1>4, <2>1, Zenon
    <3>2. Cardinality(page) \in Nat
      BY <1>1, Zenon
    <3>. QED  BY <1>0, <2>1, <3>1, <3>2
  <2>3. Position(S, at, j) <= w.offset
    <3>1. Position(S, at, j) <= Cardinality(A) /\ Position(S, at, j) \in Nat
      BY <1>4, <2>1, <2>2, Zenon
    <3>2. Cardinality(A) \in Nat /\ Cardinality(A) <= w.offset
      BY <1>1, Zenon
    <3>. QED  BY <1>0, <3>1, <3>2
  <2>. QED  BY <2>1, <2>3, Zenon DEF Missed
<1>6. Cardinality(Missed(S, at, v)) <= v.left
  <2>1. Cardinality(Missed(S, at, v)) <= Cardinality(Missed(S, at, w)) /\ Cardinality(Missed(S, at, v)) \in Nat
    BY <1>3, <1>5, FS_Subset, FS_CardinalityType, Zenon
  <2>2. Cardinality(Missed(S, at, w)) <= w.left
    BY Zenon DEF OnTrack
  <2>. QED  BY <1>0, <1>2, <1>3, <2>1, <2>2
<1>7. ASSUME page = {} PROVE w.stay \ w.seen = Missed(S, at, w)
  <2>. SUFFICES ASSUME NEW j \in w.stay PROVE Position(S, at, j) <= w.offset
    BY Zenon DEF Missed
  <2>1. Position(S, at, j) <= Cardinality(A) /\ Position(S, at, j) \in Nat
    BY <1>0, <1>1, <1>4, <1>7, Zenon
  <2>2. Cardinality(A) \in Nat /\ Cardinality(A) <= w.offset
    BY <1>1, Zenon
  <2>. QED  BY <1>0, <2>1, <2>2
<1>8. OnTrack(S, at, v)
  BY <1>2, <1>6, Zenon DEF OnTrack
<1>9. page = {} => Cardinality(w.stay \ w.seen) <= w.left
  BY <1>7, Zenon DEF OnTrack
<1>. QED  BY <1>2, <1>8, <1>9, Zenon

-----------------------------------------------------------------------------
(***************************************************************************)
(* Stats.                                                                  *)
(***************************************************************************)

\* Rows are only added between the two queries.
StatsInv ==
  /\ stats.pc = "type" => Total(stats.byStatus) <= Cardinality(Rows)
  /\ StatsAddUp

\* Both queries count every row once.
LEMMA CountsAll ==
  ASSUME row \in [Jobs -> Row]
  PROVE  /\ CountByStatus \in [JobStatus -> Nat] /\ Total(CountByStatus) = Cardinality(Rows)
         /\ CountByType \in [JobTypes -> Nat] /\ TypeTotal(CountByType) = Cardinality(Rows)
<1>. DEFINE S(s) == {j \in Jobs : row[j].status = s}
            T(t) == {j \in Jobs : row[j].status # "absent" /\ TypeOf[j] = t}
<1>1. \A s : IsFiniteSet(S(s)) /\ Cardinality(S(s)) \in Nat
  <2>1. \A s : S(s) \in SUBSET Jobs
    BY Zenon
  <2>. QED  BY <2>1, FS_Subset, FS_CardinalityType, StoresAssumption, Zenon
<1>2. \A t : IsFiniteSet(T(t)) /\ Cardinality(T(t)) \in Nat
  <2>1. \A t : T(t) \in SUBSET Jobs
    BY Zenon
  <2>. QED  BY <2>1, FS_Subset, FS_CardinalityType, StoresAssumption, Zenon
<1>3. Rows = (((S("QUEUED") \cup S("PROCESSING")) \cup S("SUCCESS")) \cup S("FAILED")) \cup S("DEAD_LETTER")
  BY Zenon DEF Rows, Row, JobStatus
<1>4. Rows = ((T("REGISTRATION") \cup T("PAYMENT_WEBHOOK")) \cup T("QR_SCAN")) \cup T("NOTIFICATION")
  BY StoresAssumption, Zenon DEF Rows, JobTypes
<1>5. Cardinality(Rows) = (((Cardinality(S("QUEUED")) + Cardinality(S("PROCESSING"))) + Cardinality(S("SUCCESS")))
                           + Cardinality(S("FAILED"))) + Cardinality(S("DEAD_LETTER"))
  <2>1. \A s, t : s # t => S(s) \cap S(t) = {}
    BY Zenon
  <2>2. /\ S("QUEUED") \cap S("PROCESSING") = {}
        /\ (S("QUEUED") \cup S("PROCESSING")) \cap S("SUCCESS") = {}
        /\ ((S("QUEUED") \cup S("PROCESSING")) \cup S("SUCCESS")) \cap S("FAILED") = {}
        /\ (((S("QUEUED") \cup S("PROCESSING")) \cup S("SUCCESS")) \cup S("FAILED")) \cap S("DEAD_LETTER") = {}
    BY Zenon
  <2>. PICK A, B, C, D, E : /\ A = S("QUEUED") /\ B = S("PROCESSING") /\ C = S("SUCCESS")
                            /\ D = S("FAILED") /\ E = S("DEAD_LETTER")
    BY Zenon
  <2>. HIDE DEF S
  <2>3. IsFiniteSet(A) /\ IsFiniteSet(B) /\ IsFiniteSet(C) /\ IsFiniteSet(D) /\ IsFiniteSet(E)
    BY <1>1, Zenon DEF JobStatus
  <2>4. IsFiniteSet(A \cup B) /\ Cardinality(A \cup B) = Cardinality(A) + Cardinality(B)
    BY <2>2, <2>3, DisjointUnion, Zenon
  <2>5. /\ IsFiniteSet((A \cup B) \cup C)
        /\ Cardinality((A \cup B) \cup C) = Cardinality(A \cup B) + Cardinality(C)
    BY <2>2, <2>3, <2>4, DisjointUnion, Zenon
  <2>6. /\ IsFiniteSet(((A \cup B) \cup C) \cup D)
        /\ Cardinality(((A \cup B) \cup C) \cup D) = Cardinality((A \cup B) \cup C) + Cardinality(D)
    BY <2>2, <2>3, <2>5, DisjointUnion, Zenon
  <2>7. Cardinality((((A \cup B) \cup C) \cup D) \cup E) = Cardinality(((A \cup B) \cup C) \cup D) + Cardinality(E)
    BY <2>2, <2>3, <2>6, DisjointUnion, Zenon
  <2>. QED  BY <1>3, <2>4, <2>5, <2>6, <2>7, Zenon
<1>6. Cardinality(Rows) = ((Cardinality(T("REGISTRATION")) + Cardinality(T("PAYMENT_WEBHOOK")))
                           + Cardinality(T("QR_SCAN"))) + Cardinality(T("NOTIFICATION"))
  <2>1. /\ T("REGISTRATION") \cap T("PAYMENT_WEBHOOK") = {}
        /\ (T("REGISTRATION") \cup T("PAYMENT_WEBHOOK")) \cap T("QR_SCAN") = {}
        /\ ((T("REGISTRATION") \cup T("PAYMENT_WEBHOOK")) \cup T("QR_SCAN")) \cap T("NOTIFICATION") = {}
    BY Zenon
  <2>. PICK A, B, C, D : /\ A = T("REGISTRATION") /\ B = T("PAYMENT_WEBHOOK")
                         /\ C = T("QR_SCAN") /\ D = T("NOTIFICATION")
    BY Zenon
  <2>. HIDE DEF T
  <2>2. IsFiniteSet(A) /\ IsFiniteSet(B) /\ IsFiniteSet(C) /\ IsFiniteSet(D)
    BY <1>2, Zenon DEF JobTypes
  <2>3. IsFiniteSet(A \cup B) /\ Cardinality(A \cup B) = Cardinality(A) + Cardinality(B)
    BY <2>1, <2>2, DisjointUnion, Zenon
  <2>4. /\ IsFiniteSet((A \cup B) \cup C)
        /\ Cardinality((A \cup B) \cup C) = Cardinality(A \cup B) + Cardinality(C)
    BY <2>1, <2>2, <2>3, DisjointUnion, Zenon
  <2>5. Cardinality(((A \cup B) \cup C) \cup D) = Cardinality((A \cup B) \cup C) + Cardinality(D)
    BY <2>1, <2>2, <2>4, DisjointUnion, Zenon
  <2>. QED  BY <1>4, <2>3, <2>4, <2>5, Zenon
<1>7. CountByStatus \in [JobStatus -> Nat] /\ \A s \in JobStatus : CountByStatus[s] = Cardinality(S(s))
  BY <1>1, Zenon DEF CountByStatus
<1>8. CountByType \in [JobTypes -> Nat] /\ \A t \in JobTypes : CountByType[t] = Cardinality(T(t))
  BY <1>2, Zenon DEF CountByType
<1>. HIDE DEF S, T
<1>. QED  BY <1>1, <1>2, <1>5, <1>6, <1>7, <1>8, Zenon DEF Total, TypeTotal, JobStatus, JobTypes

-----------------------------------------------------------------------------
(***************************************************************************)
(* The steps.                                                              *)
(***************************************************************************)

\* A row leaves an order, or is put anywhere into it: the others stay in order.
LEMMA UnrankedRanks ==
  ASSUME NEW at, NEW S, S \subseteq Jobs, Ranks(at, S), NEW j \in Jobs
  PROVE  /\ Ranks(Unranked(at, j), S \ {j})
         /\ \A i, k \in Jobs \ {j} : at[i] >= at[k] => Unranked(at, j)[i] >= Unranked(at, j)[k]
<1>. DEFINE alone == at[j] > 0 /\ \A i \in Jobs \ {j} : at[i] # at[j]
<1>1. Unranked(at, j)[j] = 0
  BY Zenon DEF Unranked
<1>2. \A i \in Jobs \ {j} : Unranked(at, j)[i] = IF alone /\ at[i] > at[j] THEN at[i] - 1 ELSE at[i]
  BY Zenon DEF Unranked
<1>3. at \in [Jobs -> Nat] /\ (\A i \in Jobs : at[i] > 0 <=> i \in S) /\ at[j] \in Nat
  BY Zenon DEF Ranks
<1>4. CASE alone
  <2>1. at[j] > 0 /\ \A i \in Jobs \ {j} : at[i] # at[j]
    BY <1>4, Zenon
  <2>2. \A i \in Jobs \ {j} : Unranked(at, j)[i] = IF at[i] > at[j] THEN at[i] - 1 ELSE at[i]
    BY <1>2, <1>4, Zenon
  <2>. HIDE DEF alone
  <2>3. \A i \in Jobs \ {j} : Unranked(at, j)[i] \in Nat /\ (Unranked(at, j)[i] > 0 <=> at[i] > 0)
    BY <1>3, <2>1, <2>2
  <2>4. \A i, k \in Jobs \ {j} : at[i] >= at[k] => Unranked(at, j)[i] >= Unranked(at, j)[k]
    BY <1>3, <2>1, <2>2
  <2>5. Unranked(at, j) \in [Jobs -> Nat]
    BY <1>1, <2>3, Zenon DEF Unranked
  <2>. QED  BY <1>1, <1>3, <2>3, <2>4, <2>5 DEF Ranks
<1>5. CASE ~ alone
  <2>2. \A i \in Jobs \ {j} : Unranked(at, j)[i] = at[i]
    BY <1>2, <1>5, Zenon
  <2>. HIDE DEF alone
  <2>5. Unranked(at, j) \in [Jobs -> Nat]
    BY <1>1, <1>3, <2>2, Zenon DEF Unranked
  <2>. QED  BY <1>1, <1>3, <2>2, <2>5 DEF Ranks
<1>. QED  BY <1>4, <1>5, Zenon

\* A row that gets a time leaves the others in order.
LEMMA TimedRanks ==
  ASSUME NEW at, NEW S, S \subseteq Jobs, Ranks(at, S), NEW j \in Jobs \ S, NEW bt \in Timed(at, j)
  PROVE  /\ Ranks(bt, S \cup {j})
         /\ \A i, k \in Jobs \ {j} : at[i] >= at[k] => bt[i] >= bt[k]
<1>1. at \in [Jobs -> Nat] /\ \A i \in Jobs : at[i] > 0 <=> i \in S
  BY Zenon DEF Ranks
<1>2. \/ \E k \in {1} \cup {at[i] + 1 : i \in {i \in Jobs \ {j} : at[i] > 0}} : bt = Between(at, j, k)
      \/ \E i \in Jobs \ {j} : at[i] > 0 /\ bt = [at EXCEPT ![j] = at[i]]
  BY Zenon DEF Timed
<1>3. ASSUME NEW k \in {1} \cup {at[i] + 1 : i \in {i \in Jobs \ {j} : at[i] > 0}}, bt = Between(at, j, k)
      PROVE  /\ Ranks(bt, S \cup {j})
             /\ \A i, h \in Jobs \ {j} : at[i] >= at[h] => bt[i] >= bt[h]
  <2>1. k \in Nat /\ k > 0
    <3>1. CASE k = 1
      BY <3>1
    <3>2. ASSUME NEW i \in Jobs, k = at[i] + 1 PROVE k \in Nat /\ k > 0
      BY <1>1, <3>2
    <3>. QED  BY <1>3, <3>1, <3>2, Zenon
  <2>2. bt[j] = k /\ \A i \in Jobs \ {j} : bt[i] = IF at[i] >= k THEN at[i] + 1 ELSE at[i]
    BY <1>3, Zenon DEF Between
  <2>3. \A i \in Jobs \ {j} : bt[i] \in Nat /\ (bt[i] > 0 <=> at[i] > 0)
    BY <1>1, <2>1, <2>2
  <2>4. \A i, h \in Jobs \ {j} : at[i] >= at[h] => bt[i] >= bt[h]
    BY <1>1, <2>1, <2>2
  <2>5. bt \in [Jobs -> Nat]
    <3>1. \A i \in Jobs : bt[i] \in Nat
      BY <2>1, <2>2, <2>3, Zenon
    <3>2. bt = [i \in Jobs |-> bt[i]]
      BY <1>3, Zenon DEF Between
    <3>. QED  BY <3>1, <3>2, Zenon
  <2>. QED  BY <1>1, <2>1, <2>2, <2>3, <2>4, <2>5, Zenon DEF Ranks
<1>4. ASSUME NEW m \in Jobs \ {j}, at[m] > 0, bt = [at EXCEPT ![j] = at[m]]
      PROVE  /\ Ranks(bt, S \cup {j})
             /\ \A i, h \in Jobs \ {j} : at[i] >= at[h] => bt[i] >= bt[h]
  <2>1. bt \in [Jobs -> Nat] /\ bt[j] > 0 /\ \A i \in Jobs \ {j} : bt[i] = at[i]
    BY <1>1, <1>4, Zenon
  <2>. QED  BY <1>1, <2>1, Zenon DEF Ranks
<1>. QED  BY <1>2, <1>3, <1>4, Zenon

\* What every change of the table leaves behind; the rows of M may have moved in
\* the list of the dead letters.
TableKept(M) ==
  /\ row' \in [Jobs -> Row] /\ Rows \subseteq Rows'
  /\ Ranks(created', Rows') /\ Ranks(updated', DeadRows')
  /\ \A i, k \in Rows : created[i] >= created[k] => created'[i] >= created'[k]
  /\ \A i, k \in DeadRows \ M : updated[i] >= updated[k] => updated'[i] >= updated'[k]

\* A new row.
LEMMA InsertKeeps ==
  ASSUME APITypeOK, NEW j \in Jobs, Insert(j)
  PROVE  TableKept({})
<1>1. row \in [Jobs -> Row] /\ row[j].status = "absent" /\ j \notin Rows /\ Rows \subseteq Jobs
  BY Zenon DEF APITypeOK, StoresTypeOK, Insert, Rows
<1>2. row' = [row EXCEPT ![j] = [status |-> "QUEUED", retry |-> 0]] /\ updated' = updated
  BY Zenon DEF Insert, Create
<1>3. row' \in [Jobs -> Row] /\ Rows' = Rows \cup {j} /\ DeadRows' = DeadRows
  BY <1>1, <1>2, StoresAssumption DEF Rows, DeadRows, Row, JobStatus
<1>4. PICK bt : bt = created' /\ bt \in Timed(created, j)
  BY Zenon DEF Insert
<1>5. Ranks(created, Rows)
  BY Zenon DEF APITypeOK
<1>6. Ranks(bt, Rows \cup {j}) /\ \A i, h \in Jobs \ {j} : created[i] >= created[h] => bt[i] >= bt[h]
  BY <1>1, <1>4, <1>5, TimedRanks, Zenon
<1>. QED  BY <1>1, <1>2, <1>3, <1>4, <1>6, Zenon DEF TableKept, APITypeOK

\* A change of the status of a row.
LEMMA UpdateKeeps ==
  ASSUME APITypeOK, NEW j \in Jobs, NEW s \in JobStatus, NEW n \in 0..MaxRetries,
         row' = [row EXCEPT ![j] = IF @.status = "absent" THEN @ ELSE [status |-> s, retry |-> n]],
         Touched(j), created' = created
  PROVE  TableKept({j})
<1>1. row \in [Jobs -> Row] /\ row' \in [Jobs -> Row] /\ Rows' = Rows /\ DeadRows \subseteq Jobs
  BY Zenon DEF APITypeOK, StoresTypeOK, Rows, DeadRows, Row, JobStatus
<1>2. \A i \in Jobs \ {j} : row'[i] = row[i]
  BY <1>1, Zenon
<1>3. /\ Ranks(Unranked(updated, j), DeadRows \ {j})
      /\ \A i, k \in Jobs \ {j} : updated[i] >= updated[k] => Unranked(updated, j)[i] >= Unranked(updated, j)[k]
  BY <1>1, UnrankedRanks, Zenon DEF APITypeOK
<1>4. CASE row'[j].status # "DEAD_LETTER"
  <2>1. updated' = Unranked(updated, j) /\ DeadRows' = DeadRows \ {j}
    BY <1>1, <1>2, <1>4, Zenon DEF Touched, DeadRows
  <2>. QED  BY <1>1, <1>3, <2>1, Zenon DEF TableKept, APITypeOK
<1>5. CASE row'[j].status = "DEAD_LETTER"
  <2>1. DeadRows' = (DeadRows \ {j}) \cup {j}
    BY <1>1, <1>2, <1>5, Zenon DEF DeadRows
  <2>2. PICK at, bt, D : /\ at = Unranked(updated, j) /\ bt = updated' /\ bt \in Timed(at, j)
                         /\ D = DeadRows \ {j}
    BY <1>5, Zenon DEF Touched
  <2>3. Ranks(at, D) /\ D \subseteq Jobs /\ j \in Jobs \ D
    BY <1>1, <1>3, <2>2, Zenon
  <2>4. Ranks(bt, D \cup {j}) /\ \A i, h \in Jobs \ {j} : at[i] >= at[h] => bt[i] >= bt[h]
    BY <2>2, <2>3, TimedRanks, Zenon
  <2>5. Ranks(updated', DeadRows')
    BY <2>1, <2>2, <2>4, Zenon
  <2>6. \A i, k \in DeadRows \ {j} : updated[i] >= updated[k] => updated'[i] >= updated'[k]
    BY <1>1, <1>3, <2>2, <2>4, Zenon
  <2>. QED  BY <1>1, <2>5, <2>6, Zenon DEF TableKept, APITypeOK
<1>. QED  BY <1>4, <1>5, Zenon

\* A worker that changes a status keeps the order of the other rows.
LEMMA WorkKeeps ==
  ASSUME APITypeOK, NEW j \in Jobs, Work(j)
  PROVE  TableKept({j})
<1>1. PICK s \in {"PROCESSING", "SUCCESS", "QUEUED", "DEAD_LETTER"} : Update(NewJob(j), s)
  BY AdminAssumption, Zenon DEF Work
<1>2. row' = [row EXCEPT ![j] = IF @.status = "absent" THEN @ ELSE [status |-> s, retry |-> 0]]
  BY <1>1, Zenon DEF Update, NewJob
<1>3. 0 \in 0..MaxRetries /\ s \in JobStatus
  BY StoresAssumption DEF JobStatus
<1>4. Touched(j) /\ created' = created
  BY Zenon DEF Work
<1>. QED  BY <1>1, <1>2, <1>3, <1>4, UpdateKeeps, Zenon

\* A step of an admin changes one row or none.
LEMMA RetryKeeps ==
  ASSUME APITypeOK, NEW a \in Admins, Retry(a)
  PROVE  TableKept({ajob[a].id})
<1>1. CASE row' = row
  <2>1. created' = created /\ updated' = updated
    BY <1>1, Zenon DEF Retry
  <2>. QED  BY <1>1, <2>1, Zenon DEF TableKept, Rows, DeadRows, APITypeOK, StoresTypeOK
<1>2. CASE row' # row
  <2>1. apc[a] = "update" /\ Update(ajob[a], "QUEUED")
    BY <1>2, Zenon DEF Retry, RetryJob, AdminRead, AdminUpdate, AdminPush, AdminMove
  <2>2. ajob[a] \in Copy
    BY <2>1, Zenon DEF APITypeOK, AdminTypeOK
  <2>3. ajob[a].id \in Jobs /\ ajob[a].retry \in 0..MaxRetries /\ "QUEUED" \in JobStatus
    BY <2>2, Zenon DEF Copy, JobStatus
  <2>4. row' = [row EXCEPT ![ajob[a].id] = IF @.status = "absent" THEN @
                                           ELSE [status |-> "QUEUED", retry |-> ajob[a].retry]]
    BY <2>1, Zenon DEF Update
  <2>5. Touched(ajob[a].id) /\ created' = created
    BY <1>2, Zenon DEF Retry
  <2>. QED  BY <2>3, <2>4, <2>5, UpdateKeeps, Zenon
<1>. QED  BY <1>1, <1>2, Zenon

\* The lists can be sorted.
LEMMA ListingSortable ==
  ASSUME NEW l, Ranks(created, Rows), Ranks(updated, DeadRows)
  PROVE  Listing(l) \subseteq Jobs /\ Sortable(Listing(l), SortKey(l))
<1>1. Listing(l) \in SUBSET Jobs /\ (~ l.dead => Listing(l) \subseteq Rows) /\ (l.dead => Listing(l) = DeadRows)
  BY Zenon DEF Listing, Rows, DeadRows
<1>2. IsFiniteSet(Listing(l))
  BY <1>1, FS_Subset, StoresAssumption, Zenon
<1>. QED  BY <1>1, <1>2, Zenon DEF Sortable, SortKey, Ranks

\* A change of the table keeps the promise made to the client.
LEMMA ObservedKeeps ==
  ASSUME APITypeOK, WalkInv, NEW M, TableKept(M), Observed(M)
  PROVE  walk' \in Walk /\ WalkInv'
<1>. PICK l : l = walk.list
  BY Zenon
<1>. DEFINE was == Listing(l)
            is == Listing(l)'
            gone == (was \ is) \cup (IF l.dead THEN M \cap was ELSE {})
<1>1. \/ walk.pc # "reading" /\ walk' = walk
      \/ /\ walk.pc = "reading"
         /\ walk' = [walk EXCEPT !.stay = {j \in @ \ gone : Alone(is, SortKey(l)', j)},
                                 !.left = @ + Cardinality(gone)]
  <2>1. PICK k \in {l} : ObservedIn(k, M)
    BY Zenon DEF Observed
  <2>2. ObservedIn(l, M)
    BY <2>1, Zenon
  <2>. QED  BY <2>2, Zenon DEF ObservedIn
<1>2. walk \in Walk
  BY Zenon DEF APITypeOK
<1>3. CASE walk.pc # "reading"
  BY <1>1, <1>2, <1>3, Zenon DEF WalkInv, WalkComplete
<1>4. CASE walk.pc = "reading"
  <2>1. Sortable(was, SortKey(l)) /\ Sortable(is, SortKey(l)')
    <3>1. Sortable(was, SortKey(l))
      BY ListingSortable, Zenon DEF APITypeOK
    <3>2. Ranks(created, Rows)' /\ Ranks(updated, DeadRows)'
      BY Zenon DEF TableKept
    <3>3. (Ranks(created, Rows) /\ Ranks(updated, DeadRows) => Sortable(Listing(l), SortKey(l)))'
      BY ListingSortable, PTL
    <3>. QED  BY <3>1, <3>2, <3>3, Zenon
  <2>2. \A i, k \in was \ gone : SortKey(l)[i] >= SortKey(l)[k] => SortKey(l)'[i] >= SortKey(l)'[k]
    <3>1. CASE l.dead
      <4>1. was \ gone \subseteq DeadRows \ M
        BY <3>1, Zenon DEF Listing
      <4>2. SortKey(l) = updated /\ SortKey(l)' = updated'
        BY <3>1, Zenon DEF SortKey
      <4>. HIDE DEF was, gone
      <4>. QED  BY <4>1, <4>2, Zenon DEF TableKept
    <3>2. CASE ~ l.dead
      <4>1. was \ gone \subseteq Rows
        BY <3>2, Zenon DEF Listing
      <4>2. SortKey(l) = created /\ SortKey(l)' = created'
        BY <3>2, Zenon DEF SortKey
      <4>. HIDE DEF was, gone
      <4>. QED  BY <4>1, <4>2, Zenon DEF TableKept
    <3>. QED  BY <3>1, <3>2, Zenon
  <2>3. OnTrack(was, SortKey(l), walk)
    BY <1>4, Zenon DEF WalkInv
  <2>4. walk' = [walk EXCEPT !.stay = {j \in @ \ gone : Alone(is, SortKey(l)', j)}, !.left = @ + Cardinality(gone)]
    BY <1>1, <1>4, Zenon
  <2>5. gone \subseteq was /\ was \ gone \subseteq is
    BY Zenon
  <2>. HIDE DEF was, is, gone
  <2>6. walk' \in Walk /\ OnTrack(is, SortKey(l)', walk')
    <3>0. PICK S, T, at, bt, D, w, v : /\ S = was /\ T = is /\ at = SortKey(l) /\ bt = SortKey(l)'
                                       /\ D = gone /\ w = walk /\ v = walk'
      BY Zenon
    <3>1. Rearranged(S, at, T, bt, D)
      BY <2>1, <2>2, <2>5, <3>0, Zenon DEF Rearranged
    <3>2. w \in Walk /\ OnTrack(S, at, w)
      BY <1>2, <2>3, <3>0, Zenon
    <3>3. v = Changed(w, D, T, bt)
      BY <2>4, <3>0, Zenon DEF Changed
    <3>4. v \in Walk /\ OnTrack(T, bt, v)
      BY <3>1, <3>2, <3>3, WalkChange, Zenon
    <3>. QED  BY <3>0, <3>4, Zenon
  <2>7. walk'.pc = "reading" /\ walk'.list = l
    BY <1>2, <1>4, <2>4, Zenon DEF Walk
  <2>8. Listing(walk.list)' = is /\ SortKey(walk.list)' = SortKey(l)'
    BY <2>7, Zenon DEF is, Listing, Rows, DeadRows, Matches, SortKey
  <2>. QED  BY <2>6, <2>7, <2>8, Zenon DEF WalkInv, WalkComplete
<1>. QED  BY <1>3, <1>4, Zenon

\* The invariant of the admin API: types, what the client has missed so far, and
\* what Stats has counted so far.
APIInv == APITypeOK /\ WalkInv /\ StatsInv

\* It holds in the beginning.
LEMMA APIInitInv == APIInit => APIInv
<1>. SUFFICES ASSUME APIInit PROVE APIInv
  BY Zenon
<1>1. StoresTypeOK
  BY StoresAssumption DEF APIInit, StoresInit, StoresTypeOK, Row
<1>2. AdminTypeOK
  BY Zenon DEF APIInit, AdminInit, AdminTypeOK, AdminPC
<1>3. Ranks(created, Rows) /\ Ranks(updated, DeadRows)
  <2>1. Rows = {} /\ DeadRows = {}
    BY Zenon DEF APIInit, StoresInit, Rows, DeadRows
  <2>. QED  BY <2>1 DEF APIInit, Ranks
<1>4. walk \in Walk /\ walk.pc = "idle" /\ walk.offset = 0
  <2>1. (CHOOSE l \in Lists : TRUE) \in Lists /\ (CHOOSE n \in Limits : TRUE) \in Limits
    BY AdminAssumption, Zenon
  <2>. QED  BY <2>1 DEF APIInit, Walk
<1>5. stats \in Stats /\ stats.pc = "idle"
  BY Zenon DEF APIInit, Stats
<1>. QED  BY <1>1, <1>2, <1>3, <1>4, <1>5, Zenon DEF APIInv, APITypeOK, WalkInv, WalkComplete, StatsInv, StatsAddUp

\* A call counts its fault.
LEMMA CallType ==
  ASSUME faults \in 0..MaxFaults, NEW store, NEW live, NEW ok, Call(store, live, ok)
  PROVE  faults' \in 0..MaxFaults
BY StoresAssumption DEF Call

\* The stores and the admins keep their types.
LEMMA StoresKeepType ==
  ASSUME APITypeOK, APINext, row' \in [Jobs -> Row]
  PROVE  StoresTypeOK' /\ AdminTypeOK'
<1>. USE DEF APITypeOK
<1>1. ASSUME NEW j \in Jobs, Insert(j) \/ Work(j) PROVE StoresTypeOK' /\ AdminTypeOK'
  BY <1>1, Zenon DEF Insert, Work, StoresTypeOK, AdminTypeOK, adminVars
<1>2. ASSUME NEW a \in Admins, Retry(a) PROVE StoresTypeOK' /\ AdminTypeOK'
  <2>1. ASSUME NEW j \in Jobs, AdminRead(a, j) PROVE StoresTypeOK' /\ AdminTypeOK'
    <3>1. NewJob(j) \in Copy
      BY StoresAssumption DEF NewJob, Copy
    <3>2. faults' \in 0..MaxFaults
      BY <2>1, CallType, Zenon DEF AdminRead, StoresTypeOK
    <3>3. StoresTypeOK'
      BY <2>1, <3>2, Zenon DEF AdminRead, StoresTypeOK
    <3>4. \E pc \in AdminPC : apc' = [apc EXCEPT ![a] = pc]
      BY <2>1, Zenon DEF AdminRead, AdminMove, Retryable, AdminPC
    <3>5. ajob' = [ajob EXCEPT ![a] = NewJob(j)]
      BY <2>1, Zenon DEF AdminRead
    <3>. QED  BY <3>1, <3>3, <3>4, <3>5, Zenon DEF AdminTypeOK
  <2>2. CASE AdminUpdate(a)
    <3>1. faults' \in 0..MaxFaults
      BY <2>2, CallType, Zenon DEF AdminUpdate, StoresTypeOK
    <3>2. StoresTypeOK'
      BY <2>2, <3>1, Zenon DEF AdminUpdate, StoresTypeOK
    <3>3. apc[a] = "update" /\ ajob' = ajob /\ \E pc \in AdminPC : apc' = [apc EXCEPT ![a] = pc]
      BY <2>2, Zenon DEF AdminUpdate, AdminMove, AdminPC
    <3>. QED  BY <3>2, <3>3, Zenon DEF AdminTypeOK
  <2>3. CASE AdminPush(a)
    <3>1. faults' \in 0..MaxFaults
      BY <2>3, CallType, Zenon DEF AdminPush, StoresTypeOK
    <3>2. apc[a] = "push" /\ ajob' = ajob /\ \E pc \in AdminPC : apc' = [apc EXCEPT ![a] = pc]
      BY <2>3, Zenon DEF AdminPush, AdminMove, AdminPC
    <3>3. ajob[a] \in Copy
      BY <3>2, Zenon DEF AdminTypeOK
    <3>4. queue' \in [Priorities -> Seq(Copy)]
      <4>1. queue' = queue \/ queue' = [queue EXCEPT ![keyForPriority(ajob[a])] = Append(@, ajob[a])]
        BY <2>3, Zenon DEF AdminPush, Push
      <4>2. \A p \in Priorities : Append(queue[p], ajob[a]) \in Seq(Copy)
        BY <3>3 DEF StoresTypeOK
      <4>. QED  BY <4>1, <4>2, Zenon DEF StoresTypeOK
    <3>5. StoresTypeOK'
      BY <2>3, <3>1, <3>4, Zenon DEF AdminPush, StoresTypeOK
    <3>. QED  BY <3>2, <3>5, Zenon DEF AdminTypeOK
  <2>. QED  BY <1>2, <2>1, <2>2, <2>3, Zenon DEF Retry, RetryJob
<1>3. CASE StartWalk
  BY <1>3, Zenon DEF StartWalk, storeVars, adminVars, StoresTypeOK, AdminTypeOK
<1>4. ASSUME NEW store, NEW ok, Query(store, ok),
             UNCHANGED <<queue, deadLetter, row, attempts, doneKey, lockKey, accepted, adminVars>>
      PROVE  StoresTypeOK' /\ AdminTypeOK'
  BY <1>4, Zenon DEF Query, StoresTypeOK, AdminTypeOK, adminVars
<1>5. CASE NextPage
  BY <1>4, <1>5, Zenon DEF NextPage
<1>6. CASE StatsCounts
  BY <1>4, <1>6, Zenon DEF StatsCounts, StatsMove
<1>7. CASE StatsDepths
  BY <1>4, <1>7, Zenon DEF StatsDepths
<1>. QED  BY <1>1, <1>2, <1>3, <1>5, <1>6, <1>7, Zenon DEF APINext

\* Nothing that WalkInv speaks of changes.
LEMMA WalkStutters ==
  ASSUME WalkInv, UNCHANGED <<row, created, updated, walk>>
  PROVE  WalkInv'
<1>1. Listing(walk.list)' = Listing(walk.list) /\ SortKey(walk.list)' = SortKey(walk.list)
  BY Zenon DEF Listing, Rows, DeadRows, Matches, SortKey
<1>. QED  BY <1>1, Zenon DEF WalkInv, WalkComplete

\* A change of the table keeps what Stats has counted a lower bound.
LEMMA StatsStutters ==
  ASSUME APITypeOK, StatsInv, Rows \subseteq Rows', stats' = stats
  PROVE  StatsInv'
<1>1. Rows' \in SUBSET Jobs /\ Rows \in SUBSET Rows'
  BY Zenon DEF Rows
<1>2. Cardinality(Rows) <= Cardinality(Rows') /\ Cardinality(Rows) \in Nat /\ Cardinality(Rows') \in Nat
  BY <1>1, FS_Subset, FS_CardinalityType, StoresAssumption, Zenon
<1>3. Total(stats.byStatus) \in Nat
  BY DEF APITypeOK, Stats, Total, JobStatus
<1>. QED  BY <1>2, <1>3 DEF StatsInv, StatsAddUp

\* The client starts: it has missed nothing.
LEMMA StartWalkInv ==
  ASSUME APITypeOK, WalkInv, StartWalk
  PROVE  walk' \in Walk /\ WalkInv'
<1>. PICK l \in Lists, n \in Limits :
       walk' = [walk EXCEPT !.pc = "reading", !.list = l, !.limit = n,
                            !.stay = {j \in Listing(l) : Alone(Listing(l), SortKey(l), j)}]
  BY Zenon DEF StartWalk
<1>. PICK S, at, K : S = Listing(l) /\ at = SortKey(l) /\ K = {j \in S : Alone(S, at, j)}
  BY Zenon
<1>1. S \subseteq Jobs /\ Sortable(S, at)
  BY ListingSortable, Zenon DEF APITypeOK
<1>2. /\ walk' = [walk EXCEPT !.pc = "reading", !.list = l, !.limit = n, !.stay = K] /\ walk \in Walk /\ walk.offset = 0
      /\ UNCHANGED <<row, created, updated>>
  BY Zenon DEF StartWalk, APITypeOK, WalkInv, storeVars
<1>3. /\ walk' \in Walk /\ walk'.pc = "reading" /\ walk'.stay = K /\ walk'.list = l /\ walk'.offset = 0
      /\ walk'.left \in Nat
  BY <1>1, <1>2, Zenon DEF Walk
<1>4. Listing(walk.list)' = S /\ SortKey(walk.list)' = at
  BY <1>2, <1>3, Zenon DEF Listing, Rows, DeadRows, Matches, SortKey
<1>5. Missed(S, at, walk') = {}
  <2>1. ASSUME NEW j \in K PROVE ~ (Position(S, at, j) <= 0)
    BY <1>1, PositionRange
  <2>. QED  BY <1>3, <2>1, Zenon DEF Missed
<1>6. Cardinality(Missed(S, at, walk')) <= walk'.left
  <2>1. Cardinality(Missed(S, at, walk')) = 0
    BY <1>5, FS_EmptySet, Zenon
  <2>2. walk'.left \in Nat
    BY <1>3, Zenon
  <2>. QED  BY <2>1, <2>2
<1>7. OnTrack(S, at, walk')
  BY <1>3, <1>6, Zenon DEF OnTrack
<1>. QED  BY <1>3, <1>4, <1>7, Zenon DEF WalkInv, WalkComplete

\* The client asks for a page.
LEMMA NextPageInv ==
  ASSUME APITypeOK, WalkInv, NextPage
  PROVE  walk' \in Walk /\ WalkInv'
<1>0. PICK l, S, at, n : l = walk.list /\ S = Listing(l) /\ at = SortKey(l) /\ n = atoiDefault(walk.limit, DefaultPage)
  BY Zenon
<1>1. S \subseteq Jobs /\ Sortable(S, at)
  BY <1>0, ListingSortable, Zenon DEF APITypeOK
<1>2. walk \in Walk /\ walk.pc = "reading" /\ UNCHANGED <<row, created, updated>>
  BY Zenon DEF NextPage, APITypeOK
<1>3. n \in Int
  <2>1. MaxPage \in Nat /\ DefaultPage \in 1..MaxPage /\ Limits \subseteq Seq(Int)
    BY AdminAssumption, Zenon
  <2>2. walk.limit \in Seq(Int)
    BY <1>2, <2>1, Zenon DEF Walk
  <2>. QED  BY <1>0, <2>1, <2>2 DEF atoiDefault
<1>4. OnTrack(S, at, walk)
  BY <1>0, <1>2, Zenon DEF WalkInv
<1>5. PICK page, v :
         /\ page \in Pages(S, at, n, walk.offset) /\ v = Turned(walk, page)
         /\ walk' = walk \/ (page = {} /\ walk' = [walk EXCEPT !.pc = "done"]) \/ walk' = v
  BY <1>0, Zenon DEF NextPage, ListJobs, Turned
<1>6. /\ v \in Walk /\ OnTrack(S, at, v)
      /\ page = {} => Cardinality(walk.stay \ walk.seen) <= walk.left
  <2>0. PICK w : w = walk
    BY Zenon
  <2>1. w \in Walk /\ OnTrack(S, at, w) /\ page \in Pages(S, at, n, w.offset) /\ v = Turned(w, page)
    BY <1>2, <1>4, <1>5, <2>0, Zenon
  <2>2. /\ v \in Walk /\ OnTrack(S, at, v)
        /\ page = {} => Cardinality(w.stay \ w.seen) <= w.left
    BY <1>1, <1>3, <2>1, WalkPage, Zenon
  <2>. QED  BY <2>0, <2>2, Zenon
<1>7. CASE walk' = walk
  BY <1>2, <1>7, WalkStutters, Zenon
<1>8. CASE page = {} /\ walk' = [walk EXCEPT !.pc = "done"]
  <2>1. walk' \in Walk /\ walk'.pc = "done" /\ walk'.stay = walk.stay /\ walk'.seen = walk.seen /\ walk'.left = walk.left
    BY <1>2, <1>8, Zenon DEF Walk
  <2>. QED  BY <1>6, <1>8, <2>1, Zenon DEF WalkInv, WalkComplete
<1>9. CASE walk' = v
  <2>1. walk'.list = l /\ walk'.pc = "reading"
    BY <1>0, <1>2, <1>5, <1>9, Zenon DEF Walk, Turned
  <2>2. Listing(walk.list)' = S /\ SortKey(walk.list)' = at
    BY <1>0, <1>2, <2>1, Zenon DEF Listing, Rows, DeadRows, Matches, SortKey
  <2>. QED  BY <1>6, <1>9, <2>1, <2>2, Zenon DEF WalkInv, WalkComplete
<1>. QED  BY <1>5, <1>7, <1>8, <1>9, Zenon

\* Stats counts, first by status and then by type.
LEMMA StatsCountsInv ==
  ASSUME APITypeOK, StatsInv, StatsCounts
  PROVE  stats' \in Stats /\ StatsInv'
<1>1. stats \in Stats /\ row \in [Jobs -> Row] /\ row' = row
  BY Zenon DEF APITypeOK, StoresTypeOK, StatsCounts, StatsMove
<1>2. Rows' = Rows
  BY <1>1, Zenon DEF Rows
<1>3. /\ CountByStatus \in [JobStatus -> Nat] /\ Total(CountByStatus) = Cardinality(Rows)
      /\ CountByType \in [JobTypes -> Nat] /\ TypeTotal(CountByType) = Cardinality(Rows)
  BY <1>1, CountsAll, Zenon
<1>4. Cardinality(Rows) \in Nat
  BY <1>3 DEF Total, JobStatus
<1>5. CASE stats' = [stats EXCEPT !.pc = "error"]
  BY <1>1, <1>5, Zenon DEF Stats, StatsInv, StatsAddUp
<1>6. CASE stats' = [[stats EXCEPT !.byStatus = CountByStatus] EXCEPT !.pc = "type"]
  <2>1. stats' \in Stats /\ stats'.pc = "type" /\ stats'.byStatus = CountByStatus
    BY <1>1, <1>3, <1>6, Zenon DEF Stats
  <2>. QED  BY <1>2, <1>3, <1>4, <2>1 DEF StatsInv, StatsAddUp
<1>7. CASE stats.pc = "type" /\ stats' = [[stats EXCEPT !.byType = CountByType] EXCEPT !.pc = "depths"]
  <2>1. stats' \in Stats /\ stats'.pc = "depths" /\ stats'.byType = CountByType /\ stats'.byStatus = stats.byStatus
    BY <1>1, <1>3, <1>7, Zenon DEF Stats
  <2>2. Total(stats'.byStatus) <= TypeTotal(stats'.byType)
    BY <1>3, <1>7, <2>1, Zenon DEF StatsInv
  <2>. QED  BY <2>1, <2>2, Zenon DEF StatsInv, StatsAddUp
<1>. QED  BY <1>5, <1>6, <1>7, Zenon DEF StatsCounts, StatsMove

\* Every step keeps the invariant.
LEMMA APIStepInv == APIInv /\ [APINext]_apiVars => APIInv'
<1>. SUFFICES ASSUME APIInv, [APINext]_apiVars PROVE APIInv'
  BY Zenon
<1>0. APITypeOK /\ WalkInv /\ StatsInv /\ walk \in Walk /\ stats \in Stats
  BY Zenon DEF APIInv, APITypeOK
<1>1. ASSUME NEW M, TableKept(M), stats' = stats, APINext, Observed(M) \/ UNCHANGED <<row, created, updated, walk>>
      PROVE  APIInv'
  <2>1. StoresTypeOK' /\ AdminTypeOK'
    BY <1>0, <1>1, StoresKeepType, Zenon DEF TableKept
  <2>2. walk' \in Walk /\ WalkInv'
    BY <1>0, <1>1, ObservedKeeps, WalkStutters, Zenon
  <2>3. StatsInv'
    BY <1>0, <1>1, StatsStutters, Zenon DEF TableKept
  <2>. QED  BY <1>0, <1>1, <2>1, <2>2, <2>3, Zenon DEF APIInv, APITypeOK, TableKept
<1>2. ASSUME UNCHANGED <<row, created, updated>>, APINext, walk' \in Walk /\ WalkInv', stats' \in Stats /\ StatsInv'
      PROVE  APIInv'
  <2>1. StoresTypeOK' /\ AdminTypeOK'
    BY <1>0, <1>2, StoresKeepType, Zenon DEF APITypeOK, StoresTypeOK
  <2>2. Rows' = Rows /\ DeadRows' = DeadRows
    BY <1>2, Zenon DEF Rows, DeadRows
  <2>. QED  BY <1>0, <1>2, <2>1, <2>2, Zenon DEF APIInv, APITypeOK
<1>3. ASSUME NEW j \in Jobs, Insert(j) PROVE APIInv'
  BY <1>0, <1>1, <1>3, InsertKeeps, Zenon DEF Insert, APINext
<1>4. ASSUME NEW j \in Jobs, Work(j) PROVE APIInv'
  BY <1>0, <1>1, <1>4, WorkKeeps, Zenon DEF Work, APINext
<1>5. ASSUME NEW a \in Admins, Retry(a) PROVE APIInv'
  BY <1>0, <1>1, <1>5, RetryKeeps, Zenon DEF Retry, APINext
<1>6. CASE StartWalk
  <2>1. UNCHANGED <<row, created, updated, stats>>
    BY <1>6, Zenon DEF StartWalk, storeVars
  <2>2. StatsInv'
    BY <1>0, <2>1, StatsStutters, Zenon DEF Rows
  <2>. QED  BY <1>0, <1>2, <1>6, <2>1, <2>2, StartWalkInv DEF APINext
<1>7. CASE NextPage
  <2>1. UNCHANGED <<row, created, updated, stats>>
    BY <1>7, Zenon DEF NextPage
  <2>2. StatsInv'
    BY <1>0, <2>1, StatsStutters, Zenon DEF Rows
  <2>. QED  BY <1>0, <1>2, <1>7, <2>1, <2>2, NextPageInv DEF APINext
<1>8. CASE StatsCounts
  <2>1. UNCHANGED <<row, created, updated, walk>>
    BY <1>8, Zenon DEF StatsCounts, StatsMove
  <2>. QED  BY <1>0, <1>2, <1>8, <2>1, StatsCountsInv, WalkStutters DEF APINext
<1>9. CASE StatsDepths
  <2>1. UNCHANGED <<row, created, updated, walk>>
    BY <1>9, Zenon DEF StatsDepths
  <2>2. PICK P \in SUBSET Priorities, n \in {0, Len(deadLetter)} :
          stats' = [stats EXCEPT !.pc = "done", !.depths = {<<p, Len(queue[p])>> : p \in P}, !.deadLetter = n]
    BY <1>9, Zenon DEF StatsDepths
  <2>3. n \in Nat /\ {<<p, Len(queue[p])>> : p \in P} \subseteq Priorities \X Nat
    BY <1>0 DEF APITypeOK, StoresTypeOK
  <2>4. stats' \in Stats /\ stats'.pc = "done" /\ stats'.byStatus = stats.byStatus /\ stats'.byType = stats.byType
    BY <1>0, <2>2, <2>3, Zenon DEF Stats
  <2>5. StatsInv'
    BY <1>0, <1>9, <2>4, Zenon DEF StatsInv, StatsAddUp, StatsDepths
  <2>. QED  BY <1>0, <1>2, <1>9, <2>1, <2>4, <2>5, WalkStutters DEF APINext
<1>10. CASE UNCHANGED apiVars
  <2>1. UNCHANGED <<row, created, updated, walk, stats>> /\ UNCHANGED storeVars /\ UNCHANGED adminVars
    BY <1>10, Zenon DEF apiVars, storeVars
  <2>2. StoresTypeOK' /\ AdminTypeOK'
    BY <1>0, <2>1, Zenon DEF APITypeOK, StoresTypeOK, AdminTypeOK, storeVars, adminVars
  <2>3. WalkInv' /\ StatsInv'
    BY <1>0, <2>1, WalkStutters, StatsStutters, Zenon DEF Rows
  <2>. QED  BY <1>0, <2>1, <2>2, <2>3, Zenon DEF APIInv, APITypeOK, Rows, DeadRows
<1>. QED  BY <1>3, <1>4, <1>5, <1>6, <1>7, <1>8, <1>9, <1>10 DEF APINext

\* It holds in every state of every behaviour.
LEMMA APIInvariant == APISpec => []APIInv
BY APIInitInv, APIStepInv, PTL DEF APISpec

\* The admin API is type-correct, and every row of a list has the time it is
\* sorted by, for any number of jobs and admins.
THEOREM APITypeCorrect == APISpec => []APITypeOK
<1>1. APIInv => APITypeOK
  BY Zenon DEF APIInv
<1>. QED  BY <1>1, APIInvariant, PTL

\* Reading a list page by page with an offset, whatever its length, the filter
\* and the size of the pages, while rows come, go and change, and whichever of
\* the orders that ORDER BY leaves open each query uses: of the rows that have
\* their time alone, ListJobs and DeadLetterJobs skip at most one for each that
\* dropped out of the list or moved in it.
THEOREM WalkCompleteHolds == APISpec => []WalkComplete
<1>1. APIInv => WalkComplete
  BY Zenon DEF APIInv, WalkInv
<1>. QED  BY <1>1, APIInvariant, PTL

\* The two queries of Stats can be reconciled: the total by status is at most
\* the count by type.
THEOREM StatsAddUpHolds == APISpec => []StatsAddUp
<1>1. APIInv => StatsAddUp
  BY Zenon DEF APIInv, StatsInv
<1>. QED  BY <1>1, APIInvariant, PTL

\* The in-memory store of the tests and Postgres, in every state, for every
\* filter, every limit and every offset that is not negative: the same pages for
\* a limit from 1 to MaxPage, or if a page of the default size holds the rest of
\* the list; for any other limit each page of Postgres is part of one of the
\* fake's.
THEOREM FakeAgreesHolds ==
  APISpec => [](/\ FakeAgrees
                /\ \A l \in Lists : ~ l.dead =>
                     \A limit \in Int, offset \in Nat : SamePages(Listing(l), limit, offset))
<1>1. ASSUME APIInv, NEW l \in Lists, ~ l.dead, NEW limit \in Int, NEW offset \in Nat
      PROVE  SamePages(Listing(l), limit, offset)
  <2>1. Sortable(Listing(l), created)
    BY <1>1, ListingSortable, Zenon DEF APIInv, APITypeOK, SortKey
  <2>. QED  BY <2>1, StoresAgree, Zenon
<1>2. 0..(MaxPage + 1) \subseteq Int /\ 0..Cardinality(Jobs) \subseteq Nat
  <2>1. MaxPage \in Nat /\ Cardinality(Jobs) \in Nat
    BY AdminAssumption, StoresAssumption, FS_CardinalityType, Zenon
  <2>. QED  BY <2>1
<1>3. APIInv => /\ FakeAgrees
                /\ \A l \in Lists : ~ l.dead =>
                     \A limit \in Int, offset \in Nat : SamePages(Listing(l), limit, offset)
  BY <1>1, <1>2, Zenon DEF FakeAgrees
<1>. QED  BY <1>3, APIInvariant, PTL
=============================================================================

---------------------------- MODULE RankingProofs ----------------------------
(***************************************************************************)
(* What the operators of Ranking return, whatever they are applied to: the *)
(* order in which a list is put (SortedOrders), that it is the same for    *)
(* the same items in any order (SortedForgets), and that scores stay in    *)
(* the unit interval and do not sink as days pass (AxesFacts, RankFacts).  *)
(*                                                                         *)
(* The order rests on counting.  The place of a row is one more than the   *)
(* number of rows that come before it; the comparison is a strict order    *)
(* that decides between any two rows, so of two rows the first has fewer   *)
(* rows before it than the second, no two rows have the same place, and    *)
(* a row has each of the places.                                           *)
(***************************************************************************)
EXTENDS Ranking, DataLemmas, FunctionTheorems

(***************************************************************************)
(* Sort                                                                    *)
(***************************************************************************)

AnyRow == [unread : BOOLEAN, rank : Int, updated : Int, id : Int]

\* Whatever a list is ordered by is a number.
LEMMA ValueType ==
  ASSUME NEW a \in AnyRow, NEW key \in SortKey
  PROVE  Value(a, key) \in Int
<1>1. CASE key = "rank"
  BY <1>1 DEF Value, AnyRow
<1>2. CASE key = "priority"
  BY <1>2 DEF Value, AnyRow, Band
<1>3. CASE key = "updated"
  BY <1>3 DEF Value, AnyRow
<1> QED
  BY <1>1, <1>2, <1>3 DEF SortKey

\* The comparison of Sort is a strict order ...
LEMMA BeforeOrders ==
  ASSUME NEW a \in AnyRow, NEW b \in AnyRow, NEW c \in AnyRow, NEW key \in SortKey,
         NEW desc \in BOOLEAN
  PROVE  /\ Before(a, b, key, desc) => ~Before(b, a, key, desc)
         /\ Before(a, b, key, desc) /\ Before(b, c, key, desc) => Before(a, c, key, desc)
<1> DEFINE x == Value(a, key)
           y == Value(b, key)
           z == Value(c, key)
<1>1. x \in Int /\ y \in Int /\ z \in Int
  BY ValueType
<1>2. /\ a.updated \in Int /\ b.updated \in Int /\ c.updated \in Int
      /\ a.id \in Int /\ b.id \in Int /\ c.id \in Int
      /\ a.unread \in BOOLEAN /\ b.unread \in BOOLEAN /\ c.unread \in BOOLEAN
  BY DEF AnyRow
<1>3. CASE desc
  BY <1>1, <1>2, <1>3 DEF Before
<1>4. CASE ~desc
  BY <1>1, <1>2, <1>4 DEF Before
<1> QED
  BY <1>3, <1>4

\* ... and decides between any two rows with different names.
LEMMA BeforeDecides ==
  ASSUME NEW a \in AnyRow, NEW b \in AnyRow, NEW key \in SortKey, NEW desc \in BOOLEAN,
         a.id # b.id
  PROVE  Before(a, b, key, desc) \/ Before(b, a, key, desc)
<1>1. Value(a, key) \in Int /\ Value(b, key) \in Int
  BY ValueType
<1>2. /\ a.updated \in Int /\ b.updated \in Int
      /\ a.id \in Int /\ b.id \in Int
      /\ a.unread \in BOOLEAN /\ b.unread \in BOOLEAN
  BY DEF AnyRow
<1> QED
  BY <1>1, <1>2 DEF Before

\* The rows of a list that come before a given one.
Earlier(rows, row, key, desc) ==
    {j \in DOMAIN rows : Before(rows[j], row, key, desc)}

\* In a list in which no name comes twice, the place of a row tells how many
\* rows come before it: no two rows have the same place, and of two rows the
\* one that comes first has the first place.
LEMMA PlaceFacts ==
  ASSUME NEW n \in Nat, NEW rows \in [1..n -> AnyRow],
         \A i, j \in 1..n : rows[i].id = rows[j].id => i = j,
         NEW key \in SortKey, NEW desc \in BOOLEAN
  PROVE  /\ \A i \in 1..n :
              Place(rows, i, key, desc) = 1 + Cardinality(Earlier(rows, rows[i], key, desc))
         /\ [i \in 1..n |-> Place(rows, i, key, desc)] \in Bijection(1..n, 1..n)
         /\ \A i, j \in 1..n : i # j =>
              \/ /\ Place(rows, i, key, desc) < Place(rows, j, key, desc)
                 /\ Before(rows[i], rows[j], key, desc)
              \/ /\ Place(rows, j, key, desc) < Place(rows, i, key, desc)
                 /\ Before(rows[j], rows[i], key, desc)
<1> DEFINE Ahead(i) == {j \in 1..n : Before(rows[j], rows[i], key, desc)}
           place == [i \in 1..n |-> 1 + Cardinality(Ahead(i))]
<1>1. IsFiniteSet(1..n) /\ Cardinality(1..n) = n
  BY FS_Interval, 1 \in Int, n \in Int
<1>2. ASSUME NEW i \in 1..n
      PROVE  Place(rows, i, key, desc) = place[i]
  <2>1. \A j \in 1..n : j < i => j # i /\ rows[j].id # rows[i].id
    OBVIOUS
  <2>2. \A j \in 1..n : j < i /\ ~Before(rows[i], rows[j], key, desc)
                           => Before(rows[j], rows[i], key, desc)
    BY <2>1, BeforeDecides
  <2>3. {j \in DOMAIN rows : \/ Before(rows[j], rows[i], key, desc)
                             \/ j < i /\ ~Before(rows[i], rows[j], key, desc)} = Ahead(i)
    BY <2>2
  <2> QED
    BY <2>3 DEF Place
<1>3. ASSUME NEW i \in 1..n
      PROVE  IsFiniteSet(Ahead(i)) /\ Cardinality(Ahead(i)) \in Nat /\ i \notin Ahead(i)
  <2>1. Ahead(i) \in SUBSET (1..n)
    OBVIOUS
  <2>2. IsFiniteSet(Ahead(i))
    BY <1>1, <2>1, FS_Subset
  <2> QED
    BY <2>2, FS_CardinalityType, BeforeOrders
<1>4. ASSUME NEW i \in 1..n, NEW j \in 1..n, Before(rows[i], rows[j], key, desc)
      PROVE  place[i] < place[j]
  <2>1. \A k \in Ahead(i) : k \in Ahead(j)
    BY <1>4, BeforeOrders
  <2>2. Ahead(i) \in SUBSET Ahead(j)
    BY <2>1
  <2>3. i \in Ahead(j)
    BY <1>4
  <2>4. Ahead(i) # Ahead(j)
    BY <1>3, <2>3
  <2>5. IsFiniteSet(Ahead(j)) /\ Cardinality(Ahead(j)) \in Nat /\ Cardinality(Ahead(i)) \in Nat
    BY <1>3
  <2> HIDE DEF Ahead
  <2>6. Cardinality(Ahead(i)) <= Cardinality(Ahead(j)) /\ Cardinality(Ahead(i)) # Cardinality(Ahead(j))
    BY <2>2, <2>4, <2>5, FS_Subset
  <2> QED
    BY <2>5, <2>6
<1>5. ASSUME NEW i \in 1..n
      PROVE  place[i] \in 1..n
  <2>1. Ahead(i) \in SUBSET (1..n)
    OBVIOUS
  <2>2. Ahead(i) # 1..n
    BY <1>3
  <2>3. Cardinality(Ahead(i)) \in Nat
    BY <1>3
  <2> HIDE DEF Ahead
  <2>4. Cardinality(Ahead(i)) <= n /\ Cardinality(Ahead(i)) # n
    BY <1>1, <2>1, <2>2, FS_Subset
  <2> QED
    BY <2>3, <2>4
<1>6. ASSUME NEW i \in 1..n, NEW j \in 1..n, i # j
      PROVE  \/ place[i] < place[j] /\ Before(rows[i], rows[j], key, desc)
             \/ place[j] < place[i] /\ Before(rows[j], rows[i], key, desc)
  <2> HIDE DEF place
  <2>1. rows[i].id # rows[j].id /\ rows[i] \in AnyRow /\ rows[j] \in AnyRow
    BY <1>6
  <2> QED
    BY <1>4, <2>1, BeforeDecides
<1>7. place \in Bijection(1..n, 1..n)
  <2>1. place \in [1..n -> 1..n]
    BY <1>5
  <2> HIDE DEF place
  <2>2. \A i, j \in 1..n : place[i] = place[j] => i = j
    <3> SUFFICES ASSUME NEW i \in 1..n, NEW j \in 1..n, i # j
                 PROVE  place[i] # place[j]
      OBVIOUS
    <3>1. place[i] \in Int /\ place[j] \in Int
      BY <2>1
    <3> QED
      BY <1>6, <3>1
  <2>3. place \in Injection(1..n, 1..n)
    BY <2>1, <2>2 DEF Injection, IsInjective
  <2>4. place \in Surjection(1..n, 1..n)
    BY <1>1, <2>3, FS_Injection
  <2> QED
    BY <2>3, <2>4 DEF Bijection
<1>8. [i \in 1..n |-> Place(rows, i, key, desc)] = place
  BY <1>2
<1>9. \A i \in 1..n :
        Place(rows, i, key, desc) = 1 + Cardinality(Earlier(rows, rows[i], key, desc))
  <2> TAKE i \in 1..n
  <2>1. Earlier(rows, rows[i], key, desc) = Ahead(i)
    BY DEF Earlier
  <2>2. Place(rows, i, key, desc) = 1 + Cardinality(Ahead(i))
    BY <1>2
  <2> HIDE DEF Ahead
  <2> QED
    BY <2>1, <2>2
<1> HIDE DEF place
<1>10. \A i, j \in 1..n : i # j =>
         \/ /\ Place(rows, i, key, desc) < Place(rows, j, key, desc)
            /\ Before(rows[i], rows[j], key, desc)
         \/ /\ Place(rows, j, key, desc) < Place(rows, i, key, desc)
            /\ Before(rows[j], rows[i], key, desc)
  BY <1>2, <1>6
<1> QED
  BY <1>7, <1>8, <1>9, <1>10

\* One place more than there are rows that come before (Sort).
LEMMA PlaceCounts ==
  ASSUME NEW n \in Nat, NEW rows \in [1..n -> AnyRow],
         \A i, j \in 1..n : rows[i].id = rows[j].id => i = j,
         NEW key \in SortKey, NEW desc \in BOOLEAN, NEW k \in 1..n
  PROVE  Place(rows, k, key, desc) = 1 + Cardinality(Earlier(rows, rows[k], key, desc))
<1>1. /\ \A i \in 1..n :
           Place(rows, i, key, desc) = 1 + Cardinality(Earlier(rows, rows[i], key, desc))
      /\ [i \in 1..n |-> Place(rows, i, key, desc)] \in Bijection(1..n, 1..n)
      /\ \A i, j \in 1..n : i # j =>
           \/ /\ Place(rows, i, key, desc) < Place(rows, j, key, desc)
              /\ Before(rows[i], rows[j], key, desc)
           \/ /\ Place(rows, j, key, desc) < Place(rows, i, key, desc)
              /\ Before(rows[j], rows[i], key, desc)
  BY PlaceFacts
<1> QED
  BY <1>1

\* A list in which no name comes twice, put in order (Sort): each row is at its
\* place.
LEMMA SortedPlaces ==
  ASSUME NEW n \in Nat, NEW rows \in [1..n -> AnyRow],
         \A i, j \in 1..n : rows[i].id = rows[j].id => i = j,
         NEW key \in SortKey, NEW desc \in BOOLEAN
  PROVE  /\ Sorted(rows, key, desc) = [p \in 1..n |-> rows[RowAt(rows, p, key, desc)]]
         /\ \A i \in 1..n : /\ Place(rows, i, key, desc) \in 1..n
                            /\ RowAt(rows, Place(rows, i, key, desc), key, desc) = i
         /\ \A p \in 1..n : /\ RowAt(rows, p, key, desc) \in 1..n
                            /\ Place(rows, RowAt(rows, p, key, desc), key, desc) = p
<1> DEFINE place == [i \in 1..n |-> Place(rows, i, key, desc)]
<1>1. place \in Bijection(1..n, 1..n)
  BY PlaceFacts
<1>2. \A i \in 1..n : place[i] = Place(rows, i, key, desc)
  OBVIOUS
<1> HIDE DEF place
<1>3. \A p \in 1..n : \E i \in 1..n : place[i] = p
  BY <1>1 DEF Bijection, Surjection
<1>4. \A i, j \in 1..n : place[i] \in 1..n /\ (place[i] = place[j] => i = j)
  BY <1>1 DEF Bijection, Injection, IsInjective
<1>5. DOMAIN rows = 1..n
  OBVIOUS
<1>6. ASSUME NEW p \in 1..n
      PROVE  /\ RowAt(rows, p, key, desc) \in 1..n
             /\ Place(rows, RowAt(rows, p, key, desc), key, desc) = p
  <2>1. \E i \in DOMAIN rows : Place(rows, i, key, desc) = p
    <3>1. PICK i \in 1..n : place[i] = p
      BY <1>3
    <3>2. i \in DOMAIN rows /\ Place(rows, i, key, desc) = p
      BY <1>2, <1>5, <3>1
    <3> QED
      BY <3>2
  <2> DEFINE at == RowAt(rows, p, key, desc)
  <2>2. at = CHOOSE i \in DOMAIN rows : Place(rows, i, key, desc) = p
    BY DEF RowAt
  <2> HIDE DEF at
  <2>3. at \in DOMAIN rows /\ Place(rows, at, key, desc) = p
    BY <2>1, <2>2
  <2> QED
    BY <1>5, <2>3 DEF at
<1>7. ASSUME NEW i \in 1..n
      PROVE  /\ Place(rows, i, key, desc) \in 1..n
             /\ RowAt(rows, Place(rows, i, key, desc), key, desc) = i
  <2> DEFINE p == Place(rows, i, key, desc)
             at == RowAt(rows, p, key, desc)
  <2>1. p \in 1..n /\ place[i] = p
    BY <1>2, <1>4
  <2> HIDE DEF p
  <2>2. at \in 1..n /\ Place(rows, at, key, desc) = p
    BY <1>6, <2>1
  <2> HIDE DEF at
  <2>3. place[at] = p
    BY <1>2, <2>2
  <2>4. at = i
    BY <1>4, <2>1, <2>2, <2>3
  <2> QED
    BY <2>1, <2>4 DEF p, at
<1>8. Sorted(rows, key, desc) = [p \in 1..n |-> rows[RowAt(rows, p, key, desc)]]
  BY <1>5 DEF Sorted
<1> QED
  BY <1>6, <1>7, <1>8

\* Every row is there and only they are, each once, and an earlier row comes
\* before a later one.
LEMMA SortedOrders ==
  ASSUME NEW n \in Nat, NEW rows \in [1..n -> AnyRow],
         \A i, j \in 1..n : rows[i].id = rows[j].id => i = j,
         NEW key \in SortKey, NEW desc \in BOOLEAN
  PROVE  /\ \E f \in Bijection(1..n, 1..n) :
              Sorted(rows, key, desc) = [p \in 1..n |-> rows[f[p]]]
         /\ \A p, q \in 1..n :
              p < q => Before(Sorted(rows, key, desc)[p], Sorted(rows, key, desc)[q], key, desc)
<1> DEFINE at == [p \in 1..n |-> RowAt(rows, p, key, desc)]
<1>1. /\ Sorted(rows, key, desc) = [p \in 1..n |-> rows[at[p]]]
      /\ \A p \in 1..n : at[p] \in 1..n /\ Place(rows, at[p], key, desc) = p
      /\ \A i \in 1..n : \E p \in 1..n : at[p] = i
  <2>1. \A p \in 1..n : at[p] = RowAt(rows, p, key, desc)
    OBVIOUS
  <2>2. Sorted(rows, key, desc) = [p \in 1..n |-> rows[RowAt(rows, p, key, desc)]]
    BY SortedPlaces
  <2>3. \A i \in 1..n : Place(rows, i, key, desc) \in 1..n
                        /\ RowAt(rows, Place(rows, i, key, desc), key, desc) = i
    BY SortedPlaces
  <2>4. \A p \in 1..n : RowAt(rows, p, key, desc) \in 1..n
                        /\ Place(rows, RowAt(rows, p, key, desc), key, desc) = p
    BY SortedPlaces
  <2> HIDE DEF at
  <2>5. [p \in 1..n |-> rows[RowAt(rows, p, key, desc)]] = [p \in 1..n |-> rows[at[p]]]
    BY <2>1
  <2>6. \A p \in 1..n : at[p] \in 1..n /\ Place(rows, at[p], key, desc) = p
    BY <2>1, <2>4
  <2>7. \A i \in 1..n : \E p \in 1..n : at[p] = i
    BY <2>1, <2>3
  <2> QED
    BY <2>2, <2>5, <2>6, <2>7
<1>2. at \in [1..n -> 1..n]
  BY <1>1
<1> HIDE DEF at
<1>3. at \in Bijection(1..n, 1..n)
  <2>1. \A p, q \in 1..n : at[p] = at[q] => p = q
    BY <1>1
  <2> QED
    BY <1>1, <1>2, <2>1 DEF Bijection, Injection, IsInjective, Surjection
<1>4. ASSUME NEW p \in 1..n, NEW q \in 1..n, p < q
      PROVE  Before(Sorted(rows, key, desc)[p], Sorted(rows, key, desc)[q], key, desc)
  <2>1. /\ at[p] \in 1..n /\ at[q] \in 1..n
        /\ Place(rows, at[p], key, desc) = p /\ Place(rows, at[q], key, desc) = q
    BY <1>1
  <2>2. at[p] # at[q]
    BY <2>1, <1>4
  <2>3. /\ \A i \in 1..n :
             Place(rows, i, key, desc) = 1 + Cardinality(Earlier(rows, rows[i], key, desc))
        /\ [i \in 1..n |-> Place(rows, i, key, desc)] \in Bijection(1..n, 1..n)
        /\ \A i, j \in 1..n : i # j =>
             \/ /\ Place(rows, i, key, desc) < Place(rows, j, key, desc)
                /\ Before(rows[i], rows[j], key, desc)
             \/ /\ Place(rows, j, key, desc) < Place(rows, i, key, desc)
                /\ Before(rows[j], rows[i], key, desc)
    BY PlaceFacts
  <2>4. \/ p < q /\ Before(rows[at[p]], rows[at[q]], key, desc)
        \/ q < p /\ Before(rows[at[q]], rows[at[p]], key, desc)
    BY <2>1, <2>2, <2>3
  <2>5. Before(rows[at[p]], rows[at[q]], key, desc)
    BY <2>4, <1>4
  <2> QED
    BY <2>5, <1>1
<1> QED
  BY <1>1, <1>3, <1>4

\* The result is deterministic, as the comment of Sort promises: in whatever order
\* the items are handed to it, they end up in the same one.
THEOREM SortedForgets ==
  ASSUME NEW n \in Nat, NEW rows \in [1..n -> AnyRow],
         \A i, j \in 1..n : rows[i].id = rows[j].id => i = j,
         NEW key \in SortKey, NEW desc \in BOOLEAN,
         NEW g \in Bijection(1..n, 1..n)
  PROVE  Sorted([i \in 1..n |-> rows[g[i]]], key, desc) = Sorted(rows, key, desc)
<1> DEFINE other == [i \in 1..n |-> rows[g[i]]]
<1>1. /\ \A i \in 1..n : g[i] \in 1..n
      /\ \A i, j \in 1..n : g[i] = g[j] => i = j
      /\ \A k \in 1..n : \E i \in 1..n : g[i] = k
  <2>1. g \in Injection(1..n, 1..n) /\ g \in Surjection(1..n, 1..n)
    BY DEF Bijection
  <2>2. g \in [1..n -> 1..n] /\ \A i, j \in 1..n : g[i] = g[j] => i = j
    BY <2>1 DEF Injection, IsInjective
  <2>3. \A k \in 1..n : \E i \in 1..n : g[i] = k
    BY <2>1 DEF Surjection
  <2>4. \A i \in 1..n : g[i] \in 1..n
    BY <2>2
  <2> QED
    BY <2>2, <2>3, <2>4
<1>2. other \in [1..n -> AnyRow] /\ \A i \in 1..n : other[i] = rows[g[i]]
  BY <1>1
<1> HIDE DEF other
<1>3. \A i, j \in 1..n : other[i].id = other[j].id => i = j
  <2> SUFFICES ASSUME NEW i \in 1..n, NEW j \in 1..n, other[i].id = other[j].id
               PROVE  i = j
    OBVIOUS
  <2>1. g[i] \in 1..n /\ g[j] \in 1..n /\ rows[g[i]].id = rows[g[j]].id
    BY <1>1, <1>2
  <2>2. g[i] = g[j]
    BY <2>1
  <2> QED
    BY <1>1, <2>2
<1>4. ASSUME NEW i \in 1..n
      PROVE  Place(other, i, key, desc) = Place(rows, g[i], key, desc)
  <2> DEFINE A == Earlier(other, other[i], key, desc)
             B == Earlier(rows, rows[g[i]], key, desc)
             h == [j \in A |-> g[j]]
  <2>1. IsFiniteSet(A)
    <3>1. IsFiniteSet(1..n)
      BY FS_Interval, 1 \in Int, n \in Int
    <3>2. A \in SUBSET (1..n)
      BY <1>2 DEF Earlier
    <3> QED
      BY <3>1, <3>2, FS_Subset
  <2>2. \A j \in A : j \in 1..n /\ g[j] \in B
    <3> TAKE j \in A
    <3>1. j \in 1..n /\ Before(other[j], other[i], key, desc)
      BY <1>2 DEF Earlier
    <3>2. g[j] \in 1..n /\ other[j] = rows[g[j]] /\ other[i] = rows[g[i]]
      BY <1>1, <1>2, <3>1
    <3>3. g[j] \in DOMAIN rows /\ Before(rows[g[j]], rows[g[i]], key, desc)
      BY <3>1, <3>2
    <3> QED
      BY <3>1, <3>3 DEF Earlier
  <2>3. \A k \in B : \E j \in A : g[j] = k
    <3> TAKE k \in B
    <3>1. k \in 1..n /\ Before(rows[k], rows[g[i]], key, desc)
      BY DEF Earlier
    <3>2. PICK j \in 1..n : g[j] = k
      BY <1>1, <3>1
    <3>3. other[j] = rows[k] /\ other[i] = rows[g[i]] /\ j \in DOMAIN other
      BY <1>2, <3>2
    <3>4. j \in A
      BY <3>1, <3>3 DEF Earlier
    <3> QED
      BY <3>2, <3>4
  <2>4. h \in Bijection(A, B)
    <3> HIDE DEF A, B
    <3>1. h \in [A -> B] /\ \A j \in A : h[j] = g[j]
      BY <2>2
    <3> HIDE DEF h
    <3> QED
      BY <1>1, <2>2, <2>3, <3>1 DEF Bijection, Injection, IsInjective, Surjection
  <2>5. Cardinality(A) = Cardinality(B)
    <3> HIDE DEF A, B, h
    <3>1. ExistsBijection(A, B)
      BY <2>4 DEF ExistsBijection
    <3> QED
      BY <2>1, <3>1, FS_Bijection
  <2>6. Place(other, i, key, desc) = 1 + Cardinality(A)
    <3>1. other \in [1..n -> AnyRow]
      BY <1>2
    <3> QED
      BY <3>1, <1>3, PlaceCounts
  <2>7. Place(rows, g[i], key, desc) = 1 + Cardinality(B)
    <3>1. \A k \in 1..n :
            Place(rows, k, key, desc) = 1 + Cardinality(Earlier(rows, rows[k], key, desc))
      BY PlaceCounts
    <3> QED
      BY <1>1, <3>1
  <2> HIDE DEF A, B
  <2> QED
    BY <2>5, <2>6, <2>7
<1>5. /\ Sorted(rows, key, desc) = [p \in 1..n |-> rows[RowAt(rows, p, key, desc)]]
      /\ \A i \in 1..n : RowAt(rows, Place(rows, i, key, desc), key, desc) = i
  BY SortedPlaces
<1>6. /\ Sorted(other, key, desc) = [p \in 1..n |-> other[RowAt(other, p, key, desc)]]
      /\ \A p \in 1..n : /\ RowAt(other, p, key, desc) \in 1..n
                         /\ Place(other, RowAt(other, p, key, desc), key, desc) = p
  <2>1. \A r \in [1..n -> AnyRow] :
          (\A i, j \in 1..n : r[i].id = r[j].id => i = j) =>
            /\ Sorted(r, key, desc) = [p \in 1..n |-> r[RowAt(r, p, key, desc)]]
            /\ \A p \in 1..n : /\ RowAt(r, p, key, desc) \in 1..n
                               /\ Place(r, RowAt(r, p, key, desc), key, desc) = p
    BY SortedPlaces
  <2> QED
    BY <2>1, <1>2, <1>3, Zenon
<1>7. ASSUME NEW p \in 1..n
      PROVE  rows[RowAt(rows, p, key, desc)] = other[RowAt(other, p, key, desc)]
  <2> DEFINE i == RowAt(other, p, key, desc)
  <2>1. i \in 1..n /\ Place(other, i, key, desc) = p
    BY <1>6
  <2> HIDE DEF i
  <2>2. Place(rows, g[i], key, desc) = p /\ g[i] \in 1..n
    BY <1>1, <1>4, <2>1
  <2>3. RowAt(rows, p, key, desc) = g[i]
    BY <1>5, <2>2
  <2> QED
    BY <1>2, <2>1, <2>3 DEF i
<1>8. Sorted(rows, key, desc) = Sorted(other, key, desc)
  BY <1>5, <1>6, <1>7
<1> QED
  BY <1>8 DEF other

-----------------------------------------------------------------------------
(***************************************************************************)
(* Score                                                                   *)
(***************************************************************************)

Unit == 0..One

\* Numbers, one for each axis.
Judgement == [Axis -> Int]

\* What is known of an item: everything is counted from 0, and models may say
\* anything.
IsSignals(s) ==
    /\ s.reasons \in Seq(DOMAIN ReasonWeight)
    /\ s.labels \subseteq DOMAIN LabelImpact
    /\ s.comments \in Nat /\ s.reactions \in Nat /\ s.deadline \in Nat
    /\ s.participants \in Nat /\ s.inboundRefs \in Nat /\ s.awaitingMe \in Nat
    /\ s.proposed = NoProposal \/ s.proposed \in Judgement
    /\ s.research = NoResearch \/ s.research \in Judgement

\* The unit interval is made of numbers.
LEMMA UnitIs == \A x \in Unit : x \in Int /\ 0 <= x /\ x <= One
  BY DEF Unit, One

\* clampUnit keeps a number in the unit interval and keeps numbers in order.
LEMMA ClampUnitFacts ==
  /\ \A x \in Int : ClampUnit(x) \in Unit
  /\ \A x, y \in Int : x <= y => ClampUnit(x) <= ClampUnit(y)
  /\ \A x \in Int : ClampMult(x) \in 0..200
  BY DEF ClampUnit, ClampMult, Between, Unit, One

\* Scores up to the greatest there is have a maximum.
LEMMA MaxUpToOne ==
  ASSUME NEW S \in SUBSET Int, S # {}, \E low \in Int : \A x \in S : low <= x,
         \A x \in S : x <= One
  PROVE  /\ Max(S) \in S /\ Max(S) \in Int /\ Max(S) <= One
         /\ \A x \in S : Max(S) >= x
<1>1. PICK low \in Int : \A x \in S : low <= x
  OBVIOUS
<1>2. One \in Int
  BY DEF One
<1>3. S \in SUBSET (low .. One)
  BY <1>1, <1>2
<1>4. Max(S) \in S /\ \A x \in S : Max(S) >= x
  BY <1>2, <1>3, MaxBetween
<1> QED
  BY <1>4

LEMMA RelevanceInUnit ==
  ASSUME NEW s, IsSignals(s)
  PROVE  RelevanceScore(s) \in Unit
<1> DEFINE W == {ReasonWeight[s.reasons[i]] : i \in DOMAIN s.reasons}
<1>1. s.reasons \in Seq(DOMAIN ReasonWeight)
  BY DEF IsSignals
<1>2. CASE s.reasons = <<>>
  BY <1>2 DEF RelevanceScore, Unit, One
<1>3. CASE s.reasons # <<>>
  <2>1. \A r \in DOMAIN ReasonWeight : ReasonWeight[r] \in Unit
    BY DEF ReasonWeight, Unit, One
  <2>2. \A i \in DOMAIN s.reasons : s.reasons[i] \in DOMAIN ReasonWeight
    BY <1>1
  <2>3. Len(s.reasons) \in Nat /\ 1 \in DOMAIN s.reasons
    BY <1>1, <1>3
  <2>4. W \in SUBSET Int /\ \A x \in W : 0 <= x /\ x <= One
    <3>1. \A x \in W : x \in Unit
      BY <2>1, <2>2, Zenon
    <3> HIDE DEF W
    <3> QED
      BY <3>1, UnitIs
  <2>5. Max(W) \in Int
    <3>1. ReasonWeight[s.reasons[1]] \in W
      BY <2>3
    <3> HIDE DEF W
    <3>2. \E low \in Int : \A x \in W : low <= x
      BY <2>4
    <3> QED
      BY <2>4, <3>1, <3>2, MaxUpToOne
  <2> HIDE DEF W
  <2>6. Max(W) + 50 * (Len(s.reasons) - 1) \in Int
    BY <2>3, <2>5
  <2>7. RelevanceScore(s) = ClampUnit(Max(W) + 50 * (Len(s.reasons) - 1))
    BY <1>3 DEF RelevanceScore, W
  <2> QED
    BY <2>6, <2>7, ClampUnitFacts
<1> QED
  BY <1>2, <1>3

\* A deadline presses more the nearer it is.
LEMMA DeadlineFacts ==
  ASSUME NEW due \in Nat, NEW now \in Nat
  PROVE  /\ DeadlineUrgency(due, now) \in Unit
         /\ \A later \in Nat : now <= later =>
              DeadlineUrgency(due, now) <= DeadlineUrgency(due, later)
<1>1. ASSUME NEW at \in Nat
      PROVE  DeadlineUrgency(due, at) \in Unit
  <2>1. \A d \in 1..29 : 1000 - (1000 * d) \div 30 \in 0..1000
    OBVIOUS
  <2>2. CASE due - at \in 1..29
    BY <2>1, <2>2 DEF DeadlineUrgency, Unit, One
  <2>3. CASE due - at \notin 1..29
    BY <2>3 DEF DeadlineUrgency, Unit, One
  <2> QED
    BY <2>2, <2>3
<1>2. ASSUME NEW later \in Nat, now <= later
      PROVE  DeadlineUrgency(due, now) <= DeadlineUrgency(due, later)
  <2> DEFINE d == due - now
             e == due - later
  <2>1. d \in Int /\ e \in Int /\ e <= d
    BY <1>2
  <2>2. CASE d \in 1..29 /\ e \in 1..29
    <3>1. (1000 * e) \div 30 <= (1000 * d) \div 30
      BY <2>1, <2>2
    <3> QED
      BY <2>2, <3>1 DEF DeadlineUrgency, One
  <2>3. CASE d >= 30
    <3>1. DeadlineUrgency(due, now) = 0 /\ DeadlineUrgency(due, later) \in Unit
      BY <1>1, <2>3 DEF DeadlineUrgency
    <3> QED
      BY <3>1 DEF Unit
  <2>4. CASE e <= 0
    <3>1. DeadlineUrgency(due, later) = One /\ DeadlineUrgency(due, now) \in Unit
      BY <1>1, <2>4 DEF DeadlineUrgency
    <3> QED
      BY <3>1 DEF Unit, One
  <2> QED
    BY <2>1, <2>2, <2>3, <2>4
<1> QED
  BY <1>1, <1>2

\* What presses: named, so that two days can be compared.
Asked(s, now) == IF s.awaitingMe = 0 THEN {} ELSE {AskUrgency(s.awaitingMe, now)}

Due(s, now) == IF s.deadline = 0 THEN {} ELSE {DeadlineUrgency(s.deadline, now)}

Presses(s, now) ==
    {0} \union Asked(s, now) \union (IF ReviewRequested(s) THEN {600} ELSE {})
        \union Due(s, now)

LEMMA PressesFacts ==
  ASSUME NEW s, IsSignals(s), NEW now \in Nat
  PROVE  /\ UrgencyScore(s, now) = Max(Presses(s, now))
         /\ UrgencyScore(s, now) \in Unit
         /\ UrgencyScore(s, now) \in Presses(s, now)
         /\ \A u \in Presses(s, now) : u \in Int /\ u <= UrgencyScore(s, now)
<1> DEFINE a == AskUrgency(s.awaitingMe, now)
           low == IF a < 0 THEN a ELSE 0
<1>1. s.awaitingMe \in Nat /\ s.deadline \in Nat
  BY DEF IsSignals
<1>2. a \in Int /\ a <= 1000 /\ low \in Int /\ low <= a /\ low <= 0
  BY <1>1 DEF AskUrgency, One
<1>3. DeadlineUrgency(s.deadline, now) \in 0..1000
  <2>1. DeadlineUrgency(s.deadline, now) \in Unit
    BY <1>1, DeadlineFacts, Zenon
  <2> DEFINE u == DeadlineUrgency(s.deadline, now)
  <2> HIDE DEF u
  <2>2. u \in 0..1000
    BY <2>1 DEF Unit, One, u
  <2> QED
    BY <2>2 DEF u
<1> HIDE DEF a, low
<1>4. Presses(s, now) \in SUBSET (low .. 1000) /\ 0 \in Presses(s, now)
  <2>1. Asked(s, now) \subseteq low .. 1000
    BY <1>2 DEF Asked, a
  <2>2. Due(s, now) \subseteq low .. 1000
    <3> DEFINE v == DeadlineUrgency(s.deadline, now)
    <3>1. v \in 0..1000
      BY <1>3
    <3>2. Due(s, now) \subseteq {v}
      BY DEF Due
    <3> HIDE DEF v
    <3>3. v \in low .. 1000
      BY <1>2, <3>1
    <3> QED
      BY <3>2, <3>3
  <2>3. 0 \in low .. 1000 /\ 600 \in low .. 1000
    BY <1>2
  <2> QED
    BY <2>1, <2>2, <2>3 DEF Presses
<1>5. UrgencyScore(s, now) = Max(Presses(s, now))
  BY DEF UrgencyScore, Presses, Asked, Due
<1>6. /\ Max(Presses(s, now)) \in Presses(s, now)
      /\ \A u \in Presses(s, now) : Max(Presses(s, now)) >= u
  <2>1. /\ Presses(s, now) \in SUBSET Int /\ Presses(s, now) # {}
        /\ \A u \in Presses(s, now) : low <= u /\ u <= One
    BY <1>2, <1>4 DEF One
  <2> QED
    BY <1>2, <2>1, MaxUpToOne
<1>7. \A u \in Presses(s, now) : u \in Int /\ u <= 1000
  BY <1>2, <1>4
<1>8. Max(Presses(s, now)) \in Int /\ Max(Presses(s, now)) <= 1000
  BY <1>6, <1>7
<1>9. Max(Presses(s, now)) >= 0
  BY <1>4, <1>6
<1>10. Max(Presses(s, now)) \in Unit
  BY <1>8, <1>9 DEF Unit, One
<1> QED
  BY <1>5, <1>6, <1>7, <1>8, <1>10

\* Urgency does not sink as days pass (urgencyScore).
LEMMA UrgencyGrows ==
  ASSUME NEW s, IsSignals(s), NEW now \in Nat, NEW later \in Nat, now <= later
  PROVE  UrgencyScore(s, now) <= UrgencyScore(s, later)
<1> DEFINE u == UrgencyScore(s, now)
           v == UrgencyScore(s, later)
<1> SUFFICES u <= v
  OBVIOUS
<1>1. u \in Presses(s, now) /\ u \in Int /\ v \in Int
  BY PressesFacts
<1>2. \A w \in Presses(s, later) : w \in Int /\ w <= v
  BY PressesFacts
<1>3. s.awaitingMe \in Nat /\ s.deadline \in Nat
  BY DEF IsSignals
<1> HIDE DEF u, v
<1>4. CASE u \in Asked(s, now)
  <2>1. s.awaitingMe # 0 /\ u = AskUrgency(s.awaitingMe, now)
    BY <1>4 DEF Asked
  <2>2. AskUrgency(s.awaitingMe, later) \in Presses(s, later)
    BY <2>1 DEF Presses, Asked
  <2>3. AskUrgency(s.awaitingMe, now) <= AskUrgency(s.awaitingMe, later)
    BY <1>3 DEF AskUrgency, One
  <2>4. AskUrgency(s.awaitingMe, later) \in Int /\ AskUrgency(s.awaitingMe, later) <= v
    BY <1>2, <2>2
  <2>5. u <= AskUrgency(s.awaitingMe, later)
    BY <2>1, <2>3
  <2> QED
    BY <1>1, <2>4, <2>5
<1>5. CASE u \in Due(s, now)
  <2>1. s.deadline # 0 /\ u = DeadlineUrgency(s.deadline, now)
    BY <1>5 DEF Due
  <2>2. DeadlineUrgency(s.deadline, later) \in Presses(s, later)
    BY <2>1 DEF Presses, Due
  <2>3. DeadlineUrgency(s.deadline, now) <= DeadlineUrgency(s.deadline, later)
    BY <1>3, DeadlineFacts
  <2>4. DeadlineUrgency(s.deadline, later) \in Int /\ DeadlineUrgency(s.deadline, later) <= v
    BY <1>2, <2>2
  <2>5. u <= DeadlineUrgency(s.deadline, later)
    BY <2>1, <2>3
  <2> QED
    BY <1>1, <2>4, <2>5
<1>6. CASE u \notin Asked(s, now) /\ u \notin Due(s, now)
  <2>1. u \in Presses(s, later)
    BY <1>1, <1>6 DEF Presses
  <2> QED
    BY <1>2, <2>1
<1> QED
  BY <1>4, <1>5, <1>6

\* Nothing below zero, and less than the whole.
LEMMA SaturateInUnit ==
  ASSUME NEW x \in Nat
  PROVE  /\ Saturate(x, 5) \in Unit /\ Saturate(x, 8) \in Unit
         /\ Saturate(x, 10) \in Unit /\ Saturate(x, 20) \in Unit
<1>2. ASSUME NEW k \in Nat \ {0}
      PROVE  Saturate(x, k) \in Unit
  <2>1. CASE x = 0
    <3>1. Saturate(x, k) = 0
      BY <2>1 DEF Saturate
    <3>2. 0 \in Unit
      BY DEF Unit, One
    <3> QED
      BY <3>1, <3>2, Zenon
  <2>2. CASE x # 0
    <3> DEFINE d == x + k
               a == 1000 * x
               q == a \div d
    <3>1. Saturate(x, k) = q
      <4>1. ~(x <= 0)
        BY <2>2
      <4> QED
        BY <4>1 DEF Saturate, One
    <3>2. d \in Nat /\ d > 0 /\ a \in Nat /\ a <= 1000 * d
      OBVIOUS
    <3> HIDE DEF d, a
    <3>3. q \in Int /\ q >= 0 /\ d * q <= a
      BY <3>2
    <3> HIDE DEF q
    <3>4. q <= 1000
      BY <3>2, <3>3
    <3>5. q \in Unit
      BY <3>3, <3>4 DEF Unit, One
    <3> QED
      BY <3>1, <3>5, Zenon
  <2> QED
    BY <2>1, <2>2
<1>3. 5 \in Nat \ {0} /\ 8 \in Nat \ {0} /\ 10 \in Nat \ {0} /\ 20 \in Nat \ {0}
  OBVIOUS
<1> QED
  BY <1>2, <1>3, Zenon

LEMMA EngagementInUnit ==
  ASSUME NEW s, IsSignals(s)
  PROVE  EngagementScore(s) \in Unit
<1>1. /\ Saturate(s.comments, 10) \in Int
      /\ Saturate(s.participants, 8) \in Int
      /\ Saturate(s.reactions, 20) \in Int
  <2>1. s.comments \in Nat /\ s.participants \in Nat /\ s.reactions \in Nat
    BY DEF IsSignals
  <2>2. /\ Saturate(s.comments, 10) \in Unit
        /\ Saturate(s.participants, 8) \in Unit
        /\ Saturate(s.reactions, 20) \in Unit
    BY <2>1, SaturateInUnit, Zenon
  <2> QED
    BY <2>2, UnitIs, Zenon
<1> DEFINE e == (400 * Saturate(s.comments, 10) + 300 * Saturate(s.participants, 8)
                  + 150 * Saturate(s.reactions, 20)) \div One
<1>2. e \in Int
  BY <1>1 DEF One
<1>3. EngagementScore(s) = ClampUnit(e)
  BY DEF EngagementScore
<1> HIDE DEF e
<1> QED
  BY <1>2, <1>3, ClampUnitFacts

LEMMA ImpactInUnit ==
  ASSUME NEW s, IsSignals(s)
  PROVE  ImpactScore(s) \in Unit
<1> DEFINE I == {0} \union {LabelImpact[l] : l \in s.labels}
                    \union {Saturate(s.inboundRefs, 5)}
<1>1. \A x \in I : x \in Unit
  <2>1. Saturate(s.inboundRefs, 5) \in Unit
    <3>1. s.inboundRefs \in Nat
      BY DEF IsSignals
    <3> QED
      BY <3>1, SaturateInUnit, Zenon
  <2>2. \A l \in s.labels : LabelImpact[l] \in Unit
    <3>1. \A l \in DOMAIN LabelImpact : LabelImpact[l] \in Unit
      BY DEF LabelImpact, Unit, One
    <3>2. s.labels \subseteq DOMAIN LabelImpact
      BY DEF IsSignals
    <3> QED
      BY <3>1, <3>2, Zenon
  <2>3. 0 \in Unit
    BY DEF Unit, One
  <2> QED
    BY <2>1, <2>2, <2>3, Zenon
<1>2. 0 \in I
  BY Zenon
<1>3. /\ I \in SUBSET Int /\ 0 \in I
      /\ \A x \in I : 0 <= x /\ x <= One
  <2> HIDE DEF I
  <2> QED
    BY <1>1, <1>2, UnitIs
<1>4. ImpactScore(s) = Max(I)
  BY DEF ImpactScore
<1> HIDE DEF I
<1>5. \E low \in Int : \A x \in I : low <= x
  BY <1>3
<1>6. Max(I) \in Int /\ Max(I) <= One /\ Max(I) >= 0
  BY <1>3, <1>5, MaxUpToOne
<1> QED
  BY <1>4, <1>6 DEF Unit, One

\* The baseline is a judgement, within the unit interval.
LEMMA BaselineFacts ==
  ASSUME NEW s, IsSignals(s), NEW now \in Nat
  PROVE  /\ BaselineAxes(s, now) \in [Axis -> Unit]
         /\ BaselineAxes(s, now) \in Judgement
<1>1. /\ RelevanceScore(s) \in Unit /\ UrgencyScore(s, now) \in Unit
      /\ EngagementScore(s) \in Unit /\ ImpactScore(s) \in Unit
  BY RelevanceInUnit, PressesFacts, EngagementInUnit, ImpactInUnit
<1>2. BaselineAxes(s, now) \in [Axis -> Unit]
  BY <1>1 DEF BaselineAxes, Axis
<1>3. \A x \in Unit : x \in Int
  BY DEF Unit, One
<1> QED
  BY <1>2, <1>3 DEF Judgement

LEMMA FoundationFacts ==
  ASSUME NEW s, IsSignals(s), NEW now \in Nat
  PROVE  /\ Foundation(s, now) \in [Axis -> Unit]
         /\ \A later \in Nat, a \in Axis :
              now <= later => Foundation(s, now)[a] <= Foundation(s, later)[a]
<1>1. CASE s.proposed = NoProposal
  <2>1. \A t \in Nat : Foundation(s, t) = BaselineAxes(s, t)
    BY <1>1 DEF Foundation
  <2>2. Foundation(s, now) \in [Axis -> Unit]
    BY <2>1, BaselineFacts
  <2>3. ASSUME NEW later \in Nat, NEW a \in Axis, now <= later
        PROVE  Foundation(s, now)[a] <= Foundation(s, later)[a]
    <3>1. /\ RelevanceScore(s) \in Int /\ EngagementScore(s) \in Int
          /\ ImpactScore(s) \in Int
      BY RelevanceInUnit, EngagementInUnit, ImpactInUnit, UnitIs, Zenon
    <3>2. UrgencyScore(s, now) <= UrgencyScore(s, later)
      BY <2>3, UrgencyGrows
    <3>3. BaselineAxes(s, now)[a] <= BaselineAxes(s, later)[a]
      BY <3>1, <3>2 DEF BaselineAxes, Axis
    <3> QED
      BY <2>1, <3>3
  <2> QED
    BY <2>2, <2>3
<1>2. CASE s.proposed # NoProposal
  <2>1. s.proposed \in Judgement
    BY <1>2 DEF IsSignals
  <2>2. \A a \in Axis : ClampUnit(s.proposed[a]) \in Unit
    BY <2>1, ClampUnitFacts DEF Judgement
  <2>3. \A t \in Nat : Foundation(s, t) = [a \in Axis |-> ClampUnit(s.proposed[a])]
    BY <1>2 DEF Foundation
  <2>4. \A x \in Unit : x <= x
    BY DEF Unit, One
  <2> QED
    BY <2>2, <2>3, <2>4
<1> QED
  BY <1>1, <1>2

\* A multiplier within its bounds keeps scores in order.
LEMMA ReweighedFacts ==
  ASSUME NEW m \in Int
  PROVE  /\ \A x \in Unit : Reweighed(x, m) \in Unit
         /\ \A x, y \in Unit : x <= y => Reweighed(x, m) <= Reweighed(y, m)
<1> DEFINE c == ClampMult(m)
<1>1. c \in 0..200
  BY ClampUnitFacts
<1> HIDE DEF c
<1>2. \A x \in Unit : (x * c) \div 100 \in Int
  BY <1>1 DEF Unit, One
<1>3. ASSUME NEW x \in Unit, NEW y \in Unit, x <= y
      PROVE  (x * c) \div 100 <= (y * c) \div 100
  <2>1. x \in Int /\ y \in Int /\ c \in Int /\ c >= 0
    BY <1>1 DEF Unit, One
  <2> DEFINE a == x * c
             b == y * c
  <2>2. a <= b /\ a \in Int /\ b \in Int
    BY <1>3, <2>1
  <2> HIDE DEF a, b
  <2>3. a \div 100 <= b \div 100
    BY <2>2
  <2> QED
    BY <2>3 DEF a, b
<1>4. \A x \in Unit : Reweighed(x, m) = ClampUnit((x * c) \div 100)
  BY DEF Reweighed, c
<1>5. \A x \in Unit : Reweighed(x, m) \in Unit
  BY <1>2, <1>4, ClampUnitFacts
<1>6. ASSUME NEW x \in Unit, NEW y \in Unit, x <= y
      PROVE  Reweighed(x, m) <= Reweighed(y, m)
  <2> DEFINE a == (x * c) \div 100
             b == (y * c) \div 100
  <2>1. a \in Int /\ b \in Int /\ a <= b
    BY <1>2, <1>3, <1>6
  <2>2. Reweighed(x, m) = ClampUnit(a) /\ Reweighed(y, m) = ClampUnit(b)
    BY <1>4
  <2> HIDE DEF a, b
  <2> QED
    BY <2>1, <2>2, ClampUnitFacts
<1> QED
  BY <1>5, <1>6

\* The judgement of an item is within the unit interval, and none of its axes
\* sinks as days pass.
LEMMA AxesFacts ==
  ASSUME NEW s, IsSignals(s), NEW now \in Nat
  PROVE  /\ Axes(s, now) \in [Axis -> Unit]
         /\ \A later \in Nat, a \in Axis :
              now <= later => Axes(s, now)[a] <= Axes(s, later)[a]
<1>1. CASE s.research = NoResearch
  <2>1. \A t \in Nat : Axes(s, t) = Foundation(s, t)
    BY <1>1 DEF Axes
  <2> QED
    BY <2>1, FoundationFacts
<1>2. CASE s.research # NoResearch
  <2>1. \A a \in Axis : s.research[a] \in Int
    BY <1>2 DEF IsSignals, Judgement
  <2>2. \A t \in Nat : Axes(s, t)
                         = [a \in Axis |-> Reweighed(Foundation(s, t)[a], s.research[a])]
    BY <1>2 DEF Axes
  <2>3. \A t \in Nat, a \in Axis : Foundation(s, t)[a] \in Unit
    BY FoundationFacts
  <2>4. Axes(s, now) \in [Axis -> Unit]
    BY <2>1, <2>2, <2>3, ReweighedFacts
  <2>5. ASSUME NEW later \in Nat, NEW a \in Axis, now <= later
        PROVE  Axes(s, now)[a] <= Axes(s, later)[a]
    <3>1. Foundation(s, now)[a] <= Foundation(s, later)[a]
      BY <2>5, FoundationFacts
    <3> QED
      BY <2>1, <2>2, <2>3, <3>1, ReweighedFacts
  <2> QED
    BY <2>4, <2>5
<1> QED
  BY <1>1, <1>2

\* A rank is within the unit interval, and the better the axes the better it
\* is: the weights of the axes add up to the whole.
LEMMA RankFacts ==
  ASSUME NEW f \in [Axis -> Unit], NEW g \in [Axis -> Unit],
         \A a \in Axis : f[a] <= g[a]
  PROVE  Rank(f) \in Unit /\ Rank(g) \in Unit /\ Rank(f) <= Rank(g)
<1> DEFINE a == f.relevance
           b == f.urgency
           c == f.impact
           d == f.engagement
           p == g.relevance
           q == g.urgency
           r == g.impact
           t == g.engagement
           x == 350 * a + 300 * b + 200 * c + 150 * d
           y == 350 * p + 300 * q + 200 * r + 150 * t
<1>1. a \in Unit /\ b \in Unit /\ c \in Unit /\ d \in Unit
  BY DEF Axis
<1>2. p \in Unit /\ q \in Unit /\ r \in Unit /\ t \in Unit
  BY DEF Axis
<1>3. a <= p /\ b <= q /\ c <= r /\ d <= t
  BY DEF Axis
<1> DEFINE m == x \div 1000
           n == y \div 1000
<1>4. Rank(f) = m /\ Rank(g) = n
  BY DEF Rank, One
<1> HIDE DEF a, b, c, d, p, q, r, t
<1>5. /\ a \in Int /\ b \in Int /\ c \in Int /\ d \in Int
      /\ 0 <= a /\ 0 <= b /\ 0 <= c /\ 0 <= d
  BY <1>1, UnitIs, Zenon
<1>6. /\ p \in Int /\ q \in Int /\ r \in Int /\ t \in Int
      /\ p <= One /\ q <= One /\ r <= One /\ t <= One
  BY <1>2, UnitIs, Zenon
<1>7. x \in Int /\ y \in Int
  BY <1>5, <1>6
<1>8. 0 <= x
  BY <1>5
<1>9. x <= y
  BY <1>3, <1>5, <1>6
<1>10. y <= 1000 * 1000
  BY <1>6 DEF One
<1> HIDE DEF x, y
<1>11. m \in Int /\ 1000 * m <= x /\ x < 1000 * m + 1000
  BY <1>7
<1>12. n \in Int /\ 1000 * n <= y /\ y < 1000 * n + 1000
  BY <1>7
<1> HIDE DEF m, n
<1>13. 0 <= m
  BY <1>7, <1>8, <1>11
<1>14. n <= 1000
  BY <1>7, <1>10, <1>12
<1>15. m <= n
  BY <1>7, <1>9, <1>11, <1>12
<1>16. m \in Unit /\ n \in Unit
  BY <1>11, <1>12, <1>13, <1>14, <1>15 DEF Unit, One
<1> QED
  BY <1>4, <1>15, <1>16, Zenon
=============================================================================

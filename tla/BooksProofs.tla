------------------------------ MODULE BooksProofs ------------------------------
(***************************************************************************)
(* What the operations on the array of books preserve, for arrays of every *)
(* length: they are the lemmas the invariants of the modules above Books   *)
(* rest on.                                                                *)
(***************************************************************************)
EXTENDS Books, FiniteSetTheorems, SequenceTheorems, TLAPS

LEMMA LeastNumber ==
  ASSUME NEW U \in SUBSET Nat, U # {}
  PROVE  \E n \in U : \A m \in U : n <= m
<1> DEFINE R == {ss \in Nat \X Nat : ss[1] < ss[2]}
<1>1. OpToRel(<, Nat) = R
  BY Zenon DEF OpToRel
<1>2. \A m, n \in Nat : m < n => <<m, n>> \in R
  OBVIOUS
<1> HIDE DEF R
<1>3. PICK n \in U : \A m \in U : ~ (<<m, n>> \in R)
  BY <1>1, NatLessThanWellFounded, WFMin
<1>4. \A m \in U : ~ (m < n)
  BY <1>2, <1>3
<1> QED
  BY <1>4

\* The loop of next_id_locked ends: n books cannot use all of 1 .. n + 1.
LEMMA SomeIdIsFree ==
  ASSUME NEW s \in Seq(Book)
  PROVE  \E n \in 1 .. Len(s) + 1 : n \notin Ids(s)
<1> SUFFICES ASSUME \A n \in 1 .. Len(s) + 1 : n \in Ids(s) PROVE FALSE
  OBVIOUS
<1> DEFINE N == Len(s)
           holder == [n \in 1 .. N + 1 |-> CHOOSE i \in 1 .. N : s[i].id = n]
<1>1. N \in Nat /\ DOMAIN s = 1 .. N
  BY LenProperties
<1>2. \A n \in 1 .. N + 1 : holder[n] \in 1 .. N /\ s[holder[n]].id = n
  BY <1>1 DEF Ids
<1>3. holder \in [1 .. N + 1 -> 1 .. N]
  BY <1>2
<1>4. /\ IsFiniteSet(1 .. N + 1) /\ IsFiniteSet(1 .. N)
      /\ Cardinality(1 .. N) < Cardinality(1 .. N + 1)
  BY <1>1, FS_Interval
<1> HIDE DEF holder
<1>5. PICK m, n \in 1 .. N + 1 : m # n /\ holder[m] = holder[n]
  BY <1>3, <1>4, FS_PigeonHole
<1> QED
  BY <1>2, <1>5

LEMMA NextIdFree ==
  ASSUME NEW s \in Seq(Book)
  PROVE  NextId(s) \in Nat \ {0} /\ NextId(s) \notin Ids(s)
<1> DEFINE free == {n \in 1 .. Len(s) + 1 : n \notin Ids(s)}
<1>1. Len(s) \in Nat
  BY LenProperties
<1>2. free # {} /\ free \in SUBSET Nat
  BY <1>1, SomeIdIsFree
<1>3. PICK n \in free : \A m \in free : n <= m
  BY <1>2, LeastNumber
<1>4. \A m \in 1 .. n - 1 : m \in Ids(s)
  BY <1>1, <1>3
<1>5. /\ NextId(s) \in 1 .. Len(s) + 1
      /\ NextId(s) \notin Ids(s)
  BY <1>3, <1>4 DEF NextId
<1> QED
  BY <1>1, <1>5

\* Append: of an import, and of an add.
LEMMA AppendKeepsUniqueIds ==
  ASSUME NEW s \in Seq(Book), UniqueIds(s), NEW b \in Book, b.id \notin Ids(s)
  PROVE  /\ Append(s, b) \in Seq(Book)
         /\ Len(Append(s, b)) = Len(s) + 1
         /\ \A i \in DOMAIN s : i \in DOMAIN Append(s, b) /\ Append(s, b)[i] = s[i]
         /\ UniqueIds(Append(s, b))
<1>1. /\ Append(s, b) \in Seq(Book) /\ Len(Append(s, b)) = Len(s) + 1
      /\ Len(s) \in Nat /\ DOMAIN s = 1 .. Len(s)
      /\ DOMAIN Append(s, b) = 1 .. Len(s) + 1
      /\ \A i \in 1 .. Len(s) : Append(s, b)[i] = s[i]
      /\ Append(s, b)[Len(s) + 1] = b
  BY AppendProperties, LenProperties
<1>2. UniqueIds(Append(s, b))
  BY <1>1 DEF UniqueIds, Ids
<1> QED
  BY <1>1, <1>2

LEMMA AddKeepsUniqueIds ==
  ASSUME NEW s \in Seq(Book), UniqueIds(s), NEW d \in Details
  PROVE  /\ WithAdded(s, d) \in Seq(Book)
         /\ Len(WithAdded(s, d)) = Len(s) + 1
         /\ \A i \in DOMAIN s : i \in DOMAIN WithAdded(s, d) /\ WithAdded(s, d)[i] = s[i]
         /\ UniqueIds(WithAdded(s, d))
<1> DEFINE b == [id |-> NextId(s), title |-> d.title, genre |-> d.genre, year |-> d.year,
                 shelf |-> -1, position |-> -1, status |-> 0]
<1>1. b \in Book /\ b.id \notin Ids(s)
  BY NextIdFree DEF Book, Details
<1>2. WithAdded(s, d) = Append(s, b)
  BY DEF WithAdded
<1> HIDE DEF b
<1> QED
  BY <1>1, <1>2, AppendKeepsUniqueIds

\* A stable sort returns the books it was given, each once.
LEMMA SortPermutes ==
  ASSUME NEW order, NEW s \in Seq(Book), NEW t \in SortedBy(order, s)
  PROVE  /\ t \in Seq(Book) /\ Len(t) = Len(s) /\ DOMAIN t = DOMAIN s
         /\ \A i \in DOMAIN s : \E j \in DOMAIN t : t[j] = s[i]
         /\ UniqueIds(s) => UniqueIds(t)
<1>1. Len(s) \in Nat /\ DOMAIN s = 1 .. Len(s) /\ \A i \in DOMAIN s : s[i] \in Book
  BY LenProperties, ElementOfSeq
<1>2. PICK p \in Bijection(DOMAIN s, DOMAIN s) : t = [i \in DOMAIN s |-> s[p[i]]]
  BY DEF SortedBy
<1>3. /\ p \in [DOMAIN s -> DOMAIN s]
      /\ \A i, j \in DOMAIN s : p[i] = p[j] => i = j
      /\ \A i \in DOMAIN s : \E j \in DOMAIN s : p[j] = i
  BY DEF Bijection, Injection, Surjection, IsInjective
<1>4. t \in Seq(Book) /\ Len(t) = Len(s) /\ DOMAIN t = DOMAIN s
  BY <1>1, <1>2, <1>3
<1>5. \A i \in DOMAIN s : \E j \in DOMAIN t : t[j] = s[i]
  BY <1>2, <1>3
<1>6. UniqueIds(s) => UniqueIds(t)
  BY <1>2, <1>3 DEF UniqueIds
<1> QED
  BY <1>4, <1>5, <1>6

LEMMA PlaceType ==
  ASSUME NEW i \in Nat
  PROVE  Place(i).shelf \in Int /\ Place(i).position \in Int
BY BooksAssumption DEF Place

\* A shelf assignment changes shelf and position and nothing else.
LEMMA ShelvesKeepBooks ==
  ASSUME NEW s \in Seq(Book)
  PROVE  /\ WithShelves(s) \in Seq(Book) /\ Len(WithShelves(s)) = Len(s)
         /\ DOMAIN WithShelves(s) = DOMAIN s
         /\ \A i \in DOMAIN s : /\ WithShelves(s)[i].id = s[i].id
                                /\ WithShelves(s)[i].title = s[i].title
                                /\ WithShelves(s)[i].genre = s[i].genre
                                /\ WithShelves(s)[i].year = s[i].year
                                /\ WithShelves(s)[i].status = s[i].status
         /\ UniqueIds(s) => UniqueIds(WithShelves(s))
<1>1. Len(s) \in Nat /\ DOMAIN s = 1 .. Len(s) /\ \A i \in DOMAIN s : s[i] \in Book
  BY LenProperties, ElementOfSeq
<1>2. \A i \in DOMAIN s : Place(i - 1).shelf \in Int /\ Place(i - 1).position \in Int
  BY <1>1, PlaceType
<1>3. \A i \in DOMAIN s :
        /\ WithShelves(s)[i] \in Book
        /\ WithShelves(s)[i].id = s[i].id /\ WithShelves(s)[i].title = s[i].title
        /\ WithShelves(s)[i].genre = s[i].genre /\ WithShelves(s)[i].year = s[i].year
        /\ WithShelves(s)[i].status = s[i].status
  BY <1>1, <1>2 DEF WithShelves, Book
<1>4. /\ WithShelves(s) \in Seq(Book) /\ Len(WithShelves(s)) = Len(s)
      /\ DOMAIN WithShelves(s) = DOMAIN s
  <2>1. WithShelves(s) \in [1 .. Len(s) -> Book]
    <3>1. WithShelves(s) = [i \in 1 .. Len(s) |-> WithShelves(s)[i]]
      BY <1>1 DEF WithShelves
    <3> QED
      BY <1>1, <1>3, <3>1
  <2> QED
    BY <1>1, <2>1
<1> QED
  BY <1>3, <1>4 DEF UniqueIds

\* Sorting moves the books with their places, adding gives none, and the places
\* of an assignment are the quotients and remainders of the indices.
LEMMA AddKeepsPlaces ==
  ASSUME NEW s \in Seq(Book), SlotsDistinct(s), NEW d \in Details
  PROVE  SlotsDistinct(WithAdded(s, d))
<1> DEFINE b == [id |-> NextId(s), title |-> d.title, genre |-> d.genre, year |-> d.year,
                 shelf |-> -1, position |-> -1, status |-> 0]
<1>1. Len(s) \in Nat /\ DOMAIN s = 1 .. Len(s) /\ \A i \in DOMAIN s : s[i] \in Book
  BY LenProperties, ElementOfSeq
<1>2. WithAdded(s, d) = [i \in 1 .. Len(s) + 1 |-> IF i <= Len(s) THEN s[i] ELSE b]
  BY <1>1 DEF WithAdded
<1>3. b.shelf = -1
  OBVIOUS
<1> HIDE DEF b
<1>4. \A i \in 1 .. Len(s) + 1 : i \in DOMAIN s \/ i = Len(s) + 1
  BY <1>1
<1> QED
  BY <1>1, <1>2, <1>3, <1>4 DEF SlotsDistinct

LEMMA SortKeepsPlaces ==
  ASSUME NEW order, NEW s \in Seq(Book), SlotsDistinct(s), NEW t \in SortedBy(order, s)
  PROVE  SlotsDistinct(t)
<1>1. PICK p \in Bijection(DOMAIN s, DOMAIN s) : t = [i \in DOMAIN s |-> s[p[i]]]
  BY DEF SortedBy
<1>2. p \in [DOMAIN s -> DOMAIN s] /\ \A i, j \in DOMAIN s : p[i] = p[j] => i = j
  BY DEF Bijection, Injection, IsInjective
<1> QED
  BY <1>1, <1>2 DEF SlotsDistinct

LEMMA ShelvesDistinct ==
  ASSUME NEW s \in Seq(Book)
  PROVE  SlotsDistinct(WithShelves(s))
<1>1. Len(s) \in Nat /\ DOMAIN s = 1 .. Len(s) /\ \A i \in DOMAIN s : s[i] \in Book
  BY LenProperties, ElementOfSeq
<1>2. ASSUME NEW k \in Nat, NEW l \in Nat, Place(k).shelf > 0,
             Place(k).shelf = Place(l).shelf, Place(k).position = Place(l).position
      PROVE  k = l
  <2>1. ShelfCapacity \in Nat \ {0}
    BY BooksAssumption
  <2>2. \A n \in Nat : /\ n \div ShelfCapacity \in Int /\ n % ShelfCapacity \in Int
                       /\ n = ShelfCapacity * (n \div ShelfCapacity) + (n % ShelfCapacity)
    BY <2>1
  <2>3. \A n \in Nat : Place(n).shelf > 0 =>
          /\ Place(n).shelf = (n \div ShelfCapacity) + 1
          /\ Place(n).position = (n % ShelfCapacity) + 1
    BY DEF Place
  <2>4. k \div ShelfCapacity = l \div ShelfCapacity /\ k % ShelfCapacity = l % ShelfCapacity
    <3>1. /\ (k \div ShelfCapacity) + 1 = (l \div ShelfCapacity) + 1
          /\ (k % ShelfCapacity) + 1 = (l % ShelfCapacity) + 1
      BY <1>2, <2>3
    <3> QED
      BY <2>2, <3>1
  <2> QED
    BY <2>2, <2>4
<1>3. \A i \in DOMAIN s : /\ WithShelves(s)[i].shelf = Place(i - 1).shelf
                          /\ WithShelves(s)[i].position = Place(i - 1).position
                          /\ i - 1 \in Nat
  <2>1. \A i \in DOMAIN s : i - 1 \in Nat
    BY <1>1
  <2>2. ASSUME NEW i \in DOMAIN s, NEW pl, pl = Place(i - 1)
        PROVE  /\ WithShelves(s)[i].shelf = pl.shelf
               /\ WithShelves(s)[i].position = pl.position
    <3>1. WithShelves(s)[i] = [s[i] EXCEPT !.shelf = pl.shelf, !.position = pl.position]
      BY <2>2 DEF WithShelves
    <3>2. s[i] \in Book
      BY <1>1
    <3> QED
      BY <3>1, <3>2 DEF Book
  <2> QED
    BY <2>1, <2>2
<1>4. DOMAIN WithShelves(s) = DOMAIN s
  BY DEF WithShelves
<1>5. ASSUME NEW i \in DOMAIN s, NEW j \in DOMAIN s, WithShelves(s)[i].shelf > 0,
             WithShelves(s)[i].shelf = WithShelves(s)[j].shelf,
             WithShelves(s)[i].position = WithShelves(s)[j].position
      PROVE  i = j
  <2>1. i - 1 = j - 1
    BY <1>2, <1>3, <1>5
  <2> QED
    BY <1>1, <2>1
<1> QED
  BY <1>4, <1>5 DEF SlotsDistinct

\* The comparisons are strict weak orders.
LEMMA PrecedesOrder ==
  ASSUME NEW o \in Orders, NEW x \in Book, NEW y \in Book, NEW z \in Book
  PROVE  /\ ~(Precedes(o, x, y) /\ Precedes(o, y, x))
         /\ ~Precedes(o, y, x) /\ ~Precedes(o, z, y) => ~Precedes(o, z, x)
         /\ Precedes(o, x, y) /\ ~Precedes(o, z, y) => Precedes(o, x, z)
<1>1. /\ x.title \in Int /\ x.genre \in Int /\ x.year \in Int
      /\ y.title \in Int /\ y.genre \in Int /\ y.year \in Int
      /\ z.title \in Int /\ z.genre \in Int /\ z.year \in Int
  BY DEF Book
<1>2. CASE o = "title"
  BY <1>1, <1>2 DEF Precedes
<1>3. CASE o = "genre"
  <2>1. \A u, v : Precedes(o, u, v) <=>
          u.genre < v.genre \/ (u.genre = v.genre /\ u.title < v.title)
    BY <1>3 DEF Precedes
  <2> QED
    BY <1>1, <2>1
<1>4. CASE o = "year"
  <2>1. \A u, v : Precedes(o, u, v) <=>
          u.year < v.year \/ (u.year = v.year /\ u.title < v.title)
    BY <1>4 DEF Precedes
  <2> QED
    BY <1>1, <2>1
<1> QED
  BY <1>2, <1>3, <1>4 DEF Orders

\* An increasing rearrangement of 1 .. n moves nothing.
LEMMA IncreasingMovesNothing ==
  ASSUME NEW n \in Nat, NEW r \in [1 .. n -> 1 .. n],
         \A i, j \in 1 .. n : i < j => r[i] < r[j],
         \A k \in 1 .. n : \E i \in 1 .. n : r[i] = k
  PROVE  \A i \in 1 .. n : r[i] = i
<1> DEFINE Moved == {i \in 1 .. n : r[i] # i}
<1> SUFFICES ASSUME Moved # {} PROVE FALSE
  OBVIOUS
<1>1. PICK i \in Moved : \A j \in Moved : i <= j
  <2>1. Moved \in SUBSET Nat
    OBVIOUS
  <2> QED
    BY <2>1, LeastNumber
<1>2. i \in 1 .. n /\ r[i] # i /\ r[i] \in 1 .. n
  BY <1>1
<1>3. \A k \in 1 .. n : k < i => r[k] = k
  BY <1>1, <1>2
<1>4. r[i] > i
  <2> SUFFICES ASSUME r[i] < i PROVE FALSE
    BY <1>2
  <2>1. r[r[i]] = r[i] /\ r[r[i]] < r[i]
    BY <1>2, <1>3
  <2> QED
    BY <1>2, <2>1
<1>5. PICK k \in 1 .. n : r[k] = i
  BY <1>2
<1>6. k > i
  <2>1. k # i
    BY <1>2, <1>5
  <2>2. ~(k < i)
    BY <1>2, <1>3, <1>5
  <2> QED
    BY <1>2, <2>1, <2>2
<1>7. r[i] < r[k]
  BY <1>2, <1>5, <1>6
<1> QED
  BY <1>2, <1>4, <1>5, <1>7

\* Two stable rearrangements put the same book at every place.
LEMMA OneArrangement ==
  ASSUME NEW o \in Orders, NEW s \in Seq(Book),
         NEW p \in Bijection(DOMAIN s, DOMAIN s), Arranges(p, o, s),
         NEW q \in Bijection(DOMAIN s, DOMAIN s), Arranges(q, o, s)
  PROVE  \A i \in DOMAIN s : p[i] = q[i]
<1> DEFINE n == Len(s)
           Before(k, l) == \/ Precedes(o, s[k], s[l])
                           \/ ~Precedes(o, s[l], s[k]) /\ k < l
<1>1. n \in Nat /\ DOMAIN s = 1 .. n /\ \A k \in 1 .. n : s[k] \in Book
  BY LenProperties, ElementOfSeq
<1>2. /\ p \in [1 .. n -> 1 .. n] /\ \A k \in 1 .. n : \E i \in 1 .. n : p[i] = k
      /\ q \in [1 .. n -> 1 .. n] /\ \A k \in 1 .. n : \E i \in 1 .. n : q[i] = k
      /\ \A i, j \in 1 .. n : q[i] = q[j] => i = j
  BY <1>1 DEF Bijection, Injection, Surjection, IsInjective
<1>3. /\ \A i, j \in 1 .. n : i < j => Before(p[i], p[j])
      /\ \A i, j \in 1 .. n : i < j => Before(q[i], q[j])
  BY <1>1 DEF Arranges
<1>4. \A k, l \in 1 .. n : ~(Before(k, l) /\ Before(l, k))
  BY <1>1, PrecedesOrder
<1> DEFINE r == [i \in 1 .. n |-> CHOOSE j \in 1 .. n : q[j] = p[i]]
<1>5. \A i \in 1 .. n : r[i] \in 1 .. n /\ q[r[i]] = p[i]
  BY <1>2
<1> HIDE DEF Before
<1>6. \A i, j \in 1 .. n : i < j => r[i] < r[j]
  <2> SUFFICES ASSUME NEW i \in 1 .. n, NEW j \in 1 .. n, i < j PROVE r[i] < r[j]
    OBVIOUS
  <2>1. Before(p[i], p[j]) /\ p[i] \in 1 .. n /\ p[j] \in 1 .. n
    BY <1>2, <1>3
  <2>2. r[i] # r[j]
    BY <1>4, <1>5, <2>1
  <2>3. r[j] < r[i] => Before(p[j], p[i])
    BY <1>3, <1>5
  <2> QED
    BY <1>1, <1>4, <1>5, <2>1, <2>2, <2>3
<1>7. \A k \in 1 .. n : \E i \in 1 .. n : r[i] = k
  <2> SUFFICES ASSUME NEW k \in 1 .. n PROVE \E i \in 1 .. n : r[i] = k
    OBVIOUS
  <2>1. PICK i \in 1 .. n : p[i] = q[k]
    BY <1>2
  <2> QED
    BY <1>2, <1>5, <2>1
<1>8. r \in [1 .. n -> 1 .. n]
  BY <1>5
<1> HIDE DEF r
<1>9. \A i \in 1 .. n : r[i] = i
  BY <1>1, <1>6, <1>7, <1>8, IncreasingMovesNothing
<1> QED
  BY <1>1, <1>5, <1>9

\* A sort of an inventory has one outcome: whatever thread sorts which copy and
\* when, equal arrays sorted by the same comparison end equal (sorting.c).
THEOREM SortHasOneOutcome ==
  ASSUME NEW o \in Orders, NEW s \in Seq(Book), NEW t \in SortedBy(o, s), NEW u \in SortedBy(o, s)
  PROVE  t = u
<1>1. PICK p \in Bijection(DOMAIN s, DOMAIN s) :
        Arranges(p, o, s) /\ t = [i \in DOMAIN s |-> s[p[i]]]
  BY DEF SortedBy
<1>2. PICK q \in Bijection(DOMAIN s, DOMAIN s) :
        Arranges(q, o, s) /\ u = [i \in DOMAIN s |-> s[q[i]]]
  BY DEF SortedBy
<1>3. \A i \in DOMAIN s : p[i] = q[i]
  BY <1>1, <1>2, OneArrangement
<1> QED
  BY <1>1, <1>2, <1>3
===============================================================================

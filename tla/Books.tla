-------------------------------- MODULE Books ---------------------------------
(***************************************************************************)
(* The array of books of an inventory and the operations the inventory     *)
(* makes on it while it holds its lock (inventory.c, sorting.c).           *)
(*                                                                         *)
(* A book is a record. Title, genre and year are numbers that stand for    *)
(* the place of the value in the order the comparisons of sorting.c use    *)
(* (case-folded strings, the year itself). The author is copied wherever   *)
(* the title is and never compared, so it is left out. The array is the    *)
(* sequence of its first `count` elements.                                 *)
(***************************************************************************)
EXTENDS Integers, Sequences, FiniteSets, Functions

CONSTANTS
  MaxBooks,       \* MAX_BOOKS
  ShelfCapacity,  \* SHELF_CAPACITY
  MaxShelves      \* MAX_SHELVES

ASSUME BooksAssumption ==
  MaxBooks \in Nat \ {0} /\ ShelfCapacity \in Nat \ {0} /\ MaxShelves \in Nat \ {0}

Orders == {"title", "genre", "year"}

Book == [id : Nat \ {0}, title : Int, genre : Int, year : Int,
         shelf : Int, position : Int, status : {0, 1}]

\* What a user enters about a book.
Details == [title : Int, genre : Int, year : Int]

\* What a sort, a shelf assignment or a save must not change in a book.
Identity(b) == [id |-> b.id, title |-> b.title, genre |-> b.genre, year |-> b.year,
                status |-> b.status]
Identities(s) == {Identity(s[i]) : i \in DOMAIN s}

Ids(s) == {s[i].id : i \in DOMAIN s}
UniqueIds(s) == \A i, j \in DOMAIN s : s[i].id = s[j].id => i = j

FaultyNextId(s) == Len(s) + 1
\* The smallest positive number no book has.
NextId(s) ==
  CHOOSE n \in 1 .. Len(s) + 1 : n \notin Ids(s) /\ \A m \in 1 .. n - 1 : m \in Ids(s)

FaultyFull(s) == Len(s) > MaxBooks
Full(s) == Len(s) >= MaxBooks

WithAdded(s, d) ==
  Append(s, [id |-> NextId(s), title |-> d.title, genre |-> d.genre, year |-> d.year,
             shelf |-> -1, position |-> -1, status |-> 0])

FaultyCanImport(s, b) == ~Full(s) /\ b.id > 0
CanImport(s, b) == ~Full(s) /\ b.id > 0 /\ b.id \notin Ids(s)

(***************************************************************************)
(* Sorting. The loop itself is in InsertionSort; here is what it returns.  *)
(***************************************************************************)
\* cmp(x, y) < 0 of the comparison chosen by `order`; ties go to the title.
Precedes(order, x, y) ==
  LET primary(b) == CASE order = "title" -> 0
                      [] order = "genre" -> b.genre
                      [] order = "year"  -> b.year
  IN  \/ primary(x) < primary(y)
      \/ primary(x) = primary(y) /\ x.title < y.title

\* p lists the positions of s in the order a stable sort gives them.
Arranges(p, order, s) ==
  \A i, j \in DOMAIN s :
    i < j => \/ Precedes(order, s[p[i]], s[p[j]])
             \/ ~Precedes(order, s[p[j]], s[p[i]]) /\ p[i] < p[j]

FaultySortedBy(order, s) ==
  {[i \in DOMAIN s |-> s[p[i]]] : p \in {q \in [DOMAIN s -> DOMAIN s] :
     \A i, j \in DOMAIN s : i < j => ~Precedes(order, s[q[j]], s[q[i]])}}
\* The stable rearrangement of s; there is exactly one.
SortedBy(order, s) ==
  {[i \in DOMAIN s |-> s[p[i]]] :
     p \in {q \in Bijection(DOMAIN s, DOMAIN s) : Arranges(q, order, s)}}

FaultyPlace(i) == [shelf |-> (i % ShelfCapacity) + 1, position |-> (i % ShelfCapacity) + 1]
\* Shelf and position of the book at index i (from 0); -1 when the shelves
\* are used up.
Place(i) ==
  IF (i \div ShelfCapacity) + 1 > MaxShelves
  THEN [shelf |-> -1, position |-> -1]
  ELSE [shelf |-> (i \div ShelfCapacity) + 1, position |-> (i % ShelfCapacity) + 1]

WithShelves(s) ==
  [i \in DOMAIN s |-> [s[i] EXCEPT !.shelf    = Place(i - 1).shelf,
                                   !.position = Place(i - 1).position]]

\* No two books stand in the same place.
SlotsDistinct(s) ==
  \A i, j \in DOMAIN s :
    s[i].shelf > 0 /\ s[i].shelf = s[j].shelf /\ s[i].position = s[j].position => i = j
===============================================================================

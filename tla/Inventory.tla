------------------------------- MODULE Inventory -------------------------------
(***************************************************************************)
(* The thread-safe inventory of bookshelf_core.c and inventory.c.          *)
(*                                                                         *)
(* Every mutating operation is one critical section of the inventory's     *)
(* mutex, hence one action; it does not matter which thread makes the call *)
(* (writers). bs_inventory_clone is not one critical section: it locks     *)
(* once for the count and once for every element, so writers run between   *)
(* its steps. Cloners are the threads that execute it, as the sort tasks   *)
(* of the organisation pipeline do.                                        *)
(*                                                                         *)
(* A call that returns an error changes nothing: it is a stuttering step.  *)
(* What clone returns is in the model: its memory and its mutex may not be *)
(* had, and its copying may fail. A mutex that was initialized can be      *)
(* locked: the default kind has no error, and clone's branch for one is    *)
(* left out.                                                               *)
(***************************************************************************)
EXTENDS Books

CONSTANTS
  Cloners,    \* threads that call bs_inventory_clone
  Catalogue,  \* the details a caller of add may pass
  Foreign,    \* the books a caller of import may pass
  MaxWrites   \* bound on the number of mutating calls

ASSUME InventoryAssumption ==
  Catalogue \subseteq Details /\ Foreign \subseteq Book /\ MaxWrites \in Nat

VARIABLES
  books,     \* inventory.books[0 .. count - 1]
  clonePc,   \* where each cloner is, or what its last call returned
  expected,  \* the local variable count of clone
  copy,      \* the contents of the clone under construction
  seen,      \* history: the contents the source had since the count was read,
             \* none if the clone could not be created
  writes     \* history: mutating calls so far

vars == <<books, clonePc, expected, copy, seen, writes>>

\* bs_inventory_create: there is no memory, or no mutex.
CreateFailures == {"STORAGE_ERROR", "SYNC_ERROR"}
CloneFailures == {"NOT_FOUND"} \cup CreateFailures
ClonePcs == {"idle", "copying", "OK"} \cup CloneFailures

Init ==
  /\ books = <<>> /\ writes = 0
  /\ clonePc = [t \in Cloners |-> "idle"] /\ expected = [t \in Cloners |-> 0]
  /\ copy = [t \in Cloners |-> <<>>] /\ seen = [t \in Cloners |-> {}]

(***************************************************************************)
(* Mutating operations                                                     *)
(***************************************************************************)
\* The section that leaves `new` in the array.
Write(new) ==
  /\ writes < MaxWrites /\ writes' = writes + 1
  /\ books' = new
  /\ seen' = [t \in Cloners |-> IF clonePc[t] = "copying" THEN seen[t] \cup {new} ELSE seen[t]]
  /\ UNCHANGED <<clonePc, expected, copy>>

Add(d) == ~Full(books) /\ Write(WithAdded(books, d))

Import(b) == CanImport(books, b) /\ Write(Append(books, b))

Clear == Write(<<>>)

Sort(order) == \E s \in SortedBy(order, books) : Write(s)

AssignShelves == Write(WithShelves(books))

(***************************************************************************)
(* bs_inventory_clone                                                      *)
(***************************************************************************)
FaultyExpected == Len(books) + 1
ExpectedCount == Len(books)

\* The clone cannot be created; the source is not looked at.
CreateFails(t) ==
  /\ clonePc[t] = "idle"
  /\ \E error \in CreateFailures : clonePc' = [clonePc EXCEPT ![t] = error]
  /\ copy' = [copy EXCEPT ![t] = <<>>] /\ seen' = [seen EXCEPT ![t] = {}]
  /\ UNCHANGED <<books, expected, writes>>

\* A new, empty clone and the count of the source.
StartClone(t) ==
  /\ clonePc[t] = "idle"
  /\ clonePc' = [clonePc EXCEPT ![t] = "copying"]
  /\ expected' = [expected EXCEPT ![t] = ExpectedCount]
  /\ copy' = [copy EXCEPT ![t] = <<>>]
  /\ seen' = [seen EXCEPT ![t] = {books}]
  /\ UNCHANGED <<books, writes>>

\* The index the clone reads next.
FaultyNextIndex(t) == Len(copy[t]) + 2
NextIndex(t) == Len(copy[t]) + 1
Copying(t) == clonePc[t] = "copying" /\ NextIndex(t) <= expected[t]

\* bs_inventory_get_at under the source's lock, then the import into the clone.
CopyBook(t) ==
  /\ Copying(t) /\ NextIndex(t) <= Len(books)
  /\ CanImport(copy[t], books[NextIndex(t)])
  /\ copy' = [copy EXCEPT ![t] = Append(@, books[NextIndex(t)])]
  /\ UNCHANGED <<books, clonePc, expected, seen, writes>>

\* The clone is destroyed and the error is returned.
CloneFailsWith(t, error) ==
  /\ clonePc' = [clonePc EXCEPT ![t] = error]
  /\ copy' = [copy EXCEPT ![t] = <<>>]
  /\ UNCHANGED <<books, expected, seen, writes>>

\* The source became shorter than the count.
IndexGone(t) ==
  /\ Copying(t) /\ NextIndex(t) > Len(books)
  /\ CloneFailsWith(t, "NOT_FOUND")

\* The source moved a book that was copied already.
BookMoved(t) ==
  /\ Copying(t) /\ NextIndex(t) <= Len(books)
  /\ ~CanImport(copy[t], books[NextIndex(t)])
  /\ CloneFailsWith(t, "STORAGE_ERROR")

CloneReturns(t) ==
  /\ clonePc[t] = "copying" /\ Len(copy[t]) = expected[t]
  /\ clonePc' = [clonePc EXCEPT ![t] = "OK"]
  /\ UNCHANGED <<books, expected, copy, seen, writes>>

\* The caller destroys its clone, or has seen the error.
DropClone(t) ==
  /\ clonePc[t] \in {"OK"} \cup CloneFailures
  /\ clonePc' = [clonePc EXCEPT ![t] = "idle"]
  /\ expected' = [expected EXCEPT ![t] = 0]
  /\ copy' = [copy EXCEPT ![t] = <<>>]
  /\ seen' = [seen EXCEPT ![t] = {}]
  /\ UNCHANGED <<books, writes>>

-------------------------------------------------------------------------------
CloneStep(t) ==
  \/ CreateFails(t) \/ StartClone(t) \/ CopyBook(t) \/ IndexGone(t) \/ BookMoved(t)
  \/ CloneReturns(t) \/ DropClone(t)

WriterStep ==
  \/ \E d \in Catalogue : Add(d)
  \/ \E b \in Foreign : Import(b)
  \/ \E order \in Orders : Sort(order)
  \/ Clear \/ AssignShelves

Next == WriterStep \/ \E t \in Cloners : CloneStep(t)

Spec == Init /\ [][Next]_vars

-------------------------------------------------------------------------------
(***************************************************************************)
(* Properties                                                              *)
(***************************************************************************)
\* The array and the clones hold books and never more than the array can.
TypeOK ==
  /\ books \in Seq(Book) /\ Len(books) <= MaxBooks
  /\ clonePc \in [Cloners -> ClonePcs]
  /\ expected \in [Cloners -> 0 .. MaxBooks]
  /\ copy \in [Cloners -> Seq(Book)] /\ seen \in [Cloners -> SUBSET Seq(Book)]
  /\ writes \in Nat

\* No two books of the inventory, or of a clone, have the same id, whatever
\* adds and imports happened before, and however the clone was interrupted.
IdsUnique == UniqueIds(books) /\ \A t \in Cloners : UniqueIds(copy[t])

\* The contents a source had while it is being cloned include its present one
\* and are arrays of books with distinct ids, and a clone never outgrows them.
SeenOK ==
  \A t \in Cloners :
    /\ clonePc[t] = "copying" => books \in seen[t]
    /\ Len(copy[t]) <= expected[t]
    /\ \A s \in seen[t] : UniqueIds(s) /\ Len(s) <= MaxBooks

\* While the source has had one content, the count is its length.
QuietExpected ==
  \A t \in Cloners : \A s \in seen[t] : seen[t] = {s} => expected[t] = Len(s)

\* Only clear removes books: every other operation keeps each of them, with
\* its id and its contents.
NoBookLost == [][books' = <<>> \/ Identities(books) \subseteq Identities(books')]_books

\* A book at position i of a clone was at position i of the source at some
\* moment since the count was read.
CopiedFromSource ==
  \A t \in Cloners : \A i \in DOMAIN copy[t] :
    \E s \in seen[t] : i \in DOMAIN s /\ s[i] = copy[t][i]

\* A clone that was created, and whose source no writer changed since the count
\* was read, does not fail in copying and is the source; this is what the
\* pipeline relies on, which waits for its sort tasks before it writes. (A
\* clone that cannot be created fails without a writer: it has seen nothing.)
QuietCloneExact ==
  \A t \in Cloners : \A s \in seen[t] :
    seen[t] = {s} =>
      /\ clonePc[t] \notin CloneFailures
      /\ \A i \in DOMAIN copy[t] : i \in DOMAIN s /\ copy[t][i] = s[i]
      /\ clonePc[t] = "OK" => copy[t] = s

\* What docs/project_report.md:198 says of the sort tasks, for any caller of
\* clone: the copy is one state of the inventory ("a consistent snapshot ...
\* copied under the lock").
CloneIsSnapshot == \A t \in Cloners : clonePc[t] = "OK" => copy[t] \in seen[t]

InventoryInvariant ==
  TypeOK /\ IdsUnique /\ SeenOK /\ CopiedFromSource /\ QuietExpected /\ QuietCloneExact
===============================================================================

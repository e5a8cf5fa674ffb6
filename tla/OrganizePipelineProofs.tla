------------------------- MODULE OrganizePipelineProofs -------------------------
(***************************************************************************)
(* Proofs about the organisation pipeline, for any number of workers, any  *)
(* queue, inventories of any size and any other threads that write: the    *)
(* composition of the abstract executor with the inventory is safe.        *)
(***************************************************************************)
EXTENDS OrganizePipeline, BooksProofs

(***************************************************************************)
(* The inventory                                                           *)
(***************************************************************************)
\* The inventory's own functions on arrays of books are those of Books.
LEMMA SameBooks ==
  /\ Inv!Book = Book /\ Inv!Details = Details /\ Inv!Orders = Orders
  /\ \A s : Inv!Full(s) <=> Full(s)
  /\ \A s, b : Inv!CanImport(s, b) <=> CanImport(s, b)
  /\ \A s, d : Inv!WithAdded(s, d) = WithAdded(s, d)
  /\ \A order, s : Inv!SortedBy(order, s) = SortedBy(order, s)
  /\ \A s : Inv!WithShelves(s) = WithShelves(s)
<1>1. Inv!Book = Book /\ Inv!Details = Details /\ Inv!Orders = Orders
  BY DEF Inv!Book, Book, Inv!Details, Details, Inv!Orders, Orders
<1>2. \A s : Inv!Full(s) <=> Full(s)
  BY DEF Inv!Full, Full
<1>3. \A s, b : Inv!CanImport(s, b) <=> CanImport(s, b)
  BY <1>2 DEF Inv!CanImport, CanImport, Inv!Ids, Ids
<1>4. \A s, d : Inv!WithAdded(s, d) = WithAdded(s, d)
  BY Zenon DEF Inv!WithAdded, WithAdded, Inv!NextId, NextId, Inv!Ids, Ids
<1>5. \A order, s : Inv!SortedBy(order, s) = SortedBy(order, s)
  BY Zenon DEF Inv!SortedBy, SortedBy, Inv!Arranges, Arranges, Inv!Precedes, Precedes,
     Inv!Bijection, Bijection, Inv!Injection, Injection, Inv!Surjection, Surjection,
     Inv!IsInjective, IsInjective
<1>6. \A s : Inv!WithShelves(s) = WithShelves(s)
  BY Zenon DEF Inv!WithShelves, WithShelves, Inv!Place, Place
<1> QED
  BY <1>1, <1>2, <1>3, <1>4, <1>5, <1>6

SourceOK == books \in Seq(Book) /\ Len(books) <= MaxBooks /\ UniqueIds(books)

\* Every call of a writer leaves an array with unique ids within its capacity.
LEMMA WriterKeepsSource ==
  ASSUME SourceOK, Inv!WriterStep
  PROVE  SourceOK' /\ Inv!Write(books')
<1> USE PipelineAssumption DEF SourceOK
<1>1. ASSUME NEW d \in Catalogue, Inv!Add(d)
      PROVE  SourceOK' /\ Inv!Write(books')
  <2>1. d \in Details /\ ~Full(books) /\ Inv!Write(WithAdded(books, d))
    BY <1>1, SameBooks DEF Inv!Add
  <2>2. books' = WithAdded(books, d)
    BY <2>1 DEF Inv!Write
  <2> QED
    BY <2>1, <2>2, AddKeepsUniqueIds, LenProperties, BooksAssumption DEF Full
<1>2. ASSUME NEW b \in Foreign, Inv!Import(b)
      PROVE  SourceOK' /\ Inv!Write(books')
  <2>1. b \in Book /\ CanImport(books, b) /\ Inv!Write(Append(books, b))
    BY <1>2, SameBooks DEF Inv!Import
  <2>2. books' = Append(books, b)
    BY <2>1 DEF Inv!Write
  <2> QED
    BY <2>1, <2>2, AppendKeepsUniqueIds, LenProperties, BooksAssumption DEF CanImport, Full
<1>3. ASSUME NEW order, Inv!Sort(order)
      PROVE  SourceOK' /\ Inv!Write(books')
  <2>1. PICK s \in SortedBy(order, books) : Inv!Write(s)
    BY <1>3, SameBooks DEF Inv!Sort
  <2>2. books' = s
    BY <2>1 DEF Inv!Write
  <2> QED
    BY <2>1, <2>2, SortPermutes
<1>4. CASE Inv!Clear
  <2>1. books' = <<>> /\ Inv!Write(<<>>)
    BY <1>4 DEF Inv!Clear, Inv!Write
  <2> QED
    BY <2>1, BooksAssumption DEF UniqueIds
<1>5. CASE Inv!AssignShelves
  <2>1. Inv!Write(WithShelves(books))
    BY <1>5, SameBooks DEF Inv!AssignShelves
  <2>2. books' = WithShelves(books)
    BY <2>1 DEF Inv!Write
  <2> QED
    BY <2>1, <2>2, ShelvesKeepBooks
<1> QED
  BY <1>1, <1>2, <1>3, <1>4, <1>5 DEF Inv!WriterStep

\* What the main thread writes at the end, when it writes it.
LEMMA FinalWrites ==
  ASSUME SourceOK
  PROVE  /\ Inv!Sort(final) =>
              SourceOK' /\ Inv!Write(books') /\ books' \in SortedBy(final, books)
         /\ Inv!AssignShelves =>
              SourceOK' /\ Inv!Write(books') /\ books' = WithShelves(books)
<1> USE DEF SourceOK
<1>1. ASSUME Inv!Sort(final)
      PROVE  SourceOK' /\ Inv!Write(books') /\ books' \in SortedBy(final, books)
  <2>1. PICK s \in SortedBy(final, books) : Inv!Write(s)
    BY <1>1, SameBooks DEF Inv!Sort
  <2>2. books' = s
    BY <2>1 DEF Inv!Write
  <2> QED
    BY <2>1, <2>2, SortPermutes
<1>2. ASSUME Inv!AssignShelves
      PROVE  SourceOK' /\ Inv!Write(books') /\ books' = WithShelves(books)
  <2>1. Inv!Write(WithShelves(books))
    BY <1>2, SameBooks DEF Inv!AssignShelves
  <2>2. books' = WithShelves(books)
    BY <2>1 DEF Inv!Write
  <2> QED
    BY <2>1, <2>2, ShelvesKeepBooks
<1> QED
  BY <1>1, <1>2

InventoryTypes ==
  /\ clonePc \in [Orders -> Inv!ClonePcs] /\ expected \in [Orders -> 0 .. MaxBooks]
  /\ copy \in [Orders -> Seq(Book)] /\ seen \in [Orders -> SUBSET Seq(Book)]
  /\ writes \in Nat

\* A write leaves the clones alone, but for what is remembered of the source.
LEMMA WriteKeepsClones ==
  ASSUME InventoryTypes, Inv!Write(books'), books' \in Seq(Book)
  PROVE  InventoryTypes' /\ UNCHANGED <<clonePc, expected, copy>>
BY DEF InventoryTypes, Inv!Write

CloneCalls(o) ==
  \/ Inv!CreateFails(o) \/ Inv!StartClone(o) \/ Inv!CopyBook(o)
  \/ Inv!CloneReturns(o) \/ Inv!IndexGone(o) \/ Inv!BookMoved(o)

\* A step of a task's clone changes what belongs to that task only.
LEMMA CloneKeepsTypes ==
  ASSUME SourceOK, InventoryTypes, NEW o \in Orders, CloneCalls(o) \/ Inv!DropClone(o)
  PROVE  /\ InventoryTypes' /\ UNCHANGED <<books, writes>>
         /\ \A q \in Orders : q # o => /\ clonePc'[q] = clonePc[q] /\ copy'[q] = copy[q]
                                       /\ expected'[q] = expected[q] /\ seen'[q] = seen[q]
<1> USE DEF InventoryTypes, Inv!ClonePcs, Inv!CloneFailures, Inv!CreateFailures
<1>0. /\ Len(books) \in 0 .. MaxBooks /\ copy[o] \in Seq(Book)
      /\ \A i \in 1 .. Len(books) : books[i] \in Book
  BY LenProperties, ElementOfSeq, BooksAssumption DEF SourceOK
<1>1. CASE Inv!StartClone(o)
  BY <1>0, <1>1 DEF Inv!StartClone, Inv!ExpectedCount, SourceOK
<1>2. CASE Inv!CopyBook(o)
  <2> DEFINE b == books[Len(copy[o]) + 1]
  <2>1. b \in Book
    BY <1>0, <1>2, LenProperties DEF Inv!CopyBook, Inv!NextIndex
  <2>2. Append(copy[o], b) \in Seq(Book)
    BY <1>0, <2>1, AppendProperties
  <2> HIDE DEF b
  <2>3. copy' = [copy EXCEPT ![o] = Append(copy[o], b)]
        /\ UNCHANGED <<books, clonePc, expected, seen, writes>>
    BY <1>2 DEF Inv!CopyBook, Inv!NextIndex, b
  <2> QED
    BY <2>2, <2>3
<1>3. CASE Inv!CloneReturns(o)
  BY <1>3 DEF Inv!CloneReturns
<1>4. CASE Inv!IndexGone(o) \/ Inv!BookMoved(o)
  <2>1. PICK error \in Inv!CloneFailures : Inv!CloneFailsWith(o, error)
    BY <1>4 DEF Inv!IndexGone, Inv!BookMoved
  <2>2. /\ clonePc' = [clonePc EXCEPT ![o] = error] /\ copy' = [copy EXCEPT ![o] = <<>>]
        /\ UNCHANGED <<books, expected, seen, writes>>
    BY <2>1 DEF Inv!CloneFailsWith
  <2> QED
    BY <2>1, <2>2
<1>5. CASE Inv!DropClone(o)
  <2>1. /\ clonePc' = [clonePc EXCEPT ![o] = "idle"] /\ expected' = [expected EXCEPT ![o] = 0]
        /\ copy' = [copy EXCEPT ![o] = <<>>] /\ seen' = [seen EXCEPT ![o] = {}]
        /\ UNCHANGED <<books, writes>>
    BY <1>5 DEF Inv!DropClone
  <2>2. 0 \in 0 .. MaxBooks /\ <<>> \in Seq(Book)
    BY BooksAssumption
  <2> QED
    BY <2>1, <2>2
<1>6. CASE Inv!CreateFails(o)
  BY <1>6 DEF Inv!CreateFails
<1> QED
  BY <1>1, <1>2, <1>3, <1>4, <1>5, <1>6 DEF CloneCalls

\* While nobody writes, a task's clone, once created, cannot fail and becomes
\* the inventory.
LEMMA QuietCloneKept ==
  ASSUME SourceOK, InventoryTypes, NEW o \in Orders, CloneCalls(o),
         books = before, stage # "menu", ~disturbed, record[o] = "allocated",
         UNCHANGED <<stage, disturbed, before, record>>, CopyOK(o)
  PROVE  CopyOK(o)'
<1> USE DEF InventoryTypes, Inv!ClonePcs, Inv!CloneFailures, Inv!CreateFailures, CopyOK
<1>0. /\ copy[o] \in Seq(Book) /\ Len(copy[o]) \in Nat /\ DOMAIN copy[o] = 1 .. Len(copy[o])
      /\ Len(books) \in Nat /\ DOMAIN books = 1 .. Len(books) /\ books \in Seq(Book)
      /\ Len(books) <= MaxBooks
  BY LenProperties DEF SourceOK
<1>1. CASE Inv!StartClone(o)
  <2>1. clonePc'[o] = "copying" /\ expected'[o] = Len(before) /\ copy'[o] = <<>>
    BY <1>1 DEF Inv!StartClone, Inv!ExpectedCount
  <2>2. Len(<<>>) = 0 /\ DOMAIN <<>> = {}
    OBVIOUS
  <2> QED
    BY <1>0, <2>1, <2>2
<1>2. CASE Inv!CopyBook(o)
  <2> DEFINE n == Len(copy[o]) + 1
             b == books[n]
  <2>1. /\ clonePc[o] = "copying" /\ n <= expected[o]
        /\ copy' = [copy EXCEPT ![o] = Append(copy[o], b)] /\ UNCHANGED <<clonePc, expected>>
    BY <1>2 DEF Inv!CopyBook, Inv!Copying, Inv!NextIndex
  <2>2. n \in DOMAIN books /\ b \in Book
    BY <1>0, <2>1, ElementOfSeq
  <2>3. b = before[n]
    OBVIOUS
  <2> HIDE DEF b
  <2>4. /\ Len(Append(copy[o], b)) = n /\ DOMAIN Append(copy[o], b) = 1 .. n
        /\ \A i \in 1 .. n - 1 : Append(copy[o], b)[i] = copy[o][i]
        /\ Append(copy[o], b)[n] = b
    BY <1>0, <2>2, AppendProperties
  <2>5. \A i \in 1 .. n : Append(copy[o], b)[i] = before[i]
    <3> SUFFICES ASSUME NEW i \in 1 .. n PROVE Append(copy[o], b)[i] = before[i]
      OBVIOUS
    <3>1. CASE i = n
      BY <2>3, <2>4, <3>1
    <3>2. CASE i \in 1 .. n - 1
      <4>1. i \in DOMAIN copy[o]
        BY <1>0, <3>2
      <4>2. copy[o][i] = before[i]
        BY <2>1, <4>1
      <4> QED
        BY <2>4, <3>2, <4>2
    <3> QED
      BY <1>0, <3>1, <3>2
  <2>6. copy'[o] = Append(copy[o], b) /\ clonePc'[o] = "copying" /\ expected'[o] = expected[o]
    BY <2>1
  <2> QED
    BY <2>1, <2>4, <2>5, <2>6
<1>3. CASE Inv!CloneReturns(o)
  <2>1. clonePc[o] = "copying" /\ clonePc'[o] = "OK" /\ copy' = copy /\ Len(copy[o]) = Len(before)
    BY <1>3 DEF Inv!CloneReturns
  <2>2. \A i \in 1 .. Len(copy[o]) : copy[o][i] = before[i]
    BY <1>0, <2>1
  <2>3. copy[o] = before
    BY <1>0, <2>1, <2>2, SeqEqual
  <2> QED
    BY <2>1, <2>3
<1>4. CASE Inv!IndexGone(o)
  <2>1. clonePc[o] = "copying" /\ Len(copy[o]) + 1 <= expected[o] /\ Len(copy[o]) + 1 > Len(books)
    BY <1>4 DEF Inv!IndexGone, Inv!Copying, Inv!NextIndex
  <2> QED
    BY <1>0, <2>1
<1>5. CASE Inv!BookMoved(o)
  <2> DEFINE n == Len(copy[o]) + 1
             b == books[n]
  <2>1. clonePc[o] = "copying" /\ n <= expected[o] /\ ~CanImport(copy[o], b)
    BY <1>5, SameBooks DEF Inv!BookMoved, Inv!Copying, Inv!NextIndex
  <2>2. n \in DOMAIN books /\ b \in Book /\ n <= MaxBooks
    BY <1>0, <2>1, ElementOfSeq, BooksAssumption
  <2> HIDE DEF CopyOK, InventoryTypes
  <2>3. b.id > 0 /\ ~Full(copy[o])
    <3>1. ASSUME NEW x \in Book PROVE x.id > 0
      BY DEF Book
    <3> HIDE DEF b
    <3>2. b.id > 0
      BY <2>2, <3>1
    <3>3. Len(copy[o]) < MaxBooks
      BY <1>0, <2>2, BooksAssumption
    <3> QED
      BY <1>0, <3>2, <3>3, BooksAssumption DEF Full
  <2>4. \A i \in DOMAIN copy[o] : copy[o][i].id # b.id
    <3> SUFFICES ASSUME NEW i \in DOMAIN copy[o] PROVE copy[o][i].id # b.id
      OBVIOUS
    <3>1. copy[o][i] = books[i] /\ i \in DOMAIN books /\ i # n
      BY <1>0, <2>1, <2>2 DEF CopyOK
    <3> QED
      BY <2>2, <3>1 DEF SourceOK, UniqueIds
  <2> HIDE DEF b
  <2> QED
    BY <2>1, <2>3, <2>4 DEF CanImport, Ids
<1>6. CASE Inv!CreateFails(o)
  <2>1. clonePc'[o] \in Inv!CreateFailures /\ seen'[o] = {}
    BY <1>6 DEF Inv!CreateFails
  <2> QED
    BY <2>1
<1> QED
  BY <1>1, <1>2, <1>3, <1>4, <1>5, <1>6 DEF CloneCalls

(***************************************************************************)
(* The pool                                                                *)
(***************************************************************************)
LEMMA AcceptQueues ==
  ASSUME pending \in Seq(Orders), QueuedOnce, NEW o \in Orders, Pool!Accept(o)
  PROVE  /\ ~Queued(o) /\ o \notin running /\ running' = running
         /\ pending' \in Seq(Orders) /\ Len(pending') <= QueueSize
         /\ QueuedOnce' /\ \A q : Queued(q)' <=> Queued(q) \/ q = o
<1>1. /\ ~Queued(o) /\ o \notin running /\ running' = running /\ Len(pending) < QueueSize
      /\ pending' = Append(pending, o)
  BY DEF Pool!Accept, Pool!Known, Queued
<1>2. /\ Len(pending) \in Nat /\ DOMAIN pending = 1 .. Len(pending)
      /\ pending' \in Seq(Orders) /\ Len(pending') = Len(pending) + 1
      /\ DOMAIN pending' = 1 .. Len(pending) + 1
      /\ \A i \in 1 .. Len(pending) : pending'[i] = pending[i]
      /\ pending'[Len(pending) + 1] = o
  BY <1>1, AppendProperties, LenProperties
<1>3. QueuedOnce'
  BY <1>1, <1>2 DEF QueuedOnce, Queued
<1>4. \A q : Queued(q)' <=> Queued(q) \/ q = o
  BY <1>2 DEF Queued
<1>5. Len(pending') <= QueueSize
  BY <1>1, <1>2, PipelineAssumption
<1> QED
  BY <1>1, <1>2, <1>3, <1>4, <1>5

LEMMA StartDequeues ==
  ASSUME pending \in Seq(Orders), Len(pending) <= QueueSize, QueuedOnce, Pool!Start
  PROVE  \E o \in Orders :
           /\ Queued(o) /\ running' = running \cup {o}
           /\ pending' \in Seq(Orders) /\ Len(pending') <= QueueSize
           /\ QueuedOnce' /\ \A q : Queued(q)' <=> Queued(q) /\ q # o
<1> DEFINE o == Head(pending)
<1>1. /\ pending # <<>> /\ pending' = Tail(pending) /\ running' = running \cup {o}
  BY DEF Pool!Start
<1>2. /\ Len(pending) \in Nat \ {0} /\ DOMAIN pending = 1 .. Len(pending)
      /\ o \in Orders /\ o = pending[1]
      /\ pending' \in Seq(Orders) /\ Len(pending') = Len(pending) - 1
      /\ DOMAIN pending' = 1 .. Len(pending) - 1
      /\ \A i \in 1 .. Len(pending) - 1 : pending'[i] = pending[i + 1]
  BY <1>1, HeadTailProperties, LenProperties, EmptySeq
<1> HIDE DEF o
<1>3. QueuedOnce'
  BY <1>2 DEF QueuedOnce
<1>4. ASSUME NEW q PROVE Queued(q)' <=> Queued(q) /\ q # o
  <2>1. ASSUME NEW i \in DOMAIN pending', pending'[i] = q PROVE Queued(q) /\ q # o
    BY <1>2, <2>1 DEF Queued, QueuedOnce
  <2>2. ASSUME NEW i \in DOMAIN pending, pending[i] = q, q # o PROVE Queued(q)'
    <3>1. i - 1 \in DOMAIN pending' /\ pending'[i - 1] = q
      BY <1>2, <2>2
    <3> QED
      BY <3>1 DEF Queued
  <2> QED
    BY <2>1, <2>2 DEF Queued
<1>5. Len(pending') <= QueueSize
  BY <1>2, PipelineAssumption
<1>6. Queued(o)
  BY <1>2 DEF Queued
<1> QED
  BY <1>1, <1>2, <1>3, <1>4, <1>5, <1>6

(***************************************************************************)
(* The invariant in the parts that the lemmas speak of                     *)
(***************************************************************************)
MainOK ==
  /\ pending \in Seq(Orders) /\ Len(pending) <= QueueSize /\ running \subseteq Orders
  /\ stage \in {"menu", "submit", "wait", "sort", "shelve", "close", "join", "returned"}
  /\ final \in Orders /\ result \in {"none", "ok", "error"} /\ before \in Seq(Book)
  /\ disturbed \in BOOLEAN
  /\ record \in [Orders -> {"none", "allocated", "sorted", "freed"}]
  /\ stage # "menu" => UniqueIds(before) /\ Len(before) <= MaxBooks

TasksOK == \A o \in Orders : TaskOK(o)
CopiesOK == \A o \in Orders : CopyOK(o)

Parts ==
  SourceOK /\ InventoryTypes /\ MainOK /\ QueuedOnce /\ StageOK /\ BooksOK /\ TasksOK /\ CopiesOK

LEMMA InvariantParts == /\ PipelineInvariant <=> Parts
                        /\ PipelineInvariant' <=> Parts'
<1> USE SameBooks
    DEF PipelineInvariant, Parts, TypeOK, Inv!TypeOK, ArraysUnique, SourceOK, InventoryTypes,
        MainOK, TasksOK, CopiesOK
<1>1. PipelineInvariant <=> Parts
  OBVIOUS
<1>2. PipelineInvariant' <=> Parts'
  OBVIOUS
<1> QED
  BY <1>1, <1>2

\* Where there is no task there is no clone.
LEMMA IdleClones ==
  ASSUME Parts, running = {}
  PROVE  \A o \in Orders : clonePc[o] = "idle" /\ (pending = <<>> => record[o] \in {"none", "freed"})
<1> SUFFICES ASSUME NEW o \in Orders
             PROVE  clonePc[o] = "idle" /\ (pending = <<>> => record[o] \in {"none", "freed"})
  OBVIOUS
<1>1. TaskOK(o) /\ record[o] \in {"none", "allocated", "sorted", "freed"}
  BY DEF Parts, TasksOK, MainOK
<1>2. pending = <<>> => ~Queued(o)
  BY DEF Queued
<1> QED
  BY <1>1, <1>2 DEF TaskOK

LEMMA IdleCopyOK ==
  ASSUME NEW o \in Orders, clonePc[o] = "idle"
  PROVE  CopyOK(o)
BY DEF CopyOK, Inv!CloneFailures, Inv!CreateFailures

LEMMA PipelineInit == Init => PipelineInvariant
<1> SUFFICES ASSUME Init PROVE Parts
  BY InvariantParts
<1> USE DEF Init, Inv!Init, Pool!Init
<1>1. SourceOK /\ InventoryTypes
  BY BooksAssumption DEF SourceOK, InventoryTypes, UniqueIds, Inv!ClonePcs
<1>2. MainOK
  <2>1. <<>> \in Seq(Orders) /\ <<>> \in Seq(Book) /\ Len(<<>>) = 0 /\ 0 <= QueueSize
    BY PipelineAssumption
  <2>2. "title" \in Orders /\ record \in [Orders -> {"none", "allocated", "sorted", "freed"}]
    BY DEF Orders
  <2> QED
    BY <2>1, <2>2 DEF MainOK
<1>3. QueuedOnce /\ StageOK /\ BooksOK
  BY DEF QueuedOnce, StageOK, BooksOK
<1>4. TasksOK
  BY DEF TasksOK, TaskOK, Queued
<1>5. CopiesOK
  BY IdleCopyOK DEF CopiesOK
<1> QED
  BY <1>1, <1>2, <1>3, <1>4, <1>5 DEF Parts

(***************************************************************************)
(* The steps of the main thread and of other threads                       *)
(***************************************************************************)
poolAndRecord == <<pending, running, record>>

LEMMA TasksUnchanged ==
  ASSUME Parts, UNCHANGED poolAndRecord, UNCHANGED clonePc
  PROVE  QueuedOnce' /\ TasksOK'
BY DEF Parts, poolAndRecord, QueuedOnce, TasksOK, TaskOK, Queued

LEMMA WritesKept ==
  ASSUME Parts, MenuStep \/ OutsideWrite
  PROVE  Parts'
<1>1. SourceOK' /\ Inv!Write(books')
  BY WriterKeepsSource DEF Parts, MenuStep, OutsideWrite
<1>2. InventoryTypes' /\ UNCHANGED <<clonePc, expected, copy>>
  BY <1>1, WriteKeepsClones DEF Parts, SourceOK
<1>3. /\ UNCHANGED <<poolVars, record, stage, final, result, before>>
      /\ \/ stage = "menu" /\ disturbed' = disturbed
         \/ stage # "menu" /\ disturbed' = TRUE
  <2>1. CASE MenuStep
    BY <2>1 DEF MenuStep, mainVars
  <2>2. CASE OutsideWrite
    BY <2>2 DEF OutsideWrite
  <2> QED
    BY <2>1, <2>2
<1>4. MainOK' /\ StageOK' /\ BooksOK' /\ CopiesOK'
  <2>1. MainOK'
    <3>1. disturbed' \in BOOLEAN
      BY <1>3 DEF Parts, MainOK
    <3> QED
      BY <1>3, <3>1 DEF Parts, MainOK, poolVars
  <2>2. StageOK'
    <3>1. stage' = "menu" => ~disturbed'
      BY <1>3 DEF Parts, StageOK
    <3> QED
      BY <1>3, <3>1 DEF Parts, StageOK, poolVars
  <2>3. BooksOK' /\ CopiesOK'
    BY <1>3 DEF BooksOK, CopiesOK, CopyOK
  <2> QED
    BY <2>1, <2>2, <2>3
<1>5. QueuedOnce' /\ TasksOK'
  BY <1>2, <1>3, TasksUnchanged DEF poolVars, poolAndRecord
<1> QED
  BY <1>1, <1>2, <1>4, <1>5 DEF Parts

LEMMA CallKept ==
  ASSUME Parts, CreatePoolFails \/ \E o \in FinalOrders : CreatePool(o)
  PROVE  Parts'
<1>1. /\ stage = "menu" /\ stage' \in {"submit", "returned"}
      /\ before' = books /\ final' \in Orders /\ disturbed' = disturbed
      /\ \/ stage' = "submit" /\ result' = result
         \/ stage' = "returned" /\ result' = "error"
      /\ UNCHANGED <<inventoryVars, poolVars, record>>
  <2>1. CASE CreatePoolFails
    BY <2>1 DEF CreatePoolFails, Parts, MainOK
  <2>2. ASSUME NEW o \in FinalOrders, CreatePool(o)
        PROVE  /\ stage = "menu" /\ stage' = "submit"
               /\ before' = books /\ final' \in Orders /\ disturbed' = disturbed
               /\ result' = result /\ UNCHANGED <<inventoryVars, poolVars, record>>
    BY <2>2, PipelineAssumption DEF CreatePool
  <2> QED
    BY <2>1, <2>2
<1>2. SourceOK' /\ InventoryTypes' /\ MainOK'
  BY <1>1 DEF Parts, SourceOK, InventoryTypes, MainOK, inventoryVars, poolVars
<1>3. StageOK' /\ BooksOK'
  BY <1>1 DEF Parts, StageOK, BooksOK, inventoryVars, poolVars
<1>4. QueuedOnce' /\ TasksOK'
  BY <1>1, TasksUnchanged DEF poolVars, poolAndRecord, inventoryVars
<1>5. CopiesOK'
  <2>1. \A o \in Orders : clonePc[o] = "idle"
    BY <1>1, IdleClones DEF Parts, StageOK
  <2> QED
    BY <1>1, <2>1 DEF inventoryVars, CopiesOK, CopyOK, Inv!CloneFailures, Inv!CreateFailures
<1> QED
  BY <1>2, <1>3, <1>4, <1>5 DEF Parts

LEMMA StrategiesAreOrders ==
  ASSUME Submitted < Len(Strategies)
  PROVE  Strategies[Submitted + 1] \in Orders
<1> DEFINE S == {o \in Orders : record[o] # "none"}
<1>1. IsFiniteSet(Orders)
  <2>1. IsFiniteSet({"title"})
    BY FS_Singleton
  <2>2. IsFiniteSet({"title"} \cup {"genre"})
    BY <2>1, FS_AddElement
  <2>3. IsFiniteSet({"title"} \cup {"genre"} \cup {"year"})
    BY <2>2, FS_AddElement
  <2>4. Orders = {"title"} \cup {"genre"} \cup {"year"}
    BY DEF Orders
  <2> QED
    BY <2>3, <2>4
<1>2. IsFiniteSet(S) /\ Cardinality(S) \in Nat
  BY <1>1, FS_Subset, FS_CardinalityType
<1> HIDE DEF S
<1>3. Submitted \in Nat /\ Submitted < 3
  BY <1>2 DEF Submitted, Strategies, S
<1>4. Submitted = 0 \/ Submitted = 1 \/ Submitted = 2
  BY <1>3
<1> QED
  BY <1>4 DEF Strategies, Orders

LEMMA SubmitKept ==
  ASSUME Parts, SubmitTask
  PROVE  Parts'
<1>1. PICK o \in Orders : o = Strategies[Submitted + 1]
  BY StrategiesAreOrders DEF SubmitTask
<1>2. /\ stage = "submit" /\ Pool!Accept(o) /\ record' = [record EXCEPT ![o] = "allocated"]
      /\ UNCHANGED <<inventoryVars, mainVars>>
  BY <1>1 DEF SubmitTask
<1>3. /\ ~Queued(o) /\ o \notin running /\ running' = running
      /\ pending' \in Seq(Orders) /\ Len(pending') <= QueueSize
      /\ QueuedOnce' /\ \A q : Queued(q)' <=> Queued(q) \/ q = o
  BY <1>1, <1>2, AcceptQueues DEF Parts, MainOK
<1>4. SourceOK' /\ InventoryTypes' /\ MainOK'
  BY <1>2, <1>3 DEF Parts, SourceOK, InventoryTypes, MainOK, inventoryVars, mainVars
<1>5. StageOK' /\ BooksOK'
  BY <1>2 DEF Parts, StageOK, BooksOK, inventoryVars, mainVars
<1>6. ASSUME NEW q \in Orders PROVE TaskOK(q)' /\ CopyOK(q)'
  <2>1. TaskOK(q) /\ CopyOK(q) /\ record \in [Orders -> {"none", "allocated", "sorted", "freed"}]
    BY DEF Parts, TasksOK, CopiesOK, MainOK
  <2>2. clonePc' = clonePc /\ copy' = copy /\ expected' = expected /\ seen' = seen
    BY <1>2 DEF inventoryVars
  <2>3. TaskOK(q)'
    BY <1>1, <1>2, <1>3, <2>1, <2>2 DEF TaskOK
  <2>4. CASE q = o
    <3>1. clonePc'[q] = "idle"
      BY <1>3, <2>1, <2>2, <2>4 DEF TaskOK
    <3> QED
      BY <2>3, <3>1 DEF CopyOK, Inv!CloneFailures, Inv!CreateFailures
  <2>5. CASE q # o
    <3>1. record'[q] = record[q] /\ UNCHANGED <<stage, disturbed, before>>
      BY <1>2, <2>1, <2>5 DEF mainVars
    <3> QED
      BY <2>1, <2>2, <2>3, <3>1 DEF CopyOK
  <2> QED
    BY <2>3, <2>4, <2>5
<1> QED
  BY <1>3, <1>4, <1>5, <1>6 DEF Parts, TasksOK, CopiesOK

\* Steps that move the main thread on and touch no task and no book.
LEMMA MovesKept ==
  ASSUME Parts, AllocationFails \/ BeginWait \/ EndWait \/ BeginDestroy \/ FinishDestroy
  PROVE  Parts'
<1>1. UNCHANGED <<inventoryVars, pending, running, final, before, record, disturbed>>
  BY DEF AllocationFails, BeginWait, EndWait, BeginDestroy, FinishDestroy, Goto, Pool!Close,
         Pool!StartWaiting, Pool!StopWaiting, WaitOver, ClosePool, poolVars
<1>2. \/ stage = "submit" /\ stage' = "join" /\ result' = "error"
      \/ stage = "submit" /\ stage' = "wait" /\ result' = result
      \/ stage = "wait" /\ stage' = "sort" /\ result' = result /\ pending = <<>> /\ running = {}
      \/ stage = "close" /\ stage' = "join" /\ result' = result
      \/ stage = "join" /\ stage' = "returned" /\ result' = result /\ pending = <<>> /\ running = {}
  BY DEF AllocationFails, BeginWait, EndWait, BeginDestroy, FinishDestroy, Goto, AfterClose,
         Pool!StopWaiting, WaitOver
<1>3. SourceOK' /\ InventoryTypes' /\ MainOK'
  BY <1>1, <1>2 DEF Parts, SourceOK, InventoryTypes, MainOK, inventoryVars
<1>4. StageOK' /\ BooksOK'
  BY <1>1, <1>2 DEF Parts, StageOK, BooksOK, inventoryVars
<1>5. QueuedOnce' /\ TasksOK'
  BY <1>1, TasksUnchanged DEF poolAndRecord, inventoryVars
<1>6. CopiesOK'
  BY <1>1, <1>2 DEF Parts, CopiesOK, CopyOK, inventoryVars
<1> QED
  BY <1>3, <1>4, <1>5, <1>6 DEF Parts

LEMMA FinalKept ==
  ASSUME Parts, FinalSort \/ FinalShelves
  PROVE  Parts'
<1>1. /\ UNCHANGED <<poolVars, final, before, record, disturbed>> /\ stage' # "menu"
      /\ \/ stage = "sort" /\ stage' = "shelve" /\ result' = result /\ Inv!Sort(final)
         \/ stage = "shelve" /\ stage' = "close" /\ result' = "ok" /\ Inv!AssignShelves
  BY DEF FinalSort, FinalShelves, FinalWrite, Goto
<1>2. /\ SourceOK' /\ Inv!Write(books')
      /\ stage = "sort" => books' \in SortedBy(final, books)
      /\ stage = "shelve" => books' = WithShelves(books)
  BY <1>1, FinalWrites DEF Parts
<1>3. InventoryTypes' /\ UNCHANGED <<clonePc, expected, copy>>
  BY <1>2, WriteKeepsClones DEF Parts, SourceOK
<1>4. MainOK' /\ StageOK'
  BY <1>1 DEF Parts, MainOK, StageOK, poolVars
<1>5. BooksOK'
  BY <1>1, <1>2 DEF Parts, StageOK, BooksOK, Organized
<1>6. QueuedOnce' /\ TasksOK'
  BY <1>1, <1>3, TasksUnchanged DEF poolVars, poolAndRecord
<1>7. CopiesOK'
  <2>1. \A o \in Orders : clonePc[o] = "idle"
    BY <1>1, IdleClones DEF Parts, StageOK
  <2> QED
    BY <1>3, <2>1 DEF CopiesOK, CopyOK, Inv!CloneFailures, Inv!CreateFailures
<1> QED
  BY <1>2, <1>3, <1>4, <1>5, <1>6, <1>7 DEF Parts

(***************************************************************************)
(* The steps of the tasks                                                  *)
(***************************************************************************)
\* As long as there is a task the main thread has not written.
LEMMA TasksBeforeWrites ==
  ASSUME Parts, pending # <<>> \/ running # {}
  PROVE  /\ stage \in {"submit", "wait", "join"} /\ result # "ok"
         /\ ~disturbed => books = before
<1>1. stage \in {"submit", "wait", "join"} /\ result # "ok"
  BY DEF Parts, MainOK, StageOK
<1> QED
  BY <1>1 DEF Parts, BooksOK

LEMMA StartKept ==
  ASSUME Parts, StartTask
  PROVE  Parts'
<1>1. Pool!Start /\ UNCHANGED <<inventoryVars, mainVars, record>> /\ pending # <<>>
  BY DEF StartTask, Pool!Start
<1>2. PICK o \in Orders :
        /\ Queued(o) /\ running' = running \cup {o}
        /\ pending' \in Seq(Orders) /\ Len(pending') <= QueueSize
        /\ QueuedOnce' /\ \A q : Queued(q)' <=> Queued(q) /\ q # o
  BY <1>1, StartDequeues DEF Parts, MainOK
<1>3. SourceOK' /\ InventoryTypes' /\ MainOK'
  BY <1>1, <1>2 DEF Parts, SourceOK, InventoryTypes, MainOK, inventoryVars, mainVars
<1>4. StageOK'
  BY <1>1, TasksBeforeWrites DEF Parts, StageOK, mainVars
<1>5. BooksOK' /\ CopiesOK'
  BY <1>1 DEF Parts, BooksOK, CopiesOK, CopyOK, inventoryVars, mainVars
<1>6. ASSUME NEW q \in Orders PROVE TaskOK(q)'
  <2>1. TaskOK(q) /\ record' = record /\ clonePc' = clonePc
    BY <1>1 DEF Parts, TasksOK, inventoryVars
  <2> QED
    BY <1>2, <2>1 DEF TaskOK
<1> QED
  BY <1>2, <1>3, <1>4, <1>5, <1>6 DEF Parts, TasksOK

LEMMA CloneKept ==
  ASSUME Parts, NEW o \in Orders, CloneStep(o)
  PROVE  Parts'
<1>1. /\ o \in running /\ record[o] = "allocated" /\ CloneCalls(o)
      /\ UNCHANGED <<poolVars, mainVars, record>>
  BY DEF CloneStep, CloneCalls
<1>2. /\ InventoryTypes' /\ UNCHANGED <<books, writes>>
      /\ \A q \in Orders : q # o => /\ clonePc'[q] = clonePc[q] /\ copy'[q] = copy[q]
                                    /\ expected'[q] = expected[q] /\ seen'[q] = seen[q]
  BY <1>1, CloneKeepsTypes DEF Parts
<1>3. SourceOK' /\ MainOK' /\ StageOK' /\ BooksOK' /\ QueuedOnce'
  BY <1>1, <1>2 DEF Parts, SourceOK, MainOK, StageOK, BooksOK, QueuedOnce, mainVars, poolVars
<1>4. ASSUME NEW q \in Orders PROVE TaskOK(q)' /\ CopyOK(q)'
  <2>1. TaskOK(q) /\ CopyOK(q)
    BY DEF Parts, TasksOK, CopiesOK
  <2>2. UNCHANGED <<pending, running, record, stage, disturbed, before>>
    BY <1>1 DEF poolVars, mainVars
  <2>3. TaskOK(q)'
    BY <1>1, <1>2, <2>1, <2>2 DEF TaskOK, Queued
  <2>4. CASE q # o
    BY <1>2, <2>1, <2>2, <2>3, <2>4 DEF CopyOK
  <2>5. CASE q = o /\ ~disturbed
    BY <1>1, <2>1, <2>2, <2>3, <2>5, TasksBeforeWrites, QuietCloneKept DEF Parts
  <2>6. CASE disturbed
    BY <2>2, <2>3, <2>6 DEF CopyOK
  <2> QED
    BY <2>4, <2>5, <2>6
<1> QED
  BY <1>2, <1>3, <1>4 DEF Parts, TasksOK, CopiesOK

LEMMA SortKept ==
  ASSUME Parts, NEW o \in Orders, SortCopy(o)
  PROVE  Parts'
<1>1. PICK s \in SortedBy(o, copy[o]) :
        /\ o \in running /\ record[o] = "allocated" /\ clonePc[o] = "OK"
        /\ copy' = [copy EXCEPT ![o] = s] /\ record' = [record EXCEPT ![o] = "sorted"]
        /\ UNCHANGED <<books, clonePc, expected, seen, writes, poolVars, mainVars>>
  BY DEF SortCopy
<1>2. copy[o] \in Seq(Book)
  BY DEF Parts, InventoryTypes
<1>3. s \in Seq(Book)
  BY <1>2, SortPermutes
<1>4. SourceOK' /\ InventoryTypes'
  BY <1>1, <1>3 DEF Parts, SourceOK, InventoryTypes
<1>5. MainOK' /\ StageOK' /\ BooksOK' /\ QueuedOnce'
  BY <1>1 DEF Parts, MainOK, StageOK, BooksOK, QueuedOnce, mainVars, poolVars
<1>6. ASSUME NEW q \in Orders PROVE TaskOK(q)' /\ CopyOK(q)'
  <2>1. /\ TaskOK(q) /\ CopyOK(q)
        /\ record \in [Orders -> {"none", "allocated", "sorted", "freed"}]
        /\ copy \in [Orders -> Seq(Book)]
    BY DEF Parts, TasksOK, CopiesOK, MainOK, InventoryTypes
  <2>2. UNCHANGED <<pending, running, stage, disturbed, before, clonePc, expected, seen>>
    BY <1>1 DEF poolVars, mainVars
  <2>3. TaskOK(q)'
    BY <1>1, <2>1, <2>2 DEF TaskOK, Queued
  <2>4. CASE q # o
    <3>1. copy'[q] = copy[q] /\ record'[q] = record[q]
      BY <1>1, <2>1, <2>4
    <3> QED
      BY <2>1, <2>2, <2>3, <3>1 DEF CopyOK
  <2>5. CASE q = o
    <3>1. copy'[q] = s /\ record'[q] = "sorted" /\ clonePc'[q] = "OK"
      BY <1>1, <2>1, <2>5
    <3>2. stage # "menu" /\ ~disturbed => s \in SortedBy(q, before)
      BY <1>1, <2>1, <2>5 DEF CopyOK
    <3> QED
      BY <2>2, <2>3, <3>1, <3>2 DEF CopyOK, Inv!CloneFailures, Inv!CreateFailures
  <2> QED
    BY <2>4, <2>5
<1> QED
  BY <1>4, <1>5, <1>6 DEF Parts, TasksOK, CopiesOK

LEMMA EndKept ==
  ASSUME Parts, NEW o \in Orders, EndTask(o)
  PROVE  Parts'
<1>1. /\ Inv!DropClone(o) /\ o \in running /\ running' = running \ {o} /\ pending' = pending
      /\ record' = [record EXCEPT ![o] = "freed"] /\ UNCHANGED mainVars
  BY DEF EndTask, Pool!Complete
<1>2. /\ InventoryTypes' /\ UNCHANGED <<books, writes>>
      /\ \A q \in Orders : q # o => /\ clonePc'[q] = clonePc[q] /\ copy'[q] = copy[q]
                                    /\ expected'[q] = expected[q] /\ seen'[q] = seen[q]
  BY <1>1, CloneKeepsTypes DEF Parts
<1>3. clonePc'[o] = "idle"
  BY <1>1 DEF Inv!DropClone, Parts, InventoryTypes
<1>4. SourceOK' /\ MainOK' /\ StageOK' /\ BooksOK' /\ QueuedOnce'
  <2>1. running' \subseteq Orders
    BY <1>1 DEF Parts, MainOK
  <2>2. stage \in {"submit", "wait", "join"} /\ result # "ok"
    BY <1>1, TasksBeforeWrites
  <2> QED
    BY <1>1, <1>2, <2>1, <2>2 DEF Parts, SourceOK, MainOK, StageOK, BooksOK, QueuedOnce, mainVars
<1>5. ASSUME NEW q \in Orders PROVE TaskOK(q)' /\ CopyOK(q)'
  <2>1. /\ TaskOK(q) /\ CopyOK(q)
        /\ record \in [Orders -> {"none", "allocated", "sorted", "freed"}]
    BY DEF Parts, TasksOK, CopiesOK, MainOK
  <2>2. UNCHANGED <<stage, disturbed, before>> /\ (Queued(q)' <=> Queued(q))
    BY <1>1 DEF mainVars, Queued
  <2>3. CASE q = o
    <3>1. TaskOK(q)'
      BY <1>1, <1>3, <2>1, <2>2, <2>3 DEF TaskOK
    <3> QED
      BY <1>3, <2>3, <3>1 DEF CopyOK, Inv!CloneFailures, Inv!CreateFailures
  <2>4. CASE q # o
    <3>1. record'[q] = record[q] /\ (q \in running' <=> q \in running)
      BY <1>1, <2>1, <2>4
    <3>2. TaskOK(q)'
      BY <1>2, <2>1, <2>2, <2>4, <3>1 DEF TaskOK
    <3> QED
      BY <1>2, <2>1, <2>2, <2>4, <3>1, <3>2 DEF CopyOK
  <2> QED
    BY <2>3, <2>4
<1> QED
  BY <1>2, <1>4, <1>5 DEF Parts, TasksOK, CopiesOK

(***************************************************************************)
(* The theorems                                                            *)
(***************************************************************************)
LEMMA PipelineStep == PipelineInvariant /\ [Next]_vars => PipelineInvariant'
<1> SUFFICES ASSUME Parts, [Next]_vars PROVE Parts'
  BY InvariantParts
<1>1. CASE MenuStep \/ OutsideWrite
  BY <1>1, WritesKept
<1>2. CASE CreatePoolFails \/ \E o \in FinalOrders : CreatePool(o)
  BY <1>2, CallKept
<1>3. CASE MainStep
  BY <1>3, SubmitKept, MovesKept, FinalKept DEF MainStep
<1>4. CASE StartTask
  BY <1>4, StartKept
<1>5. ASSUME NEW o \in Orders, TaskStep(o)
      PROVE  Parts'
  BY <1>5, CloneKept, SortKept, EndKept DEF TaskStep
<1>6. CASE Returned \/ UNCHANGED vars
  <2>1. UNCHANGED vars
    BY <1>6 DEF Returned
  <2> QED
    BY <2>1, InvariantParts
       DEF Parts, SourceOK, InventoryTypes, MainOK, QueuedOnce, StageOK, BooksOK, TasksOK, CopiesOK,
           TaskOK, CopyOK, Queued, vars, inventoryVars, poolVars, mainVars
<1> QED
  BY <1>1, <1>2, <1>3, <1>4, <1>5, <1>6 DEF Next

LEMMA PipelineInvariance == Spec => []PipelineInvariant
BY PipelineInit, PipelineStep, PTL DEF Spec

\* Type correctness, the clones and the array of the inventory included.
THEOREM PipelineTypeCorrect == Spec => []TypeOK
<1>1. PipelineInvariant => TypeOK
  BY DEF PipelineInvariant
<1> QED
  BY <1>1, PipelineInvariance, PTL

\* No clone that was created fails and no two tasks sort different books, unless
\* another thread writes (thread_manager.c:68 waits before the main thread
\* writes), whichever of the other tasks could not create its clone.
THEOREM TasksSortTheSame == Spec => []TasksAgree
<1>1. PipelineInvariant => TasksAgree
  <2> SUFFICES ASSUME Parts, ~disturbed, NEW o \in Orders
               PROVE  /\ seen[o] # {} => clonePc[o] \notin Inv!CloneFailures
                      /\ clonePc[o] = "OK" =>
                           IF record[o] = "sorted" THEN copy[o] \in SortedBy(o, before)
                                                   ELSE copy[o] = before
    BY InvariantParts DEF TasksAgree
  <2>1. CASE stage = "menu"
    <3>1. clonePc[o] = "idle"
      BY <2>1, IdleClones DEF Parts, StageOK
    <3> QED
      BY <3>1 DEF Inv!CloneFailures, Inv!CreateFailures
  <2>2. CASE stage # "menu"
    BY <2>2 DEF Parts, CopiesOK, CopyOK
  <2> QED
    BY <2>1, <2>2
<1> QED
  BY <1>1, PipelineInvariance, PTL

\* A pipeline that has returned has left nothing behind, whatever failed.
THEOREM PipelineLeavesNothing == Spec => []NothingLeft
<1>1. PipelineInvariant => NothingLeft
  BY InvariantParts, IdleClones DEF Parts, StageOK, NothingLeft
<1> QED
  BY <1>1, PipelineInvariance, PTL

\* The inventory is sorted and shelved, or untouched.
THEOREM PipelineResult == Spec => []ResultHolds
<1>1. PipelineInvariant => ResultHolds
  <2> SUFFICES ASSUME Parts, stage = "returned", ~disturbed
               PROVE  books \in IF result = "ok" THEN Organized(final, before) ELSE {before}
    BY InvariantParts DEF ResultHolds
  <2> QED
    BY DEF Parts, BooksOK
<1> QED
  BY <1>1, PipelineInvariance, PTL
===============================================================================

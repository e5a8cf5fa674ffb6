---------------------------- MODULE InventoryProofs ----------------------------
(***************************************************************************)
(* Proofs about the concurrent inventory for every capacity, every number  *)
(* of cloning threads and every sequence of writers.                       *)
(***************************************************************************)
EXTENDS Inventory, BooksProofs

(***************************************************************************)
(* The array of books                                                      *)
(***************************************************************************)
SourceOK == books \in Seq(Book) /\ Len(books) <= MaxBooks /\ UniqueIds(books)

\* Every critical section leaves an array within its capacity, with ids that
\* are unique.
LEMMA WriterKeepsSource ==
  ASSUME SourceOK, WriterStep
  PROVE  SourceOK' /\ Write(books')
<1> USE InventoryAssumption DEF SourceOK
<1>1. ASSUME NEW d \in Catalogue, Add(d)
      PROVE  SourceOK' /\ Write(books')
  <2>1. d \in Details
    OBVIOUS
  <2> QED
    BY <1>1, <2>1, AddKeepsUniqueIds, LenProperties, BooksAssumption DEF Add, Write, Full
<1>2. ASSUME NEW b \in Foreign, Import(b)
      PROVE  SourceOK' /\ Write(books')
  BY <1>2, AppendKeepsUniqueIds, LenProperties, BooksAssumption DEF Import, CanImport, Write, Full
<1>3. ASSUME NEW order \in Orders, Sort(order)
      PROVE  SourceOK' /\ Write(books')
  BY <1>3, SortPermutes DEF Sort, Write
<1>4. CASE Clear
  BY <1>4, BooksAssumption DEF Clear, Write, UniqueIds
<1>5. CASE AssignShelves
  BY <1>5, ShelvesKeepBooks DEF AssignShelves, Write
<1> QED
  BY <1>1, <1>2, <1>3, <1>4, <1>5 DEF WriterStep

LEMMA CloneKeepsSource ==
  ASSUME NEW t \in Cloners, CloneStep(t)
  PROVE  UNCHANGED <<books, writes>>
BY DEF CloneStep, CreateFails, StartClone, CopyBook, IndexGone, BookMoved, CloneFailsWith,
       CloneReturns, DropClone

\* Only Clear empties the array or drops a book.
LEMMA WriterKeepsBooks ==
  ASSUME SourceOK, WriterStep
  PROVE  books' = <<>> \/ Identities(books) \subseteq Identities(books')
<1> USE InventoryAssumption DEF SourceOK
<1>1. ASSUME NEW d \in Catalogue, Add(d)
      PROVE  Identities(books) \subseteq Identities(books')
  BY <1>1, AddKeepsUniqueIds DEF Add, Write, Identities
<1>2. ASSUME NEW b \in Foreign, Import(b)
      PROVE  Identities(books) \subseteq Identities(books')
  BY <1>2, AppendKeepsUniqueIds DEF Import, CanImport, Write, Identities
<1>3. ASSUME NEW order \in Orders, Sort(order)
      PROVE  Identities(books) \subseteq Identities(books')
  BY <1>3, SortPermutes DEF Sort, Write, Identities
<1>4. CASE Clear
  BY <1>4 DEF Clear, Write
<1>5. CASE AssignShelves
  BY <1>5, ShelvesKeepBooks DEF AssignShelves, Write, Identities, Identity
<1> QED
  BY <1>1, <1>2, <1>3, <1>4, <1>5 DEF WriterStep

(***************************************************************************)
(* One clone                                                               *)
(***************************************************************************)
ArraysTyped ==
  /\ clonePc \in [Cloners -> ClonePcs] /\ expected \in [Cloners -> 0 .. MaxBooks]
  /\ copy \in [Cloners -> Seq(Book)] /\ seen \in [Cloners -> SUBSET Seq(Book)]
  /\ writes \in Nat

\* The conjuncts of InventoryInvariant that speak of cloner t.
CloneSeen(t) ==
  /\ clonePc[t] = "copying" => books \in seen[t]
  /\ Len(copy[t]) <= expected[t]
  /\ \A s \in seen[t] : UniqueIds(s) /\ Len(s) <= MaxBooks
CloneFrom(t) ==
  \A i \in DOMAIN copy[t] : \E s \in seen[t] : i \in DOMAIN s /\ s[i] = copy[t][i]
CloneQuiet(t) ==
  \A s \in seen[t] : seen[t] = {s} =>
    /\ expected[t] = Len(s)
    /\ clonePc[t] \notin CloneFailures
    /\ \A i \in DOMAIN copy[t] : i \in DOMAIN s /\ copy[t][i] = s[i]
    /\ clonePc[t] = "OK" => copy[t] = s
CloneOK(t) == UniqueIds(copy[t]) /\ CloneSeen(t) /\ CloneFrom(t) /\ CloneQuiet(t)

LEMMA InvariantParts ==
  /\ InventoryInvariant <=> SourceOK /\ ArraysTyped /\ \A t \in Cloners : CloneOK(t)
  /\ InventoryInvariant' <=> SourceOK' /\ ArraysTyped' /\ \A t \in Cloners : CloneOK(t)'
<1> USE DEF InventoryInvariant, TypeOK, IdsUnique, SeenOK, CopiedFromSource, QuietExpected,
            QuietCloneExact, SourceOK, ArraysTyped, CloneOK, CloneSeen, CloneFrom, CloneQuiet
<1>1. InventoryInvariant <=> SourceOK /\ ArraysTyped /\ \A t \in Cloners : CloneOK(t)
  OBVIOUS
<1>2. InventoryInvariant' <=> SourceOK' /\ ArraysTyped' /\ \A t \in Cloners : CloneOK(t)'
  OBVIOUS
<1> QED
  BY <1>1, <1>2

\* A writer makes the source of a running clone change, and is remembered.
LEMMA WriteKeepsClone ==
  ASSUME SourceOK', ArraysTyped, Write(books'), NEW t \in Cloners, CloneOK(t)
  PROVE  CloneOK(t)'
<1>1. /\ clonePc'[t] = clonePc[t] /\ expected'[t] = expected[t] /\ copy'[t] = copy[t]
      /\ seen'[t] = IF clonePc[t] = "copying" THEN seen[t] \cup {books'} ELSE seen[t]
  BY DEF Write
<1>2. CASE clonePc[t] # "copying"
  BY <1>1, <1>2 DEF CloneOK, CloneSeen, CloneFrom, CloneQuiet
<1>3. CASE clonePc[t] = "copying"
  <2>1. seen'[t] = seen[t] \cup {books'} /\ books \in seen[t]
    BY <1>1, <1>3 DEF CloneOK, CloneSeen
  <2>2. CloneSeen(t)'
    BY <1>1, <2>1 DEF CloneOK, CloneSeen, SourceOK
  <2>3. CloneFrom(t)'
    BY <1>1, <2>1 DEF CloneOK, CloneFrom
  <2>4. ASSUME NEW s, seen'[t] = {s}
        PROVE  s \in seen[t] /\ seen[t] = {s}
    BY <2>1, <2>4
  <2>5. CloneQuiet(t)'
    <3> SUFFICES ASSUME NEW s \in seen'[t], seen'[t] = {s}
                 PROVE  /\ expected'[t] = Len(s)
                        /\ clonePc'[t] \notin CloneFailures
                        /\ \A i \in DOMAIN copy'[t] : i \in DOMAIN s /\ copy'[t][i] = s[i]
                        /\ clonePc'[t] = "OK" => copy'[t] = s
      BY DEF CloneQuiet
    <3>1. s \in seen[t] /\ seen[t] = {s}
      BY <2>4
    <3> QED
      BY <1>1, <3>1 DEF CloneOK, CloneQuiet
  <2> QED
    BY <1>1, <2>2, <2>3, <2>5 DEF CloneOK
<1> QED
  BY <1>2, <1>3

LEMMA OtherCloneKept ==
  ASSUME ArraysTyped, NEW u \in Cloners, CloneStep(u), NEW t \in Cloners, t # u, CloneOK(t)
  PROVE  CloneOK(t)'
<1>1. /\ clonePc'[t] = clonePc[t] /\ expected'[t] = expected[t] /\ copy'[t] = copy[t]
      /\ seen'[t] = seen[t] /\ books' = books
  BY DEF ArraysTyped, CloneStep, CreateFails, StartClone, CopyBook, IndexGone, BookMoved,
         CloneFailsWith, CloneReturns, DropClone
<1> QED
  BY <1>1 DEF CloneOK, CloneSeen, CloneFrom, CloneQuiet

\* The steps of clone itself; in each, the source stands still.
LEMMA CloneStepKept ==
  ASSUME SourceOK, ArraysTyped, NEW t \in Cloners, CloneStep(t), CloneOK(t)
  PROVE  ArraysTyped' /\ CloneOK(t)'
<1> USE DEF ArraysTyped, ClonePcs, CloneFailures, CreateFailures
<1>0. /\ copy[t] \in Seq(Book) /\ Len(copy[t]) \in Nat /\ DOMAIN copy[t] = 1 .. Len(copy[t])
      /\ Len(books) \in Nat /\ DOMAIN books = 1 .. Len(books)
      /\ expected[t] \in Nat
  BY BooksAssumption, LenProperties DEF SourceOK
<1>1. CASE StartClone(t)
  <2>1. /\ clonePc'[t] = "copying" /\ expected'[t] = Len(books)
        /\ copy'[t] = <<>> /\ seen'[t] = {books} /\ books' = books
    BY <1>1 DEF StartClone, ExpectedCount
  <2>2. ArraysTyped'
    BY <1>0, <1>1 DEF StartClone, ExpectedCount, SourceOK
  <2>3. Len(<<>>) = 0 /\ DOMAIN <<>> = {}
    OBVIOUS
  <2> QED
    BY <1>0, <2>1, <2>2, <2>3 DEF CloneOK, CloneSeen, CloneFrom, CloneQuiet, SourceOK, UniqueIds
<1>2. CASE CopyBook(t)
  <2> DEFINE n == Len(copy[t]) + 1
             b == books[n]
  <2>1. /\ clonePc[t] = "copying" /\ n <= expected[t] /\ n \in DOMAIN books
        /\ b \in Book /\ b.id \notin Ids(copy[t])
        /\ copy' = [copy EXCEPT ![t] = Append(copy[t], b)]
        /\ UNCHANGED <<books, clonePc, expected, seen, writes>>
    BY <1>0, <1>2, ElementOfSeq DEF CopyBook, Copying, NextIndex, CanImport, SourceOK
  <2>2. /\ Append(copy[t], b) \in Seq(Book) /\ Len(Append(copy[t], b)) = n
        /\ UniqueIds(Append(copy[t], b))
        /\ DOMAIN Append(copy[t], b) = 1 .. n
        /\ \A i \in 1 .. n - 1 : Append(copy[t], b)[i] = copy[t][i]
        /\ Append(copy[t], b)[n] = b
    BY <1>0, <2>1, AppendKeepsUniqueIds, AppendProperties, LenProperties DEF CloneOK
  <2> HIDE DEF b
  <2>3. ArraysTyped' /\ copy'[t] = Append(copy[t], b)
    BY <2>1, <2>2
  <2>4. CloneSeen(t)'
    BY <2>1, <2>2, <2>3 DEF CloneOK, CloneSeen
  <2>5. CloneFrom(t)'
    <3>1. books \in seen[t] /\ n \in DOMAIN books /\ books[n] = b
      BY <2>1 DEF CloneOK, CloneSeen, b
    <3>2. ASSUME NEW i \in 1 .. n
          PROVE  \E s \in seen[t] : i \in DOMAIN s /\ s[i] = Append(copy[t], b)[i]
      <4>1. CASE i = n
        BY <2>2, <3>1, <4>1
      <4>2. CASE i \in 1 .. n - 1
        <5>1. i \in DOMAIN copy[t]
          BY <1>0, <4>2
        <5>2. \E s \in seen[t] : i \in DOMAIN s /\ s[i] = copy[t][i]
          BY <5>1 DEF CloneOK, CloneFrom
        <5> QED
          BY <2>2, <4>2, <5>2
      <4> QED
        BY <1>0, <4>1, <4>2
    <3> QED
      BY <2>1, <2>2, <2>3, <3>2 DEF CloneFrom
  <2>6. CloneQuiet(t)'
    <3> SUFFICES ASSUME NEW s \in seen[t], seen[t] = {s}
                 PROVE  /\ expected[t] = Len(s)
                        /\ clonePc[t] \notin CloneFailures
                        /\ \A i \in 1 .. n : i \in DOMAIN s /\ Append(copy[t], b)[i] = s[i]
                        /\ clonePc[t] # "OK"
      BY <2>1, <2>2, <2>3 DEF CloneQuiet
    <3>1. s = books
      BY <2>1 DEF CloneOK, CloneSeen
    <3> QED
      BY <1>0, <2>1, <2>2, <3>1 DEF CloneOK, CloneQuiet, b
  <2> QED
    BY <2>2, <2>3, <2>4, <2>5, <2>6 DEF CloneOK
<1>3. CASE IndexGone(t) \/ BookMoved(t)
  <2>1. PICK error \in CloneFailures : CloneFailsWith(t, error)
    BY <1>3 DEF IndexGone, BookMoved
  <2>2. /\ clonePc'[t] = error /\ copy'[t] = <<>> /\ expected' = expected /\ seen' = seen
        /\ books' = books /\ ArraysTyped'
    BY <2>1 DEF CloneFailsWith
  <2>3. ASSUME NEW s \in seen[t], seen[t] = {s}
        PROVE  FALSE
    <3> DEFINE n == Len(copy[t]) + 1
               b == books[n]
    <3>1. s = books /\ n <= Len(books)
      BY <1>0, <1>3, <2>3 DEF IndexGone, BookMoved, Copying, NextIndex, CloneOK, CloneSeen, CloneQuiet
    <3>2. ~CanImport(copy[t], b)
      BY <1>0, <1>3, <3>1 DEF IndexGone, BookMoved, NextIndex
    <3>3. b \in Book /\ ~Full(copy[t])
      BY <1>0, <3>1, ElementOfSeq, BooksAssumption DEF SourceOK, Full
    <3>4. b.id > 0
      BY <3>3 DEF Book
    <3>5. \A i \in 1 .. Len(copy[t]) : copy[t][i] = books[i]
      BY <1>0, <2>3, <3>1 DEF CloneOK, CloneQuiet
    <3>6. \A i \in 1 .. Len(copy[t]) : books[i].id # b.id
      <4> SUFFICES ASSUME NEW i \in 1 .. Len(copy[t]), books[i].id = b.id PROVE FALSE
        OBVIOUS
      <4>1. i \in DOMAIN books /\ n \in DOMAIN books /\ i # n
        BY <1>0, <3>1
      <4> QED
        BY <4>1 DEF SourceOK, UniqueIds
    <3> HIDE DEF b
    <3>7. b.id \notin Ids(copy[t])
      BY <1>0, <3>5, <3>6 DEF Ids
    <3> QED
      BY <3>2, <3>3, <3>4, <3>7 DEF CanImport
  <2>4. Len(<<>>) = 0 /\ DOMAIN <<>> = {}
    OBVIOUS
  <2> QED
    BY <1>0, <2>2, <2>3, <2>4 DEF CloneOK, CloneSeen, CloneFrom, CloneQuiet, UniqueIds
<1>4. CASE CloneReturns(t)
  <2>1. /\ clonePc'[t] = "OK" /\ Len(copy[t]) = expected[t] /\ ArraysTyped'
        /\ UNCHANGED <<books, expected, copy, seen>>
    BY <1>4 DEF CloneReturns
  <2>2. ASSUME NEW s \in seen[t], seen[t] = {s}
        PROVE  copy[t] = s
    <3>1. s \in Seq(Book) /\ Len(copy[t]) = Len(s)
      BY <2>1, <2>2 DEF CloneOK, CloneQuiet
    <3>2. \A i \in 1 .. Len(copy[t]) : copy[t][i] = s[i]
      BY <1>0, <2>2 DEF CloneOK, CloneQuiet
    <3> QED
      BY <1>0, <3>1, <3>2, SeqEqual
  <2> QED
    BY <2>1, <2>2 DEF CloneOK, CloneSeen, CloneFrom, CloneQuiet
<1>5. CASE DropClone(t)
  <2>1. /\ clonePc'[t] = "idle" /\ expected'[t] = 0 /\ copy'[t] = <<>> /\ seen'[t] = {}
        /\ ArraysTyped'
    BY <1>5, BooksAssumption DEF DropClone
  <2>2. Len(<<>>) = 0 /\ DOMAIN <<>> = {}
    OBVIOUS
  <2> QED
    BY <2>1, <2>2 DEF CloneOK, CloneSeen, CloneFrom, CloneQuiet, UniqueIds
<1>6. CASE CreateFails(t)
  <2>1. /\ clonePc'[t] \in CreateFailures /\ expected' = expected /\ copy'[t] = <<>>
        /\ seen'[t] = {} /\ ArraysTyped'
    BY <1>6 DEF CreateFails
  <2>2. Len(<<>>) = 0 /\ DOMAIN <<>> = {}
    OBVIOUS
  <2> QED
    BY <1>0, <2>1, <2>2 DEF CloneOK, CloneSeen, CloneFrom, CloneQuiet, UniqueIds
<1> QED
  BY <1>1, <1>2, <1>3, <1>4, <1>5, <1>6 DEF CloneStep

(***************************************************************************)
(* The theorems                                                            *)
(***************************************************************************)
LEMMA InventoryInit == Init => InventoryInvariant
<1> SUFFICES ASSUME Init PROVE InventoryInvariant
  OBVIOUS
<1>1. SourceOK
  BY BooksAssumption DEF Init, SourceOK, UniqueIds
<1>2. ArraysTyped
  BY BooksAssumption DEF Init, ArraysTyped, ClonePcs
<1>3. \A t \in Cloners : CloneOK(t)
  BY DEF Init, CloneOK, CloneSeen, CloneFrom, CloneQuiet, UniqueIds
<1> QED
  BY <1>1, <1>2, <1>3, InvariantParts

LEMMA InventoryStep == InventoryInvariant /\ [Next]_vars => InventoryInvariant'
<1> SUFFICES ASSUME SourceOK, ArraysTyped, \A t \in Cloners : CloneOK(t), [Next]_vars
             PROVE  SourceOK' /\ ArraysTyped' /\ \A t \in Cloners : CloneOK(t)'
  BY InvariantParts
<1>1. CASE WriterStep
  <2>1. SourceOK' /\ Write(books')
    BY <1>1, WriterKeepsSource
  <2>2. ArraysTyped'
    BY <2>1 DEF Write, ArraysTyped, SourceOK
  <2> QED
    BY <2>1, <2>2, WriteKeepsClone
<1>2. ASSUME NEW u \in Cloners, CloneStep(u)
      PROVE  SourceOK' /\ ArraysTyped' /\ \A t \in Cloners : CloneOK(t)'
  <2>1. SourceOK'
    BY <1>2, CloneKeepsSource DEF SourceOK
  <2>2. ArraysTyped' /\ CloneOK(u)'
    BY <1>2, CloneStepKept
  <2>3. \A t \in Cloners : t # u => CloneOK(t)'
    BY <1>2, OtherCloneKept
  <2> QED
    BY <2>1, <2>2, <2>3
<1>3. CASE UNCHANGED vars
  BY <1>3 DEF vars, SourceOK, ArraysTyped, CloneOK, CloneSeen, CloneFrom, CloneQuiet
<1> QED
  BY <1>1, <1>2, <1>3 DEF Next

LEMMA InventoryInvariance == Spec => []InventoryInvariant
BY InventoryInit, InventoryStep, PTL DEF Spec

\* Type correctness, with the array within its capacity after any calls.
THEOREM InventoryTypeCorrect == Spec => []TypeOK
<1>1. InventoryInvariant => TypeOK
  BY DEF InventoryInvariant
<1> QED
  BY <1>1, InventoryInvariance, PTL

\* Ids are unique in the inventory and in every clone, whatever the writers
\* did while it was made.
THEOREM UniqueIdentifiers == Spec => []IdsUnique
<1>1. InventoryInvariant => IdsUnique
  BY DEF InventoryInvariant
<1> QED
  BY <1>1, InventoryInvariance, PTL

\* A clone that was created and is made while nobody writes does not fail in
\* copying and is the inventory.
THEOREM QuietCloneIsExact == Spec => []QuietCloneExact
<1>1. InventoryInvariant => QuietCloneExact
  BY DEF InventoryInvariant
<1> QED
  BY <1>1, InventoryInvariance, PTL

\* A clone copies only what the source held since the count was read, whatever
\* the writers did in between.
THEOREM CopiesComeFromSource == Spec => []CopiedFromSource
<1>1. InventoryInvariant => CopiedFromSource
  BY DEF InventoryInvariant
<1> QED
  BY <1>1, InventoryInvariance, PTL

\* Adding, importing, sorting and shelving never lose a book.
THEOREM BooksAreKept == Spec => NoBookLost
<1>1. InventoryInvariant /\ [Next]_vars
        => [books' = <<>> \/ Identities(books) \subseteq Identities(books')]_books
  <2> SUFFICES ASSUME SourceOK, [Next]_vars
               PROVE  [books' = <<>> \/ Identities(books) \subseteq Identities(books')]_books
    BY InvariantParts
  <2> QED
    BY WriterKeepsBooks, CloneKeepsSource DEF Next, vars
<1> QED
  BY <1>1, InventoryInvariance, PTL DEF Spec, NoBookLost
===============================================================================

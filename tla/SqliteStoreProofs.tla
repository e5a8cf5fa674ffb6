--------------------------- MODULE SqliteStoreProofs ---------------------------
(***************************************************************************)
(* Proofs about the database sessions, for any number of processes, any    *)
(* contents of the database and inventories of any size: loads and saves   *)
(* that work row by row, fail and crash implement those of AtomicStore.    *)
(***************************************************************************)
EXTENDS SqliteStore, BooksProofs

(***************************************************************************)
(* SELECT ... ORDER BY id                                                  *)
(***************************************************************************)
\* Rows with a primary key can be put in the order of their keys: the place of
\* a row is the number of rows with a key that is not larger.
LEMMA RowsCanBeOrdered ==
  ASSUME NEW rows \in SUBSET Book, IsFiniteSet(rows), KeysUnique(rows)
  PROVE  \E s \in [1 .. Cardinality(rows) -> rows] :
           \A k, l \in DOMAIN s : k < l => s[k].id < s[l].id
<1> DEFINE N == Cardinality(rows)
           upTo(b) == {c \in rows : c.id <= b.id}
           rank == [b \in rows |-> Cardinality(upTo(b))]
<1>1. N \in Nat
  BY FS_CardinalityType
<1>2. \A b \in rows : b.id \in Int
  BY DEF Book
<1>3. ASSUME NEW b \in rows
      PROVE  IsFiniteSet(upTo(b)) /\ Cardinality(upTo(b)) \in 1 .. N
  <2>1. upTo(b) \in SUBSET rows /\ b \in upTo(b)
    BY <1>2
  <2>2. IsFiniteSet(upTo(b)) /\ Cardinality(upTo(b)) <= N
    BY <2>1, FS_Subset
  <2>3. Cardinality(upTo(b)) \in Nat /\ Cardinality(upTo(b)) # 0
    BY <2>1, <2>2, FS_CardinalityType, FS_EmptySet
  <2> QED
    BY <1>1, <2>2, <2>3
<1>4. ASSUME NEW b \in rows, NEW c \in rows, b.id < c.id
      PROVE  Cardinality(upTo(b)) < Cardinality(upTo(c))
  <2>1. upTo(b) \in SUBSET upTo(c) /\ c \in upTo(c) /\ c \notin upTo(b)
    BY <1>2, <1>4
  <2>2. IsFiniteSet(upTo(c)) /\ Cardinality(upTo(c)) \in Nat /\ Cardinality(upTo(b)) \in Nat
    BY <1>3
  <2> HIDE DEF upTo
  <2>3. /\ Cardinality(upTo(b)) <= Cardinality(upTo(c))
        /\ Cardinality(upTo(c)) = Cardinality(upTo(b)) => upTo(c) = upTo(b)
    BY <2>1, <2>2, FS_Subset
  <2> QED
    BY <2>1, <2>2, <2>3
<1> HIDE DEF upTo
<1>5. rank \in Injection(rows, 1 .. N)
  <2>1. rank \in [rows -> 1 .. N]
    BY <1>3
  <2>2. ASSUME NEW b \in rows, NEW c \in rows, rank[b] = rank[c]
        PROVE  b = c
    <3>1. ~(b.id < c.id) /\ ~(c.id < b.id)
      BY <1>3, <1>4, <2>2
    <3> QED
      BY <1>2, <3>1 DEF KeysUnique
  <2> HIDE DEF rank
  <2> QED
    BY <2>1, <2>2 DEF Injection, IsInjective
<1>6. rank \in Surjection(rows, 1 .. N)
  <2>1. IsFiniteSet(1 .. N) /\ Cardinality(1 .. N) = N
    BY <1>1, FS_Interval
  <2> HIDE DEF rank
  <2> QED
    BY <1>5, <2>1, FS_Injection
<1>7. \A k \in 1 .. N : \E b \in rows : rank[b] = k
  <2> HIDE DEF rank
  <2> QED
    BY <1>6 DEF Surjection
<1> DEFINE s == [k \in 1 .. N |-> CHOOSE b \in rows : rank[b] = k]
<1>8. \A k \in 1 .. N : s[k] \in rows /\ rank[s[k]] = k
  <2> HIDE DEF rank
  <2> QED
    BY <1>7
<1>9. s \in [1 .. N -> rows]
  BY <1>8
<1>10. ASSUME NEW k \in 1 .. N, NEW l \in 1 .. N, k < l
       PROVE  s[k].id < s[l].id
  <2>1. /\ s[k] \in rows /\ s[l] \in rows
        /\ Cardinality(upTo(s[k])) = k /\ Cardinality(upTo(s[l])) = l
    BY <1>8
  <2> HIDE DEF s
  <2>2. ~(s[l].id < s[k].id)
    BY <1>1, <1>4, <1>10, <2>1
  <2>3. s[k].id # s[l].id
    BY <1>1, <1>10, <2>1 DEF KeysUnique
  <2> QED
    BY <1>2, <2>1, <2>2, <2>3
<1> HIDE DEF s
<1> QED
  BY <1>9, <1>10

\* The result of the SELECT is a sequence of all the rows.
LEMMA SelectReturnsRows ==
  ASSUME NEW rows \in SUBSET Book, IsFiniteSet(rows), KeysUnique(rows)
  PROVE  ById(rows) \in Seq(Book) /\ Rows(ById(rows)) = rows
<1> DEFINE N == Cardinality(rows)
           s == ById(rows)
<1>1. N \in Nat /\ IsFiniteSet(1 .. N) /\ Cardinality(1 .. N) = N
  BY FS_CardinalityType, FS_Interval
<1>2. s \in [1 .. N -> rows] /\ \A k, l \in DOMAIN s : k < l => s[k].id < s[l].id
  BY RowsCanBeOrdered DEF ById
<1> HIDE DEF s
<1>3. s \in Seq(Book)
  BY <1>1, <1>2
<1>4. s \in Injection(1 .. N, rows)
  <2>1. \A k, l \in 1 .. N : k < l => s[k].id < s[l].id
    BY <1>2
  <2>2. \A k \in 1 .. N : s[k].id \in Int
    BY <1>2 DEF Book
  <2>3. \A k, l \in 1 .. N : s[k] = s[l] => k = l
    BY <1>1, <2>1, <2>2
  <2> QED
    BY <1>2, <2>3 DEF Injection, IsInjective
<1>5. s \in Surjection(1 .. N, rows)
  BY <1>1, <1>4, FS_Injection
<1>6. Rows(s) = rows
  BY <1>2, <1>5 DEF Surjection, Rows, ToSet
<1> QED
  BY <1>3, <1>6 DEF s

(***************************************************************************)
(* The invariant                                                           *)
(***************************************************************************)
LEMMA EmptyInventory ==
  /\ <<>> \in Seq(Book) /\ Len(<<>>) = 0 /\ UniqueIds(<<>>) /\ Rows(<<>>) = {}
  /\ \A s \in Seq(Book) : s \o <<>> = s /\ <<>> \o s = s
BY ConcatEmptySeq DEF UniqueIds, Rows, ToSet

LEMMA StoreInit == Init => StoreInvariant
<1> SUFFICES ASSUME Init PROVE StoreInvariant
  OBVIOUS
<1>1. TypeOK
  BY StoreAssumption, BooksAssumption DEF Init, TypeOK, Pcs
<1>2. DbOK
  BY StoreAssumption DEF Init, DbOK
<1>3. ASSUME NEW p \in Procs PROVE SessionOK(p)
  <2>1. writer # p /\ pc[p] = "down" /\ row[p] = 1 /\ mem[p] = <<>>
    BY StoreAssumption DEF Init
  <2> QED
    BY <2>1, EmptyInventory, BooksAssumption
    DEF SessionOK, MemOK, LoadOK, KnownOK, SaveOK, UpPcs, SavePcs
<1> QED
  BY <1>1, <1>2, <1>3 DEF StoreInvariant

\* What a step of process p leaves alone: the other processes, and of the
\* shared state the database while one of them loads and the transaction while
\* one of them writes.
LEMMA StepOfOne ==
  ASSUME TypeOK, NEW p \in Procs, SaveOK(p), Step(p), NEW q \in Procs, q # p
  PROVE  /\ pc'[q] = pc[q] /\ mem'[q] = mem[q] /\ rest'[q] = rest[q]
         /\ row'[q] = row[q] /\ known'[q] = known[q]
         /\ pc[q] = "loading" => db' = db
         /\ writer' = q <=> writer = q
         /\ writer = q => txn' = txn
<1> USE DEF TypeOK
<1>1. ASSUME writer = p \/ writer = NoProc, writer' \in {writer, NoProc, p}
      PROVE  writer # q /\ writer' # q
  BY <1>1, StoreAssumption
<1>2. CASE Open(p) \/ BeginLoad(p) \/ LoadRow(p) \/ FinishLoad(p)
  BY <1>2 DEF Open, BeginLoad, LoadRow, FinishLoad, Goto
<1>3. CASE FailLoad(p) \/ Exit(p) \/ Crash(p)
  BY <1>3, StoreAssumption DEF FailLoad, FailedLoad, Exit, Crash, Vanishes, Goto
<1>4. CASE (\E d \in Catalogue : Add(p, d))
           \/ (\E order \in Orders : Sort(p, order) \/ Organize(p, order))
  BY <1>4 DEF Add, Sort, Organize, EditTo
<1>5. CASE ChooseSave(p) \/ ChooseExit(p) \/ InsertedAll(p)
  BY <1>5 DEF ChooseSave, ChooseExit, InsertedAll, Goto
<1>6. CASE Begin(p)
  BY <1>6, <1>1 DEF Begin, Goto
<1>7. CASE DeleteRows(p) \/ InsertRow(p)
  BY <1>7, <1>1 DEF DeleteRows, InsertRow, SaveOK, Goto
<1>8. CASE Commit(p)
  BY <1>8, <1>1 DEF Commit, Return, SaveOK, Goto
<1>9. CASE FailSave(p)
  BY <1>9, StoreAssumption DEF FailSave, EndTransaction, Return, Goto
<1> QED
  BY <1>2, <1>3, <1>4, <1>5, <1>6, <1>7, <1>8, <1>9 DEF Step

LEMMA OtherSessionKept ==
  ASSUME TypeOK, NEW p \in Procs, SaveOK(p), Step(p), NEW q \in Procs, q # p, SessionOK(q)
  PROVE  SessionOK(q)'
<1>1. /\ pc'[q] = pc[q] /\ mem'[q] = mem[q] /\ rest'[q] = rest[q]
      /\ row'[q] = row[q] /\ known'[q] = known[q]
      /\ pc[q] = "loading" => db' = db
      /\ writer' = q <=> writer = q
      /\ writer = q => txn' = txn
  BY StepOfOne
<1>2. MemOK(q)' /\ KnownOK(q)'
  BY <1>1 DEF SessionOK, MemOK, KnownOK
<1>3. LoadOK(q)'
  BY <1>1 DEF SessionOK, LoadOK
<1>4. SaveOK(q)'
  BY <1>1 DEF SessionOK, SaveOK
<1> QED
  BY <1>2, <1>3, <1>4 DEF SessionOK

\* A process that is gone holds nothing.
LEMMA VanishedSession ==
  ASSUME TypeOK, NEW p \in Procs, Vanishes(p)
  PROVE  /\ pc' = [pc EXCEPT ![p] = "down"] /\ mem' = [mem EXCEPT ![p] = <<>>]
         /\ UNCHANGED db => TypeOK' /\ SessionOK(p)'
<1>1. /\ pc'[p] = "down" /\ mem'[p] = <<>> /\ row'[p] = 1 /\ writer' # p
      /\ pc' = [pc EXCEPT ![p] = "down"] /\ mem' = [mem EXCEPT ![p] = <<>>]
  BY StoreAssumption DEF TypeOK, Vanishes, Goto
<1>2. UNCHANGED db => TypeOK'
  BY EmptyInventory, BooksAssumption DEF Vanishes, Goto, TypeOK, Pcs
<1> QED
  BY <1>1, <1>2, EmptyInventory, BooksAssumption
  DEF SessionOK, MemOK, LoadOK, KnownOK, SaveOK, UpPcs, SavePcs

\* Reading one more row.
LEMMA RowMoves ==
  ASSUME NEW m \in Seq(Book), NEW r \in Seq(Book), r # <<>>
  PROVE  /\ Head(r) \in Book /\ Tail(r) \in Seq(Book)
         /\ Append(m, Head(r)) \o Tail(r) = m \o r
<1>1. /\ Head(r) \in Book /\ Tail(r) \in Seq(Book) /\ Len(Tail(r)) = Len(r) - 1
      /\ \A i \in 1 .. Len(Tail(r)) : Tail(r)[i] = r[i + 1]
  BY HeadTailProperties
<1>2. /\ Append(m, Head(r)) \in Seq(Book) /\ Len(Append(m, Head(r))) = Len(m) + 1
      /\ \A i \in 1 .. Len(m) : Append(m, Head(r))[i] = m[i]
      /\ Append(m, Head(r))[Len(m) + 1] = Head(r)
  BY <1>1, AppendProperties
<1>3. Len(m) \in Nat /\ Len(r) \in Nat /\ Len(r) > 0 /\ Head(r) = r[1]
  BY LenProperties, EmptySeq
<1> DEFINE x == Append(m, Head(r)) \o Tail(r)
           y == m \o r
<1>4. /\ x \in Seq(Book) /\ Len(x) = Len(m) + Len(r)
      /\ \A i \in 1 .. Len(m) + Len(r) :
           x[i] = IF i <= Len(m) + 1 THEN Append(m, Head(r))[i] ELSE Tail(r)[i - (Len(m) + 1)]
  BY <1>1, <1>2, <1>3, ConcatProperties
<1>5. /\ y \in Seq(Book) /\ Len(y) = Len(m) + Len(r)
      /\ \A i \in 1 .. Len(m) + Len(r) : y[i] = IF i <= Len(m) THEN m[i] ELSE r[i - Len(m)]
  BY ConcatProperties
<1> HIDE DEF x, y
<1>6. ASSUME NEW i \in 1 .. Len(x) PROVE x[i] = y[i]
  <2>1. CASE i <= Len(m)
    BY <1>2, <1>3, <1>4, <1>5, <2>1
  <2>2. CASE i = Len(m) + 1
    BY <1>2, <1>3, <1>4, <1>5, <2>2
  <2>3. CASE i > Len(m) + 1
    <3>1. i - (Len(m) + 1) \in 1 .. Len(Tail(r)) /\ i - Len(m) = (i - (Len(m) + 1)) + 1
      BY <1>1, <1>3, <1>4, <2>3
    <3>2. Tail(r)[i - (Len(m) + 1)] = r[i - Len(m)]
      BY <1>1, <3>1
    <3> QED
      BY <1>3, <1>4, <1>5, <2>3, <3>2
  <2> QED
    BY <1>3, <1>4, <2>1, <2>2, <2>3
<1>7. x = y
  BY <1>4, <1>5, <1>6, SeqEqual
<1> QED
  BY <1>1, <1>7 DEF x, y

\* The menu's edits keep every book and give none the id of another.
LEMMA EditsKeepBooks ==
  ASSUME NEW s \in Seq(Book), UniqueIds(s), Len(s) <= MaxBooks, NEW t,
         \/ ~Full(s) /\ \E d \in Catalogue : t = WithAdded(s, d)
         \/ \E order \in Orders : \E u \in SortedBy(order, s) : t = u \/ t = WithShelves(u)
  PROVE  /\ t \in Seq(Book) /\ UniqueIds(t) /\ Len(t) <= MaxBooks
         /\ Identities(s) \subseteq Identities(t)
<1>1. ASSUME ~Full(s), NEW d \in Catalogue, t = WithAdded(s, d)
      PROVE  /\ t \in Seq(Book) /\ UniqueIds(t) /\ Len(t) <= MaxBooks
             /\ Identities(s) \subseteq Identities(t)
  <2>1. d \in Details
    BY StoreAssumption
  <2>2. Len(s) \in Nat
    BY LenProperties
  <2> QED
    BY <1>1, <2>1, <2>2, AddKeepsUniqueIds, BooksAssumption DEF Full, Identities
<1>2. ASSUME NEW order \in Orders, NEW u \in SortedBy(order, s), t = u \/ t = WithShelves(u)
      PROVE  /\ t \in Seq(Book) /\ UniqueIds(t) /\ Len(t) <= MaxBooks
             /\ Identities(s) \subseteq Identities(t)
  <2>1. /\ u \in Seq(Book) /\ Len(u) = Len(s) /\ UniqueIds(u)
        /\ Identities(s) \subseteq Identities(u)
    BY SortPermutes DEF Identities
  <2>2. /\ WithShelves(u) \in Seq(Book) /\ Len(WithShelves(u)) = Len(u) /\ UniqueIds(WithShelves(u))
        /\ Identities(u) \subseteq Identities(WithShelves(u))
    BY <2>1, ShelvesKeepBooks DEF Identities, Identity
  <2> QED
    BY <1>2, <2>1, <2>2
<1> QED
  BY <1>1, <1>2

\* The books of a save have the keys of the inventory, which are unique.
LEMMA SavedRows ==
  ASSUME NEW s \in Seq(Book), UniqueIds(s)
  PROVE  Rows(s) \in SUBSET Book /\ IsFiniteSet(Rows(s)) /\ KeysUnique(Rows(s))
<1>1. Len(s) \in Nat /\ DOMAIN s = 1 .. Len(s) /\ s \in [1 .. Len(s) -> Book]
  BY LenProperties
<1>2. IsFiniteSet(1 .. Len(s))
  BY <1>1, FS_Interval
<1>3. s \in Surjection(1 .. Len(s), Rows(s))
  BY <1>1 DEF Rows, ToSet, Surjection
<1>4. IsFiniteSet(Rows(s))
  BY <1>2, <1>3, FS_Surjection
<1> QED
  BY <1>1, <1>4 DEF Rows, ToSet, KeysUnique, UniqueIds

\* What a step makes of the process that takes it.
LEMMA OwnSessionKept ==
  ASSUME TypeOK, DbOK, NEW p \in Procs, SessionOK(p), Step(p)
  PROVE  TypeOK' /\ DbOK' /\ SessionOK(p)'
<1> USE DEF TypeOK
<1>0. /\ mem[p] \in Seq(Book) /\ rest[p] \in Seq(Book) /\ Len(mem[p]) \in Nat
      /\ row[p] \in Nat /\ 1 \in 1 .. MaxBooks + 1 /\ MaxBooks \in Nat
      /\ pc[p] \in Pcs
  BY BooksAssumption, LenProperties
<1>1. ASSUME NEW where \in Pcs, pc' = [pc EXCEPT ![p] = where]
      PROVE  pc' \in [Procs -> Pcs] /\ pc'[p] = where
  BY <1>1
<1>2. CASE Open(p)
  BY <1>2 DEF Open, Goto, DbOK, SessionOK, MemOK, LoadOK, KnownOK, SaveOK, Pcs, UpPcs, SavePcs
<1>3. CASE BeginLoad(p)
  <2>1. ById(db) \in Seq(Book) /\ <<>> \o ById(db) = ById(db)
    BY SelectReturnsRows, EmptyInventory DEF DbOK
  <2>2. /\ pc'[p] = "loading" /\ mem'[p] = <<>> /\ rest'[p] = ById(db) /\ known'[p] = db
        /\ UNCHANGED <<db, writer, txn, row, exiting>>
    BY <1>3 DEF BeginLoad, Goto
  <2>3. TypeOK'
    BY <1>3, <2>1, EmptyInventory DEF BeginLoad, Goto, Pcs
  <2> QED
    BY <1>0, <1>3, <2>1, <2>2, <2>3, EmptyInventory
    DEF BeginLoad, DbOK, SessionOK, MemOK, LoadOK, KnownOK, SaveOK, UpPcs, SavePcs
<1>4. CASE LoadRow(p)
  <2> DEFINE b == Head(rest[p])
             m == Append(mem[p], b)
  <2>1. /\ b \in Book /\ Tail(rest[p]) \in Seq(Book) /\ m \o Tail(rest[p]) = mem[p] \o rest[p]
    BY <1>0, <1>4, RowMoves DEF LoadRow
  <2>2. b.id \notin Ids(mem[p]) /\ Len(mem[p]) + 1 <= MaxBooks
    BY <1>0, <1>4 DEF LoadRow, CanImport, Full
  <2>3. m \in Seq(Book) /\ UniqueIds(m) /\ Len(m) <= MaxBooks
    BY <1>0, <2>1, <2>2, AppendKeepsUniqueIds DEF SessionOK, MemOK
  <2>4. /\ mem' = [mem EXCEPT ![p] = m] /\ rest' = [rest EXCEPT ![p] = Tail(rest[p])]
        /\ pc[p] = "loading" /\ UNCHANGED <<db, writer, txn, pc, row, exiting, known>>
    BY <1>4 DEF LoadRow
  <2> HIDE DEF m
  <2>5. TypeOK' /\ mem'[p] = m /\ rest'[p] = Tail(rest[p])
    BY <2>1, <2>3, <2>4
  <2> QED
    BY <2>1, <2>3, <2>4, <2>5
    DEF DbOK, SessionOK, MemOK, LoadOK, KnownOK, SaveOK, UpPcs, SavePcs
<1>5. CASE FinishLoad(p)
  <2>1. mem[p] = ById(db) /\ known[p] = db
    BY <1>0, <1>5, EmptyInventory DEF FinishLoad, SessionOK, LoadOK
  <2>2. Rows(mem[p]) = db
    BY <2>1, SelectReturnsRows DEF DbOK
  <2>3. StoredIdentities(known[p]) \subseteq Identities(mem[p])
    BY <2>1, <2>2 DEF StoredIdentities, Identities, Rows, ToSet
  <2> QED
    BY <1>5, <2>3
    DEF FinishLoad, Goto, DbOK, SessionOK, MemOK, LoadOK, KnownOK, SaveOK, Pcs, UpPcs, SavePcs
<1>6. CASE FailLoad(p) \/ Exit(p) \/ Crash(p)
  <2>1. Vanishes(p) /\ UNCHANGED db
    BY <1>6 DEF FailLoad, FailedLoad, Exit, Crash
  <2> QED
    BY <2>1, VanishedSession DEF DbOK
<1>7. ASSUME NEW t, EditTo(p, t),
             \/ ~Full(mem[p]) /\ \E d \in Catalogue : t = WithAdded(mem[p], d)
             \/ \E order \in Orders : \E u \in SortedBy(order, mem[p]) : t = u \/ t = WithShelves(u)
      PROVE  TypeOK' /\ DbOK' /\ SessionOK(p)'
  <2>1. /\ t \in Seq(Book) /\ UniqueIds(t) /\ Len(t) <= MaxBooks
        /\ Identities(mem[p]) \subseteq Identities(t)
    BY <1>0, <1>7, EditsKeepBooks DEF SessionOK, MemOK
  <2>2. /\ mem' = [mem EXCEPT ![p] = t] /\ pc[p] = "running"
        /\ UNCHANGED <<db, writer, txn, pc, rest, row, exiting, known>>
    BY <1>7 DEF EditTo
  <2>3. TypeOK' /\ mem'[p] = t
    BY <2>1, <2>2
  <2> QED
    BY <2>1, <2>2, <2>3
    DEF DbOK, SessionOK, MemOK, LoadOK, KnownOK, SaveOK, UpPcs, SavePcs
<1>8. CASE (\E d \in Catalogue : Add(p, d))
           \/ (\E order \in Orders : Sort(p, order) \/ Organize(p, order))
  BY <1>7, <1>8 DEF Add, Sort, Organize
<1>9. CASE ChooseSave(p) \/ ChooseExit(p)
  BY <1>9
  DEF ChooseSave, ChooseExit, Goto, DbOK, SessionOK, MemOK, LoadOK, KnownOK, SaveOK, Pcs, UpPcs, SavePcs
<1>10. CASE Begin(p)
  BY <1>10, StoreAssumption
  DEF Begin, Goto, DbOK, SessionOK, MemOK, LoadOK, KnownOK, SaveOK, Pcs, UpPcs, SavePcs
<1>11. CASE DeleteRows(p)
  <2>1. row[p] = 1 /\ writer = p
    BY <1>11 DEF DeleteRows, SessionOK, SaveOK
  <2>2. {mem[p][k] : k \in 1 .. row[p] - 1} = {}
    BY <2>1
  <2> QED
    BY <1>0, <1>11, <2>1, <2>2
    DEF DeleteRows, Remaining, Goto, DbOK, SessionOK, MemOK, LoadOK, KnownOK, SaveOK, Pcs, UpPcs, SavePcs
<1>12. CASE InsertRow(p)
  <2>1. /\ pc[p] = "insert" /\ row[p] \in 1 .. Len(mem[p]) /\ writer = p
        /\ txn = {mem[p][k] : k \in 1 .. row[p] - 1}
        /\ txn' = txn \cup {mem[p][row[p]]} /\ row' = [row EXCEPT ![p] = row[p] + 1]
        /\ UNCHANGED <<db, writer, pc, mem, rest, exiting, known>>
    BY <1>0, <1>12 DEF InsertRow, MoreRows, SessionOK, SaveOK
  <2>2. txn' = {mem[p][k] : k \in 1 .. row[p]}
    BY <1>0, <2>1
  <2>3. row[p] + 1 \in 1 .. MaxBooks + 1 /\ mem[p][row[p]] \in Book
    BY <1>0, <2>1, ElementOfSeq DEF SessionOK, MemOK
  <2>4. TypeOK' /\ row'[p] = row[p] + 1
    BY <2>1, <2>3
  <2> QED
    BY <1>0, <2>1, <2>2, <2>4
    DEF DbOK, SessionOK, MemOK, LoadOK, KnownOK, SaveOK, UpPcs, SavePcs
<1>13. CASE InsertedAll(p)
  <2>0. /\ pc[p] = "insert" /\ ~(row[p] <= Len(mem[p])) /\ writer = p
        /\ row[p] <= Len(mem[p]) + 1 /\ txn = {mem[p][k] : k \in 1 .. row[p] - 1}
    BY <1>13 DEF InsertedAll, MoreRows, SessionOK, SaveOK
  <2>1. row[p] = Len(mem[p]) + 1 /\ row[p] - 1 = Len(mem[p])
    BY <1>0, <2>0
  <2>2. txn = Rows(mem[p])
    <3>1. DOMAIN mem[p] = 1 .. Len(mem[p])
      BY <1>0, LenProperties
    <3> QED
      BY <2>0, <2>1, <3>1 DEF Rows, ToSet
  <2> QED
    BY <1>13, <2>0, <2>1, <2>2
    DEF InsertedAll, Goto, DbOK, SessionOK, MemOK, LoadOK, KnownOK, SaveOK, Pcs, UpPcs, SavePcs
<1>14. CASE Commit(p)
  <2>1. txn = Rows(mem[p]) /\ writer = p
    BY <1>14 DEF Commit, SessionOK, SaveOK
  <2>2. txn \in SUBSET Book /\ IsFiniteSet(txn) /\ KeysUnique(txn)
    BY <1>0, <2>1, SavedRows DEF SessionOK, MemOK
  <2>3. StoredIdentities(txn) \subseteq Identities(mem[p])
    BY <2>1 DEF StoredIdentities, Identities, Rows, ToSet
  <2>4. pc'[p] \in {"leaving", "running"} /\ pc' \in [Procs -> Pcs]
    BY <1>14 DEF Commit, Return, Goto, Pcs, UpPcs
  <2>5. /\ db' = txn /\ writer' = NoProc /\ txn' = {} /\ row'[p] = 1 /\ known'[p] = txn
        /\ mem' = mem /\ rest' = rest /\ exiting' = exiting
        /\ row' = [row EXCEPT ![p] = 1] /\ known' = [known EXCEPT ![p] = txn]
    BY <1>14 DEF Commit, Return
  <2>6. TypeOK'
    BY <1>0, <2>2, <2>4, <2>5
  <2> QED
    BY <2>2, <2>3, <2>4, <2>5, <2>6, StoreAssumption
    DEF DbOK, SessionOK, MemOK, LoadOK, KnownOK, SaveOK
<1>15. CASE FailSave(p)
  <2>1. pc'[p] \in {"leaving", "running"} /\ pc' \in [Procs -> Pcs]
    BY <1>15 DEF FailSave, Return, Goto, Pcs, UpPcs
  <2>2. /\ writer' # p /\ writer' \in Procs \cup {NoProc} /\ txn' \in SUBSET Book
        /\ row' = [row EXCEPT ![p] = 1] /\ UNCHANGED <<db, mem, rest, exiting, known>>
    BY <1>15, StoreAssumption DEF FailSave, EndTransaction, Return
  <2>3. TypeOK' /\ row'[p] = 1
    BY <1>0, <2>1, <2>2
  <2>4. pc[p] \in UpPcs
    BY <1>15 DEF FailSave, UpPcs
  <2> QED
    BY <2>1, <2>2, <2>3, <2>4
    DEF DbOK, SessionOK, MemOK, LoadOK, KnownOK, SaveOK
<1> QED
  BY <1>2, <1>3, <1>4, <1>5, <1>6, <1>8, <1>9, <1>10, <1>11, <1>12, <1>13, <1>14, <1>15 DEF Step

LEMMA StoreStep == StoreInvariant /\ [Next]_vars => StoreInvariant'
<1> SUFFICES ASSUME StoreInvariant, [Next]_vars PROVE StoreInvariant'
  OBVIOUS
<1>1. ASSUME NEW p \in Procs, Step(p) PROVE StoreInvariant'
  <2>1. TypeOK' /\ DbOK' /\ SessionOK(p)'
    BY <1>1, OwnSessionKept DEF StoreInvariant
  <2>2. ASSUME NEW q \in Procs, q # p PROVE SessionOK(q)'
    BY <1>1, <2>2, OtherSessionKept DEF StoreInvariant, SessionOK
  <2> QED
    BY <2>1, <2>2 DEF StoreInvariant
<1>2. CASE UNCHANGED vars
  BY <1>2 DEF vars, StoreInvariant, TypeOK, DbOK, SessionOK, MemOK, LoadOK, KnownOK, SaveOK
<1> QED
  BY <1>1, <1>2 DEF Next

LEMMA StoreInvariance == Spec => []StoreInvariant
BY StoreInit, StoreStep, PTL DEF Spec

(***************************************************************************)
(* The theorems                                                            *)
(***************************************************************************)
\* Every error path of a save, and every end of a process, gives up the write
\* transaction.
THEOREM TransactionsEnd == Spec => []NoTransactionLeftOpen
<1>1. StoreInvariant => NoTransactionLeftOpen
  BY DEF StoreInvariant, TypeOK, SessionOK, SaveOK, NoTransactionLeftOpen
<1> QED
  BY <1>1, StoreInvariance, PTL

\* No INSERT of a save fails because of the primary key.
THEOREM KeysAccepted == Spec => []KeyNeverViolated
<1>1. ASSUME StoreInvariant, NEW p \in Procs, pc[p] = "insert", MoreRows(p), NEW b \in txn
      PROVE  b.id # mem[p][row[p]].id
  <2>1. /\ mem[p] \in Seq(Book) /\ row[p] \in Nat \ {0} /\ row[p] <= Len(mem[p])
        /\ txn = {mem[p][k] : k \in 1 .. row[p] - 1} /\ UniqueIds(mem[p])
    BY <1>1, BooksAssumption DEF StoreInvariant, TypeOK, SessionOK, SaveOK, MemOK, MoreRows
  <2>2. PICK k \in 1 .. row[p] - 1 : b = mem[p][k]
    BY <1>1, <2>1
  <2>3. k \in DOMAIN mem[p] /\ row[p] \in DOMAIN mem[p] /\ k # row[p]
    BY <2>1, LenProperties
  <2> QED
    BY <2>1, <2>2, <2>3 DEF UniqueIds
<1>2. StoreInvariant => KeyNeverViolated
  BY <1>1 DEF KeyNeverViolated
<1> QED
  BY <1>2, StoreInvariance, PTL

\* A commit keeps every book its process saw in the database.
THEOREM KnownBooksAreKept == Spec => NoKnownBookLost
<1>1. ASSUME StoreInvariant, NEW p \in Procs, Commit(p)
      PROVE  StoredIdentities(known[p]) \subseteq StoredIdentities(db')
  <2>1. /\ pc[p] = "commit" /\ db' = txn /\ txn = Rows(mem[p])
        /\ StoredIdentities(known[p]) \subseteq Identities(mem[p])
    BY <1>1 DEF Commit, StoreInvariant, SessionOK, SaveOK, KnownOK, UpPcs, SavePcs
  <2>2. StoredIdentities(Rows(mem[p])) = Identities(mem[p])
    BY DEF StoredIdentities, Identities, Rows, ToSet
  <2> QED
    BY <2>1, <2>2
<1>2. StoreInvariant /\ [Next]_vars
        => [\A p \in Procs : Commit(p) =>
              StoredIdentities(known[p]) \subseteq StoredIdentities(db')]_vars
  BY <1>1
<1> QED
  BY <1>2, StoreInvariance, PTL DEF Spec, NoKnownBookLost

(***************************************************************************)
(* Places. A load takes rows of a database without a double place, each    *)
(* once; a save stores an inventory without one.                           *)
(***************************************************************************)
LEMMA EditsKeepPlaces ==
  ASSUME NEW s \in Seq(Book), SlotsDistinct(s), NEW t,
         \/ \E d \in Catalogue : t = WithAdded(s, d)
         \/ \E order \in Orders : \E u \in SortedBy(order, s) : t = u \/ t = WithShelves(u)
  PROVE  SlotsDistinct(t)
<1>1. ASSUME NEW d \in Catalogue PROVE SlotsDistinct(WithAdded(s, d))
  BY StoreAssumption, AddKeepsPlaces
<1>2. ASSUME NEW order \in Orders, NEW u \in SortedBy(order, s)
      PROVE  SlotsDistinct(u) /\ SlotsDistinct(WithShelves(u))
  BY SortPermutes, SortKeepsPlaces, ShelvesDistinct
<1> QED
  BY <1>1, <1>2

\* A prefix of the rows, which are different books of the database.
LEMMA LoadedPlaces ==
  ASSUME NEW rows \in SUBSET Book, IsFiniteSet(rows), KeysUnique(rows), PlacesUnique(rows),
         NEW m \in Seq(Book), NEW r \in Seq(Book), UniqueIds(m), m \o r = ById(rows)
  PROVE  SlotsDistinct(m)
<1>1. Rows(m \o r) = rows
  BY SelectReturnsRows
<1>2. DOMAIN m = 1 .. Len(m) /\ Len(m) \in Nat /\ Len(r) \in Nat
  BY LenProperties
<1>3. ASSUME NEW i \in DOMAIN m PROVE m[i] \in rows
  <2>1. i \in 1 .. Len(m) + Len(r) /\ i <= Len(m)
    BY <1>2
  <2>2. (m \o r)[i] = m[i]
    BY <2>1, ConcatProperties
  <2>3. DOMAIN (m \o r) = 1 .. Len(m) + Len(r)
    BY ConcatProperties, LenProperties
  <2> QED
    BY <1>1, <2>1, <2>2, <2>3 DEF Rows, ToSet
<1>4. ASSUME NEW i \in DOMAIN m, NEW j \in DOMAIN m, m[i].shelf > 0,
             m[i].shelf = m[j].shelf, m[i].position = m[j].position
      PROVE  i = j
  <2>1. m[i] = m[j]
    BY <1>3, <1>4 DEF PlacesUnique
  <2> QED
    BY <2>1 DEF UniqueIds
<1> QED
  BY <1>4 DEF SlotsDistinct

LEMMA PlacesStep ==
  StoreInvariant /\ PlacesDistinct /\ [Next]_vars => PlacesDistinct'
<1> SUFFICES ASSUME StoreInvariant, PlacesDistinct, [Next]_vars PROVE PlacesDistinct'
  OBVIOUS
<1>1. StoreInvariant'
  BY StoreStep
<1>2. CASE UNCHANGED vars
  BY <1>2 DEF vars, PlacesDistinct, PlacesUnique
<1>3. ASSUME NEW p \in Procs, Step(p) PROVE PlacesDistinct'
  <2>1. /\ mem \in [Procs -> Seq(Book)] /\ pc \in [Procs -> Pcs] /\ SaveOK(p)
        /\ PlacesUnique(db) /\ \A q \in Procs : SlotsDistinct(mem[q])
    BY DEF StoreInvariant, TypeOK, SessionOK, PlacesDistinct
  <2>2. \A q \in Procs \ {p} : mem'[q] = mem[q]
    BY <1>3, <2>1, StepOfOne DEF StoreInvariant
  <2>3. ASSUME PlacesUnique(db)', SlotsDistinct(mem'[p]) PROVE PlacesDistinct'
    BY <2>1, <2>2, <2>3 DEF PlacesDistinct
  <2>4. SlotsDistinct(<<>>)
    BY DEF SlotsDistinct
  <2>5. ASSUME UNCHANGED db PROVE PlacesUnique(db)'
    BY <2>1, <2>5 DEF PlacesUnique
  <2>6. CASE Open(p) \/ FinishLoad(p) \/ ChooseSave(p) \/ ChooseExit(p) \/ Begin(p)
             \/ DeleteRows(p) \/ InsertRow(p) \/ InsertedAll(p) \/ FailSave(p)
    <3>1. UNCHANGED <<db, mem>>
      BY <2>6 DEF Open, FinishLoad, ChooseSave, ChooseExit, Begin, DeleteRows, InsertRow,
                  InsertedAll, FailSave, Return
    <3> QED
      BY <2>1, <2>3, <2>5, <3>1
  <2>7. CASE BeginLoad(p)
    <3>1. mem'[p] = <<>> /\ UNCHANGED db
      BY <2>1, <2>7 DEF BeginLoad
    <3> QED
      BY <2>3, <2>4, <2>5, <3>1
  <2>8. CASE LoadRow(p)
    <3>1. pc'[p] = "loading" /\ UNCHANGED db
      BY <2>8 DEF LoadRow
    <3>2. SlotsDistinct(mem'[p])
      <4>1. /\ db' \in SUBSET Book /\ IsFiniteSet(db') /\ KeysUnique(db') /\ PlacesUnique(db')
            /\ mem'[p] \in Seq(Book) /\ rest'[p] \in Seq(Book)
            /\ UniqueIds(mem'[p]) /\ mem'[p] \o rest'[p] = ById(db')
        BY <1>1, <2>5, <3>1 DEF StoreInvariant, TypeOK, DbOK, SessionOK, MemOK, LoadOK
      <4> QED
        BY <4>1, LoadedPlaces
    <3> QED
      BY <2>3, <2>5, <3>1, <3>2
  <2>9. CASE FailLoad(p) \/ Exit(p) \/ Crash(p)
    <3>1. mem'[p] = <<>> /\ UNCHANGED db
      BY <2>1, <2>9 DEF FailLoad, FailedLoad, Exit, Crash, Vanishes
    <3> QED
      BY <2>3, <2>4, <2>5, <3>1
  <2>10. CASE (\E d \in Catalogue : Add(p, d))
              \/ (\E order \in Orders : Sort(p, order) \/ Organize(p, order))
    <3>1. PICK t : /\ EditTo(p, t)
                   /\ \/ \E d \in Catalogue : t = WithAdded(mem[p], d)
                      \/ \E order \in Orders :
                           \E u \in SortedBy(order, mem[p]) : t = u \/ t = WithShelves(u)
      BY <2>10 DEF Add, Sort, Organize
    <3>2. mem'[p] = t /\ UNCHANGED db
      BY <2>1, <3>1 DEF EditTo
    <3>3. SlotsDistinct(t)
      BY <2>1, <3>1, EditsKeepPlaces
    <3> QED
      BY <2>3, <2>5, <3>2, <3>3
  <2>11. CASE Commit(p)
    <3>1. db' = Rows(mem[p]) /\ mem' = mem
      BY <2>1, <2>11 DEF Commit, Return, SaveOK
    <3>2. PlacesUnique(db)'
      BY <2>1, <3>1 DEF PlacesUnique, Rows, ToSet, SlotsDistinct
    <3> QED
      BY <2>1, <2>3, <3>1, <3>2
  <2> QED
    BY <1>3, <2>6, <2>7, <2>8, <2>9, <2>10, <2>11 DEF Step
<1> QED
  BY <1>2, <1>3 DEF Next

\* No two books ever stand in one place, if that was so in the database the
\* program found first.
THEOREM PlacesStayDistinct ==
  ASSUME \A rows \in InitialDbs : PlacesUnique(rows)
  PROVE  Spec => []PlacesDistinct
<1>1. Init => PlacesDistinct
  BY DEF Init, PlacesDistinct, SlotsDistinct
<1> QED
  BY <1>1, PlacesStep, StoreInvariance, PTL DEF Spec

(***************************************************************************)
(* Refinement: a load that finishes is Start, an edit is Edit, a commit is *)
(* Save, and the end of a process that had started is Stop; every other    *)
(* step is not seen.                                                       *)
(***************************************************************************)
Shown == [p \in Procs |-> IF pc[p] \in UpPcs THEN mem[p] ELSE <<>>]
Started == {p \in Procs : pc[p] \in UpPcs}

LEMMA Unseen ==
  ASSUME TypeOK, NEW p \in Procs, UNCHANGED <<db, mem>>, NEW where, pc' = [pc EXCEPT ![p] = where],
         pc[p] \in UpPcs <=> where \in UpPcs
  PROVE  UNCHANGED <<db, Shown, Started>>
BY DEF TypeOK, Shown, Started

LEMMA AtomicStep ==
  ASSUME StoreInvariant, NEW p \in Procs, Step(p)
  PROVE  \/ p \notin Started /\ Started' = Started \cup {p} /\ UNCHANGED db
            /\ Shown' = [Shown EXCEPT ![p] = ById(db)]
         \/ p \in Started /\ UNCHANGED <<db, Started>>
            /\ Shown' = [Shown EXCEPT ![p] = Shown'[p]]
            /\ UniqueIds(Shown'[p]) /\ Identities(Shown[p]) \subseteq Identities(Shown'[p])
         \/ p \in Started /\ db' = Rows(Shown[p]) /\ UNCHANGED <<Shown, Started>>
         \/ p \in Started /\ Started' = Started \ {p} /\ UNCHANGED db
            /\ Shown' = [Shown EXCEPT ![p] = <<>>]
         \/ UNCHANGED <<db, Shown, Started>>
<1> USE DEF StoreInvariant, TypeOK
<1>0. mem[p] \in Seq(Book) /\ SessionOK(p) /\ SessionOK(p)'
  BY OwnSessionKept
<1>1. CASE Open(p)
  BY <1>1, Unseen DEF Open, Goto, UpPcs, SavePcs
<1>2. CASE BeginLoad(p) \/ LoadRow(p)
  BY <1>2 DEF BeginLoad, LoadRow, Goto, Shown, Started, UpPcs, SavePcs
<1>3. CASE FinishLoad(p)
  <2>1. mem[p] = ById(db)
    BY <1>0, <1>3, EmptyInventory DEF FinishLoad, SessionOK, LoadOK
  <2> QED
    BY <1>3, <2>1 DEF FinishLoad, Goto, Shown, Started, UpPcs, SavePcs
<1>4. CASE FailLoad(p) \/ Exit(p) \/ Crash(p)
  <2>1. Vanishes(p) /\ UNCHANGED db
    BY <1>4 DEF FailLoad, FailedLoad, Exit, Crash
  <2>2. pc' = [pc EXCEPT ![p] = "down"] /\ mem' = [mem EXCEPT ![p] = <<>>]
    BY <2>1, VanishedSession
  <2>3. /\ Started' = Started \ {p} /\ Shown' = [Shown EXCEPT ![p] = <<>>]
        /\ p \notin Started => UNCHANGED <<Shown, Started>>
    BY <2>2 DEF Shown, Started, UpPcs, SavePcs
  <2> QED
    BY <2>1, <2>3
<1>5. ASSUME NEW t, EditTo(p, t),
             \/ ~Full(mem[p]) /\ \E d \in Catalogue : t = WithAdded(mem[p], d)
             \/ \E order \in Orders : \E u \in SortedBy(order, mem[p]) : t = u \/ t = WithShelves(u)
      PROVE  /\ p \in Started /\ UNCHANGED <<db, Started>>
             /\ Shown' = [Shown EXCEPT ![p] = Shown'[p]]
             /\ UniqueIds(Shown'[p]) /\ Identities(Shown[p]) \subseteq Identities(Shown'[p])
  <2>1. UniqueIds(t) /\ Identities(mem[p]) \subseteq Identities(t)
    BY <1>0, <1>5, EditsKeepBooks DEF SessionOK, MemOK
  <2>2. /\ p \in Started /\ UNCHANGED <<db, Started>>
        /\ Shown[p] = mem[p] /\ Shown' = [Shown EXCEPT ![p] = t]
    BY <1>5 DEF EditTo, Shown, Started, UpPcs
  <2>3. Shown'[p] = t
    BY <2>2 DEF Shown
  <2> QED
    BY <2>1, <2>2, <2>3
<1>6. CASE (\E d \in Catalogue : Add(p, d))
           \/ (\E order \in Orders : Sort(p, order) \/ Organize(p, order))
  BY <1>5, <1>6 DEF Add, Sort, Organize
<1>7. CASE ChooseSave(p) \/ ChooseExit(p) \/ Begin(p) \/ DeleteRows(p) \/ InsertedAll(p)
  BY <1>7, Unseen DEF ChooseSave, ChooseExit, Begin, DeleteRows, InsertedAll, Goto, UpPcs, SavePcs
<1>8. CASE InsertRow(p)
  BY <1>8 DEF InsertRow, Shown, Started
<1>9. CASE Commit(p)
  <2>1. db' = Rows(mem[p])
    BY <1>0, <1>9 DEF Commit, SessionOK, SaveOK
  <2>2. UNCHANGED <<Shown, Started>> /\ p \in Started /\ Shown[p] = mem[p]
    BY <1>9 DEF Commit, Return, Goto, Shown, Started, UpPcs, SavePcs
  <2> QED
    BY <2>1, <2>2
<1>10. CASE FailSave(p)
  BY <1>10, Unseen DEF FailSave, Return, Goto, UpPcs
<1> QED
  BY <1>1, <1>2, <1>3, <1>4, <1>6, <1>7, <1>8, <1>9, <1>10 DEF Step

\* Loads and saves that work row by row are atomic, whatever fails or crashes.
THEOREM SessionsImplementAtomicStore == Spec => ImplementsAtomicStore
<1>1. Init => Atomic!Init
  BY DEF Init, Atomic!Init, UpPcs, SavePcs
<1>2. StoreInvariant /\ [Next]_vars => [Atomic!Next]_(Atomic!vars)
  <2> SUFFICES ASSUME StoreInvariant, [Next]_vars PROVE [Atomic!Next]_(Atomic!vars)
    OBVIOUS
  <2>0. Atomic!ById(db) = ById(db) /\ \A s : Atomic!Rows(s) = Rows(s)
    <3>1. Atomic!Cardinality(db) = Cardinality(db)
      BY Zenon DEF Cardinality, Atomic!Cardinality
    <3> QED
      BY <3>1, Zenon DEF Rows, ById, ToSet, Atomic!ById, Atomic!Rows, Atomic!ToSet
  <2>1. ASSUME NEW p \in Procs, Step(p)
        PROVE  [Atomic!Next]_(Atomic!vars)
    <3> DEFINE m == Shown
               u == Started
    <3>1. CASE /\ p \notin u /\ u' = u \cup {p} /\ UNCHANGED db
               /\ m' = [m EXCEPT ![p] = ById(db)]
      BY <2>0, <3>1 DEF Shown, Started, Atomic!Next, Atomic!Start
    <3>2. CASE /\ p \in u /\ UNCHANGED <<db, u>> /\ m' = [m EXCEPT ![p] = m'[p]]
               /\ UniqueIds(m'[p]) /\ Identities(m[p]) \subseteq Identities(m'[p])
      BY <3>2
      DEF Shown, Started, UniqueIds, Identities, Identity, Atomic!Next, Atomic!Edit,
          Atomic!UniqueIds, Atomic!Identities, Atomic!Identity
    <3>3. CASE p \in u /\ db' = Rows(m[p]) /\ UNCHANGED <<m, u>>
      BY <2>0, <3>3 DEF Shown, Started, Atomic!Next, Atomic!Save
    <3>4. CASE /\ p \in u /\ u' = u \ {p} /\ UNCHANGED db
               /\ m' = [m EXCEPT ![p] = <<>>]
      BY <3>4 DEF Shown, Started, Atomic!Next, Atomic!Stop
    <3>5. CASE UNCHANGED <<db, m, u>>
      BY <3>5 DEF Shown, Started, Atomic!vars
    <3> HIDE DEF m, u
    <3> QED
      BY <2>1, <3>1, <3>2, <3>3, <3>4, <3>5, AtomicStep DEF m, u
  <2>2. CASE UNCHANGED vars
    BY <2>2 DEF vars, Atomic!vars
  <2> QED
    BY <2>1, <2>2 DEF Next
<1> QED
  BY <1>1, <1>2, StoreInvariance, PTL DEF Spec, ImplementsAtomicStore, Atomic!Spec
===============================================================================

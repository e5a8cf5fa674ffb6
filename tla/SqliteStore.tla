------------------------------ MODULE SqliteStore ------------------------------
(***************************************************************************)
(* The sessions of the program with its SQLite database: main.c with the   *)
(* repository (repository.c) and the storage engine (storage_sqlite.c).    *)
(*                                                                         *)
(* A process opens the database, loads the inventory row by row, edits it  *)
(* in memory and saves it row by row inside one transaction, on request    *)
(* and before it exits. Every call into SQLite may fail, a process may     *)
(* crash at any point, and several processes may use the same file. Within *)
(* a process only the main thread uses the repository, so its inventory    *)
(* stands still while it is saved.                                         *)
(*                                                                         *)
(* SQLite itself is external. With the rollback journal (the code sets no  *)
(* journal mode) one connection at a time may write, a commit does not     *)
(* succeed while another connection reads, and a transaction that was not  *)
(* committed is undone, also after a crash.                                *)
(***************************************************************************)
EXTENDS Books, SequencesExt

CONSTANTS
  Procs,       \* processes that use the database file
  NoProc,      \* nobody
  Catalogue,   \* the details a user may enter
  InitialDbs   \* the contents the database may have at first

\* The primary key of table books.
KeysUnique(rows) == \A b, c \in rows : b.id = c.id => b = c

ASSUME StoreAssumption ==
  /\ NoProc \notin Procs /\ Catalogue \subseteq Details
  /\ \A rows \in InitialDbs : rows \subseteq Book /\ IsFiniteSet(rows) /\ KeysUnique(rows)

VARIABLES
  db,       \* the committed rows of table books
  writer,   \* the process with an open write transaction
  txn,      \* the rows that transaction would leave
  pc,       \* where each process is in main, load and save
  mem,      \* its inventory
  rest,     \* the rows its SELECT has not returned yet
  row,      \* the index of the book its save inserts next
  exiting,  \* the processes that save because they exit
  known     \* history: the rows each process last saw in the database

vars == <<db, writer, txn, pc, mem, rest, row, exiting, known>>

SavePcs == {"begin", "delete", "insert", "commit"}
UpPcs == {"running", "leaving"} \cup SavePcs
Pcs == {"down", "opened", "loading"} \cup UpPcs

Rows(s) == ToSet(s)

\* SELECT ... ORDER BY id.
ById(rows) == CHOOSE s \in [1 .. Cardinality(rows) -> rows] :
                \A k, l \in DOMAIN s : k < l => s[k].id < s[l].id

Init ==
  /\ db \in InitialDbs /\ writer = NoProc /\ txn = {}
  /\ pc = [p \in Procs |-> "down"] /\ mem = [p \in Procs |-> <<>>]
  /\ rest = [p \in Procs |-> <<>>] /\ row = [p \in Procs |-> 1] /\ exiting = {}
  /\ known = [p \in Procs |-> {}]

Goto(p, where) == pc' = [pc EXCEPT ![p] = where]

\* The memory of a process is gone, and with it an uncommitted transaction.
Vanishes(p) ==
  /\ Goto(p, "down")
  /\ mem' = [mem EXCEPT ![p] = <<>>] /\ rest' = [rest EXCEPT ![p] = <<>>]
  /\ row' = [row EXCEPT ![p] = 1] /\ exiting' = exiting \ {p}
  /\ known' = [known EXCEPT ![p] = {}]
  /\ IF writer = p THEN writer' = NoProc /\ txn' = {} ELSE UNCHANGED <<writer, txn>>

(***************************************************************************)
(* Start: open, load                                                       *)
(***************************************************************************)
\* The inventory and the database are there, the schema exists. An open that
\* fails ends the process where it began.
Open(p) ==
  /\ pc[p] = "down" /\ Goto(p, "opened")
  /\ UNCHANGED <<db, writer, txn, mem, rest, row, exiting, known>>

\* The inventory is cleared; the first step of the SELECT fixes its result.
BeginLoad(p) ==
  /\ pc[p] = "opened" /\ Goto(p, "loading")
  /\ mem' = [mem EXCEPT ![p] = <<>>] /\ rest' = [rest EXCEPT ![p] = ById(db)]
  /\ known' = [known EXCEPT ![p] = db]
  /\ UNCHANGED <<db, writer, txn, row, exiting>>

LoadRow(p) ==
  /\ pc[p] = "loading" /\ rest[p] # <<>> /\ CanImport(mem[p], Head(rest[p]))
  /\ mem' = [mem EXCEPT ![p] = Append(@, Head(rest[p]))]
  /\ rest' = [rest EXCEPT ![p] = Tail(@)]
  /\ UNCHANGED <<db, writer, txn, pc, row, exiting, known>>

FinishLoad(p) ==
  /\ pc[p] = "loading" /\ rest[p] = <<>> /\ Goto(p, "running")
  /\ UNCHANGED <<db, writer, txn, mem, rest, row, exiting, known>>

FaultyFailedLoad(p) ==
  /\ Goto(p, "running") /\ rest' = [rest EXCEPT ![p] = <<>>]
  /\ UNCHANGED <<writer, txn, mem, row, exiting, known>>
\* The inventory holds some of the rows: main exits and saves nothing.
FailedLoad(p) == Vanishes(p)

\* A prepare or step that fails, or a row the inventory does not take.
FailLoad(p) == pc[p] \in {"opened", "loading"} /\ FailedLoad(p) /\ UNCHANGED db

(***************************************************************************)
(* The menu                                                                *)
(***************************************************************************)
EditTo(p, s) ==
  /\ pc[p] = "running" /\ mem' = [mem EXCEPT ![p] = s]
  /\ UNCHANGED <<db, writer, txn, pc, rest, row, exiting, known>>

Add(p, d) == ~Full(mem[p]) /\ EditTo(p, WithAdded(mem[p], d))

Sort(p, order) == \E s \in SortedBy(order, mem[p]) : EditTo(p, s)

\* The pipeline, which reads nothing and writes nothing of the database.
Organize(p, order) == \E s \in SortedBy(order, mem[p]) : EditTo(p, WithShelves(s))

ChooseSave(p) ==
  /\ pc[p] = "running" /\ Goto(p, "begin")
  /\ UNCHANGED <<db, writer, txn, mem, rest, row, exiting, known>>

\* Exit, or the end of the input.
ChooseExit(p) ==
  /\ pc[p] = "running" /\ Goto(p, "begin") /\ exiting' = exiting \cup {p}
  /\ UNCHANGED <<db, writer, txn, mem, rest, row, known>>

(***************************************************************************)
(* Save                                                                    *)
(***************************************************************************)
Begin(p) ==
  /\ pc[p] = "begin" /\ writer = NoProc
  /\ writer' = p /\ txn' = db /\ Goto(p, "delete")
  /\ UNCHANGED <<db, mem, rest, row, exiting, known>>

FaultyRemaining == txn
Remaining == {}

DeleteRows(p) ==
  /\ pc[p] = "delete"
  /\ txn' = Remaining /\ Goto(p, "insert")
  /\ UNCHANGED <<db, writer, mem, rest, row, exiting, known>>

FaultyMoreRows(p) == row[p] < Len(mem[p])
MoreRows(p) == row[p] <= Len(mem[p])

\* The primary key does not admit an id twice.
InsertRow(p) ==
  /\ pc[p] = "insert" /\ MoreRows(p)
  /\ \A b \in txn : b.id # mem[p][row[p]].id
  /\ txn' = txn \cup {mem[p][row[p]]}
  /\ row' = [row EXCEPT ![p] = @ + 1]
  /\ UNCHANGED <<db, writer, pc, mem, rest, exiting, known>>

InsertedAll(p) ==
  /\ pc[p] = "insert" /\ ~MoreRows(p) /\ Goto(p, "commit")
  /\ UNCHANGED <<db, writer, txn, mem, rest, row, exiting, known>>

\* Save returned: to the menu, or to the end of main whatever the result was.
Return(p) ==
  /\ Goto(p, IF p \in exiting THEN "leaving" ELSE "running")
  /\ row' = [row EXCEPT ![p] = 1]
  /\ UNCHANGED <<mem, rest, exiting>>

Commit(p) ==
  /\ pc[p] = "commit" /\ \A q \in Procs \ {p} : pc[q] # "loading"
  /\ db' = txn /\ writer' = NoProc /\ txn' = {}
  /\ known' = [known EXCEPT ![p] = txn]
  /\ Return(p)

FaultyEndTransaction(p) == UNCHANGED <<writer, txn>>
EndTransaction(p) ==
  IF writer = p THEN writer' = NoProc /\ txn' = {} ELSE UNCHANGED <<writer, txn>>

\* BEGIN, DELETE, prepare, a step or COMMIT failed: ROLLBACK where there is a
\* transaction.
FailSave(p) ==
  /\ pc[p] \in SavePcs
  /\ EndTransaction(p) /\ Return(p)
  /\ UNCHANGED <<db, known>>

Exit(p) == pc[p] = "leaving" /\ Vanishes(p) /\ UNCHANGED db

Crash(p) == pc[p] # "down" /\ Vanishes(p) /\ UNCHANGED db

-------------------------------------------------------------------------------
Step(p) ==
  \/ Open(p) \/ BeginLoad(p) \/ LoadRow(p) \/ FinishLoad(p) \/ FailLoad(p)
  \/ \E d \in Catalogue : Add(p, d)
  \/ \E order \in Orders : Sort(p, order) \/ Organize(p, order)
  \/ ChooseSave(p) \/ ChooseExit(p)
  \/ Begin(p) \/ DeleteRows(p) \/ InsertRow(p) \/ InsertedAll(p) \/ Commit(p) \/ FailSave(p)
  \/ Exit(p) \/ Crash(p)

Next == \E p \in Procs : Step(p)

Spec == Init /\ [][Next]_vars

-------------------------------------------------------------------------------
(***************************************************************************)
(* Properties                                                              *)
(***************************************************************************)
TypeOK ==
  /\ db \subseteq Book /\ txn \subseteq Book /\ writer \in Procs \cup {NoProc}
  /\ pc \in [Procs -> Pcs] /\ exiting \subseteq Procs
  /\ mem \in [Procs -> Seq(Book)] /\ rest \in [Procs -> Seq(Book)]
  /\ row \in [Procs -> 1 .. MaxBooks + 1] /\ known \in [Procs -> SUBSET Book]

\* A save that failed, or a process that died in one, does not keep the
\* database locked: a write transaction is open only inside a save.
NoTransactionLeftOpen ==
  writer # NoProc => pc[writer] \in {"delete", "insert", "commit"}

\* A save never meets its own rows: the primary key is never violated, because
\* the inventory has no id twice.
KeyNeverViolated ==
  \A p \in Procs : pc[p] = "insert" /\ MoreRows(p) =>
    \A b \in txn : b.id # mem[p][row[p]].id

\* No two books stand in one place, in memory or in the database, through
\* adds, sorts, organisations, saves, crashes and reloads.
PlacesUnique(rows) ==
  \A b, c \in rows : b.shelf > 0 /\ b.shelf = c.shelf /\ b.position = c.position => b = c
PlacesDistinct ==
  /\ PlacesUnique(db)
  /\ \A p \in Procs : SlotsDistinct(mem[p])

\* A save loses no book that its process ever saw, in this session, in the
\* database: the program has no command that removes one, it never saves a
\* partial load, and what fails or crashes in between changes nothing. What it
\* can lose is what another process stored since this one loaded or saved.
StoredIdentities(rows) == {Identity(b) : b \in rows}
NoKnownBookLost ==
  [][\A p \in Procs : Commit(p) =>
       StoredIdentities(known[p]) \subseteq StoredIdentities(db')]_vars

\* Loads and saves are atomic although they work row by row, fail half way
\* and are interrupted by crashes and other processes.
Atomic == INSTANCE AtomicStore WITH
  mem <- [p \in Procs |-> IF pc[p] \in UpPcs THEN mem[p] ELSE <<>>],
  up  <- {p \in Procs : pc[p] \in UpPcs}
ImplementsAtomicStore == Atomic!Spec

(***************************************************************************)
(* Why they hold. The database has the rows of some inventory; what a      *)
(* process has loaded and what it has still to load are the rows in order; *)
(* a process that has started knows no row it does not hold; and a write   *)
(* transaction has the books its process has inserted so far.              *)
(***************************************************************************)
DbOK == IsFiniteSet(db) /\ KeysUnique(db)
MemOK(p) == UniqueIds(mem[p]) /\ Len(mem[p]) <= MaxBooks
LoadOK(p) == pc[p] = "loading" => known[p] = db /\ mem[p] \o rest[p] = ById(db)
KnownOK(p) == pc[p] \in UpPcs => StoredIdentities(known[p]) \subseteq Identities(mem[p])
SaveOK(p) ==
  /\ writer = p <=> pc[p] \in {"delete", "insert", "commit"}
  /\ pc[p] \notin {"insert", "commit"} => row[p] = 1
  /\ pc[p] = "insert" =>
       row[p] <= Len(mem[p]) + 1 /\ txn = {mem[p][k] : k \in 1 .. row[p] - 1}
  /\ pc[p] = "commit" => txn = Rows(mem[p])
SessionOK(p) == MemOK(p) /\ LoadOK(p) /\ KnownOK(p) /\ SaveOK(p)

StoreInvariant == TypeOK /\ DbOK /\ \A p \in Procs : SessionOK(p)
===============================================================================

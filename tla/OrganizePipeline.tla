---------------------------- MODULE OrganizePipeline ----------------------------
(***************************************************************************)
(* run_organization_pipeline of thread_manager.c: three tasks on a pool of *)
(* workers clone the inventory and sort their copies, and the main thread, *)
(* when all of them are done, sorts and shelves the inventory itself.      *)
(*                                                                         *)
(* The pool is the one TaskExecutor specifies, which WorkerPool            *)
(* implements; the inventory and the clones are those of Inventory. A task *)
(* is known by the order it sorts in. Other threads that use the library   *)
(* may write the inventory at the same time; the program itself has none.  *)
(***************************************************************************)
EXTENDS Books

CONSTANTS
  Catalogue, Foreign, MaxWrites,   \* as in Inventory
  NumWorkers,                      \* ORGANIZATION_WORKERS
  QueueSize,                       \* ORGANIZATION_QUEUE
  FinalOrders                      \* the orders the caller asks for

ASSUME PipelineAssumption ==
  /\ Catalogue \subseteq Details /\ Foreign \subseteq Book /\ MaxWrites \in Nat
  /\ NumWorkers \in Nat \ {0} /\ QueueSize \in Nat \ {0} /\ FinalOrders \subseteq Orders

VARIABLES
  books, clonePc, expected, copy, seen, writes,        \* Inventory
  pending, running, done, refused, closed, waiters,    \* TaskExecutor
  stage,     \* where the main thread is
  final,     \* final_strategy
  result,    \* what the pipeline will return
  record,    \* the task record of each order
  before,    \* history: the inventory when the pipeline was called
  disturbed  \* history: another thread wrote since then

inventoryVars == <<books, clonePc, expected, copy, seen, writes>>
poolVars == <<pending, running, done, refused, closed, waiters>>
mainVars == <<stage, final, result, before, disturbed>>
vars == <<inventoryVars, poolVars, mainVars, record>>

Inv == INSTANCE Inventory WITH Cloners <- Orders
Pool == INSTANCE TaskExecutor WITH
  Jobs <- Orders, Clients <- {"main"}, Capacity <- QueueSize, MaxRunning <- NumWorkers

\* The order in which the tasks are submitted.
Strategies == <<"title", "genre", "year">>
Submitted == Cardinality({o \in Orders : record[o] # "none"})

Init ==
  /\ Inv!Init /\ Pool!Init
  /\ stage = "menu" /\ final = "title" /\ result = "none" /\ before = <<>>
  /\ disturbed = FALSE
  /\ record = [o \in Orders |-> "none"]

Goto(next) == stage' = next /\ UNCHANGED <<final, result, before, disturbed>>

\* The bound MaxWrites leaves the pipeline its own two writes.
MayWrite == writes + 2 < MaxWrites

(***************************************************************************)
(* The main thread                                                         *)
(***************************************************************************)
MenuStep == stage = "menu" /\ MayWrite /\ Inv!WriterStep /\ UNCHANGED <<poolVars, mainVars, record>>

CreatePool(order) ==
  /\ stage = "menu" /\ stage' = "submit" /\ final' = order /\ before' = books
  /\ UNCHANGED <<inventoryVars, poolVars, result, record, disturbed>>

CreatePoolFails ==
  /\ stage = "menu" /\ stage' = "returned" /\ result' = "error" /\ before' = books
  /\ UNCHANGED <<inventoryVars, poolVars, final, record, disturbed>>

\* A record is allocated and handed to the pool. Submit and wait return errors
\* only for a pool that is stopped or missing: their error paths are never taken.
SubmitTask ==
  /\ stage = "submit" /\ Submitted < Len(Strategies)
  /\ LET order == Strategies[Submitted + 1] IN
       Pool!Accept(order) /\ record' = [record EXCEPT ![order] = "allocated"]
  /\ UNCHANGED <<inventoryVars, mainVars>>

FaultyAfterClose == "returned"
\* Destroy joins the workers once it has closed the pool.
AfterClose == "join"

\* malloc failed: the pool is shut down and destroyed.
AllocationFails ==
  /\ stage = "submit" /\ Submitted < Len(Strategies)
  /\ Pool!Close /\ stage' = AfterClose /\ result' = "error"
  /\ UNCHANGED <<inventoryVars, final, before, record, disturbed>>

BeginWait ==
  /\ stage = "submit" /\ Submitted = Len(Strategies) /\ Goto("wait")
  /\ Pool!StartWaiting("main") /\ UNCHANGED <<inventoryVars, record>>

FaultyWaitOver == UNCHANGED poolVars
WaitOver == Pool!StopWaiting("main")

EndWait ==
  /\ stage = "wait" /\ WaitOver /\ Goto("sort")
  /\ UNCHANGED <<inventoryVars, record>>

FaultyFinalWrite == Inv!AssignShelves
\* One critical section for the order, and a second one for the shelves.
FinalWrite == Inv!Sort(final)

FinalSort ==
  /\ stage = "sort" /\ FinalWrite /\ Goto("shelve")
  /\ UNCHANGED <<poolVars, record>>

FinalShelves ==
  /\ stage = "shelve" /\ stage' = "close" /\ result' = "ok" /\ Inv!AssignShelves
  /\ UNCHANGED <<poolVars, final, before, record, disturbed>>

FaultyClosePool == UNCHANGED poolVars
ClosePool == Pool!Close

BeginDestroy ==
  /\ stage = "close" /\ ClosePool /\ Goto(AfterClose)
  /\ UNCHANGED <<inventoryVars, record>>

\* The workers stop when the pool is closed and drained.
FinishDestroy ==
  /\ stage = "join" /\ closed /\ pending = <<>> /\ running = {} /\ Goto("returned")
  /\ UNCHANGED <<inventoryVars, poolVars, record>>

\* The user is back in the menu.
Returned == stage = "returned" /\ UNCHANGED vars

(***************************************************************************)
(* sort_task, on a worker                                                  *)
(***************************************************************************)
StartTask == Pool!Start /\ UNCHANGED <<inventoryVars, mainVars, record>>

\* The call of bs_inventory_clone, which fails when no clone can be created
\* or when the source changes under it.
CloneStep(o) ==
  /\ o \in running /\ record[o] = "allocated"
  /\ \/ Inv!CreateFails(o) \/ Inv!StartClone(o) \/ Inv!CopyBook(o)
     \/ Inv!CloneReturns(o) \/ Inv!IndexGone(o) \/ Inv!BookMoved(o)
  /\ UNCHANGED <<poolVars, mainVars, record>>

\* bs_inventory_sort_... of the private copy.
SortCopy(o) ==
  /\ o \in running /\ record[o] = "allocated" /\ clonePc[o] = "OK"
  /\ \E s \in SortedBy(o, copy[o]) : copy' = [copy EXCEPT ![o] = s]
  /\ record' = [record EXCEPT ![o] = "sorted"]
  /\ UNCHANGED <<books, clonePc, expected, seen, writes, poolVars, mainVars>>

\* The clone, unless there is none, and the record are freed; the task returns.
EndTask(o) ==
  /\ \/ record[o] = "sorted"
     \/ record[o] = "allocated" /\ clonePc[o] \in Inv!CloneFailures
  /\ Inv!DropClone(o) /\ Pool!Complete(o)
  /\ record' = [record EXCEPT ![o] = "freed"]
  /\ UNCHANGED mainVars

-------------------------------------------------------------------------------
OutsideWrite ==
  /\ stage \notin {"menu", "returned"} /\ MayWrite
  /\ Inv!WriterStep /\ disturbed' = TRUE
  /\ UNCHANGED <<poolVars, stage, final, result, before, record>>

MainStep ==
  \/ SubmitTask \/ AllocationFails \/ BeginWait \/ EndWait
  \/ FinalSort \/ FinalShelves \/ BeginDestroy \/ FinishDestroy

TaskStep(o) == CloneStep(o) \/ SortCopy(o) \/ EndTask(o)

Next ==
  \/ MenuStep \/ CreatePoolFails \/ \E o \in FinalOrders : CreatePool(o)
  \/ MainStep \/ StartTask \/ \E o \in Orders : TaskStep(o)
  \/ OutsideWrite \/ Returned

\* The main thread and the workers run; the pool starts what it accepted.
Spec == Init /\ [][Next]_vars
FairSpec ==
  Spec /\ WF_vars(MainStep) /\ WF_vars(StartTask) /\ \A o \in Orders : WF_vars(TaskStep(o))

-------------------------------------------------------------------------------
(***************************************************************************)
(* Properties                                                              *)
(***************************************************************************)
\* The types of the variables, those of the inventory included: neither a
\* task's clone nor another thread makes an array longer than it may be.
TypeOK ==
  /\ Inv!TypeOK
  /\ pending \in Seq(Orders) /\ Len(pending) <= QueueSize /\ running \subseteq Orders
  /\ stage \in {"menu", "submit", "wait", "sort", "shelve", "close", "join", "returned"}
  /\ final \in Orders /\ result \in {"none", "ok", "error"} /\ before \in Seq(Book)
  /\ disturbed \in BOOLEAN
  /\ record \in [Orders -> {"none", "allocated", "sorted", "freed"}]

Organized(order, s) == {WithShelves(t) : t \in SortedBy(order, s)}

\* When no other thread wrote, a pipeline that succeeds leaves the books it
\* found in the order that was asked for and on their shelves, and one that
\* fails leaves the inventory as it was.
ResultHolds ==
  stage = "returned" /\ ~disturbed =>
    books \in IF result = "ok" THEN Organized(final, before) ELSE {before}

\* When no other thread wrote, no clone that a task could create fails in
\* copying, and every task that has its clone sorts the same inventory, the one
\* the pipeline was called with: the main thread does not write before the
\* last of them is done, also when another task could not create its clone.
TasksAgree ==
  ~disturbed => \A o \in Orders :
    /\ seen[o] # {} => clonePc[o] \notin Inv!CloneFailures
    /\ clonePc[o] = "OK" =>
         IF record[o] = "sorted" THEN copy[o] \in SortedBy(o, before) ELSE copy[o] = before

\* Once the pipeline has returned, also with an error, no task is left that
\* could touch the inventory, every task record was freed, and every clone.
NothingLeft ==
  stage = "returned" =>
    /\ pending = <<>> /\ running = {}
    /\ \A o \in Orders : record[o] \in {"none", "freed"} /\ clonePc[o] = "idle"

\* A pipeline that was called returns, whatever the tasks run into.
PipelineReturns == stage = "submit" ~> stage = "returned"

(***************************************************************************)
(* Why they hold. A task has a record as long as it is queued or running,  *)
(* and a clone only while it runs; from the end of the wait on there is no *)
(* task; and what the main thread has made of the books it found follows   *)
(* from where it is. A clone reads the books before the main thread writes *)
(* them, and so a part of what it found.                                   *)
(***************************************************************************)
Queued(o) == \E i \in DOMAIN pending : pending[i] = o

ArraysUnique ==
  /\ UniqueIds(books)
  /\ stage # "menu" => UniqueIds(before) /\ Len(before) <= MaxBooks

TaskOK(o) ==
  /\ record[o] \in {"allocated", "sorted"} <=> Queued(o) \/ o \in running
  /\ Queued(o) => o \notin running
  /\ o \notin running => clonePc[o] = "idle"
  /\ record[o] = "sorted" => clonePc[o] = "OK" /\ o \in running

QueuedOnce == \A i, j \in DOMAIN pending : pending[i] = pending[j] => i = j

StageOK ==
  /\ stage \in {"menu", "sort", "shelve", "close", "returned"} \/ result = "ok" =>
       pending = <<>> /\ running = {}
  /\ stage = "menu" => ~disturbed
  /\ stage \in {"menu", "submit", "wait", "sort", "shelve"} => result = "none"
  /\ stage = "close" => result = "ok"

\* What the inventory is when only the pipeline writes it.
BooksOK ==
  stage # "menu" /\ ~disturbed =>
    books \in CASE stage = "shelve" -> SortedBy(final, before)
                [] result = "ok" -> Organized(final, before)
                [] OTHER -> {before}

CopyOK(o) ==
  stage # "menu" /\ ~disturbed =>
    /\ seen[o] # {} => clonePc[o] \notin Inv!CloneFailures
    /\ clonePc[o] = "copying" =>
         /\ expected[o] = Len(before) /\ Len(copy[o]) <= expected[o]
         /\ \A i \in DOMAIN copy[o] : copy[o][i] = before[i]
    /\ clonePc[o] = "OK" =>
         IF record[o] = "sorted" THEN copy[o] \in SortedBy(o, before) ELSE copy[o] = before

PipelineInvariant ==
  /\ TypeOK /\ ArraysUnique /\ QueuedOnce /\ StageOK /\ BooksOK
  /\ \A o \in Orders : TaskOK(o) /\ CopyOK(o)
===============================================================================

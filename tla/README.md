# Formal models of the bookshelf organizer

TLA+ models of the C program in this repository, the TLC configurations that
check them on small instances, and theorems checked by the TLA+ proof system.
File and line references are to the repository (`worker_pool.c` is
`src/worker_pool.c`).

## 1. Inventory of the system

The program is a menu-driven console application on top of a small core
library. Everything the user does runs on the main thread; the organisation
pipeline and the demonstrations start threads and processes of their own. A
second program migrates a text file into the database.

| Part | State | Operations | Talks to |
|---|---|---|---|
| Worker pool (`worker_pool.c`) | ring buffer `queue/head/tail/queued`, `active`, `state`; a mutex and the condition variables `not_empty`, `not_full`, `idle` | create, submit, wait, shutdown, destroy; `worker_main` in each thread | runs the tasks of its callers |
| Inventory (`inventory.c`, `bookshelf_core.c`) | an array of up to 128 books and its length, under one mutex | clear, add, import, count, get, get_at, clone, three sorts, shelf assignment | sorting; used by the menu, the pipeline and the storage |
| Sorting (`sorting.c`) | local variables of a loop | insertion sort by title, genre or year | called with the inventory's lock held |
| Organisation pipeline (`thread_manager.c`) | a pool of workers, one task record per sort | clone and sort in three tasks, wait, then sort and shelve the real inventory | worker pool, inventory |
| Database (`storage_sqlite.c`, `repository.c`) | a SQLite connection, under one mutex | open, initialise, load, save, close | SQLite; inventory |
| Session (`main.c`) | the inventory, the repository | load at start, the menu, save on request and at the end | all of the above |
| Race demonstration (`thread_manager.c`) | one counter, four threads | increment with and without a mutex | - |
| Process demonstration (`process_manager.c`) | two children, the stdout buffer that each of them inherits | fork, `_exit`, `waitpid` | logger, text file |
| Logger (`logger.c`) | two streams with their buffers, under one mutex | init, event (three pieces, on each stream), close | used by all |
| Text file (`inventory.c`, `storage.c`) | a file of lines `title|author|genre|year` | load, save | inventory |
| Migration (`migrate.c`) | the books taken, two counters, the exit status | read, number, refuse, dry run, save | text file, database |
| Input and texts (`input.c`, `utils.c`, `search.c`) | what is typed and not yet read | read a line, trim, ask until the answer is right, compare and search without case | menu, sorting |

What makes each part correct, and what is hard about it:

- **Worker pool.** Threads sleep on three condition variables, and two of them
  are signalled one thread at a time. No wakeup may be lost; a shutdown must
  drain the queue and release blocked submitters; wait must cover the jobs that
  are running; a create that fails half way must stop what it started before it
  frees it. These are matters of interleaving that a test meets by chance.
- **Inventory.** One critical section per call, except `bs_inventory_clone`,
  which locks once per element and so sees writers between two elements. Ids
  are reused and must stay unique because the database uses them as its key.
- **Sorting.** Index arithmetic at the borders, and stability, which makes
  repeated sorts by different keys predictable.
- **Pipeline.** Tasks clone while the main thread may still be blocked in
  submit; an allocation may fail at any point, and so may the creation of a
  task's clone while the other tasks run; everything that was started must be
  over before the pipeline returns.
- **Database.** Rows are read and written one by one; any call may fail and the
  process may die between two of them. A load that fails half way leaves a
  partial inventory in memory, which must never be saved over the database. Two
  processes may use one file.
- **Race demonstration.** The total is the outcome of all interleavings of the
  threads' loads and stores; what it can be is easily guessed wrong.
- **Logger.** An event is several library calls, on two streams, and the process
  may die between two of them.
- **Process demonstration.** `fork` copies what stdout has buffered; forks fail,
  children fail or are killed, and each must be reaped on every path.
- **Text file.** A save truncates the file before it takes the lock, flushes it
  after it gave the lock up, and ignores write errors; a load drops what does not
  fit the array; the format has no way to write a `|` in a title or a `#` in front.
- **Migration.** It has a parser of its own for the same format, and numbers the
  books it takes, among lines it refuses.
- **Input.** A line may be longer than the buffer by one or by many, or end at
  the end of the file; what is left over must not answer the next question.
- **Texts without case.** Hand-written loops, on whose order sorting stands.

The list `hazards` of PROJECT.json names each of these at its line, with the
properties that cover it or the reason why none does.

## 2. Modules

| Module | What it is |
|---|---|
| `TaskExecutor` | abstract: what a pool promises, a bounded FIFO of jobs with no threads in it |
| `WorkerPool` | `worker_pool.c`, one action per critical section; implements `TaskExecutor` |
| `Books` | the array of books and the functions applied to it under the lock (ids, capacity, order, places) |
| `Inventory` | `bookshelf_core.c`: atomic calls, and the clone that is not atomic |
| `InsertionSort` | the loop of `sorting.c`, one action per iteration |
| `OrganizePipeline` | `run_organization_pipeline` and its tasks, composed from `TaskExecutor` and `Inventory` |
| `AtomicStore` | abstract: what load and save promise |
| `SqliteStore` | sessions of processes with the database, row by row, with failures and crashes; implements `AtomicStore` |
| `RaceDemo` | the race demonstration, one load and one store per iteration |
| `Logger` | `log_event`, piece by piece on two buffered streams |
| `ProcessDemo` | fork, children, reaping, and the stdout buffers |
| `TextLines` | fgets, trim, strtok_r, atoi, strtol and `%d` on short texts |
| `TextFormat` | a book as a line of text, and back |
| `TextFile` | load and save of the text file, torn by a full disk or a crash |
| `Migrate` | the migration program, composed with the program of `TextFile` that wrote the file |
| `Session` | the menu's dialogue on top of `read_line` |
| `CaseText` | comparison and search without case, one action per loop test |
| `...Proofs` | theorems about `WorkerPool`, `Books` (lemmas), `Inventory`, `OrganizePipeline`, `InsertionSort`, `SqliteStore`; `DemoProofs` is about `RaceDemo`, `Logger` and `ProcessDemo`, `TextProofs` about `Session`, `CaseText`, `TextFile` and `Migrate` |
| `MC...` | instances for TLC |

### Correspondence with the code

**WorkerPool.** Every access to the pool's fields is made with the mutex held
and no section takes a second lock, so one critical section is one action.
`pthread_cond_wait` ends a section: the thread's program counter names the
condition variable it sleeps on (`"notEmpty"`, `"notFull"`, `"idle"`), a wakeup
sends it back to its loop test (`"ready"`, `"submit"`, `"wait"`).
`pthread_cond_signal` wakes any one sleeping thread, and a wait may return
without a signal, as POSIX allows. The worker runs its task outside the mutex
(`RunTask`), which counts the executions of a job. `CreateFails` stands for the
early failures of create; `StartWorkerFails` is `pthread_create` failing after
some workers already run. The owner destroys the pool when no client is inside
a call: that is a contract of the callers, which both callers in the repository
(the pipeline and the stress test) keep, and the pool does not enforce.

**Books.** A book is a record. Title, genre and year are numbers that stand for
the place of the value in the order of the comparison functions (`CaseText`
shows that this is an order); the author is copied wherever the title is and
never compared, so it is left out, and so is the truncation of long strings.
The array with its count is a sequence. `SortedBy` is a set with one element,
the stable rearrangement; that the loop returns it is the subject of
`InsertionSort`.

**Inventory.** A call that fails changes nothing and is a stuttering step. The
clone is a cloner's program counter, the count it read, and the books copied so
far. `CreateFails` is a clone for which there is no memory or no mutex
(`bookshelf_core.c:28-30`, `115-116`); `IndexGone` and `BookMoved` are a copying
that fails because the source changed. `seen` is a history variable: the
contents the source had since the count was read, none when the clone could not
be created. It is what the properties of a clone are stated about.

**OrganizePipeline.** Composes two modules by INSTANCE: the pool is the abstract
`TaskExecutor` (which `WorkerPool` is shown to implement), the inventory and
the clones are those of `Inventory`, with the three sort orders as cloners. The
module adds the main thread's `stage`, the task records (`record`, so that a
leak or a double free would show), what the pipeline was called with (`before`)
and whether another thread wrote since (`disturbed`); the last two are history
variables. `CloneStep` is `bs_inventory_clone` in a task, its failing creation included.
`AllocationFails` is the failing malloc of a task record; the error
returns of submit and wait cannot happen, because the pool exists and is open.
`OutsideWrite` is another thread that uses the library at the same time; the
program has none, the library allows it. `FinalOrders` are the orders a caller
may ask for.

**InsertionSort.** `a`, `i`, `j`, `key` are the locals of the loop; indices are
one higher than in C. `from` is a history variable that tells equal books apart.

**SqliteStore.** SQLite is external: with its rollback journal one connection
writes at a time, a commit does not succeed while another connection reads, and
what was not committed is undone, after a crash too. `db` holds the committed
rows, `txn` the rows the open transaction would leave. A process goes through
`down, opened, loading, running`, the phases of a save, and `leaving`. Any call
may fail at any phase; a load that fails ends the process without a save
(`main.c:95`), a save that fails returns to the menu, or lets main end when it
was the final one (`main.c:118`). The menu is the actions `Add`, `Sort` and
`Organize`. `known` is a history variable, the rows a process last saw in the
database. The mutex of `repository.c` is left out because only the main thread
uses the repository, and so the inventory stands still during a save.

**RaceDemo.** `pc`, `done` and `value` are a thread's place in its loop, its
iterations and the local between load and store. `StopCreating` is the end of
the loop that creates the threads, early when `pthread_create` fails. The
counter is a plain `long` that several threads use without a lock, which the C
standard leaves undefined; its address escapes and each iteration calls
`sched_yield`, so a build makes one load and one store per iteration.

**Logger.** An event is `Pieces` many pieces on `"screen"` and then, if the file
could be opened, on `"file"`. `buffer` is what a stream holds back until
`fflush` (`Flush`), `output` what has left the process. `Killed` may come at any
moment and loses the buffers. `LogInit` covers the outcomes of `logger_init`.

**ProcessDemo.** A process has a program counter whose value names the text it
prints or logs next, and a stdout buffer; `Fork` copies the parent's. `printf`
goes to the buffer, or straight to the screen on a terminal. `log_event` is one
step: only the main thread lives at the fork, so nobody else holds its lock.
`child` is what the system knows (`running`, `zombie`, `reaped`), `code` the
exit status. The demonstration hands the database's path to
`inventory_load`; whatever a child makes of that file is its private affair and
ends in one of the exit codes.

**TextLines, TextFormat.** Characters are a letter, the ten digits, white space,
`|`, `#` and the newline; these are the ones the format distinguishes. The
functions follow the C library: `Tokens` has no empty token, as `strtok_r`;
`Atoi` stops at the first character that is not a digit; `Cut` is `safe_strcpy`.
What takes a text apart from the front (`Tokens`, `BooksIn`, `LinesOf`) is a
recursive function on the ends of the text.

**TextFile.** A save takes the order of the code (`inventory.c:184-200`).
`BeginSave` is `fopen(path, "w")`, which empties the file before the inventory is
locked; another thread may add a book in between. `LockForSave` takes the lock
and prints the books into the stream, `LockFails` returns the error and leaves the
file empty. `Unlock` gives the lock up before `fclose` has flushed the rest
(`SaveReturns`), so books may be added again while the text of the save is still
on its way. From `LockForSave` on the file holds a growing prefix of that text
(`WriteOut`), until all of it is written, the disk is full (`DiskFull`, which
nobody notices) or the program stops (`Stop`). `saved` is a history variable, the
books of the last save. A load holds the lock while it reads; `Fitting` is the end
of the array at which it takes no more books (`inventory.c:56`).

**Migrate.** Extends `TextFile`: while `step` is `"idle"` the program runs and
may be stopped in the middle of a save; `Start` migrates the file it left. The
other initial states are migrations of files made by hand (`Inputs`). The loop
is one action per kind of line (`PassOver`, `Skip`, `Import`); `ReadFails` is a
read error, which ends the loop as the end of the file does. `LineBuffer` is the
buffer of `migrate.c`, larger than `MaxLine`, that of a load; a line longer than
it is read in pieces, each of which counts as a line. `OldRows` is what the
database held before. The save to SQLite is one step, as `SqliteStore` shows.

**Session.** `asked` is the question being asked. `stdin` is what was typed and
not yet read, character by character; `unanswered` is a history variable, the
typed lines that no read has answered. The user may type ahead, and may close the
input also in the middle of a line. `Command` is the switch of the menu: add,
search and organise ask questions of their own (`FollowUp`), exit ends the program, and
the other entries come back to the menu.

**CaseText.** `place` and `inner` are the indices of the search's loops (`i` and
`j` in C), and `place` is how far the pointers of the comparison have moved, from
0 as in C; a text is followed by its NUL, at index `Len`.

## 3. What is checked

| Run | Instance | Distinct states | Properties |
|---|---|---|---|
| `pool` | 2 workers, 2 clients, 4 jobs, 2 slots | 134 643 | `NoLostWakeup`, `ExactlyOnce`, `NoWorkerOutlivesPool`, `CallsReturn`, `ImplementsExecutor` |
| `inventory_writers` | 1 cloner, 4 writes, 3 books, a shelf of 2 | 35 883 | `TypeOK`, `IdsUnique`, `CopiedFromSource`, `QuietCloneExact`, `NoBookLost` |
| `inventory_snapshot` | the same | - | `CloneIsSnapshot` is **violated** |
| `pipeline` | 2 workers, queue of 1, 2 books, up to 3 writes of others, final order by title or year | 746 562 | `ResultHolds`, `TasksAgree`, `NothingLeft`, `PipelineReturns` |
| `insertion_sort` | all arrays of up to 5 books with two values per field | 50 222 | `SortsStably` |
| `store` | 2 processes, 3 books | 294 629 | `PlacesDistinct`, `NoTransactionLeftOpen`, `KeyNeverViolated`, `NoKnownBookLost`, `ImplementsAtomicStore` |
| `race` | 3 threads of 3 iterations, with and without mutex | 141 704 | `MutexTotal`, `NoneInvented`, `TotalInRange` |
| `logger` | 3 threads of 2 events, killed anywhere | 8 878 | `EventsWhole`, `FileFollowsScreen`, `ReturnedIsVisible` |
| `process_demo` | the program's two children | 15 948 | `OutputOnce`, `NoChildLeft`, `DemoReturns` |
| `session` | a buffer of 4, 2 lines ahead, 13 different lines | 20 692 | `ReadsInStep`, `AnswerIsTrimmedLine`, `EofEnds` |
| `text_files` | fields of 2 characters, 2 books; line buffers of 12 and 14; hand-made files of up to 3 of 10 lines | 196 122 | `CleanBooksSurvive`, `TornSaveLoadsPrefix`, `SuccessIsComplete`, `SavedFileMigrates`, `MigratesWhatLoads` |
| `case_text` | all pairs of texts of up to 4 of 3 characters | 214 863 | `ComparesAlphabetically`, `FindsOccurrence`, `ReadsInside` |

Why the bounds suffice to show something:

- `pool`: two submitters for two slots can both be blocked at once, both workers
  can sleep at once, and four jobs take `head` and `tail` around the ring with
  jobs in it. There is no symmetry, because liveness is checked.
- `inventory_writers` has room for three books and one shelf of two, so that
  the array and the shelves overflow; four writes around one clone reach every
  way its copying can fail. `MaxWrites` bounds the number of mutating calls.
- `pipeline`: two workers run tasks at the same time, and a queue of one blocks
  the main thread in submit. The two books have one order by title and by genre
  and the other by year, so that a task that sorted the wrong way shows. Three
  writes are enough for every way in which the copying can fail; the bound
  `MaxWrites` is 5 because the pipeline's own two writes count.
- `insertion_sort` starts from 4095 arrays and orders, with ties everywhere.
- `store` starts from an empty database and from one with two books whose ids
  leave a gap, one shelved and one not. Restarts are not bounded. The processes
  are symmetric: no constant treats one specially, and only safety is checked.
- `race`: with three iterations the least total, 2, is less than what one thread
  alone makes, and a third thread writes between the steps of two others.
- `logger`: with three threads one can overtake another that already waits.
- `session`: lines fill the buffer exactly, are one character longer, and carry
  on after it, with numbers and texts that a wrong cut would change.
- `text_files`: titles with each special character where it matters (`#` in
  front and inside, `|` inside, one title longer than its field), years on both
  sides of the limit `MaxYear` that only the migration has; hand-made lines with
  white space, a missing or an additional field, a comment that would parse,
  empty and blank ones. A save is interrupted at every character, and what it
  left is both loaded and migrated. `MaxBooks` is 2, so that a load or a
  migration of three lines overflows, and a migration that refuses the first of
  three lines stores a book that a load of the file does not reach: there
  `MigratesWhatLoads` is as strong as it can be, with a bound of one place more TLC
  finds it violated. `MaxLine` is 12 and `LineBuffer` 14: every
  line that the runs save fits both, as in the program (284 characters at most);
  one hand-made line of 20 characters is read in two pieces, each of which makes
  a book.
- `case_text`: four characters hold needles that overlap their own failed
  matches, in both cases.

Deadlock is checked except where the program ends: `race`, `logger`,
`process_demo`, `session` and `text_files`.

### The violation

`docs/project_report.md:198` says the sorting threads "read a consistent
snapshot of the inventory (copied under the lock)", and `docs/algorithms.md:132`
speaks of a "private-copy snapshot" made with one `memcpy`.
`bs_inventory_clone` takes the lock once per element. TLC finds a clone that
returns success with contents the inventory never had, when another thread
writes in the meantime. Inside the program the
main thread waits while the sort tasks clone, so the tasks do see a snapshot:
that is `QuietCloneExact`, and `TasksAgree` for the pipeline, both checked and
proved.

### Other differences between code and documents

These showed while the code was modelled; no run is spent on them.

- `docs/synchronization.md:31-39` shows the final sort and the shelf assignment
  in one critical section, "applied atomically from every other thread's point
  of view". The pipeline calls two functions that lock one after the other
  (`thread_manager.c:74-77`). The program has no thread that could observe the
  state in between, and `ResultHolds` shows that the outcome is right.
- `docs/testing.md:69` and `tests/test_cases.md:135` expect the exact total with
  the mutex and a smaller one without. `MutexTotal` is exact for the threads
  that could be created, and without the mutex nothing obliges an increment to
  be lost: `TotalInRange` gives the possible totals, down to 2.
- `tests/test_cases.md:140-142` expects that a saved file "reloads cleanly on
  next launch". A title with a `|` in it comes back as another book, one with a
  `#` in front not at all: `CleanBooksSurvive` says which books survive.
- `README.md:60` promises case-insensitive search. The functions of `utils.c` do
  that (`FindsOccurrence`), but the menu's search calls `strstr` (`main.c:50`).
- The process demonstration passes the path of the database to the loader of
  text files.

`docs/project_report.md:605-608` says why the children leave with `_exit`;
`OutputOnce` shows that the reason is right.

### Fairness

- `pool`: weak fairness of each worker's step and of each call's next step (a
  runnable thread runs, a free mutex is granted, tasks return) and of the joins
  of the owner. Nobody has to call the pool, start or destroy it, and no
  spurious wakeup has to happen.
- `pipeline`: the main thread and each task take their next step when they can,
  and the pool starts what it accepted, which is part of what
  `ImplementsExecutor` shows. Nobody has to start a pipeline.
- `process_demo`: the parent and each child are scheduled. Nobody has to be
  killed, and each fork may fail.
- `session`: the program runs. The user need not type anything.

All other runs assume none, and only safety is claimed there.

## 4. What is proved

The theorems hold for every value of the constants that satisfies the modules'
ASSUMEs (a finite set of workers and clients, positive capacities, books in the
catalogues, any finite database with unique keys, any file, any buffer that has
room for a file's header). Every safety property the passing runs check is stated
by one of them. Each rests on an inductive invariant, stated in the component's
module or at the head of its proof.

- `WorkerPoolProofs`: `TypeCorrect`, `WakeupsSuffice` (`NoLostWakeup`) and
  `NoUseAfterFree` (`NoWorkerOutlivesPool`), from `PoolInvariant`.
  `NoLostWakeup` is not inductive alone: it needs that `active` counts the
  workers outside their critical sections (`ActiveCount`, or a caller of wait
  could sleep for ever behind a wrong count), that no call is under way unless
  the pool is open (`CallsOnlyWhenOpen`), and that a pool that does not exist
  yet has no workers. The heart of the argument is a count: while a worker
  sleeps there are at least as many awake workers as queued jobs, and likewise
  for submitters and free slots; each action changes both sides by at most one,
  and the signal restores the balance.
- `EveryJobOnce` (`ExactlyOnce`) and `PoolImplementsExecutor` (the safety part
  of `ImplementsExecutor`), from `JobInvariant`: a job is in one caller's hand,
  in one slot of the ring, in one worker's hand, or done, and never in two of
  these; a worker leaves only a pool that is stopped and drained. The lemmas on
  the ring's arithmetic say that the slots from `head` to `tail` are the
  executor's queue, and what an enqueue and a dequeue make of it.
- `BooksProofs`: the smallest free id exists and is free (a pigeonhole
  argument), adding and importing keep ids unique, a sort permutes, a shelf
  assignment changes places only and gives each place once.
- `InventoryProofs`: `InventoryTypeCorrect`, `UniqueIdentifiers`,
  `QuietCloneIsExact`, `CopiesComeFromSource`, `BooksAreKept`, from
  `InventoryInvariant`. The clone needs `SeenOK` (the present contents are among
  those seen) and `QuietExpected` (with one content seen, the count read is its
  length). What `QuietCloneIsExact` says is that the copying does not fail: a clone
  that could not be created has seen nothing, and fails without a writer.
- `OrganizePipelineProofs`: `PipelineTypeCorrect`, `TasksSortTheSame`
  (`TasksAgree`), `PipelineLeavesNothing` (`NothingLeft`), `PipelineResult`
  (`ResultHolds`), from `PipelineInvariant`: a task has a record exactly while it
  is queued or running, and a clone only while it runs; after the wait there is
  no task; what the books are follows from where the main thread is; and a clone
  under way is a prefix of what the pipeline found. Tasks that could not create
  their clone sort nothing and leave nothing; the theorems hold beside them.
- `InsertionSortProofs`: `InsertionSortCorrect`. The loop invariant says that
  the array with the key put into the gap is a permutation of the input
  (`Permuted`) whose prefix is in order except for the key (`PrefixSorted`),
  which is what makes the last step exact for inputs of any length.
- `BooksProofs`: beside the lemmas, `SortHasOneOutcome`: the modules above
  `Books` take a sort as one step to a member of `SortedBy`, and that set never
  has two members, because an increasing rearrangement of `1 .. n` moves nothing.
- `SqliteStoreProofs`: `SessionsImplementAtomicStore` (the refinement),
  `KnownBooksAreKept`, `TransactionsEnd`, `KeysAccepted`, `PlacesStayDistinct`,
  from `StoreInvariant`: what a process has loaded and has still to load are the
  rows of the database in order, because no commit succeeds while another
  process reads; a process holds every book it has seen; a write transaction has
  the books inserted so far. That the ordered SELECT exists for every finite set
  of rows with unique keys is a lemma of its own (a row stands at the number of
  rows with keys up to its own). `PlacesStayDistinct` assumes it of the first
  database.
- `DemoProofs`, the race: `RaceTypeCorrect`, `NoIncrementInvented`,
  `LockedTotalExact`, `TotalBounds` (`TotalInRange`). The bound from below: a
  thread that has stored leaves the counter at 1 at least for ever after, so the
  value its next iteration loads is at least 1 and its store leaves 2; the last
  store of all belongs to such an iteration, if there are two iterations or more.
- `DemoProofs`, the logger: `LoggedEventsAreWhole` (`EventsWhole`),
  `FileRepeatsScreen` (`FileFollowsScreen`), `ReturnedEventsStay`
  (`ReturnedIsVisible`), from `LoggerInvariant`: only the holder of the lock is
  in an event (`LockOK`), the buffer of its stream holds the pieces it has printed
  and the other buffer nothing (`BufferOK`), the file has what the screen has but
  for the event in hand (`FileOK`), and the pieces of a thread on the screen
  number three for each event it has finished (`CountOK`), by cardinalities.
- `DemoProofs`, the process demonstration: `ChildrenReaped` (`NoChildLeft`) and
  `PrintedOnce` (`OutputOnce`), from `DemoInvariant`: where the parent is decides
  what became of the children (`FamilyOK`); with a logger the buffer is empty
  where the process forks, so a child inherits nothing to print, and without one
  a child prints nothing and `_exit` drops its copy (`BuffersOK`); each process
  prints its texts in the order of its places, so none comes twice (`SaidOK`).
- `TextProofs`, the dialogue: `ReadsStayInStep` (`ReadsInStep`) and
  `AnswersAreTrimmedLines` (`AnswerIsTrimmedLine`), for lines of any length and a
  buffer of any size; by cases on where fgets stopped (at a newline, at the end
  of the buffer, at the end of the input). No strengthening is needed but types.
- `TextProofs`, texts without case: `CompareCorrect`, `SearchCorrect`,
  `LoopsReadInside`, and `AlphabeticalOrder`: the order is transitive, never
  holds both ways and respects equality but for case.
- `TextProofs`, the text file: `CleanBooksComeBack` (`CleanBooksSurvive`) and
  `TornSavesLoadFirstBooks` (`TornSaveLoadsPrefix`), from `FileInvariant`: what is
  in the file and what is still to go there begins the text of the last save.
  Clean books survive because the line of a clean book falls apart into its own
  four texts (`CleanLine`), because `%d` and atoi are inverse (`DecimalIs`), and
  because another book's line, even one longer than the buffer, ends at its own
  newline (`BooksAfterLine`). They fit the array because a line that fits the
  buffer makes one book at most (`FewBooks`); a longer line, which the program never
  writes, could make two, so `CleanBooksSurvive` asks that the lines fit. For the
  torn save, `TextTears` follows the two texts, the whole and the one cut short,
  piece by piece: all pieces agree but the last,
  of whose tokens all agree but the last (`TokensFray`), of which a front is
  left; four tokens that are left are title, author and genre as they were, and
  digits of the year (`FrontLost`).
- `TextProofs`, the migration: `SuccessCountsEveryLine` (`SuccessIsComplete`), from
  `MigrateInvariant`: books taken, lines refused and lines still to be read add
  up to the lines of the file. `SavedFilesMigrate` (`SavedFileMigrates`), from
  `SavedProgress`: while a save of clean books is read, the inventory is the first
  of its books as rows, and what is unread the lines of the others.
  `MigrationTakesWhatLoads` (`MigratesWhatLoads`), from `LoadedProgress`: what is in
  the inventory is found, in order, among the books a load makes of the lines
  read so far, of which there are no more than lines counted. So at most as many
  others as lines were refused come before a stored book in a load of the file,
  and `FoundEarly` finds it again before the end of the array. Nothing more is
  true of the code: a line that the migration refuses and a load accepts (a year
  above 9999, say) takes a place in the array of the load only.

The text formats are defined by recursion, and the provers cannot instantiate the
library's induction theorems. The proofs go around this with sets: `LeastNumber`
gives a least element to every nonempty set of numbers, and `Induction` concludes
that a set of numbers with 0 and every successor is all of them; a claim about all
texts is the set of the lengths up to which it holds. `RecursionUnfolds` then shows
once, for every function that takes a piece from the front of a text, that its
recursive definition has the one value it should have.

Model-checked only are the liveness properties (`CallsReturn`, `PipelineReturns`,
`DemoReturns`, `EofEnds`) and the fairness half of `ImplementsExecutor`: liveness
under fairness is out of the prover's reach.

## 5. Not modelled

- `synchronization.c` (semaphore helpers) and the display functions of the
  legacy code have no caller in the program.
- The menu's search and lists only print.
- SQLite and pthreads are modelled by what the code relies on.
- Overflow and signs in `strtol` and `atoi`: numbers here are short and positive.
- Arguments that are NULL: these calls return an error and change nothing. So do
  calls whose initialized mutex cannot be locked, which no default mutex does; the
  one place where such an error leaves a trace, the text save, has it
  (`LockFails`). A mutex that cannot be initialized is in the model of a clone.
- `fprintf` and `fflush` that fail in the logger (nobody looks at their results),
  and the branch of the process demonstration for a `waitpid` that fails, which it
  does not for a child that was not reaped.
- A NUL character in a typed line, with which `read_line` would not see that the
  line is longer than its buffer (`utils.c:102-105`).
- The repository's mutex, which only the main thread takes.
- The fork in a process with other threads: the program joins its threads before
  it comes back to the menu.

What could be added along the same lines: the repository's mutex and its test of
`initialized` outside of it, and a save that meets a writer between two rows, if
the program ever used the library from several threads.

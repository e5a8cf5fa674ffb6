------------------------------ MODULE WorkerPool ------------------------------
(***************************************************************************)
(* The bounded worker pool of src/src/worker_pool.c: a ring buffer of      *)
(* jobs, one mutex, and the condition variables not_empty (idle workers),  *)
(* not_full (submitters of a full queue) and idle (callers of wait).       *)
(*                                                                         *)
(* A critical section is one action, because every access to the pool's    *)
(* fields is made with the mutex held and no section takes a second lock.  *)
(* pthread_cond_wait ends a section: the thread joins the wait set of the  *)
(* condition variable, and a wakeup makes it run its loop test again.      *)
(*                                                                         *)
(* Workers are the threads the pool creates, Clients the threads that call *)
(* submit and wait, and one owner creates, shuts down and destroys it.     *)
(***************************************************************************)
EXTENDS Integers, FiniteSets

CONSTANTS
  Workers,        \* the worker_count threads of the pool
  Clients,        \* the threads that call submit and wait
  Jobs,           \* task/context pairs; each one is submitted at most once
  QueueCapacity,  \* queue_capacity
  NoJob           \* a slot or a local variable that holds no job yet

ASSUME PoolAssumption ==
  /\ IsFiniteSet(Workers) /\ Workers # {}
  /\ IsFiniteSet(Clients)
  /\ QueueCapacity \in Nat \ {0}
  /\ NoJob \notin Jobs

VARIABLES
  life,                          \* where the owner is in create and destroy
  state,                         \* pool->state
  queue, head, tail, queued,     \* the ring buffer
  active,                        \* pool->active
  workerPc,                      \* where each worker is in worker_main
  job,                           \* the local variable job of each worker
  clientPc,                      \* where each client is in submit or wait
  arg,                           \* the job a client's submit call carries
  accepted, refused,             \* history: what submit answered, per job
  runs                           \* history: how often each job was executed

ring   == <<queue, head, tail, queued>>
ghosts == <<accepted, refused, runs>>
vars   == <<life, state, ring, active, workerPc, job, clientPc, arg, ghosts>>

Slots == 0 .. QueueCapacity - 1

\* "ready" is a worker that is about to lock the mutex at the top of its loop
\* or to re-lock it after a wakeup; both run the same loop test next.
WorkerPcs == {"off", "ready", "notEmpty", "running", "finishing", "exited"}
ClientPcs == {"out", "submit", "notFull", "wait", "idle"}
Lives     == {"absent", "starting", "aborting", "open", "joining", "freed", "failed"}

WorkersAt(p) == {w \in Workers : workerPc[w] = p}
ClientsAt(p) == {c \in Clients : clientPc[c] = p}

\* pthread_cond_signal: the possible program counters after one thread blocked
\* at `cond` was made to resume at `resume`; nothing happens when none waits.
Signal(pc, cond, resume) ==
  LET blocked == {t \in DOMAIN pc : pc[t] = cond}
  IN  IF blocked = {} THEN {pc} ELSE {[pc EXCEPT ![t] = resume] : t \in blocked}

\* pthread_cond_broadcast.
Broadcast(pc, cond, resume) ==
  [t \in DOMAIN pc |-> IF pc[t] = cond THEN resume ELSE pc[t]]

(***************************************************************************)
(* The tests and wakeups the critical sections are made of. A definition   *)
(* named Faulty... is a plausible mistake in the one that follows it: no   *)
(* action uses it, and the properties at the end of the module reject it.  *)
(***************************************************************************)
\* The slot after slot i of the ring.
Advance(i) == (i + 1) % QueueCapacity

FaultyNextJob == queue[(tail + QueueCapacity - 1) % QueueCapacity]
NextJob == queue[head]

FaultyMayExit == state = "STOP"
\* Only an empty queue lets a worker stop: a shutdown drains the queue first.
MayExit == queued = 0 /\ state = "STOP"

Busy == queued # 0 \/ active # 0

FaultyWakeWorker == IF queued = 0 THEN Signal(workerPc, "notEmpty", "ready") ELSE {workerPc}
\* Submit wakes one worker for the job it appends.
WakeWorker == Signal(workerPc, "notEmpty", "ready")

\* Shutdown wakes every submitter of a full queue ...
WakeAllSubmitters == Broadcast(clientPc, "notFull", "submit")

FaultyWakeAllWorkers == workerPc
\* ... and every idle worker.
WakeAllWorkers == Broadcast(workerPc, "notEmpty", "ready")

FaultyWorkersJoined == ~Busy
\* pthread_join has returned for every worker that was started.
WorkersJoined == Workers = WorkersAt("off") \cup WorkersAt("exited")

Init ==
  /\ life = "absent" /\ state = "RUN"
  /\ queue = [i \in Slots |-> NoJob] /\ head = 0 /\ tail = 0 /\ queued = 0
  /\ active = 0
  /\ workerPc = [w \in Workers |-> "off"] /\ job = [w \in Workers |-> NoJob]
  /\ clientPc = [c \in Clients |-> "out"] /\ arg = [c \in Clients |-> NoJob]
  /\ accepted = {} /\ refused = {} /\ runs = [j \in Jobs |-> 0]

\* Steps that change nothing but where one thread is.
OwnerMoves(here, next) ==
  /\ life = here /\ life' = next
  /\ UNCHANGED <<state, ring, active, workerPc, job, clientPc, arg, ghosts>>
WorkerMoves(w, here, next) ==
  /\ workerPc[w] = here /\ workerPc' = [workerPc EXCEPT ![w] = next]
  /\ UNCHANGED <<life, state, ring, active, job, clientPc, arg, ghosts>>
ClientMoves(c, here, next) ==
  /\ clientPc[c] = here /\ clientPc' = [clientPc EXCEPT ![c] = next]
  /\ UNCHANGED <<life, state, ring, active, workerPc, job, arg, ghosts>>

(***************************************************************************)
(* bs_worker_pool_create                                                   *)
(***************************************************************************)
\* A bad argument, or an allocation or initialisation that fails.
CreateFails == OwnerMoves("absent", "failed")

Allocate == OwnerMoves("absent", "starting")

\* The new thread runs at once, while create is still starting the others.
StartWorker(w) == life = "starting" /\ WorkerMoves(w, "off", "ready")

\* pthread_create failed: the workers already started are told to stop ...
StartWorkerFails ==
  /\ life = "starting" /\ WorkersAt("off") # {}
  /\ life' = "aborting" /\ state' = "STOP"
  /\ workerPc' = WakeAllWorkers
  /\ UNCHANGED <<ring, active, job, clientPc, arg, ghosts>>

\* ... and joined, before everything is freed and create returns -1.
AbortJoined == WorkersJoined /\ OwnerMoves("aborting", "failed")

CreateReturns == WorkersAt("off") = {} /\ OwnerMoves("starting", "open")

(***************************************************************************)
(* worker_main                                                             *)
(***************************************************************************)
WorkerWaits(w) == queued = 0 /\ state = "RUN" /\ WorkerMoves(w, "ready", "notEmpty")

WorkerExits(w) == MayExit /\ WorkerMoves(w, "ready", "exited")

TakeJob(w) ==
  /\ workerPc[w] = "ready" /\ queued # 0
  /\ job' = [job EXCEPT ![w] = NextJob]
  /\ head' = Advance(head)
  /\ queued' = queued - 1
  /\ active' = active + 1
  /\ workerPc' = [workerPc EXCEPT ![w] = "running"]
  /\ clientPc' \in Signal(clientPc, "notFull", "submit")
  /\ UNCHANGED <<life, state, queue, tail, arg, ghosts>>

\* job.task(job.context), outside the mutex.
RunTask(w) ==
  /\ workerPc[w] = "running"
  /\ runs' = [runs EXCEPT ![job[w]] = @ + 1]
  /\ workerPc' = [workerPc EXCEPT ![w] = "finishing"]
  /\ UNCHANGED <<life, state, ring, active, job, clientPc, arg, accepted, refused>>

FinishJob(w) ==
  /\ workerPc[w] = "finishing"
  /\ active' = active - 1
  /\ job' = [job EXCEPT ![w] = NoJob]
  /\ workerPc' = [workerPc EXCEPT ![w] = "ready"]
  /\ clientPc' = IF queued = 0 /\ active' = 0
                 THEN Broadcast(clientPc, "idle", "wait") ELSE clientPc
  /\ UNCHANGED <<life, state, ring, arg, ghosts>>

(***************************************************************************)
(* bs_worker_pool_submit                                                   *)
(***************************************************************************)
CallSubmit(c, j) ==
  /\ life = "open" /\ clientPc[c] = "out"
  /\ j \notin accepted \cup refused \cup {arg[d] : d \in Clients}
  /\ clientPc' = [clientPc EXCEPT ![c] = "submit"]
  /\ arg' = [arg EXCEPT ![c] = j]
  /\ UNCHANGED <<life, state, ring, active, workerPc, job, ghosts>>

SubmitBlocks(c) ==
  queued = QueueCapacity /\ state = "RUN" /\ ClientMoves(c, "submit", "notFull")

\* A stopped pool refuses the job even when the queue has room.
SubmitRefused(c) ==
  /\ clientPc[c] = "submit" /\ state # "RUN"
  /\ refused' = refused \cup {arg[c]}
  /\ clientPc' = [clientPc EXCEPT ![c] = "out"]
  /\ arg' = [arg EXCEPT ![c] = NoJob]
  /\ UNCHANGED <<life, state, ring, active, workerPc, job, accepted, runs>>

Enqueue(c) ==
  /\ clientPc[c] = "submit" /\ queued # QueueCapacity /\ state = "RUN"
  /\ queue' = [queue EXCEPT ![tail] = arg[c]]
  /\ tail' = Advance(tail)
  /\ queued' = queued + 1
  /\ workerPc' \in WakeWorker
  /\ accepted' = accepted \cup {arg[c]}
  /\ clientPc' = [clientPc EXCEPT ![c] = "out"]
  /\ arg' = [arg EXCEPT ![c] = NoJob]
  /\ UNCHANGED <<life, state, head, active, job, refused, runs>>

(***************************************************************************)
(* bs_worker_pool_wait                                                     *)
(***************************************************************************)
CallWait(c) == life = "open" /\ ClientMoves(c, "out", "wait")

WaitBlocks(c) == Busy /\ ClientMoves(c, "wait", "idle")

WaitReturns(c) == ~Busy /\ ClientMoves(c, "wait", "out")

(***************************************************************************)
(* bs_worker_pool_shutdown, bs_worker_pool_destroy                         *)
(***************************************************************************)
StopAndWake ==
  /\ state' = "STOP"
  /\ workerPc' = WakeAllWorkers
  /\ clientPc' = WakeAllSubmitters

Shutdown ==
  /\ life = "open"
  /\ StopAndWake
  /\ UNCHANGED <<life, ring, active, job, arg, ghosts>>

\* The callers' side of the contract: the pipeline destroys the pool from its
\* only client, the stress test after it joined its producers.
BeginDestroy ==
  /\ life = "open" /\ ClientsAt("out") = Clients
  /\ StopAndWake
  /\ life' = "joining"
  /\ UNCHANGED <<ring, active, job, arg, ghosts>>

FinishDestroy == WorkersJoined /\ OwnerMoves("joining", "freed")

(***************************************************************************)
(* POSIX allows a condition wait to return without a signal.               *)
(***************************************************************************)
SpuriousWorkerWakeup(w) == WorkerMoves(w, "notEmpty", "ready")

SpuriousClientWakeup(c) ==
  ClientMoves(c, "notFull", "submit") \/ ClientMoves(c, "idle", "wait")

\* The program is done with the pool.
Finished ==
  /\ life \in {"freed", "failed"}
  /\ UNCHANGED vars

-------------------------------------------------------------------------------
WorkerStep(w) ==
  WorkerWaits(w) \/ WorkerExits(w) \/ TakeJob(w) \/ RunTask(w) \/ FinishJob(w)

\* What a client does inside a call, once it made the call.
CallStep(c) ==
  \/ SubmitBlocks(c) \/ SubmitRefused(c) \/ Enqueue(c)
  \/ WaitBlocks(c) \/ WaitReturns(c)

OwnerStep ==
  \/ CreateFails \/ Allocate \/ StartWorkerFails \/ AbortJoined \/ CreateReturns
  \/ Shutdown \/ BeginDestroy \/ FinishDestroy

Next ==
  \/ OwnerStep
  \/ \E w \in Workers : StartWorker(w) \/ WorkerStep(w) \/ SpuriousWorkerWakeup(w)
  \/ \E c \in Clients : CallStep(c) \/ CallWait(c) \/ SpuriousClientWakeup(c)
  \/ \E c \in Clients, j \in Jobs : CallSubmit(c, j)
  \/ Finished

Spec == Init /\ [][Next]_vars

\* Threads that can run do run, a mutex that is free is granted, tasks return,
\* and pthread_join returns once the thread has ended. Nobody has to call the
\* pool, and no spurious wakeup has to happen.
Fairness ==
  /\ \A w \in Workers : WF_vars(WorkerStep(w))
  /\ \A c \in Clients : WF_vars(CallStep(c))
  /\ WF_vars(AbortJoined) /\ WF_vars(FinishDestroy)

FairSpec == Spec /\ Fairness

-------------------------------------------------------------------------------
(***************************************************************************)
(* Properties                                                              *)
(***************************************************************************)
\* Every variable keeps its type; head, tail and the counters stay in range.
TypeOK ==
  /\ life \in Lives /\ state \in {"RUN", "STOP"}
  /\ queue \in [Slots -> Jobs \cup {NoJob}]
  /\ head \in Slots /\ tail \in Slots /\ queued \in 0 .. QueueCapacity
  /\ active \in 0 .. Cardinality(Workers)
  /\ workerPc \in [Workers -> WorkerPcs] /\ job \in [Workers -> Jobs \cup {NoJob}]
  /\ clientPc \in [Clients -> ClientPcs] /\ arg \in [Clients -> Jobs \cup {NoJob}]
  /\ accepted \subseteq Jobs /\ refused \subseteq Jobs /\ runs \in [Jobs -> Nat]

\* A thread sleeps on a condition variable only while somebody else is certain
\* to look at the queue: while a worker sleeps there are as many awake workers
\* as queued jobs, while a submitter sleeps there are as many awake submitters
\* as free slots, a caller of wait sleeps only while the pool is busy, and no
\* worker or submitter sleeps in a stopped pool. This is what
\* pthread_cond_signal, in place of a broadcast, must not break.
NoLostWakeup ==
  /\ WorkersAt("notEmpty") # {} =>
       /\ state = "RUN"
       /\ Cardinality(WorkersAt("ready")) >= queued
  /\ ClientsAt("notFull") # {} =>
       /\ state = "RUN"
       /\ Cardinality(ClientsAt("submit")) >= QueueCapacity - queued
  /\ ClientsAt("idle") # {} => queued # 0 \/ active # 0

\* A job is executed once if submit accepted it and never if submit refused
\* it; when destroy has freed the pool no accepted job was left in the queue.
ExactlyOnce ==
  \A j \in Jobs :
    /\ runs[j] <= IF j \in accepted THEN 1 ELSE 0
    /\ life = "freed" /\ j \in accepted => runs[j] = 1

\* No worker can touch the pool once destroy, or a create that failed half
\* way, has freed it: all of them were joined.
NoWorkerOutlivesPool ==
  life \in {"freed", "failed"} => \A w \in Workers : workerPc[w] \in {"off", "exited"}

\* Every call of submit and wait returns, whether or not the pool is shut down
\* under it; destroy, and a create that has to stop the workers it started,
\* do not wait for them for ever.
CallsReturn ==
  /\ \A c \in Clients : clientPc[c] # "out" ~> clientPc[c] = "out"
  /\ life \in {"joining", "aborting"} ~> life \in {"freed", "failed"}

\* NoLostWakeup, NoWorkerOutlivesPool and TypeOK are inductive only together
\* with what the fields mean: active counts the workers outside the critical
\* sections with a job, a client inside submit carries a job, no worker
\* exists before the pool does, and no call is under way unless it is open.
ActiveCount ==
  active = Cardinality({w \in Workers : workerPc[w] \in {"running", "finishing"}})
ArgsAreJobs ==
  \A c \in Clients : clientPc[c] \in {"submit", "notFull"} => arg[c] \in Jobs
NoWorkerBeforePool == life = "absent" => \A w \in Workers : workerPc[w] = "off"
CallsOnlyWhenOpen == life # "open" => \A c \in Clients : clientPc[c] = "out"

PoolInvariant ==
  /\ TypeOK /\ ActiveCount /\ ArgsAreJobs /\ NoWorkerBeforePool /\ CallsOnlyWhenOpen
  /\ NoLostWakeup /\ NoWorkerOutlivesPool

-------------------------------------------------------------------------------
(***************************************************************************)
(* The pool implements TaskExecutor: the queue is what the ring buffer     *)
(* holds from head on, a job is running while a worker executes it.        *)
(***************************************************************************)
Pending == [i \in 1 .. queued |-> queue[(head + i - 1) % QueueCapacity]]

InHand  == {job[w] : w \in WorkersAt("running")}

Executor == INSTANCE TaskExecutor WITH
  Capacity   <- QueueCapacity,
  MaxRunning <- Cardinality(Workers),
  pending    <- Pending,
  running    <- InHand,
  done       <- {j \in Jobs : runs[j] > 0},
  closed     <- state = "STOP",
  waiters    <- ClientsAt("wait") \cup ClientsAt("idle")

\* Jobs are started in the order in which they were accepted, none is lost,
\* duplicated or started after a refusal, a wait ends only when the pool is
\* drained, and, under Fairness, every accepted job and every wait completes.
ImplementsExecutor == Executor!Spec

\* The part of it that is about single steps, for which fairness is not needed.
StepsImplementExecutor == Executor!Init /\ [][Executor!Next]_(Executor!vars)

\* ExactlyOnce and the refinement rest on where every job is: in the hand of one
\* caller of submit, in one slot of the ring, in the hand of one worker, or
\* executed. A worker ends only behind a drained queue in a stopped pool, and
\* in an open pool every worker was started, so a pool with an end to wait for
\* has somebody to drain it.
InQueue == {Pending[i] : i \in 1 .. queued}
Calling == {c \in Clients : clientPc[c] \in {"submit", "notFull"}}

RingOK == tail = (head + queued) % QueueCapacity
NoJobTwice ==
  /\ \A i, k \in 1 .. queued : Pending[i] = Pending[k] => i = k
  /\ \A v, w \in WorkersAt("running") : job[v] = job[w] => v = w
  /\ \A c, d \in Calling : arg[c] = arg[d] => c = d
  /\ InQueue \cap InHand = {}
EveryJobCounted ==
  /\ InQueue \cup InHand \subseteq accepted
  /\ accepted \cap refused = {}
  /\ \A c \in Calling : arg[c] \notin accepted \cup refused
  /\ \A j \in Jobs : runs[j] = IF j \in accepted \ (InQueue \cup InHand) THEN 1 ELSE 0
SomebodyDrains ==
  /\ WorkersAt("exited") # {} => queued = 0 /\ state = "STOP"
  /\ life \in {"open", "joining", "freed"} => WorkersAt("off") = {}

JobInvariant == RingOK /\ NoJobTwice /\ EveryJobCounted /\ SomebodyDrains
===============================================================================

--------------------------- MODULE WorkerPoolProofs ---------------------------
(***************************************************************************)
(* Proofs about the worker pool for every number of workers, clients and   *)
(* jobs and every queue capacity. The inductive invariant is               *)
(* PoolInvariant of WorkerPool.                                            *)
(***************************************************************************)
EXTENDS WorkerPool, FiniteSetTheorems, SequenceTheorems, TLAPS

\* Counting threads: what a set gains or loses when one thread moves.
LEMMA CountGain ==
  ASSUME NEW W, IsFiniteSet(W), NEW A \in SUBSET W, NEW t \in W, t \notin A
  PROVE  /\ Cardinality(A) \in Nat
         /\ Cardinality(A \cup {t}) = Cardinality(A) + 1
BY FS_Subset, FS_CardinalityType, FS_AddElement

LEMMA CountLoss ==
  ASSUME NEW W, IsFiniteSet(W), NEW A \in SUBSET W, NEW t \in A
  PROVE  /\ Cardinality(A) \in Nat
         /\ Cardinality(A \ {t}) \in Nat
         /\ Cardinality(A \ {t}) = Cardinality(A) - 1
<1>1. IsFiniteSet(A)
  BY FS_Subset
<1> QED
  BY <1>1, FS_CardinalityType, FS_RemoveElement

\* What the wakeups of the pool do to the program counters.
LEMMA WakeWorkerCases ==
  ASSUME TypeOK, workerPc' \in WakeWorker
  PROVE  \/ workerPc' = workerPc /\ WorkersAt("notEmpty") = {}
         \/ \E w \in Workers : /\ workerPc[w] = "notEmpty"
                               /\ workerPc' = [workerPc EXCEPT ![w] = "ready"]
<1>1. workerPc \in [Workers -> WorkerPcs] /\ workerPc' \in Signal(workerPc, "notEmpty", "ready")
  BY DEF TypeOK, WakeWorker
<1>2. \/ workerPc' = workerPc /\ \A w \in Workers : workerPc[w] # "notEmpty"
      \/ \E w \in Workers : /\ workerPc[w] = "notEmpty"
                            /\ workerPc' = [workerPc EXCEPT ![w] = "ready"]
  BY <1>1 DEF Signal
<1> QED
  BY <1>2 DEF WorkersAt

LEMMA WakeAllWorkersFacts ==
  ASSUME TypeOK, workerPc' = WakeAllWorkers
  PROVE  /\ workerPc' \in [Workers -> WorkerPcs]
         /\ \A w \in Workers :
              workerPc'[w] = IF workerPc[w] = "notEmpty" THEN "ready" ELSE workerPc[w]
BY DEF TypeOK, WakeAllWorkers, Broadcast, WorkerPcs

LEMMA WakeSubmitterCases ==
  ASSUME TypeOK, clientPc' \in Signal(clientPc, "notFull", "submit")
  PROVE  \/ clientPc' = clientPc /\ ClientsAt("notFull") = {}
         \/ \E c \in Clients : /\ clientPc[c] = "notFull"
                               /\ clientPc' = [clientPc EXCEPT ![c] = "submit"]
<1>1. clientPc \in [Clients -> ClientPcs] /\ clientPc' \in Signal(clientPc, "notFull", "submit")
  BY DEF TypeOK
<1>2. \/ clientPc' = clientPc /\ \A c \in Clients : clientPc[c] # "notFull"
      \/ \E c \in Clients : /\ clientPc[c] = "notFull"
                            /\ clientPc' = [clientPc EXCEPT ![c] = "submit"]
  BY <1>1 DEF Signal
<1> QED
  BY <1>2 DEF ClientsAt

LEMMA ClientBroadcastFacts ==
  ASSUME TypeOK, NEW cond, NEW resume \in ClientPcs,
         clientPc' = Broadcast(clientPc, cond, resume)
  PROVE  /\ clientPc' \in [Clients -> ClientPcs]
         /\ \A c \in Clients :
              clientPc'[c] = IF clientPc[c] = cond THEN resume ELSE clientPc[c]
BY DEF TypeOK, Broadcast

\* The set a counter of the pool or a clause of NoLostWakeup counts.
AtWork == {w \in Workers : workerPc[w] \in {"running", "finishing"}}

LEMMA InitPool == Init => PoolInvariant
<1> SUFFICES ASSUME Init PROVE PoolInvariant
  OBVIOUS
<1> USE PoolAssumption DEF Init
<1>1. TypeOK
  <2>1. active \in 0 .. Cardinality(Workers)
    BY FS_CardinalityType
  <2> QED
    BY <2>1 DEF TypeOK, Lives, Slots, WorkerPcs, ClientPcs
<1>2. ActiveCount
  <2>1. AtWork = {}
    BY DEF AtWork
  <2> QED
    BY <2>1, FS_EmptySet DEF ActiveCount, AtWork
<1>3. NoLostWakeup
  BY DEF NoLostWakeup, WorkersAt, ClientsAt
<1> QED
  BY <1>1, <1>2, <1>3 DEF PoolInvariant, ArgsAreJobs, NoWorkerBeforePool,
                              CallsOnlyWhenOpen, NoWorkerOutlivesPool

(***************************************************************************)
(* The counter of active workers                                           *)
(***************************************************************************)
\* A step that moves one worker from the outside to the inside of AtWork, or
\* back, changes the counter by one; the other steps leave both alone.
LEMMA ActiveCountStep ==
  TypeOK /\ ActiveCount /\ [Next]_vars => ActiveCount' /\ active' \in 0 .. Cardinality(Workers)
<1> SUFFICES ASSUME TypeOK, ActiveCount, [Next]_vars
             PROVE  ActiveCount' /\ active' \in 0 .. Cardinality(Workers)
  OBVIOUS
<1> USE PoolAssumption
<1>0. /\ active = Cardinality(AtWork) /\ AtWork \in SUBSET Workers
      /\ workerPc \in [Workers -> WorkerPcs]
  BY DEF ActiveCount, AtWork, TypeOK
<1>1. SUFFICES active' = Cardinality(AtWork')
  <2>1. AtWork' \in SUBSET Workers
    BY DEF AtWork
  <2>2. Cardinality(AtWork') \in 0 .. Cardinality(Workers)
    BY <2>1, FS_Subset, FS_CardinalityType
  <2> QED
    BY <1>1, <2>2 DEF ActiveCount, AtWork
<1>2. ASSUME NEW w \in Workers, TakeJob(w)
      PROVE  active' = Cardinality(AtWork')
  <2>1. w \notin AtWork /\ AtWork' = AtWork \cup {w}
    BY <1>0, <1>2 DEF TakeJob, AtWork
  <2> QED
    BY <1>0, <1>2, <2>1, CountGain DEF TakeJob
<1>3. ASSUME NEW w \in Workers, FinishJob(w)
      PROVE  active' = Cardinality(AtWork')
  <2>1. w \in AtWork /\ AtWork' = AtWork \ {w}
    BY <1>0, <1>3 DEF FinishJob, AtWork
  <2> QED
    BY <1>0, <1>3, <2>1, CountLoss DEF FinishJob
<1>4. CASE active' = active /\ AtWork' = AtWork
  BY <1>0, <1>4
<1>5. ASSUME NEW w \in Workers,
             \/ StartWorker(w) \/ WorkerWaits(w) \/ WorkerExits(w) \/ RunTask(w)
             \/ SpuriousWorkerWakeup(w)
      PROVE  active' = active /\ AtWork' = AtWork
  BY <1>0, <1>5 DEF StartWorker, WorkerWaits, WorkerExits, RunTask, SpuriousWorkerWakeup, AtWork,
           WorkerMoves
<1>6. ASSUME workerPc' = WakeAllWorkers
      PROVE  AtWork' = AtWork
  <2>1. \A w \in Workers : workerPc'[w] = IF workerPc[w] = "notEmpty" THEN "ready" ELSE workerPc[w]
    BY <1>6, WakeAllWorkersFacts
  <2> QED
    BY <2>1 DEF AtWork
<1>7. ASSUME workerPc' \in WakeWorker
      PROVE  AtWork' = AtWork
  <2>1. \/ workerPc' = workerPc
        \/ \E w \in Workers : workerPc[w] = "notEmpty" /\ workerPc' = [workerPc EXCEPT ![w] = "ready"]
    BY <1>7, WakeWorkerCases
  <2> QED
    BY <1>0, <2>1 DEF AtWork
<1>8. CASE OwnerStep
  <2>1. CASE StartWorkerFails \/ Shutdown \/ BeginDestroy
    BY <2>1, <1>6, <1>4 DEF StartWorkerFails, Shutdown, BeginDestroy, StopAndWake
  <2>2. CASE CreateFails \/ Allocate \/ AbortJoined \/ CreateReturns \/ FinishDestroy
    BY <2>2, <1>4 DEF CreateFails, Allocate, AbortJoined, CreateReturns, FinishDestroy, AtWork,
             OwnerMoves
  <2> QED
    BY <1>8, <2>1, <2>2 DEF OwnerStep
<1>9. CASE \E w \in Workers : StartWorker(w) \/ WorkerStep(w) \/ SpuriousWorkerWakeup(w)
  BY <1>9, <1>2, <1>3, <1>4, <1>5 DEF WorkerStep
<1>10. ASSUME NEW c \in Clients, CallStep(c) \/ CallWait(c) \/ SpuriousClientWakeup(c)
       PROVE  active' = active /\ AtWork' = AtWork
  <2>1. CASE Enqueue(c)
    BY <2>1, <1>7 DEF Enqueue
  <2>2. CASE ~Enqueue(c)
    BY <2>2, <1>10 DEF CallStep, SubmitBlocks, SubmitRefused, WaitBlocks, WaitReturns, CallWait,
                       SpuriousClientWakeup, AtWork, ClientMoves
  <2> QED
    BY <2>1, <2>2
<1>11. CASE \/ \E c \in Clients, j \in Jobs : CallSubmit(c, j)
            \/ Finished
            \/ UNCHANGED vars
  BY <1>11, <1>4 DEF CallSubmit, Finished, vars, AtWork
<1> QED
  BY <1>4, <1>8, <1>9, <1>10, <1>11 DEF Next

(***************************************************************************)
(* Types                                                                   *)
(***************************************************************************)
LEMMA TypeStep ==
  TypeOK /\ ActiveCount /\ ArgsAreJobs /\ [Next]_vars => TypeOK' /\ ArgsAreJobs'
<1> SUFFICES ASSUME TypeOK, ActiveCount, ArgsAreJobs, [Next]_vars
             PROVE  TypeOK' /\ ArgsAreJobs'
  OBVIOUS
<1> USE PoolAssumption DEF Slots
<1>1. active' \in 0 .. Cardinality(Workers)
  BY ActiveCountStep
<1>2. \A i \in Slots : Advance(i) \in Slots
  BY DEF Advance
<1>3. ASSUME workerPc' = WakeAllWorkers
      PROVE  workerPc' \in [Workers -> WorkerPcs]
  BY <1>3, WakeAllWorkersFacts
<1>4. CASE UNCHANGED vars
  BY <1>4 DEF vars, ring, ghosts, TypeOK, ArgsAreJobs
<1>5. CASE OwnerStep
  <2>1. CASE CreateFails \/ Allocate \/ AbortJoined \/ CreateReturns \/ FinishDestroy
    BY <2>1 DEF CreateFails, Allocate, AbortJoined, CreateReturns, FinishDestroy, ring, ghosts,
                TypeOK, ArgsAreJobs, Lives, OwnerMoves
  <2>2. CASE StartWorkerFails
    BY <2>2, <1>3 DEF StartWorkerFails, ring, ghosts, TypeOK, ArgsAreJobs, Lives
  <2>3. CASE Shutdown \/ BeginDestroy
    <3>1. /\ clientPc' \in [Clients -> ClientPcs]
          /\ \A c \in Clients :
               clientPc'[c] = IF clientPc[c] = "notFull" THEN "submit" ELSE clientPc[c]
      BY <2>3, ClientBroadcastFacts DEF Shutdown, BeginDestroy, StopAndWake, WakeAllSubmitters,
               ClientPcs
    <3> QED
      BY <2>3, <3>1, <1>3 DEF Shutdown, BeginDestroy, StopAndWake, ring, ghosts, TypeOK,
               ArgsAreJobs, Lives
  <2> QED
    BY <1>5, <2>1, <2>2, <2>3 DEF OwnerStep
<1>6. ASSUME NEW w \in Workers, StartWorker(w) \/ WorkerStep(w) \/ SpuriousWorkerWakeup(w)
      PROVE  TypeOK' /\ ArgsAreJobs'
  <2>1. CASE \/ StartWorker(w) \/ WorkerWaits(w) \/ WorkerExits(w) \/ RunTask(w)
             \/ SpuriousWorkerWakeup(w)
    BY <2>1 DEF StartWorker, WorkerWaits, WorkerExits, RunTask, SpuriousWorkerWakeup, ring, ghosts,
                TypeOK, ArgsAreJobs, WorkerPcs, WorkerMoves
  <2>2. CASE TakeJob(w)
    <3>1. clientPc' \in [Clients -> ClientPcs] /\ ArgsAreJobs'
      <4>1. \/ clientPc' = clientPc
            \/ \E c \in Clients : /\ clientPc[c] = "notFull"
                                  /\ clientPc' = [clientPc EXCEPT ![c] = "submit"]
        BY <2>2, WakeSubmitterCases DEF TakeJob
      <4> QED
        BY <2>2, <4>1 DEF TakeJob, TypeOK, ArgsAreJobs, ClientPcs
    <3>2. workerPc' \in [Workers -> WorkerPcs] /\ job' \in [Workers -> Jobs \cup {NoJob}]
      BY <2>2 DEF TakeJob, NextJob, TypeOK, WorkerPcs
    <3>3. head' \in Slots /\ queued' \in 0 .. QueueCapacity
      BY <2>2, <1>2 DEF TakeJob, TypeOK
    <3> QED
      BY <2>2, <3>1, <3>2, <3>3, <1>1 DEF TakeJob, ghosts, TypeOK
  <2>3. CASE FinishJob(w)
    <3>1. clientPc' \in [Clients -> ClientPcs] /\ ArgsAreJobs'
      <4>1. CASE clientPc' = Broadcast(clientPc, "idle", "wait")
        <5>1. /\ clientPc' \in [Clients -> ClientPcs]
              /\ \A c \in Clients :
                   clientPc'[c] = IF clientPc[c] = "idle" THEN "wait" ELSE clientPc[c]
          BY <4>1, ClientBroadcastFacts DEF ClientPcs
        <5> QED
          BY <2>3, <5>1 DEF FinishJob, ArgsAreJobs
      <4>2. CASE clientPc' = clientPc
        BY <2>3, <4>2 DEF FinishJob, TypeOK, ArgsAreJobs
      <4> QED
        BY <2>3, <4>1, <4>2 DEF FinishJob
    <3> QED
      BY <2>3, <3>1, <1>1 DEF FinishJob, ring, ghosts, TypeOK, WorkerPcs
  <2> QED
    BY <1>6, <2>1, <2>2, <2>3 DEF WorkerStep
<1>7. ASSUME NEW c \in Clients,
             \/ CallStep(c) \/ CallWait(c) \/ SpuriousClientWakeup(c)
             \/ \E j \in Jobs : CallSubmit(c, j)
      PROVE  TypeOK' /\ ArgsAreJobs'
  <2>1. CASE Enqueue(c)
    <3>1. workerPc' \in [Workers -> WorkerPcs]
      <4>1. \/ workerPc' = workerPc
            \/ \E w \in Workers : workerPc' = [workerPc EXCEPT ![w] = "ready"]
        BY <2>1, WakeWorkerCases DEF Enqueue
      <4> QED
        BY <4>1 DEF TypeOK, WorkerPcs
    <3>2. arg[c] \in Jobs
      BY <2>1 DEF Enqueue, ArgsAreJobs
    <3> QED
      BY <2>1, <3>1, <3>2, <1>1, <1>2 DEF Enqueue, TypeOK, ArgsAreJobs, ClientPcs
  <2>2. CASE SubmitRefused(c)
    BY <2>2 DEF SubmitRefused, ring, TypeOK, ArgsAreJobs, ClientPcs
  <2>3. CASE \E j \in Jobs : CallSubmit(c, j)
    BY <2>3 DEF CallSubmit, ring, ghosts, TypeOK, ArgsAreJobs, ClientPcs
  <2>4. CASE \/ SubmitBlocks(c) \/ WaitBlocks(c) \/ WaitReturns(c) \/ CallWait(c)
             \/ SpuriousClientWakeup(c)
    BY <2>4 DEF SubmitBlocks, WaitBlocks, WaitReturns, CallWait, SpuriousClientWakeup, ring, ghosts,
                TypeOK, ArgsAreJobs, ClientPcs, ClientMoves
  <2> QED
    BY <1>7, <2>1, <2>2, <2>3, <2>4 DEF CallStep
<1> QED
  BY <1>4, <1>5, <1>6, <1>7 DEF Next, Finished

(***************************************************************************)
(* Sleeping threads                                                        *)
(***************************************************************************)
\* The three clauses of NoLostWakeup.
WorkersWoken ==
  WorkersAt("notEmpty") # {} => state = "RUN" /\ Cardinality(WorkersAt("ready")) >= queued
SubmittersWoken ==
  ClientsAt("notFull") # {} =>
    state = "RUN" /\ Cardinality(ClientsAt("submit")) >= QueueCapacity - queued
WaitersWoken == ClientsAt("idle") # {} => queued # 0 \/ active # 0

LEMMA Counts ==
  /\ WorkersAt("ready") \in SUBSET Workers /\ Cardinality(WorkersAt("ready")) \in Nat
  /\ ClientsAt("submit") \in SUBSET Clients /\ Cardinality(ClientsAt("submit")) \in Nat
<1>1. WorkersAt("ready") \in SUBSET Workers /\ ClientsAt("submit") \in SUBSET Clients
  BY DEF WorkersAt, ClientsAt
<1> QED
  BY <1>1, PoolAssumption, FS_Subset, FS_CardinalityType

\* A worker goes to sleep only on an empty queue; a job that is added wakes a
\* sleeper if there is one, and a worker that takes a job takes it away from
\* the jobs the awake workers have to cover.
LEMMA WorkersWokenStep ==
  TypeOK /\ WorkersWoken /\ [Next]_vars => WorkersWoken'
<1> SUFFICES ASSUME TypeOK, WorkersWoken, [Next]_vars PROVE WorkersWoken'
  OBVIOUS
<1> USE PoolAssumption
<1>1. /\ workerPc \in [Workers -> WorkerPcs] /\ queued \in Nat
      /\ WorkersAt("ready") \in SUBSET Workers /\ Cardinality(WorkersAt("ready")) \in Nat
  BY Counts DEF TypeOK
<1>2. CASE UNCHANGED <<workerPc, state, queued>>
  BY <1>2 DEF WorkersWoken, WorkersAt
<1>3. ASSUME NEW w \in Workers, TakeJob(w)
      PROVE  WorkersWoken'
  <2>1. /\ w \in WorkersAt("ready")
        /\ WorkersAt("ready")' = WorkersAt("ready") \ {w}
        /\ WorkersAt("notEmpty")' = WorkersAt("notEmpty")
    BY <1>1, <1>3 DEF TakeJob, WorkersAt
  <2>2. Cardinality(WorkersAt("ready")') = Cardinality(WorkersAt("ready")) - 1
    BY <1>1, <2>1, CountLoss
  <2> QED
    BY <1>1, <1>3, <2>1, <2>2 DEF TakeJob, WorkersWoken
<1>4. ASSUME NEW w \in Workers, WorkerWaits(w)
      PROVE  WorkersWoken'
  <2>1. state' = "RUN" /\ queued' = 0
    BY <1>4 DEF WorkerWaits, ring, WorkerMoves
  <2>2. Cardinality(WorkersAt("ready")') \in Nat
    BY PoolAssumption, FS_Subset, FS_CardinalityType DEF WorkersAt
  <2> QED
    BY <2>1, <2>2 DEF WorkersWoken
<1>5. ASSUME NEW w \in Workers, StartWorker(w) \/ FinishJob(w) \/ SpuriousWorkerWakeup(w)
      PROVE  WorkersWoken'
  <2>1. /\ w \notin WorkersAt("ready")
        /\ WorkersAt("ready")' = WorkersAt("ready") \cup {w}
        /\ WorkersAt("notEmpty")' \subseteq WorkersAt("notEmpty")
        /\ UNCHANGED <<state, queued>>
    BY <1>1, <1>5 DEF StartWorker, FinishJob, SpuriousWorkerWakeup, WorkersAt, ring, WorkerMoves
  <2>2. Cardinality(WorkersAt("ready")') = Cardinality(WorkersAt("ready")) + 1
    BY <1>1, <2>1, CountGain
  <2> QED
    BY <1>1, <2>1, <2>2 DEF WorkersWoken
<1>6. ASSUME NEW w \in Workers, WorkerExits(w)
      PROVE  WorkersWoken'
  <2>1. WorkersAt("notEmpty") = {}
    BY <1>6 DEF WorkerExits, MayExit, WorkersWoken, WorkerMoves
  <2> QED
    BY <1>1, <1>6, <2>1 DEF WorkerExits, WorkersWoken, WorkersAt, WorkerMoves
<1>7. ASSUME NEW w \in Workers, RunTask(w)
      PROVE  WorkersWoken'
  BY <1>1, <1>7 DEF RunTask, WorkersWoken, WorkersAt, ring
<1>8. ASSUME NEW c \in Clients, Enqueue(c)
      PROVE  WorkersWoken'
  <2>1. queued' = queued + 1 /\ state' = state /\ workerPc' \in WakeWorker
    BY <1>8 DEF Enqueue
  <2>2. CASE WorkersAt("notEmpty") = {} /\ workerPc' = workerPc
    BY <2>2 DEF WorkersWoken, WorkersAt
  <2>3. CASE \E w \in Workers : /\ workerPc[w] = "notEmpty"
                               /\ workerPc' = [workerPc EXCEPT ![w] = "ready"]
    <3>1. PICK w \in Workers : /\ workerPc[w] = "notEmpty"
                               /\ workerPc' = [workerPc EXCEPT ![w] = "ready"]
      BY <2>3
    <3>2. /\ w \notin WorkersAt("ready") /\ WorkersAt("notEmpty") # {}
          /\ WorkersAt("ready")' = WorkersAt("ready") \cup {w}
      BY <1>1, <3>1 DEF WorkersAt
    <3>3. Cardinality(WorkersAt("ready")') = Cardinality(WorkersAt("ready")) + 1
      BY <1>1, <3>2, CountGain
    <3> QED
      BY <1>1, <2>1, <3>2, <3>3 DEF WorkersWoken
  <2> QED
    BY <2>1, <2>2, <2>3, WakeWorkerCases
<1>9. ASSUME workerPc' = WakeAllWorkers
      PROVE  WorkersWoken'
  <2>1. WorkersAt("notEmpty")' = {}
    BY <1>9, WakeAllWorkersFacts DEF WorkersAt
  <2> QED
    BY <2>1 DEF WorkersWoken
<1>10. CASE OwnerStep
  BY <1>10, <1>2, <1>9 DEF OwnerStep, CreateFails, Allocate, StartWorkerFails, AbortJoined,
           CreateReturns,
                           Shutdown, BeginDestroy, StopAndWake, FinishDestroy, ring, OwnerMoves
<1>11. ASSUME NEW c \in Clients,
              \/ SubmitBlocks(c) \/ SubmitRefused(c) \/ WaitBlocks(c) \/ WaitReturns(c)
              \/ CallWait(c) \/ SpuriousClientWakeup(c) \/ \E j \in Jobs : CallSubmit(c, j)
       PROVE  WorkersWoken'
  BY <1>11, <1>2 DEF SubmitBlocks, SubmitRefused, WaitBlocks, WaitReturns, CallWait,
                     SpuriousClientWakeup, CallSubmit, ring, ClientMoves
<1>12. CASE Finished \/ UNCHANGED vars
  BY <1>12, <1>2 DEF Finished, vars, ring
<1> QED
  BY <1>3, <1>4, <1>5, <1>6, <1>7, <1>8, <1>10, <1>11, <1>12 DEF Next, WorkerStep, CallStep

\* The mirror image for submitters: free slots in place of queued jobs.
LEMMA SubmittersWokenStep ==
  TypeOK /\ CallsOnlyWhenOpen /\ SubmittersWoken /\ [Next]_vars => SubmittersWoken'
<1> SUFFICES ASSUME TypeOK, CallsOnlyWhenOpen, SubmittersWoken, [Next]_vars
             PROVE  SubmittersWoken'
  OBVIOUS
<1> USE PoolAssumption
<1>1. /\ clientPc \in [Clients -> ClientPcs] /\ queued \in 0 .. QueueCapacity
      /\ ClientsAt("submit") \in SUBSET Clients /\ Cardinality(ClientsAt("submit")) \in Nat
  BY Counts DEF TypeOK
<1>2. CASE UNCHANGED <<clientPc, state, queued>>
  BY <1>2 DEF SubmittersWoken, ClientsAt
<1>3. ASSUME NEW w \in Workers, TakeJob(w)
      PROVE  SubmittersWoken'
  <2>1. queued' = queued - 1 /\ state' = state
    BY <1>3 DEF TakeJob
  <2>2. CASE ClientsAt("notFull") = {} /\ clientPc' = clientPc
    BY <2>2 DEF SubmittersWoken, ClientsAt
  <2>3. CASE \E c \in Clients : /\ clientPc[c] = "notFull"
                               /\ clientPc' = [clientPc EXCEPT ![c] = "submit"]
    <3>1. PICK c \in Clients : /\ clientPc[c] = "notFull"
                               /\ clientPc' = [clientPc EXCEPT ![c] = "submit"]
      BY <2>3
    <3>2. /\ c \notin ClientsAt("submit") /\ ClientsAt("notFull") # {}
          /\ ClientsAt("submit")' = ClientsAt("submit") \cup {c}
      BY <1>1, <3>1 DEF ClientsAt
    <3>3. Cardinality(ClientsAt("submit")') = Cardinality(ClientsAt("submit")) + 1
      BY <1>1, <3>2, CountGain
    <3> QED
      BY <1>1, <2>1, <3>2, <3>3 DEF SubmittersWoken
  <2> QED
    BY <1>3, <2>2, <2>3, WakeSubmitterCases DEF TakeJob
<1>4. ASSUME NEW c \in Clients, SubmitBlocks(c)
      PROVE  SubmittersWoken'
  <2>1. state' = "RUN" /\ queued' = QueueCapacity
    BY <1>4 DEF SubmitBlocks, ring, ClientMoves
  <2>2. Cardinality(ClientsAt("submit")') \in Nat
    BY FS_Subset, FS_CardinalityType DEF ClientsAt
  <2> QED
    BY <2>1, <2>2 DEF SubmittersWoken
<1>5. ASSUME NEW c \in Clients, Enqueue(c)
      PROVE  SubmittersWoken'
  <2>1. /\ c \in ClientsAt("submit")
        /\ ClientsAt("submit")' = ClientsAt("submit") \ {c}
        /\ ClientsAt("notFull")' = ClientsAt("notFull")
    BY <1>1, <1>5 DEF Enqueue, ClientsAt
  <2>2. Cardinality(ClientsAt("submit")') = Cardinality(ClientsAt("submit")) - 1
    BY <1>1, <2>1, CountLoss
  <2> QED
    BY <1>1, <1>5, <2>1, <2>2 DEF Enqueue, SubmittersWoken
<1>6. ASSUME NEW c \in Clients, SubmitRefused(c)
      PROVE  SubmittersWoken'
  <2>1. ClientsAt("notFull") = {}
    BY <1>6 DEF SubmitRefused, SubmittersWoken
  <2> QED
    BY <1>1, <1>6, <2>1 DEF SubmitRefused, SubmittersWoken, ClientsAt
<1>7. ASSUME NEW c \in Clients, NEW j \in Jobs, CallSubmit(c, j)
      PROVE  SubmittersWoken'
  <2>1. /\ c \notin ClientsAt("submit")
        /\ ClientsAt("submit")' = ClientsAt("submit") \cup {c}
        /\ ClientsAt("notFull")' = ClientsAt("notFull")
        /\ UNCHANGED <<state, queued>>
    BY <1>1, <1>7 DEF CallSubmit, ClientsAt, ring
  <2>2. Cardinality(ClientsAt("submit")') = Cardinality(ClientsAt("submit")) + 1
    BY <1>1, <2>1, CountGain
  <2> QED
    BY <1>1, <2>1, <2>2 DEF SubmittersWoken
<1>8. ASSUME NEW c \in Clients, CallWait(c) \/ WaitBlocks(c) \/ WaitReturns(c)
      PROVE  SubmittersWoken'
  <2>1. /\ ClientsAt("submit")' = ClientsAt("submit")
        /\ ClientsAt("notFull")' = ClientsAt("notFull")
    BY <1>1, <1>8 DEF CallWait, WaitBlocks, WaitReturns, ClientsAt, ClientMoves
  <2> QED
    BY <1>8, <2>1 DEF CallWait, WaitBlocks, WaitReturns, ring, SubmittersWoken, ClientMoves
<1>9. ASSUME NEW c \in Clients, SpuriousClientWakeup(c)
      PROVE  SubmittersWoken'
  <2>1. UNCHANGED <<state, queued>>
    BY <1>9 DEF SpuriousClientWakeup, ring, ClientMoves
  <2>2. CASE clientPc[c] = "notFull" /\ clientPc' = [clientPc EXCEPT ![c] = "submit"]
    <3>1. /\ c \notin ClientsAt("submit") /\ ClientsAt("notFull") # {}
          /\ ClientsAt("submit")' = ClientsAt("submit") \cup {c}
      BY <1>1, <2>2 DEF ClientsAt
    <3>2. Cardinality(ClientsAt("submit")') = Cardinality(ClientsAt("submit")) + 1
      BY <1>1, <3>1, CountGain
    <3> QED
      BY <1>1, <2>1, <3>1, <3>2 DEF SubmittersWoken
  <2>3. CASE clientPc[c] = "idle" /\ clientPc' = [clientPc EXCEPT ![c] = "wait"]
    <3>1. /\ ClientsAt("submit")' = ClientsAt("submit")
          /\ ClientsAt("notFull")' = ClientsAt("notFull")
      BY <1>1, <2>3 DEF ClientsAt
    <3> QED
      BY <2>1, <3>1 DEF SubmittersWoken
  <2> QED
    BY <1>9, <2>2, <2>3 DEF SpuriousClientWakeup, ClientMoves
<1>10. ASSUME NEW w \in Workers, FinishJob(w)
       PROVE  SubmittersWoken'
  <2>1. /\ ClientsAt("submit")' = ClientsAt("submit")
        /\ ClientsAt("notFull")' = ClientsAt("notFull")
    <3>1. CASE clientPc' = Broadcast(clientPc, "idle", "wait")
      BY <3>1, ClientBroadcastFacts DEF ClientPcs, ClientsAt
    <3> QED
      BY <1>10, <3>1 DEF FinishJob, ClientsAt
  <2> QED
    BY <1>10, <2>1 DEF FinishJob, ring, SubmittersWoken
<1>11. ASSUME clientPc' = WakeAllSubmitters
       PROVE  SubmittersWoken'
  <2>1. ClientsAt("notFull")' = {}
    BY <1>11, ClientBroadcastFacts DEF WakeAllSubmitters, ClientPcs, ClientsAt
  <2> QED
    BY <2>1 DEF SubmittersWoken
<1>12. CASE StartWorkerFails
  BY <1>12 DEF StartWorkerFails, CallsOnlyWhenOpen, SubmittersWoken, ClientsAt
<1>13. CASE OwnerStep /\ ~StartWorkerFails
  BY <1>13, <1>2, <1>11 DEF OwnerStep, CreateFails, Allocate, AbortJoined, CreateReturns,
                            Shutdown, BeginDestroy, StopAndWake, FinishDestroy, ring, OwnerMoves
<1>14. ASSUME NEW w \in Workers,
              \/ StartWorker(w) \/ WorkerWaits(w) \/ WorkerExits(w) \/ RunTask(w)
              \/ SpuriousWorkerWakeup(w)
       PROVE  SubmittersWoken'
  BY <1>14, <1>2 DEF StartWorker, WorkerWaits, WorkerExits, RunTask, SpuriousWorkerWakeup, ring,
           WorkerMoves
<1>15. CASE Finished \/ UNCHANGED vars
  BY <1>15, <1>2 DEF Finished, vars, ring
<1> QED
  BY <1>3, <1>4, <1>5, <1>6, <1>7, <1>8, <1>9, <1>10, <1>12, <1>13, <1>14, <1>15
     DEF Next, WorkerStep, CallStep

\* A caller of wait sleeps only while there is work; the worker that finishes
\* the last job wakes all of them.
LEMMA WaitersWokenStep ==
  TypeOK /\ WaitersWoken /\ [Next]_vars => WaitersWoken'
<1> SUFFICES ASSUME TypeOK, WaitersWoken, [Next]_vars PROVE WaitersWoken'
  OBVIOUS
<1>1. clientPc \in [Clients -> ClientPcs] /\ queued \in Nat /\ active \in Nat
  BY PoolAssumption, FS_CardinalityType DEF TypeOK
<1>2. CASE UNCHANGED <<clientPc, queued, active>>
  BY <1>2 DEF WaitersWoken, ClientsAt
<1>3. ASSUME NEW w \in Workers, TakeJob(w)
      PROVE  WaitersWoken'
  BY <1>1, <1>3 DEF TakeJob, WaitersWoken
<1>4. ASSUME NEW w \in Workers, FinishJob(w)
      PROVE  WaitersWoken'
  <2>1. CASE queued = 0 /\ active' = 0
    <3>1. clientPc' = Broadcast(clientPc, "idle", "wait")
      BY <1>4, <2>1 DEF FinishJob
    <3>2. ClientsAt("idle")' = {}
      BY <3>1, ClientBroadcastFacts DEF ClientPcs, ClientsAt
    <3> QED
      BY <3>2 DEF WaitersWoken
  <2>2. CASE queued # 0 \/ active' # 0
    BY <1>4, <2>2 DEF FinishJob, ring, WaitersWoken
  <2> QED
    BY <2>1, <2>2
<1>5. ASSUME NEW c \in Clients, Enqueue(c)
      PROVE  WaitersWoken'
  BY <1>1, <1>5 DEF Enqueue, WaitersWoken
<1>6. ASSUME NEW c \in Clients, WaitBlocks(c)
      PROVE  WaitersWoken'
  BY <1>6 DEF WaitBlocks, Busy, ring, WaitersWoken, ClientMoves
<1>7. ASSUME NEW c \in Clients,
             \/ SubmitBlocks(c) \/ SubmitRefused(c) \/ WaitReturns(c) \/ CallWait(c)
             \/ SpuriousClientWakeup(c) \/ \E j \in Jobs : CallSubmit(c, j)
      PROVE  WaitersWoken'
  <2>1. ClientsAt("idle")' \subseteq ClientsAt("idle") /\ UNCHANGED <<queued, active>>
    BY <1>1, <1>7 DEF SubmitBlocks, SubmitRefused, WaitReturns, CallWait, SpuriousClientWakeup,
                      CallSubmit, ClientsAt, ring, ClientMoves
  <2> QED
    BY <2>1 DEF WaitersWoken
<1>8. CASE Shutdown \/ BeginDestroy
  <2>1. ClientsAt("idle")' = ClientsAt("idle") /\ UNCHANGED <<queued, active>>
    BY <1>8, ClientBroadcastFacts DEF Shutdown, BeginDestroy, StopAndWake, WakeAllSubmitters,
                                      ClientPcs, ClientsAt, ring
  <2> QED
    BY <2>1 DEF WaitersWoken
<1>9. CASE OwnerStep /\ ~(Shutdown \/ BeginDestroy)
  BY <1>9, <1>2 DEF OwnerStep, CreateFails, Allocate, StartWorkerFails, AbortJoined, CreateReturns,
                    FinishDestroy, ring, OwnerMoves
<1>10. ASSUME NEW w \in Workers,
              \/ StartWorker(w) \/ WorkerWaits(w) \/ WorkerExits(w) \/ RunTask(w)
              \/ SpuriousWorkerWakeup(w)
       PROVE  WaitersWoken'
  BY <1>10, <1>2 DEF StartWorker, WorkerWaits, WorkerExits, RunTask, SpuriousWorkerWakeup, ring,
           WorkerMoves
<1>11. CASE Finished \/ UNCHANGED vars
  BY <1>11, <1>2 DEF Finished, vars, ring
<1> QED
  BY <1>3, <1>4, <1>5, <1>6, <1>7, <1>8, <1>9, <1>10, <1>11 DEF Next, WorkerStep, CallStep

LEMMA NoLostWakeupStep ==
  TypeOK /\ CallsOnlyWhenOpen /\ NoLostWakeup /\ [Next]_vars => NoLostWakeup'
<1>1. NoLostWakeup <=> WorkersWoken /\ SubmittersWoken /\ WaitersWoken
  BY DEF NoLostWakeup, WorkersWoken, SubmittersWoken, WaitersWoken
<1>2. NoLostWakeup' <=> WorkersWoken' /\ SubmittersWoken' /\ WaitersWoken'
  BY DEF NoLostWakeup, WorkersWoken, SubmittersWoken, WaitersWoken
<1> QED
  BY <1>1, <1>2, WorkersWokenStep, SubmittersWokenStep, WaitersWokenStep

(***************************************************************************)
(* The life of the pool                                                    *)
(***************************************************************************)
LEMMA CallsStep ==
  TypeOK /\ CallsOnlyWhenOpen /\ [Next]_vars => CallsOnlyWhenOpen'
<1> SUFFICES ASSUME TypeOK, CallsOnlyWhenOpen, [Next]_vars PROVE CallsOnlyWhenOpen'
  OBVIOUS
<1> DEFINE AllOut == \A c \in Clients : clientPc[c] = "out"
<1>1. clientPc \in [Clients -> ClientPcs]
  BY DEF TypeOK
<1>3. CASE life = "open" /\ life' = "open"
  BY <1>3 DEF CallsOnlyWhenOpen
<1>4. CASE BeginDestroy
  BY <1>1, <1>4, ClientBroadcastFacts
     DEF BeginDestroy, StopAndWake, WakeAllSubmitters, ClientPcs, ClientsAt, CallsOnlyWhenOpen
<1>5. ASSUME NEW w \in Workers, TakeJob(w) \/ FinishJob(w), life # "open"
      PROVE  CallsOnlyWhenOpen'
  <2>1. AllOut /\ life' = life
    BY <1>5 DEF CallsOnlyWhenOpen, TakeJob, FinishJob
  <2>2. CASE TakeJob(w)
    BY <1>1, <2>1, <2>2, WakeSubmitterCases DEF TakeJob, CallsOnlyWhenOpen
  <2>3. CASE FinishJob(w)
    <3>1. CASE clientPc' = Broadcast(clientPc, "idle", "wait")
      BY <2>1, <3>1, ClientBroadcastFacts DEF ClientPcs, CallsOnlyWhenOpen
    <3> QED
      BY <2>1, <2>3, <3>1 DEF FinishJob, CallsOnlyWhenOpen
  <2> QED
    BY <1>5, <2>2, <2>3
<1>6. ASSUME NEW c \in Clients,
             \/ CallStep(c) \/ CallWait(c) \/ SpuriousClientWakeup(c)
             \/ \E j \in Jobs : CallSubmit(c, j)
      PROVE  life = "open" /\ life' = "open"
  BY <1>6 DEF CallsOnlyWhenOpen, CallStep, SubmitBlocks, SubmitRefused, Enqueue, WaitBlocks,
              WaitReturns, CallWait, SpuriousClientWakeup, CallSubmit, ClientMoves
<1>7. ASSUME NEW w \in Workers,
             \/ StartWorker(w) \/ WorkerWaits(w) \/ WorkerExits(w) \/ RunTask(w)
             \/ SpuriousWorkerWakeup(w)
      PROVE  UNCHANGED <<life, clientPc>>
  BY <1>7 DEF StartWorker, WorkerWaits, WorkerExits, RunTask, SpuriousWorkerWakeup, WorkerMoves
<1>8. CASE Finished \/ UNCHANGED vars
  BY <1>8 DEF Finished, vars, CallsOnlyWhenOpen
<1>9. CASE OwnerStep /\ ~BeginDestroy
  BY <1>9 DEF OwnerStep, CreateFails, Allocate, StartWorkerFails, AbortJoined, CreateReturns,
              Shutdown, FinishDestroy, CallsOnlyWhenOpen, OwnerMoves
<1>10. ASSUME NEW w \in Workers, TakeJob(w) \/ FinishJob(w), life = "open"
       PROVE  life = "open" /\ life' = "open"
  BY <1>10 DEF TakeJob, FinishJob
<1>11. CASE UNCHANGED <<life, clientPc>>
  BY <1>11 DEF CallsOnlyWhenOpen
<1> QED
  BY <1>3, <1>4, <1>5, <1>6, <1>7, <1>8, <1>9, <1>10, <1>11 DEF Next, WorkerStep

\* Once the pool is freed no worker runs, because destroy and a failed create
\* join every worker that was started, and a worker that ended stays ended.
LEMMA LifeStep ==
  TypeOK /\ NoWorkerBeforePool /\ NoWorkerOutlivesPool /\ [Next]_vars
    => NoWorkerBeforePool' /\ NoWorkerOutlivesPool'
<1> SUFFICES ASSUME TypeOK, NoWorkerBeforePool, NoWorkerOutlivesPool, [Next]_vars
             PROVE  NoWorkerBeforePool' /\ NoWorkerOutlivesPool'
  OBVIOUS
<1> USE DEF NoWorkerBeforePool, NoWorkerOutlivesPool
<1>1. workerPc \in [Workers -> WorkerPcs] /\ life \in Lives
  BY DEF TypeOK
<1>2. CASE OwnerStep
  <2>1. CASE CreateFails \/ Allocate
    BY <2>1 DEF CreateFails, Allocate, OwnerMoves
  <2>2. CASE AbortJoined \/ FinishDestroy
    BY <2>2 DEF AbortJoined, FinishDestroy, WorkersJoined, WorkersAt, OwnerMoves
  <2>3. CASE StartWorkerFails \/ CreateReturns \/ Shutdown \/ BeginDestroy
    BY <2>3 DEF StartWorkerFails, CreateReturns, Shutdown, BeginDestroy, OwnerMoves
  <2> QED
    BY <1>2, <2>1, <2>2, <2>3 DEF OwnerStep
<1>3. ASSUME NEW w \in Workers, WorkerStep(w) \/ SpuriousWorkerWakeup(w)
      PROVE  life \notin {"absent", "freed", "failed"} /\ life' = life
  <2>1. workerPc[w] \notin {"off", "exited"} /\ life' = life
    BY <1>3 DEF WorkerStep, WorkerWaits, WorkerExits, TakeJob, RunTask, FinishJob,
             SpuriousWorkerWakeup, WorkerMoves
  <2> QED
    BY <2>1
<1>4. ASSUME NEW w \in Workers, StartWorker(w)
      PROVE  life \notin {"absent", "freed", "failed"} /\ life' = life
  BY <1>4 DEF StartWorker, WorkerMoves
<1>5. ASSUME NEW c \in Clients, Enqueue(c)
      PROVE  NoWorkerBeforePool' /\ NoWorkerOutlivesPool'
  <2>1. life' = life /\ workerPc' \in WakeWorker
    BY <1>5 DEF Enqueue
  <2>2. CASE \E w \in Workers : workerPc[w] = "notEmpty"
    <3>1. life \notin {"absent", "freed", "failed"}
      BY <2>2
    <3> QED
      BY <2>1, <3>1
  <2> QED
    BY <2>1, <2>2, WakeWorkerCases
<1>6. ASSUME NEW c \in Clients,
             \/ SubmitBlocks(c) \/ SubmitRefused(c) \/ WaitBlocks(c) \/ WaitReturns(c)
             \/ CallWait(c) \/ SpuriousClientWakeup(c) \/ \E j \in Jobs : CallSubmit(c, j)
      PROVE  UNCHANGED <<life, workerPc>>
  BY <1>6 DEF SubmitBlocks, SubmitRefused, WaitBlocks, WaitReturns, CallWait,
              SpuriousClientWakeup, CallSubmit, ClientMoves
<1>7. CASE Finished \/ UNCHANGED vars
  BY <1>7 DEF Finished, vars
<1>8. CASE UNCHANGED <<life, workerPc>>
  BY <1>8
<1> QED
  BY <1>2, <1>3, <1>4, <1>5, <1>6, <1>7, <1>8 DEF Next, CallStep

(***************************************************************************)
(* The ring buffer as a queue                                              *)
(***************************************************************************)
LEMMA Turn ==
  ASSUME NEW x \in Nat, x < QueueCapacity + QueueCapacity
  PROVE  x % QueueCapacity = IF x < QueueCapacity THEN x ELSE x - QueueCapacity
<1>1. QueueCapacity \in Nat \ {0}
  BY PoolAssumption
<1>2. CASE x < QueueCapacity
  BY <1>1, <1>2
<1>3. CASE x >= QueueCapacity
  <2>1. x % QueueCapacity = x - QueueCapacity
    BY <1>1, <1>3
  <2> QED
    BY <1>1, <1>3, <2>1
<1> QED
  BY <1>1, <1>2, <1>3

\* Taking the job at head removes the oldest one ...
LEMMA PendingTaken ==
  ASSUME TypeOK, RingOK, queued # 0,
         UNCHANGED <<queue, tail>>, head' = Advance(head), queued' = queued - 1
  PROVE  /\ Pending[1] = NextJob
         /\ \A i \in 1 .. queued' : Pending'[i] = Pending[i + 1]
         /\ RingOK'
<1>1. /\ QueueCapacity \in Nat \ {0} /\ head \in 0 .. QueueCapacity - 1
      /\ queued \in 1 .. QueueCapacity
  BY PoolAssumption DEF TypeOK, Slots
<1>2. (head + 1 - 1) % QueueCapacity = head
  BY <1>1, Turn
<1>3. head' = IF head + 1 < QueueCapacity THEN head + 1 ELSE head + 1 - QueueCapacity
  BY <1>1, Turn DEF Advance
<1>4. ASSUME NEW i \in 1 .. queued'
      PROVE  (head' + i - 1) % QueueCapacity = (head + (i + 1) - 1) % QueueCapacity
  <2>1. i \in Nat /\ i < QueueCapacity /\ i >= 1
    BY <1>1
  <2>2. (head' + i - 1) % QueueCapacity
          = IF head' + i - 1 < QueueCapacity THEN head' + i - 1 ELSE head' + i - 1 - QueueCapacity
    BY <1>1, <1>3, <2>1, Turn
  <2>3. (head + i) % QueueCapacity
          = IF head + i < QueueCapacity THEN head + i ELSE head + i - QueueCapacity
    BY <1>1, <2>1, Turn
  <2> QED
    BY <1>1, <1>3, <2>1, <2>2, <2>3
<1>5. (head' + queued') % QueueCapacity = (head + queued) % QueueCapacity
  <2>1. (head' + queued') % QueueCapacity
          = IF head' + queued' < QueueCapacity THEN head' + queued'
                                               ELSE head' + queued' - QueueCapacity
    BY <1>1, <1>3, Turn
  <2>2. (head + queued) % QueueCapacity
          = IF head + queued < QueueCapacity THEN head + queued ELSE head + queued - QueueCapacity
    BY <1>1, Turn
  <2> QED
    BY <1>1, <1>3, <2>1, <2>2
<1>6. Pending[1] = NextJob
  BY <1>1, <1>2 DEF Pending, NextJob
<1>7. ASSUME NEW i \in 1 .. queued' PROVE Pending'[i] = Pending[i + 1]
  <2>1. i + 1 \in 1 .. queued
    BY <1>1
  <2> QED
    BY <1>4, <2>1 DEF Pending
<1> QED
  BY <1>5, <1>6, <1>7 DEF RingOK

\* ... and storing one at tail appends it, without touching the others.
LEMMA PendingAppended ==
  ASSUME TypeOK, RingOK, queued # QueueCapacity, NEW j \in Jobs,
         queue' = [queue EXCEPT ![tail] = j], tail' = Advance(tail),
         queued' = queued + 1, head' = head
  PROVE  /\ \A i \in 1 .. queued : Pending'[i] = Pending[i]
         /\ Pending'[queued + 1] = j
         /\ RingOK'
<1>1. /\ QueueCapacity \in Nat \ {0} /\ head \in 0 .. QueueCapacity - 1
      /\ queued \in Nat /\ queued < QueueCapacity /\ tail \in Slots
      /\ queue \in [Slots -> Jobs \cup {NoJob}]
  BY PoolAssumption DEF TypeOK, Slots
<1>2. tail = IF head + queued < QueueCapacity THEN head + queued
                                              ELSE head + queued - QueueCapacity
  BY <1>1, Turn DEF RingOK
<1>3. ASSUME NEW i \in 1 .. queued
      PROVE  /\ (head + i - 1) % QueueCapacity # tail
             /\ (head + i - 1) % QueueCapacity \in Slots
  <2>1. i \in Nat /\ i <= queued /\ i >= 1
    BY <1>1
  <2>2. (head + i - 1) % QueueCapacity
          = IF head + i - 1 < QueueCapacity THEN head + i - 1 ELSE head + i - 1 - QueueCapacity
    BY <1>1, <2>1, Turn
  <2> QED
    BY <1>1, <1>2, <2>1, <2>2 DEF Slots
<1>4. ASSUME NEW i \in 1 .. queued PROVE Pending'[i] = Pending[i]
  <2>1. i \in 1 .. queued'
    BY <1>1
  <2> QED
    BY <1>1, <1>3, <2>1 DEF Pending
<1>5. Pending'[queued + 1] = j
  <2>1. queued + 1 \in 1 .. queued' /\ head + (queued + 1) - 1 = head + queued
    BY <1>1
  <2> QED
    BY <1>1, <2>1 DEF Pending, RingOK
<1>6. RingOK'
  <2>1. Advance(tail) = IF tail + 1 < QueueCapacity THEN tail + 1 ELSE tail + 1 - QueueCapacity
    <3>1. QueueCapacity \in Nat \ {0} /\ tail \in 0 .. QueueCapacity - 1
      BY <1>1 DEF Slots
    <3>2. (tail + 1) % QueueCapacity
            = IF tail + 1 < QueueCapacity THEN tail + 1 ELSE tail + 1 - QueueCapacity
      BY <3>1, Turn
    <3> QED
      BY <3>2 DEF Advance
  <2>2. (head + queued + 1) % QueueCapacity
          = IF head + queued + 1 < QueueCapacity THEN head + queued + 1
                                                 ELSE head + queued + 1 - QueueCapacity
    BY <1>1, Turn
  <2>3. head' + queued' = head + queued + 1
    BY <1>1
  <2> QED
    BY <1>1, <1>2, <2>1, <2>2, <2>3 DEF RingOK
<1> QED
  BY <1>4, <1>5, <1>6

(***************************************************************************)
(* Where every job is                                                      *)
(***************************************************************************)
LEMMA InitJobs == Init => JobInvariant
<1> SUFFICES ASSUME Init PROVE JobInvariant
  OBVIOUS
<1> USE PoolAssumption DEF Init
<1>1. RingOK
  BY Turn DEF RingOK
<1>2. InQueue = {} /\ InHand = {} /\ Calling = {}
  BY DEF InQueue, InHand, Calling, WorkersAt
<1>3. NoJobTwice
  BY <1>2 DEF NoJobTwice, WorkersAt, Calling
<1>4. EveryJobCounted
  BY <1>2 DEF EveryJobCounted, Calling
<1> QED
  BY <1>1, <1>3, <1>4 DEF JobInvariant, SomebodyDrains, WorkersAt

\* A step that moves no job, submits none and executes none.
LEMMA QuietStep ==
  ASSUME JobInvariant, UNCHANGED <<ring, accepted, refused, runs>>,
         Calling' = Calling, \A c \in Calling : arg'[c] = arg[c],
         WorkersAt("running")' = WorkersAt("running"),
         \A w \in WorkersAt("running") : job'[w] = job[w]
  PROVE  RingOK' /\ NoJobTwice' /\ EveryJobCounted'
<1>1. Pending' = Pending /\ queued' = queued /\ RingOK'
  BY DEF ring, Pending, JobInvariant, RingOK
<1>2. InQueue' = InQueue /\ InHand' = InHand
  BY <1>1 DEF InQueue, InHand
<1>3. NoJobTwice'
  BY <1>1, <1>2 DEF JobInvariant, NoJobTwice
<1>4. EveryJobCounted'
  BY <1>2 DEF JobInvariant, EveryJobCounted
<1> QED
  BY <1>1, <1>3, <1>4

LEMMA TakeJobMovesOne ==
  ASSUME PoolInvariant, JobInvariant, NEW w \in Workers, TakeJob(w)
  PROVE  RingOK' /\ NoJobTwice' /\ EveryJobCounted'
<1> DEFINE j == Pending[1]
<1>1. TypeOK /\ RingOK /\ NoJobTwice /\ EveryJobCounted
  BY DEF PoolInvariant, JobInvariant
<1>2. /\ NextJob = j /\ RingOK' /\ \A i \in 1 .. queued' : Pending'[i] = Pending[i + 1]
      /\ queued \in Nat /\ queued # 0 /\ queued' = queued - 1
  BY <1>1, PendingTaken, PoolAssumption DEF TakeJob, TypeOK
<1>3. Calling' = Calling /\ arg' = arg
  BY <1>1, WakeSubmitterCases DEF TakeJob, Calling, TypeOK
<1>4. /\ WorkersAt("running")' = WorkersAt("running") \cup {w}
      /\ w \notin WorkersAt("running")
      /\ job'[w] = j /\ \A v \in WorkersAt("running") : job'[v] = job[v]
  BY <1>1, <1>2 DEF TakeJob, WorkersAt, TypeOK
<1>5. InHand' = InHand \cup {j}
  BY <1>4 DEF InHand
<1>6. InQueue = InQueue' \cup {j} /\ j \notin InQueue'
  <2>1. j \in InQueue
    BY <1>2 DEF InQueue
  <2>2. InQueue' = {Pending[i + 1] : i \in 1 .. queued - 1}
    BY <1>2 DEF InQueue
  <2>3. ASSUME NEW i \in 1 .. queued, i # 1
        PROVE  Pending[i] \in InQueue'
    <3>1. i - 1 \in 1 .. queued - 1 /\ (i - 1) + 1 = i
      BY <1>2, <2>3
    <3> QED
      BY <2>2, <3>1
  <2>4. ASSUME NEW i \in 1 .. queued - 1
        PROVE  Pending[i + 1] \in InQueue /\ Pending[i + 1] # j
    <3>1. i + 1 \in 1 .. queued /\ 1 \in 1 .. queued /\ i + 1 # 1
      BY <1>2
    <3> QED
      BY <1>1, <3>1 DEF InQueue, NoJobTwice
  <2> QED
    BY <2>1, <2>2, <2>3, <2>4 DEF InQueue
<1>7. NoJobTwice'
  <2>1. ASSUME NEW i \in 1 .. queued', NEW k \in 1 .. queued', Pending'[i] = Pending'[k]
        PROVE  i = k
    <3>1. i + 1 \in 1 .. queued /\ k + 1 \in 1 .. queued /\ Pending[i + 1] = Pending[k + 1]
      BY <1>2, <2>1
    <3>2. i + 1 = k + 1
      BY <1>1, <3>1 DEF NoJobTwice
    <3> QED
      BY <3>2
  <2>2. \A v \in WorkersAt("running") : job[v] # j
    BY <1>1, <1>6 DEF NoJobTwice, InHand
  <2>3. \A u, v \in WorkersAt("running")' : job'[u] = job'[v] => u = v
    BY <1>1, <1>4, <2>2 DEF NoJobTwice
  <2>4. InQueue' \cap InHand' = {}
    BY <1>1, <1>5, <1>6 DEF NoJobTwice
  <2> QED
    BY <1>1, <1>3, <2>1, <2>3, <2>4 DEF NoJobTwice
<1>8. EveryJobCounted'
  <2>1. InQueue' \cup InHand' = InQueue \cup InHand
    BY <1>5, <1>6
  <2> QED
    BY <1>1, <1>3, <2>1 DEF EveryJobCounted, TakeJob, ghosts
<1> QED
  BY <1>2, <1>7, <1>8

LEMMA RunTaskCountsOne ==
  ASSUME PoolInvariant, JobInvariant, NEW w \in Workers, RunTask(w)
  PROVE  RingOK' /\ NoJobTwice' /\ EveryJobCounted'
<1>1. TypeOK /\ RingOK /\ NoJobTwice /\ EveryJobCounted
  BY DEF PoolInvariant, JobInvariant
<1>2. Pending' = Pending /\ queued' = queued /\ RingOK' /\ InQueue' = InQueue
  BY <1>1 DEF RunTask, ring, Pending, RingOK, InQueue
<1>3. Calling' = Calling /\ arg' = arg
  BY DEF RunTask, Calling
<1>4. /\ WorkersAt("running")' = WorkersAt("running") \ {w}
      /\ w \in WorkersAt("running") /\ job' = job
  BY <1>1 DEF RunTask, WorkersAt, TypeOK
<1>5. job[w] \in InHand /\ InHand' = InHand \ {job[w]}
  BY <1>1, <1>4 DEF InHand, NoJobTwice
<1>6. NoJobTwice'
  BY <1>1, <1>2, <1>3, <1>4, <1>5 DEF NoJobTwice
<1>7. job[w] \in accepted /\ job[w] \in Jobs /\ job[w] \notin InQueue
  BY <1>1, <1>5 DEF EveryJobCounted, NoJobTwice, TypeOK
<1>8. \A j \in Jobs : runs'[j] = IF j = job[w] THEN runs[j] + 1 ELSE runs[j]
  BY <1>1 DEF RunTask, TypeOK
<1>9. EveryJobCounted'
  <2>1. \A j \in Jobs :
          runs'[j] = IF j \in accepted \ (InQueue' \cup InHand') THEN 1 ELSE 0
    BY <1>1, <1>2, <1>5, <1>7, <1>8 DEF EveryJobCounted
  <2> QED
    BY <1>1, <1>2, <1>3, <1>5, <2>1 DEF EveryJobCounted, RunTask
<1> QED
  BY <1>2, <1>6, <1>9

LEMMA EnqueueAddsOne ==
  ASSUME PoolInvariant, JobInvariant, NEW c \in Clients, Enqueue(c)
  PROVE  RingOK' /\ NoJobTwice' /\ EveryJobCounted'
<1> DEFINE j == arg[c]
<1>1. TypeOK /\ RingOK /\ NoJobTwice /\ EveryJobCounted
  BY DEF PoolInvariant, JobInvariant
<1>2. c \in Calling /\ j \in Jobs /\ j \notin accepted \cup refused
  BY <1>1 DEF Enqueue, Calling, PoolInvariant, ArgsAreJobs, EveryJobCounted
<1>3. /\ \A i \in 1 .. queued : Pending'[i] = Pending[i]
      /\ Pending'[queued + 1] = j /\ RingOK'
      /\ queued \in Nat /\ queued' = queued + 1
  <2>1. queued \in Nat /\ queued' = queued + 1
    BY <1>1, PoolAssumption DEF Enqueue, TypeOK
  <2>2. /\ queued # QueueCapacity /\ head' = head /\ tail' = Advance(tail)
        /\ queue' = [queue EXCEPT ![tail] = j]
    BY DEF Enqueue
  <2>3. \A k \in Jobs : queue' = [queue EXCEPT ![tail] = k] =>
          /\ \A i \in 1 .. queued : Pending'[i] = Pending[i]
          /\ Pending'[queued + 1] = k /\ RingOK'
    BY <1>1, <2>1, <2>2, PendingAppended
  <2> QED
    BY <1>2, <2>1, <2>2, <2>3
<1>4. 1 .. queued' = 1 .. queued \cup {queued + 1}
  BY <1>3
<1>5. InQueue' = InQueue \cup {j} /\ j \notin InQueue
  BY <1>1, <1>2, <1>3, <1>4 DEF InQueue, EveryJobCounted
<1>6. WorkersAt("running")' = WorkersAt("running") /\ job' = job
  BY <1>1, WakeWorkerCases DEF Enqueue, WorkersAt, TypeOK
<1>7. InHand' = InHand /\ j \notin InHand
  BY <1>1, <1>2, <1>6 DEF InHand, EveryJobCounted
<1>8. Calling' = Calling \ {c} /\ \A d \in Calling' : arg'[d] = arg[d] /\ arg[d] # j
  <2>1. Calling' = Calling \ {c} /\ \A d \in Calling' : arg'[d] = arg[d]
    BY <1>1 DEF Enqueue, Calling, TypeOK
  <2> QED
    BY <1>1, <1>2, <2>1 DEF NoJobTwice
<1>9. NoJobTwice'
  <2>1. \A i, k \in 1 .. queued' : Pending'[i] = Pending'[k] => i = k
    BY <1>1, <1>3, <1>4, <1>5 DEF NoJobTwice, InQueue
  <2> QED
    BY <1>1, <1>5, <1>6, <1>7, <1>8, <2>1 DEF NoJobTwice
<1>10. EveryJobCounted'
  <2>1. accepted' = accepted \cup {j} /\ refused' = refused /\ runs' = runs
    BY DEF Enqueue
  <2>2. accepted' \ (InQueue' \cup InHand') = accepted \ (InQueue \cup InHand)
    BY <1>2, <1>5, <1>7, <2>1
  <2> QED
    BY <1>1, <1>2, <1>5, <1>7, <1>8, <2>1, <2>2 DEF EveryJobCounted
<1> QED
  BY <1>3, <1>9, <1>10

\* A client that starts to submit brings a job nobody has seen yet; one that is
\* refused takes its job away for good.
LEMMA CallSubmitBringsOne ==
  ASSUME PoolInvariant, JobInvariant, NEW c \in Clients, NEW j \in Jobs, CallSubmit(c, j)
  PROVE  RingOK' /\ NoJobTwice' /\ EveryJobCounted'
<1>1. TypeOK /\ RingOK /\ NoJobTwice /\ EveryJobCounted
  BY DEF PoolInvariant, JobInvariant
<1>2. Pending' = Pending /\ queued' = queued /\ RingOK' /\ InQueue' = InQueue
  BY <1>1 DEF CallSubmit, ring, Pending, RingOK, InQueue
<1>3. WorkersAt("running")' = WorkersAt("running") /\ job' = job /\ InHand' = InHand
  BY DEF CallSubmit, WorkersAt, InHand
<1>4. /\ Calling' = Calling \cup {c} /\ c \notin Calling
      /\ arg'[c] = j /\ \A d \in Calling : arg'[d] = arg[d] /\ arg[d] # j
  BY <1>1 DEF CallSubmit, Calling, TypeOK
<1>5. NoJobTwice'
  BY <1>1, <1>2, <1>3, <1>4 DEF NoJobTwice
<1>6. EveryJobCounted'
  BY <1>1, <1>2, <1>3, <1>4 DEF EveryJobCounted, CallSubmit, ghosts
<1> QED
  BY <1>2, <1>5, <1>6

LEMMA SubmitRefusedTakesOne ==
  ASSUME PoolInvariant, JobInvariant, NEW c \in Clients, SubmitRefused(c)
  PROVE  RingOK' /\ NoJobTwice' /\ EveryJobCounted'
<1>1. TypeOK /\ RingOK /\ NoJobTwice /\ EveryJobCounted
  BY DEF PoolInvariant, JobInvariant
<1>2. Pending' = Pending /\ queued' = queued /\ RingOK' /\ InQueue' = InQueue
  BY <1>1 DEF SubmitRefused, ring, Pending, RingOK, InQueue
<1>3. WorkersAt("running")' = WorkersAt("running") /\ job' = job /\ InHand' = InHand
  BY DEF SubmitRefused, WorkersAt, InHand
<1>4. /\ Calling' = Calling \ {c} /\ c \in Calling
      /\ \A d \in Calling' : arg'[d] = arg[d] /\ arg[d] # arg[c]
  BY <1>1 DEF SubmitRefused, Calling, TypeOK, NoJobTwice
<1>5. NoJobTwice'
  BY <1>1, <1>2, <1>3, <1>4 DEF NoJobTwice
<1>6. EveryJobCounted'
  BY <1>1, <1>2, <1>3, <1>4 DEF EveryJobCounted, SubmitRefused
<1> QED
  BY <1>2, <1>5, <1>6

\* Wakeups move threads between the wait sets and the loop tests only.
LEMMA WakeupsMoveNoJob ==
  ASSUME TypeOK
  PROVE  /\ workerPc' = WakeAllWorkers => WorkersAt("running")' = WorkersAt("running")
         /\ clientPc' = WakeAllSubmitters => Calling' = Calling
         /\ clientPc' = Broadcast(clientPc, "idle", "wait") => Calling' = Calling
<1>1. ASSUME workerPc' = WakeAllWorkers
      PROVE  WorkersAt("running")' = WorkersAt("running")
  BY <1>1, WakeAllWorkersFacts DEF WorkersAt
<1>2. ASSUME clientPc' = WakeAllSubmitters
      PROVE  Calling' = Calling
  BY <1>2, ClientBroadcastFacts DEF WakeAllSubmitters, ClientPcs, Calling
<1>3. ASSUME clientPc' = Broadcast(clientPc, "idle", "wait")
      PROVE  Calling' = Calling
  BY <1>3, ClientBroadcastFacts DEF ClientPcs, Calling
<1> QED
  BY <1>1, <1>2, <1>3

LEMMA JobsStep ==
  PoolInvariant /\ JobInvariant /\ [Next]_vars => RingOK' /\ NoJobTwice' /\ EveryJobCounted'
<1> SUFFICES ASSUME PoolInvariant, JobInvariant, [Next]_vars
             PROVE  RingOK' /\ NoJobTwice' /\ EveryJobCounted'
  OBVIOUS
<1>1. TypeOK
  BY DEF PoolInvariant
<1>2. CASE OwnerStep
  <2>1. /\ UNCHANGED <<ring, accepted, refused, runs, job, arg>>
        /\ workerPc' = workerPc \/ workerPc' = WakeAllWorkers
        /\ clientPc' = clientPc \/ clientPc' = WakeAllSubmitters
    BY <1>2 DEF OwnerStep, CreateFails, Allocate, StartWorkerFails, AbortJoined, CreateReturns,
                Shutdown, BeginDestroy, FinishDestroy, OwnerMoves, StopAndWake, ghosts
  <2>2. WorkersAt("running")' = WorkersAt("running") /\ Calling' = Calling
    BY <1>1, <2>1, WakeupsMoveNoJob DEF WorkersAt, Calling
  <2> QED
    BY <2>1, <2>2, QuietStep
<1>3. ASSUME NEW w \in Workers,
             \/ StartWorker(w) \/ WorkerWaits(w) \/ WorkerExits(w) \/ SpuriousWorkerWakeup(w)
      PROVE  RingOK' /\ NoJobTwice' /\ EveryJobCounted'
  <2>1. \E here, next \in WorkerPcs \ {"running"} : WorkerMoves(w, here, next)
    BY <1>3 DEF StartWorker, WorkerWaits, WorkerExits, SpuriousWorkerWakeup, WorkerPcs
  <2>2. WorkersAt("running")' = WorkersAt("running")
    BY <1>1, <2>1 DEF WorkerMoves, WorkersAt, TypeOK
  <2> QED
    BY <2>1, <2>2, QuietStep DEF WorkerMoves, Calling, ghosts
<1>4. ASSUME NEW w \in Workers, FinishJob(w)
      PROVE  RingOK' /\ NoJobTwice' /\ EveryJobCounted'
  <2>1. /\ WorkersAt("running")' = WorkersAt("running") /\ w \notin WorkersAt("running")
        /\ \A v \in WorkersAt("running") : job'[v] = job[v]
    BY <1>1, <1>4 DEF FinishJob, WorkersAt, TypeOK
  <2>2. Calling' = Calling /\ arg' = arg
    BY <1>1, <1>4, WakeupsMoveNoJob DEF FinishJob, Calling
  <2> QED
    BY <1>4, <2>1, <2>2, QuietStep DEF FinishJob, ghosts
<1>5. ASSUME NEW c \in Clients,
             \/ SubmitBlocks(c) \/ WaitBlocks(c) \/ WaitReturns(c) \/ CallWait(c)
             \/ SpuriousClientWakeup(c)
      PROVE  RingOK' /\ NoJobTwice' /\ EveryJobCounted'
  <2>1. /\ Calling' = Calling
        /\ UNCHANGED <<ring, accepted, refused, runs, job, arg, workerPc>>
    BY <1>1, <1>5 DEF SubmitBlocks, WaitBlocks, WaitReturns, CallWait, SpuriousClientWakeup,
                      ClientMoves, Calling, TypeOK, ghosts
  <2> QED
    BY <2>1, QuietStep DEF WorkersAt
<1>6. CASE Finished \/ UNCHANGED vars
  <2>1. UNCHANGED <<ring, accepted, refused, runs, job, arg, workerPc, clientPc>>
    BY <1>6 DEF Finished, vars, ghosts
  <2> QED
    BY <2>1, QuietStep DEF WorkersAt, Calling
<1> QED
  BY <1>2, <1>3, <1>4, <1>5, <1>6, TakeJobMovesOne, RunTaskCountsOne, EnqueueAddsOne,
     CallSubmitBringsOne, SubmitRefusedTakesOne DEF Next, WorkerStep, CallStep

\* The pool never opens without its workers, and they leave only a drained one.
LEMMA DrainStep ==
  PoolInvariant /\ JobInvariant /\ [Next]_vars => SomebodyDrains'
<1> SUFFICES ASSUME PoolInvariant, JobInvariant, [Next]_vars
             PROVE  SomebodyDrains'
  OBVIOUS
<1>1. TypeOK /\ SomebodyDrains
  BY DEF PoolInvariant, JobInvariant
<1>2. /\ workerPc \in [Workers -> WorkerPcs]
      /\ \A w \in Workers : workerPc[w] = "exited" => queued = 0 /\ state = "STOP"
      /\ life \in {"open", "joining", "freed"} => \A w \in Workers : workerPc[w] # "off"
  BY <1>1 DEF TypeOK, SomebodyDrains, WorkersAt
<1> SUFFICES /\ \A w \in Workers : workerPc'[w] = "exited" => queued' = 0 /\ state' = "STOP"
             /\ life' \in {"open", "joining", "freed"} => \A w \in Workers : workerPc'[w] # "off"
  BY DEF SomebodyDrains, WorkersAt
<1>3. CASE OwnerStep
  <2>1. CASE StartWorkerFails \/ Shutdown \/ BeginDestroy
    <3>1. /\ queued' = queued /\ state' = "STOP" /\ workerPc' = WakeAllWorkers
          /\ life' \in {"open", "joining", "freed"} => life \in {"open", "joining", "freed"}
      BY <2>1 DEF StartWorkerFails, Shutdown, BeginDestroy, StopAndWake, ring
    <3> QED
      BY <1>1, <1>2, <3>1, WakeAllWorkersFacts
  <2>2. CASE CreateFails \/ Allocate \/ AbortJoined \/ CreateReturns \/ FinishDestroy
    BY <1>2, <2>2 DEF CreateFails, Allocate, AbortJoined, CreateReturns, FinishDestroy,
                      OwnerMoves, ring, WorkersAt
  <2> QED
    BY <1>3, <2>1, <2>2 DEF OwnerStep
<1>4. ASSUME NEW w \in Workers, WorkerStep(w) \/ SpuriousWorkerWakeup(w)
      PROVE  /\ \A v \in Workers : workerPc'[v] = "exited" => queued' = 0 /\ state' = "STOP"
             /\ life' \in {"open", "joining", "freed"} => \A v \in Workers : workerPc'[v] # "off"
  <2>1. CASE TakeJob(w)
    BY <1>2, <2>1 DEF TakeJob
  <2>2. CASE RunTask(w) \/ FinishJob(w)
    BY <1>2, <2>2 DEF RunTask, FinishJob, ring
  <2>3. CASE WorkerWaits(w) \/ WorkerExits(w) \/ SpuriousWorkerWakeup(w)
    BY <1>2, <2>3 DEF WorkerWaits, WorkerExits, SpuriousWorkerWakeup, WorkerMoves, MayExit, ring
  <2> QED
    BY <1>4, <2>1, <2>2, <2>3 DEF WorkerStep
<1>5. ASSUME NEW w \in Workers, StartWorker(w)
      PROVE  /\ \A v \in Workers : workerPc'[v] = "exited" => queued' = 0 /\ state' = "STOP"
             /\ life' \in {"open", "joining", "freed"} => \A v \in Workers : workerPc'[v] # "off"
  BY <1>2, <1>5 DEF StartWorker, WorkerMoves, ring
<1>6. ASSUME NEW c \in Clients, Enqueue(c)
      PROVE  /\ \A v \in Workers : workerPc'[v] = "exited" => queued' = 0 /\ state' = "STOP"
             /\ life' \in {"open", "joining", "freed"} => \A v \in Workers : workerPc'[v] # "off"
  <2>1. \A w \in Workers : workerPc[w] # "exited"
    BY <1>2, <1>6 DEF Enqueue
  <2>2. \A w \in Workers : workerPc'[w] \in {workerPc[w], "ready"}
    BY <1>1, <1>2, <1>6, WakeWorkerCases DEF Enqueue
  <2> QED
    BY <1>2, <1>6, <2>1, <2>2 DEF Enqueue
<1>7. CASE UNCHANGED <<life, state, queued, workerPc>>
  BY <1>2, <1>7
<1>8. ASSUME NEW c \in Clients,
             \/ SubmitBlocks(c) \/ SubmitRefused(c) \/ WaitBlocks(c) \/ WaitReturns(c)
             \/ CallWait(c) \/ SpuriousClientWakeup(c) \/ \E j \in Jobs : CallSubmit(c, j)
      PROVE  UNCHANGED <<life, state, queued, workerPc>>
  BY <1>8 DEF SubmitBlocks, SubmitRefused, WaitBlocks, WaitReturns, CallWait,
              SpuriousClientWakeup, CallSubmit, ClientMoves, ring
<1>9. CASE Finished \/ UNCHANGED vars
  BY <1>7, <1>9 DEF Finished, vars, ring
<1> QED
  BY <1>3, <1>4, <1>5, <1>6, <1>7, <1>8, <1>9 DEF Next, CallStep

(***************************************************************************)
(* Every step is a step of the abstract executor, or none                  *)
(***************************************************************************)
Done == {j \in Jobs : runs[j] > 0}
Waiting == ClientsAt("wait") \cup ClientsAt("idle")

LEMMA PendingIsSequence ==
  ASSUME PoolInvariant, JobInvariant
  PROVE  /\ Pending \in Seq(Jobs) /\ Len(Pending) = queued /\ queued \in Nat
         /\ InQueue = {Pending[i] : i \in DOMAIN Pending}
<1>1. TypeOK /\ EveryJobCounted
  BY DEF PoolInvariant, JobInvariant
<1>2. queued \in Nat /\ DOMAIN Pending = 1 .. queued
  BY <1>1, PoolAssumption DEF TypeOK, Pending
<1>3. \A i \in 1 .. queued : Pending[i] \in Jobs
  BY <1>1 DEF EveryJobCounted, InQueue, TypeOK
<1>4. Pending \in [1 .. queued -> Jobs]
  BY <1>3 DEF Pending
<1> QED
  BY <1>2, <1>4 DEF InQueue

LEMMA StutterStep ==
  ASSUME UNCHANGED <<ring, refused, runs, state>>, InHand' = InHand, Waiting' = Waiting
  PROVE  UNCHANGED Executor!vars
BY DEF Executor!vars, ring, Pending, Waiting

LEMMA EnqueueAccepts ==
  ASSUME PoolInvariant, JobInvariant, NEW c \in Clients, Enqueue(c)
  PROVE  Executor!Accept(arg[c])
<1> DEFINE j == arg[c]
<1>1. TypeOK /\ EveryJobCounted /\ RingOK
  BY DEF PoolInvariant, JobInvariant
<1>2. c \in Calling /\ j \in Jobs /\ j \notin accepted \cup refused
  BY <1>1 DEF Enqueue, Calling, PoolInvariant, ArgsAreJobs, EveryJobCounted
<1>3. j \notin InQueue /\ j \notin InHand /\ j \notin Done
  BY <1>1, <1>2 DEF EveryJobCounted, Done
<1>4. Pending' = Append(Pending, j) /\ Len(Pending) < QueueCapacity
  <2>1. queued \in Nat /\ queued < QueueCapacity /\ queued' = queued + 1
    BY <1>1, PoolAssumption DEF Enqueue, TypeOK
  <2>2. /\ queued # QueueCapacity /\ head' = head /\ tail' = Advance(tail)
        /\ queue' = [queue EXCEPT ![tail] = j]
    BY DEF Enqueue
  <2>3. \A k \in Jobs : queue' = [queue EXCEPT ![tail] = k] =>
          /\ \A i \in 1 .. queued : Pending'[i] = Pending[i]
          /\ Pending'[queued + 1] = k
    BY <1>1, <2>1, <2>2, PendingAppended
  <2>4. Pending' = [i \in 1 .. queued + 1 |-> Pending'[i]]
    BY <2>1 DEF Pending
  <2>5. Append(Pending, j) = [i \in 1 .. queued + 1 |-> IF i <= queued THEN Pending[i] ELSE j]
    BY <1>2, PendingIsSequence
  <2>6. \A i \in 1 .. queued + 1 : Pending'[i] = IF i <= queued THEN Pending[i] ELSE j
    <3>1. 1 .. queued + 1 = 1 .. queued \cup {queued + 1}
      BY <2>1
    <3>2. /\ \A i \in 1 .. queued : Pending'[i] = Pending[i]
          /\ Pending'[queued + 1] = j
      BY <1>2, <2>2, <2>3
    <3> QED
      BY <2>1, <3>1, <3>2
  <2> QED
    BY <2>1, <2>4, <2>5, <2>6, PendingIsSequence
<1>5. InHand' = InHand /\ Waiting' = Waiting
  BY <1>1, WakeWorkerCases DEF Enqueue, InHand, WorkersAt, Waiting, ClientsAt, TypeOK
<1>6. state = "RUN" /\ UNCHANGED <<state, refused, runs>>
  BY DEF Enqueue
<1>7. ~Executor!Known(j)
  BY <1>2, <1>3, PendingIsSequence DEF Executor!Known, Done
<1> QED
  BY <1>4, <1>5, <1>6, <1>7 DEF Executor!Accept, Waiting

LEMMA TakeJobStarts ==
  ASSUME PoolInvariant, JobInvariant, NEW w \in Workers, TakeJob(w)
  PROVE  Executor!Start
<1>1. TypeOK /\ RingOK
  BY DEF PoolInvariant, JobInvariant
<1>2. /\ NextJob = Pending[1] /\ \A i \in 1 .. queued' : Pending'[i] = Pending[i + 1]
      /\ queued \in Nat /\ queued # 0 /\ queued' = queued - 1
  BY <1>1, PendingTaken, PoolAssumption DEF TakeJob, TypeOK
<1>3. Pending # <<>> /\ Head(Pending) = NextJob /\ Pending' = Tail(Pending)
  <2>1. Pending' = [i \in 1 .. queued - 1 |-> Pending[i + 1]]
    <3>1. Pending' = [i \in 1 .. queued' |-> Pending'[i]]
      BY DEF Pending
    <3> QED
      BY <1>2, <3>1
  <2>2. Pending \in Seq(Jobs) /\ Len(Pending) = queued
    BY PendingIsSequence
  <2>3. ASSUME NEW q \in Seq(Jobs), Len(q) # 0
        PROVE  q # <<>> /\ Head(q) = q[1] /\ Tail(q) = [i \in 1 .. Len(q) - 1 |-> q[i + 1]]
    <3>1. q # <<>> /\ Head(q) = q[1]
      BY <2>3
    <3>2. Tail(q) = [i \in 1 .. Len(q) - 1 |-> q[i + 1]]
      <4>1. /\ Tail(q) \in Seq(Jobs) /\ Len(Tail(q)) = Len(q) - 1
            /\ \A i \in 1 .. Len(Tail(q)) : Tail(q)[i] = q[i + 1]
        BY <3>1, HeadTailProperties
      <4>2. Tail(q) = [i \in 1 .. Len(Tail(q)) |-> Tail(q)[i]]
        BY <4>1, LenProperties
      <4> QED
        BY <4>1, <4>2
    <3> QED
      BY <3>1, <3>2
  <2> QED
    BY <1>2, <2>1, <2>2, <2>3
<1>4. /\ WorkersAt("running")' = WorkersAt("running") \cup {w}
      /\ w \notin WorkersAt("running")
      /\ job'[w] = NextJob /\ \A v \in WorkersAt("running") : job'[v] = job[v]
  BY <1>1 DEF TakeJob, WorkersAt, TypeOK
<1>5. InHand' = InHand \cup {Head(Pending)}
  BY <1>3, <1>4 DEF InHand
<1>6. Cardinality(InHand) < Cardinality(Workers)
  <2>1. IsFiniteSet(Workers) /\ WorkersAt("running") \subseteq Workers \ {w}
    BY <1>4, PoolAssumption DEF WorkersAt
  <2>2. /\ IsFiniteSet(Workers \ {w}) /\ Cardinality(Workers \ {w}) = Cardinality(Workers) - 1
        /\ Cardinality(Workers) \in Nat
    BY <2>1, FS_RemoveElement, FS_CardinalityType
  <2>3. /\ IsFiniteSet(WorkersAt("running"))
        /\ Cardinality(WorkersAt("running")) <= Cardinality(Workers \ {w})
    BY <2>1, <2>2, FS_Subset
  <2>4. InHand = {job[v] : v \in WorkersAt("running")}
    BY DEF InHand
  <2>5. IsFiniteSet(InHand) /\ Cardinality(InHand) <= Cardinality(WorkersAt("running"))
    <3>1. [v \in WorkersAt("running") |-> job[v]] \in Surjection(WorkersAt("running"), InHand)
      BY <2>4 DEF Surjection
    <3> QED
      BY <2>3, <3>1, FS_Surjection
  <2>6. Cardinality(InHand) \in Nat /\ Cardinality(WorkersAt("running")) \in Nat
    BY <2>3, <2>5, FS_CardinalityType
  <2> QED
    BY <2>2, <2>3, <2>5, <2>6
<1>7. Waiting' = Waiting
  BY <1>1, WakeSubmitterCases DEF TakeJob, Waiting, ClientsAt, TypeOK
<1>8. UNCHANGED <<state, refused, runs>>
  BY DEF TakeJob, ghosts
<1>9. Done' = Done
  BY <1>8 DEF Done
<1>10. Executor!Cardinality(InHand) = Cardinality(InHand)
  BY Zenon DEF Executor!Cardinality, Cardinality
<1> QED
  BY <1>3, <1>5, <1>6, <1>7, <1>8, <1>9, <1>10 DEF Executor!Start, Waiting, Done

LEMMA RunTaskCompletes ==
  ASSUME PoolInvariant, JobInvariant, NEW w \in Workers, RunTask(w)
  PROVE  job[w] \in Jobs /\ Executor!Complete(job[w])
<1>1. TypeOK /\ NoJobTwice /\ EveryJobCounted
  BY DEF PoolInvariant, JobInvariant
<1>2. /\ WorkersAt("running")' = WorkersAt("running") \ {w}
      /\ w \in WorkersAt("running") /\ job' = job
  BY <1>1 DEF RunTask, WorkersAt, TypeOK
<1>3. job[w] \in InHand /\ InHand' = InHand \ {job[w]}
  BY <1>1, <1>2 DEF InHand, NoJobTwice
<1>4. job[w] \in Jobs
  BY <1>1, <1>3 DEF EveryJobCounted, TypeOK
<1>5. Done' = Done \cup {job[w]}
  BY <1>1, <1>4 DEF Done, RunTask, TypeOK
<1>6. Pending' = Pending /\ Waiting' = Waiting /\ UNCHANGED <<state, refused>>
  BY DEF RunTask, ring, Pending, Waiting, ClientsAt
<1> QED
  BY <1>3, <1>4, <1>5, <1>6 DEF Executor!Complete, Done, Waiting

LEMMA WaitReturnsDrained ==
  ASSUME PoolInvariant, JobInvariant, NEW c \in Clients, WaitReturns(c)
  PROVE  Executor!StopWaiting(c)
<1>1. TypeOK /\ ActiveCount
  BY DEF PoolInvariant
<1>2. queued = 0 /\ active = 0
  BY DEF WaitReturns, Busy
<1>3. InHand = {}
  <2>1. IsFiniteSet(AtWork) /\ Cardinality(AtWork) = 0
    BY <1>1, <1>2, PoolAssumption, FS_Subset DEF ActiveCount, AtWork
  <2>2. AtWork = {}
    BY <2>1, FS_EmptySet
  <2> QED
    BY <2>2 DEF AtWork, InHand, WorkersAt
<1>4. Pending = <<>>
  BY <1>2, PendingIsSequence
<1>5. c \in Waiting /\ Waiting' = Waiting \ {c}
  BY <1>1 DEF WaitReturns, ClientMoves, Waiting, ClientsAt, TypeOK
<1>6. InHand' = InHand /\ Pending' = Pending /\ UNCHANGED <<state, refused, runs>>
  BY DEF WaitReturns, ClientMoves, ring, ghosts, InHand, WorkersAt, Pending
<1> QED
  BY <1>3, <1>4, <1>5, <1>6 DEF Executor!StopWaiting, Waiting

LEMMA PoolStepImplements ==
  PoolInvariant /\ JobInvariant /\ [Next]_vars => [Executor!Next]_(Executor!vars)
<1> SUFFICES ASSUME PoolInvariant, JobInvariant, [Next]_vars
             PROVE  Executor!Next \/ UNCHANGED Executor!vars
  OBVIOUS
<1>1. TypeOK
  BY DEF PoolInvariant
<1>2. CASE OwnerStep
  <2>1. CASE StartWorkerFails \/ Shutdown \/ BeginDestroy
    <3>1. /\ UNCHANGED <<ring, job, runs, refused>> /\ state' = "STOP"
          /\ workerPc' = WakeAllWorkers
          /\ clientPc' = clientPc \/ clientPc' = WakeAllSubmitters
      BY <2>1 DEF StartWorkerFails, Shutdown, BeginDestroy, StopAndWake, ghosts
    <3>2. InHand' = InHand
      BY <1>1, <3>1, WakeupsMoveNoJob DEF InHand
    <3>3. Waiting' = Waiting
      <4>1. CASE clientPc' = WakeAllSubmitters
        BY <1>1, <4>1, ClientBroadcastFacts DEF WakeAllSubmitters, ClientPcs, Waiting, ClientsAt
      <4> QED
        BY <3>1, <4>1 DEF Waiting, ClientsAt
    <3>4. Executor!Close
      BY <3>1, <3>2, <3>3 DEF Executor!Close, ring, Pending, Waiting
    <3> QED
      BY <3>4 DEF Executor!Next
  <2>2. CASE CreateFails \/ Allocate \/ AbortJoined \/ CreateReturns \/ FinishDestroy
    <3>1. UNCHANGED <<ring, refused, runs, state, job, workerPc, clientPc>>
      BY <2>2 DEF CreateFails, Allocate, AbortJoined, CreateReturns, FinishDestroy, OwnerMoves,
                  ghosts
    <3> QED
      BY <3>1, StutterStep DEF InHand, WorkersAt, Waiting, ClientsAt
  <2> QED
    BY <1>2, <2>1, <2>2 DEF OwnerStep
<1>3. ASSUME NEW w \in Workers, TakeJob(w) \/ RunTask(w)
      PROVE  Executor!Next
  <2>1. CASE TakeJob(w)
    BY <2>1, TakeJobStarts DEF Executor!Next
  <2>2. CASE RunTask(w)
    <3>1. job[w] \in Jobs /\ Executor!Complete(job[w])
      BY <2>2, RunTaskCompletes
    <3> QED
      BY <3>1 DEF Executor!Next, Executor!Complete
  <2> QED
    BY <1>3, <2>1, <2>2
<1>4. ASSUME NEW w \in Workers, FinishJob(w)
      PROVE  UNCHANGED Executor!vars
  <2>1. /\ WorkersAt("running")' = WorkersAt("running") /\ w \notin WorkersAt("running")
        /\ \A v \in WorkersAt("running") : job'[v] = job[v]
    BY <1>1, <1>4 DEF FinishJob, WorkersAt, TypeOK
  <2>2. InHand' = InHand
    BY <2>1 DEF InHand
  <2>3. Waiting' = Waiting
    <3>1. CASE clientPc' = Broadcast(clientPc, "idle", "wait")
      BY <1>1, <3>1, ClientBroadcastFacts DEF ClientPcs, Waiting, ClientsAt
    <3> QED
      BY <1>4, <3>1 DEF FinishJob, Waiting, ClientsAt
  <2> QED
    BY <1>4, <2>2, <2>3, StutterStep DEF FinishJob, ghosts
<1>5. ASSUME NEW w \in Workers,
             \/ StartWorker(w) \/ WorkerWaits(w) \/ WorkerExits(w) \/ SpuriousWorkerWakeup(w)
      PROVE  UNCHANGED Executor!vars
  <2>1. \E here, next \in WorkerPcs \ {"running"} : WorkerMoves(w, here, next)
    BY <1>5 DEF StartWorker, WorkerWaits, WorkerExits, SpuriousWorkerWakeup, WorkerPcs
  <2>2. WorkersAt("running")' = WorkersAt("running")
    BY <1>1, <2>1 DEF WorkerMoves, WorkersAt, TypeOK
  <2> QED
    BY <2>1, <2>2, StutterStep DEF WorkerMoves, InHand, Waiting, ClientsAt, ghosts
<1>6. ASSUME NEW c \in Clients, Enqueue(c)
      PROVE  Executor!Next
  <2>1. arg[c] \in Jobs
    BY <1>6 DEF Enqueue, PoolInvariant, ArgsAreJobs
  <2> QED
    BY <1>6, <2>1, EnqueueAccepts DEF Executor!Next
<1>7. ASSUME NEW c \in Clients, SubmitRefused(c)
      PROVE  Executor!Next
  <2>1. c \in Calling /\ arg[c] \in Jobs /\ arg[c] \notin accepted \cup refused
    BY <1>7 DEF SubmitRefused, Calling, PoolInvariant, ArgsAreJobs, JobInvariant, EveryJobCounted
  <2>2. arg[c] \notin InQueue /\ arg[c] \notin InHand /\ arg[c] \notin Done
    BY <2>1 DEF JobInvariant, EveryJobCounted, Done
  <2>3. ~Executor!Known(arg[c])
    BY <2>1, <2>2, PendingIsSequence DEF Executor!Known, Done
  <2>4. /\ state = "STOP" /\ refused' = refused \cup {arg[c]} /\ Waiting' = Waiting
        /\ Pending' = Pending /\ InHand' = InHand /\ UNCHANGED <<state, runs>>
    BY <1>1, <1>7 DEF SubmitRefused, TypeOK, Waiting, ClientsAt, ring, Pending, InHand, WorkersAt
  <2>5. Executor!Refuse(arg[c])
    BY <2>3, <2>4 DEF Executor!Refuse, Waiting
  <2> QED
    BY <2>1, <2>5 DEF Executor!Next
<1>8. ASSUME NEW c \in Clients, WaitReturns(c)
      PROVE  Executor!Next
  BY <1>8, WaitReturnsDrained DEF Executor!Next
<1>9. ASSUME NEW c \in Clients, CallWait(c)
      PROVE  Executor!Next
  <2>1. /\ Waiting' = Waiting \cup {c} /\ Pending' = Pending /\ InHand' = InHand
        /\ UNCHANGED <<state, refused, runs>>
    BY <1>1, <1>9 DEF CallWait, ClientMoves, TypeOK, Waiting, ClientsAt, ring, ghosts, Pending,
                      InHand, WorkersAt
  <2>2. Executor!StartWaiting(c)
    BY <2>1 DEF Executor!StartWaiting, Waiting
  <2> QED
    BY <2>2 DEF Executor!Next
<1>10. ASSUME NEW c \in Clients,
              \/ SubmitBlocks(c) \/ WaitBlocks(c) \/ SpuriousClientWakeup(c)
              \/ \E j \in Jobs : CallSubmit(c, j)
       PROVE  UNCHANGED Executor!vars
  <2>1. /\ UNCHANGED <<ring, refused, runs, state, job, workerPc>> /\ Waiting' = Waiting
    BY <1>1, <1>10 DEF SubmitBlocks, WaitBlocks, SpuriousClientWakeup, ClientMoves, CallSubmit,
                       TypeOK, Waiting, ClientsAt, ghosts
  <2> QED
    BY <2>1, StutterStep DEF InHand, WorkersAt
<1>11. CASE Finished \/ UNCHANGED vars
  <2>1. UNCHANGED <<ring, refused, runs, state, job, workerPc, clientPc>>
    BY <1>11 DEF Finished, vars, ghosts
  <2> QED
    BY <2>1, StutterStep DEF InHand, WorkersAt, Waiting, ClientsAt
<1> QED
  BY <1>2, <1>3, <1>4, <1>5, <1>6, <1>7, <1>8, <1>9, <1>10, <1>11
     DEF Next, WorkerStep, CallStep

(***************************************************************************)
(* The theorems                                                            *)
(***************************************************************************)
LEMMA PoolStep == PoolInvariant /\ [Next]_vars => PoolInvariant'
BY TypeStep, ActiveCountStep, NoLostWakeupStep, CallsStep, LifeStep DEF PoolInvariant

LEMMA PoolInvariance == Spec => []PoolInvariant
BY InitPool, PoolStep, PTL DEF Spec

LEMMA JobInvariance == Spec => []JobInvariant
<1>1. PoolInvariant /\ JobInvariant /\ [Next]_vars => JobInvariant'
  BY JobsStep, DrainStep DEF JobInvariant
<1> QED
  BY <1>1, InitJobs, PoolInvariance, PTL DEF Spec

\* Type correctness: with any number of workers, clients and jobs the ring
\* indices stay inside the ring, and queued and active inside their bounds.
THEOREM TypeCorrect == Spec => []TypeOK
<1>1. PoolInvariant => TypeOK
  BY DEF PoolInvariant
<1> QED
  BY <1>1, PoolInvariance, PTL

\* No worker, submitter or caller of wait ever sleeps through the event it
\* sleeps for, although submit and the workers signal instead of broadcasting.
THEOREM WakeupsSuffice == Spec => []NoLostWakeup
<1>1. PoolInvariant => NoLostWakeup
  BY DEF PoolInvariant
<1> QED
  BY <1>1, PoolInvariance, PTL

\* Destroy, and a create that fails half way, free the pool only after the
\* last worker has left it.
THEOREM NoUseAfterFree == Spec => []NoWorkerOutlivesPool
<1>1. PoolInvariant => NoWorkerOutlivesPool
  BY DEF PoolInvariant
<1> QED
  BY <1>1, PoolInvariance, PTL

\* An accepted job is executed once, also when the pool is shut down with jobs
\* in its ring, and a refused one never; the pool is freed only when drained.
THEOREM EveryJobOnce == Spec => []ExactlyOnce
<1>1. PoolInvariant /\ JobInvariant => ExactlyOnce
  <2> SUFFICES ASSUME PoolInvariant, JobInvariant, NEW j \in Jobs
               PROVE  /\ runs[j] <= IF j \in accepted THEN 1 ELSE 0
                      /\ life = "freed" /\ j \in accepted => runs[j] = 1
    BY DEF ExactlyOnce
  <2>1. runs[j] = IF j \in accepted \ (InQueue \cup InHand) THEN 1 ELSE 0
    BY DEF JobInvariant, EveryJobCounted
  <2>2. ASSUME life = "freed" PROVE InQueue \cup InHand = {}
    <3>1. \A w \in Workers : workerPc[w] = "exited"
      BY <2>2 DEF PoolInvariant, NoWorkerOutlivesPool, JobInvariant, SomebodyDrains, WorkersAt
    <3>2. queued = 0
      BY <3>1, PoolAssumption DEF JobInvariant, SomebodyDrains, WorkersAt
    <3> QED
      BY <3>1, <3>2 DEF InQueue, InHand, WorkersAt
  <2> QED
    BY <2>1, <2>2
<1> QED
  BY <1>1, PoolInvariance, JobInvariance, PTL

\* The pool with its threads, its lock and its ring buffer does nothing but what
\* the abstract executor allows: jobs start in the order of their acceptance,
\* none is lost, invented or started after a refusal, and wait returns only
\* when nothing is queued or running.
THEOREM PoolImplementsExecutor == Spec => StepsImplementExecutor
<1>1. Init => Executor!Init
  <2> SUFFICES ASSUME Init PROVE Executor!Init
    OBVIOUS
  <2>1. Pending = <<>> /\ InHand = {} /\ {j \in Jobs : runs[j] > 0} = {}
    BY DEF Init, Pending, InHand, WorkersAt
  <2> QED
    BY <2>1 DEF Init, Executor!Init, ClientsAt
<1> QED
  BY <1>1, PoolStepImplements, PoolInvariance, JobInvariance, PTL
     DEF Spec, StepsImplementExecutor
===============================================================================

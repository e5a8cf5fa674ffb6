------------------------------- MODULE RaceDemo -------------------------------
(***************************************************************************)
(* The race demonstration of thread_manager.c: threads that each increment *)
(* a shared counter Iterations times, with or without a mutex.             *)
(*                                                                         *)
(* The counter is a plain long. Its address escapes and the loop calls     *)
(* sched_yield or the mutex functions, so a build reads it from memory     *)
(* and writes it back in every iteration: one load and one store, with     *)
(* other threads in between.                                               *)
(***************************************************************************)
EXTENDS Integers, FiniteSets

CONSTANTS
  ThreadCount,  \* RACE_THREADS
  Iterations    \* RACE_ITERATIONS

ASSUME RaceAssumption == ThreadCount \in Nat \ {0} /\ Iterations \in Nat \ {0}

Threads == 1 .. ThreadCount

VARIABLES
  useMutex, \* the argument use_mutex
  stage,    \* of the caller: creating threads, joining them, returned
  started,  \* threads created so far
  pc,       \* where each thread is in its loop
  done,     \* iterations each thread has completed
  value,    \* the register or local between load and store
  counter,
  lock,     \* the thread that holds the mutex, or 0
  result    \* what run_race_demo returned

vars == <<useMutex, stage, started, pc, done, value, counter, lock, result>>

Init ==
  /\ useMutex \in BOOLEAN /\ stage = "creating" /\ started = 0 /\ result = 0
  /\ pc = [t \in Threads |-> "unborn"]
  /\ done = [t \in Threads |-> 0] /\ value = [t \in Threads |-> 0]
  /\ counter = 0 /\ lock = 0

InitMutexFails ==
  /\ stage = "creating" /\ started = 0 /\ useMutex
  /\ stage' = "returned" /\ result' = -1
  /\ UNCHANGED <<useMutex, started, pc, done, value, counter, lock>>

CreateThread ==
  /\ stage = "creating" /\ started < ThreadCount
  /\ started' = started + 1
  /\ pc' = [pc EXCEPT ![started + 1] = "loop"]
  /\ UNCHANGED <<useMutex, stage, done, value, counter, lock, result>>

\* All threads are created, or pthread_create failed and the loop breaks.
StopCreating ==
  /\ stage = "creating" /\ stage' = "joining"
  /\ UNCHANGED <<useMutex, started, pc, done, value, counter, lock, result>>

FaultyAllJoined == \A t \in 1 .. started - 1 : pc[t] = "done"
AllJoined == \A t \in 1 .. started : pc[t] = "done"

Return ==
  /\ stage = "joining" /\ AllJoined
  /\ stage' = "returned" /\ result' = counter
  /\ UNCHANGED <<useMutex, started, pc, done, value, counter, lock>>

-------------------------------------------------------------------------------
FaultyMore(t) == done[t] <= Iterations
More(t) == done[t] < Iterations

FaultyMayLock(t) == TRUE
MayLock(t) == lock = 0

Lock(t) ==
  /\ useMutex /\ pc[t] = "loop" /\ More(t) /\ MayLock(t)
  /\ lock' = t /\ pc' = [pc EXCEPT ![t] = "locked"]
  /\ UNCHANGED <<useMutex, stage, started, done, value, counter, result>>

Load(t) ==
  /\ \/ useMutex /\ pc[t] = "locked"
     \/ ~useMutex /\ pc[t] = "loop" /\ More(t)
  /\ value' = [value EXCEPT ![t] = counter] /\ pc' = [pc EXCEPT ![t] = "loaded"]
  /\ UNCHANGED <<useMutex, stage, started, done, counter, lock, result>>

\* With a mutex the thread still has to unlock it.
AfterStore == IF useMutex THEN "stored" ELSE "loop"

Store(t) ==
  /\ pc[t] = "loaded"
  /\ counter' = value[t] + 1 /\ done' = [done EXCEPT ![t] = @ + 1]
  /\ pc' = [pc EXCEPT ![t] = AfterStore]
  /\ UNCHANGED <<useMutex, stage, started, value, lock, result>>

Unlock(t) ==
  /\ pc[t] = "stored"
  /\ lock' = 0 /\ pc' = [pc EXCEPT ![t] = "loop"]
  /\ UNCHANGED <<useMutex, stage, started, done, value, counter, result>>

Exit(t) ==
  /\ pc[t] = "loop" /\ ~More(t)
  /\ pc' = [pc EXCEPT ![t] = "done"]
  /\ UNCHANGED <<useMutex, stage, started, done, value, counter, lock, result>>

-------------------------------------------------------------------------------
CallerStep == InitMutexFails \/ CreateThread \/ StopCreating \/ Return
ThreadStep(t) == Lock(t) \/ Load(t) \/ Store(t) \/ Unlock(t) \/ Exit(t)

Next == CallerStep \/ \E t \in Threads : ThreadStep(t)

Spec == Init /\ [][Next]_vars

-------------------------------------------------------------------------------
(***************************************************************************)
(* Properties                                                              *)
(***************************************************************************)
\* Types and ranges; no thread iterates more often than it should.
TypeOK ==
  /\ useMutex \in BOOLEAN /\ started \in 0 .. ThreadCount
  /\ stage \in {"creating", "joining", "returned"}
  /\ pc \in [Threads -> {"unborn", "loop", "locked", "loaded", "stored", "done"}]
  /\ done \in [Threads -> 0 .. Iterations] /\ value \in [Threads -> Nat]
  /\ counter \in Nat /\ lock \in 0 .. ThreadCount /\ result \in Int

\* The increments made so far, each with the thread that made it.
Increments == {p \in Threads \X (1 .. Iterations) : p[2] <= done[p[1]]}

\* Increments may be lost but none is invented, in whatever order the loads
\* and stores of thread_manager.c:97-99 fall.
NoneInvented == counter <= Cardinality(Increments)

Returned == stage = "returned" /\ result # -1

\* With the mutex the total is exact for the threads that were started:
\* thread_manager.c:93-95 loses no increment.
MutexTotal == useMutex /\ Returned => result = started * Iterations

\* Without the mutex almost everything can be lost, whatever the number of
\* iterations: two threads or more may leave 2 (1 if they iterate once), and
\* never less, since the caller joins every thread it started.
AtLeast ==
  CASE started = 0 -> 0
    [] started = 1 -> Iterations
    [] OTHER -> IF Iterations = 1 THEN 1 ELSE 2
TotalInRange == Returned => result \in AtLeast .. started * Iterations
===============================================================================

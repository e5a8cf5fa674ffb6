----------------------------- MODULE TaskExecutor -----------------------------
(***************************************************************************)
(* What a worker pool promises its callers, without threads, locks or ring *)
(* buffer: jobs are accepted into a bounded FIFO queue until the executor  *)
(* is closed, at most MaxRunning of them run at a time, each accepted job  *)
(* runs to completion exactly once, also after the close, and a caller     *)
(* that waits goes on only at a moment when nothing is queued or running.  *)
(***************************************************************************)
EXTENDS Naturals, Sequences, FiniteSets

CONSTANTS Jobs, Clients, Capacity, MaxRunning

VARIABLES
  pending,   \* accepted jobs that have not been started, oldest first
  running,   \* jobs being executed
  done,      \* jobs executed
  refused,   \* jobs that were turned away
  closed,    \* no more jobs are accepted
  waiters    \* callers waiting for the executor to drain

vars == <<pending, running, done, refused, closed, waiters>>

Known(j) ==
  j \in running \cup done \cup refused \cup {pending[i] : i \in DOMAIN pending}

Init ==
  /\ pending = <<>> /\ running = {} /\ done = {} /\ refused = {}
  /\ closed = FALSE /\ waiters = {}

Accept(j) ==
  /\ ~closed /\ ~Known(j) /\ Len(pending) < Capacity
  /\ pending' = Append(pending, j)
  /\ UNCHANGED <<running, done, refused, closed, waiters>>

Refuse(j) ==
  /\ closed /\ ~Known(j)
  /\ refused' = refused \cup {j}
  /\ UNCHANGED <<pending, running, done, closed, waiters>>

Start ==
  /\ pending # <<>> /\ Cardinality(running) < MaxRunning
  /\ running' = running \cup {Head(pending)}
  /\ pending' = Tail(pending)
  /\ UNCHANGED <<done, refused, closed, waiters>>

Complete(j) ==
  /\ j \in running
  /\ running' = running \ {j}
  /\ done' = done \cup {j}
  /\ UNCHANGED <<pending, refused, closed, waiters>>

Close ==
  /\ closed' = TRUE
  /\ UNCHANGED <<pending, running, done, refused, waiters>>

StartWaiting(c) ==
  /\ waiters' = waiters \cup {c}
  /\ UNCHANGED <<pending, running, done, refused, closed>>

StopWaiting(c) ==
  /\ c \in waiters /\ pending = <<>> /\ running = {}
  /\ waiters' = waiters \ {c}
  /\ UNCHANGED <<pending, running, done, refused, closed>>

Next ==
  \/ \E j \in Jobs : Accept(j) \/ Refuse(j) \/ Complete(j)
  \/ \E c \in Clients : StartWaiting(c) \/ StopWaiting(c)
  \/ Start \/ Close

Fairness ==
  /\ WF_vars(Start)
  /\ \A j \in Jobs : WF_vars(Complete(j))
  /\ \A c \in Clients : WF_vars(StopWaiting(c))

Spec == Init /\ [][Next]_vars /\ Fairness
===============================================================================

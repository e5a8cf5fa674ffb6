------------------------------ MODULE DemoProofs ------------------------------
(***************************************************************************)
(* Theorems about the parts that show processes and threads at work: the   *)
(* race demonstration (RaceDemo), the log that several threads write to    *)
(* (Logger) and the process demonstration (ProcessDemo). They hold for     *)
(* every number of threads, of iterations and of events.                   *)
(***************************************************************************)
EXTENDS RaceDemo, Logger, ProcessDemo, FiniteSetTheorems, SequenceTheorems, TLAPS

-------------------------------------------------------------------------------
(***************************************************************************)
(* The race demonstration. The argument counts pairs <<thread, iteration>>:*)
(* each store adds one pair, and the counter grows by one exactly when no  *)
(* other thread stored since the load.                                     *)
(***************************************************************************)
InSection(t) == pc[t] \in {"locked", "loaded", "stored"}

\* What done and pc say about each other.
Progress ==
  \A t \in Threads :
    /\ t <= started <=> pc[t] # "unborn"
    /\ pc[t] = "unborn" => done[t] = 0
    /\ pc[t] \in {"locked", "loaded"} => done[t] < Iterations
    /\ pc[t] = "done" => done[t] = Iterations

\* A thread in the critical section holds the mutex.
Exclusive == useMutex => \A t \in Threads : InSection(t) => lock = t

\* No register is ahead of the increments made.
LoadedBounded ==
  \A t \in Threads : pc[t] = "loaded" => value[t] <= Cardinality(Increments)

\* With the mutex the counter is the number of increments made, and what the
\* holder loaded is still current.
Exact ==
  useMutex =>
    /\ counter = Cardinality(Increments)
    /\ \A t \in Threads : pc[t] = "loaded" => value[t] = counter

ResultOK ==
  Returned => result = counter /\ AllJoined

RaceInvariant ==
  TypeOK /\ Progress /\ Exclusive /\ NoneInvented /\ LoadedBounded /\ Exact /\ ResultOK

-------------------------------------------------------------------------------
\* The set of increments is finite, with at most all pairs in it.
LEMMA IncrementsFinite ==
  ASSUME TypeOK
  PROVE  IsFiniteSet(Increments) /\ Cardinality(Increments) \in Nat
<1>1. IsFiniteSet(Threads) /\ IsFiniteSet(1 .. Iterations)
  BY FS_Interval, RaceAssumption DEF Threads
<1>2. IsFiniteSet(Threads \X (1 .. Iterations))
  BY <1>1, FS_Product
<1>3. Increments \in SUBSET (Threads \X (1 .. Iterations))
  BY DEF Increments
<1> QED
  BY <1>2, <1>3, FS_Subset, FS_CardinalityType

\* Increments depends on done only.
LEMMA IncrementsSame ==
  ASSUME done' = done
  PROVE  Increments' = Increments
BY DEF Increments, Threads

\* One more iteration is one more pair.
LEMMA OneMore ==
  ASSUME TypeOK, NEW t \in Threads, done[t] < Iterations,
         done' = [done EXCEPT ![t] = @ + 1]
  PROVE  Cardinality(Increments') = Cardinality(Increments) + 1
<1> DEFINE new == <<t, done[t] + 1>>
<1>1. done[t] \in 0 .. Iterations /\ done \in [Threads -> 0 .. Iterations]
  BY DEF TypeOK
<1>2. new \notin Increments
  BY <1>1 DEF Increments
<1>3. Increments' = Increments \cup {new}
  <2>1. new \in Increments'
    BY <1>1, RaceAssumption DEF Increments, Threads
  <2>2. ASSUME NEW u \in Threads, NEW i \in 1 .. Iterations
        PROVE  <<u, i>> \in Increments' <=> <<u, i>> \in Increments \/ <<u, i>> = new
    <3>1. CASE u = t
      BY <1>1, <3>1 DEF Increments, Threads
    <3>2. CASE u # t
      BY <1>1, <3>2 DEF Increments, Threads
    <3> QED BY <3>1, <3>2
  <2>3. Increments' \subseteq Threads \X (1 .. Iterations)
    BY DEF Increments, Threads
  <2>4. Increments \subseteq Threads \X (1 .. Iterations)
    BY DEF Increments
  <2> QED
    BY <2>1, <2>2, <2>3, <2>4
<1> QED
  BY <1>2, <1>3, IncrementsFinite, FS_AddElement

-------------------------------------------------------------------------------
\* The invariant holds at the start, and every step keeps it.
LEMMA RaceInit == Init => RaceInvariant
<1> SUFFICES ASSUME Init PROVE RaceInvariant
  OBVIOUS
<1>1. TypeOK
  BY RaceAssumption DEF Init, TypeOK, Threads
<1>2. Increments = {}
  BY RaceAssumption DEF Init, Increments, Threads
<1>3. Cardinality(Increments) = 0
  BY <1>2, FS_EmptySet
<1>4. Progress
  BY RaceAssumption DEF Init, Progress, Threads
<1> QED
  BY <1>1, <1>3, <1>4
  DEF Init, RaceInvariant, Exclusive, InSection, NoneInvented, LoadedBounded, Exact,
      ResultOK, Returned

\* Every step of a thread keeps the invariant.
LEMMA RaceNext == RaceInvariant /\ [Next]_vars => RaceInvariant'
<1> SUFFICES ASSUME RaceInvariant, [Next]_vars PROVE RaceInvariant'
  OBVIOUS
<1> USE RaceAssumption
<1>0. /\ TypeOK /\ Progress /\ Exclusive /\ NoneInvented /\ LoadedBounded /\ Exact /\ ResultOK
      /\ Cardinality(Increments) \in Nat
  BY IncrementsFinite DEF RaceInvariant
<1>1. CASE InitMutexFails
  <2>1. Increments' = Increments
    BY <1>1, IncrementsSame DEF InitMutexFails
  <2> QED
    BY <1>0, <1>1, <2>1
    DEF InitMutexFails, RaceInvariant, TypeOK, Progress, Exclusive, InSection, NoneInvented,
        LoadedBounded, Exact, ResultOK, Returned, AllJoined
<1>2. CASE CreateThread
  <2>1. Increments' = Increments
    BY <1>2, IncrementsSame DEF CreateThread
  <2>2. TypeOK'
    BY <1>0, <1>2 DEF CreateThread, TypeOK, Threads
  <2>3. Progress'
    BY <1>0, <1>2 DEF CreateThread, TypeOK, Progress, Threads
  <2>4. \A t \in Threads : (pc'[t] # pc[t]) => pc'[t] = "loop"
    BY <1>0, <1>2 DEF CreateThread, TypeOK, Threads
  <2>5. ResultOK'
    BY <1>2 DEF CreateThread, ResultOK, Returned
  <2> QED
    BY <1>0, <1>2, <2>1, <2>2, <2>3, <2>4, <2>5
    DEF CreateThread, RaceInvariant, Exclusive, InSection, NoneInvented, LoadedBounded, Exact
<1>3. CASE StopCreating
  <2>1. Increments' = Increments
    BY <1>3, IncrementsSame DEF StopCreating
  <2> QED
    BY <1>0, <1>3, <2>1
    DEF StopCreating, RaceInvariant, TypeOK, Progress, Exclusive, InSection, NoneInvented,
        LoadedBounded, Exact, ResultOK, Returned, AllJoined
<1>4. CASE Return
  <2>1. Increments' = Increments
    BY <1>4, IncrementsSame DEF Return
  <2> QED
    BY <1>0, <1>4, <2>1
    DEF Return, RaceInvariant, TypeOK, Progress, Exclusive, InSection, NoneInvented,
        LoadedBounded, Exact, ResultOK, Returned, AllJoined
<1>5. ASSUME NEW t \in Threads, Lock(t) PROVE RaceInvariant'
  <2>1. Increments' = Increments
    BY <1>5, IncrementsSame DEF Lock
  <2>2. TypeOK' /\ Progress'
    BY <1>0, <1>5 DEF Lock, More, MayLock, TypeOK, Progress, Threads
  <2>3. Exclusive'
    BY <1>0, <1>5 DEF Lock, MayLock, TypeOK, Exclusive, InSection, Threads
  <2>4. LoadedBounded' /\ Exact' /\ NoneInvented'
    BY <1>0, <1>5, <2>1 DEF Lock, TypeOK, LoadedBounded, Exact, NoneInvented
  <2>5. ResultOK'
    BY <1>0, <1>5 DEF Lock, TypeOK, Progress, ResultOK, Returned, AllJoined, Threads
  <2> QED BY <2>2, <2>3, <2>4, <2>5 DEF RaceInvariant
<1>6. ASSUME NEW t \in Threads, Load(t) PROVE RaceInvariant'
  <2>1. Increments' = Increments
    BY <1>6, IncrementsSame DEF Load
  <2>2. TypeOK' /\ Progress'
    BY <1>0, <1>6 DEF Load, More, TypeOK, Progress, Threads
  <2>3. Exclusive'
    BY <1>0, <1>6 DEF Load, TypeOK, Exclusive, InSection
  <2>4. LoadedBounded' /\ Exact' /\ NoneInvented'
    BY <1>0, <1>6, <2>1 DEF Load, TypeOK, LoadedBounded, Exact, NoneInvented
  <2>5. ResultOK'
    BY <1>0, <1>6 DEF Load, TypeOK, Progress, ResultOK, Returned, AllJoined, Threads
  <2> QED BY <2>2, <2>3, <2>4, <2>5 DEF RaceInvariant
<1>7. ASSUME NEW t \in Threads, Store(t) PROVE RaceInvariant'
  <2>1. done[t] < Iterations /\ done[t] \in Nat /\ value[t] \in Nat
    BY <1>0, <1>7 DEF Store, Progress, TypeOK
  <2>2. Cardinality(Increments') = Cardinality(Increments) + 1
    BY <1>0, <1>7, <2>1, OneMore DEF Store
  <2>3. TypeOK' /\ Progress'
    BY <1>0, <1>7, <2>1 DEF Store, AfterStore, TypeOK, Progress, Threads
  <2>4. Exclusive'
    BY <1>0, <1>7 DEF Store, AfterStore, TypeOK, Exclusive, InSection
  <2>5. NoneInvented' /\ LoadedBounded'
    BY <1>0, <1>7, <2>1, <2>2 DEF Store, AfterStore, TypeOK, NoneInvented, LoadedBounded
  <2>6. Exact'
    BY <1>0, <1>7, <2>1, <2>2 DEF Store, AfterStore, TypeOK, Exact, Exclusive, InSection
  <2>7. ResultOK'
    <3>1. t \in 1 .. started
      BY <1>0, <1>7 DEF Store, TypeOK, Progress, Threads
    <3>2. ~Returned
      BY <1>0, <1>7, <3>1 DEF Store, ResultOK, AllJoined
    <3> QED
      BY <1>7, <3>2 DEF Store, ResultOK, Returned
  <2> QED BY <2>3, <2>4, <2>5, <2>6, <2>7 DEF RaceInvariant
<1>8. ASSUME NEW t \in Threads, Unlock(t) PROVE RaceInvariant'
  <2>1. Increments' = Increments
    BY <1>8, IncrementsSame DEF Unlock
  <2>2. TypeOK' /\ Progress'
    BY <1>0, <1>8 DEF Unlock, TypeOK, Progress, Threads
  <2>3. Exclusive'
    BY <1>0, <1>8 DEF Unlock, TypeOK, Exclusive, InSection, Threads
  <2>4. LoadedBounded' /\ Exact' /\ NoneInvented'
    BY <1>0, <1>8, <2>1 DEF Unlock, TypeOK, LoadedBounded, Exact, NoneInvented
  <2>5. ResultOK'
    BY <1>0, <1>8 DEF Unlock, TypeOK, Progress, ResultOK, Returned, AllJoined, Threads
  <2> QED BY <2>2, <2>3, <2>4, <2>5 DEF RaceInvariant
<1>9. ASSUME NEW t \in Threads, Exit(t) PROVE RaceInvariant'
  <2>1. Increments' = Increments
    BY <1>9, IncrementsSame DEF Exit
  <2>2. TypeOK' /\ Progress'
    BY <1>0, <1>9 DEF Exit, More, TypeOK, Progress, Threads
  <2>3. Exclusive'
    BY <1>0, <1>9 DEF Exit, TypeOK, Exclusive, InSection
  <2>4. LoadedBounded' /\ Exact' /\ NoneInvented'
    BY <1>0, <1>9, <2>1 DEF Exit, TypeOK, LoadedBounded, Exact, NoneInvented
  <2>5. ResultOK'
    BY <1>0, <1>9 DEF Exit, TypeOK, Progress, ResultOK, Returned, AllJoined, Threads
  <2> QED BY <2>2, <2>3, <2>4, <2>5 DEF RaceInvariant
<1>10. CASE UNCHANGED vars
  <2>1. Increments' = Increments
    BY <1>10, IncrementsSame DEF vars
  <2> QED
    BY <1>0, <1>10, <2>1
    DEF vars, RaceInvariant, TypeOK, Progress, Exclusive, InSection, NoneInvented,
        LoadedBounded, Exact, ResultOK, Returned, AllJoined
<1> QED
  BY <1>1, <1>2, <1>3, <1>4, <1>5, <1>6, <1>7, <1>8, <1>9, <1>10
  DEF Next, CallerStep, ThreadStep

\* The invariant holds in every behaviour.
THEOREM RaceInvariantHolds == Spec => []RaceInvariant
BY RaceInit, RaceNext, PTL DEF Spec

\* The variables keep their types; no thread iterates more often than told.
THEOREM RaceTypeCorrect == Spec => []TypeOK
<1>1. RaceInvariant => TypeOK
  BY DEF RaceInvariant
<1> QED
  BY <1>1, RaceInvariantHolds, PTL

\* With or without the mutex, no increment is counted twice.
THEOREM NoIncrementInvented == Spec => []NoneInvented
<1>1. RaceInvariant => NoneInvented
  BY DEF RaceInvariant
<1> QED
  BY <1>1, RaceInvariantHolds, PTL

\* When the caller returns, every thread it could start has made all its
\* increments.
LEMMA EveryIncrementMade ==
  ASSUME RaceInvariant, Returned
  PROVE  Cardinality(Increments) = started * Iterations
<1>0. TypeOK /\ Progress /\ ResultOK /\ started \in 0 .. ThreadCount
  BY DEF RaceInvariant, TypeOK
<1>1. \A t \in Threads : IF t <= started THEN done[t] = Iterations ELSE done[t] = 0
  BY <1>0, RaceAssumption DEF ResultOK, AllJoined, Progress, TypeOK, Threads
<1>2. Increments = (1 .. started) \X (1 .. Iterations)
  <2>1. ASSUME NEW t \in Threads, NEW i \in 1 .. Iterations
        PROVE  i <= done[t] <=> t <= started
    BY <1>0, <1>1, RaceAssumption DEF Threads
  <2>2. 1 .. started \subseteq Threads
    BY <1>0, RaceAssumption DEF Threads
  <2>3. \A t \in Threads : t <= started <=> t \in 1 .. started
    BY <1>0, RaceAssumption DEF Threads
  <2> QED
    BY <2>1, <2>2, <2>3 DEF Increments
<1>3. /\ IsFiniteSet(1 .. started) /\ Cardinality(1 .. started) = started
      /\ IsFiniteSet(1 .. Iterations) /\ Cardinality(1 .. Iterations) = Iterations
  BY <1>0, FS_Interval, RaceAssumption
<1>4. Cardinality((1 .. started) \X (1 .. Iterations))
        = Cardinality(1 .. started) * Cardinality(1 .. Iterations)
  BY <1>3, FS_Product, Zenon
<1> QED
  BY <1>2, <1>3, <1>4, Zenon

\* With the mutex, the total is exact for any number of threads, of
\* iterations, and of threads that could not be created.
THEOREM LockedTotalExact == Spec => []MutexTotal
<1>1. RaceInvariant => MutexTotal
  <2> SUFFICES ASSUME RaceInvariant, useMutex, Returned
               PROVE  result = started * Iterations
    BY DEF MutexTotal
  <2> QED
    BY EveryIncrementMade DEF RaceInvariant, ResultOK, Exact
<1> QED
  BY <1>1, RaceInvariantHolds, PTL

-------------------------------------------------------------------------------
\* Why a total of 1 is impossible, however the threads interleave: a thread
\* that has stored before loads at least 1, so each last store but that of a
\* thread with a single iteration leaves at least 2.
Floor ==
  /\ \A t \in Threads : done[t] >= 1 => counter >= 1
  /\ \A t \in Threads : pc[t] = "loaded" /\ done[t] >= 1 => value[t] >= 1
  /\ Iterations >= 2 /\ started >= 1 /\ (\A t \in 1 .. started : done[t] = Iterations)
       => counter >= 2

\* A single thread loses nothing.
Alone == started <= 1 => counter = done[1] /\ (pc[1] = "loaded" => value[1] = counter)

\* The same for the floor under the total.
LEMMA FloorInit == Init => Floor /\ Alone
BY RaceAssumption DEF Init, Floor, Alone, Threads

\* A step keeps the floor, and that a single thread loses nothing.
LEMMA FloorNext == RaceInvariant /\ Floor /\ Alone /\ [Next]_vars => Floor' /\ Alone'
<1> SUFFICES ASSUME RaceInvariant, Floor, Alone, [Next]_vars PROVE Floor' /\ Alone'
  OBVIOUS
<1> USE RaceAssumption
<1>0. TypeOK /\ Progress /\ 1 \in Threads
  BY DEF RaceInvariant, Threads
<1>1. CASE CreateThread
  <2>1. /\ started' = started + 1 /\ started \in Nat /\ started' \in Threads
        /\ done[started'] = 0 /\ pc[started'] = "unborn" /\ UNCHANGED <<done, value, counter>>
        /\ pc' = [pc EXCEPT ![started'] = "loop"]
    BY <1>0, <1>1 DEF CreateThread, TypeOK, Progress, Threads
  <2>2. ~ \A t \in 1 .. started' : done'[t] = Iterations
    <3>1. started' \in 1 .. started' /\ done'[started'] # Iterations
      BY <2>1
    <3> QED
      BY <3>1
  <2>3. Floor'
    BY <1>0, <2>1, <2>2 DEF Floor, TypeOK
  <2>4. Alone'
    BY <1>0, <2>1 DEF Alone, TypeOK
  <2> QED
    BY <2>3, <2>4
<1>2. ASSUME NEW t \in Threads, Store(t) PROVE Floor' /\ Alone'
  <2>1. /\ counter' = value[t] + 1 /\ value[t] \in Nat /\ done[t] \in Nat /\ done[t] < Iterations
        /\ done' = [done EXCEPT ![t] = done[t] + 1] /\ pc[t] = "loaded"
        /\ \A u \in Threads : pc'[u] = IF u = t THEN AfterStore ELSE pc[u]
        /\ UNCHANGED <<started, value>> /\ started \in 0 .. ThreadCount /\ t \in 1 .. started
    BY <1>0, <1>2 DEF Store, TypeOK, Progress, Threads
  <2>2. counter' >= 1
    BY <2>1
  <2>3. \A u \in Threads : pc'[u] = "loaded" /\ done'[u] >= 1 => value'[u] >= 1
    BY <1>0, <2>1 DEF Floor, AfterStore, TypeOK
  <2>4. ASSUME Iterations >= 2, \A u \in 1 .. started' : done'[u] = Iterations
        PROVE  counter' >= 2
    <3>1. done[t] + 1 = Iterations
      BY <1>0, <2>1, <2>4 DEF TypeOK
    <3>2. value[t] >= 1
      BY <2>1, <2>4, <3>1 DEF Floor
    <3> QED
      BY <2>1, <3>2
  <2>5. Alone'
    <3>1. ASSUME started <= 1 PROVE t = 1
      BY <2>1, <3>1
    <3> QED
      BY <1>0, <2>1, <3>1 DEF Alone, AfterStore, TypeOK
  <2> QED
    BY <2>2, <2>3, <2>4, <2>5 DEF Floor
<1>3. ASSUME NEW t \in Threads, Load(t) PROVE Floor' /\ Alone'
  BY <1>0, <1>3 DEF Load, TypeOK, Floor, Alone
<1>4. ASSUME NEW t \in Threads, Lock(t) \/ Unlock(t) \/ Exit(t) PROVE Floor' /\ Alone'
  <2>1. /\ UNCHANGED <<started, done, value, counter>>
        /\ \A u \in Threads : pc'[u] = "loaded" => pc[u] = "loaded"
    BY <1>0, <1>4 DEF Lock, Unlock, Exit, TypeOK
  <2> QED
    BY <1>0, <2>1 DEF Floor, Alone
<1>5. CASE InitMutexFails \/ StopCreating \/ Return \/ UNCHANGED vars
  BY <1>5 DEF InitMutexFails, StopCreating, Return, vars, Floor, Alone
<1> QED
  BY <1>1, <1>2, <1>3, <1>4, <1>5 DEF Next, CallerStep, ThreadStep

\* Without the mutex, two threads or more leave at least 2 and never more than
\* the increments made, for any number of threads and iterations.
THEOREM TotalBounds == Spec => []TotalInRange
<1>1. RaceInvariant /\ Floor /\ Alone => TotalInRange
  <2> SUFFICES ASSUME RaceInvariant, Floor, Alone, Returned
               PROVE  result \in AtLeast .. started * Iterations
    BY DEF TotalInRange
  <2>0. /\ result = counter /\ counter \in Nat /\ counter <= Cardinality(Increments)
        /\ started \in 0 .. ThreadCount /\ 1 \in Threads
        /\ done \in [Threads -> 0 .. Iterations]
    BY RaceAssumption DEF RaceInvariant, TypeOK, NoneInvented, ResultOK, Threads
  <2>1. counter <= started * Iterations
    BY <2>0, EveryIncrementMade
  <2>2. \A t \in 1 .. started : t \in Threads /\ done[t] = Iterations
    BY <2>0, RaceAssumption DEF RaceInvariant, ResultOK, AllJoined, Progress, Threads
  <2>3. started = 1 => counter = Iterations
    BY <2>0, <2>2 DEF Alone
  <2>4. started >= 1 => counter >= 1 /\ (Iterations >= 2 => counter >= 2)
    BY <2>0, <2>2, RaceAssumption DEF Floor
  <2>5. AtLeast \in Nat /\ AtLeast <= counter
    BY <2>0, <2>3, <2>4, RaceAssumption DEF AtLeast
  <2>6. started * Iterations \in Int
    BY <2>0, RaceAssumption
  <2> QED
    BY <2>0, <2>1, <2>5, <2>6
<1>2. RaceInvariant /\ [Next]_vars /\ Floor /\ Alone => Floor' /\ Alone'
  BY FloorNext
<1> QED
  BY <1>1, <1>2, FloorInit, RaceInvariantHolds, PTL DEF Spec
-------------------------------------------------------------------------------
(***************************************************************************)
(* The log. Each of the steps of a thread in an event keeps a part of the  *)
(* invariant that only the holder of the lock can disturb: while it prints *)
(* its pieces the buffer of the stream is its own, and flushing appends    *)
(* one whole event to the screen or to the file.                           *)
(***************************************************************************)

\* EventsWhole of one stream.
Whole(o) ==
  /\ Len(o) % Pieces = 0
  /\ \A i \in DOMAIN o :
       /\ o[i][2] = ((i - 1) % Pieces) + 1
       /\ o[i][2] > 1 => o[i][1] = o[i - 1][1]

\* Places in an event: after three pieces the next event begins.
LEMMA Modulo ==
  /\ \A n \in Nat : n % 3 = 0 => (n + 1) % 3 = 1 /\ (n + 2) % 3 = 2 /\ (n + 3) % 3 = 0
  /\ \A n \in Nat : ((n % 3) + 1 > 1 => n # 0) /\ n % 3 \in 0 .. 2
OBVIOUS

\* The elements of two sequences put together.
LEMMA Joined ==
  ASSUME NEW S, NEW s \in Seq(S), NEW t \in Seq(S)
  PROVE  /\ s \o t \in Seq(S) /\ Len(s \o t) = Len(s) + Len(t)
         /\ Len(s) \in Nat /\ DOMAIN s = 1 .. Len(s)
         /\ Len(t) \in Nat /\ DOMAIN t = 1 .. Len(t) /\ DOMAIN (s \o t) = 1 .. Len(s) + Len(t)
         /\ \A i \in 1 .. Len(s) : (s \o t)[i] = s[i]
         /\ \A k \in 1 .. Len(t) : (s \o t)[Len(s) + k] = t[k]
OBVIOUS

\* An event is three pieces of its thread, in their order.
LEMMA EventType ==
  ASSUME NEW t \in LogThreads
  PROVE  /\ Event(t) \in Seq(LogThreads \X (1 .. Pieces)) /\ Len(Event(t)) = Pieces
         /\ \A k \in 1 .. Pieces : Event(t)[k] = <<t, k>>
BY DEF Event, Pieces

\* A stream with one more event.
LEMMA EventAdded ==
  ASSUME NEW o \in Seq(LogThreads \X (1 .. Pieces)), NEW t \in LogThreads
  PROVE  /\ o \o Event(t) \in Seq(LogThreads \X (1 .. Pieces))
         /\ Len(o) \in Nat /\ DOMAIN o = 1 .. Len(o)
         /\ Len(o \o Event(t)) = Len(o) + Pieces
         /\ DOMAIN (o \o Event(t)) = 1 .. Len(o) + Pieces
         /\ \A i \in 1 .. Len(o) : (o \o Event(t))[i] = o[i]
         /\ \A k \in 1 .. Pieces : (o \o Event(t))[Len(o) + k] = <<t, k>>
<1> DEFINE S == LogThreads \X (1 .. Pieces)
           e == Event(t)
<1>1. o \in Seq(S) /\ e \in Seq(S)
  BY EventType
<1>2. Len(e) = Pieces /\ \A k \in 1 .. Pieces : e[k] = <<t, k>>
  BY EventType
<1> HIDE DEF S, e
<1>3. /\ o \o e \in Seq(S) /\ Len(o) \in Nat /\ DOMAIN o = 1 .. Len(o)
      /\ Len(o \o e) = Len(o) + Len(e) /\ DOMAIN (o \o e) = 1 .. Len(o) + Len(e)
      /\ \A i \in 1 .. Len(o) : (o \o e)[i] = o[i]
      /\ \A k \in 1 .. Len(e) : (o \o e)[Len(o) + k] = e[k]
  BY <1>1, Joined
<1>4. \A k \in 1 .. Pieces : (o \o e)[Len(o) + k] = <<t, k>>
  BY <1>2, <1>3, Zenon
<1> QED
  BY <1>2, <1>3, <1>4, Zenon DEF S, e

\* A stream of whole events stays one when another event is added to it.
LEMMA WholeGrows ==
  ASSUME NEW o \in Seq(LogThreads \X (1 .. Pieces)), Whole(o), NEW t \in LogThreads
  PROVE  Whole(o \o Event(t))
<1> DEFINE r == o \o Event(t)
           n == Len(o)
<1>1. /\ n \in Nat /\ DOMAIN o = 1 .. n /\ Len(r) = n + Pieces /\ DOMAIN r = 1 .. n + Pieces
      /\ \A i \in 1 .. n : r[i] = o[i]
      /\ \A k \in 1 .. Pieces : r[n + k] = <<t, k>>
  BY EventAdded
<1>2. n % 3 = 0
  BY DEF Whole, Pieces
<1>3. \A i \in 1 .. n : o[i][2] = ((i - 1) % 3) + 1 /\ (o[i][2] > 1 => o[i][1] = o[i - 1][1])
  BY <1>1 DEF Whole, Pieces
<1> HIDE DEF r, n
<1>11. /\ n \in Nat /\ DOMAIN o = 1 .. n /\ Len(r) = n + 3 /\ DOMAIN r = 1 .. n + 3
      /\ r[n + 1] = <<t, 1>> /\ r[n + 2] = <<t, 2>> /\ r[n + 3] = <<t, 3>>
  BY <1>1 DEF Pieces
<1> DEFINE Fits(i) == r[i][2] = ((i - 1) % 3) + 1 /\ (r[i][2] > 1 => r[i][1] = r[i - 1][1])
<1>4. ASSUME NEW i \in 1 .. n PROVE Fits(i)
  <2>1. ((i - 1) % 3) + 1 > 1 => i - 1 \in 1 .. n
    <3>1. i - 1 \in Nat /\ (i - 1 # 0 => i - 1 \in 1 .. n)
      BY <1>1
    <3>2. ((i - 1) % 3) + 1 > 1 => i - 1 # 0
      BY ONLY <3>1, Modulo
    <3> QED
      BY <3>1, <3>2
  <2>2. r[i] = o[i] /\ (i - 1 \in 1 .. n => r[i - 1] = o[i - 1])
    BY <1>1
  <2> QED
    <3>1. r[i][2] = ((i - 1) % 3) + 1
      BY <1>3, <2>2
    <3>2. ASSUME r[i][2] > 1 PROVE r[i][1] = r[i - 1][1]
      <4>1. o[i][2] > 1 /\ i - 1 \in 1 .. n
        BY <1>3, <2>1, <2>2, <3>1, <3>2
      <4> QED
        BY <1>3, <2>2, <4>1
    <3> QED
      BY <3>1, <3>2
<1>5. Fits(n + 1)
  <2>1. (n + 1) - 1 = n
    BY <1>1
  <2> QED
    BY <1>11, <1>2, <2>1
<1>6. Fits(n + 2)
  <2>1. (n + 2) - 1 = n + 1 /\ (n + 1) % 3 = 1
    BY <1>1, <1>2, Modulo
  <2> QED
    BY <1>11, <2>1
<1>7. Fits(n + 3)
  <2>1. (n + 3) - 1 = n + 2 /\ (n + 2) % 3 = 2
    BY <1>1, <1>2, Modulo
  <2> QED
    BY <1>11, <2>1
<1> HIDE DEF Fits
<1>8. \A i \in 1 .. n + 3 : Fits(i)
  <2> TAKE i \in 1 .. n + 3
  <2>1. i \in 1 .. n \/ i = n + 1 \/ i = n + 2 \/ i = n + 3
    BY <1>1
  <2> QED
    BY <1>4, <1>5, <1>6, <1>7, <2>1
<1>9. (n + 3) % 3 = 0
  BY <1>1, <1>2, Modulo
<1>10. Whole(r)
  BY <1>11, <1>8, <1>9 DEF Whole, Pieces, Fits
<1> QED
  BY <1>10 DEF r

\* The property says Whole of each stream.
LEMMA WholeStreams == EventsWhole <=> \A s \in Streams : Whole(output[s])
BY DEF EventsWhole, Whole

\* The invariant of the log holds at the start.
LEMMA LoggerInit == LogInit => LoggerInvariant
<1> SUFFICES ASSUME LogInit PROVE LoggerInvariant
  OBVIOUS
<1>1. LoggerTypes /\ LockOK /\ PieceOK
  BY DEF LogInit, LoggerTypes, LockOK, PieceOK, Streams, Pieces
<1>2. BufferOK /\ FileOK /\ FileFollowsScreen
  BY
  DEF LogInit, BufferOK, FileOK, FileFollowsScreen, IsPrefix, Streams,
      Pieces
<1>3. EventsWhole
  BY DEF LogInit, EventsWhole, Pieces
<1>4. CountOK
  <2>1. \A t \in LogThreads : OnScreen(t) = {}
    BY DEF LogInit, OnScreen, Streams
  <2>2. \A t \in LogThreads : logPc[t] = "idle" /\ Pieces * logged[t] = 0
    BY DEF LogInit, Pieces
  <2>3. IsFiniteSet({}) /\ Cardinality({}) = 0
    BY FS_EmptySet
  <2> QED
    BY <2>1, <2>2, <2>3 DEF CountOK
<1> QED
  BY <1>1, <1>2, <1>3, <1>4 DEF LoggerInvariant

\* fflush hands over exactly one event.
LEMMA FlushEffect ==
  ASSUME LoggerInvariant, NEW t \in LogThreads, Flush(t)
  PROVE  /\ logPc[t] \in Streams /\ logLock = {t} /\ alive /\ alive'
         /\ output' = [output EXCEPT ![logPc[t]] = @ \o Event(t)]
         /\ buffer' = [buffer EXCEPT ![logPc[t]] = <<>>]
<1>1. logPc[t] \in Streams /\ alive /\ alive' /\ piece[t] = Pieces
  BY DEF Flush
<1>2. buffer[logPc[t]] = Event(t)
  BY <1>1 DEF LoggerInvariant, BufferOK, Part, Event
<1>3. SubSeq(buffer[logPc[t]], Len(buffer[logPc[t]]) + 1, Len(buffer[logPc[t]])) = <<>>
  <2> DEFINE b == buffer[logPc[t]]
             S == LogThreads \X (1 .. Pieces)
  <2>1. b \in Seq(S)
    BY <1>1 DEF LoggerInvariant, LoggerTypes
  <2> HIDE DEF b, S
  <2>2. SubSeq(b, Len(b) + 1, Len(b)) = <<>>
    BY <2>1, SubSeqEmpty
  <2> QED
    BY <2>2 DEF b
<1>4. logLock = {t}
  <2>1. logPc[t] # "idle"
    BY <1>1 DEF Streams
  <2> QED
    BY <2>1 DEF LoggerInvariant, LockOK
<1>5. /\ output \in [Streams -> Seq(LogThreads \X (1 .. Pieces))]
      /\ buffer \in [Streams -> Seq(LogThreads \X (1 .. Pieces))]
  BY DEF LoggerInvariant, LoggerTypes
<1> QED
  BY <1>1, <1>2, <1>3, <1>4 DEF Flush, Flushed

\* printf adds one piece.
LEMMA PrintEffect ==
  ASSUME LoggerInvariant, NEW t \in LogThreads, PrintPiece(t)
  PROVE  /\ logPc[t] \in Streams /\ logLock = {t} /\ alive
         /\ piece' = [piece EXCEPT ![t] = piece[t] + 1] /\ piece[t] + 1 \in 0 .. Pieces
         /\ buffer' = [buffer EXCEPT ![logPc[t]] = Part(t)']
<1>1. logPc[t] \in Streams /\ alive /\ piece[t] \in 0 .. Pieces /\ piece[t] < Pieces
  BY DEF PrintPiece, LoggerInvariant, LoggerTypes
<1>2. logLock = {t}
  <2>1. logPc[t] # "idle"
    BY <1>1 DEF Streams
  <2> QED
    BY <2>1 DEF LoggerInvariant, LockOK
<1>3. /\ piece' = [piece EXCEPT ![t] = piece[t] + 1] /\ piece'[t] = piece[t] + 1
      /\ piece[t] + 1 \in 0 .. Pieces
  BY <1>1 DEF PrintPiece, LoggerInvariant, LoggerTypes, Pieces
<1>4. Append(buffer[logPc[t]], <<t, piece[t] + 1>>) = Part(t)'
  <2>1. buffer[logPc[t]] = Part(t)
    BY <1>1 DEF LoggerInvariant, BufferOK
  <2>2. Append([k \in 1 .. piece[t] |-> <<t, k>>], <<t, piece[t] + 1>>)
          = [k \in 1 .. piece[t] + 1 |-> <<t, k>>]
    <3> DEFINE n == piece[t]
    <3>1. n \in Nat
      BY <1>1
    <3> HIDE DEF n
    <3>2. Append([k \in 1 .. n |-> <<t, k>>], <<t, n + 1>>) = [k \in 1 .. n + 1 |-> <<t, k>>]
      BY <3>1
    <3> QED
      BY <3>2 DEF n
  <2> QED
    BY <1>3, <2>1, <2>2 DEF Part
<1> QED
  BY <1>1, <1>2, <1>3, <1>4 DEF PrintPiece

\* Three pieces of its own are three more on the screen.
LEMMA OnScreenGrows ==
  ASSUME NEW o \in Seq(LogThreads \X (1 .. Pieces)), NEW t \in LogThreads, NEW u \in LogThreads,
         IsFiniteSet({i \in DOMAIN o : o[i][1] = u})
  PROVE  LET r == o \o Event(t)
         IN  /\ IsFiniteSet({i \in DOMAIN r : r[i][1] = u})
             /\ Cardinality({i \in DOMAIN r : r[i][1] = u}) =
                  Cardinality({i \in DOMAIN o : o[i][1] = u}) + (IF t = u THEN Pieces ELSE 0)
<1> DEFINE r == o \o Event(t)
           n == Len(o)
           before == {i \in DOMAIN o : o[i][1] = u}
           after == {i \in DOMAIN r : r[i][1] = u}
<1>1. /\ n \in Nat /\ DOMAIN o = 1 .. n /\ DOMAIN r = 1 .. n + Pieces
      /\ \A i \in 1 .. n : r[i] = o[i]
      /\ \A k \in 1 .. Pieces : r[n + k] = <<t, k>>
  BY EventAdded
<1> HIDE DEF r, n
<1>2. /\ DOMAIN r = 1 .. n + 3
      /\ r[n + 1][1] = t /\ r[n + 2][1] = t /\ r[n + 3][1] = t
  BY <1>1 DEF Pieces
<1>3. CASE t # u
  <2>1. after = before
    <3>1. \A i \in 1 .. n + 3 : i \in 1 .. n \/ i = n + 1 \/ i = n + 2 \/ i = n + 3
      BY <1>1
    <3>2. \A i \in 1 .. n : i \in 1 .. n + 3
      BY <1>1
    <3> QED
      BY <1>1, <1>2, <1>3, <3>1, <3>2, Zenon
  <2>2. Cardinality(before) \in Nat
    BY FS_CardinalityType
  <2> HIDE DEF before, after
  <2>3. Cardinality(after) = Cardinality(before) + (IF t = u THEN Pieces ELSE 0)
    BY <1>3, <2>1, <2>2
  <2> QED
    BY <2>1, <2>3 DEF before, after, r
<1>4. CASE t = u
  <2> DEFINE b1 == before \cup {n + 1}
             b2 == b1 \cup {n + 2}
  <2>1. after = b2 \cup {n + 3}
    <3>1. \A i \in 1 .. n + 3 : i \in 1 .. n \/ i = n + 1 \/ i = n + 2 \/ i = n + 3
      BY <1>1
    <3>5. /\ \A i \in 1 .. n : i \in 1 .. n + 3
          /\ n + 1 \in 1 .. n + 3 /\ n + 2 \in 1 .. n + 3 /\ n + 3 \in 1 .. n + 3
      BY <1>1
    <3>2. \A i \in 1 .. n : i \in before <=> r[i][1] = u
      BY <1>1
    <3>3. \A i \in before : i \in 1 .. n
      BY <1>1
    <3>4. \A i : i \in after <=> i \in 1 .. n + 3 /\ r[i][1] = u
      BY <1>2
    <3> HIDE DEF before, after
    <3> QED
      BY <1>2, <1>4, <3>1, <3>2, <3>3, <3>4, <3>5, Zenon
  <2>2. before \in SUBSET (1 .. n)
    BY <1>1
  <2> HIDE DEF before, after
  <2>3. n + 1 \notin before /\ n + 2 \notin b1 /\ n + 3 \notin b2
    BY <1>1, <2>2
  <2>4. IsFiniteSet(before) /\ Cardinality(before) \in Nat
    BY FS_CardinalityType DEF before
  <2> HIDE DEF b1, b2
  <2>5. IsFiniteSet(b1) /\ Cardinality(b1) = Cardinality(before) + 1
    BY <2>3, <2>4, FS_AddElement DEF b1
  <2>6. IsFiniteSet(b2) /\ Cardinality(b2) = Cardinality(b1) + 1
    BY <2>3, <2>5, FS_AddElement DEF b2
  <2>7. IsFiniteSet(after) /\ Cardinality(after) = Cardinality(b2) + 1
    BY <2>1, <2>3, <2>6, FS_AddElement
  <2>8. Cardinality(after) = Cardinality(before) + 3
    BY <2>4, <2>5, <2>6, <2>7
  <2> QED
    BY <1>4, <2>7, <2>8 DEF before, after, r, Pieces
<1> QED
  BY <1>3, <1>4

\* fflush hands over a whole event, to the screen first and then to the file.
LEMMA FlushKeeps ==
  ASSUME LoggerInvariant, NEW t \in LogThreads, Flush(t)
  PROVE  LoggerInvariant'
<1> DEFINE S == LogThreads \X (1 .. Pieces)
<1>1. /\ logPc[t] \in Streams /\ logLock = {t} /\ alive /\ alive'
      /\ output' = [output EXCEPT ![logPc[t]] = @ \o Event(t)]
      /\ buffer' = [buffer EXCEPT ![logPc[t]] = <<>>]
  BY FlushEffect
<1>2. /\ logPc' = [logPc EXCEPT ![t] = After(logPc[t])] /\ piece' = [piece EXCEPT ![t] = 0]
      /\ UNCHANGED <<ready, opened, logLock, logged, alive>>
  BY DEF Flush
<1>3. /\ LoggerTypes /\ LockOK /\ PieceOK /\ BufferOK /\ FileOK /\ CountOK
      /\ EventsWhole /\ FileFollowsScreen
      /\ \A u \in LogThreads : u # t => logPc[u] = "idle"
  BY <1>1 DEF LoggerInvariant, LockOK
<1>4. /\ After(logPc[t]) \in {"file", "unlocking"} /\ After(logPc[t]) # logPc[t]
      /\ (After(logPc[t]) = "file" => logPc[t] = "screen" /\ opened)
  BY <1>1 DEF After, Streams
<1>5. LoggerTypes'
  <2>1. \A o \in Seq(S) : o \o Event(t) \in Seq(S)
    BY EventAdded
  <2>2. output' \in [Streams -> Seq(S)] /\ buffer' \in [Streams -> Seq(S)]
    <3> DEFINE e == Event(t)
               s == logPc[t]
    <3>1. /\ output \in [Streams -> Seq(S)] /\ buffer \in [Streams -> Seq(S)]
          /\ s \in Streams /\ \A o \in Seq(S) : o \o e \in Seq(S)
          /\ output' = [output EXCEPT ![s] = @ \o e] /\ buffer' = [buffer EXCEPT ![s] = <<>>]
      BY <1>1, <1>3, <2>1 DEF LoggerTypes
    <3> HIDE DEF S, e, s
    <3>2. output[s] \o e \in Seq(S) /\ <<>> \in Seq(S)
      BY <3>1
    <3> QED
      BY <3>1, <3>2
  <2>3. /\ logPc' \in [LogThreads -> {"idle", "unlocking"} \cup Streams]
        /\ piece' \in [LogThreads -> 0 .. Pieces]
    BY <1>2, <1>3, <1>4 DEF LoggerTypes, Streams, Pieces
  <2> QED
    BY <1>2, <1>3, <2>2, <2>3 DEF LoggerTypes
<1>6. LockOK' /\ PieceOK'
  BY <1>1, <1>2, <1>3, <1>4 DEF LockOK, PieceOK, LoggerTypes, Streams
<1>7. BufferOK'
  <2>1. ASSUME NEW s \in Streams, s # logPc[t] PROVE buffer'[s] = <<>>
    <3>1. \A u \in LogThreads : logPc[u] # s
      BY <1>3, <2>1 DEF Streams
    <3> QED
      BY <1>1, <1>3, <2>1, <3>1 DEF BufferOK, LoggerTypes
  <2>2. \A s \in Streams : buffer'[s] = <<>>
    BY <1>1, <1>3, <2>1 DEF LoggerTypes
  <2>3. \A u \in LogThreads : logPc'[u] \in Streams => Part(u)' = <<>>
    BY <1>2, <1>3, <1>4 DEF LoggerTypes, Part, Streams
  <2> QED
    BY <2>2, <2>3 DEF BufferOK
<1>8. EventsWhole'
  <2>1. \A s \in Streams : Whole(output[s]) /\ output[s] \in Seq(S)
    BY <1>3, WholeStreams DEF LoggerTypes
  <2>2. Whole(output[logPc[t]] \o Event(t))
    BY <1>1, <2>1, WholeGrows
  <2>3. \A s \in Streams : Whole(output'[s])
    BY <1>1, <1>3, <2>1, <2>2 DEF LoggerTypes
  <2> QED
    BY <2>3 DEF EventsWhole, Whole
<1>9. FileOK' /\ FileFollowsScreen'
  <2> DEFINE shown == output["screen"]
            file == output["file"]
  <2>0. shown \in Seq(S) /\ file \in Seq(S)
    BY <1>3 DEF LoggerTypes, Streams
  <2>1. CASE logPc[t] = "screen"
    <3>1. shown = file \/ (~opened /\ file = <<>>)
      <4>1. \A u \in LogThreads : logPc[u] # "file"
        BY <1>3, <2>1
      <4> QED
        BY <1>1, <1>3, <4>1 DEF FileOK
    <3>2. output'["screen"] = shown \o Event(t) /\ output'["file"] = file
      BY <1>1, <1>3, <2>1 DEF LoggerTypes, Streams
    <3>3. /\ logPc'[t] = (IF opened THEN "file" ELSE "unlocking")
          /\ \A u \in LogThreads : u # t => logPc'[u] = "idle"
      BY <1>2, <1>3, <2>1 DEF After, LoggerTypes
    <3>4. FileOK'
      <4>1. UNCHANGED <<alive, opened>> /\ alive
        BY <1>1, <1>2
      <4>2. CASE opened
        <5>1. /\ logPc'[t] = "file" /\ \A u \in LogThreads : logPc'[u] = "file" => u = t
              /\ output'["screen"] = output'["file"] \o Event(t)
          BY <3>1, <3>2, <3>3, <4>2
        <5> QED
          BY <4>1, <4>2, <5>1, Zenon DEF FileOK
      <4>3. CASE ~opened
        <5>1. output'["file"] = <<>> /\ \A u \in LogThreads : logPc'[u] # "file"
          BY <1>1, <1>3, <3>2, <3>3, <4>3 DEF FileOK
        <5> QED
          BY <4>1, <4>3, <5>1, Zenon DEF FileOK
      <4> QED
        BY <4>2, <4>3
    <3>5. /\ IsPrefix(file, shown \o Event(t))
          /\ Len(shown \o Event(t)) = Len(shown) + Pieces
      <4>1. /\ shown \o Event(t) \in Seq(S)
            /\ Len(shown) \in Nat /\ Len(shown \o Event(t)) = Len(shown) + Pieces
            /\ \A i \in 1 .. Len(shown) : (shown \o Event(t))[i] = shown[i]
        BY <2>0, EventAdded, Zenon DEF S
      <4> DEFINE r == shown \o Event(t)
      <4> HIDE DEF r
      <4>2. file = shown \/ file = <<>>
        BY <3>1
      <4>3. CASE file = shown
        <5> QED
          BY <2>0, <4>1, <4>3 DEF IsPrefix, Pieces, r
      <4>4. CASE file = <<>>
        BY <4>1, <4>4 DEF IsPrefix, r
      <4> QED
        BY <4>1, <4>2, <4>3, <4>4 DEF r
    <3>6. FileFollowsScreen'
      <4> DEFINE r == shown \o Event(t)
                 n == Len(shown)
      <4>1. /\ IsPrefix(file, r) /\ Len(r) = n + Pieces /\ n \in Nat
            /\ (opened => shown = file)
        BY <2>0, <3>1, <3>5
      <4> HIDE DEF r
      <4>2. opened => Len(r) - Len(file) \in {0, Pieces}
        BY <4>1 DEF Pieces
      <4> QED
        BY <1>2, <3>2, <4>1, <4>2, Zenon DEF FileFollowsScreen, r
    <3> QED
      BY <3>4, <3>6
  <2>2. CASE logPc[t] = "file"
    <3>1. opened /\ shown = file \o Event(t)
      BY <1>1, <1>3, <2>2 DEF FileOK
    <3>2. output'["file"] = shown /\ output'["screen"] = shown
      BY <1>1, <1>3, <2>2, <3>1 DEF LoggerTypes, Streams
    <3>3. \A u \in LogThreads : logPc'[u] # "file"
      BY <1>2, <1>3, <1>4, <2>2 DEF LoggerTypes
    <3>4. FileOK'
      BY <1>2, <3>1, <3>2, <3>3 DEF FileOK
    <3>5. FileFollowsScreen'
      BY <2>0, <3>2 DEF FileFollowsScreen, IsPrefix
    <3> QED
      BY <3>4, <3>5
  <2> QED
    BY <1>1, <2>1, <2>2 DEF Streams
<1>10. CountOK'
  <2> SUFFICES ASSUME ready, NEW u \in LogThreads
               PROVE  /\ IsFiniteSet(OnScreen(u)')
                      /\ Cardinality(OnScreen(u)') =
                           Pieces * (IF logPc'[u] \in {"file", "unlocking"} THEN logged[u] + 1 ELSE logged[u])
    BY <1>2 DEF CountOK
  <2>1. /\ IsFiniteSet(OnScreen(u))
        /\ Cardinality(OnScreen(u)) =
             Pieces * (IF logPc[u] \in {"file", "unlocking"} THEN logged[u] + 1 ELSE logged[u])
    BY <1>3 DEF CountOK
  <2>2. CASE logPc[t] = "file"
    <3>1. OnScreen(u)' = OnScreen(u)
      BY <1>1, <1>3, <2>2 DEF OnScreen, LoggerTypes, Streams
    <3>2. logPc'[u] \in {"file", "unlocking"} <=> logPc[u] \in {"file", "unlocking"}
      BY <1>2, <1>3, <1>4, <2>2 DEF LoggerTypes
    <3> QED
      BY <2>1, <3>1, <3>2
  <2>3. CASE logPc[t] = "screen"
    <3> DEFINE o == output["screen"]
    <3>1. o \in Seq(S) /\ output'["screen"] = o \o Event(t)
      BY <1>1, <1>3, <2>3 DEF LoggerTypes, Streams
    <3>2. /\ IsFiniteSet(OnScreen(u)')
          /\ Cardinality(OnScreen(u)') = Cardinality(OnScreen(u)) + (IF t = u THEN Pieces ELSE 0)
      <4> DEFINE r == o \o Event(t)
                 seen == {i \in DOMAIN o : o[i][1] = u}
                 now == {i \in DOMAIN r : r[i][1] = u}
      <4>1. IsFiniteSet(seen) /\ OnScreen(u) = seen
        BY <2>1 DEF OnScreen
      <4>2. /\ IsFiniteSet(now)
            /\ Cardinality(now) = Cardinality(seen) + (IF t = u THEN Pieces ELSE 0)
        BY <3>1, <4>1, OnScreenGrows, Zenon DEF S
      <4>3. OnScreen(u)' = now
        BY <3>1, Zenon DEF OnScreen
      <4> HIDE DEF r, seen, now
      <4> QED
        BY <4>1, <4>2, <4>3
    <3>3. logged[u] \in Nat
      BY <1>3 DEF LoggerTypes
    <3>4. CASE u = t
      <4>1. logPc'[u] \in {"file", "unlocking"} /\ logPc[u] \notin {"file", "unlocking"}
        BY <1>2, <1>3, <1>4, <2>3, <3>4 DEF LoggerTypes
      <4> QED
        BY <2>1, <3>2, <3>3, <3>4, <4>1 DEF Pieces
    <3>5. CASE u # t
      <4>1. logPc'[u] = logPc[u]
        BY <1>2, <1>3, <3>5 DEF LoggerTypes
      <4> QED
        BY <2>1, <3>2, <3>3, <3>5, <4>1 DEF Pieces
    <3> QED
      BY <3>4, <3>5
  <2> QED
    BY <1>1, <2>2, <2>3 DEF Streams
<1> QED
  BY <1>5, <1>6, <1>7, <1>8, <1>9, <1>10 DEF LoggerInvariant

\* printf changes no more than what the stream has buffered.
LEMMA PrintKeeps ==
  ASSUME LoggerInvariant, NEW t \in LogThreads, PrintPiece(t)
  PROVE  LoggerInvariant'
<1>1. /\ logPc[t] \in Streams /\ logLock = {t} /\ alive
      /\ piece' = [piece EXCEPT ![t] = piece[t] + 1] /\ piece[t] + 1 \in 0 .. Pieces
      /\ buffer' = [buffer EXCEPT ![logPc[t]] = Part(t)']
  BY PrintEffect
<1>2. UNCHANGED <<ready, opened, logLock, logPc, logged, output, alive>>
  BY DEF PrintPiece
<1>3. /\ LoggerTypes /\ LockOK /\ PieceOK /\ BufferOK /\ FileOK /\ CountOK
      /\ EventsWhole /\ FileFollowsScreen
      /\ \A u \in LogThreads : u # t => logPc[u] = "idle"
  BY <1>1 DEF LoggerInvariant, LockOK
<1>4. piece' \in [LogThreads -> 0 .. Pieces] /\ piece'[t] = piece[t] + 1
  BY <1>1, <1>3 DEF LoggerTypes
<1>5. LoggerTypes'
  <2> DEFINE S == LogThreads \X (1 .. Pieces)
             s == logPc[t]
             part == Part(t)'
  <2>1. /\ buffer \in [Streams -> Seq(S)] /\ s \in Streams
        /\ buffer' = [buffer EXCEPT ![s] = part]
    BY <1>1, <1>3 DEF LoggerTypes
  <2>2. part \in Seq(S)
    <3> DEFINE n == piece'[t]
    <3>1. n \in 0 .. Pieces
      BY <1>4
    <3> HIDE DEF n
    <3>2. [k \in 1 .. n |-> <<t, k>>] \in Seq(S)
      BY <3>1 DEF Pieces
    <3> QED
      BY <3>2 DEF Part, n
  <2> HIDE DEF S, s, part
  <2>3. buffer' \in [Streams -> Seq(S)]
    BY <2>1, <2>2
  <2>4. buffer' \in [Streams -> Seq(LogThreads \X (1 .. Pieces))]
    BY <2>3, Zenon DEF S
  <2>5. piece' \in [LogThreads -> 0 .. Pieces]
    BY <1>2, <1>3, <1>4 DEF LoggerTypes
  <2> QED
    BY <1>2, <1>3, <2>4, <2>5 DEF LoggerTypes
<1>6. /\ LockOK' /\ PieceOK' /\ CountOK' /\ FileOK' /\ EventsWhole'
      /\ FileFollowsScreen'
  <2>1. LockOK' /\ FileOK'
    BY <1>2, <1>3 DEF LockOK, FileOK
  <2>2. CountOK'
    BY <1>2, <1>3 DEF CountOK, OnScreen
  <2>3. EventsWhole' /\ FileFollowsScreen'
    BY <1>2, <1>3 DEF EventsWhole, FileFollowsScreen
  <2>4. PieceOK'
    BY <1>1, <1>2, <1>3 DEF PieceOK, LoggerTypes
  <2> QED
    BY <2>1, <2>2, <2>3, <2>4
<1>7. BufferOK'
  <2>1. ASSUME NEW s \in Streams, s = logPc[t]
        PROVE  /\ \A u \in LogThreads : logPc'[u] = s => buffer'[s] = Part(u)'
               /\ (\A u \in LogThreads : logPc'[u] # s) => buffer'[s] = <<>>
    <3>1. logPc'[t] = s /\ buffer'[s] = Part(t)'
      BY <1>1, <1>2, <1>3, <2>1 DEF LoggerTypes
    <3>2. \A u \in LogThreads : logPc'[u] = s => u = t
      BY <1>2, <1>3, <2>1 DEF Streams
    <3> QED
      BY <3>1, <3>2, Zenon
  <2>2. ASSUME NEW s \in Streams, s # logPc[t]
        PROVE  buffer'[s] = <<>> /\ \A u \in LogThreads : logPc'[u] # s
    <3>1. \A u \in LogThreads : logPc[u] # s
      BY <1>3, <2>2 DEF Streams
    <3>2. buffer[s] = <<>>
      BY <1>1, <1>3, <3>1 DEF BufferOK
    <3> QED
      BY <1>1, <1>2, <1>3, <2>2, <3>1, <3>2 DEF LoggerTypes
  <2> QED
    BY <2>1, <2>2 DEF BufferOK
<1> QED
  BY <1>3, <1>5, <1>6, <1>7 DEF LoggerInvariant

\* The steps that leave the streams alone.
LEMMA EnterKeeps ==
  ASSUME LoggerInvariant, NEW t \in LogThreads, EnterLog(t)
  PROVE  LoggerInvariant'
<1>1. /\ logLock = {} /\ logLock' = {t} /\ logPc[t] = "idle"
      /\ logPc' = [logPc EXCEPT ![t] = "screen"]
      /\ UNCHANGED <<ready, opened, piece, logged, buffer, output, alive>>
  BY DEF EnterLog, Free
<1>2. /\ LoggerTypes /\ LockOK /\ PieceOK /\ BufferOK /\ FileOK /\ CountOK
      /\ EventsWhole /\ FileFollowsScreen
  BY DEF LoggerInvariant
<1>3. \A u \in LogThreads : logPc[u] = "idle" /\ logPc'[u] = (IF u = t THEN "screen" ELSE "idle")
  BY <1>1, <1>2 DEF LockOK, LoggerTypes
<1>4. LoggerTypes' /\ LockOK' /\ PieceOK' /\ EventsWhole' /\ FileFollowsScreen'
  <2>1. LoggerTypes'
    BY <1>1, <1>2 DEF LoggerTypes, Streams
  <2>2. LockOK'
    BY <1>1, <1>3 DEF LockOK
  <2>3. PieceOK'
    BY <1>1, <1>2, <1>3 DEF PieceOK, Streams
  <2>4. EventsWhole' /\ FileFollowsScreen'
    BY <1>1, <1>2 DEF EventsWhole, FileFollowsScreen
  <2> QED
    BY <2>1, <2>2, <2>3, <2>4
<1>5. BufferOK'
  <2>1. alive => \A s \in Streams : buffer[s] = <<>>
    BY <1>2, <1>3 DEF BufferOK, Streams
  <2>2. Part(t)' = <<>>
    BY <1>1, <1>2, <1>3 DEF PieceOK, Part, Streams
  <2> QED
    BY <1>1, <1>3, <2>1, <2>2 DEF BufferOK, Streams
<1>6. FileOK'
  <2>1. \A u \in LogThreads : logPc[u] # "file" /\ logPc'[u] # "file"
    BY <1>3
  <2> QED
    BY <1>1, <1>2, <2>1 DEF FileOK
<1>7. CountOK'
  BY <1>1, <1>2, <1>3 DEF CountOK, OnScreen
<1> QED
  BY <1>4, <1>5, <1>6, <1>7 DEF LoggerInvariant

\* The thread that leaves has its event on the screen.
LEMMA LeaveKeeps ==
  ASSUME LoggerInvariant, NEW t \in LogThreads, LeaveLog(t)
  PROVE  LoggerInvariant'
<1>1. /\ alive /\ logPc[t] = "unlocking" /\ logLock' = {} /\ logPc' = [logPc EXCEPT ![t] = "idle"]
      /\ logged' = [logged EXCEPT ![t] = @ + 1]
      /\ UNCHANGED <<ready, opened, piece, buffer, output, alive>>
  BY DEF LeaveLog, Unlocked
<1>2. /\ LoggerTypes /\ LockOK /\ PieceOK /\ BufferOK /\ FileOK /\ CountOK
      /\ EventsWhole /\ FileFollowsScreen
  BY DEF LoggerInvariant
<1>3. \A u \in LogThreads : (u # t => logPc[u] = "idle") /\ logPc'[u] = "idle"
  BY <1>1, <1>2 DEF LockOK, LoggerTypes
<1>4. /\ logged' \in [LogThreads -> Nat] /\ logged'[t] = logged[t] + 1
      /\ \A u \in LogThreads : u # t => logged'[u] = logged[u]
  BY <1>1, <1>2 DEF LoggerTypes
<1>5. LoggerTypes' /\ LockOK' /\ PieceOK' /\ EventsWhole' /\ FileFollowsScreen'
  <2>1. LoggerTypes'
    BY <1>1, <1>2, <1>4 DEF LoggerTypes
  <2>2. LockOK'
    BY <1>1, <1>3 DEF LockOK
  <2>3. PieceOK'
    BY <1>1, <1>2, <1>3 DEF PieceOK, Streams
  <2>4. EventsWhole' /\ FileFollowsScreen'
    BY <1>1, <1>2 DEF EventsWhole, FileFollowsScreen
  <2> QED
    BY <2>1, <2>2, <2>3, <2>4
<1>6. BufferOK'
  <2>1. \A u \in LogThreads : logPc[u] \notin Streams /\ logPc'[u] \notin Streams
    BY <1>1, <1>3 DEF Streams
  <2> QED
    BY <1>1, <1>2, <2>1 DEF BufferOK
<1>7. FileOK'
  <2>1. \A u \in LogThreads : logPc[u] # "file" /\ logPc'[u] # "file"
    BY <1>1, <1>3
  <2> QED
    BY <1>1, <1>2, <2>1 DEF FileOK
<1>8. CountOK'
  <2>1. \A u \in LogThreads : OnScreen(u)' = OnScreen(u)
    BY <1>1 DEF OnScreen
  <2>2. \A u \in LogThreads : (IF logPc'[u] \in {"file", "unlocking"} THEN logged'[u] + 1 ELSE logged'[u])
                                = (IF logPc[u] \in {"file", "unlocking"} THEN logged[u] + 1 ELSE logged[u])
    BY <1>1, <1>3, <1>4
  <2> QED
    BY <1>1, <1>2, <2>1, <2>2 DEF CountOK
<1> QED
  BY <1>5, <1>6, <1>7, <1>8 DEF LoggerInvariant

\* Without a logger nothing is printed.
LEMMA DropKeeps ==
  ASSUME LoggerInvariant, NEW t \in LogThreads, DropEvent(t)
  PROVE  LoggerInvariant'
<1>1. /\ ~ready /\ logged' = [logged EXCEPT ![t] = @ + 1]
      /\ UNCHANGED <<ready, opened, logLock, logPc, piece, buffer, output, alive>>
  BY DEF DropEvent
<1>2. LoggerTypes'
  BY <1>1 DEF LoggerInvariant, LoggerTypes
<1>3. /\ LockOK' /\ PieceOK' /\ FileOK' /\ CountOK' /\ EventsWhole'
      /\ FileFollowsScreen'
  BY <1>1
  DEF LoggerInvariant, LockOK, PieceOK, FileOK, CountOK, EventsWhole,
      FileFollowsScreen
<1>4. BufferOK'
  BY <1>1 DEF LoggerInvariant, BufferOK, Part
<1> QED
  BY <1>2, <1>3, <1>4 DEF LoggerInvariant

\* Closing and being killed end everything; what is out stays out.
LEMMA EndKeeps ==
  ASSUME LoggerInvariant, Close \/ Killed
  PROVE  LoggerInvariant'
<1>1. /\ ~alive' /\ alive' \in BOOLEAN /\ UNCHANGED <<logLock, logPc, piece, logged, output>>
      /\ ready' \in BOOLEAN /\ opened' \in BOOLEAN /\ (ready' => ready)
      /\ (opened' => opened)
      /\ buffer' \in [Streams -> Seq(LogThreads \X (1 .. Pieces))]
  <2> DEFINE S == LogThreads \X (1 .. Pieces)
             Empty == [s \in Streams |-> <<>>]
  <2>1. buffer' = buffer \/ buffer' = Empty
    BY DEF Close, Killed
  <2>2. buffer \in [Streams -> Seq(S)]
    BY DEF LoggerInvariant, LoggerTypes
  <2> HIDE DEF S
  <2>3. Empty \in [Streams -> Seq(S)]
    OBVIOUS
  <2> HIDE DEF Empty
  <2>4. buffer' \in [Streams -> Seq(S)]
    BY <2>1, <2>2, <2>3
  <2>5. /\ ~alive' /\ alive' \in BOOLEAN /\ UNCHANGED <<logLock, logPc, piece, logged, output>>
        /\ ready' \in BOOLEAN /\ opened' \in BOOLEAN /\ (ready' => ready)
        /\ (opened' => opened)
    <3>1. ready \in BOOLEAN /\ opened \in BOOLEAN
      BY DEF LoggerInvariant, LoggerTypes
    <3>2. CASE Close
      BY <3>1, <3>2 DEF Close
    <3>3. CASE Killed
      BY <3>1, <3>3 DEF Killed
    <3> QED
      BY <3>2, <3>3
  <2> QED
    BY <2>4, <2>5 DEF S
<1>2. LoggerTypes' /\ LockOK' /\ PieceOK' /\ BufferOK' /\ FileOK'
  BY <1>1 DEF LoggerInvariant, LoggerTypes, LockOK, PieceOK, BufferOK, FileOK
<1>3. CountOK' /\ EventsWhole' /\ FileFollowsScreen'
  BY <1>1
  DEF LoggerInvariant, CountOK, OnScreen, EventsWhole, FileFollowsScreen
<1> QED
  BY <1>2, <1>3 DEF LoggerInvariant

\* Every step of a thread and the end of the process keep the invariant.
LEMMA LoggerNext ==
  ASSUME LoggerInvariant, [LogNext]_logVars
  PROVE  LoggerInvariant'
<1>1. CASE LogNext
  <2>1. ASSUME NEW t \in LogThreads, LogStep(t) PROVE LoggerInvariant'
    BY <2>1, DropKeeps, EnterKeeps, PrintKeeps, FlushKeeps, LeaveKeeps DEF LogStep
  <2> QED
    BY <1>1, <2>1, EndKeeps DEF LogNext
<1>2. CASE UNCHANGED logVars
  <2>1. LoggerTypes' /\ LockOK' /\ PieceOK' /\ FileOK' /\ CountOK'
    BY <1>2
    DEF LoggerInvariant, LoggerTypes, LockOK, PieceOK, FileOK, CountOK,
        OnScreen, logVars
  <2>2. BufferOK' /\ EventsWhole' /\ FileFollowsScreen'
    BY <1>2
    DEF LoggerInvariant, BufferOK, Part, EventsWhole, FileFollowsScreen,
        logVars
  <2> QED
    BY <2>1, <2>2 DEF LoggerInvariant
<1> QED
  BY <1>1, <1>2

\* So it holds in every behaviour.
LEMMA LoggerInvariantHolds == LogSpec => []LoggerInvariant
BY LoggerInit, LoggerNext, PTL DEF LogSpec

\* Whatever the threads do and whenever the process is killed, screen and
\* file hold whole events (logger.c:53-69).
THEOREM LoggedEventsAreWhole == LogSpec => []EventsWhole
<1>1. LoggerInvariant => EventsWhole
  BY DEF LoggerInvariant
<1> QED
  BY <1>1, LoggerInvariantHolds, PTL

\* The file repeats the screen and is at most one event behind.
THEOREM FileRepeatsScreen == LogSpec => []FileFollowsScreen
<1>1. LoggerInvariant => FileFollowsScreen
  BY DEF LoggerInvariant
<1> QED
  BY <1>1, LoggerInvariantHolds, PTL

\* An event that log_event returned from stays on the screen.
THEOREM ReturnedEventsStay == LogSpec => []ReturnedIsVisible
<1>1. LoggerInvariant => ReturnedIsVisible
  <2> SUFFICES ASSUME LoggerInvariant, ready, NEW t \in LogThreads
               PROVE  Cardinality(OnScreen(t)) >= Pieces * logged[t]
    BY DEF ReturnedIsVisible
  <2>1. Cardinality(OnScreen(t)) =
          Pieces * (IF logPc[t] \in {"file", "unlocking"} THEN logged[t] + 1 ELSE logged[t])
    BY DEF LoggerInvariant, CountOK
  <2>2. logged[t] \in Nat
    BY DEF LoggerInvariant, LoggerTypes
  <2> QED
    BY <2>1, <2>2 DEF Pieces
<1> QED
  BY <1>1, LoggerInvariantHolds, PTL

-------------------------------------------------------------------------------
(***************************************************************************)
(* The process demonstration. A process passes its places in the order of  *)
(* their ranks; whatever it has said has a lower rank than its place, so   *)
(* that what it says next is new. The children print only where the logger *)
(* is ready, and then they began with an empty buffer.                     *)
(***************************************************************************)

\* The places in the order a process comes to them.
LEMMA RankOf ==
  /\ Rank["unborn"] = 0 /\ Rank["banner"] = 1 /\ Rank["organizeStarted"] = 1
  /\ Rank["reportStarted"] = 1
  /\ Rank["announce"] = 2 /\ Rank["load"] = 2 /\ Rank["forkOrganize"] = 3
  /\ Rank["loadedCopy"] = 3
  /\ Rank["tally"] = 3 /\ Rank["organizeForkFailed"] = 4 /\ Rank["forkReport"] = 4
  /\ Rank["sorted"] = 4 /\ Rank["reportForkFailed"] = 5 /\ Rank["waiting"] = 5
  /\ Rank["exit"] = 5
  /\ Rank["reapOrganize"] = 6 /\ Rank["waitOrganize"] = 6 /\ Rank["ended"] = 6
  /\ Rank["organizeExited"] = 7 /\ Rank["waitReport"] = 8 /\ Rank["reportExited"] = 9
  /\ Rank["reaped"] = 10 /\ Rank["complete"] = 11 /\ Rank["returned"] = 12
  /\ Rank["menu"] = 13
BY DEF Rank, Places, ParentPlaces, ChildPlaces, NoChild, FirstOnly,
       BothThere, FirstReaped, BothReaped, Back

\* Places have ranks, and the end of a child the highest of its own.
LEMMA RankType ==
  /\ \A place \in Places : Rank[place] \in Nat
  /\ \A place \in ChildPlaces \ {"ended"} : Rank[place] < Rank["ended"]
<1>1. ASSUME NEW place \in ParentPlaces PROVE Rank[place] \in Nat
  BY RankOf
  DEF ParentPlaces, NoChild, FirstOnly, BothThere, FirstReaped,
      BothReaped, Back
<1>2. ASSUME NEW place \in ChildPlaces
      PROVE  Rank[place] \in Nat /\ (place # "ended" => Rank[place] < Rank["ended"])
  BY RankOf DEF ChildPlaces
<1> QED
  BY <1>1, <1>2 DEF Places

\* OutputOnce of a sequence of texts.
Distinct(o) == \A i, j \in DOMAIN o : o[i] = o[j] => i = j

\* A new text makes no text appear twice.
LEMMA AppendDistinct ==
  ASSUME NEW S, NEW o \in Seq(S), NEW x \in S, x \notin ToSet(o), Distinct(o)
  PROVE  Distinct(Append(o, x)) /\ ToSet(Append(o, x)) = ToSet(o) \cup {x}
<1> DEFINE r == Append(o, x)
           n == Len(o)
<1>1. /\ n \in Nat /\ DOMAIN o = 1 .. n /\ DOMAIN r = 1 .. n + 1
      /\ \A i \in 1 .. n : r[i] = o[i]
      /\ r[n + 1] = x
  OBVIOUS
<1> HIDE DEF r, n
<1>2. \A i \in 1 .. n : o[i] # x
  BY <1>1 DEF ToSet
<1>3. \A i \in 1 .. n + 1 : i \in 1 .. n \/ i = n + 1
  BY <1>1
<1>4. Distinct(r)
  BY <1>1, <1>2, <1>3 DEF Distinct
<1>5. ToSet(r) = ToSet(o) \cup {x}
  <2>1. \A y \in ToSet(r) : y \in ToSet(o) \cup {x}
    BY <1>1, <1>3 DEF ToSet
  <2>2. \A y \in ToSet(o) : y \in ToSet(r)
    BY <1>1 DEF ToSet
  <2>3. x \in ToSet(r)
    BY <1>1 DEF ToSet
  <2> QED
    BY <2>1, <2>2, <2>3
<1> QED
  BY <1>4, <1>5 DEF r

\* A step that prints nothing.
LEMMA SaidSame ==
  ASSUME DemoTypes, SaidOK, said' = said,
         screen' \o demoBuffer'["parent"] = screen \o demoBuffer["parent"],
         \A p \in Processes :
           Rank[demoPc'[p]] \in Nat /\ Rank[demoPc[p]] <= Rank[demoPc'[p]]
  PROVE  SaidOK'
<1>1. ASSUME NEW t \in said PROVE t \in Texts /\ Rank[t[2]] < Rank[demoPc'[t[1]]]
  <2>1. t \in Texts /\ Rank[t[2]] < Rank[demoPc[t[1]]]
    BY DEF SaidOK
  <2>2. t[1] \in Processes /\ t[2] \in Places
    BY <2>1 DEF Texts, Places
  <2>3. Rank[t[2]] \in Nat /\ Rank[demoPc[t[1]]] \in Nat
    BY <2>2, RankType DEF DemoTypes, Places
  <2> QED
    BY <2>1, <2>2, <2>3
<1> QED
  BY <1>1 DEF SaidOK

\* A step of p that prints the text of its place.
LEMMA SaidMore ==
  ASSUME DemoTypes, SaidOK, NEW p \in Processes, said' = said \cup {<<p, demoPc[p]>>},
         screen' \o demoBuffer'["parent"] = Append(screen \o demoBuffer["parent"], <<p, demoPc[p]>>),
         \A q \in Processes :
           Rank[demoPc'[q]] \in Nat /\ Rank[demoPc[q]] <= Rank[demoPc'[q]],
         Rank[demoPc[p]] < Rank[demoPc'[p]]
  PROVE  SaidOK'
<1> DEFINE text == <<p, demoPc[p]>>
           texts == screen \o demoBuffer["parent"]
           texts2 == screen' \o demoBuffer'["parent"]
<1>1. text \in Texts
  BY DEF Texts, DemoTypes, Places
<1>2. ASSUME NEW t \in said PROVE t \in Texts /\ Rank[t[2]] < Rank[demoPc[t[1]]] /\ Rank[t[2]] < Rank[demoPc'[t[1]]]
  <2>1. t \in Texts /\ Rank[t[2]] < Rank[demoPc[t[1]]]
    BY DEF SaidOK
  <2>2. t[1] \in Processes /\ t[2] \in Places
    BY <2>1 DEF Texts, Places
  <2>3. Rank[t[2]] \in Nat /\ Rank[demoPc[t[1]]] \in Nat
    BY <2>2, RankType DEF DemoTypes, Places
  <2> QED
    BY <2>1, <2>2, <2>3
<1>3. text \notin said
  <2>1. Rank[demoPc[p]] \in Nat
    BY RankType DEF DemoTypes, Places
  <2>2. text[1] = p /\ text[2] = demoPc[p]
    OBVIOUS
  <2> HIDE DEF text
  <2> QED
    BY <1>2, <2>1, <2>2
<1>4. \A t \in said' : t \in Texts /\ Rank[t[2]] < Rank[demoPc'[t[1]]]
  BY <1>1, <1>2
<1>5. /\ texts \in Seq(Texts) /\ ToSet(texts) = said /\ Distinct(texts)
      /\ texts2 = Append(texts, text)
  <2>1. texts \in Seq(Texts)
    BY DEF DemoTypes, Processes
  <2>2. ToSet(texts) = said /\ Distinct(texts)
    BY DEF SaidOK, Distinct
  <2> QED
    BY <2>1, <2>2
<1> HIDE DEF texts, text, texts2
<1>6. Distinct(texts2) /\ ToSet(texts2) = said'
  <2>1. said' = said \cup {text}
    BY DEF text
  <2> QED
    BY <1>1, <1>3, <1>5, <2>1, AppendDistinct
<1> QED
  BY <1>4, <1>6 DEF SaidOK, Distinct, texts2

\* A process that moves forwards.
LEMMA Moves ==
  ASSUME DemoTypes, NEW p \in Processes, NEW to \in Places, demoPc' = [demoPc EXCEPT ![p] = to],
         Rank[demoPc[p]] < Rank[to]
  PROVE  /\ \A q \in Processes :
              Rank[demoPc'[q]] \in Nat /\ Rank[demoPc[q]] <= Rank[demoPc'[q]]
         /\ demoPc'[p] = to /\ \A q \in Processes : q # p => demoPc'[q] = demoPc[q]
BY RankType DEF DemoTypes

\* The invariant of the demonstration holds at the start.
LEMMA DemoStarts == DemoInit => DemoInvariant
<1> SUFFICES ASSUME DemoInit PROVE DemoInvariant
  OBVIOUS
<1> USE DEF DemoInit, Processes, Children
<1>1. DemoTypes
  BY DEF DemoTypes, Texts, Places, ParentPlaces, ChildPlaces, NoChild
<1>2. FamilyOK
  BY
  DEF FamilyOK, NoChildLeft, NoChild, FirstOnly, BothThere,
      FirstReaped, BothReaped
<1>3. BuffersOK
  BY DEF BuffersOK
<1>4. SaidOK
  BY DEF SaidOK, ToSet
<1> QED
  BY <1>1, <1>2, <1>3, <1>4 DEF DemoInvariant

\* While a child runs, the parent has nothing buffered if the logger is ready.
LEMMA ChildWritesAlone ==
  ASSUME DemoInvariant, demoReady, NEW c \in Children, child[c] = "running"
  PROVE  \A p \in Processes : demoBuffer[p] = <<>>
<1>1. demoPc["parent"] \notin NoChild \cup Back
  BY DEF DemoInvariant, FamilyOK, NoChildLeft, Back
<1>2. demoPc["parent"] \notin {"announce", "returned"}
  BY <1>1 DEF NoChild, Back
<1> QED
  BY <1>2 DEF DemoInvariant, BuffersOK, Processes

\* What log_event does to the output.
LEMMA LogEffect ==
  ASSUME DemoInvariant, NEW p \in Processes, LogEvent(p), p \in Children => child[p] = "running",
         Rank[demoPc[p]] < Rank[demoPc'[p]],
         \A q \in Processes :
           Rank[demoPc'[q]] \in Nat /\ Rank[demoPc[q]] <= Rank[demoPc'[q]]
  PROVE  /\ SaidOK' /\ screen' \in Seq(Texts) /\ demoBuffer' \in [Processes -> Seq(Texts)]
         /\ \A q \in Processes : demoBuffer'[q] = demoBuffer[q] \/ demoBuffer'[q] = <<>>
         /\ demoReady => demoBuffer'[p] = <<>>
<1>0. DemoTypes /\ SaidOK /\ <<p, demoPc[p]>> \in Texts
  BY DEF DemoInvariant, DemoTypes, Texts
<1>1. CASE ~demoReady
  <2>1. UNCHANGED <<screen, demoBuffer, said>>
    BY <1>1 DEF LogEvent
  <2> QED
    BY <1>0, <1>1, <2>1, SaidSame DEF DemoTypes
<1>2. CASE demoReady
  <2> DEFINE text == <<p, demoPc[p]>>
             b == demoBuffer["parent"]
  <2>1. /\ screen' = screen \o demoBuffer[p] \o <<text>>
        /\ demoBuffer' = [demoBuffer EXCEPT ![p] = <<>>]
        /\ said' = said \cup {text}
    BY <1>2 DEF LogEvent, WriteOut
  <2>2. /\ screen \in Seq(Texts) /\ b \in Seq(Texts)
        /\ demoBuffer[p] \in Seq(Texts) /\ text \in Texts
    BY <1>0 DEF DemoTypes, Processes
  <2>3. demoBuffer[p] = b
    BY <1>2, ChildWritesAlone DEF Processes
  <2>4. demoBuffer'["parent"] = <<>>
    BY <1>0, <1>2, <2>1, ChildWritesAlone DEF Processes, DemoTypes
  <2>5. /\ screen \o b \o <<text>> \in Seq(Texts)
        /\ (screen \o b \o <<text>>) \o <<>> = Append(screen \o b, text)
    <3> HIDE DEF text, b
    <3> QED
      BY <2>2
  <2>6. screen' \o demoBuffer'["parent"] = Append(screen \o demoBuffer["parent"], text)
    BY <2>1, <2>3, <2>4, <2>5
  <2>7. SaidOK'
    BY <1>0, <2>1, <2>6, SaidMore
  <2>8. screen' \in Seq(Texts)
    BY <2>1, <2>3, <2>5
  <2>9. demoBuffer' \in [Processes -> Seq(Texts)]
    <3>1. <<>> \in Seq(Texts)
      OBVIOUS
    <3> QED
      BY <1>0, <2>1, <3>1 DEF DemoTypes
  <2>10. demoBuffer'[p] = <<>> /\ \A q \in Processes : q # p => demoBuffer'[q] = demoBuffer[q]
    BY <1>0, <2>1 DEF DemoTypes
  <2>11. \A q \in Processes : demoBuffer'[q] = demoBuffer[q] \/ demoBuffer'[q] = <<>>
    BY <2>10
  <2> QED
    BY <2>7, <2>8, <2>9, <2>10, <2>11
<1> QED
  BY <1>1, <1>2

\* A call of log_event, by the parent or by a child.
LEMMA LogKeeps ==
  ASSUME DemoInvariant, NEW p \in Processes, Log(p)
  PROVE  DemoInvariant'
<1> DEFINE to == AfterLog[demoPc[p]]
<1>0. DemoTypes /\ FamilyOK /\ BuffersOK /\ SaidOK
  BY DEF DemoInvariant
<1>1. /\ demoPc[p] \in DOMAIN AfterLog /\ demoPc' = [demoPc EXCEPT ![p] = to]
      /\ LogEvent(p)
      /\ UNCHANGED <<demoReady, terminal, child, code>>
  BY DEF Log
<1>2. CASE p = "parent"
  <2>1. /\ demoPc[p] \in {"announce", "organizeForkFailed", "reportForkFailed", "waiting",
                          "organizeExited", "reportExited", "reaped"}
        /\ to = (CASE demoPc[p] = "announce" -> "forkOrganize" [] demoPc[p] = "organizeForkFailed" -> "returned"
                       [] demoPc[p] = "reportForkFailed" -> "reapOrganize" [] demoPc[p] = "waiting" -> "waitOrganize"
                       [] demoPc[p] = "organizeExited" -> "waitReport" [] demoPc[p] = "reportExited" -> "reaped"
                       [] demoPc[p] = "reaped" -> "complete")
    <3>1. demoPc[p] \in ParentPlaces
      BY <1>0, <1>2 DEF DemoTypes
    <3> QED
      BY <1>1, <3>1
      DEF AfterLog, ParentPlaces, NoChild, FirstOnly, BothThere,
          FirstReaped,
                        BothReaped, Back
  <2> HIDE DEF to
  <2>2. /\ to \in ParentPlaces /\ to \notin {"announce", "menu"}
        /\ (to = "returned" <=> demoPc[p] = "organizeForkFailed")
    BY <2>1
    DEF ParentPlaces, NoChild, FirstOnly, BothThere, FirstReaped,
        BothReaped, Back
  <2>3. Rank[demoPc[p]] < Rank[to]
    BY <2>1, RankOf
  <2>4. to \in Places /\ p \in Processes
    BY <2>2 DEF Places
  <2>5. /\ \A q \in Processes :
             Rank[demoPc'[q]] \in Nat /\ Rank[demoPc[q]] <= Rank[demoPc'[q]]
        /\ demoPc'[p] = to /\ \A q \in Processes : q # p => demoPc'[q] = demoPc[q]
    BY <1>0, <1>1, <2>3, <2>4, Moves DEF to
  <2>6. /\ SaidOK' /\ screen' \in Seq(Texts)
        /\ demoBuffer' \in [Processes -> Seq(Texts)]
        /\ \A q \in Processes : demoBuffer'[q] = demoBuffer[q] \/ demoBuffer'[q] = <<>>
        /\ demoReady => demoBuffer'[p] = <<>>
    <3>1. p \notin Children
      BY <1>2 DEF Children
    <3> QED
      BY <1>1, <2>3, <2>5, <3>1, LogEffect
  <2>7. DemoTypes'
    <3>1. \A c \in Children : c \in Processes /\ c # p
      BY <1>2 DEF Processes, Children
    <3> QED
      BY <1>0, <1>1, <1>2, <2>2, <2>4, <2>5, <2>6, <3>1 DEF DemoTypes, to
  <2>8. FamilyOK'
    <3>1. \A c \in Children : demoPc'[c] = demoPc[c]
      BY <1>2, <2>5 DEF Processes, Children
    <3>2. \/ demoPc[p] \in NoChild /\ to \in NoChild
          \/ demoPc[p] \in NoChild /\ to = "returned"
          \/ demoPc[p] \in FirstOnly /\ to \in FirstOnly
          \/ demoPc[p] \in BothThere /\ to \in BothThere
          \/ demoPc[p] \in FirstReaped /\ to \in FirstReaped
          \/ demoPc[p] \in BothReaped /\ to \in BothReaped
      BY <2>1
      DEF NoChild, FirstOnly, BothThere, FirstReaped, BothReaped
    <3>3. demoPc'["parent"] = to /\ UNCHANGED child
      BY <1>1, <1>2, <2>5
    <3> HIDE DEF to
    <3>4. CASE demoPc[p] \in NoChild
      BY <1>0, <1>2, <3>1, <3>2, <3>3, <3>4
      DEF FamilyOK, NoChildLeft, NoChild, FirstOnly, BothThere,
          FirstReaped, BothReaped
    <3>5. CASE demoPc[p] \in FirstOnly /\ to \in FirstOnly
      BY <1>0, <1>2, <3>1, <3>3, <3>5
      DEF FamilyOK, NoChildLeft, NoChild, FirstOnly, BothThere,
          FirstReaped, BothReaped
    <3>6. CASE demoPc[p] \in BothThere /\ to \in BothThere
      BY <1>0, <1>2, <3>1, <3>3, <3>6
      DEF FamilyOK, NoChildLeft, NoChild, FirstOnly, BothThere,
          FirstReaped, BothReaped
    <3>7. CASE demoPc[p] \in FirstReaped /\ to \in FirstReaped
      BY <1>0, <1>2, <3>1, <3>3, <3>7
      DEF FamilyOK, NoChildLeft, NoChild, FirstOnly, BothThere,
          FirstReaped, BothReaped
    <3>8. CASE demoPc[p] \in BothReaped /\ to \in BothReaped
      BY <1>0, <1>2, <3>1, <3>3, <3>8
      DEF FamilyOK, NoChildLeft, NoChild, FirstOnly, BothThere,
          FirstReaped, BothReaped
    <3> QED
      BY <3>2, <3>4, <3>5, <3>6, <3>7, <3>8
  <2>9. BuffersOK'
    <3>1. /\ demoPc'["parent"] # "menu" /\ UNCHANGED <<demoReady, terminal>>
          /\ \A c \in Children : c \in Processes
      BY <1>1, <1>2, <2>2, <2>5 DEF Processes
    <3>2. demoReady => demoBuffer'["parent"] = <<>>
      BY <1>2, <2>6
    <3> QED
      BY <1>0, <2>6, <3>1, <3>2 DEF BuffersOK
  <2> QED
    BY <2>6, <2>7, <2>8, <2>9 DEF DemoInvariant
<1>3. CASE p \in Children
  <2>1. /\ demoPc[p] \in {"organizeStarted", "reportStarted", "loadedCopy", "sorted", "tally"}
        /\ to \in {"load", "sorted", "exit"}
        /\ Rank[demoPc[p]] < Rank[to]
    <3>1. demoPc[p] \in ChildPlaces
      BY <1>0, <1>3 DEF DemoTypes
    <3>2. \/ demoPc[p] \in {"organizeStarted", "reportStarted"} /\ to = "load"
          \/ demoPc[p] = "loadedCopy" /\ to = "sorted"
          \/ demoPc[p] \in {"sorted", "tally"} /\ to = "exit"
      BY <1>1, <3>1 DEF AfterLog, ChildPlaces, ChildEnd
    <3> HIDE DEF to
    <3> QED
      BY <3>2, RankOf
  <2> HIDE DEF to
  <2>2. /\ to \in ChildPlaces /\ to \notin {"unborn", "ended"}
        /\ demoPc[p] \notin {"unborn", "ended"}
    BY <2>1 DEF ChildPlaces
  <2>3. p \in Processes /\ p # "parent" /\ "parent" \in Processes
    BY <1>3 DEF Processes, Children
  <2>4. child[p] = "running"
    BY <1>0, <1>3, <2>2 DEF DemoTypes, FamilyOK
  <2>5. /\ \A q \in Processes :
             Rank[demoPc'[q]] \in Nat /\ Rank[demoPc[q]] <= Rank[demoPc'[q]]
        /\ demoPc'[p] = to /\ \A q \in Processes : q # p => demoPc'[q] = demoPc[q]
    BY <1>0, <1>1, <2>1, <2>2, <2>3, Moves DEF to, Places
  <2>6. /\ SaidOK' /\ screen' \in Seq(Texts)
        /\ demoBuffer' \in [Processes -> Seq(Texts)]
        /\ \A q \in Processes : demoBuffer'[q] = demoBuffer[q] \/ demoBuffer'[q] = <<>>
    BY <1>1, <2>1, <2>3, <2>4, <2>5, LogEffect
  <2>7. DemoTypes'
    <3>1. demoPc' \in [Processes -> Places] /\ demoPc'["parent"] \in ParentPlaces
      BY <1>0, <1>1, <2>2, <2>3, <2>5 DEF DemoTypes, to, Places
    <3>2. \A c \in Children : c \in Processes
      BY DEF Processes
    <3>3. \A c \in Children : demoPc'[c] \in ChildPlaces
      BY <1>0, <2>2, <2>5, <3>2 DEF DemoTypes
    <3> QED
      BY <1>0, <1>1, <2>6, <3>1, <3>3 DEF DemoTypes
  <2>8. FamilyOK'
    <3>1. demoPc'["parent"] = demoPc["parent"]
      BY <2>3, <2>5
    <3>2. \A c \in Children : (demoPc'[c] = "unborn" <=> demoPc[c] = "unborn") /\ (demoPc'[c] = "ended" <=> demoPc[c] = "ended")
      BY <2>2, <2>5 DEF Processes
    <3> QED
      BY <1>0, <1>1, <3>1, <3>2 DEF FamilyOK, NoChildLeft
  <2>9. BuffersOK'
    BY <1>0, <1>1, <2>3, <2>5, <2>6 DEF BuffersOK, Processes
  <2> QED
    BY <2>6, <2>7, <2>8, <2>9 DEF DemoInvariant
<1> QED
  BY <1>2, <1>3 DEF Processes

\* The printf at the start and the one at the end, which leave a text in the
\* buffer unless stdout is a terminal.
LEMMA BannerKeeps ==
  ASSUME DemoInvariant, Banner
  PROVE  DemoInvariant'
<1> DEFINE P == "parent"
           to == IF demoPc[P] = "banner" THEN "announce" ELSE "returned"
           text == <<P, demoPc[P]>>
           b == demoBuffer[P]
<1>0. /\ DemoTypes /\ FamilyOK /\ BuffersOK /\ SaidOK /\ P \in Processes
      /\ \A c \in Children : c \in Processes /\ c # P
  BY DEF DemoInvariant, Processes, Children
<1>1. /\ demoPc[P] \in {"banner", "complete"} /\ demoPc' = [demoPc EXCEPT ![P] = to]
      /\ UNCHANGED <<demoReady, terminal, child, code>>
      /\ said' = said \cup {text}
      /\ \/ terminal /\ screen' = Append(screen, text) /\ UNCHANGED demoBuffer
         \/ ~terminal /\ demoBuffer' = [demoBuffer EXCEPT ![P] = Append(@, text)] /\ UNCHANGED screen
  BY DEF Banner, Printf
<1>2. /\ to \in ParentPlaces /\ to \in Places /\ Rank[demoPc[P]] < Rank[to]
      /\ to \in {"announce", "returned"}
  <2>1. to \in ParentPlaces /\ to \in {"announce", "returned"}
    BY DEF ParentPlaces, NoChild, Back
  <2>2. Rank[demoPc[P]] < Rank[to]
    BY <1>1, RankOf
  <2> QED
    BY <2>1, <2>2 DEF Places
<1>3. /\ \A q \in Processes :
           Rank[demoPc'[q]] \in Nat /\ Rank[demoPc[q]] <= Rank[demoPc'[q]]
      /\ demoPc'[P] = to /\ \A q \in Processes : q # P => demoPc'[q] = demoPc[q]
  BY <1>0, <1>1, <1>2, Moves
<1>4. screen \in Seq(Texts) /\ b \in Seq(Texts) /\ text \in Texts
  BY <1>0 DEF DemoTypes, Texts
<1>5. /\ screen' \o demoBuffer'[P] = Append(screen \o b, text)
      /\ screen' \in Seq(Texts) /\ demoBuffer' \in [Processes -> Seq(Texts)]
      /\ \A q \in Processes : q # P => demoBuffer'[q] = demoBuffer[q]
      /\ terminal => demoBuffer'[P] = <<>>
  <2>1. CASE terminal
    <3>1. b = <<>>
      BY <1>0, <2>1 DEF BuffersOK
    <3> HIDE DEF text, b
    <3>2. /\ Append(screen, text) \o b = Append(screen \o b, text)
          /\ Append(screen, text) \in Seq(Texts)
      BY <1>4, <3>1
    <3> QED
      BY <1>0, <1>1, <2>1, <3>1, <3>2 DEF DemoTypes, b
  <2>2. CASE ~terminal
    <3>1. /\ screen \o Append(b, text) = Append(screen \o b, text)
          /\ Append(b, text) \in Seq(Texts)
      <4> HIDE DEF text, b
      <4> QED
        BY <1>4
    <3>2. /\ demoBuffer'[P] = Append(b, text)
          /\ \A q \in Processes : q # P => demoBuffer'[q] = demoBuffer[q]
      BY <1>0, <1>1, <2>2 DEF DemoTypes
    <3>3. demoBuffer' \in [Processes -> Seq(Texts)]
      <4> DEFINE a == Append(b, text)
      <4>1. /\ demoBuffer' = [demoBuffer EXCEPT ![P] = a] /\ a \in Seq(Texts)
            /\ demoBuffer \in [Processes -> Seq(Texts)]
        BY <1>0, <1>1, <2>2, <3>1 DEF DemoTypes
      <4> HIDE DEF a
      <4> QED
        BY <4>1
    <3> QED
      BY <1>0, <1>1, <2>2, <3>1, <3>2, <3>3 DEF DemoTypes
  <2> QED
    BY <2>1, <2>2
<1>6. SaidOK'
  BY <1>0, <1>1, <1>2, <1>3, <1>5, SaidMore
<1>7. DemoTypes'
  <2>1. demoPc' \in [Processes -> Places]
    BY <1>0, <1>1, <1>2 DEF DemoTypes
  <2>2. demoPc'[P] \in ParentPlaces /\ \A c \in Children : demoPc'[c] \in ChildPlaces
    BY <1>0, <1>2, <1>3 DEF DemoTypes
  <2> QED
    BY <1>0, <1>1, <1>5, <2>1, <2>2 DEF DemoTypes
<1>8. FamilyOK'
  <2>1. \A c \in Children : demoPc'[c] = demoPc[c]
    BY <1>0, <1>3
  <2>2. \/ demoPc[P] = "banner" /\ demoPc'[P] = "announce"
        \/ demoPc[P] = "complete" /\ demoPc'[P] = "returned"
    BY <1>1, <1>3
  <2>3. CASE demoPc[P] = "banner" /\ demoPc'[P] = "announce"
    BY <1>0, <1>1, <2>1, <2>3
    DEF FamilyOK, NoChildLeft, NoChild, FirstOnly, BothThere,
        FirstReaped, BothReaped
  <2>4. CASE demoPc[P] = "complete" /\ demoPc'[P] = "returned"
    BY <1>0, <1>1, <2>1, <2>4
    DEF FamilyOK, NoChildLeft, NoChild, FirstOnly, BothThere,
        FirstReaped, BothReaped
  <2> QED
    BY <2>2, <2>3, <2>4
<1>9. BuffersOK'
  BY <1>0, <1>1, <1>2, <1>3, <1>5 DEF BuffersOK
<1> QED
  BY <1>6, <1>7, <1>8, <1>9 DEF DemoInvariant

\* A step that moves one process and prints nothing; what becomes of the
\* family is for the callers to say.
LEMMA QuietKeeps ==
  ASSUME DemoInvariant, NEW p \in Processes, NEW to \in Places, demoPc' = [demoPc EXCEPT ![p] = to],
         p = "parent" => to \in ParentPlaces, p \in Children => to \in ChildPlaces,
         p = "parent" => demoPc[p] \notin {"announce", "returned"} /\ to # "menu",
         Rank[demoPc[p]] < Rank[to], UNCHANGED <<demoReady, terminal, screen, said>>,
         child' \in [Children -> {"none", "running", "zombie", "reaped"}],
         code' \in [Children -> {-1, 0, 2, 3}],
         demoBuffer' \in [Processes -> Seq(Texts)], demoBuffer'["parent"] = demoBuffer["parent"],
         \A q \in Processes :
           demoBuffer'[q] = demoBuffer[q] \/ demoBuffer'[q] = <<>> \/ (~demoReady /\ ~terminal),
         FamilyOK'
  PROVE  DemoInvariant'
<1>0. /\ DemoTypes /\ FamilyOK /\ BuffersOK /\ SaidOK
      /\ "parent" \in Processes
      /\ \A c \in Children : c \in Processes /\ c # "parent"
  BY DEF DemoInvariant, Processes, Children
<1>1. /\ \A q \in Processes :
           Rank[demoPc'[q]] \in Nat /\ Rank[demoPc[q]] <= Rank[demoPc'[q]]
      /\ demoPc'[p] = to /\ \A q \in Processes : q # p => demoPc'[q] = demoPc[q]
  BY <1>0, Moves
<1>2. SaidOK'
  BY <1>0, <1>1, SaidSame
<1>3. DemoTypes'
  <2>1. demoPc' \in [Processes -> Places]
    BY <1>0 DEF DemoTypes
  <2>2. /\ demoPc'["parent"] \in ParentPlaces
        /\ \A c \in Children : demoPc'[c] \in ChildPlaces
    BY <1>0, <1>1 DEF DemoTypes
  <2> QED
    BY <1>0, <2>1, <2>2 DEF DemoTypes
<1>4. BuffersOK'
  <2>1. terminal => \A q \in Processes : demoBuffer'[q] = <<>>
    BY <1>0 DEF BuffersOK
  <2>2. demoReady => \A c \in Children : demoBuffer'[c] = <<>>
    BY <1>0 DEF BuffersOK
  <2>3. demoPc["parent"] \in {"announce", "returned"} => p # "parent" /\ demoPc'["parent"] = demoPc["parent"]
    BY <1>0, <1>1
  <2>4. demoReady /\ demoPc'["parent"] \notin {"announce", "returned"} => demoBuffer'["parent"] = <<>>
    BY <1>0, <2>3 DEF BuffersOK
  <2>5. demoPc'["parent"] = "menu" => demoBuffer'["parent"] = <<>>
    BY <1>0, <1>1 DEF BuffersOK
  <2> QED
    BY <2>1, <2>2, <2>4, <2>5 DEF BuffersOK
<1> QED
  BY <1>2, <1>3, <1>4 DEF DemoInvariant

\* The steps of the parent.
LEMMA MenuKeeps ==
  ASSUME DemoInvariant, Menu
  PROVE  DemoInvariant'
<1> DEFINE P == "parent"
           b == demoBuffer[P]
<1>0. /\ DemoTypes /\ FamilyOK /\ BuffersOK /\ SaidOK /\ P \in Processes
      /\ \A c \in Children : c \in Processes /\ c # P
  BY DEF DemoInvariant, Processes, Children
<1>1. /\ demoPc[P] = "returned" /\ demoPc' = [demoPc EXCEPT ![P] = "menu"]
      /\ UNCHANGED <<demoReady, terminal, child, code, said>>
      /\ screen' = screen \o b \o <<>> /\ demoBuffer' = [demoBuffer EXCEPT ![P] = <<>>]
  BY DEF Menu, WriteOut
<1>2. /\ "menu" \in ParentPlaces /\ "menu" \in Places
      /\ Rank["returned"] < Rank["menu"]
  BY RankOf DEF Places, ParentPlaces, Back
<1>3. /\ \A q \in Processes :
           Rank[demoPc'[q]] \in Nat /\ Rank[demoPc[q]] <= Rank[demoPc'[q]]
      /\ demoPc'[P] = "menu" /\ \A q \in Processes : q # P => demoPc'[q] = demoPc[q]
  BY <1>0, <1>1, <1>2, Moves
<1>4. /\ screen' \in Seq(Texts) /\ demoBuffer' \in [Processes -> Seq(Texts)]
      /\ screen' \o demoBuffer'[P] = screen \o b
      /\ demoBuffer'[P] = <<>> /\ \A q \in Processes : q # P => demoBuffer'[q] = demoBuffer[q]
  <2>1. screen \in Seq(Texts) /\ b \in Seq(Texts) /\ <<>> \in Seq(Texts)
    BY <1>0 DEF DemoTypes
  <2>2. demoBuffer'[P] = <<>> /\ \A q \in Processes : q # P => demoBuffer'[q] = demoBuffer[q]
    BY <1>0, <1>1 DEF DemoTypes
  <2>3. demoBuffer' \in [Processes -> Seq(Texts)]
    BY <1>0, <1>1, <2>1 DEF DemoTypes
  <2> HIDE DEF b
  <2>4. /\ (screen \o b \o <<>>) \o <<>> = screen \o b
        /\ screen \o b \o <<>> \in Seq(Texts)
    BY <2>1
  <2> QED
    BY <1>1, <2>2, <2>3, <2>4 DEF b
<1>5. SaidOK'
  BY <1>0, <1>1, <1>3, <1>4, SaidSame
<1>6. DemoTypes'
  <2>1. demoPc' \in [Processes -> Places]
    BY <1>0, <1>1, <1>2 DEF DemoTypes
  <2>2. demoPc'[P] \in ParentPlaces /\ \A c \in Children : demoPc'[c] \in ChildPlaces
    BY <1>0, <1>2, <1>3 DEF DemoTypes
  <2> QED
    BY <1>0, <1>1, <1>4, <2>1, <2>2 DEF DemoTypes
<1>7. FamilyOK'
  <2>1. \A c \in Children : demoPc'[c] = demoPc[c]
    BY <1>0, <1>3
  <2> QED
    BY <1>0, <1>1, <1>3, <2>1
    DEF FamilyOK, NoChildLeft, NoChild, FirstOnly, BothThere,
        FirstReaped, BothReaped
<1>8. BuffersOK'
  BY <1>0, <1>1, <1>3, <1>4 DEF BuffersOK
<1> QED
  BY <1>5, <1>6, <1>7, <1>8 DEF DemoInvariant

\* fork copies a buffer that is empty or that the child never writes out.
LEMMA ForkKeeps ==
  ASSUME DemoInvariant, NEW c \in Children, Fork(c)
  PROVE  DemoInvariant'
<1> DEFINE P == "parent"
           to == IF c = "organize" THEN "forkReport" ELSE "waiting"
           first == IF c = "organize" THEN "organizeStarted" ELSE "reportStarted"
<1>0. /\ DemoTypes /\ FamilyOK /\ BuffersOK /\ SaidOK /\ P \in Processes
      /\ c \in Processes /\ c # P
      /\ \A d \in Children : d \in Processes /\ d # P
  BY DEF DemoInvariant, Processes, Children
<1>1. /\ demoPc[P] = ForkPoint(c) /\ child' = [child EXCEPT ![c] = "running"]
      /\ demoBuffer' = [demoBuffer EXCEPT ![c] = demoBuffer[P]]
      /\ demoPc' = [demoPc EXCEPT ![P] = to, ![c] = first]
      /\ UNCHANGED <<demoReady, terminal, code, screen, said>>
  BY DEF Fork
<1>2. /\ to \in ParentPlaces /\ first \in ChildPlaces /\ to \in Places
      /\ first \in Places
      /\ Rank[demoPc[P]] < Rank[to] /\ Rank["unborn"] < Rank[first]
      /\ \A place \in Places : Rank[place] \in Nat
  <2>1. to \in ParentPlaces /\ first \in ChildPlaces
    BY DEF ParentPlaces, FirstOnly, BothThere, ChildPlaces
  <2>2. Rank[demoPc[P]] < Rank[to] /\ Rank["unborn"] < Rank[first]
    BY <1>1, RankOf DEF ForkPoint
  <2> QED
    BY <2>1, <2>2, RankType DEF Places
<1>3. child[c] = "none" /\ demoPc[c] = "unborn"
  <2>1. child[c] = "none"
    BY <1>0, <1>1 DEF FamilyOK, ForkPoint, NoChild, FirstOnly, Children
  <2> QED
    BY <1>0, <2>1 DEF FamilyOK
<1>4. /\ demoPc'[P] = to /\ demoPc'[c] = first
      /\ \A q \in Processes : q # P /\ q # c => demoPc'[q] = demoPc[q]
      /\ demoPc' \in [Processes -> Places]
  BY <1>0, <1>1, <1>2 DEF DemoTypes
<1>5. \A q \in Processes :
        Rank[demoPc'[q]] \in Nat /\ Rank[demoPc[q]] <= Rank[demoPc'[q]]
  <2> HIDE DEF to, first
  <2>1. Rank[demoPc'[P]] \in Nat /\ Rank[demoPc[P]] <= Rank[demoPc'[P]]
    BY <1>0, <1>2, <1>4 DEF DemoTypes
  <2>2. Rank[demoPc'[c]] \in Nat /\ Rank[demoPc[c]] <= Rank[demoPc'[c]]
    BY <1>0, <1>2, <1>3, <1>4 DEF DemoTypes
  <2>3. ASSUME NEW q \in Processes, q # P, q # c
        PROVE  Rank[demoPc'[q]] \in Nat /\ Rank[demoPc[q]] <= Rank[demoPc'[q]]
    BY <1>0, <1>2, <1>4, <2>3 DEF DemoTypes
  <2> QED
    BY <2>1, <2>2, <2>3
<1>6. /\ demoBuffer' \in [Processes -> Seq(Texts)] /\ demoBuffer'[P] = demoBuffer[P]
      /\ demoBuffer'[c] = demoBuffer[P]
      /\ \A q \in Processes : q # c => demoBuffer'[q] = demoBuffer[q]
  BY <1>0, <1>1 DEF DemoTypes
<1>7. SaidOK'
  BY <1>0, <1>1, <1>5, <1>6, SaidSame
<1>8. DemoTypes'
  <2>1. demoPc'[P] \in ParentPlaces /\ \A d \in Children : demoPc'[d] \in ChildPlaces
    BY <1>0, <1>2, <1>4 DEF DemoTypes
  <2>2. child' \in [Children -> {"none", "running", "zombie", "reaped"}]
    BY <1>0, <1>1 DEF DemoTypes
  <2> QED
    BY <1>0, <1>1, <1>4, <1>6, <2>1, <2>2 DEF DemoTypes
<1>9. FamilyOK'
  <2>1. /\ child'[c] = "running" /\ demoPc'[c] \notin {"unborn", "ended"}
        /\ \A d \in Children : d # c => child'[d] = child[d] /\ demoPc'[d] = demoPc[d]
    BY <1>0, <1>1, <1>4 DEF DemoTypes
  <2>2. CASE c = "organize"
    BY <1>0, <1>1, <1>4, <2>1, <2>2
    DEF FamilyOK, NoChildLeft, NoChild, FirstOnly, BothThere,
        FirstReaped, BothReaped, ForkPoint, Children
  <2>3. CASE c = "report"
    BY <1>0, <1>1, <1>4, <2>1, <2>3
    DEF FamilyOK, NoChildLeft, NoChild, FirstOnly, BothThere,
        FirstReaped, BothReaped, ForkPoint, Children
  <2> QED
    BY <2>2, <2>3 DEF Children
<1>10. BuffersOK'
  <2>1. demoPc[P] \notin {"announce", "returned", "menu"} /\ demoPc'[P] # "menu"
    BY <1>1, <1>4 DEF ForkPoint
  <2> QED
    BY <1>0, <1>1, <1>6, <2>1 DEF BuffersOK
<1> QED
  BY <1>7, <1>8, <1>9, <1>10 DEF DemoInvariant

\* No child appears.
LEMMA ForkFailsKeeps ==
  ASSUME DemoInvariant, NEW c \in Children, ForkFails(c)
  PROVE  DemoInvariant'
<1> DEFINE to == AfterForkFailed(c)
<1>0. /\ DemoTypes /\ FamilyOK /\ "parent" \in Processes
      /\ \A d \in Children : d \in Processes /\ d # "parent"
  BY DEF DemoInvariant, Processes, Children
<1>1. /\ demoPc["parent"] = ForkPoint(c) /\ demoPc' = [demoPc EXCEPT !["parent"] = to]
      /\ UNCHANGED <<demoReady, terminal, child, code, demoBuffer, screen, said>>
  BY DEF ForkFails
<1>2. /\ to \in ParentPlaces /\ to \in Places /\ to # "menu"
      /\ Rank[demoPc["parent"]] < Rank[to]
      /\ demoPc["parent"] \notin {"announce", "returned"}
  <2>1. to \in ParentPlaces /\ to # "menu" /\ demoPc["parent"] \notin {"announce", "returned"}
    BY <1>1
    DEF ParentPlaces, NoChild, FirstOnly, AfterForkFailed, ForkPoint
  <2>2. Rank[demoPc["parent"]] < Rank[to]
    BY <1>1, RankOf DEF ForkPoint, AfterForkFailed
  <2> QED
    BY <2>1, <2>2 DEF Places
<1>3. FamilyOK'
  <2>1. demoPc'["parent"] = to /\ \A d \in Children : demoPc'[d] = demoPc[d]
    BY <1>0, <1>1 DEF DemoTypes
  <2>2. \/ demoPc["parent"] = "forkOrganize" /\ to = "organizeForkFailed"
        \/ demoPc["parent"] = "forkReport" /\ to = "reportForkFailed"
    BY <1>1 DEF ForkPoint, AfterForkFailed
  <2> HIDE DEF to
  <2> QED
    BY <1>0, <1>1, <2>1, <2>2
    DEF FamilyOK, NoChildLeft, NoChild, FirstOnly, BothThere,
        FirstReaped, BothReaped
<1> QED
  BY <1>0, <1>1, <1>2, <1>3, QuietKeeps DEF DemoTypes

\* waitpid reaps the child it waits for, which has ended.
LEMMA WaitKeeps ==
  ASSUME DemoInvariant, NEW c \in Children, Wait(c)
  PROVE  DemoInvariant'
<1> DEFINE to == AfterWait(c, code[c])
<1>0. /\ DemoTypes /\ FamilyOK /\ "parent" \in Processes
      /\ \A d \in Children : d \in Processes /\ d # "parent"
  BY DEF DemoInvariant, Processes, Children
<1>1. /\ demoPc["parent"] = WaitPoint(c) /\ child[c] = "zombie"
      /\ child' = [child EXCEPT ![c] = "reaped"] /\ demoPc' = [demoPc EXCEPT !["parent"] = to]
      /\ UNCHANGED <<demoReady, terminal, code, demoBuffer, screen, said>>
  BY DEF Wait, Reapable
<1>2. /\ to \in ParentPlaces /\ to \in Places /\ to # "menu"
      /\ Rank[demoPc["parent"]] < Rank[to]
      /\ demoPc["parent"] \notin {"announce", "returned"}
  <2>1. to \in ParentPlaces /\ to # "menu" /\ demoPc["parent"] \notin {"announce", "returned"}
    BY <1>1
    DEF ParentPlaces, FirstReaped, BothReaped, AfterWait, WaitPoint
  <2>2. Rank[demoPc["parent"]] < Rank[to]
    BY <1>1, RankOf DEF WaitPoint, AfterWait
  <2> QED
    BY <2>1, <2>2 DEF Places
<1>3. FamilyOK'
  <2>1. /\ demoPc'["parent"] = to /\ \A d \in Children : demoPc'[d] = demoPc[d]
        /\ child'[c] = "reaped" /\ \A d \in Children : d # c => child'[d] = child[d]
    BY <1>0, <1>1 DEF DemoTypes
  <2>2. \/ c = "organize" /\ demoPc["parent"] = "waitOrganize" /\ to \in {"organizeExited", "waitReport"}
        \/ c = "report" /\ demoPc["parent"] = "waitReport" /\ to \in {"reportExited", "reaped"}
    BY <1>1 DEF WaitPoint, AfterWait, Children
  <2> HIDE DEF to
  <2>3. CASE c = "organize" /\ demoPc["parent"] = "waitOrganize" /\ to \in {"organizeExited", "waitReport"}
    BY <1>0, <1>1, <2>1, <2>3
    DEF FamilyOK, NoChildLeft, NoChild, FirstOnly, BothThere,
        FirstReaped, BothReaped, Children
  <2>4. CASE c = "report" /\ demoPc["parent"] = "waitReport" /\ to \in {"reportExited", "reaped"}
    BY <1>0, <1>1, <2>1, <2>4
    DEF FamilyOK, NoChildLeft, NoChild, FirstOnly, BothThere,
        FirstReaped, BothReaped, Children
  <2> QED
    BY <2>2, <2>3, <2>4
<1> QED
  BY <1>0, <1>1, <1>2, <1>3, QuietKeeps DEF DemoTypes

\* When the second fork failed the first child is reaped before the return.
LEMMA ReapFirstKeeps ==
  ASSUME DemoInvariant, ReapFirst
  PROVE  DemoInvariant'
<1>0. /\ DemoTypes /\ FamilyOK /\ "parent" \in Processes
      /\ \A d \in Children : d \in Processes /\ d # "parent"
  BY DEF DemoInvariant, Processes, Children
<1>1. /\ demoPc["parent"] = "reapOrganize" /\ child["organize"] = "zombie"
      /\ child' = [child EXCEPT !["organize"] = "reaped"]
      /\ demoPc' = [demoPc EXCEPT !["parent"] = "returned"]
      /\ UNCHANGED <<demoReady, terminal, code, demoBuffer, screen, said>>
  BY DEF ReapFirst
<1>2. /\ "returned" \in ParentPlaces /\ "returned" \in Places
      /\ Rank[demoPc["parent"]] < Rank["returned"]
  BY <1>1, RankOf DEF Places, ParentPlaces, Back
<1>3. FamilyOK'
  <2>1. /\ demoPc'["parent"] = "returned" /\ \A d \in Children : demoPc'[d] = demoPc[d]
        /\ child'["organize"] = "reaped" /\ child'["report"] = child["report"]
    BY <1>0, <1>1 DEF DemoTypes, Children
  <2> QED
    BY <1>0, <1>1, <2>1
    DEF FamilyOK, NoChildLeft, NoChild, FirstOnly, BothThere,
        FirstReaped, BothReaped, Children
<1> QED
  BY <1>0, <1>1, <1>2, <1>3, QuietKeeps DEF DemoTypes

\* The steps of a child.
LEMMA ChildStepKeeps ==
  ASSUME DemoInvariant, NEW c \in Children, ChildLoad(c) \/ ChildLoadFails(c) \/ ChildExit(c) \/ ChildKilled(c)
  PROVE  DemoInvariant'
<1>0. /\ DemoTypes /\ FamilyOK /\ "parent" \in Processes /\ c \in Processes
      /\ c # "parent"
      /\ \A d \in Children : d \in Processes /\ d # "parent"
      /\ c \in Children /\ demoPc[c] \in ChildPlaces /\ <<>> \in Seq(Texts)
      /\ demoPc \in [Processes -> Places]
      /\ child \in [Children -> {"none", "running", "zombie", "reaped"}]
      /\ code \in [Children -> {-1, 0, 2, 3}]
      /\ demoBuffer \in [Processes -> Seq(Texts)]
  BY DEF DemoInvariant, DemoTypes, Processes, Children
<1>1. CASE ChildLoad(c) \/ ChildLoadFails(c)
  <2>1. PICK to \in {"loadedCopy", "tally", "exit"} : demoPc' = [demoPc EXCEPT ![c] = to]
    BY <1>1 DEF ChildLoad, ChildLoadFails
  <2>2. /\ demoPc[c] = "load"
        /\ UNCHANGED <<demoReady, terminal, child, demoBuffer, screen, said>>
        /\ \E n \in {0, 2, 3} : code' = [code EXCEPT ![c] = n]
    BY <1>1 DEF ChildLoad, ChildLoadFails
  <2>3. /\ to \in ChildPlaces /\ to \in Places /\ Rank[demoPc[c]] < Rank[to]
    <3>1. to \in ChildPlaces
      BY DEF ChildPlaces
    <3> QED
      BY <2>2, <3>1, RankOf DEF Places
  <2>4. code' \in [Children -> {-1, 0, 2, 3}]
    BY <1>0, <2>2
  <2>5. FamilyOK'
    <3>1. /\ demoPc'["parent"] = demoPc["parent"] /\ UNCHANGED child
          /\ \A d \in Children : /\ demoPc'[d] = "unborn" <=> demoPc[d] = "unborn"
                                 /\ demoPc'[d] = "ended" <=> demoPc[d] = "ended"
      BY <1>0, <2>1, <2>2
    <3> QED
      BY <1>0, <3>1 DEF FamilyOK, NoChildLeft
  <2> QED
    BY <1>0, <2>1, <2>2, <2>3, <2>4, <2>5, QuietKeeps
<1>2. CASE ChildExit(c) \/ ChildKilled(c)
  <2>1. /\ child' = [child EXCEPT ![c] = "zombie"] /\ demoPc' = [demoPc EXCEPT ![c] = "ended"]
        /\ demoBuffer' = [demoBuffer EXCEPT ![c] = <<>>]
        /\ UNCHANGED <<demoReady, terminal, screen, said>>
        /\ code' = code \/ code' = [code EXCEPT ![c] = -1]
        /\ demoPc[c] = "exit" \/ child[c] = "running"
    BY <1>2 DEF ChildExit, ChildKilled, Ends, UnderscoreExit
  <2>2. child[c] = "running" /\ demoPc[c] \notin {"unborn", "ended"}
    <3>1. \A d \in Children : /\ demoPc[d] = "unborn" <=> child[d] = "none"
                              /\ demoPc[d] = "ended" <=> child[d] \in {"zombie", "reaped"}
      BY <1>0 DEF FamilyOK
    <3> QED
      BY <1>0, <2>1, <3>1
  <2>3. /\ "ended" \in ChildPlaces /\ "ended" \in Places
        /\ Rank[demoPc[c]] < Rank["ended"]
    BY <1>0, <2>2, RankType DEF ChildPlaces, Places
  <2>4. /\ code' \in [Children -> {-1, 0, 2, 3}]
        /\ child' \in [Children -> {"none", "running", "zombie", "reaped"}]
        /\ demoBuffer' \in [Processes -> Seq(Texts)]
        /\ demoBuffer'["parent"] = demoBuffer["parent"]
        /\ \A q \in Processes : demoBuffer'[q] = demoBuffer[q] \/ demoBuffer'[q] = <<>>
    BY <1>0, <2>1
  <2>5. FamilyOK'
    <3>1. /\ demoPc'["parent"] = demoPc["parent"] /\ demoPc'[c] = "ended" /\ child'[c] = "zombie"
          /\ \A d \in Children : d # c => demoPc'[d] = demoPc[d] /\ child'[d] = child[d]
      BY <1>0, <2>1
    <3>2. demoPc["parent"] \notin NoChild \cup BothReaped \cup {"returned", "menu"}
      BY <1>0, <2>2 DEF FamilyOK, NoChildLeft
    <3>3. /\ demoPc["parent"] \in FirstOnly => child'["organize"] \in {"running", "zombie"} /\ child'["report"] = "none"
          /\ demoPc["parent"] \in BothThere => \A d \in Children : child'[d] \in {"running", "zombie"}
          /\ demoPc["parent"] \in FirstReaped => child'["organize"] = "reaped" /\ child'["report"] \in {"running", "zombie"}
      BY <1>0, <2>2, <3>1 DEF FamilyOK, Children
    <3>4. \A d \in Children : /\ demoPc'[d] = "unborn" <=> child'[d] = "none"
                              /\ demoPc'[d] = "ended" <=> child'[d] \in {"zombie", "reaped"}
      BY <1>0, <3>1 DEF FamilyOK
    <3> QED
      BY <3>1, <3>2, <3>3, <3>4 DEF FamilyOK, NoChildLeft
  <2> QED
    BY <1>0, <2>1, <2>3, <2>4, <2>5, QuietKeeps
<1> QED
  BY <1>1, <1>2

\* Every step of the parent and of a child keeps the invariant.
LEMMA DemoSteps ==
  ASSUME DemoInvariant, [DemoNext]_demoVars
  PROVE  DemoInvariant'
<1>1. CASE ParentStep
  BY <1>1, LogKeeps, BannerKeeps, MenuKeeps, ReapFirstKeeps, ForkKeeps, ForkFailsKeeps,
     WaitKeeps
  DEF ParentStep, Processes
<1>2. ASSUME NEW c \in Children, ChildStep(c) \/ ChildKilled(c) PROVE DemoInvariant'
  BY <1>2, LogKeeps, ChildStepKeeps DEF ChildStep, Processes
<1>3. CASE UNCHANGED demoVars
  BY <1>3
  DEF demoVars, DemoInvariant, DemoTypes, FamilyOK, NoChildLeft,
      BuffersOK, SaidOK
<1> QED
  BY <1>1, <1>2, <1>3 DEF DemoNext

\* So it holds in every behaviour.
LEMMA DemoInvariantHolds == DemoSpec => []DemoInvariant
BY DemoStarts, DemoSteps, PTL DEF DemoSpec

\* When run_process_demo has returned, on whatever path, each child that was
\* forked has been waited for (process_manager.c).
THEOREM ChildrenReaped == DemoSpec => []NoChildLeft
<1>1. DemoInvariant => NoChildLeft
  BY DEF DemoInvariant, FamilyOK
<1> QED
  BY <1>1, DemoInvariantHolds, PTL

\* Although fork copies the stdout buffer, no text is on the screen twice, and
\* back in the menu none is missing, whether or not stdout is a terminal and
\* the logger was initialised.
THEOREM PrintedOnce == DemoSpec => []OutputOnce
<1>1. DemoInvariant => OutputOnce
  <2> SUFFICES ASSUME DemoInvariant PROVE OutputOnce
    OBVIOUS
  <2> DEFINE b == demoBuffer["parent"]
             texts == screen \o b
  <2>1. /\ screen \in Seq(Texts) /\ b \in Seq(Texts) /\ ToSet(texts) = said
        /\ Distinct(texts)
        /\ demoPc["parent"] = "menu" => b = <<>>
    BY
    DEF DemoInvariant, DemoTypes, SaidOK, BuffersOK, Distinct, Processes
  <2> HIDE DEF b
  <2>2. \A i \in DOMAIN screen : i \in DOMAIN texts /\ texts[i] = screen[i]
    BY <2>1
  <2>3. b = <<>> => texts = screen
    BY <2>1
  <2> HIDE DEF texts
  <2> QED
    BY <2>1, <2>2, <2>3 DEF OutputOnce, Distinct
<1> QED
  BY <1>1, DemoInvariantHolds, PTL
===============================================================================

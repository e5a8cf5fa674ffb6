-------------------------------- MODULE Logger --------------------------------
(***************************************************************************)
(* logger.c: log_event called by several threads of one process. An event  *)
(* is printed in three pieces (prefix, message, newline), first to stdout, *)
(* then, if it could be opened, to the log file; each stream has a buffer  *)
(* that fflush hands to the system. The log mutex covers all of it.        *)
(*                                                                         *)
(* stdout is written out by its owner's fflush, and at each newline when   *)
(* it is a terminal: with the mutex that is the same moment. The buffers   *)
(* are larger than an event and never run full.                            *)
(***************************************************************************)
EXTENDS Integers, Sequences, SequencesExt, FiniteSets

CONSTANTS
  LogThreads,  \* threads that log
  Events       \* number of events each of them logs

ASSUME LoggerAssumption == Events \in Nat

Pieces == 3
Streams == {"screen", "file"}

VARIABLES
  ready,    \* g_log_ready
  opened,   \* g_logfp # NULL
  logLock,  \* holder of g_log_lock, a set of at most one thread
  logPc,    \* of each thread: idle, waiting for the lock, or at a stream
  piece,    \* pieces of the current event it has printed to that stream
  logged,   \* events each thread has finished
  buffer,   \* what each stream has buffered
  output,   \* what has left the process
  alive     \* FALSE once the process was killed or has closed the log

logVars == <<ready, opened, logLock, logPc, piece, logged, buffer, output, alive>>

\* logger_init: without a mutex no event is ever printed, without a file
\* events go to the screen only.
LogInit ==
  /\ ready \in BOOLEAN /\ opened \in BOOLEAN /\ (~ready => ~opened)
  /\ logLock = {} /\ alive = TRUE
  /\ logPc = [t \in LogThreads |-> "idle"] /\ piece = [t \in LogThreads |-> 0]
  /\ logged = [t \in LogThreads |-> 0]
  /\ buffer = [s \in Streams |-> <<>>] /\ output = [s \in Streams |-> <<>>]

Running(t) == alive /\ logged[t] < Events

\* The logger is not ready: log_event returns at once.
DropEvent(t) ==
  /\ Running(t) /\ logPc[t] = "idle" /\ ~ready
  /\ logged' = [logged EXCEPT ![t] = @ + 1]
  /\ UNCHANGED <<ready, opened, logLock, logPc, piece, buffer, output, alive>>

FaultyFree == TRUE
Free == logLock = {}

EnterLog(t) ==
  /\ Running(t) /\ logPc[t] = "idle" /\ ready /\ Free
  /\ logLock' = {t} /\ logPc' = [logPc EXCEPT ![t] = "screen"]
  /\ UNCHANGED <<ready, opened, piece, logged, buffer, output, alive>>

PrintPiece(t) ==
  /\ alive /\ logPc[t] \in Streams /\ piece[t] < Pieces
  /\ buffer' = [buffer EXCEPT ![logPc[t]] = Append(@, <<t, piece[t] + 1>>)]
  /\ piece' = [piece EXCEPT ![t] = @ + 1]
  /\ UNCHANGED <<ready, opened, logLock, logPc, logged, output, alive>>

\* Where log_event goes after it has flushed a stream.
After(stream) == IF stream = "screen" /\ opened THEN "file" ELSE "unlocking"

FaultyFlushed(s) == IF s = "screen" THEN <<>> ELSE buffer[s]
\* What fflush hands over: all that is buffered.
Flushed(s) == buffer[s]

Flush(t) ==
  /\ alive /\ logPc[t] \in Streams /\ piece[t] = Pieces
  /\ output' = [output EXCEPT ![logPc[t]] = @ \o Flushed(logPc[t])]
  /\ buffer' = [buffer EXCEPT ![logPc[t]] = SubSeq(@, Len(Flushed(logPc[t])) + 1, Len(@))]
  /\ logPc' = [logPc EXCEPT ![t] = After(logPc[t])] /\ piece' = [piece EXCEPT ![t] = 0]
  /\ UNCHANGED <<ready, opened, logLock, logged, alive>>

Unlocked == {}

LeaveLog(t) ==
  /\ alive /\ logPc[t] = "unlocking"
  /\ logLock' = Unlocked /\ logPc' = [logPc EXCEPT ![t] = "idle"]
  /\ logged' = [logged EXCEPT ![t] = @ + 1]
  /\ UNCHANGED <<ready, opened, piece, buffer, output, alive>>

\* main closes the log after the threads that used it have ended.
Close ==
  /\ alive /\ \A t \in LogThreads : logged[t] = Events
  /\ alive' = FALSE /\ ready' = FALSE /\ opened' = FALSE
  /\ UNCHANGED <<logLock, logPc, piece, logged, buffer, output>>

\* The process is killed: what is still buffered is gone.
Killed ==
  /\ alive /\ alive' = FALSE
  /\ buffer' = [s \in Streams |-> <<>>]
  /\ UNCHANGED <<ready, opened, logLock, logPc, piece, logged, output>>

LogStep(t) == DropEvent(t) \/ EnterLog(t) \/ PrintPiece(t) \/ Flush(t) \/ LeaveLog(t)

LogNext == (\E t \in LogThreads : LogStep(t)) \/ Close \/ Killed

LogSpec == LogInit /\ [][LogNext]_logVars

-------------------------------------------------------------------------------
(***************************************************************************)
(* Properties                                                              *)
(***************************************************************************)
\* Whatever the threads do and whenever the process dies, screen and file
\* consist of whole events (logger.c:53-69 prints each in three pieces).
EventsWhole ==
  \A s \in Streams :
    /\ Len(output[s]) % Pieces = 0
    /\ \A i \in DOMAIN output[s] :
         /\ output[s][i][2] = ((i - 1) % Pieces) + 1
         /\ output[s][i][2] > 1 => output[s][i][1] = output[s][i - 1][1]

\* The file has the events of the screen in the same order, and is at most
\* the event behind whose writer holds the lock, or held it when killed.
FileFollowsScreen ==
  /\ IsPrefix(output["file"], output["screen"])
  /\ opened => Len(output["screen"]) - Len(output["file"]) \in {0, Pieces}

\* An event that log_event returned from is on the screen, even if the
\* process is killed later.
OnScreen(t) == {i \in DOMAIN output["screen"] : output["screen"][i][1] = t}
ReturnedIsVisible ==
  \A t \in LogThreads : ready => Cardinality(OnScreen(t)) >= Pieces * logged[t]

(***************************************************************************)
(* Why they hold. Only the holder of the lock is in an event; a buffer has *)
(* the pieces of the event its stream is in; the file has what the screen  *)
(* has, but for the event of a thread that is printing to the file.        *)
(***************************************************************************)
Event(t) == [k \in 1 .. Pieces |-> <<t, k>>]
Part(t) == [k \in 1 .. piece[t] |-> <<t, k>>]

LoggerTypes ==
  /\ ready \in BOOLEAN /\ opened \in BOOLEAN /\ alive \in BOOLEAN
  /\ logLock \subseteq LogThreads
  /\ logPc \in [LogThreads -> {"idle", "unlocking"} \cup Streams]
  /\ piece \in [LogThreads -> 0 .. Pieces] /\ logged \in [LogThreads -> Nat]
  /\ buffer \in [Streams -> Seq(LogThreads \X (1 .. Pieces))]
  /\ output \in [Streams -> Seq(LogThreads \X (1 .. Pieces))]

LockOK ==
  /\ \A t, u \in logLock : t = u
  /\ \A t \in LogThreads : logPc[t] # "idle" <=> t \in logLock

PieceOK == \A t \in LogThreads : logPc[t] \notin Streams => piece[t] = 0

BufferOK ==
  alive => \A s \in Streams :
    /\ \A t \in LogThreads : logPc[t] = s => buffer[s] = Part(t)
    /\ (\A t \in LogThreads : logPc[t] # s) => buffer[s] = <<>>

FileOK ==
  /\ \A t \in LogThreads : alive /\ logPc[t] = "file" => opened
  /\ alive /\ ~opened => output["file"] = <<>>
  /\ alive /\ opened =>
       /\ \A t \in LogThreads :
            logPc[t] = "file" => output["screen"] = output["file"] \o Event(t)
       /\ (\A t \in LogThreads : logPc[t] # "file") => output["screen"] = output["file"]

\* The event that a thread is in counts from the moment it is on the screen.
CountOK ==
  ready => \A t \in LogThreads :
    /\ IsFiniteSet(OnScreen(t))
    /\ Cardinality(OnScreen(t)) =
         Pieces * (IF logPc[t] \in {"file", "unlocking"} THEN logged[t] + 1 ELSE logged[t])

LoggerInvariant ==
  /\ LoggerTypes /\ LockOK /\ PieceOK /\ BufferOK /\ FileOK /\ CountOK
  /\ EventsWhole /\ FileFollowsScreen
===============================================================================

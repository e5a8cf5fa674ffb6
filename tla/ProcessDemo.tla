------------------------------ MODULE ProcessDemo ------------------------------
(***************************************************************************)
(* run_process_demo of process_manager.c: the parent forks two children,   *)
(* which load a private copy of the books, log and leave with _exit, and   *)
(* reaps both.                                                             *)
(*                                                                         *)
(* What is printed goes through a stdout buffer that belongs to a process, *)
(* and fork copies it. printf leaves a text in the buffer (or writes it    *)
(* out at once, on a terminal); log_event writes out the buffer and its    *)
(* own text, or does nothing if the logger is not ready (logger.c:46-60).  *)
(* Only the main thread is alive at the fork, so log_event is one step.    *)
(***************************************************************************)
EXTENDS Integers, Sequences, SequencesExt

Children == {"organize", "report"}
Processes == Children \cup {"parent"}

VARIABLES
  demoReady,   \* the logger was initialised
  terminal,    \* stdout is line-buffered
  demoPc,      \* of each process; "unborn" while it does not exist
  child,       \* what the system knows of each child
  code,        \* the status a child ended with
  demoBuffer,  \* the stdout buffer of each process
  screen,      \* what has been written, by all of them
  said,        \* history: the texts that were printed or logged
  demoResult   \* what run_process_demo returned

demoVars == <<demoReady, terminal, demoPc, child, code, demoBuffer, screen, said, demoResult>>

DemoInit ==
  /\ demoReady \in BOOLEAN /\ terminal \in BOOLEAN
  /\ demoPc = [p \in Processes |-> IF p = "parent" THEN "banner" ELSE "unborn"]
  /\ child = [c \in Children |-> "none"]
  /\ code = [c \in Children |-> -1]
  /\ demoBuffer = [p \in Processes |-> <<>>] /\ screen = <<>> /\ said = {} /\ demoResult = 0

-------------------------------------------------------------------------------
(* Output *)

Printf(p) ==
  LET text == <<p, demoPc[p]>>
  IN  /\ said' = said \cup {text}
      /\ IF terminal
         THEN screen' = Append(screen, text) /\ UNCHANGED demoBuffer
         ELSE demoBuffer' = [demoBuffer EXCEPT ![p] = Append(@, text)] /\ UNCHANGED screen

WriteOut(p, texts) ==
  screen' = screen \o demoBuffer[p] \o texts /\ demoBuffer' = [demoBuffer EXCEPT ![p] = <<>>]

LogEvent(p) ==
  IF demoReady
  THEN WriteOut(p, << <<p, demoPc[p]>> >>) /\ said' = said \cup {<<p, demoPc[p]>>}
  ELSE UNCHANGED <<screen, demoBuffer, said>>

FaultyChildEnd == "menu"
\* A child does not return to the code of its parent.
ChildEnd == "exit"

\* The log_event calls: the program counter names the text.
AfterLog ==
  [announce |-> "forkOrganize", organizeForkFailed |-> "returned",
   reportForkFailed |-> "reapOrganize", waiting |-> "waitOrganize",
   organizeExited |-> "waitReport", reportExited |-> "reaped", reaped |-> "complete",
   organizeStarted |-> "load", reportStarted |-> "load",
   loadedCopy |-> "sorted", sorted |-> ChildEnd, tally |-> ChildEnd]

Log(p) ==
  /\ demoPc[p] \in DOMAIN AfterLog
  /\ LogEvent(p)
  /\ demoPc' = [demoPc EXCEPT ![p] = AfterLog[demoPc[p]]]
  /\ demoResult' = IF demoPc[p] = "organizeForkFailed" THEN -1 ELSE demoResult
  /\ UNCHANGED <<demoReady, terminal, child, code>>

\* The printf calls at the beginning and the end.
Banner ==
  /\ demoPc["parent"] \in {"banner", "complete"}
  /\ Printf("parent")
  /\ demoPc' = [demoPc EXCEPT !["parent"] = IF @ = "banner" THEN "announce" ELSE "returned"]
  /\ UNCHANGED <<demoReady, terminal, child, code, demoResult>>

\* Back in the menu, whose prompt flushes stdout (input.c:14).
Menu ==
  /\ demoPc["parent"] = "returned"
  /\ WriteOut("parent", <<>>)
  /\ demoPc' = [demoPc EXCEPT !["parent"] = "menu"]
  /\ UNCHANGED <<demoReady, terminal, child, code, said, demoResult>>

-------------------------------------------------------------------------------
(* Processes *)

ForkPoint(c) == IF c = "organize" THEN "forkOrganize" ELSE "forkReport"

Fork(c) ==
  /\ demoPc["parent"] = ForkPoint(c)
  /\ child' = [child EXCEPT ![c] = "running"]
  /\ demoBuffer' = [demoBuffer EXCEPT ![c] = demoBuffer["parent"]]
  /\ demoPc' = [demoPc EXCEPT !["parent"] = IF c = "organize" THEN "forkReport" ELSE "waiting",
                              ![c] = IF c = "organize" THEN "organizeStarted" ELSE "reportStarted"]
  /\ UNCHANGED <<demoReady, terminal, code, screen, said, demoResult>>

FaultyAfterForkFailed(c) == "organizeForkFailed"
\* The second failure leaves a child to reap.
AfterForkFailed(c) == IF c = "organize" THEN "organizeForkFailed" ELSE "reportForkFailed"

ForkFails(c) ==
  /\ demoPc["parent"] = ForkPoint(c)
  /\ demoPc' = [demoPc EXCEPT !["parent"] = AfterForkFailed(c)]
  /\ UNCHANGED <<demoReady, terminal, child, code, demoBuffer, screen, said, demoResult>>

\* inventory_load opens the file it is given; how many books it finds there is
\* the child's own affair.
ChildLoad(c) ==
  /\ demoPc[c] = "load"
  /\ code' = [code EXCEPT ![c] = 0]
  /\ demoPc' = [demoPc EXCEPT ![c] = IF c = "organize" THEN "loadedCopy" ELSE "tally"]
  /\ UNCHANGED <<demoReady, terminal, child, demoBuffer, screen, said, demoResult>>

\* The inventory cannot be initialised (2), or the file not be opened (3).
ChildLoadFails(c) ==
  /\ demoPc[c] = "load"
  /\ \E failure \in {2, 3} : code' = [code EXCEPT ![c] = failure]
  /\ demoPc' = [demoPc EXCEPT ![c] = "exit"]
  /\ UNCHANGED <<demoReady, terminal, child, demoBuffer, screen, said, demoResult>>

Ends(c) ==
  /\ child' = [child EXCEPT ![c] = "zombie"] /\ demoPc' = [demoPc EXCEPT ![c] = "ended"]
  /\ UNCHANGED <<demoReady, terminal, said, demoResult>>

FaultyUnderscoreExit(c) == WriteOut(c, <<>>)
\* _exit does not write out what is buffered.
UnderscoreExit(c) == demoBuffer' = [demoBuffer EXCEPT ![c] = <<>>] /\ UNCHANGED screen

ChildExit(c) == demoPc[c] = "exit" /\ UnderscoreExit(c) /\ Ends(c) /\ UNCHANGED code

\* A signal ends the child; it has no exit code.
ChildKilled(c) ==
  /\ child[c] = "running"
  /\ demoBuffer' = [demoBuffer EXCEPT ![c] = <<>>] /\ code' = [code EXCEPT ![c] = -1]
  /\ Ends(c) /\ UNCHANGED screen

\* The children waitpid(pid, ...) may return for.
Reapable(c) == IF child[c] = "zombie" THEN {c} ELSE {}

\* Where the parent goes after waitpid for c: it logs an exit code if there is one.
AfterWait(c, status) ==
  IF status # -1
  THEN IF c = "organize" THEN "organizeExited" ELSE "reportExited"
  ELSE IF c = "organize" THEN "waitReport" ELSE "reaped"

WaitPoint(c) == IF c = "organize" THEN "waitOrganize" ELSE "waitReport"

Wait(c) ==
  /\ demoPc["parent"] = WaitPoint(c)
  /\ \E k \in Reapable(c) :
           /\ child' = [child EXCEPT ![k] = "reaped"]
           /\ demoPc' = [demoPc EXCEPT !["parent"] = AfterWait(c, code[k])]
  /\ UNCHANGED <<demoReady, terminal, code, demoBuffer, screen, said, demoResult>>

\* After the second fork failed.
ReapFirst ==
  /\ demoPc["parent"] = "reapOrganize" /\ child["organize"] = "zombie"
  /\ child' = [child EXCEPT !["organize"] = "reaped"]
  /\ demoResult' = -1 /\ demoPc' = [demoPc EXCEPT !["parent"] = "returned"]
  /\ UNCHANGED <<demoReady, terminal, code, demoBuffer, screen, said>>

ParentStep ==
  \/ Log("parent") \/ Banner \/ Menu \/ ReapFirst
  \/ \E c \in Children : Fork(c) \/ ForkFails(c) \/ Wait(c)
ChildStep(c) == Log(c) \/ ChildLoad(c) \/ ChildLoadFails(c) \/ ChildExit(c)

DemoNext == ParentStep \/ \E c \in Children : ChildStep(c) \/ ChildKilled(c)

\* Each process is scheduled; nobody has to be killed.
DemoSpec ==
  /\ DemoInit /\ [][DemoNext]_demoVars
  /\ WF_demoVars(ParentStep) /\ \A c \in Children : WF_demoVars(ChildStep(c))

-------------------------------------------------------------------------------
(***************************************************************************)
(* Properties                                                              *)
(***************************************************************************)
\* No text appears twice, although fork copies the buffer, and back in the
\* menu nothing that was printed is missing (docs/project_report.md:605-608).
OutputOnce ==
  /\ \A i, j \in DOMAIN screen : screen[i] = screen[j] => i = j
  /\ demoPc["parent"] = "menu" => ToSet(screen) = said

\* When the demonstration has returned, on whatever path, no child runs and
\* none is left unreaped.
NoChildLeft ==
  demoPc["parent"] \in {"returned", "menu"} => \A c \in Children : child[c] \in {"none", "reaped"}

\* The demonstration comes back to the menu.
DemoReturns == <>(demoPc["parent"] = "menu")

(***************************************************************************)
(* Why the first two hold. A process never comes back to a place, so it    *)
(* prints no text twice; what a fork copies is written by nobody, for a    *)
(* child writes only if the logger is ready, and then the parent's buffer  *)
(* was empty.                                                              *)
(***************************************************************************)
NoChild == {"banner", "announce", "forkOrganize", "organizeForkFailed"}
FirstOnly == {"forkReport", "reportForkFailed", "reapOrganize"}
BothThere == {"waiting", "waitOrganize"}
FirstReaped == {"organizeExited", "waitReport"}
BothReaped == {"reportExited", "reaped", "complete"}
Back == {"returned", "menu"}
ParentPlaces == NoChild \cup FirstOnly \cup BothThere \cup FirstReaped \cup BothReaped \cup Back
ChildPlaces ==
  {"unborn", "organizeStarted", "reportStarted", "load", "loadedCopy", "sorted", "tally", "exit", "ended"}
Places == ParentPlaces \cup ChildPlaces
Rank ==
  [place \in Places |->
    CASE place = "unborn" -> 0
      [] place \in {"banner", "organizeStarted", "reportStarted"} -> 1
      [] place \in {"announce", "load"} -> 2
      [] place \in {"forkOrganize", "loadedCopy", "tally"} -> 3
      [] place \in {"organizeForkFailed", "forkReport", "sorted"} -> 4
      [] place \in {"reportForkFailed", "waiting", "exit"} -> 5
      [] place \in {"reapOrganize", "waitOrganize", "ended"} -> 6
      [] place = "organizeExited" -> 7
      [] place = "waitReport" -> 8
      [] place = "reportExited" -> 9
      [] place = "reaped" -> 10
      [] place = "complete" -> 11
      [] place = "returned" -> 12
      [] place = "menu" -> 13]

Texts == Processes \X Places

DemoTypes ==
  /\ demoReady \in BOOLEAN /\ terminal \in BOOLEAN
  /\ demoPc \in [Processes -> Places]
  /\ demoPc["parent"] \in ParentPlaces /\ \A c \in Children : demoPc[c] \in ChildPlaces
  /\ child \in [Children -> {"none", "running", "zombie", "reaped"}]
  /\ code \in [Children -> {-1, 0, 2, 3}]
  /\ demoBuffer \in [Processes -> Seq(Texts)] /\ screen \in Seq(Texts)

\* Where the parent is and what became of the children.
FamilyOK ==
  LET at == demoPc["parent"]
      there == {"running", "zombie"}
  IN  /\ at \in NoChild => \A c \in Children : child[c] = "none"
      /\ at \in FirstOnly => child["organize"] \in there /\ child["report"] = "none"
      /\ at \in BothThere => \A c \in Children : child[c] \in there
      /\ at \in FirstReaped => child["organize"] = "reaped" /\ child["report"] \in there
      /\ at \in BothReaped => \A c \in Children : child[c] = "reaped"
      /\ NoChildLeft
      /\ \A c \in Children :
           /\ demoPc[c] = "unborn" <=> child[c] = "none"
           /\ demoPc[c] = "ended" <=> child[c] \in {"zombie", "reaped"}

BuffersOK ==
  /\ terminal => \A p \in Processes : demoBuffer[p] = <<>>
  /\ demoReady => /\ \A c \in Children : demoBuffer[c] = <<>>
                  /\ demoPc["parent"] \notin {"announce", "returned"} => demoBuffer["parent"] = <<>>
  /\ demoPc["parent"] = "menu" => demoBuffer["parent"] = <<>>

SaidOK ==
  LET texts == screen \o demoBuffer["parent"]
  IN  /\ \A t \in said : t \in Texts /\ Rank[t[2]] < Rank[demoPc[t[1]]]
      /\ ToSet(texts) = said
      /\ \A i, j \in DOMAIN texts : texts[i] = texts[j] => i = j

DemoInvariant == DemoTypes /\ FamilyOK /\ BuffersOK /\ SaidOK
===============================================================================

-------------------------------- MODULE Session --------------------------------
(***************************************************************************)
(* The dialogue of the program: the menu of main.c with the commands that  *)
(* ask further questions (add, search and organise), on top of input.c and *)
(* read_line of utils.c.                                                   *)
(*                                                                         *)
(* The user may type ahead, and may close the input, also in the middle of *)
(* a line. A string and a number are read with buffers of the same size    *)
(* here: only the place of the cut matters.                                *)
(***************************************************************************)
EXTENDS TextLines

CONSTANTS
  BufferSize,  \* size of the buffer passed to read_line, with its NUL
  Lines,       \* the lines a user may type
  MenuRange,   \* the menu's range: MenuRange = {1, ..., its last entry}
  YearRange,   \* the range of years add accepts
  ChoiceRange, \* the range of the choices in search and organise
  Ahead        \* bound on the lines typed ahead

ASSUME SessionAssumption ==
  /\ BufferSize \in Nat /\ BufferSize >= 2 /\ Lines \subseteq Seq(Characters)
  /\ MenuRange \subseteq Nat /\ YearRange \subseteq Nat /\ ChoiceRange \subseteq Nat /\ Ahead \in Nat

VARIABLES
  asked,      \* the question that is being asked, or "exited"
  stdin,      \* characters typed and not yet read
  unanswered, \* history: lines typed, without those a read has answered
  closed      \* end of file

sessionVars == <<asked, stdin, unanswered, closed>>

SessionInit == asked = "menu" /\ stdin = <<>> /\ unanswered = <<>> /\ closed = FALSE

-------------------------------------------------------------------------------
(* read_line *)

FaultyBufferFull(length) == length = BufferSize
\* fgets stopped because the buffer was full.
BufferFull(length) == length = BufferSize - 1

\* What is left of stdin: without the rest of a line that did not fit.
AfterLine(s) ==
  LET taken == FgetsLength(s, BufferSize)
      rest == AfterFgets(s, BufferSize)
      newline == SelectInSeq(rest, LAMBDA c : c = "nl")
  IN  IF s[taken] # "nl" /\ BufferFull(taken)
      THEN IF newline = 0 THEN <<>> ELSE SubSeq(rest, newline + 1, Len(rest))
      ELSE rest

-------------------------------------------------------------------------------
(* The questions *)

\* The arguments min and max of input_int.
Ranges == [menu |-> MenuRange, year |-> YearRange, field |-> ChoiceRange, order |-> ChoiceRange]
IsNumeric(question) == question \in DOMAIN Ranges

\* input_string wants a text, input_int a number in the range.
Accepts(question, text) ==
  IF IsNumeric(question)
  THEN IsNumber(text) /\ ValueOfNumber(text) \in Ranges[question]
  ELSE text # <<>>

\* What a choice in the menu asks first; the other commands ask nothing.
Command(choice) ==
  CASE choice = 2 -> "title" [] choice = 3 -> "field" [] choice = 7 -> "order"
    [] choice = 12 -> "exited" [] OTHER -> "menu"

\* The questions of add and search.
FollowUp == [title |-> "author", author |-> "genre", genre |-> "year", field |-> "query"]

NextQuestion(question, text) ==
  CASE question = "menu" -> Command(ValueOfNumber(text))
    [] question \in DOMAIN FollowUp -> FollowUp[question]
    [] OTHER -> "menu"

FaultyOnEof(question) == "menu"
\* End of file: a command returns to the menu, the menu ends the program.
OnEof(question) == IF question = "menu" THEN "exited" ELSE "menu"

\* One read_line that finds something.
Consume ==
  /\ asked # "exited" /\ stdin # <<>>
  /\ stdin' = AfterLine(stdin) /\ unanswered' = Tail(unanswered)
  /\ UNCHANGED closed

\* The text the program makes of the line.
Text == Trim(LineOf(stdin, BufferSize))

Rejected ==
  /\ Consume /\ \E text \in {Text} : ~Accepts(asked, text)
  /\ UNCHANGED asked

Answered ==
  /\ Consume
  /\ \E text \in {Text} : Accepts(asked, text) /\ asked' = NextQuestion(asked, text)

EndOfFile ==
  /\ asked # "exited" /\ closed /\ stdin = <<>>
  /\ asked' = OnEof(asked)
  /\ UNCHANGED <<stdin, unanswered, closed>>

-------------------------------------------------------------------------------
(* The user *)

Type(line) ==
  /\ ~closed /\ asked # "exited" /\ Len(unanswered) < Ahead
  /\ stdin' = stdin \o line \o <<"nl">> /\ unanswered' = Append(unanswered, line)
  /\ UNCHANGED <<asked, closed>>

\* The last line may lack its newline.
CloseInput(line) ==
  /\ ~closed /\ asked # "exited"
  /\ closed' = TRUE /\ stdin' = stdin \o line
  /\ unanswered' = IF line = <<>> THEN unanswered ELSE Append(unanswered, line)
  /\ UNCHANGED asked

ProgramStep == Rejected \/ Answered \/ EndOfFile

SessionNext == ProgramStep \/ \E line \in Lines : Type(line) \/ CloseInput(line)

\* The program runs; the user need not type anything.
SessionSpec == SessionInit /\ [][SessionNext]_sessionVars /\ WF_sessionVars(ProgramStep)

-------------------------------------------------------------------------------
(***************************************************************************)
(* Properties                                                              *)
(***************************************************************************)
\* Every read consumes exactly one typed line, however long it is and
\* wherever the buffer ends: the next read starts fresh (utils.c:103-108,
\* tests/test_cases.md:160).
ReadsInStep ==
  \/ stdin = FlattenSeq([i \in DOMAIN unanswered |-> unanswered[i] \o <<"nl">>])
  \/ closed /\ stdin \o <<"nl">> = FlattenSeq([i \in DOMAIN unanswered |-> unanswered[i] \o <<"nl">>])

\* An answer is made of its own line: of what the buffer holds of it, all
\* but the white space around it, and never nothing.
AnswerIsTrimmedLine ==
  [][Answered =>
       \E i, j \in 1 .. BufferSize - 1 :
         /\ {i, j} \subseteq DOMAIN unanswered[1] /\ Text = SubSeq(unanswered[1], i, j)
         /\ unanswered[1][i] # " " /\ unanswered[1][j] # " "
         /\ \A k \in DOMAIN unanswered[1] \ (i .. j) : k < BufferSize => unanswered[1][k] = " "]_sessionVars

\* After the end of the input the program ends, wherever the dialogue was.
EofEnds == closed ~> asked = "exited"
===============================================================================

------------------------------- MODULE Migrate --------------------------------
(***************************************************************************)
(* The migration program migrate.c: it reads a text file line by line into *)
(* an inventory, numbering the books it takes, and saves the inventory to  *)
(* the database in the place of what was there, unless it runs dry. The    *)
(* text file is one made by hand, or the one that the program of TextFile  *)
(* left when it stopped.                                                   *)
(*                                                                         *)
(* The save is the one of storage_sqlite.c; SqliteStore shows it atomic.   *)
(* Opening and reading the input, opening the database and saving to it    *)
(* may fail, and the program may be killed. A book keeps its number, the   *)
(* place of a book in the inventory is left out.                           *)
(***************************************************************************)
EXTENDS TextFile

CONSTANTS
  Inputs,     \* the files made by hand
  LineBuffer, \* size of the line buffer of migrate.c, larger than that of a load
  OldRows,    \* what the database holds at first: a sequence of numbered books
  MaxYear     \* 9999

ASSUME MigrateAssumption ==
  /\ MaxYear \in Nat /\ LineBuffer \in Nat /\ LineBuffer >= MaxLine
  /\ Inputs \subseteq Seq(Characters \cup {"nl"})

VARIABLES
  dryRun,     \* the option
  input,      \* the text of the input file
  step,       \* "idle" before the start, "open", "reading", "report", "done"
  unread,     \* what fgets has still to read
  inventory,  \* the books taken
  imported, skipped,   \* the two counters
  db,         \* the rows of the database, by number
  status,     \* the exit status, "none" before the end
  readError   \* history: fgets stopped at an error

migrateVars == <<dryRun, input, step, unread, inventory, imported, skipped, db, status, readError>>
reading == <<unread, inventory, imported, skipped, readError>>

Init ==
  /\ FileInit
  /\ \/ step = "open" /\ input \in Inputs /\ dryRun \in BOOLEAN
     \/ step = "idle" /\ input = <<>> /\ dryRun = FALSE
  /\ unread = <<>> /\ inventory = <<>> /\ imported = 0 /\ skipped = 0
  /\ db = OldRows /\ status = "none" /\ readError = FALSE

ExitWith(code) == step' = "done" /\ status' = code /\ UNCHANGED <<dryRun, input>>

-------------------------------------------------------------------------------
(* Reading *)

\* The program of TextFile is not running: its file is migrated.
Start ==
  /\ step = "idle" /\ pc = "closed" /\ books = <<>> /\ file # <<>>
  /\ step' = "open" /\ input' = file /\ dryRun' \in BOOLEAN
  /\ UNCHANGED <<reading, db, status>>

OpenInput ==
  /\ step = "open" /\ step' = "reading" /\ unread' = input
  /\ UNCHANGED <<dryRun, input, inventory, imported, skipped, db, status, readError>>

\* No input file, or no inventory.
OpenFails == step = "open" /\ ExitWith("failure") /\ UNCHANGED <<reading, db>>

FaultyIsData(line) == line # <<>>
IsData(line) == line # <<>> /\ line[1] # "#"

\* Four tokens, the last of which is a year and nothing else.
Parses(line) ==
  /\ Len(Tokens(line)) >= 4
  /\ IsNumber(Tokens(line)[4]) /\ ValueOfNumber(Tokens(line)[4]) <= MaxYear

\* next_id, which moves on only with an import.
NextNumber == imported + 1

\* The texts are not trimmed; the import cuts them.
ParsedBook(line) ==
  LET t == Tokens(line)
  IN  [id |-> NextNumber, title |-> Cut(t[1]), author |-> Cut(t[2]), genre |-> Cut(t[3]),
       year |-> ValueOfNumber(t[4])]

\* The number is new: only a full inventory refuses the book.
Taken(line) == Parses(line) /\ Len(inventory) < MaxBooks

\* The next line that fgets delivers.
Line == LineOf(unread, LineBuffer)
ReadLine ==
  /\ step = "reading" /\ unread # <<>> /\ unread' = AfterFgets(unread, LineBuffer)
  /\ UNCHANGED <<dryRun, input, step, db, status, readError>>

PassOver == ReadLine /\ ~IsData(Line) /\ UNCHANGED <<inventory, imported, skipped>>

Skip ==
  /\ ReadLine /\ IsData(Line) /\ ~Taken(Line)
  /\ skipped' = skipped + 1 /\ UNCHANGED <<inventory, imported>>

Import ==
  /\ ReadLine /\ IsData(Line) /\ Taken(Line)
  /\ inventory' = Append(inventory, ParsedBook(Line)) /\ imported' = imported + 1
  /\ UNCHANGED skipped

EndOfInput ==
  /\ step = "reading" /\ unread = <<>> /\ step' = "report"
  /\ UNCHANGED <<dryRun, input, reading, db, status>>

\* To the loop an error is the end of the file.
ReadFails ==
  /\ step = "reading" /\ unread # <<>> /\ readError' = TRUE /\ step' = "report"
  /\ UNCHANGED <<dryRun, input, unread, inventory, imported, skipped, db, status>>

-------------------------------------------------------------------------------
(* The end *)

FaultyExitStatus == "success"
ExitStatus == IF skipped = 0 THEN "success" ELSE "failure"

DryRun == step = "report" /\ dryRun /\ ExitWith(ExitStatus) /\ UNCHANGED <<reading, db>>

\* bs_sqlite_open, bs_sqlite_initialize and bs_sqlite_save.
Save ==
  /\ step = "report" /\ ~dryRun
  /\ db' = inventory /\ ExitWith(ExitStatus) /\ UNCHANGED reading

SaveFails == step = "report" /\ ~dryRun /\ ExitWith("failure") /\ UNCHANGED <<reading, db>>

Killed == step # "done" /\ ExitWith("killed") /\ UNCHANGED <<reading, db>>

MigrateNext ==
  \/ Start \/ OpenInput \/ OpenFails \/ PassOver \/ Skip \/ Import \/ EndOfInput \/ ReadFails
  \/ DryRun \/ Save \/ SaveFails \/ Killed

Next ==
  \/ step = "idle" /\ FileNext /\ UNCHANGED migrateVars
  \/ MigrateNext /\ UNCHANGED fileVars

Spec == Init /\ [][Next]_<<fileVars, migrateVars>>

-------------------------------------------------------------------------------
(***************************************************************************)
(* Properties                                                              *)
(***************************************************************************)
\* The lines fgets makes of a text.
LinesOf(text) ==
  LET lines[s \in Suffixes(text)] ==
        IF s = <<>> THEN <<>>
        ELSE <<LineOf(s, LineBuffer)>> \o lines[AfterFgets(s, LineBuffer)]
  IN  lines[text]

\* The lines that are not blank, nor a comment, by their place.
DataLines(text) == LET lines == LinesOf(text) IN {k \in DOMAIN lines : IsData(lines[k])}
Replaced == step = "done" /\ db # OldRows
\* Lines that a load reads in one piece, of texts that fit their fields.
FitsBuffers(text) ==
  \A line \in ToSet(LinesOf(text)) :
    Len(line) + 2 <= MaxLine /\ \A token \in ToSet(Tokens(line)) : Len(token) <= MaxField
Tidy(b) == [title |-> Trim(b.title), author |-> Trim(b.author), genre |-> Trim(b.genre),
            year |-> b.year]

\* When the program reports success and read the file to its end, the database
\* holds a book for each line of the file that is not blank or a comment (the
\* status of migrate.c:129).
SuccessIsComplete ==
  status = "success" /\ ~dryRun /\ ~readError =>
    Len(db) = Cardinality(DataLines(input))

\* A book as a row of the database.
Numbered(number, b) ==
  [id |-> number, title |-> b.title, author |-> b.author, genre |-> b.genre, year |-> b.year]

\* A file that holds the save of an inventory of clean books, none of a later
\* year, migrates without loss and without complaint: the two formats agree.
SavedFileMigrates ==
  LET loaded == BooksIn(input)
  IN  /\ input = SavedText(loaded) /\ Len(loaded) <= MaxBooks /\ ~readError
      /\ \A i \in DOMAIN loaded : Clean(loaded[i]) /\ loaded[i].year <= MaxYear
      => /\ skipped = 0
         /\ Replaced => db = [i \in DOMAIN loaded |-> Numbered(i, loaded[i])]

\* The books a migration stores are numbered from 1 without a gap, also where
\* lines were refused in between, and each is, but for white space, the book
\* that a load makes of its line, in the same order (a text that fits its field
\* only with its white space trimmed is cut apart). A load of the whole file
\* takes them too, as long as the array has room: a line that the migration
\* refused may have taken a place of it, so the load may stop short of as many
\* books as lines were refused.
MigratesWhatLoads ==
  LET tidy == [i \in DOMAIN db |-> Tidy(db[i])]
  IN  Replaced /\ FitsBuffers(input) =>
        /\ \A i \in DOMAIN db : db[i].id = i
        /\ FoundIn(DOMAIN db, tidy, BooksIn(input))
        /\ FoundIn({i \in DOMAIN db : i + skipped <= MaxBooks}, tidy, Loaded(input))
===============================================================================

------------------------------- MODULE TextFile -------------------------------
(***************************************************************************)
(* The text file of an inventory: inventory_save and inventory_load behind *)
(* the file adapter of storage.c.                                          *)
(*                                                                         *)
(* A save truncates the file, locks the inventory to write it through a    *)
(* stdio buffer, unlocks it and flushes the buffer. The file holds a       *)
(* growing prefix of the text; the disk may be full and the program may    *)
(* stop at any point. One thread saves and loads; others may add a book    *)
(* before the lock is taken and after it is given up.                      *)
(***************************************************************************)
EXTENDS TextFormat

CONSTANTS
  Catalogue,   \* the books a caller may add
  MaxBooks     \* MAX_BOOKS

ASSUME TextFileAssumption ==
  /\ \A d \in Catalogue : {d.title, d.author, d.genre} \subseteq Seq(Characters) /\ d.year \in Nat
  /\ MaxBooks \in Nat \ {0}

VARIABLES
  pc,        \* the storage is "closed" or "open", or where a save is
  books,     \* the inventory of the program
  file,      \* the file; empty when there is none
  pending,   \* the text a save has still to write
  saved      \* history: the books of the last save

fileVars == <<pc, books, file, pending, saved>>

FileInit == pc = "closed" /\ books = <<>> /\ file = <<>> /\ pending = <<>> /\ saved = <<>>

-------------------------------------------------------------------------------
(* The program *)

OpenStorage == pc = "closed" /\ pc' = "open" /\ UNCHANGED <<books, file, pending, saved>>

CloseStorage == pc = "open" /\ pc' = "closed" /\ UNCHANGED <<books, file, pending, saved>>

Add(d) ==
  /\ pc # "saving" /\ Len(books) < MaxBooks
  /\ books' = Append(books, Stored(d))
  /\ UNCHANGED <<pc, file, pending, saved>>

\* An add to a full array is refused.
Fitting(s) == IF Len(s) > MaxBooks THEN SubSeq(s, 1, MaxBooks) ELSE s

\* The books of the file are added to those of the inventory, as many as fit.
Load ==
  /\ pc = "open" /\ file # <<>>
  /\ books' = Fitting(books \o BooksIn(file))
  /\ UNCHANGED <<pc, file, pending, saved>>

\* fopen(path, "w"), before the lock; the new stream holds nothing yet.
BeginSave ==
  /\ pc = "open" /\ pc' = "truncated" /\ file' = <<>> /\ pending' = <<>>
  /\ UNCHANGED <<books, saved>>

\* The books are printed while the inventory is locked.
LockForSave ==
  /\ pc = "truncated" /\ pc' = "saving"
  /\ pending' = SavedText(books) /\ saved' = books
  /\ UNCHANGED <<books, file>>

\* The error is returned, the file is empty.
LockFails == pc = "truncated" /\ pc' = "open" /\ UNCHANGED <<books, file, pending, saved>>

\* What stdio has not passed on is left to fclose.
Unlock == pc = "saving" /\ pc' = "flushing" /\ UNCHANGED <<books, file, pending, saved>>

\* stdio passes on some of the text: a character, and as many in a row as it
\* likes.
WriteOut ==
  /\ pc \in {"saving", "flushing"} /\ pending # <<>>
  /\ file' = Append(file, Head(pending)) /\ pending' = Tail(pending)
  /\ UNCHANGED <<pc, books, saved>>

\* The disk stays full: what is left is dropped and nobody looks.
DiskFull ==
  /\ pc \in {"saving", "flushing"} /\ pending # <<>> /\ pending' = <<>>
  /\ UNCHANGED <<pc, books, file, saved>>

SaveReturns ==
  /\ pc = "flushing" /\ pending = <<>> /\ pc' = "open"
  /\ UNCHANGED <<books, file, pending, saved>>

\* The program stops, in a save or elsewhere; it may be started again.
Stop ==
  /\ pc' = "closed" /\ books' = <<>> /\ pending' = <<>>
  /\ UNCHANGED <<file, saved>>

FileNext ==
  \/ OpenStorage \/ CloseStorage \/ Load \/ Stop
  \/ BeginSave \/ LockForSave \/ LockFails \/ WriteOut \/ DiskFull \/ Unlock \/ SaveReturns
  \/ \E d \in Catalogue : Add(d)

-------------------------------------------------------------------------------
(***************************************************************************)
(* Properties                                                              *)
(***************************************************************************)
\* What a load makes of a text in an empty inventory, that of a program just
\* started: the array's end stops it.
Loaded(text) == Fitting(BooksIn(text))

Complete == file = SavedText(saved)

\* The elements of s at the given places are found in t, in the same order.
FoundIn(places, s, t) ==
  \E at \in [places -> DOMAIN t] :
    /\ \A i \in places : t[at[i]] = s[i]
    /\ \A i, j \in places : i < j => at[i] < at[j]

\* After a complete save whose lines fit the buffer the next launch loads every
\* clean book as it was and in its order, whatever the books between them do to
\* their own lines: none of them takes more than its own place in the array.
CleanBooksSurvive ==
  Complete /\ (\A i \in DOMAIN saved : FitsLineBuffer(saved[i])) =>
    FoundIn({i \in DOMAIN saved : Clean(saved[i])}, saved, Loaded(file))

\* What is left of the digits of a year when some at its end are lost.
LostDigits(year, whole) ==
  \E n \in 0 .. Len(Decimal(whole)) : year = ValueOf(SubSeq(Decimal(whole), 1, n))

\* A save that stopped half way, with the program or on a full disk (the code
\* reports success), leaves a file whose books are the first ones of the save.
\* The last of them may have lost digits of its year and nothing else; no book
\* is mixed up from two.
TornSaveLoadsPrefix ==
  LET torn == Loaded(file)
      whole == Loaded(SavedText(saved))
  IN  /\ Len(torn) <= Len(whole)
      /\ \A i \in 1 .. Len(torn) - 1 : torn[i] = whole[i]
      /\ torn # <<>> =>
           LET last == torn[Len(torn)]
               entire == whole[Len(torn)]
           IN  last = [entire EXCEPT !.year = last.year] /\ LostDigits(last.year, entire.year)
===============================================================================

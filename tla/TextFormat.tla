------------------------------ MODULE TextFormat ------------------------------
(***************************************************************************)
(* Books as lines of text, title|author|genre|year, and back: what         *)
(* inventory_save writes and what inventory_load makes of a file.          *)
(***************************************************************************)
EXTENDS TextLines

CONSTANTS
  MaxField,    \* room for the text of a field: MAX_TITLE_LEN - 1, ...
  MaxLine      \* size of the line buffer of inventory_load: MAX_LINE_LEN

\* safe_strcpy into a field.
Cut(text) == IF Len(text) > MaxField THEN SubSeq(text, 1, MaxField) ELSE text

\* The book the array gets from the arguments of an add.
Stored(d) == [title |-> Cut(d.title), author |-> Cut(d.author), genre |-> Cut(d.genre),
              year |-> d.year]

LineFor(b) == b.title \o <<"|">> \o b.author \o <<"|">> \o b.genre \o <<"|">> \o Decimal(b.year)

Header == <<"#", "a", "nl">>

\* The buffer has room for the header and the NUL.
ASSUME FormatAssumption == MaxField \in Nat \ {0} /\ MaxLine \in Nat /\ Len(Header) < MaxLine

SavedText(s) == Header \o FlattenSeq([i \in DOMAIN s |-> LineFor(s[i]) \o <<"nl">>])

FaultyComment(line) == Contains(line, "#")
Comment(line) == line[1] = "#"

FaultyEnough(tokens) == Len(tokens) >= 3
\* Title, author, genre and year are there; more tokens are ignored.
Enough(tokens) == Len(tokens) >= 4

Loadable(line) == line # <<>> /\ ~Comment(line) /\ Enough(Tokens(line))

BookFrom(line) ==
  LET t == [k \in 1 .. 4 |-> IF k <= Len(Tokens(line)) THEN Trim(Tokens(line)[k]) ELSE <<>>]
  IN  Stored([title |-> t[1], author |-> t[2], genre |-> t[3], year |-> Atoi(t[4])])

\* The books of a text: one for each line that makes one.
BooksIn(text) ==
  LET loaded[s \in Suffixes(text)] ==
        IF s = <<>> THEN <<>>
        ELSE LET line == LineOf(s, MaxLine)
             IN  (IF Loadable(line) THEN <<BookFrom(line)>> ELSE <<>>) \o loaded[AfterFgets(s, MaxLine)]
  IN  loaded[text]

\* The buffer has room for the line with its newline and the NUL (every book of
\* the array has such a line: 283 characters at most, in a buffer of 512).
FitsLineBuffer(b) == Len(LineFor(b)) + 2 <= MaxLine

\* A book whose text the format can carry: its line fits the buffer and falls
\* apart into the texts of the book.
Clean(b) ==
  /\ FitsLineBuffer(b)
  /\ b.title # <<>> /\ b.title[1] # "#"
  /\ \A text \in {b.title, b.author, b.genre} :
       text # <<>> /\ ~Contains(text, "|") /\ Trim(text) = text
===============================================================================

------------------------------- MODULE MCMigrate -------------------------------
(* Small text files, by the program and by hand, for TLC. *)
EXTENDS Migrate

LOCAL B(title, year) == [title |-> title, author |-> <<"a">>, genre |-> <<"a", "1">>, year |-> year]

\* Two clean titles, one with the comment sign in it and a year later than
\* MaxYear; a title that begins with the sign; one with the separator.
MCCatalogue == {B(<<"a", "#">>, 31), B(<<"a">>, 2), B(<<"#">>, 31), B(<<"a", "|", "1">>, 20)}

\* A saved line; one with white space around its texts; one of too late a year;
\* one whose year ends in white space (or a carriage return); one without a
\* year; a fifth token; a comment that would parse; an empty line; a blank one;
\* one that is read in two pieces, each of which makes a book.
MCLines ==
  {<<"a", "|", "a", "|", "a", "|", "3">>, <<"a", " ", "|", " ", "a", "|", "a", "|", " ", "2">>,
   <<"a", "|", "a", "|", "a", "|", "3", "1">>, <<"1", "|", "a", "|", "a", "|", "3", " ">>,
   <<"a", "|", "|", "a", "|", "3">>, <<"a", "|", "a", "1", "|", "a", "|", "1", "|", "a">>,
   <<"#", "|", "a", "|", "a", "|", "1">>, <<>>, <<" ">>,
   <<"a", "|", "a", "|", "a", "|", "3", "|", "a", "|", "a", "|", "a",
     "a", "|", "a", "|", "1", "|", "2">>}

\* Files of up to three of the lines.
LOCAL TextOf(lines) == FlattenSeq([i \in DOMAIN lines |-> lines[i] \o <<"nl">>])
MCInputs == {TextOf(lines) : lines \in UNION {[1 .. n -> MCLines] : n \in 0 .. 3}}

MCOldRows == <<[id |-> 7, title |-> <<"2">>, author |-> <<"2">>, genre |-> <<"2">>, year |-> 2]>>
===============================================================================

------------------------------- MODULE MCSession -------------------------------
(* Lines around a buffer that holds three characters. *)
EXTENDS Session

\* The empty line and a blank one; the choices 1, 2 (add), 3 (search), 7
\* (organise) and 12 (exit); a text and a number with white space around;
\* lines that fill the buffer, are one longer, and carry on after it; a number
\* too large; a number cut short.
MCLines == {<<>>, <<" ">>, <<"1">>, <<"2">>, <<"7">>, <<"1", "2">>, <<" ", "a", " ">>, <<"3", " ">>,
            <<"a", " ", "a">>, <<"1", "2", "a">>, <<"2", " ", " ", "a">>,
            <<" ", " ", " ", "2">>, <<"a", "a", "a", "1", "2">>}

MCMenuRange == 1 .. 12
MCYearRange == 0 .. 30
MCChoiceRange == 1 .. 3
===============================================================================

-------------------------- MODULE MCOrganizePipeline --------------------------
(* A small instance of the organisation pipeline for TLC. *)
EXTENDS OrganizePipeline

\* What a user may enter.
MCCatalogue == {[title |-> 1, genre |-> 2, year |-> 1]}

\* A checked-out book with an id of its own: before the other by title and
\* genre, behind it by year.
MCForeign == {[id |-> 2, title |-> 0, genre |-> 1, year |-> 2, shelf |-> 1, position |-> 2,
               status |-> 1]}
===============================================================================

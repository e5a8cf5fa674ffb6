---------------------------- MODULE MCInsertionSort ----------------------------
(* All arrays of up to MaxLength books made of two titles, genres and years. *)
EXTENDS InsertionSort

CONSTANT MaxLength

\* The place in the input is the id, so that equal keys can be told apart.
Copies(n) == [1 .. n -> [title : {1, 2}, other : {1, 2}]]
MCInputs ==
  UNION {{[k \in 1 .. n |-> [id |-> k, title |-> c[k].title, genre |-> c[k].other,
                             year |-> 3 - c[k].other, shelf |-> -1, position |-> -1,
                             status |-> 0]] : c \in Copies(n)} : n \in 0 .. MaxLength}
===============================================================================

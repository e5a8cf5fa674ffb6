------------------------------ MODULE MCInventory ------------------------------
(* Small instances of the inventory for TLC. *)
EXTENDS Inventory

\* Three books whose orders by title, genre and year differ, with a tie in
\* each; the third and the first have the same title.
MCCatalogue == {[title |-> 1, genre |-> 2, year |-> 1],
                [title |-> 2, genre |-> 1, year |-> 1],
                [title |-> 1, genre |-> 1, year |-> 0]}

\* Imported books: ids that add uses too, one far from them, a checked-out one.
MCForeign == {[id |-> 2, title |-> 0, genre |-> 1, year |-> 1, shelf |-> 1, position |-> 2, status |-> 1],
              [id |-> 9, title |-> 3, genre |-> 0, year |-> 1, shelf |-> -1, position |-> -1, status |-> 0]}
===============================================================================

---------------------------- MODULE MCSqliteStore -----------------------------
(* Small instances of the database sessions for TLC. *)
EXTENDS SqliteStore, TLC

MCCatalogue == {[title |-> 0, genre |-> 1, year |-> 2]}

Stored(id, title, shelf, position) ==
  [id |-> id, title |-> title, genre |-> 1, year |-> 1, shelf |-> shelf, position |-> position,
   status |-> 0]

\* A new database, and one with two books whose first id is free.
MCInitialDbs == {{}, {Stored(2, 2, 1, 1), Stored(3, 1, -1, -1)}}

ProcSymmetry == Permutations(Procs)
===============================================================================

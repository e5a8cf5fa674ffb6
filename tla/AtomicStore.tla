------------------------------ MODULE AtomicStore ------------------------------
(***************************************************************************)
(* What the repository promises the program: a process that has started    *)
(* holds what the database held, a save replaces the whole contents of the *)
(* database at once, and nothing else changes it; a process that stops,    *)
(* for whatever reason, takes only its own memory with it.                 *)
(***************************************************************************)
EXTENDS Books, SequencesExt

CONSTANT Procs   \* the processes that use the database file

VARIABLES
  db,       \* the rows of table books
  mem,      \* the inventory of each process
  up        \* the processes that have loaded their inventory

vars == <<db, mem, up>>

Rows(s) == ToSet(s)

\* The rows in the order of their ids.
ById(rows) == CHOOSE s \in [1 .. Cardinality(rows) -> rows] :
                \A k, l \in DOMAIN s : k < l => s[k].id < s[l].id

Init == mem = [p \in Procs |-> <<>>] /\ up = {}

Start(p) ==
  /\ p \notin up /\ up' = up \cup {p}
  /\ mem' = [mem EXCEPT ![p] = ById(db)]
  /\ UNCHANGED db

\* What the user does to the books of a session: none is taken away.
Edit(p) ==
  /\ p \in up
  /\ mem' = [mem EXCEPT ![p] = mem'[p]]
  /\ UniqueIds(mem'[p]) /\ Identities(mem[p]) \subseteq Identities(mem'[p])
  /\ UNCHANGED <<db, up>>

Save(p) == p \in up /\ db' = Rows(mem[p]) /\ UNCHANGED <<mem, up>>

Stop(p) ==
  /\ p \in up /\ up' = up \ {p}
  /\ mem' = [mem EXCEPT ![p] = <<>>]
  /\ UNCHANGED db

Next == \E p \in Procs : Start(p) \/ Edit(p) \/ Save(p) \/ Stop(p)

Spec == Init /\ [][Next]_vars
===============================================================================

\* Two processes on the same file, restarted after exits, failures and crashes.
SPECIFICATION Spec
CONSTANTS
  MaxBooks = 3
  ShelfCapacity = 2
  MaxShelves = 1
  Procs = {p1, p2}
  NoProc = NoProc
  Catalogue <- MCCatalogue
  InitialDbs <- MCInitialDbs
SYMMETRY ProcSymmetry
INVARIANTS
  PlacesDistinct
  NoTransactionLeftOpen
  KeyNeverViolated
PROPERTIES
  NoKnownBookLost
  ImplementsAtomicStore

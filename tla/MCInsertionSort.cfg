\* Arrays of up to five books, with ties in every order.
SPECIFICATION Spec
CONSTANTS
  MaxBooks = 5
  ShelfCapacity = 2
  MaxShelves = 2
  MaxLength = 5
  Inputs <- MCInputs
INVARIANTS
  SortsStably

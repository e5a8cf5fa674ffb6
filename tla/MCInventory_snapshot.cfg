\* What the project report says of the sort tasks' copies, for one clone and
\* any writer.
SPECIFICATION Spec
CONSTANTS
  MaxBooks = 3
  ShelfCapacity = 2
  MaxShelves = 1
  Cloners = {t1}
  Catalogue <- MCCatalogue
  Foreign <- MCForeign
  MaxWrites = 4
INVARIANTS
  CloneIsSnapshot

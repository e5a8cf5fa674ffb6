\* One clone at a time among up to four mutating calls.
SPECIFICATION Spec
CONSTANTS
  MaxBooks = 3
  ShelfCapacity = 2
  MaxShelves = 1
  Cloners = {t1}
  Catalogue <- MCCatalogue
  Foreign <- MCForeign
  MaxWrites = 4
INVARIANTS
  TypeOK
  IdsUnique
  CopiedFromSource
  QuietCloneExact
PROPERTIES
  NoBookLost

\* Saves of up to two books, interrupted at every character, and their
\* migration; migrations of files of up to three lines, with room for two books.
SPECIFICATION Spec
CONSTANTS
  Catalogue <- MCCatalogue
  MaxField = 2
  MaxLine = 12
  LineBuffer = 14
  MaxYear = 30
  MaxBooks = 2
  Inputs <- MCInputs
  OldRows <- MCOldRows
INVARIANTS
  CleanBooksSurvive
  TornSaveLoadsPrefix
  SuccessIsComplete
  SavedFileMigrates
  MigratesWhatLoads
CHECK_DEADLOCK FALSE

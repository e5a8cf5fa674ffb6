SPECIFICATION CaseSpec
CONSTANTS
  Chars = {"a", "A", "b"}
  Lower <- MCLower
  Texts <- MCTexts
INVARIANTS
  ComparesAlphabetically
  FindsOccurrence
  ReadsInside

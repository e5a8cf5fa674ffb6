\* Up to two lines typed ahead, the end of the input at every place.
SPECIFICATION SessionSpec
CONSTANTS
  BufferSize = 4
  Lines <- MCLines
  MenuRange <- MCMenuRange
  YearRange <- MCYearRange
  ChoiceRange <- MCChoiceRange
  Ahead = 2
INVARIANTS
  ReadsInStep
PROPERTIES
  EofEnds
  AnswerIsTrimmedLine
CHECK_DEADLOCK FALSE

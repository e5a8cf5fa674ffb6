\* Logger ready or not, stdout a terminal or not, forks that fail, children that
\* are killed.
SPECIFICATION DemoSpec
INVARIANTS
  OutputOnce
  NoChildLeft
PROPERTIES
  DemoReturns
CHECK_DEADLOCK FALSE

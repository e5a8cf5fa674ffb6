\* Three threads of three iterations each, with and without the mutex.
SPECIFICATION Spec
CONSTANTS
  ThreadCount = 3
  Iterations = 3
INVARIANTS
  MutexTotal
  NoneInvented
  TotalInRange
CHECK_DEADLOCK FALSE

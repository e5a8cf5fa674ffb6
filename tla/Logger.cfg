\* Three threads, as many as the pipeline has, two events each; the process
\* may be killed at any moment.
SPECIFICATION LogSpec
CONSTANTS
  LogThreads = {t1, t2, t3}
  Events = 2
INVARIANTS
  EventsWhole
  FileFollowsScreen
  ReturnedIsVisible
CHECK_DEADLOCK FALSE

\* Two submitters for a ring of two slots: both can be blocked at once, and
\* head and tail wrap around with jobs in it; two workers for four jobs.
SPECIFICATION FairSpec
CONSTANTS
  Workers = {w1, w2}
  Clients = {c1, c2}
  Jobs = {j1, j2, j3, j4}
  QueueCapacity = 2
  NoJob = NoJob
INVARIANTS
  NoLostWakeup
  ExactlyOnce
  NoWorkerOutlivesPool
PROPERTIES
  CallsReturn
  ImplementsExecutor

\* Two workers and a queue of one, so that tasks run at the same time and the
\* main thread can block in submit; other threads may write. The two books
\* are in the same order by genre as by title.
SPECIFICATION FairSpec
CONSTANTS
  MaxBooks = 2
  ShelfCapacity = 1
  MaxShelves = 1
  Catalogue <- MCCatalogue
  Foreign <- MCForeign
  MaxWrites = 5
  NumWorkers = 2
  QueueSize = 1
  FinalOrders = {"title", "year"}
INVARIANTS
  ResultHolds
  TasksAgree
  NothingLeft
PROPERTIES
  PipelineReturns

\* Two tasks whose handles may be shared, so that a task may wait for or cancel
\* itself, its owner or its own waiter.
CONSTANTS
  MaxTasks = 2
  SharedHandles = TRUE
SPECIFICATION FairSpec
INVARIANTS
  OneObserver
  OneShot
  DetachedReported
  OwnersComplete
PROPERTIES
  LateAnswersIgnored
  RunEnds
  QueuedIsPolled
\* A run that has settled, and a run whose tasks wait for each other or for a
\* promise that stays pending, stop.
CHECK_DEADLOCK FALSE

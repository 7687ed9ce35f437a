\* Three tasks that know the handles they have spawned or were spawned with.
CONSTANTS
  MaxTasks = 3
  SharedHandles = FALSE
SPECIFICATION Spec
INVARIANTS
  FailureKept
  DoneMeansDone
\* A run that has settled, and a run whose tasks wait for each other or for a
\* promise that stays pending, stop.
CHECK_DEADLOCK FALSE

\* A root and a task that may have its own handle: it cancels itself, its owner
\* ends with a value, and it fails.
CONSTANTS
  MaxTasks = 2
  SharedHandles = TRUE
SPECIFICATION Spec
INVARIANT
  FailureKept
CHECK_DEADLOCK FALSE

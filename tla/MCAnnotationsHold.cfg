\* Programs with generic functions and without callbacks.
CONSTANTS
  async = async
  log = log
  Op = {async, log}
  Programs <- GenericPrograms
SPECIFICATION Spec
INVARIANT AnnotationsHold
CHECK_DEADLOCK FALSE

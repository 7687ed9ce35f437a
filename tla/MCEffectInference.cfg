\* Two operations; programs of up to three functions.
CONSTANTS
  async = async
  log = log
  Op = {async, log}
  Programs <- AllPrograms
SPECIFICATION FairSpec
INVARIANTS
  RowsSolve
  VerdictRight
  CallbacksCovered
PROPERTIES
  InferenceEnds
\* Compilation ends.
CHECK_DEADLOCK FALSE

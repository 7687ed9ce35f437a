\* A project of one module, two package configurations and two requests.
CONSTANTS
  main = main
  util = util
  File <- OneFile
  Dependents <- Alone
  Context = {p1, p2}
  Request = {q1, q2}
  MaxIncrementalRuns = 1
  Text = {t1, t2}
  Kind = {"core"}
  MaxRevision = 2
SPECIFICATION FairSpec
INVARIANTS
  TypeOK
  HistoryKept
  CoreAnswersFresh
PROPERTIES
  RequestsAnswered
\* A coordinator nobody asks and nobody edits is at rest.
CHECK_DEADLOCK FALSE

\* Three runs and a budget of two steps: a tick can end with work left over.
CONSTANTS
  Run = {r1, r2, r3}
  Budget = 2
SPECIFICATION FairSpec
INVARIANTS
  OneToken
  WorkHasPump
  SettledOnce
PROPERTIES
  NoOvertaking
  ContractSpec
  ContractServed
\* Once every run has settled and the pump is off nothing is left to do.
CHECK_DEADLOCK FALSE

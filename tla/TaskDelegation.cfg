SPECIFICATION FairSpec
CONSTANTS
  Target <- MCTarget
  Executor = {e1}
  MaxTasks = 2
  MaxJobs = 1
  MaxRequests = 2
  MaxResolves = 1
  MaxFaults = 1
INVARIANTS
  TypeOK
  StoresAgree
  LosersSettled
PROPERTIES
  Settles
\* Once every task is settled and no signal comes, nothing is left to do.
CHECK_DEADLOCK FALSE

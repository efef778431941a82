CONSTANTS
  Source <- MCSource
  TypeOf <- MCTypeOf
  About <- MCAbout
  Pooled = "svc"
  Reading <- MCReading
  Deployments <- MCDeployments
  Entity <- MCEntity
  Prefix <- MCPrefix
  Monitor = "monitor"
  TopN = 3
  KeepsFor = 2
  MaxArrivals = 2
  MaxFaults = 1
SPECIFICATION Spec
INVARIANTS
  TypeOK
  ReportStands
  ProblemIsOpen
  RecoveryClears
  EverySourcePolled
  
  EachSignalled
\* What has arrived may be done with, and a log that cannot be decoded never is.
CHECK_DEADLOCK FALSE

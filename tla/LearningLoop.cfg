SPECIFICATION Spec
CONSTANTS
  queuePlanner = queuePlanner
  dec1 = dec1
  dec2 = dec2
  scalePlaybook = scalePlaybook
  Decision <- MCDecision
  Action <- MCAction
  Playbook <- MCPlaybook
  Recommended <- MCRecommended
  Anomaly <- MCAnomaly
  AtFirst <- MCAtFirst
  MaxChanges = 1
  MaxLive = 2
  MaxSteps = 2
  MaxFaults = 1
  Planner <- MCPlanner
  DomainOf <- MCDomainOf
  Keyword <- MCKeyword
  StepsOf <- MCStepsOf
  Advice <- MCAdvice
  Gated <- MCGated
INVARIANTS
  TypeOK
  EvidenceAgrees
  OutcomeIsSearchable
  SuccessIsRelief
  DecidedForAsker
  CyclesGoOn
PROPERTIES
  LedgerKept
  LearnsFromFailure
\* every decision may have been made, and every plan have ended
CHECK_DEADLOCK FALSE

SPECIFICATION Spec
CONSTANTS
  Plans <- ChainPlans
  Appendable <- MCAppendable
  Run = {r1}
  MaxCalls = 1
  MaxFaults = 0
PROPERTY AbortStands
CHECK_DEADLOCK FALSE

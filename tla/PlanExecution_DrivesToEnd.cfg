SPECIFICATION Spec
CONSTANTS
  Plans <- ChainPlans
  Appendable <- MCAppendable
  Run = {r1}
  MaxCalls = 0
  MaxFaults = 0
INVARIANT DrivesToEnd
CHECK_DEADLOCK FALSE

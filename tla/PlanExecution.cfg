SPECIFICATION FairSpec
CONSTANTS
  Plans <- AllPlans
  Appendable <- MCAppendable
  Run = {r1}
  MaxCalls = 2
  MaxFaults = 1
INVARIANTS
  TypeOK
  GateRespected
  StoreAgrees
  PublishedOutcomeIsFinal
  LeftOpenOnlyBehind
PROPERTIES
  HaltsOnFailure
  OnlyStaleWritesUndo
  RunEnds
  RunsInSequence
\* every run may be over and every call made
CHECK_DEADLOCK FALSE

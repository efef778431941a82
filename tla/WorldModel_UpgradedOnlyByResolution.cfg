SPECIFICATION WorldSpec
CONSTANTS
  order = order
  slow = slow
  restored = restored
  Entity <- MCEntity
  Prefix <- MCPrefix
  Kind <- MCKind
  Resolving <- MCResolving
  Refs <- MCRefs
  Reported <- MCReported
  MaxEvents = 3
  MaxTime = 0
  MaxFaults = 0
PROPERTY
  UpgradedOnlyByResolution
\* every event may have been taken
CHECK_DEADLOCK FALSE

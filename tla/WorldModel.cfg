SPECIFICATION WorldSpec
CONSTANTS
  order = order
  slow = slow
  restored = restored
  Entity <- MCEntity
  Prefix <- MCPrefix
  Kind <- MCKind
  Resolving <- MCResolving
  Refs <- MCRefs
  Reported <- MCReported
  MaxEvents = 3
  MaxTime = 1
  MaxFaults = 1
INVARIANTS
  WorldTypeOK
  EntitiesAgree
  CriticalIsOpen
\* every event may have been taken
CHECK_DEADLOCK FALSE

SPECIFICATION Spec
CONSTANTS
  order = order
  orderDb = orderDb
  slow = slow
  restored = restored
  Entity <- MCEntity
  Prefix <- MCPrefix
  Kind <- MCKind
  Resolving <- MCResolving
  Refs <- MCRefs
  Reported <- MCReported
  MaxEvents = 3
  MaxTime = 1
  MaxFaults = 0
INVARIANT ExpiryKeepsRunning
CHECK_DEADLOCK FALSE

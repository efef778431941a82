SPECIFICATION Spec
CONSTANTS
  alarm = alarm
  report = report
  NoId = NoId
  Garbled = Garbled
  Event <- MCEvent
  Urgent <- MCUrgent
  Notable <- MCNotable
  Linked <- MCLinked
  MaxLog = 2
  MaxFaults = 1
INVARIANT NoEventLost
CHECK_DEADLOCK FALSE

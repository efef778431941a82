SPECIFICATION FairSpec
CONSTANTS
  alarm = alarm
  report = report
  NoId = NoId
  Garbled = Garbled
  Event <- MCEvent
  Urgent <- MCUrgent
  Notable <- MCNotable
  Linked <- MCLinked
  MaxLog = 3
  MaxFaults = 1
INVARIANTS
  TypeOK
  WritesAccountedFor
  StrengthenedOnce
PROPERTY Drains
\* the topic may be read to its end
CHECK_DEADLOCK FALSE

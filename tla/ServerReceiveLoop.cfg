SPECIFICATION FairSpec
CONSTANTS
  MaxAlarms = 3
  MaxPackets = 2
  TimeSteps <- TimeStepsBound
INVARIANTS
  NeverKilledByAlarm
  CountingInv
  ReportInv
PROPERTIES
  ReadyIsTaken

SPECIFICATION FairSpec
CONSTANTS
  BatchSize = 2
  MaxSeqNumbers = 2
  StatsEnabled = TRUE
  CsvEnabled = TRUE
  MaxPackets = 4
  MaxAnswers = 2
INVARIANTS
  SendInv
  CountReported
PROPERTIES
  WrongOnlyIfOvertaken
  ShutdownCompletes

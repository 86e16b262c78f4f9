SPECIFICATION FairSpec
CONSTANTS
  Seqs = {0}
  SeqSpace = 16
  Unstamped = {1}
  Sizes = {0, 8}
  MaxSeqNumbers = 2
  QueueCap = 1
  MaxBatch = 2
  TsBatch = 2
  CsvEnabled = TRUE
  StatsEnabled = TRUE
  MaxArrivals = 2
  MaxErrors = 1
INVARIANTS
  DrainEmptiesQueue
PROPERTIES
  UpdateLostOnlyIfOvertaken ShutdownCompletes

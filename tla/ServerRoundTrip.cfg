SPECIFICATION Spec
CONSTANTS
  Seqs = {0}
  SeqSpace = 16
  Unstamped = {2}
  Sizes = {8}
  MaxSeqNumbers = 2
  QueueCap = 2
  MaxBatch = 2
  TsBatch = 1
  CsvEnabled = TRUE
  StatsEnabled = FALSE
  MaxArrivals = 3
  MaxErrors = 0
INVARIANTS
  OnceInv
PROPERTIES
  OwnStampOnceFiled KernelStampOwnOrStale

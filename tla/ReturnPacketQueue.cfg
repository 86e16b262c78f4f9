SPECIFICATION QueueSpec
CONSTANTS
  Size = 4
  MaxBatchSize = 2
  MaxOffered = 9
INVARIANTS
  FullInv
PROPERTIES
  ImplementsFifo

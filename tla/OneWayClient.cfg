SPECIFICATION FairSpec
CONSTANTS
  BatchSize = 2
  TsBatch = 2
  MaxPackets = 4
  MaxErrors = 2
INVARIANTS
  SendInv
  CompletionsAccounted
  BuffersOutliveThread
PROPERTIES
  ShutdownCompletes

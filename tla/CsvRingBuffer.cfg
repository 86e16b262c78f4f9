SPECIFICATION FairSpec
CONSTANTS
  Size = 4
  BatchSize = 2
  RowBytes = 255
  SlotBytes = 256
  MaxOffered = 6
  MaxFaults = 1
INVARIANTS
  RingInv
  FileFollowsRing
  FinalFlushLossBound
PROPERTIES
  DestroyReturns
  AcceptedIsTaken
  ImplementsFifo

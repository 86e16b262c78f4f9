SPECIFICATION Spec
CONSTANTS
  TX_FRAMES = 2
  RX_FRAMES = 2
  TX_BATCH_SIZE = 2
  COMP_SIZE = 5
  DRIVER_DEPTH = 1
  MAX_ENTRIES = 2
  Shapes <- MCShapes
  Destinations = {1, 2}
  COUNT_RANGE = 2
  CLIENT_ENTRIES = 170
  MaxPackets = 3
  MaxMessages = 2
  MaxFaults = 1
INVARIANTS
  TxInv
  OverwrittenOnlyIfBacklogged
  RxFramesConserved
  StrandedOnlyIfRefused
  DestinationsHonoured
PROPERTIES
  StopReturns

SPECIFICATION Spec
CONSTANTS
  Requested = 3
  Updaters = {txts, rx}
  Numberings <- MCNumberings
  MaxBatch = 2
  MaxPackets = 6
  MaxLookups = 1
SYMMETRY UpdaterSymmetry
INVARIANTS
  RecorderInv
  MisplacedOnlyByLapOrNumber
  MissOnlyIfTorn

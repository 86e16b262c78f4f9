SPECIFICATION AnalysisSpec
CONSTANTS
  Stamps <- Kinds
  MaxEntries = 6
  Capacity = 5
  BinWidth = 2
  MaxBins = 3
  Limit = 6
INVARIANTS
  AnalysisInv
  PercentilesBetweenRanks

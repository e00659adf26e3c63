SPECIFICATION Spec
CONSTANTS
  Half = 2
  Info <- CombinedInfo
  Data <- CombinedData
  Starts = {57}
  Steps = {0, 1, 6}
  MaxCycles = 3
INVARIANT NoDataOnlyIfEmpty
 

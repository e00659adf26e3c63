SPECIFICATION Spec
CONSTANTS
  Half = 4
  Info <- SingleInfo
  Data <- SingleData
  Starts = {57}
  Steps = {1, 60}
  MaxCycles = 7
INVARIANTS TypeOK SumsMatch FreshWindow
PROPERTIES PublishesMeans

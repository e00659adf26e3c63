SPECIFICATION Spec
CONSTANTS
  Period = 3
  Sections <- Mixed
  MaxTime = 9
  MaxForkFails = 1
  MaxStops = 1
  MaxSkews = 0
INVARIANT TypeOK
INVARIANT OneProcess
INVARIANT AlarmsSorted
INVARIANT OneCycleAlarm

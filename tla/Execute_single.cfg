SPECIFICATION FairSpec
CONSTANTS
  Period = 3
  Sections <- One
  MaxTime = 12
  MaxForkFails = 1
  MaxStops = 0
  MaxSkews = 1
INVARIANT AlarmsArmed
INVARIANT LimitEnforced
PROPERTY CyclesSaved

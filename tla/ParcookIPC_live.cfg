SPECIFICATION FairSpec
CONSTANTS
  NLines = 1
  Readers = {r1, r2}
  Refs <- OneRef
  Tokens = {a}
  MaxDeaths = 1
  MaxExits = 0
CHECK_DEADLOCK FALSE
PROPERTIES DaemonGetsThrough CyclesComplete ReaderGetsThrough

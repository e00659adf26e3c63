SPECIFICATION Spec
CONSTANTS
  NLines = 1
  Readers = {r1, r2}
  Refs <- OneRef
  Tokens = {a, b}
  MaxDeaths = 1
  MaxExits = 1
SYMMETRY Symmetry
CHECK_DEADLOCK FALSE
INVARIANTS TypeOK   UnlockNeverWaits 

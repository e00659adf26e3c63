SPECIFICATION RSpec
CONSTANTS
  Files = {p, s}
  Params = {p}
  Stamp = s
  Watched = p
  LastMonth = 1
  MaxProbes = 3
  MaxBlocks = 1
  Values = {v}
  NoData = NoData
  Junk = Junk
CONSTRAINT Horizon
INVARIANTS RTypeOK CacheFaithful SearchExact

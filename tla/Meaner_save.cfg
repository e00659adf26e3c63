SPECIFICATION MSpec
CONSTANTS
  NParams = 1
  NStatus = 1
  LastMonth = 1
  MaxProbes = 2
  Values = {v}
  NoData = NoData
INVARIANTS MTypeOK WrittenInPlace
PROPERTIES ImplementsArchive StampCommits

CONSTANTS
  NumberOfPars = 2
  Configs <- TwoConfigs
  SendNoData = {1}
  Values = {v}
  NoData = NoData
  QMax = 3
  RMax = 1
  Fits = 1
  Retry = 1
  MaxEvents = 1
SPECIFICATION FairSpec
INVARIANTS TypeOK 
PROPERTY SetPointArrives

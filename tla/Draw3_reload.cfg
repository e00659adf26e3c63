CONSTANTS
  Prefixes = {a}
  Defined = {d}
  Home <- OneHome
  Reads <- AllBases
  Sent = {"get", "check", "extract"}
  Rankings = {1, 2}
  Configuration = Configuration
  MaxPending = 3
  MaxVersion = 2
SPECIFICATION FairSpec
INVARIANTS TypeOK QueueCounts ParamsAlive DefinedAlive  NoChangeLost
PROPERTY Settles

SPECIFICATION Spec
CONSTANTS
  ColumnFamilies = {"0", "1", "2", "3", "5", "6", "7", "10", "12", "13", "15"}
  nullptr = nullptr
  NaN = NaN
  Null = Null
  Last = 1
  MaxTxs = 2
  MaxProposals = 1
  MinProposals = 1
  FaultColumns = {"0", "1", "2", "3", "5", "6", "7", "10", "12", "13", "15"}
  MaxFaults = 1
  MaxRemovals = 1
  Missing = {{}}
  Databases <- MCDatabases
  Families <- MCFamilies
  CommandLines <- WholeRange
INVARIANTS
  TypeOK
  OwnBlockData
  NoTransactionLostOrRepeated
  InfoIsOwnAndComplete
  OnlyFirstCell
  ExitCodeExplains
CHECK_DEADLOCK FALSE

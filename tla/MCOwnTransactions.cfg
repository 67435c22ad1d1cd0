SPECIFICATION Spec
CONSTANTS
  ColumnFamilies = {"0", "1", "2", "3", "5", "6", "7", "10", "12", "13", "15"}
  nullptr = nullptr
  NaN = NaN
  Null = Null
  Last = 1
  MaxTxs = 1
  MaxProposals = 1
  MinProposals = 0
  FaultColumns = {}
  MaxFaults = 0
  MaxRemovals = 0
  Missing = {{}}
  Databases <- MCDatabases
  Families <- MCFamilies
  CommandLines <- WholeRange
INVARIANTS
  BlockHasOwnTransactions
CHECK_DEADLOCK FALSE

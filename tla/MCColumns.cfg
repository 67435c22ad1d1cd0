SPECIFICATION Spec
CONSTANTS
  ColumnFamilies = {"0", "1", "2", "3", "5", "6", "7", "10", "12", "13", "15"}
  nullptr = nullptr
  NaN = NaN
  Null = Null
  Last = 2
  MaxTxs = 1
  MaxProposals = 0
  MinProposals = 0
  FaultColumns = {"5", "15"}
  MaxFaults = 2
  MaxRemovals = 0
  Missing = {{}, {"0"}, {"1"}, {"2"}, {"3"}, {"5"}, {"6"}, {"7"}, {"10"}, {"12"}, {"13"}, {"15"}}
  Databases <- MCDatabases
  Families <- MCFamilies
  CommandLines <- AnyCommandLine
INVARIANTS
  OptionalDataIsOfThisBlock
  ExtensionSource
  FaultOnlyInFailedRun
PROPERTIES
  ImplementsExportRange
CHECK_DEADLOCK FALSE

SPECIFICATION Spec
CONSTANTS
  ColumnFamilies = {cf10, cf12}
  cf10 = cf10
  cf12 = cf12
  nullptr = nullptr
  Keys = {1, 2}
  MaxChanges = 2
INVARIANTS
  TypeOK
  UsableMeansOpen
  FaultWasReported
  ScanIsPrefix
PROPERTIES
  StaleOKOnlyForMissingColumn
SYMMETRY Symmetry
CHECK_DEADLOCK FALSE

SPECIFICATION Spec
CONSTANTS
  Byte = 200
  nullptr = nullptr
  ColumnFamilies <- MCColumnFamilies
  Families <- MCFamilies
  Empty <- MCEmpty
  NoDocument <- Null
  ParseFromByte <- MCParseFromByte
  RowValues <- MCRowValues
  Started = {"main_uncles", "main_data_entry", "main_entry", "main_epoch_ext"}
  Keys = {1, 2}
  MaxChanges = 1
INVARIANTS
  OwnDocument
  ZeroMeansComplete
  ExitCodeExplains

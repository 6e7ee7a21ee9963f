SPECIFICATION Spec
CONSTANTS
  Elements <- MCElements
  TupleCounts = {0, 1, 3}
  BlockSizes = {2, 3}
  PackedTables <- MCPackedTables
  Leads = {0, 1}
  Cuts = {1, 2}
  BlocksPerBatch = 2
  MaxChanges = 1
  Error = Error
  NoSpec = NoSpec
INVARIANT ParsedSizeIsStoredSize

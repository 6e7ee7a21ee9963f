SPECIFICATION PythonSpec
CONSTANTS
  y1 = y1
  l1 = l1
  l2 = l2
  l3 = l3
  l4 = l4
  l5 = l5
  NoLease = NoLease
  NoData = NoData
  Layers = {y1}
  Leases = {l1, l2, l3, l4, l5}
  MountArguments = {"unset", "valid", "malformed"}
  MaxChildren = 1
  Chunks = 2
  MaxLeft = 1
  Readers = {"native"}
  Names = {}
  Results = {}
  MountPaths = {}
  None = None
INVARIANT CopyIsWhole

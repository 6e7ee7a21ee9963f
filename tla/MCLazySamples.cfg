SPECIFICATION Spec
CONSTANTS
  t1 = t1
  t2 = t2
  value_ = value_
  chunk = chunk
  other = other
  l1 = l1
  l2 = l2
  Unregistered = Unregistered
  NoCall = NoCall
  NoLoader = NoLoader
  NoValue = NoValue
  Threads = {t1, t2}
  Attributes = {value_, chunk, other}
  Paths = {"p", "q"}
  CanonicalPath <- MCCanonical
  Times = {0, 1, 2}
  Loaders = {l1, l2}
  SampleLists <- MCLists
  MaxVersion = 1
  MountPaths <- MCMountPaths
  HomeOf <- MCHomeOf
  PrimNames = {"d", "w", "f"}
  Metadata = Metadata
  NoProperty = NoProperty
INVARIANTS RightSampleIsFound QueriesAgree
PROPERTY CacheSettles
SYMMETRY MCSymmetry

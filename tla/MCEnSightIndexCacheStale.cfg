SPECIFICATION Spec
CONSTANTS
  Threads = {t1, t2}
  g1 = g1
  GeoKeys = {g1}
  VarKeys = {v1}
  Futures = {f1, f2, f3, f4}
  GeoOf <- MCGeoOf
  MaxVersion = 1
  NoFuture = NoFuture
  NoKey = NoKey
INVARIANT IndexIsCurrent

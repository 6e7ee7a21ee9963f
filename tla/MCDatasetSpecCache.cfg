SPECIFICATION FairSpec
CONSTANTS
  Threads = {t1, t2}
  Paths = {p1, p2}
  Flights = {f1, f2}
  MaxCachedSpecs = 1
  MaxVersion = 1
  Size <- MCSize
  Mtime <- MCMtime
  Prefix <- MCPrefix
  Content <- MCContent
  NoEntry = NoEntry
  NoFlight = NoFlight
  NoPath = NoPath
  NoOutcome = NoOutcome
INVARIANTS TypeOK SingleFlight InFlightHasLeader NoLostWakeup FreshResult CacheBounded
PROPERTIES EvictionProtectsNewest ImplementsService EveryCallReturns

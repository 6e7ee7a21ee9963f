SPECIFICATION Spec
CONSTANTS
  Threads = {t1, t2}
  Paths = {p1}
  Flights = {f1, f2}
  MaxCachedSpecs = 1
  MaxVersion = 2
  Size <- MCRestored
  Mtime <- MCRestored
  Prefix <- MCRestored
  Content <- MCRestored
  NoEntry = NoEntry
  NoFlight = NoFlight
  NoPath = NoPath
  NoOutcome = NoOutcome
INVARIANT ResultWasCurrent

SPECIFICATION Spec
CONSTANTS
  f0 = f0
  f2 = f2
  f02 = f02
  Absent = Absent
  Broken = Broken
  NoStamp = NoStamp
  NoFile = NoFile
  Readers = {"EDEM"}
  Sources = {"TimeStep", "TimeValue"}
  Scales <- MCScales
  TimeOffset = 10
  Decks = {0, 2, 3}
  Files = {f0, f2, f02}
  Number <- MCNumber
  Padded = {f02}
  Fields = {"p", "U"}
  Stamps = {1, 3}
  Contents <- MCContents
  MaxWrites = 0
INVARIANT EveryTimestepFileIsASample

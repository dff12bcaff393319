CONSTANTS
  Keys = {k1}
  MainStores = {m1, m2, m3}
  WriteOnlyStores = {w1}
  NumShards = 1
  RowIds = {1}
  MinAge = 1
  MaxRetries = 2
  MaxFaults = 2
  Puts = {p1}
  WriteQuorum = 2
  PutTimeout = 1
  Readers = {r1}
  ReadOps = {"get", "is_present", "scrub"}
  ScrubModes = {"SkipMissing", "Scrub", "PopulateIfAbsent", "ScrubIfAbsent"}
  KnobSettings <- SomeKnob
SYMMETRY Symmetry
SPECIFICATION ReadsSpec
INVARIANTS ReadsTypeOK ReadYourWrites UndecidedOnlyOnFailure ScrubFindsAcked

SPECIFICATION FairSpec
CHECK_DEADLOCK FALSE
CONSTANTS
  Due = {d1}
  Manual = {m1}
  Imports = {i1}
  Creds = {d1, m1, i1, First}
  NoOne = NoOne
  First = First
  Faults = TRUE
  Aging = {First}
  MaxOverruns = 1
  MaxCrashes = 1
INVARIANTS
  TypeOK
  RotationSerialized
  OverrunIsContained
  HeldUntilProbed
PROPERTIES
  EveryRefreshEnds

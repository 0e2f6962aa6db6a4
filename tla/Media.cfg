SPECIFICATION FairSpec
CHECK_DEADLOCK FALSE
CONSTANTS
  Uploads = {3, 4}
  Kept <- MCKept
  Encoded = {3}
  Downloads = {d1}
  Admins = {a1}
  Size <- MCSize
  Limits = {5}
  Expiring = {2}
  Leaving = {3}
  Nobody = Nobody
  MaxMishaps = 1
INVARIANTS
  CapacityHeld
  ReadersUndisturbed
  StoredMeansThere
  DirectoryInOrder
PROPERTIES
  EveryOperationEnds

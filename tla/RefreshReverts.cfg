SPECIFICATION Spec
CHECK_DEADLOCK FALSE
CONSTANTS
  Due = {d1, d2}
  Manual = {m1}
  Imports = {}
  Creds = {d1, d2, m1, First}
  NoOne = NoOne
  First = First
  Faults = FALSE
  Aging = {m1, First}
  MaxOverruns = 0
  MaxCrashes = 0
SYMMETRY Symmetric
INVARIANT CredentialNeverReverts

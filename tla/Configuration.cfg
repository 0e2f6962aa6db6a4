SPECIFICATION FairSpec
CHECK_DEADLOCK FALSE
CONSTANTS
  i1 = i1  i2 = i2
  Retention = Retention  Base = Base  Strategy = Strategy
  Default = Default  NoInstance = NoInstance

  Instances = {i1, i2}
  Saves = {m1}
  Home <- MCHome
  Patches <- MCPatches
  Fields = {Retention, Base, Strategy}
  Migrations = 2
  MaxFaults = 2
INVARIANTS
  PeersConverge
  SettingsTakeEffect
  SchemaReady
PROPERTIES
  EveryInstanceListens

SPECIFICATION Spec
CONSTANTS
  i1 = i1  i2 = i2  a1 = a1  a2 = a2  r1 = r1  r2 = r2  r3 = r3
  p1 = p1  k1 = k1
  NoAccount = NoAccount  NoKey = NoKey  Nobody = Nobody  Sync = Sync
  InitialCred = c0  Creds <- MCCreds  Limit <- MCLimit  Tier <- MCTier

  Instances = {i1, i2}
  Accounts = {a1}
  Requests = {r1, r2, r3}
  Probes = {r2}
  Admins = {}
  Home <- MCHome
  Keys = {k1}
  KeyOf <- MCNoKeyOf
  Excludes <- MCNoExclusion
  PreferBest = FALSE
  LeaseTTL = 2
  AffinityTTL = 2
  ForbiddenCooldown = 1
  RateLimitCooldown = 1
  QuotaReset = 1
  TransientDelays = {1}
  Feedbacks <- MCPlain
  AdminOps = {}
  Strategies = {"affinity"}
  MaxFailures = 2
  MaxTime = 4
INVARIANTS
  Capacity
PROPERTIES
  ImplementsSemaphore

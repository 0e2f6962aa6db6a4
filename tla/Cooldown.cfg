SPECIFICATION Spec
SYMMETRY Interchangeable
CONSTANTS
  i1 = i1  i2 = i2  a1 = a1  a2 = a2  r1 = r1  r2 = r2  r3 = r3
  p1 = p1  k1 = k1
  NoAccount = NoAccount  NoKey = NoKey  Nobody = Nobody  Sync = Sync
  InitialCred = c0  Creds <- MCCreds  Limit <- MCLimit2  Tier <- MCTier

  Instances = {i1}
  Accounts = {a1}
  Requests = {r1, r2, r3}
  Probes = {}
  Admins = {}
  Home <- MCHome1
  Keys = {k1}
  KeyOf <- MCNoKeyOf
  Excludes <- MCNoExclusion
  PreferBest = FALSE
  LeaseTTL = 5
  AffinityTTL = 2
  ForbiddenCooldown = 1
  RateLimitCooldown = 1
  QuotaReset = 1
  TransientDelays = {1}
  Feedbacks <- MCQuota
  AdminOps = {}
  Strategies = {"affinity"}
  MaxFailures = 0
  MaxTime = 2
PROPERTIES
  FeedbackKeepsCooldown
  NoAdmissionWhileBlocked

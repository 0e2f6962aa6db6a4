SPECIFICATION Spec
CONSTANTS
  i1 = i1  i2 = i2  a1 = a1  a2 = a2  r1 = r1  r2 = r2  r3 = r3
  p1 = p1  k1 = k1
  NoAccount = NoAccount  NoKey = NoKey  Nobody = Nobody  Sync = Sync
  InitialCred = c0  Creds <- MCCreds  Limit <- MCLimit  Tier <- MCTier

  Instances = {i1}
  Accounts = {a1}
  Requests = {r1, r3}
  Probes = {r3}
  Admins = {p1}
  Home <- MCHome1
  Keys = {k1}
  KeyOf <- MCKeyOf
  Excludes <- MCNoExclusion
  PreferBest = FALSE
  LeaseTTL = 5
  AffinityTTL = 1
  ForbiddenCooldown = 1
  RateLimitCooldown = 1
  QuotaReset = 1
  TransientDelays = {1}
  Feedbacks <- MCDenials
  AdminOps = {"activate", "disable", "edit", "refresh", "quarantine", "delete"}
  Strategies = {"affinity", "round_robin"}
  MaxFailures = 1
  MaxTime = 1
INVARIANTS
  TypeOK
  InflightAccounted
  NoSlotLeak
  DeletedStaysRemoved
PROPERTIES
  FeedbackRespectsRow

SPECIFICATION FairSpec
CHECK_DEADLOCK FALSE
CONSTANTS
  Accounts = {o1, s1}
  NoAccount = NoAccount
  Sso = {s1}
  OAuth = {o1}
  Proxied = {s1}
  Unfinished = {"pending"}
  MaxFaults = 1
  MaxCrashes = 1
  MaxAttempts = 3
  Ops = {"chat", "responses", "messages", "image", "edit", "video"}
  Providers <- MCProviders
  Tools = {1, 2}
  Fragments = 1
  Bodies <- MCBodies
  ChannelCapacity = 1
  MaxMessages = 3
  Pictures = {1, 2, 3}
  Moderated = {3}
  MaxPictures = 2
  ImagineCapacity = 3
  MaxFrames = 4
  MaxReferences = 2
INVARIANTS
  SettledOnce
  OneCallPerAccount
  FramesWellFormed
  AnswerDelivered
  JobsTracked
PROPERTIES
  NoRetryAfterBytes
  EverythingEnds

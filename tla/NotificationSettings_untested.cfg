SPECIFICATION Spec
CONSTANTS
  slack = slack
  feishu = feishu
  u1 = u1
  u2 = u2
  plain = plain
  keyed = keyed
  waf = waf
  Empty = Empty
  FollowGlobal = FollowGlobal
  Platforms <- MCPlatforms
  Urls <- MCUrls
  Secrets <- MCSecrets
  Events <- MCEvents
  GlobalEvents <- MCGlobalEvents
  Tunings <- MCTunings
  InitialSettings <- MCInitialSettings
  MaxEndpoints = 1
  MaxInFlight = 2
  MaxEdits = 4
CHECK_DEADLOCK FALSE
PROPERTIES OnlyTestedIsAdded

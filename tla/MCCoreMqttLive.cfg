SPECIFICATION FairSpec
CONSTANTS
  Clients = {c1}
  NoClient = NoClient
  Settings <- ProvisionedSettings
  TokenRefreshFailureThreshold = 1
  NetworkRecoveryFailureThreshold = 1
  MaxFailures = 1
  ResourcesMayFail = FALSE
INVARIANT OnlineNeedsClient
PROPERTIES
  NobodyWaitsForever
  OnlineFlagSettles
  Recovers

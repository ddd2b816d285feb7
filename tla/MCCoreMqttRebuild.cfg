SPECIFICATION FairSpec
CONSTANTS
  Clients = {c1}
  NoClient = NoClient
  Settings <- ProvisionedSettings
  TokenRefreshFailureThreshold = 1
  NetworkRecoveryFailureThreshold = 2
  MaxFailures = 2
  ResourcesMayFail = TRUE
PROPERTY KeepsRebuilding

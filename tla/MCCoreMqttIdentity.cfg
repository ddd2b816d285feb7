SPECIFICATION Spec
CONSTANTS
  Clients = {c1, c2}
  NoClient = NoClient
  Settings <- ProvisionedSettings
  TokenRefreshFailureThreshold = 3
  NetworkRecoveryFailureThreshold = 5
  MaxFailures = 5
  ResourcesMayFail = FALSE
PROPERTY IdentityAnnounced

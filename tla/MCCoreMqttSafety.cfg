SPECIFICATION Spec
CONSTANTS
  Clients = {c1, c2}
  NoClient = NoClient
  Settings <- AnySettings
  TokenRefreshFailureThreshold = 3
  NetworkRecoveryFailureThreshold = 5
  MaxFailures = 5
  ResourcesMayFail = TRUE
SYMMETRY HandleSymmetry
INVARIANTS
  SingleSession
  HandleLive
  NoCallbackAfterDestroy

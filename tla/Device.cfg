SPECIFICATION DeviceSpec
CONSTANTS
  Profiles = {p1, p2}
  Hops = {1}
  Wallets = {w1}
  Workers = {nbh}
  Neighborhood = nbh
  MaxRuns = 2
  NoConfig = NoConfig
  NoWallet = NoWallet
  Platforms = {"android", "ios"}
  RetryOffered = FALSE
  Failures = {TRUE, FALSE}
  MaxAttempts = 2
  MaxEvents = 4
  MaxStarts = 2
  MaxStops = 2
  MaxRevokes = 0
  CloseMayFail = TRUE
SYMMETRY ProfileSymmetry
INVARIANTS
  DeviceTypeOK
  OnlyLatestMesh
  RunningProfileIsConfigured
  ProxyOffUnlessRunning
  StopIsDelivered
  NoMeshWithoutEngine
  PagesGoWhereShown
  BackgroundMeansBlocked
  TunnelIsTruthful
PROPERTIES
  StopIsAcknowledgedClosed

SPECIFICATION Spec
CONSTANTS
  Profiles = {p1}
  Hops = {1}
  Wallets = {w1}
  Workers = {nbh}
  Neighborhood = nbh
  MaxRuns = 1
  NoConfig = NoConfig
  NoWallet = NoWallet
INVARIANT
  ReadyAcknowledgesSilence

CONSTANTS
  Threads = {t1, t2}
  PEER_MAX = 1
  SettingsInputs <- MCSettingsInputs
  PeerInputs <- MCPeerInputs
  SmallDefaults <- MCSmallDefaults
  Profiles = {"small"}
  LargeText <- MCLargeText
  Flashes <- MCOddFlash
SYMMETRY Symmetry
SPECIFICATION Spec
INVARIANTS TypeOK Converged ValidUnlessTorn BootsToValidSettings
PROPERTY KeepsPromise

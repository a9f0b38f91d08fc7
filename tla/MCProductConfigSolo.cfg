CONSTANTS
  Threads = {t1}
  PEER_MAX = 2
  SettingsInputs <- MCSettingsInputs
  PeerInputs <- MCManyPeerInputs
  SmallDefaults <- MCSmallDefaults
  Profiles = {"small", "large"}
  LargeText <- MCOtherText
  Flashes <- MCFlashes
SPECIFICATION Spec
INVARIANTS BootsToValidSettings RebootPreserves

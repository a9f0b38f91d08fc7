CONSTANTS
  PEER_MAX = 2
  P2P_PEER_MAX = 2
  Addresses = {"a", "b"}
  Names = {"n"}
  Stored <- MCStored
  Offered <- MCOffered
SPECIFICATION Spec
INVARIANTS TypeOK SeedsMatch SavedPeerApplied SeededIsReported

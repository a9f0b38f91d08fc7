CONSTANTS
  PEER_MAX = 2
  HOST_MAX = 4
  Defaults <- MCDefaults
  Texts = {7}
  Modes = {"auto", "wifi"}
  Ports <- MCPorts
  Flags <- MCFlags
  PeerIndices <- MCIndices
  PeerArguments <- MCPeerArguments
SPECIFICATION Spec
INVARIANTS TypeOK BothCopiesValid UnsavedIsKnown
PROPERTIES NumbersFollowLabels ErrorKeepsSettings

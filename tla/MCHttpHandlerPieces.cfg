CONSTANTS
  Clients = {c1}
  Requests <- TwoPieces
  NoClient = NoClient
  SLOTS = 2
  PEER_MAX = 1
  NAME_MAX = 4
  HOST_MAX = 4
  TEST_MAX = 4
  FALLBACK = 1884
  Factory <- TheFactory
SPECIFICATION Spec
PROPERTY TooLargeIsRefused

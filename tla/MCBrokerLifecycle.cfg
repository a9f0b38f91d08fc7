CONSTANTS
  LINK_SAMPLES = 5
  LINK_STABLE = 3
  Flashes <- MCFlashes
  Flags = {0, 1, 2}
  MaxRestarts = 2
SPECIFICATION FairSpec
INVARIANTS TypeOK RunningIsReal ErrorIsReal QuietResetStands
PROPERTIES CreatedOncePerBoot PeersHiddenOnRequest LinkDecided LateWriteOnce BrokerComesUp RequestAnswered

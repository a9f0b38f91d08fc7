CONSTANTS
  PERIOD = 2
  FAST = 3
  SLOW = 4
  POLL = 2
  HOLD = 5
SPECIFICATION Spec
INVARIANTS TypeOK OneResetPerHold HeldLongEnough StoppedIsDark KeepsBlinking
PROPERTY NoEarlyReset

CONSTANTS
  LINK_SAMPLES = 3
  LINK_STABLE = 2
  Flashes <- MCFlashes
  Flags = {0, 1, 2}
  MaxRestarts = 1
SPECIFICATION Spec
INVARIANT ResetStands

SPECIFICATION PwmSpec
CONSTANTS
  Channels = {1, 2}
  Wired = {1, 2}
  PwmClock = 144000000
  Periods = {100000, 1000000, 1000000000}
  Pulses = {0, 50000, 100000, 1500000}
  PwmUses = {}
INVARIANTS
  PwmAsSet

SPECIFICATION Spec
CONSTANTS
  c1 = c1
  c2 = c2
  Calls = {c1, c2}
  Installed <- MCInstalled
  Setups <- MCSetups
INVARIANTS
  NothingMissed
  MetersTruthful
  NoisePolicy
CHECK_DEADLOCK FALSE

SPECIFICATION LiveSpec
CONSTANTS
  p1 = p1  p2 = p2
  Proc = {p1, p2}
  Tails = 2
  Clock = {0, 2}
  MaxMints = 3
  MaxEvents = 2
  MaxFaults = 2
INVARIANTS OverlayIsDisk StatsKept
PROPERTIES AppendsInOrder NobodyWaitsForever

SPECIFICATION Spec
CONSTANTS
  r1 = r1
  Runs = {r1}
  Calls = {x1, x2}
  RunOf <- Competing
  TTL = 4
  MinInterval = 1
  MaxInterval = 2
  Latency = 1
  MaxClock = 7
  NoLease = NoLease
INVARIANTS
  TypeOK
  HealthyKeepsLease
PROPERTIES
  FencedWrites
  NoEarlyTakeover
\* The clock is bounded and every call ends.
CHECK_DEADLOCK FALSE

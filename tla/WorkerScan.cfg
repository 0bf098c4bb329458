SPECIFICATION LiveSpec
CONSTANTS
  Runs = {1, 2}
  Broken = {}
  Clients = {c1}
  Workers = {w1, w2}
  UseQueue = TRUE
  MaxFaults = 1
  NoRun = NoRun
INVARIANTS
  TypeOK
  DispatchedOnce
PROPERTIES
  IntentServed

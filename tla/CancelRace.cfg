SPECIFICATION Spec
CONSTANTS
  Tasks = {1}
  DependsOn <- Flat
  Planned <- Pending
  Verifiable = {}
  Executors = {e1}
  Workers = {e1}
  Overlapping = {}
  Handlers = {h1}
  HandlerOps = {"cancel"}
  StopAfter = {0}
  Outcomes = {"qualified", "unqualified", "error"}
  MaxAttempts = 2
  MaxFaults = 0
  Nobody = Nobody
  Orphan = Orphan
PROPERTIES
  CancelledIsFinal
\* A settled run leaves nothing to do.
CHECK_DEADLOCK FALSE

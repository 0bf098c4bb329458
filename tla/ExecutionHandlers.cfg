SPECIFICATION Spec
CONSTANTS
  Tasks = {1, 2}
  DependsOn <- Flat
  Planned <- Pending
  Verifiable = {1}
  Executors = {e1}
  Workers = {e1}
  Overlapping = {}
  Handlers = {h1}
  HandlerOps = {"cancel", "record", "retry"}
  StopAfter = {0}
  Outcomes = {"qualified", "unqualified", "error"}
  MaxAttempts = 2
  MaxFaults = 1
  Nobody = Nobody
  Orphan = Orphan
INVARIANTS
  RunConsistent
  FinishedPublished
PROPERTIES
  CancelledStands
\* A settled run leaves nothing to do.
CHECK_DEADLOCK FALSE

SPECIFICATION Spec
CONSTANTS
  Tasks = {1, 2}
  DependsOn <- Chain
  Planned <- Pending
  Verifiable = {1}
  Executors = {e1}
  Workers = {e1}
  Overlapping = {}
  Handlers = {h1}
  HandlerOps = {"retry", "reject", "replan"}
  StopAfter = {0}
  Outcomes = {"qualified", "unqualified", "error"}
  MaxAttempts = 2
  MaxFaults = 2
  Nobody = Nobody
  Orphan = Orphan
INVARIANTS
  FinishedPublished
  RunConsistent
  ChecksConsistent
PROPERTIES
  DurableRun
\* A settled run leaves nothing to do.
CHECK_DEADLOCK FALSE

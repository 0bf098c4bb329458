SPECIFICATION LiveSpec
CONSTANTS
  Tasks = {1}
  DependsOn <- Chain
  Planned <- Pending
  Verifiable = {1}
  Executors = {e1, e2}
  Workers = {e1}
  Overlapping = {}
  Handlers = {h1}
  HandlerOps = {"retry"}
  StopAfter = {0}
  Outcomes = {"qualified", "error"}
  MaxAttempts = 2
  MaxFaults = 2
  Nobody = Nobody
  Orphan = Orphan
PROPERTIES
  RunnableSettles
\* A settled run leaves nothing to do.
CHECK_DEADLOCK FALSE

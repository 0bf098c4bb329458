SPECIFICATION Spec
CONSTANTS
  Tasks = {1, 2}
  DependsOn <- Chain
  Planned <- Pending
  Verifiable = {2}
  Executors = {e1, e2}
  Workers = {e1}
  Overlapping = {e2}
  Handlers = {h1}
  HandlerOps = {"retry", "reject"}
  StopAfter = {1}
  Outcomes = {"qualified", "unqualified", "error"}
  MaxAttempts = 2
  MaxFaults = 1
  Nobody = Nobody
  Orphan = Orphan
INVARIANTS
  TypeOK
  RunConsistent
  ChecksConsistent
  OneCallPerReceipt
PROPERTIES
  DurableRun
\* A settled run leaves nothing to do.
CHECK_DEADLOCK FALSE

SPECIFICATION Spec
CONSTANTS
  Queries = {"run", "trace"}
  Starts = {"CREATED", "VERIFYING", "PARTIAL"}
  Kinds = {"execute", "replan", "cancel", "enqueue", "record", "analyze", "resolve"}
  MaxWrites = 3
  MaxClicks = 2
  MaxFailures = 1
INVARIANTS
  TypeOK
  OwnWritesShown
PROPERTIES
  EndFollowed
  EndsQuiet
\* A page that shows an ended run asks for nothing.
CHECK_DEADLOCK FALSE

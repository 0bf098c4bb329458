SPECIFICATION Spec
CONSTANTS
  e1 = e1
  e2 = e2
  p1 = p1
  p2 = p2
  t1 = t1
  r1 = r1
  r2 = r2
  Runs = {r1, r2}
  Targets = {t1}
  TargetOf <- Shared
  Processes = {p1, p2}
  Executors = {e1, e2}
  ProcessOf <- Apart
  Analysts = {a1}
  Decisions = {d1}
  MaxTheses = 3
  Nobody = Nobody
  Nothing = Nothing
SYMMETRY RunSymmetry
INVARIANTS
  FinishedRemembered
  ListsFinishedRuns

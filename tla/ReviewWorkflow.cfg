SPECIFICATION Spec
CONSTANTS
  Calls = {c1, c2, c3}
  support = support
  counter = counter
  first = first
  second = second
  None = None
  Evidence = {support, counter}
  Counter = {counter}
  Qualified = {support, counter}
  Hashes = {first, second, None}
  Roles <- TwoRoles
  Bodies <- SomeBodies
  Harvests = {{support, counter}, {support}, {counter}}
  MaxTheses = 2
  Racing = 2
SYMMETRY Symmetry
CHECK_DEADLOCK FALSE
INVARIANTS
  TypeOK
  PayloadConsistent
  DecidedOnce
  ListedOrCut
PROPERTIES
  VerdictExplained
  ChainGrows

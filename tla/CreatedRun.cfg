SPECIFICATION Spec
CONSTANTS
  Calls = {c1}
  support = support
  counter = counter
  first = first
  second = second
  None = None
  Evidence = {support, counter}
  Counter = {counter}
  Qualified = {support, counter}
  Hashes = {first, second, None}
  Roles <- TwoRoles
  Bodies <- SomeBodies
  Harvests = {{support, counter}, {support}}
  MaxTheses = 2
  Racing = 1
CHECK_DEADLOCK FALSE
PROPERTIES
  CreatedRunServed

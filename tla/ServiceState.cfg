SPECIFICATION Spec
CONSTANTS
  c1 = c1
  c2 = c2
  prep = prep
  h1 = h1
  h2 = h2
  h3 = h3
  scenario = scenario
  other = other
  absent = absent
  torn = torn
  nil = nil
  Callers <- MCCallers
  Prepare = prep
  Handles <- MCHandles
  Contents <- MCContents
  Scenario = scenario
  Absent = absent
  Torn = torn
  Nil = nil
INVARIANTS
  TypeOK
  NeverTorn
  QuiescedWhileReplaced
  NoLeftovers
PROPERTIES
  ImplementsStore
CHECK_DEADLOCK FALSE

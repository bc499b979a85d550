SPECIFICATION Spec
CONSTANTS
  c1 = c1
  c2 = c2
  c3 = c3
  Calls <- MCCalls
  Providers <- MCProviders
  Scenarios <- MCScenarios
  Requests <- MCRequests
  FirstId = 10
SYMMETRY Symmetry
INVARIANT DumpReloads
CHECK_DEADLOCK FALSE

SPECIFICATION Spec
CONSTANTS
  c1 = c1
  c2 = c2
  c3 = c3
  Calls <- MCCalls
  Providers <- MCProviders
  Scenarios <- MCScenarios
  Requests <- MCRequests
  FirstId = 10
SYMMETRY Symmetry
INVARIANTS
  TypeOK
  ReferencesExist
  KeyedByBody
  AnsweredIsWhole
  RefusedLeavesNothing
PROPERTIES
  ChangedAsAsked
CHECK_DEADLOCK FALSE

SPECIFICATION Spec
CONSTANTS
  c1 = c1
  c2 = c2
  r1 = r1
  a = a
  b = b
  Clients = {c1, c2}
  Readers = {r1}
  Ids <- MCIds
  Threads <- MCThreads
  Dates <- MCDates
  Labels <- MCLabels
  Hidden = {"TRASH"}
  Trash = "TRASH"
  Sent = "SENT"
  Scenarios <- MCScenarios
  Changes <- MCChanges
  Filters <- MCFilters
  Limits = {1, 2}
  Absent = absent
  Nothing = nothing
INVARIANTS
  TypeOK
  WalkMissesNothing
  WalkRepeatsNothing
  RefusedForCause
PROPERTIES
  ModifiedAsAsked
SYMMETRY Alike
CHECK_DEADLOCK FALSE

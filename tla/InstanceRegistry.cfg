SPECIFICATION Spec
CONSTANTS
  unknown = unknown
  pod1 = pod1
  pod2 = pod2
  destroy = destroy
  name1 = name1
  name2 = name2
  longer = longer
  Creators <- MCCreators
  Destroyers <- MCDestroyers
  Unknown <- MCUnknown
  Clustered <- MCClustered
  Names <- MCNames
  Objects <- MCObjects
  Labels <- MCLabels
  None = None
  Nobody = Nobody
  Torn = Torn
  Absent = Absent
SYMMETRY MCSymmetry
INVARIANTS
  TypeOK
  RecordsTellContainers
PROPERTIES
  ImplementsTable
CHECK_DEADLOCK FALSE

SPECIFICATION Spec
CONSTANTS
  c1 = c1
  c2 = c2
  None = None
  Absent = Absent
  Clients <- MCClients
  Texts <- MCTexts
  Values <- MCValues
  Sprint <- MCSprint
  Scalar <- MCScalar
  Decoded <- MCDecoded
  Fields <- MCFields
  IdKeys <- MCIdKeys
  Routes <- MCRoutes
  Bodies <- MCBodies
  Items <- MCItems
  Minted <- MCMinted
SYMMETRY MCSymmetry
INVARIANTS
  TypeOK
  DumpReloads
PROPERTIES
  CreateReplacesNothing
  WriteIsFound
  UpdatedAsAsked
CHECK_DEADLOCK FALSE

SPECIFICATION FairSpec
CONSTANTS
  N = 2
  r1 = r1
  r2 = r2
  Requests <- MCRequests
INVARIANTS
  TypeOK
  NoUseAfterClose
  NothingLeftBehind
  AnsweredIsLogged
PROPERTIES
  PlainIsNotRefused
  ImplementsSandbox
  StartEnds
  CommandEnds
  ListenersClose
CHECK_DEADLOCK FALSE

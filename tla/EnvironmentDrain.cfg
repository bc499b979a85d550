SPECIFICATION Spec
CONSTANTS
  N = 1
  r1 = r1
  r2 = r2
  Requests = {r1}
INVARIANT GracefulDrain
CHECK_DEADLOCK FALSE

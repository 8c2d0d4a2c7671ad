SPECIFICATION Spec
CONSTANTS
  m1 = m1  m2 = m2
  None = None
  Messages = {m1, m2}
  MaxPipe = 1
  MaxSteps = 3
SYMMETRY Symmetric
INVARIANTS TypeOK     
CHECK_DEADLOCK FALSE

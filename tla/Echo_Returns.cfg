\* Two echoes.
CONSTANTS
  j1 = j1
  j2 = j2
  j3 = j3
  Jobs = {j1, j2}
  Faults = {"send"}
SPECIFICATION Spec
PROPERTY
  EchoReturns
CHECK_DEADLOCK FALSE

SPECIFICATION Spec
CONSTANTS
  Keys = {k1, k2}
  Bodies = {b1, b2, bad}
  BadBodies = {bad}
  Ids = {i1, i2, i3}
  Reqs = {q1, q2, q3}
  None = None
  DbFails = TRUE
  MaxCrashes = 1
SYMMETRY Symmetry
INVARIANTS TypeOK SameAnswer AcceptedIsStored SagaHasTransaction
PROPERTY ImplementsEndpoint
CHECK_DEADLOCK FALSE

SPECIFICATION Spec
CONSTANTS
  c1 = c1
  c2 = c2
  None = None
  Conns <- MCConns
  HandlerCalls = {"send"}
  CallbackCalls = {"send"}
SYMMETRY MCSymmetry
CHECK_DEADLOCK FALSE
INVARIANTS UsedIsAlive CirclesAreKnown

SPECIFICATION Spec
CONSTANTS
  p1 = p1
  p2 = p2
  p3 = p3
  p4 = p4
  None = None
  Packets <- MCPackets4
  Size <- MCSize4
  Capacity = 3
  Foreign = {p2}
  Env = {}
  Server = "r"
CHECK_DEADLOCK FALSE
INVARIANTS CommitAssertion
